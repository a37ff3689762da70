\* One session whose first review fails half-way and whose second one succeeds.
SPECIFICATION MemSpec
CONSTANTS
  s1 = s1
  n1 = n1
  n2 = n2
  Sessions = {s1}
  Notes = {n1, n2}
INVARIANT FailedReviewKeepsNotes
CHECK_DEADLOCK FALSE
