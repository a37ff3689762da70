----------------------------- MODULE MCJevAudit -----------------------------
(* Small instances of JevAudit for TLC. *)
EXTENDS AuditReport, AuditSampling

CONSTANTS a, b, w1, w2, r1, r2, r3, r4, x, y, codex, other, t1, t2, t3

MCRunWeek == [r \in Runs |-> IF r = r2 THEN w2 ELSE w1]
MCRunPatch == [r \in Runs |-> IF r = r4 THEN y ELSE x]
MCJevModel == [r \in Runs |-> IF r # r2 THEN other ELSE None]
MCRouted == [r \in Runs |-> IF r = r4 THEN other ELSE None]
MCVersion == [t \in Prompts |-> IF t = t3 THEN 2 ELSE 1]

(* Three patches, of which one was reviewed twice; and three patches with    *)
(* every time and every kind of decision, in two weeks.                      *)
MCEntry(run, patch, created, kind) ==
  [run |-> run, patch |-> patch, created |-> created,
   week |-> IF kind = "later" THEN 2 ELSE 1,
   auto |-> kind # "explicit", risky |-> kind = "risky"]
MCTwice ==
  {{MCEntry(i, IF i = 1 THEN 2 ELSE i, time[i], kind[i]) : i \in 1 .. 4} :
     time \in [1 .. 4 -> {1, 2}], kind \in [1 .. 4 -> {"sure", "risky"}]}
MCMixed ==
  {{MCEntry(i, patch[i], time[i], kind[i]) : i \in 1 .. 3} :
     patch \in [1 .. 3 -> 1 .. 3], time \in [1 .. 3 -> {1, 2}],
     kind \in [1 .. 3 -> {"sure", "risky", "explicit", "later"}]}
MCHistories == MCTwice \cup MCMixed
MCRanks == {rank \in [1 .. 4 -> 1 .. 4] : rank[1] = 1 /\ IsInjective(rank)}

Symmetry == Permutations(Procs)
=============================================================================
