---------------------------- MODULE AuditSampling ----------------------------
(***************************************************************************)
(* How the cases of a week are chosen (prepare_plan.ts, sampling.ts): pure *)
(* operators on the decision history, a sequence in the order of its       *)
(* directories.  An entry has a run, the week and the time at which it was *)
(* created, the patch, and what the level decision tells: whether it was   *)
(* automatic, and whether it fell back or was unsure.  JevAudit leaves the *)
(* choice open (Selections).                                               *)
(***************************************************************************)
EXTENDS JevAudit, SequencesExt

CONSTANTS
  Histories,    \* bound: the histories, as sets of entries
  Ranks,        \* orders of the patches that the seed of a week may produce
  SampleLimit   \* cases of one stratum, 5 in the code

ASSUME SampleAssumption == SampleLimit \in Nat

(* Times and ids are compared as strings, and an id found twice is left out   *)
(* (readDecisionHistory); the rank of a patch is a hash.                      *)
ASSUME HistoriesAssumption ==
  \A H \in Histories :
    /\ IsFiniteSet(H)
    /\ \A e \in H : e.run \in Int /\ e.created \in Int
    /\ \A e, f \in H : e.run = f.run => e = f
    /\ \A rank \in Ranks : \A e, f \in H :
         rank[e.patch] \in Int /\ (rank[e.patch] = rank[f.patch] => e.patch = f.patch)

OldestFirst(e, f) == e.created < f.created \/ (e.created = f.created /\ e.run < f.run)

(* Broken: the entry that was read last represents the patch. *)
KeepNone(old, new) == FALSE

(* The newest entry represents a patch, of equally new ones the first id. *)
KeepExisting(old, new) ==
  new.created < old.created \/ (new.created = old.created /\ new.run > old.run)

(* What is kept of the entries read so far when E is read. *)
Keep(kept, e) ==
  IF \E old \in kept : old.patch = e.patch /\ KeepExisting(old, e)
  THEN kept
  ELSE {old \in kept : old.patch # e.patch} \cup {e}

(* The entries at these positions, read in the order of the history. *)
DedupeByPatch(history, positions) ==
  MapThenFoldSet(LAMBDA e, kept : Keep(kept, e), {}, LAMBDA i : history[i],
                 Max, positions)

(* The first "limit" candidates of an order. *)
FirstOf(candidates, Before(_, _), limit) ==
  {c \in candidates : Cardinality({d \in candidates : Before(d, c)}) < limit}

RandomSample(candidates, rank) ==
  FirstOf(candidates, LAMBDA c, d : rank[c.patch] < rank[d.patch], SampleLimit)

RiskSample(candidates) ==
  FirstOf({c \in candidates : c.risky}, OldestFirst, SampleLimit)

(* Each case with its stratum. *)
WeeklySelection(eligible, rank) ==
  LET random == RandomSample(eligible, rank)
  IN  [random |-> random, risk |-> RiskSample(eligible \ random)]

(* buildPlanFromHistory: the selection and the account of all entries. *)
BuildPlan(history, week, rank) ==
  LET inPeriod == {i \in DOMAIN history : history[i].week = week}
      inPeriodAuto == {i \in inPeriod : history[i].auto}
      unique == DedupeByPatch(history, inPeriodAuto)
  IN  [selected |-> WeeklySelection(unique, rank),
       historyDecisions |-> Len(history),
       eligibleUniquePatches |-> Cardinality(unique),
       duplicatePatchRuns |-> Cardinality(inPeriodAuto) - Cardinality(unique),
       excludedNotAuto |-> Cardinality(inPeriod) - Cardinality(inPeriodAuto),
       excludedOutOfPeriod |-> Len(history) - Cardinality(inPeriod)]

-----------------------------------------------------------------------------

(* What the sampling promises of the plan of a history: every entry is        *)
(* accounted for, a patch is audited at most once and by its newest run, no   *)
(* place is left empty, and a risky patch is passed over only for older ones. *)
SoundPlan(p, H, week) ==
  LET eligible == {e \in H : e.week = week /\ e.auto}
      patches == {e.patch : e \in eligible}
      cases == p.selected.random \cup p.selected.risk
  IN
  /\ p.historyDecisions = p.eligibleUniquePatches + p.duplicatePatchRuns
                          + p.excludedNotAuto + p.excludedOutOfPeriod
  /\ cases \subseteq eligible
  /\ \A c, d \in cases : c.patch = d.patch => c = d
  /\ p.selected.random \cap p.selected.risk = {}
  /\ \A c \in cases : \A e \in eligible : e.patch = c.patch => e.created <= c.created
  /\ Cardinality(p.selected.random) =
       IF Cardinality(patches) < SampleLimit THEN Cardinality(patches) ELSE SampleLimit
  /\ \A e \in eligible :
       \/ \E c \in cases : c.patch = e.patch
       \/ \E f \in eligible : f.patch = e.patch /\ ~KeepExisting(e, f) /\ f # e
       \/ ~e.risky
       \/ /\ Cardinality(p.selected.risk) = SampleLimit
          /\ \A c \in p.selected.risk : OldestFirst(c, e)

(* A history has one plan, in whatever order it is read, and that is sound.   *)
OnePlanEach ==
  \A H \in Histories, rank \in Ranks : \A week \in {e.week : e \in H} :
    LET plans == {BuildPlan(order, week, rank) : order \in SetToSeqs(H)}
    IN  Cardinality(plans) = 1 /\ \A p \in plans : SoundPlan(p, H, week)

(* A plan is whatever the process selected that published it first.  Whoever   *)
(* had been first would have published the same, because the plan of a week    *)
(* depends on its history alone and not on the order in which its directories  *)
(* are read, and it is sound (buildPlanFromHistory).                           *)
PlansAreReproducible == (\E w \in Weeks : plan[w] # None) => OnePlanEach

=============================================================================
