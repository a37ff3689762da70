------------------------ MODULE JevAuditResultProofs ------------------------
(***************************************************************************)
(* The results of the audit, for every value of its constants: each one is *)
(* planned, approved and traceable to one paid answer, and the whole       *)
(* machinery implements AuditOnce.                                         *)
(*                                                                         *)
(* The steps fall into five kinds by what they do to questions (Kinds);    *)
(* the invariant about holders of a question and the refinement are each   *)
(* shown once per kind.                                                    *)
(*                                                                         *)
(* The last part is about the sampling: one plan for each history.         *)
(***************************************************************************)
EXTENDS JevAuditProofs, AuditReport, AuditSampling, FiniteSums

Reserving == {"markWeek", "call"}
Asking == {"waiting", "saveResult"}
Holding == Reserving \union Asking

Planned(r) == plan[RunWeek[r]] # None /\ r \in plan[RunWeek[r]].selected

AnswersKey(r, k) ==
  weekResult[r] # None /\ weekResult[r].independent /\ weekResult[r].key = k

(* What process P knows of the plan and of stored results. *)
PlanKnown(P) ==
  /\ P.at = "writePlan" => P.todo \in Selections(P.week)
  /\ P.at \notin {"writePlan", "release"} => \A r \in P.todo : Planned(r)
  /\ P.at \in CaseLabels => Planned(P.run)

ResultKnown(P) ==
  P.at \in {"repair", "saveCache"} =>
    AnswersKey(P.run, KeyOf(P)) /\ weekResult[P.run].outcome = P.answer

KnownOK == \A p \in Procs : PlanKnown(proc[p]) /\ ResultKnown(proc[p])

PlansOK == \A w \in Weeks : plan[w] # None => plan[w].selected \in Selections(w)

(* Who holds a question holds it alone, reserved, and as yet unanswered. *)
HoldersOK ==
  /\ \A p \in Procs : proc[p].at \in Holding =>
       /\ KeyOf(proc[p]) \in globalAttempt
       /\ \A r \in Runs : ~AnswersKey(r, KeyOf(proc[p]))
  /\ \A p, q \in Procs :
       /\ p # q /\ proc[p].at \in Holding /\ proc[q].at \in Holding
       => KeyOf(proc[p]) # KeyOf(proc[q])
  /\ \A r \in Runs : weekResult[r] # None /\ weekResult[r].independent =>
       weekResult[r].key \in globalAttempt

Records ==
  StoredResultsAreValid /\ OneIndependentResult /\ ResultsAreTraceable

ResultInv == KnownOK /\ PlansOK /\ HoldersOK /\ Records

-----------------------------------------------------------------------------
(* What the steps of a process do to questions.                            *)

Command(p) == Start(p) \/ Step(p) \/ Fault(p) \/ LockFault(p) \/ Crash(p)

Quiet(p) == UNCHANGED <<weekResult, globalAttempt>> /\ proc'[p].at \notin Holding

Holds(p) ==
  /\ UNCHANGED <<weekResult, globalAttempt>>
  /\ proc[p].at \in Holding /\ proc'[p].at \in Holding
  /\ KeyOf(proc'[p]) = KeyOf(proc[p])
  /\ proc[p].at \in Asking => proc'[p].at \in Asking

Marks(p) ==
  /\ proc[p].at = "markGlobal" /\ proc'[p].at = "markWeek"
  /\ KeyOf(proc'[p]) = KeyOf(proc[p])
  /\ KeyOf(proc[p]) \notin globalAttempt
  /\ globalAttempt' = globalAttempt \union {KeyOf(proc[p])}
  /\ UNCHANGED weekResult

Stores(p, independent, outcome, from) ==
  /\ weekResult[proc[p].run] = None
  /\ weekResult' = [weekResult EXCEPT ![proc[p].run] =
       [independent |-> independent, outcome |-> outcome, key |-> KeyOf(proc[p]),
        from |-> from]]
  /\ UNCHANGED globalAttempt
  /\ proc'[p].at \notin Holding

Saves(p) ==
  /\ proc[p].at = "saveResult"
  /\ Stores(p, TRUE, proc[p].answer, RunWeek[proc[p].run])

Copies(p) ==
  LET found == cache[KeyOf(proc[p])] IN
  /\ proc[p].at = "saveCached"
  /\ Stores(p, FALSE, found.outcome, RunWeek[found.run])

LEMMA LeavesQuiet ==
  ASSUME TypeOK, NEW p \in Procs, Leaves(p)
  PROVE  /\ proc'[p].at \in {"next", "release", "idle"}
         /\ proc'[p].at = "next" => proc'[p].todo = proc[p].todo
         /\ proc'[p].at = "idle" => proc'[p].todo = {}
<1>1. proc[p] \in Process /\ proc \in [Procs -> Process]
  BY DEF TypeOK
<1>2. CASE NextCase(p)
  BY <1>1, <1>2 DEF NextCase, Become, Process
<1>3. CASE Goto(p, "release")
  BY <1>1, <1>3 DEF Goto, Become, Process
<1>4. CASE Become(p, NoProcess)
  BY <1>1, <1>4 DEF Become, NoProcess
<1> QED
  BY <1>2, <1>3, <1>4 DEF Leaves

LEMMA GotoEffect ==
  ASSUME TypeOK, NEW p \in Procs, NEW l, Goto(p, l)
  PROVE  /\ proc'[p].at = l /\ proc'[p].todo = proc[p].todo
         /\ proc'[p].run = proc[p].run /\ proc'[p].week = proc[p].week
         /\ proc'[p].answer = proc[p].answer
         /\ KeyOf(proc'[p]) = KeyOf(proc[p])
<1>1. proc[p] \in Process /\ proc \in [Procs -> Process]
  BY DEF TypeOK
<1> QED
  BY <1>1 DEF Goto, Become, Process, KeyOf

LEMMA Kinds ==
  ASSUME Inv, NEW p \in Procs, Command(p)
  PROVE  Quiet(p) \/ Holds(p) \/ Marks(p) \/ Saves(p) \/ Copies(p)
<1>0. /\ TypeOK /\ proc[p] \in Process /\ proc \in [Procs -> Process]
      /\ KeyOf(proc[p]) = Key(p)
  BY InvImpliesTypeOK DEF TypeOK, KeyOf, Key
<1>1. ASSUME Leaves(p), UNCHANGED <<weekResult, globalAttempt>> PROVE Quiet(p)
  BY <1>0, <1>1, LeavesQuiet DEF Quiet, Holding, Reserving, Asking
<1>2. ASSUME NEW l, l \notin Holding, Goto(p, l),
             UNCHANGED <<weekResult, globalAttempt>>
      PROVE  Quiet(p)
  BY <1>0, <1>2, GotoEffect DEF Quiet
<1>3. CASE Start(p) \/ Crash(p) \/ LockFault(p)
  <2>1. proc'[p].at \in {"acquire", "idle"}
    <3>1. CASE Start(p)
      BY <1>0, <3>1, NoProcessOK DEF Start, Become, Process
    <3>2. CASE Crash(p) \/ LockFault(p)
      BY <1>0, <3>2, NoProcessOK DEF Crash, LockFault, Become
    <3> QED
      BY <1>3, <3>1, <3>2
  <2> QED
    BY <1>3, <2>1
       DEF Start, Crash, LockFault, files, Quiet, Holding, Reserving, Asking
<1>4. CASE Fault(p)
  BY <1>1, <1>4, ThrowLeaves DEF Fault, files, Leaves
<1>5. CASE \/ Acquire(p) \/ Release(p) \/ FinishRun(p) \/ EnsureApproval(p)
           \/ RepairCache(p) \/ ReadMarker(p) \/ ReadCache(p)
           \/ ReadAttempt(p) \/ PrepareCall(p) \/ WritePlan(p)
  BY <1>1, <1>2, <1>5
     DEF Acquire, Release, FinishRun, EnsureApproval, RepairCache, ReadMarker,
         ReadCache, ReadAttempt, PrepareCall, WritePlan, AfterPlan, files, Leaves,
         Holding, Reserving, Asking
<1>6. CASE ReadPlan(p) \/ ResolveAuditor(p) \/ TakeCase(p)
  <2>1. proc'[p].at \in {"release", "approving", "writePlan", "resolve", "next",
                         "readApproval", "ensure"}
    BY <1>0, <1>6
       DEF ReadPlan, ResolveAuditor, TakeCase, Goto, Become, Process, AfterPlan
  <2> QED
    BY <1>6, <2>1
       DEF ReadPlan, ResolveAuditor, TakeCase, files, Quiet, Holding, Reserving, Asking
<1>7. CASE CheckApproval(p) \/ SaveApproval(p) \/ ReadApproval(p) \/ ReadResult(p)
  <2>1. ASSUME ~Leaves(p) PROVE proc'[p].at \notin Holding
    <3>1. ~NextCase(p) /\ ~Throw(p)
      BY <2>1, ThrowLeaves DEF Leaves
    <3>2. CASE CheckApproval(p)
      <4>1. PICK m \in Models \union {None} :
              Become(p, [proc[p] EXCEPT !.at = "saveApproval", !.model = m])
        BY <3>1, <3>2 DEF CheckApproval
      <4> QED
        BY <1>0, <4>1 DEF Become, Process, Holding, Reserving, Asking
    <3>3. CASE SaveApproval(p)
      <4>1. PICK l \in {"readApproval", "release"} :
              Become(p, [proc[p] EXCEPT !.model = None, !.at = l])
        BY <3>1, <3>3 DEF SaveApproval
      <4> QED
        BY <1>0, <4>1 DEF Become, Process, Holding, Reserving, Asking
    <3>4. CASE ReadApproval(p) \/ ReadResult(p)
      <4>1. CASE Goto(p, "readMarker")
        BY <1>0, <4>1, GotoEffect DEF Holding, Reserving, Asking
      <4>2. ASSUME NEW m, Become(p, [proc[p] EXCEPT !.at = "readResult", !.model = m])
            PROVE  proc'[p].at \notin Holding
        BY <1>0, <4>2 DEF Become, Process, Holding, Reserving, Asking
      <4>3. ASSUME NEW o, Become(p, [proc[p] EXCEPT !.at = "repair", !.answer = o])
            PROVE  proc'[p].at \notin Holding
        BY <1>0, <4>3 DEF Become, Process, Holding, Reserving, Asking
      <4> QED
        BY <3>1, <3>4, <4>1, <4>2, <4>3 DEF ReadApproval, ReadResult
    <3> QED
      BY <1>7, <3>2, <3>3, <3>4
  <2>2. UNCHANGED <<weekResult, globalAttempt>>
    BY <1>7 DEF CheckApproval, SaveApproval, ReadApproval, ReadResult, files
  <2> QED
    BY <1>1, <2>1, <2>2 DEF Quiet
<1>8. CASE SaveCached(p)
  <2>1. proc'[p].at = "next"
    BY <1>0, <1>8 DEF SaveCached, NextCase, Become, Process
  <2> QED
    BY <1>0, <1>8, <2>1
       DEF SaveCached, At, Copies, Stores, Quiet, Holding, Reserving, Asking
<1>9. CASE MarkGlobal(p)
  <2>1. CASE Key(p) \in globalAttempt
    BY <1>1, <1>9, <2>1 DEF MarkGlobal, Leaves
  <2>2. CASE Key(p) \notin globalAttempt
    BY <1>0, <1>9, <2>2, GotoEffect DEF MarkGlobal, At, Marks
  <2> QED
    BY <2>1, <2>2
<1>10. CASE MarkWeek(p)
  <2>1. CASE proc[p].run \in weekAttempt
    BY <1>1, <1>10, <2>1 DEF MarkWeek, Leaves
  <2>2. CASE proc[p].run \notin weekAttempt
    BY <1>0, <1>10, <2>2, GotoEffect
       DEF MarkWeek, At, Holds, Holding, Reserving, Asking
  <2> QED
    BY <2>1, <2>2
<1>11. CASE CallModel(p)
  BY <1>0, <1>11, GotoEffect DEF CallModel, At, files, Holds, Holding, Reserving, Asking
<1>12. CASE Answer(p)
  <2>1. proc'[p].at = "saveResult" /\ KeyOf(proc'[p]) = KeyOf(proc[p])
    BY <1>0, <1>12 DEF Answer, Become, Process, KeyOf
  <2> QED
    BY <1>12, <2>1 DEF Answer, At, files, Holds, Holding, Reserving, Asking
<1>13. CASE SaveResult(p)
  <2>1. CASE weekResult[proc[p].run] = None
    BY <1>0, <1>13, <2>1, GotoEffect
       DEF SaveResult, At, Saves, Stores, Holding, Reserving, Asking
  <2>2. CASE weekResult[proc[p].run] # None
    BY <1>1, <1>13, <2>2 DEF SaveResult, Leaves
  <2> QED
    BY <2>1, <2>2
<1>14. CASE SaveCache(p)
  BY <1>1, <1>14 DEF SaveCache, Leaves
<1> QED
  BY <1>3, <1>4, <1>5, <1>6, <1>7, <1>8, <1>9, <1>10, <1>11, <1>12, <1>13, <1>14
     DEF Command, Step


-----------------------------------------------------------------------------
(* What processes know.                                                    *)

CaseStep(p) ==
  \/ EnsureApproval(p) \/ CheckApproval(p) \/ SaveApproval(p) \/ ReadApproval(p)
  \/ ReadResult(p) \/ RepairCache(p) \/ ReadMarker(p) \/ ReadCache(p)
  \/ SaveCached(p) \/ ReadAttempt(p) \/ PrepareCall(p) \/ MarkGlobal(p)
  \/ MarkWeek(p) \/ CallModel(p) \/ Answer(p) \/ SaveResult(p) \/ SaveCache(p)

(* Inside a case a process goes on with it or leaves it. *)
Continues(p) ==
  /\ proc'[p].at \in CaseLabels
  /\ proc'[p].run = proc[p].run
  /\ proc'[p].todo = proc[p].todo

LEMMA CaseGoesOn ==
  ASSUME TypeOK, NEW p \in Procs, CaseStep(p)
  PROVE  /\ proc[p].at \in CaseLabels
         /\ Leaves(p) \/ Continues(p) \/ proc'[p].at = "release"
<1>0. proc[p] \in Process /\ proc \in [Procs -> Process]
  BY DEF TypeOK
<1>1. ASSUME NEW l \in CaseLabels, Goto(p, l) PROVE Continues(p)
  BY <1>1, GotoEffect DEF Continues
<1>2. ASSUME NEW l \in CaseLabels, NEW m,
             \/ Become(p, [proc[p] EXCEPT !.at = l, !.model = m])
             \/ Become(p, [proc[p] EXCEPT !.model = m, !.at = l])
      PROVE  Continues(p)
  BY <1>0, <1>2 DEF Become, Process, Continues
<1>3. ASSUME NEW l \in CaseLabels, NEW o,
             Become(p, [proc[p] EXCEPT !.at = l, !.answer = o])
      PROVE  Continues(p)
  BY <1>0, <1>3 DEF Become, Process, Continues
<1> USE DEF CaseLabels, ModelLabels
<1>4. CASE SaveApproval(p)
  <2>1. CASE proc[p].cmd = "autorun" \/ Throw(p)
    BY <1>2, <1>4, <2>1, ThrowLeaves DEF SaveApproval, At
  <2>2. CASE proc[p].cmd # "autorun" /\ ~Throw(p)
    <3>1. Become(p, [proc[p] EXCEPT !.model = None, !.at = "release"])
      BY <1>4, <2>2 DEF SaveApproval
    <3> QED
      BY <1>0, <1>4, <3>1 DEF SaveApproval, At, Become, Process
  <2> QED
    BY <2>1, <2>2
<1>5. CASE CheckApproval(p) \/ ReadApproval(p)
  BY <1>1, <1>2, <1>5, ThrowLeaves DEF CheckApproval, ReadApproval, At, Leaves
<1>6. CASE ReadResult(p) \/ Answer(p)
  BY <1>1, <1>3, <1>6 DEF ReadResult, Answer, At, Leaves
<1>7. CASE \/ EnsureApproval(p) \/ RepairCache(p) \/ ReadMarker(p) \/ ReadCache(p)
           \/ ReadAttempt(p) \/ PrepareCall(p)
  BY <1>1, <1>7 DEF EnsureApproval, RepairCache, ReadMarker, ReadCache, ReadAttempt,
     PrepareCall, At, Leaves
<1>8. CASE \/ SaveCached(p) \/ MarkGlobal(p) \/ MarkWeek(p) \/ CallModel(p)
           \/ SaveResult(p) \/ SaveCache(p)
  BY <1>1, <1>8 DEF SaveCached, MarkGlobal, MarkWeek, CallModel, SaveResult,
     SaveCache, At, Leaves
<1> QED
  BY <1>4, <1>5, <1>6, <1>7, <1>8 DEF CaseStep


(* Plans only grow, and a week's plan stays what it is. *)
LEMMA PlannedStays ==
  ASSUME Immutable, NEW r \in Runs, Planned(r) PROVE Planned(r)'
<1>1. RunWeek[r] \in Weeks
  BY ConstantsAssumption
<1> QED
  BY <1>1 DEF Immutable, Planned

LEMMA PlanStep ==
  ASSUME Inv, Immutable, KnownOK, PlansOK, NEW p \in Procs, Command(p)
  PROVE  PlanKnown(proc[p])' /\ PlansOK'
<1>0. /\ TypeOK /\ proc[p] \in Process /\ proc \in [Procs -> Process]
      /\ LocalOK(proc[p]) /\ PlanKnown(proc[p])
  BY InvImpliesTypeOK, ProcFacts DEF TypeOK, KnownOK
<1>1. ASSUME plan' = plan PROVE PlansOK'
  BY <1>1 DEF PlansOK
<1>2. \A r \in Runs : Planned(r) => Planned(r)'
  BY PlannedStays
<1>3. proc[p].todo \subseteq Runs
  BY <1>0 DEF Process
<1>4. ASSUME proc'[p].at \in {"release", "idle"}, proc'[p].at = "idle" => proc'[p].todo = {}
      PROVE  PlanKnown(proc[p])'
  BY <1>4 DEF PlanKnown, CaseLabels, ModelLabels
<1>5. ASSUME Leaves(p), proc[p].at \notin {"writePlan", "release"}
      PROVE  PlanKnown(proc[p])'
  <2>1. CASE proc'[p].at = "next"
    <3>1. proc'[p].todo = proc[p].todo
      BY <1>0, <1>5, <2>1, LeavesQuiet
    <3> QED
      BY <1>0, <1>2, <1>3, <1>5, <2>1, <3>1 DEF PlanKnown, CaseLabels, ModelLabels
  <2> QED
    BY <1>0, <1>4, <1>5, <2>1, LeavesQuiet
<1>6. CASE CaseStep(p)
  <2>1. plan' = plan /\ proc[p].at \in CaseLabels /\ proc[p].run \in Runs
    BY <1>0, <1>6, CaseGoesOn
       DEF CaseStep, EnsureApproval, CheckApproval, SaveApproval, ReadApproval,
           ReadResult, RepairCache, ReadMarker, ReadCache, SaveCached, ReadAttempt,
           PrepareCall, MarkGlobal, MarkWeek, CallModel, Answer, SaveResult,
           SaveCache, files, LocalOK
  <2>2. CASE Continues(p)
    <3>1. \A r \in Runs : r = proc[p].run => Planned(r)'
      <4>1. Planned(proc[p].run)
        BY <1>0, <2>1 DEF PlanKnown
      <4> QED
        BY <2>1, <4>1, PlannedStays
    <3>2. \A r \in proc[p].todo : Planned(r)'
      BY <1>0, <1>2, <1>3, <2>1 DEF PlanKnown, CaseLabels, ModelLabels
    <3>3. PlanKnown(proc[p])'
      BY <2>1, <2>2, <3>1, <3>2 DEF Continues, PlanKnown, CaseLabels, ModelLabels
    <3> QED
      BY <1>1, <2>1, <3>3
  <2>3. CASE Leaves(p)
    BY <1>1, <1>5, <2>1, <2>3 DEF CaseLabels, ModelLabels
  <2>4. CASE proc'[p].at = "release"
    BY <1>1, <1>4, <2>1, <2>4
  <2> QED
    BY <1>0, <1>1, <1>6, <2>1, <2>2, <2>3, <2>4, CaseGoesOn
<1>7. CASE Start(p)
  <2>1. proc'[p].at = "acquire" /\ proc'[p].todo = {}
    <3>1. NoProcess.todo = {} /\ NoProcess \in Process
      BY NoProcessOK DEF NoProcess
    <3> QED
      BY <1>0, <1>7, <3>1 DEF Start, Become, Process
  <2>2. plan' = plan
    BY <1>7 DEF Start, files
  <2> QED
    BY <1>1, <2>1, <2>2 DEF PlanKnown, CaseLabels, ModelLabels
<1>8. CASE Crash(p) \/ LockFault(p) \/ Fault(p) \/ Release(p)
  <2>1. plan' = plan
    BY <1>8 DEF Crash, LockFault, Fault, Release, files
  <2>2. CASE Leaves(p) /\ proc[p].at \notin {"writePlan", "release"}
    BY <1>1, <1>5, <2>1, <2>2
  <2>3. CASE Goto(p, "release")
    BY <1>0, <1>1, <1>4, <2>1, <2>3, GotoEffect
  <2>4. CASE Become(p, NoProcess)
    <3>1. proc'[p].at = "idle" /\ proc'[p].todo = {}
      BY <1>0, <2>4 DEF Become, NoProcess
    <3> QED
      BY <1>1, <1>4, <2>1, <3>1
  <2> QED
    BY <1>8, <2>2, <2>3, <2>4, ThrowLeaves DEF Crash, LockFault, Fault, Release
<1>9. CASE Acquire(p)
  <2>1. plan' = plan /\ proc[p].at = "acquire"
    BY <1>9 DEF Acquire, At, files
  <2>2. CASE Leaves(p)
    BY <1>1, <1>5, <2>1, <2>2
  <2>3. CASE Goto(p, "readPlan")
    <3>1. proc'[p].at = "readPlan" /\ proc'[p].todo = proc[p].todo
      BY <1>0, <2>3, GotoEffect
    <3> QED
      BY <1>0, <1>1, <1>2, <1>3, <2>1, <3>1 DEF PlanKnown, CaseLabels, ModelLabels
  <2> QED
    BY <1>9, <2>2, <2>3 DEF Acquire, Leaves
<1>10. CASE ReadPlan(p)
  <2> DEFINE w == proc[p].week
  <2>1. plan' = plan /\ proc[p].at = "readPlan" /\ w \in Weeks
    BY <1>0, <1>10 DEF ReadPlan, At, files, LocalOK
  <2>2. CASE Goto(p, "release")
    BY <1>0, <1>1, <1>4, <2>1, <2>2, GotoEffect
  <2>3. CASE Goto(p, "approving") /\ plan[w] # None /\ proc[p].run \in plan[w].selected
    <3>1. RunWeek[proc[p].run] = w
      BY <2>1, <2>3 DEF PlansOK, Selections
    <3>2. /\ proc'[p].at = "approving" /\ proc'[p].todo = proc[p].todo
          /\ proc'[p].run = proc[p].run
      BY <1>0, <2>3, GotoEffect
    <3>3. Planned(proc[p].run) /\ proc[p].run \in Runs
      BY <2>1, <2>3, <3>1 DEF Planned, PlansOK, Selections
    <3> QED
      BY <1>0, <1>1, <1>2, <1>3, <2>1, <3>2, <3>3 DEF PlanKnown, CaseLabels, ModelLabels
  <2>4. ASSUME NEW S \in Selections(w),
               Become(p, [proc[p] EXCEPT !.at = "writePlan", !.todo = S])
        PROVE  PlanKnown(proc[p])'
    <3>1. proc'[p].at = "writePlan" /\ proc'[p].todo = S /\ proc'[p].week = w
      BY <1>0, <2>4 DEF Become, Process
    <3> QED
      BY <3>1 DEF PlanKnown, CaseLabels, ModelLabels, Selections
  <2>5. CASE plan[w] # None /\ Become(p, [proc[p] EXCEPT !.at = AfterPlan(p),
                                             !.todo = plan[w].selected])
    <3>1. proc'[p].at = AfterPlan(p) /\ proc'[p].todo = plan[w].selected
      BY <1>0, <2>5 DEF Become, Process
    <3>2. \A r \in plan[w].selected : r \in Runs /\ Planned(r)
      BY <2>1, <2>5 DEF PlansOK, Selections, Planned
    <3>3. \A r \in plan[w].selected : Planned(r)'
      BY <3>2, PlannedStays
    <3>4. AfterPlan(p) \in {"release", "resolve"}
      BY DEF AfterPlan
    <3>5. PlanKnown(proc[p])'
      BY <3>1, <3>3, <3>4 DEF PlanKnown, CaseLabels, ModelLabels
    <3> QED
      BY <1>1, <2>1, <3>5
  <2> QED
    <3>1. \/ Goto(p, "release")
          \/ Goto(p, "approving") /\ plan[w] # None /\ proc[p].run \in plan[w].selected
          \/ \E S \in Selections(w) :
               Become(p, [proc[p] EXCEPT !.at = "writePlan", !.todo = S])
          \/ plan[w] # None /\ Become(p, [proc[p] EXCEPT !.at = AfterPlan(p),
                                             !.todo = plan[w].selected])
      BY <1>10 DEF ReadPlan
    <3>2. PlansOK'
      BY <1>1, <2>1
    <3> HIDE DEF w
    <3> QED
      BY <2>2, <2>3, <2>4, <2>5, <3>1, <3>2
<1>11. CASE WritePlan(p)
  <2> DEFINE w == proc[p].week
  <2>1. proc[p].at = "writePlan" /\ w \in Weeks /\ proc[p].todo \in Selections(w)
    BY <1>0, <1>11 DEF WritePlan, At, LocalOK, PlanKnown
  <2>2. CASE plan[w] # None
    BY <1>0, <1>1, <1>4, <1>11, <2>2, GotoEffect DEF WritePlan
  <2>3. CASE plan[w] = None
    <3>1. /\ plan' = [plan EXCEPT ![w] = [selected |-> proc[p].todo,
                        version |-> PromptVersion[proc[p].prompt]]]
          /\ Goto(p, AfterPlan(p))
      BY <1>11, <2>3 DEF WritePlan
    <3>2. plan'[w] # None /\ plan'[w].selected = proc[p].todo
      <4>1. proc[p].prompt \in Prompts /\ PromptVersion[proc[p].prompt] \in Nat
        BY <1>0, <2>1, ConstantsAssumption DEF LocalOK
      <4>2. plan'[w] \in Plans
        BY <1>0, <1>3, <2>1, <3>1, <4>1 DEF Plans, TypeOK
      <4> QED
        BY <1>0, <2>1, <3>1, <4>2, NoneIsNoRecord DEF TypeOK
    <3>3. PlansOK'
      BY <1>0, <2>1, <3>1, <3>2 DEF PlansOK, TypeOK, Selections
    <3>4. proc'[p].at \in {"release", "resolve"} /\ proc'[p].todo = proc[p].todo
      BY <1>0, <3>1, GotoEffect DEF AfterPlan
    <3>5. \A r \in proc[p].todo : Planned(r)'
      BY <2>1, <3>2 DEF Selections, Planned
    <3> QED
      BY <3>3, <3>4, <3>5 DEF PlanKnown, CaseLabels, ModelLabels
  <2> QED
    BY <2>2, <2>3
<1>12. CASE ResolveAuditor(p)
  <2>1. PICK m \in Models \union {None} :
          Become(p, [proc[p] EXCEPT !.at = "next", !.auditor = m])
    BY <1>12 DEF ResolveAuditor
  <2>2. /\ proc'[p].at = "next" /\ proc'[p].todo = proc[p].todo
        /\ plan' = plan /\ proc[p].at = "resolve"
    BY <1>0, <1>12, <2>1 DEF ResolveAuditor, At, files, Become, Process
  <2> QED
    BY <1>0, <1>1, <1>2, <1>3, <2>2 DEF PlanKnown, CaseLabels, ModelLabels
<1>13. CASE TakeCase(p)
  <2> DEFINE Takes(r, l, run) == Become(p, [proc[p] EXCEPT !.at = l, !.run = run,
                                                  !.todo = proc[p].todo \ {r}])
  <2>1. PICK r \in proc[p].todo :
          Takes(r, "readApproval", r) \/ Takes(r, "ensure", r) \/ Takes(r, "next", None)
    BY <1>13 DEF TakeCase
  <2>2. ASSUME NEW l, NEW run, Takes(r, l, run)
        PROVE  /\ proc'[p].at = l /\ proc'[p].run = run
               /\ proc'[p].todo = proc[p].todo \ {r}
    BY <1>0, <2>2 DEF Become, Process
  <2>3. /\ proc'[p].at \in {"readApproval", "ensure", "next"}
        /\ proc'[p].at # "next" => proc'[p].run = r
        /\ proc'[p].todo = proc[p].todo \ {r}
    BY <2>1, <2>2
  <2>4. plan' = plan /\ proc[p].at = "next"
    BY <1>13 DEF TakeCase, At, files
  <2> QED
    BY <1>0, <1>1, <1>2, <1>3, <2>1, <2>3, <2>4 DEF PlanKnown, CaseLabels, ModelLabels
<1>14. CASE FinishRun(p)
  BY <1>0, <1>1, <1>4, <1>14, GotoEffect DEF FinishRun, files
<1> QED
  BY <1>6, <1>7, <1>8, <1>9, <1>10, <1>11, <1>12, <1>13, <1>14
     DEF Command, Step, CaseStep


LEMMA ResultStep ==
  ASSUME Inv, Immutable, KnownOK, NEW p \in Procs, Command(p)
  PROVE  ResultKnown(proc[p])'
<1>0. /\ TypeOK /\ proc[p] \in Process /\ proc \in [Procs -> Process]
      /\ LocalOK(proc[p]) /\ ResultKnown(proc[p]) /\ KeyOf(proc[p]) = Key(p)
  BY InvImpliesTypeOK, ProcFacts DEF TypeOK, KnownOK, KeyOf, Key
<1> DEFINE Elsewhere == proc'[p].at \notin {"repair", "saveCache"}
<1>1. Elsewhere => ResultKnown(proc[p])'
  BY DEF ResultKnown
<1> HIDE DEF Elsewhere
<1>2. ASSUME Leaves(p) PROVE Elsewhere
  BY <1>0, <1>2, LeavesQuiet DEF Elsewhere
<1>3. ASSUME NEW l, Goto(p, l), l \notin {"repair", "saveCache"} PROVE Elsewhere
  BY <1>0, <1>3, GotoEffect DEF Elsewhere
<1>4. CASE Start(p) \/ Crash(p) \/ LockFault(p) \/ Fault(p)
  <2>1. CASE Start(p)
    <3>1. proc'[p].at = "acquire"
      BY <1>0, <2>1, NoProcessOK DEF Start, Become, Process
    <3> QED
      BY <1>1, <3>1 DEF Elsewhere
  <2> QED
    BY <1>1, <1>2, <1>4, <2>1, ThrowLeaves DEF Crash, LockFault, Fault, Leaves
<1>5. CASE \/ Acquire(p) \/ Release(p) \/ FinishRun(p) \/ EnsureApproval(p)
           \/ ReadMarker(p) \/ ReadCache(p) \/ ReadAttempt(p) \/ PrepareCall(p)
           \/ WritePlan(p) \/ SaveCached(p) \/ MarkGlobal(p) \/ MarkWeek(p)
           \/ CallModel(p) \/ SaveCache(p)
  BY <1>1, <1>2, <1>3, <1>5
     DEF Acquire, Release, FinishRun, EnsureApproval, ReadMarker, ReadCache,
         ReadAttempt, PrepareCall, WritePlan, AfterPlan, SaveCached, MarkGlobal,
         MarkWeek, CallModel, SaveCache, Leaves
<1>6. CASE ReadPlan(p) \/ ResolveAuditor(p) \/ TakeCase(p)
  <2>1. proc'[p].at \in {"release", "approving", "writePlan", "resolve", "next",
                         "readApproval", "ensure"}
    BY <1>0, <1>6
       DEF ReadPlan, ResolveAuditor, TakeCase, Goto, Become, Process, AfterPlan
  <2> QED
    BY <1>1, <2>1 DEF Elsewhere
<1>7. ASSUME NEW l \in {"saveApproval", "readApproval", "release", "readResult"}, NEW m,
             \/ Become(p, [proc[p] EXCEPT !.at = l, !.model = m])
             \/ Become(p, [proc[p] EXCEPT !.model = m, !.at = l])
      PROVE  Elsewhere
  BY <1>0, <1>7 DEF Become, Process, Elsewhere
<1>8. CASE CheckApproval(p) \/ ReadApproval(p)
  BY <1>1, <1>2, <1>7, <1>8, ThrowLeaves DEF CheckApproval, ReadApproval, Leaves
<1>9. CASE SaveApproval(p)
  <2>1. \/ Throw(p)
        \/ \E l \in {"readApproval", "release"} :
             Become(p, [proc[p] EXCEPT !.model = None, !.at = l])
    BY <1>9 DEF SaveApproval
  <2> QED
    BY <1>1, <1>2, <1>7, <2>1, ThrowLeaves
<1>10. CASE Answer(p)
  <2>1. proc'[p].at = "saveResult"
    BY <1>0, <1>10 DEF Answer, Become, Process
  <2> QED
    BY <1>1, <2>1 DEF Elsewhere
<1>11. CASE ReadResult(p)
  <2> DEFINE res == weekResult[proc[p].run]
  <2>1. CASE ~(res # None /\ res.key = Key(p) /\ res.independent)
    BY <1>1, <1>2, <1>3, <1>11, <2>1 DEF ReadResult, Leaves
  <2>2. CASE res # None /\ res.key = Key(p) /\ res.independent
    <3>1. Become(p, [proc[p] EXCEPT !.at = "repair", !.answer = res.outcome])
      BY <1>11, <2>2 DEF ReadResult
    <3>2. /\ proc'[p].run = proc[p].run /\ proc'[p].answer = res.outcome
          /\ proc'[p].model = proc[p].model /\ proc'[p].prompt = proc[p].prompt
      BY <1>0, <3>1 DEF Become, Process
    <3>3. weekResult' = weekResult
      BY <1>11 DEF ReadResult, files
    <3> QED
      BY <1>0, <2>2, <3>2, <3>3 DEF ResultKnown, AnswersKey, KeyOf
  <2> QED
    BY <2>1, <2>2
<1>12. CASE RepairCache(p)
  <2>1. CASE Goto(p, "saveCache")
    <3>1. /\ proc'[p].run = proc[p].run /\ proc'[p].answer = proc[p].answer
          /\ KeyOf(proc'[p]) = KeyOf(proc[p])
      BY <1>0, <2>1, GotoEffect
    <3>2. proc[p].at = "repair" /\ weekResult' = weekResult
      BY <1>12 DEF RepairCache, At, files
    <3> QED
      BY <1>0, <3>1, <3>2 DEF ResultKnown, AnswersKey, KeyOf
  <2> QED
    BY <1>1, <1>2, <1>12, <2>1 DEF RepairCache, Leaves
<1>13. CASE SaveResult(p)
  <2>1. CASE weekResult[proc[p].run] # None
    BY <1>1, <1>2, <1>13, <2>1 DEF SaveResult, Leaves
  <2>2. CASE weekResult[proc[p].run] = None
    <3> DEFINE new == [independent |-> TRUE, outcome |-> proc[p].answer,
                       key |-> Key(p), from |-> RunWeek[proc[p].run]]
    <3>1. weekResult' = [weekResult EXCEPT ![proc[p].run] = new] /\ Goto(p, "saveCache")
      BY <1>13, <2>2 DEF SaveResult
    <3>2. /\ proc'[p].run = proc[p].run /\ proc'[p].answer = proc[p].answer
          /\ KeyOf(proc'[p]) = KeyOf(proc[p])
      BY <1>0, <3>1, GotoEffect
    <3>3. /\ proc[p].run \in Runs /\ proc[p].answer \in Outcomes
          /\ KeyOf(proc[p]) \in Keys /\ proc[p].at = "saveResult"
      BY <1>0, <1>13, KeyType DEF SaveResult, At, LocalOK, CaseLabels, ModelLabels
    <3>4. new \in Results
      BY <1>0, <3>3, ConstantsAssumption DEF Results
    <3>5. weekResult'[proc[p].run] = new /\ new # None
      BY <1>0, <3>1, <3>3, <3>4, NoneIsNoRecord DEF TypeOK
    <3>6. /\ weekResult'[proc'[p].run] # None
          /\ weekResult'[proc'[p].run].independent
          /\ weekResult'[proc'[p].run].key = KeyOf(proc'[p])
          /\ weekResult'[proc'[p].run].outcome = proc'[p].answer
      BY <1>0, <3>2, <3>5
    <3> QED
      BY <3>6 DEF ResultKnown, AnswersKey, KeyOf
  <2> QED
    BY <2>1, <2>2
<1> QED
  BY <1>4, <1>5, <1>6, <1>8, <1>9, <1>10, <1>11, <1>12, <1>13 DEF Command, Step

LEMMA KnownNext ==
  ASSUME Inv, Immutable, KnownOK, PlansOK, NEW p \in Procs, Command(p)
  PROVE  KnownOK' /\ PlansOK'
<1>1. PlanKnown(proc[p])' /\ PlansOK' /\ ResultKnown(proc[p])'
  BY PlanStep, ResultStep
<1>2. ASSUME NEW q \in Procs \ {p} PROVE PlanKnown(proc[q])' /\ ResultKnown(proc[q])'
  <2>1. /\ proc[q] \in Process /\ LocalOK(proc[q])
        /\ PlanKnown(proc[q]) /\ ResultKnown(proc[q])
    BY ProcFacts DEF KnownOK
  <2>2. proc'[q] = proc[q]
    BY InvImpliesTypeOK, OthersUnchanged DEF Command
  <2>3. \A r \in Runs : Planned(r) => Planned(r)'
    BY PlannedStays
  <2>4. PlanKnown(proc[q])'
    BY <2>1, <2>2, <2>3 DEF PlanKnown, Process, LocalOK
  <2>5. \A r \in Runs : weekResult[r] # None => weekResult'[r] = weekResult[r]
    BY DEF Immutable
  <2>6. ResultKnown(proc[q])'
    BY <2>1, <2>2, <2>5
       DEF ResultKnown, AnswersKey, KeyOf, LocalOK, CaseLabels, ModelLabels
  <2> QED
    BY <2>4, <2>6
<1> QED
  BY <1>1, <1>2 DEF KnownOK


-----------------------------------------------------------------------------
(* Who holds a question, and the stored records.                           *)

LEMMA StoresEffect ==
  ASSUME Inv, CacheAgreesWithOrigin, NEW p \in Procs, Saves(p) \/ Copies(p)
  PROVE  \E independent \in BOOLEAN, outcome \in Outcomes, from \in Weeks :
           LET r == proc[p].run IN
           /\ r \in Runs /\ KeyOf(proc[p]) \in Keys
           /\ weekResult[r] = None /\ weekResult'[r] # None
           /\ weekResult'[r] = [independent |-> independent, outcome |-> outcome,
                                key |-> KeyOf(proc[p]), from |-> from]
           /\ \A s \in Runs \ {r} : weekResult'[s] = weekResult[s]
           /\ independent <=> Saves(p)
           /\ Saves(p) => outcome = proc[p].answer
           /\ Copies(p) => /\ cache[KeyOf(proc[p])] # None
                           /\ outcome = cache[KeyOf(proc[p])].outcome
                           /\ from = RunWeek[cache[KeyOf(proc[p])].run]
<1>0. /\ TypeOK /\ proc[p] \in Process /\ LocalOK(proc[p])
      /\ DiskOK(proc[p], approval, cache, weekAttempt, globalAttempt, sent)
  BY InvImpliesTypeOK, ProcFacts
<1>1. proc[p].at \in {"saveResult", "saveCached"}
  BY DEF Saves, Copies
<1>2. KeyOf(proc[p]) \in Keys /\ proc[p].run \in Runs
  BY <1>0, <1>1, KeyType DEF LocalOK, CaseLabels, ModelLabels
<1>3. ASSUME NEW independent \in BOOLEAN, NEW outcome \in Outcomes, NEW from \in Weeks,
             Stores(p, independent, outcome, from)
      PROVE  LET r == proc[p].run IN
             /\ weekResult[r] = None /\ weekResult'[r] # None
             /\ weekResult'[r] = [independent |-> independent, outcome |-> outcome,
                                  key |-> KeyOf(proc[p]), from |-> from]
             /\ \A s \in Runs \ {r} : weekResult'[s] = weekResult[s]
  <2> DEFINE new == [independent |-> independent, outcome |-> outcome,
                     key |-> KeyOf(proc[p]), from |-> from]
  <2>1. new \in Results
    BY <1>2 DEF Results
  <2>2. new # None
    BY <2>1, NoneIsNoRecord
  <2> HIDE DEF new
  <2>3. weekResult' = [weekResult EXCEPT ![proc[p].run] = new] /\ weekResult[proc[p].run] = None
    BY <1>3 DEF Stores, new
  <2>4. /\ weekResult'[proc[p].run] = new
        /\ \A s \in Runs \ {proc[p].run} : weekResult'[s] = weekResult[s]
    BY <1>0, <1>2, <2>3 DEF TypeOK
  <2> QED
    BY <2>2, <2>3, <2>4 DEF new
<1>4. CASE Saves(p)
  <2>1. proc[p].answer \in Outcomes /\ RunWeek[proc[p].run] \in Weeks
    BY <1>0, <1>2, <1>4, ConstantsAssumption DEF LocalOK, Saves
  <2>2. ~Copies(p)
    BY <1>4 DEF Saves, Copies
  <2> QED
    BY <1>2, <1>3, <1>4, <2>1, <2>2 DEF Saves
<1>5. CASE Copies(p)
  <2> DEFINE found == cache[KeyOf(proc[p])]
  <2>1. found # None
    BY <1>0, <1>5 DEF DiskOK, Copies
  <2>2. found \in CacheRecords
    BY <1>0, <1>2, <2>1 DEF TypeOK
  <2>3. found.outcome \in Outcomes /\ RunWeek[found.run] \in Weeks
    BY <2>2, ConstantsAssumption DEF CacheRecords
  <2>4. ~Saves(p)
    BY <1>5 DEF Saves, Copies
  <2> QED
    BY <1>2, <1>3, <1>5, <2>1, <2>3, <2>4 DEF Copies
<1> QED
  BY <1>4, <1>5

LEMMA HoldersNext ==
  ASSUME Inv, CacheAgreesWithOrigin, HoldersOK, NEW p \in Procs, Command(p)
  PROVE  HoldersOK'
<1>1. /\ \A q \in Procs \ {p} : proc'[q] = proc[q]
      /\ \A q \in Procs : KeyOf(proc[q])' = KeyOf(proc'[q])
  BY InvImpliesTypeOK, OthersUnchanged DEF Command, KeyOf
<1>2. CASE Quiet(p)
  BY <1>1, <1>2 DEF HoldersOK, Quiet, AnswersKey
<1>3. CASE Holds(p)
  BY <1>1, <1>3 DEF HoldersOK, Holds, AnswersKey
<1>4. CASE Marks(p)
  BY <1>1, <1>4 DEF HoldersOK, Marks, AnswersKey, Holding, Reserving, Asking
<1>5. CASE Saves(p) \/ Copies(p)
  <2> DEFINE r == proc[p].run  k == KeyOf(proc[p])
  <2>1. PICK independent \in BOOLEAN, outcome \in Outcomes, from \in Weeks :
          /\ r \in Runs
          /\ weekResult'[r] = [independent |-> independent, outcome |-> outcome,
                               key |-> k, from |-> from]
          /\ \A s \in Runs \ {r} : weekResult'[s] = weekResult[s]
          /\ independent <=> Saves(p)
    BY <1>5, StoresEffect
  <2>2. globalAttempt' = globalAttempt /\ proc'[p].at \notin Holding
    BY <1>5 DEF Saves, Copies, Stores
  <2>3. independent => proc[p].at \in Holding
    BY <2>1 DEF Saves, Holding, Asking
  <2>4. /\ weekResult'[r].independent = independent
        /\ weekResult'[r].key = k
    BY <2>1
  <2> HIDE DEF r, k
  <2>5. ASSUME NEW q \in Procs, proc'[q].at \in Holding
        PROVE  /\ KeyOf(proc'[q]) \in globalAttempt
               /\ \A s \in Runs : ~(/\ weekResult'[s] # None
                                    /\ weekResult'[s].independent
                                    /\ weekResult'[s].key = KeyOf(proc'[q]))
    <3>1. q # p /\ proc'[q] = proc[q]
      BY <1>1, <2>2, <2>5
    <3>2. proc[p].at \in Holding => KeyOf(proc[q]) # KeyOf(proc[p])
      BY <2>5, <3>1 DEF HoldersOK
    <3>3. /\ KeyOf(proc[q]) \in globalAttempt
          /\ \A s \in Runs : ~AnswersKey(s, KeyOf(proc[q]))
      BY <2>5, <3>1 DEF HoldersOK
    <3> QED
      BY <2>1, <2>3, <2>4, <3>1, <3>2, <3>3 DEF AnswersKey, k
  <2>6. ASSUME NEW s \in Runs, weekResult'[s] # None, weekResult'[s].independent
        PROVE  weekResult'[s].key \in globalAttempt
    <3>1. proc[p].at \in Holding => k \in globalAttempt
      BY DEF HoldersOK, k
    <3> QED
      BY <2>1, <2>3, <2>4, <2>6, <3>1 DEF HoldersOK
  <2>7. \A q1, q2 \in Procs :
          /\ q1 # q2 /\ proc'[q1].at \in Holding /\ proc'[q2].at \in Holding
          => KeyOf(proc'[q1]) # KeyOf(proc'[q2])
    BY <1>1, <2>2 DEF HoldersOK
  <2> QED
    BY <1>1, <2>2, <2>5, <2>6, <2>7 DEF HoldersOK, AnswersKey
<1> QED
  BY <1>2, <1>3, <1>4, <1>5, Kinds


(* What a step adds to the files, it adds for the case in hand. *)
LEMMA Gains ==
  ASSUME TypeOK, NEW p \in Procs, Command(p)
  PROVE  /\ \A r \in Runs : approval'[r] # approval[r]
                          \/ r \in weekAttempt' \ weekAttempt
                          \/ weekResult'[r] # weekResult[r]
               => r = proc[p].run /\ proc[p].at \in CaseLabels
         /\ \A k \in Keys : cache'[k] # cache[k] =>
              /\ proc[p].at = "saveCache" /\ k = Key(p)
              /\ cache'[k] = [run |-> proc[p].run, outcome |-> proc[p].answer]
<1>1. CASE UNCHANGED files
  BY <1>1 DEF files
<1>2. CASE SaveApproval(p) \/ MarkWeek(p)
  BY <1>2 DEF SaveApproval, MarkWeek, At, TypeOK, CaseLabels, ModelLabels
<1>3. CASE SaveCached(p) \/ SaveResult(p)
  BY <1>3 DEF SaveCached, SaveResult, At, TypeOK, CaseLabels, ModelLabels
<1>4. CASE SaveCache(p)
  BY <1>4 DEF SaveCache, At, TypeOK
<1>5. CASE WritePlan(p) \/ MarkGlobal(p)
  BY <1>5 DEF WritePlan, MarkGlobal
<1>6. CASE \/ Start(p) \/ Fault(p) \/ LockFault(p) \/ Crash(p)
           \/ Acquire(p) \/ ReadPlan(p) \/ ResolveAuditor(p) \/ TakeCase(p)
           \/ FinishRun(p) \/ EnsureApproval(p) \/ CheckApproval(p)
           \/ ReadApproval(p) \/ ReadResult(p) \/ RepairCache(p)
           \/ ReadMarker(p) \/ ReadCache(p) \/ ReadAttempt(p)
           \/ PrepareCall(p) \/ CallModel(p) \/ Answer(p) \/ Release(p)
  BY <1>1, <1>6 DEF Start, Fault, LockFault, Crash, Acquire, ReadPlan, ResolveAuditor,
     TakeCase, FinishRun, EnsureApproval, CheckApproval, ReadApproval, ReadResult,
     RepairCache, ReadMarker, ReadCache, ReadAttempt, PrepareCall, CallModel, Answer,
     Release
<1> QED
  BY <1>2, <1>3, <1>4, <1>5, <1>6 DEF Command, Step

LEMMA PlannedNext ==
  ASSUME Inv, Immutable, KnownOK, EveryCaseIsPlanned, NEW p \in Procs, Command(p)
  PROVE  EveryCaseIsPlanned'
<1> SUFFICES ASSUME NEW r \in Runs,
                    approval'[r] # None \/ r \in weekAttempt' \/ weekResult'[r] # None
             PROVE  Planned(r)'
  BY DEF EveryCaseIsPlanned, Planned
<1>1. Planned(r) => Planned(r)'
  BY PlannedStays
<1>2. CASE approval[r] # None \/ r \in weekAttempt \/ weekResult[r] # None
  BY <1>1, <1>2 DEF EveryCaseIsPlanned, Planned
<1>3. CASE ~(approval[r] # None \/ r \in weekAttempt \/ weekResult[r] # None)
  <2>1. r = proc[p].run /\ proc[p].at \in CaseLabels
    BY <1>3, Gains, InvImpliesTypeOK
  <2> QED
    BY <1>1, <2>1 DEF KnownOK, PlanKnown
<1> QED
  BY <1>2, <1>3

LEMMA ValidNext ==
  ASSUME Inv, Immutable, CacheAgreesWithOrigin, StoredResultsAreValid,
         NEW p \in Procs, Command(p)
  PROVE  StoredResultsAreValid'
<1> SUFFICES ASSUME NEW r \in Runs, weekResult'[r] # None
             PROVE  /\ approval'[r] # None
                    /\ weekResult'[r].key =
                         <<RunPatch[r], approval'[r].model, approval'[r].prompt>>
  BY DEF StoredResultsAreValid, ApprovedKey
<1>1. approval[r] # None => approval'[r] = approval[r]
  BY DEF Immutable
<1>2. CASE weekResult[r] # None
  BY <1>1, <1>2 DEF StoredResultsAreValid, ApprovedKey, Immutable
<1>3. CASE weekResult[r] = None
  <2>1. Saves(p) \/ Copies(p)
    BY <1>3, Kinds DEF Quiet, Holds, Marks
  <2>2. PICK independent \in BOOLEAN, outcome \in Outcomes, from \in Weeks :
          /\ weekResult'[proc[p].run] =
               [independent |-> independent, outcome |-> outcome,
                key |-> KeyOf(proc[p]), from |-> from]
          /\ \A s \in Runs \ {proc[p].run} : weekResult'[s] = weekResult[s]
    BY <2>1, StoresEffect
  <2>3. r = proc[p].run /\ weekResult'[r].key = KeyOf(proc[p])
    BY <1>3, <2>2
  <2>4. proc[p].at \in ModelLabels
    BY <2>1 DEF Saves, Copies, ModelLabels
  <2>5. /\ approval[r] # None /\ approval[r].model = proc[p].model
        /\ approval[r].prompt = proc[p].prompt
    BY <2>3, <2>4, ProcFacts DEF DiskOK
  <2> QED
    BY <1>1, <2>3, <2>5 DEF KeyOf
<1> QED
  BY <1>2, <1>3

LEMMA OneNext ==
  ASSUME Inv, CacheAgreesWithOrigin, HoldersOK, OneIndependentResult,
         NEW p \in Procs, Command(p)
  PROVE  OneIndependentResult'
<1>1. CASE weekResult' = weekResult
  BY <1>1 DEF OneIndependentResult
<1>2. CASE Saves(p) \/ Copies(p)
  <2> DEFINE r == proc[p].run  k == KeyOf(proc[p])
  <2>1. /\ r \in Runs
        /\ weekResult'[r].independent <=> Saves(p)
        /\ weekResult'[r].key = k
        /\ \A s \in Runs \ {r} : weekResult'[s] = weekResult[s]
    <3>1. PICK independent \in BOOLEAN, outcome \in Outcomes, from \in Weeks :
            /\ r \in Runs
            /\ weekResult'[r] = [independent |-> independent, outcome |-> outcome,
                                 key |-> k, from |-> from]
            /\ \A s \in Runs \ {r} : weekResult'[s] = weekResult[s]
            /\ independent <=> Saves(p)
      BY <1>2, StoresEffect
    <3> QED
      BY <3>1
  <2>2. Saves(p) => \A s \in Runs : ~AnswersKey(s, k)
    BY DEF Saves, HoldersOK, Holding, Asking
  <2> HIDE DEF r, k
  <2>3. ASSUME NEW s \in Runs, NEW t \in Runs,
               weekResult'[s] # None, weekResult'[t] # None,
               weekResult'[s].independent, weekResult'[t].independent,
               weekResult'[s].key = weekResult'[t].key
        PROVE  s = t
    BY <2>1, <2>2, <2>3 DEF OneIndependentResult, AnswersKey
  <2> QED
    BY <2>3 DEF OneIndependentResult
<1> QED
  BY <1>1, <1>2, Kinds DEF Quiet, Holds, Marks

LEMMA CacheNext ==
  ASSUME Inv, Immutable, KnownOK, CacheAgreesWithOrigin, NEW p \in Procs, Command(p)
  PROVE  CacheAgreesWithOrigin'
<1> SUFFICES ASSUME NEW k \in Keys, cache'[k] # None
             PROVE  LET res == weekResult'[cache'[k].run] IN
                    /\ res # None /\ res.independent /\ res.key = k
                    /\ res.outcome = cache'[k].outcome
  BY DEF CacheAgreesWithOrigin
<1>1. \A r \in Runs : weekResult[r] # None => weekResult'[r] = weekResult[r]
  BY DEF Immutable
<1>2. CASE cache'[k] = cache[k]
  <2>1. cache[k].run \in Runs
    BY <1>2, InvImpliesTypeOK DEF TypeOK, CacheRecords
  <2> QED
    BY <1>1, <1>2, <2>1 DEF CacheAgreesWithOrigin
<1>3. CASE cache'[k] # cache[k]
  <2>1. /\ proc[p].at = "saveCache" /\ k = KeyOf(proc[p])
        /\ cache'[k] = [run |-> proc[p].run, outcome |-> proc[p].answer]
    BY <1>3, Gains, InvImpliesTypeOK DEF Key, KeyOf
  <2>2. /\ AnswersKey(proc[p].run, k) /\ weekResult[proc[p].run].outcome = proc[p].answer
        /\ proc[p].run \in Runs
    BY <2>1, ProcFacts DEF KnownOK, ResultKnown, LocalOK, CaseLabels, ModelLabels
  <2> QED
    BY <1>1, <2>1, <2>2 DEF AnswersKey
<1> QED
  BY <1>2, <1>3

(* An answer of the same week would be the run's own: a plan has each patch
   once. *)
LEMMA CopyIsForeign ==
  ASSUME Inv, KnownOK, PlansOK, Records, NEW p \in Procs, Copies(p)
  PROVE  LET s == cache[KeyOf(proc[p])].run IN
         /\ s \in Runs /\ RunWeek[s] # RunWeek[proc[p].run]
         /\ AnswersKey(s, KeyOf(proc[p]))
         /\ weekResult[s].outcome = cache[KeyOf(proc[p])].outcome
<1> DEFINE r == proc[p].run  k == KeyOf(proc[p])  s == cache[k].run
<1>1. /\ r \in Runs /\ k \in Keys /\ weekResult[r] = None /\ cache[k] # None
  BY StoresEffect DEF Records, ResultsAreTraceable
<1>2. s \in Runs
  BY <1>1, InvImpliesTypeOK DEF TypeOK, CacheRecords
<1>3. AnswersKey(s, k) /\ weekResult[s].outcome = cache[k].outcome
  BY <1>1 DEF Records, ResultsAreTraceable, CacheAgreesWithOrigin, AnswersKey
<1>4. RunPatch[s] = RunPatch[r]
  <2>1. weekResult[s].key = <<RunPatch[s], approval[s].model, approval[s].prompt>>
    BY <1>2, <1>3 DEF Records, StoredResultsAreValid, ApprovedKey, AnswersKey
  <2>2. weekResult[s].key = <<RunPatch[r], proc[p].model, proc[p].prompt>>
    BY <1>3 DEF AnswersKey, KeyOf
  <2> HIDE DEF r, s, k
  <2> QED
    BY <2>1, <2>2
<1>5. Planned(s) /\ Planned(r)
  <2>1. Planned(s)
    BY <1>2, <1>3 DEF Records, ResultsAreTraceable, EveryCaseIsPlanned, AnswersKey, Planned
  <2>2. Planned(r)
    BY DEF KnownOK, PlanKnown, Copies, CaseLabels, ModelLabels
  <2> QED
    BY <2>1, <2>2
<1>6. ASSUME RunWeek[s] = RunWeek[r] PROVE FALSE
  <2>1. RunWeek[r] \in Weeks
    BY <1>1, ConstantsAssumption
  <2>2. plan[RunWeek[r]].selected \in Selections(RunWeek[r])
    BY <1>5, <2>1 DEF PlansOK, Planned
  <2>3. s = r
    BY <1>4, <1>5, <1>6, <2>2 DEF Planned, Selections
  <2> QED
    BY <1>1, <1>3, <2>3 DEF AnswersKey
<1> QED
  BY <1>2, <1>3, <1>6

LEMMA ForeignNext ==
  ASSUME Inv, Immutable, KnownOK, PlansOK, Records, NEW p \in Procs, Command(p)
  PROVE  CachedFromAnotherWeek'
<1> SUFFICES ASSUME NEW r \in Runs, weekResult'[r] # None, ~weekResult'[r].independent
             PROVE  /\ weekResult'[r].from # RunWeek[r]
                    /\ \E s \in Runs :
                         /\ RunWeek[s] = weekResult'[r].from
                         /\ weekResult'[s] # None /\ weekResult'[s].independent
                         /\ weekResult'[s].key = weekResult'[r].key
                         /\ weekResult'[s].outcome = weekResult'[r].outcome
  BY DEF CachedFromAnotherWeek
<1>1. \A s \in Runs : weekResult[s] # None => weekResult'[s] = weekResult[s]
  BY DEF Immutable
<1>2. CASE weekResult[r] # None
  <2>1. PICK s \in Runs :
          /\ RunWeek[s] = weekResult[r].from
          /\ weekResult[s] # None /\ weekResult[s].independent
          /\ weekResult[s].key = weekResult[r].key
          /\ weekResult[s].outcome = weekResult[r].outcome
    BY <1>1, <1>2 DEF Records, ResultsAreTraceable, CachedFromAnotherWeek
  <2>2. weekResult'[r] = weekResult[r] /\ weekResult[r].from # RunWeek[r]
    BY <1>1, <1>2 DEF Records, ResultsAreTraceable, CachedFromAnotherWeek
  <2> QED
    BY <1>1, <2>1, <2>2
<1>3. CASE weekResult[r] = None
  <2> DEFINE k == KeyOf(proc[p])  s == cache[k].run
  <2>1. Saves(p) \/ Copies(p)
    BY <1>3, Kinds DEF Quiet, Holds, Marks
  <2>2. /\ \A t \in Runs \ {proc[p].run} : weekResult'[t] = weekResult[t]
        /\ weekResult'[proc[p].run].independent <=> Saves(p)
        /\ weekResult'[proc[p].run].key = k
        /\ Copies(p) => /\ weekResult'[proc[p].run].outcome = cache[k].outcome
                        /\ weekResult'[proc[p].run].from = RunWeek[s]
    <3>1. PICK independent \in BOOLEAN, outcome \in Outcomes, from \in Weeks :
            /\ weekResult'[proc[p].run] =
                 [independent |-> independent, outcome |-> outcome,
                  key |-> k, from |-> from]
            /\ \A t \in Runs \ {proc[p].run} : weekResult'[t] = weekResult[t]
            /\ independent <=> Saves(p)
            /\ Copies(p) => outcome = cache[k].outcome /\ from = RunWeek[s]
      BY <2>1, StoresEffect DEF Records, ResultsAreTraceable
    <3> QED
      BY <3>1
  <2>3. r = proc[p].run /\ Copies(p)
    BY <1>3, <2>1, <2>2
  <2>4. /\ s \in Runs /\ RunWeek[s] # RunWeek[r] /\ AnswersKey(s, k)
        /\ weekResult[s].outcome = cache[k].outcome
    BY <2>3, CopyIsForeign
  <2> QED
    BY <1>1, <2>2, <2>3, <2>4 DEF AnswersKey
<1> QED
  BY <1>2, <1>3


-----------------------------------------------------------------------------
(* The invariant.                                                          *)

LEMMA ResultInit == Init => ResultInv
<1> SUFFICES ASSUME Init PROVE ResultInv
  OBVIOUS
<1>1. \A p \in Procs : proc[p] = NoProcess
  BY DEF Init
<1>2. NoProcess.at = "idle" /\ NoProcess.todo = {}
  BY DEF NoProcess
<1>3. KnownOK
  BY <1>1, <1>2 DEF KnownOK, PlanKnown, ResultKnown, CaseLabels, ModelLabels
<1>4. PlansOK
  BY DEF Init, PlansOK
<1>5. HoldersOK
  BY <1>1, <1>2 DEF Init, HoldersOK, Holding, Reserving, Asking
<1>6. EveryCaseIsPlanned
  BY DEF Init, EveryCaseIsPlanned
<1>7. StoredResultsAreValid /\ OneIndependentResult /\ CachedFromAnotherWeek
  BY DEF Init, StoredResultsAreValid, OneIndependentResult, CachedFromAnotherWeek
<1>8. CacheAgreesWithOrigin
  BY DEF Init, CacheAgreesWithOrigin
<1> QED
  BY <1>3, <1>4, <1>5, <1>6, <1>7, <1>8 DEF ResultInv, Records, ResultsAreTraceable

LEMMA ResultNext ==
  ASSUME Inv, ResultInv, [Next]_vars PROVE ResultInv'
<1>1. ASSUME NEW p \in Procs, Command(p) PROVE ResultInv'
  <2>1. Immutable
    BY <1>1, StepIsImmutable, InvImpliesTypeOK DEF Command, Next
  <2>2. /\ KnownOK /\ PlansOK /\ HoldersOK /\ Records
        /\ StoredResultsAreValid /\ OneIndependentResult
        /\ EveryCaseIsPlanned /\ CacheAgreesWithOrigin /\ CachedFromAnotherWeek
    BY DEF ResultInv, Records, ResultsAreTraceable
  <2>3. KnownOK' /\ PlansOK' /\ HoldersOK'
    BY <1>1, <2>1, <2>2, KnownNext, HoldersNext
  <2>4. StoredResultsAreValid' /\ OneIndependentResult'
    BY <1>1, <2>1, <2>2, ValidNext, OneNext
  <2>5. EveryCaseIsPlanned' /\ CacheAgreesWithOrigin' /\ CachedFromAnotherWeek'
    BY <1>1, <2>1, <2>2, PlannedNext, CacheNext, ForeignNext
  <2> QED
    BY <2>3, <2>4, <2>5 DEF ResultInv, Records, ResultsAreTraceable
<1>2. CASE UNCHANGED <<files, proc>>
  <2>1. KnownOK' /\ PlansOK'
    BY <1>2 DEF files, ResultInv, KnownOK, PlansOK, PlanKnown, ResultKnown, AnswersKey,
       KeyOf, Planned
  <2>2. HoldersOK'
    BY <1>2 DEF files, ResultInv, HoldersOK, AnswersKey, KeyOf
  <2>3. Records'
    BY <1>2 DEF files, ResultInv, Records, StoredResultsAreValid, OneIndependentResult,
       ResultsAreTraceable, EveryCaseIsPlanned, CacheAgreesWithOrigin,
       CachedFromAnotherWeek, ApprovedKey
  <2> QED
    BY <2>1, <2>2, <2>3 DEF ResultInv
<1>3. CASE RemoveLock \/ DeployPrompt \/ UNCHANGED vars
  BY <1>2, <1>3 DEF RemoveLock, DeployPrompt, vars
<1> QED
  BY <1>1, <1>3 DEF Next, Command

LEMMA SpecImpliesResultInv == Spec => [](Inv /\ ResultInv)
<1>1. Inv /\ ResultInv /\ [Next]_vars => ResultInv'
  BY ResultNext
<1> QED
  BY <1>1, ResultInit, SpecImpliesInv, PTL DEF Spec

(* No run ever ends as invalid_stored_result (runSingleCase). *)
THEOREM ResultsAreValid == Spec => []StoredResultsAreValid
<1>1. ResultInv => StoredResultsAreValid
  BY DEF ResultInv, Records
<1> QED
  BY <1>1, SpecImpliesResultInv, PTL

(* One run holds the answer that was paid for (runSingleCase). *)
THEOREM PaidForOnce == Spec => []OneIndependentResult
<1>1. ResultInv => OneIndependentResult
  BY DEF ResultInv, Records
<1> QED
  BY <1>1, SpecImpliesResultInv, PTL

(* Every result leads back to one plan and one paid answer (runSingleCase). *)
THEOREM EveryResultIsTraceable == Spec => []ResultsAreTraceable
<1>1. ResultInv => ResultsAreTraceable
  BY DEF ResultInv, Records
<1> QED
  BY <1>1, SpecImpliesResultInv, PTL

-----------------------------------------------------------------------------
(* The refinement of AuditOnce.                                            *)

Holders(k, labels) == {p \in Procs : proc[p].at \in labels /\ KeyOf(proc[p]) = k}

(* statusOf without its CHOOSE. *)
StatusIs ==
  /\ statusOf = [k \in Keys |-> statusOf[k]]
  /\ \A k \in Keys, r \in Runs : AnswersKey(r, k) => statusOf[k] = weekResult[r].outcome
  /\ \A k \in Keys : (\A r \in Runs : ~AnswersKey(r, k)) =>
       /\ k \notin globalAttempt => statusOf[k] = "open"
       /\ k \in globalAttempt /\ Holders(k, Reserving) # {} => statusOf[k] = "reserved"
       /\ /\ k \in globalAttempt /\ Holders(k, Reserving) = {}
          /\ Holders(k, Asking) # {}
          => statusOf[k] = "asked"
       /\ k \in globalAttempt /\ Holders(k, Holding) = {} => statusOf[k] = "lost"

LEMMA StatusFacts == ResultInv => StatusIs
<1> SUFFICES ASSUME ResultInv PROVE StatusIs
  OBVIOUS
<1>1. statusOf = [k \in Keys |-> statusOf[k]]
  BY DEF statusOf
<1>2. ASSUME NEW k \in Keys, NEW r \in Runs, AnswersKey(r, k)
      PROVE  statusOf[k] = weekResult[r].outcome
  <2> DEFINE s == CHOOSE t \in Answers(k) : TRUE
  <2>1. r \in Answers(k)
    BY <1>2 DEF Answers, AnswersKey
  <2>2. s \in Answers(k)
    BY <2>1
  <2>3. statusOf[k] = weekResult[s].outcome
    BY <2>1 DEF statusOf
  <2> HIDE DEF s
  <2>4. s = r
    BY <1>2, <2>2 DEF Answers, AnswersKey, ResultInv, Records, OneIndependentResult
  <2> QED
    BY <2>3, <2>4
<1>3. ASSUME NEW k \in Keys, \A r \in Runs : ~AnswersKey(r, k)
      PROVE  statusOf[k] = IF k \notin globalAttempt THEN "open"
                           ELSE IF Holders(k, Reserving) # {} THEN "reserved"
                           ELSE IF Holders(k, Asking) # {} THEN "asked" ELSE "lost"
  <2>1. Answers(k) = {}
    BY <1>3 DEF Answers, AnswersKey
  <2>2. /\ HeldAt(k, {"markWeek", "call"}) <=> Holders(k, Reserving) # {}
        /\ HeldAt(k, {"waiting", "saveResult"}) <=> Holders(k, Asking) # {}
    BY DEF HeldAt, Holders, Key, KeyOf, Reserving, Asking
  <2> QED
    BY <2>1, <2>2 DEF statusOf
<1>4. \A k \in Keys : Holders(k, Holding) = {} =>
        Holders(k, Reserving) = {} /\ Holders(k, Asking) = {}
  BY DEF Holders, Holding
<1> QED
  BY <1>1, <1>2, <1>3, <1>4 DEF StatusIs

LEMMA StatusFactsNext == ResultInv' => StatusIs'
BY StatusFacts, PTL


(* What a step has to leave alone for a question to keep its status. *)
Untouched(k) ==
  /\ \A r \in Runs : AnswersKey(r, k)' <=> AnswersKey(r, k)
  /\ \A r \in Runs : AnswersKey(r, k) => weekResult'[r].outcome = weekResult[r].outcome
  /\ k \in globalAttempt' <=> k \in globalAttempt
  /\ Holders(k, Reserving)' = Holders(k, Reserving)
  /\ Holders(k, Asking)' = Holders(k, Asking)

LEMMA StatusStays ==
  ASSUME StatusIs, StatusIs', NEW k \in Keys, Untouched(k)
  PROVE  statusOf'[k] = statusOf[k]
<1>1. CASE \E r \in Runs : AnswersKey(r, k)
  <2>1. PICK r \in Runs : AnswersKey(r, k)
    BY <1>1
  <2>2. statusOf[k] = weekResult[r].outcome
    BY <2>1 DEF StatusIs
  <2>3. AnswersKey(r, k)' /\ weekResult'[r].outcome = weekResult[r].outcome
    BY <2>1 DEF Untouched
  <2>4. statusOf'[k] = weekResult'[r].outcome
    BY <2>3 DEF StatusIs
  <2> QED
    BY <2>2, <2>3, <2>4
<1>2. CASE \A r \in Runs : ~AnswersKey(r, k)
  <2>1. \A r \in Runs : ~AnswersKey(r, k)'
    BY <1>2 DEF Untouched
  <2>2. /\ Holders(k, Holding) = Holders(k, Reserving) \union Holders(k, Asking)
        /\ Holders(k, Holding)' = Holders(k, Reserving)' \union Holders(k, Asking)'
    BY DEF Holders, Holding
  <2>3. CASE k \notin globalAttempt
    BY <1>2, <2>1, <2>3 DEF StatusIs, Untouched
  <2>4. CASE k \in globalAttempt /\ Holders(k, Reserving) # {}
    BY <1>2, <2>1, <2>4 DEF StatusIs, Untouched
  <2>5. CASE k \in globalAttempt /\ Holders(k, Reserving) = {} /\ Holders(k, Asking) # {}
    BY <1>2, <2>1, <2>5 DEF StatusIs, Untouched
  <2>6. CASE k \in globalAttempt /\ Holders(k, Reserving) = {} /\ Holders(k, Asking) = {}
    <3>1. Holders(k, Holding) = {} /\ Holders(k, Holding)' = {}
      BY <2>2, <2>6 DEF Untouched
    <3> QED
      BY <1>2, <2>1, <2>6, <3>1 DEF StatusIs, Untouched
  <2> QED
    BY <2>3, <2>4, <2>5, <2>6
<1> QED
  BY <1>1, <1>2

LEMMA AllStay ==
  ASSUME StatusIs, StatusIs', \A k \in Keys : Untouched(k)
  PROVE  statusOf' = statusOf
<1>1. \A k \in Keys : statusOf'[k] = statusOf[k]
  BY StatusStays
<1>2. /\ statusOf = [k \in Keys |-> statusOf[k]]
      /\ statusOf' = [k \in Keys |-> statusOf'[k]]
  BY DEF StatusIs
<1> HIDE DEF statusOf
<1> QED
  BY <1>1, <1>2

LEMMA OneMoves ==
  ASSUME StatusIs, StatusIs', NEW k \in Keys, NEW s, statusOf'[k] = s,
         \A j \in Keys \ {k} : Untouched(j)
  PROVE  statusOf' = [statusOf EXCEPT ![k] = s]
<1>1. \A j \in Keys \ {k} : statusOf'[j] = statusOf[j]
  BY StatusStays
<1>2. /\ statusOf = [j \in Keys |-> statusOf[j]]
      /\ statusOf' = [j \in Keys |-> statusOf'[j]]
  BY DEF StatusIs
<1> HIDE DEF statusOf
<1> QED
  BY <1>1, <1>2

(* The holders of a question other than that of p stay who they are. *)
LEMMA OtherHolders ==
  ASSUME NEW p \in Procs, \A q \in Procs \ {p} : proc'[q] = proc[q],
         NEW labels, NEW k,
         proc[p].at \in labels /\ KeyOf(proc[p]) = k <=>
           proc'[p].at \in labels /\ KeyOf(proc'[p]) = k
  PROVE  Holders(k, labels)' = Holders(k, labels)
<1>1. \A q \in Procs : KeyOf(proc[q])' = KeyOf(proc'[q])
  BY DEF KeyOf
<1> QED
  BY <1>1 DEF Holders

(* A holder holds alone, and its question is not answered yet. *)
LEMMA HoldsAlone ==
  ASSUME Inv, ResultInv, NEW p \in Procs, proc[p].at \in Holding
  PROVE  LET k == KeyOf(proc[p]) IN
         /\ k \in Keys /\ k \in globalAttempt
         /\ \A r \in Runs : ~AnswersKey(r, k)
         /\ \A labels \in {Reserving, Asking, Holding} :
              Holders(k, labels) = IF proc[p].at \in labels THEN {p} ELSE {}
<1>1. KeyOf(proc[p]) \in Keys
  BY ProcFacts, KeyType DEF Holding, Reserving, Asking, ModelLabels
<1>2. \A q \in Procs \ {p} :
        ~(proc[q].at \in Holding /\ KeyOf(proc[q]) = KeyOf(proc[p]))
  BY DEF ResultInv, HoldersOK
<1> QED
  BY <1>1, <1>2 DEF ResultInv, HoldersOK, Holders, Holding


(* No answer is stored: what happens to the question of p and to the others. *)
LEMMA NoAnswer ==
  ASSUME NEW p \in Procs, \A q \in Procs \ {p} : proc'[q] = proc[q],
         weekResult' = weekResult, NEW k, k # KeyOf(proc[p]) \/ proc[p].at \notin Holding,
         k # KeyOf(proc'[p]) \/ proc'[p].at \notin Holding,
         k \in globalAttempt' <=> k \in globalAttempt
  PROVE  Untouched(k) /\ verdictOf' = verdictOf
<1>1. Holders(k, Reserving)' = Holders(k, Reserving)
  BY OtherHolders DEF Holding
<1>2. Holders(k, Asking)' = Holders(k, Asking)
  BY OtherHolders DEF Holding
<1> QED
  BY <1>1, <1>2 DEF Untouched, AnswersKey, verdictOf

LEMMA QuietRefines ==
  ASSUME Inv, ResultInv, StatusIs, StatusIs', NEW p \in Procs, Quiet(p),
         \A q \in Procs \ {p} : proc'[q] = proc[q]
  PROVE  Once!Next \/ UNCHANGED <<statusOf, verdictOf>>
<1>1. verdictOf' = verdictOf
  BY DEF Quiet, verdictOf
<1>2. CASE proc[p].at \notin Holding
  <2>1. \A j \in Keys : Untouched(j)
    BY <1>2, NoAnswer DEF Quiet
  <2> QED
    BY <1>1, <2>1, AllStay
<1>3. CASE proc[p].at \in Holding
  <2>1. PICK k \in Keys : k = KeyOf(proc[p])
    BY <1>3, HoldsAlone
  <2>2. /\ k \in globalAttempt
        /\ \A r \in Runs : ~AnswersKey(r, k)
        /\ Holders(k, Reserving) = IF proc[p].at \in Reserving THEN {p} ELSE {}
        /\ Holders(k, Asking) = IF proc[p].at \in Asking THEN {p} ELSE {}
    BY <1>3, <2>1, HoldsAlone
  <2>3. statusOf[k] \in {"reserved", "asked"}
    <3>1. CASE proc[p].at \in Reserving
      BY <2>2, <3>1 DEF StatusIs
    <3>2. CASE proc[p].at \notin Reserving
      BY <1>3, <2>2, <3>2 DEF StatusIs, Holding
    <3> QED
      BY <3>1, <3>2
  <2>4. Holders(k, Holding)' = {}
    <3>1. \A q \in Procs \ {p} : ~(proc[q].at \in Holding /\ KeyOf(proc[q]) = k)
      BY <1>3, <2>1 DEF ResultInv, HoldersOK
    <3>2. \A q \in Procs : ~(proc'[q].at \in Holding /\ KeyOf(proc'[q]) = k)
      BY <3>1 DEF Quiet
    <3> QED
      BY <3>2 DEF Holders, KeyOf
  <2>5. k \in globalAttempt' /\ \A r \in Runs : ~AnswersKey(r, k)'
    BY <2>2 DEF Quiet, AnswersKey
  <2>6. statusOf'[k] = "lost"
    BY <2>4, <2>5 DEF StatusIs
  <2>7. \A j \in Keys \ {k} : Untouched(j)
    BY <2>1, NoAnswer DEF Quiet
  <2>8. statusOf' = [statusOf EXCEPT ![k] = "lost"]
    BY <2>6, <2>7, OneMoves
  <2> QED
    BY <1>1, <2>3, <2>8 DEF Once!Next, Once!Lose, Once!Move
<1> QED
  BY <1>2, <1>3

LEMMA HoldsRefines ==
  ASSUME Inv, ResultInv, StatusIs, StatusIs', NEW p \in Procs, Holds(p),
         \A q \in Procs \ {p} : proc'[q] = proc[q]
  PROVE  Once!Next \/ UNCHANGED <<statusOf, verdictOf>>
<1>1. verdictOf' = verdictOf /\ proc[p].at \in Holding
  BY DEF Holds, verdictOf
<1>2. PICK k \in Keys : k = KeyOf(proc[p])
  BY <1>1, HoldsAlone
<1>3. /\ k \in globalAttempt
      /\ \A r \in Runs : ~AnswersKey(r, k)
      /\ Holders(k, Reserving) = IF proc[p].at \in Reserving THEN {p} ELSE {}
      /\ Holders(k, Asking) = IF proc[p].at \in Asking THEN {p} ELSE {}
  BY <1>1, <1>2, HoldsAlone
<1>4. \A j \in Keys \ {k} : Untouched(j)
  BY <1>2, NoAnswer DEF Holds
<1>5. k \in globalAttempt' /\ \A r \in Runs : ~AnswersKey(r, k)'
  BY <1>3 DEF Holds, AnswersKey
<1>6. \A q \in Procs \ {p} : ~(proc'[q].at \in Holding /\ KeyOf(proc'[q]) = k)
  BY <1>1, <1>2 DEF ResultInv, HoldersOK
<1>7. KeyOf(proc'[p]) = k
  BY <1>2 DEF Holds
<1>8. CASE proc[p].at \in Reserving /\ proc'[p].at \in Asking
  <2>1. statusOf[k] = "reserved"
    BY <1>3, <1>8 DEF StatusIs
  <2>2. Holders(k, Reserving)' = {} /\ Holders(k, Asking)' = {p}
    BY <1>6, <1>7, <1>8 DEF Holders, Holding, KeyOf, Reserving, Asking
  <2>3. statusOf'[k] = "asked"
    BY <1>5, <2>2 DEF StatusIs
  <2>4. statusOf' = [statusOf EXCEPT ![k] = "asked"]
    BY <1>4, <2>3, OneMoves
  <2> QED
    BY <1>1, <2>1, <2>4 DEF Once!Next, Once!Ask, Once!Move
<1>9. CASE proc[p].at \in Reserving <=> proc'[p].at \in Reserving
  <2>1. proc[p].at \in Asking <=> proc'[p].at \in Asking
    BY <1>1, <1>9 DEF Holds, Holding, Reserving, Asking
  <2>2. Holders(k, Reserving)' = Holders(k, Reserving)
    BY <1>2, <1>7, <1>9, OtherHolders
  <2>3. Holders(k, Asking)' = Holders(k, Asking)
    BY <1>2, <1>7, <2>1, OtherHolders
  <2>4. Untouched(k)
    BY <1>3, <1>5, <2>2, <2>3 DEF Untouched
  <2>5. \A j \in Keys : Untouched(j)
    BY <1>4, <2>4
  <2> QED
    BY <1>1, <2>5, AllStay
<1> QED
  BY <1>1, <1>8, <1>9 DEF Holds, Holding, Reserving, Asking

LEMMA MarksRefines ==
  ASSUME Inv, ResultInv, StatusIs, StatusIs', NEW p \in Procs, Marks(p),
         \A q \in Procs \ {p} : proc'[q] = proc[q]
  PROVE  Once!Next
<1>1. verdictOf' = verdictOf
  BY DEF Marks, verdictOf
<1>2. PICK k \in Keys : k = KeyOf(proc[p])
  BY ProcFacts, KeyType DEF Marks, ModelLabels
<1>3. /\ k \notin globalAttempt /\ k \in globalAttempt'
      /\ \A j \in Keys \ {k} : j \in globalAttempt' <=> j \in globalAttempt
  BY <1>2 DEF Marks
<1>4. \A r \in Runs : ~AnswersKey(r, k) /\ ~AnswersKey(r, k)'
  BY <1>3 DEF ResultInv, HoldersOK, AnswersKey, Marks
<1>5. statusOf[k] = "open"
  BY <1>3, <1>4 DEF StatusIs
<1>6. p \in Holders(k, Reserving)'
  BY <1>2 DEF Marks, Holders, KeyOf, Reserving
<1>7. statusOf'[k] = "reserved"
  BY <1>3, <1>4, <1>6 DEF StatusIs
<1>8. \A j \in Keys \ {k} : Untouched(j)
  BY <1>2, <1>3, NoAnswer DEF Marks
<1>9. statusOf' = [statusOf EXCEPT ![k] = "reserved"]
  BY <1>7, <1>8, OneMoves
<1> QED
  BY <1>1, <1>5, <1>9 DEF Once!Next, Once!Reserve, Once!Move

LEMMA VerdictMoves ==
  ASSUME NEW r \in Runs, NEW outcome, weekResult[r] = None, weekResult'[r] # None,
         weekResult'[r].outcome = outcome,
         \A s \in Runs \ {r} : weekResult'[s] = weekResult[s]
  PROVE  verdictOf[r] = None /\ verdictOf' = [verdictOf EXCEPT ![r] = outcome]
<1>1. \A s \in Runs \ {r} : verdictOf'[s] = verdictOf[s]
  BY DEF verdictOf
<1>2. verdictOf[r] = None /\ verdictOf'[r] = outcome
  BY DEF verdictOf
<1>3. /\ verdictOf = [s \in Runs |-> verdictOf[s]]
      /\ verdictOf' = [s \in Runs |-> verdictOf'[s]]
  BY DEF verdictOf
<1> HIDE DEF verdictOf
<1> QED
  BY <1>1, <1>2, <1>3

LEMMA SavesRefines ==
  ASSUME Inv, ResultInv, StatusIs, StatusIs', NEW p \in Procs, Saves(p),
         \A q \in Procs \ {p} : proc'[q] = proc[q]
  PROVE  Once!Next
<1>1. proc[p].at = "saveResult" /\ proc[p].at \in Holding /\ proc[p].at \notin Reserving
  BY DEF Saves, Holding, Reserving, Asking
<1>2. PICK k \in Keys : k = KeyOf(proc[p])
  BY <1>1, HoldsAlone
<1>3. PICK r \in Runs, outcome \in Outcomes, from \in Weeks :
        /\ weekResult[r] = None /\ weekResult'[r] # None
        /\ weekResult'[r] = [independent |-> TRUE, outcome |-> outcome,
                             key |-> k, from |-> from]
        /\ \A s \in Runs \ {r} : weekResult'[s] = weekResult[s]
  <2>1. PICK independent \in BOOLEAN, outcome \in Outcomes, from \in Weeks :
           LET r == proc[p].run IN
           /\ r \in Runs
           /\ weekResult[r] = None /\ weekResult'[r] # None
           /\ weekResult'[r] = [independent |-> independent, outcome |-> outcome,
                                key |-> KeyOf(proc[p]), from |-> from]
           /\ \A s \in Runs \ {r} : weekResult'[s] = weekResult[s]
           /\ independent
    BY StoresEffect DEF ResultInv, Records, ResultsAreTraceable
  <2>2. independent = TRUE
    BY <2>1
  <2> QED
    BY <1>2, <2>1, <2>2
<1>4. /\ k \in globalAttempt /\ globalAttempt' = globalAttempt
      /\ \A s \in Runs : ~AnswersKey(s, k)
      /\ Holders(k, Reserving) = {} /\ Holders(k, Asking) = {p}
  BY <1>1, <1>2, HoldsAlone DEF Saves, Stores, Asking
<1>5. statusOf[k] = "asked"
  BY <1>4 DEF StatusIs
<1>6. AnswersKey(r, k)' /\ weekResult'[r].outcome = outcome
  BY <1>3 DEF AnswersKey
<1>7. statusOf'[k] = outcome
  BY <1>6 DEF StatusIs
<1>8. ASSUME NEW j \in Keys \ {k} PROVE Untouched(j)
  <2>1. \A s \in Runs : AnswersKey(s, j)' <=> AnswersKey(s, j)
    BY <1>3 DEF AnswersKey
  <2>2. \A s \in Runs : AnswersKey(s, j) => weekResult'[s] = weekResult[s]
    BY <1>3 DEF AnswersKey
  <2>3. Holders(j, Reserving)' = Holders(j, Reserving)
    BY <1>2, OtherHolders DEF Saves, Stores, Holding
  <2>4. Holders(j, Asking)' = Holders(j, Asking)
    BY <1>2, OtherHolders DEF Saves, Stores, Holding
  <2> QED
    BY <1>4, <2>1, <2>2, <2>3, <2>4 DEF Untouched
<1>9. statusOf' = [statusOf EXCEPT ![k] = outcome]
  BY <1>7, <1>8, OneMoves
<1>10. verdictOf[r] = None /\ verdictOf' = [verdictOf EXCEPT ![r] = outcome]
  BY <1>3, VerdictMoves
<1>11. Once!Conclude(k, r, outcome)
  BY <1>5, <1>9, <1>10 DEF Once!Conclude, Once!Move
<1> QED
  BY <1>11 DEF Once!Next

LEMMA CopiesRefines ==
  ASSUME Inv, ResultInv, StatusIs, StatusIs', NEW p \in Procs, Copies(p),
         \A q \in Procs \ {p} : proc'[q] = proc[q]
  PROVE  Once!Next
<1>1. PICK k \in Keys, r \in Runs, outcome \in Outcomes, from \in Weeks :
        /\ k = KeyOf(proc[p]) /\ cache[k] # None /\ outcome = cache[k].outcome
        /\ weekResult[r] = None /\ weekResult'[r] # None
        /\ weekResult'[r] = [independent |-> FALSE, outcome |-> outcome,
                             key |-> k, from |-> from]
        /\ \A s \in Runs \ {r} : weekResult'[s] = weekResult[s]
  <2>1. ~Saves(p)
    BY DEF Saves, Copies
  <2>2. PICK independent \in BOOLEAN, outcome \in Outcomes, from \in Weeks :
           LET r == proc[p].run IN
           /\ r \in Runs /\ KeyOf(proc[p]) \in Keys
           /\ weekResult[r] = None /\ weekResult'[r] # None
           /\ weekResult'[r] = [independent |-> independent, outcome |-> outcome,
                                key |-> KeyOf(proc[p]), from |-> from]
           /\ \A s \in Runs \ {r} : weekResult'[s] = weekResult[s]
           /\ ~independent
           /\ cache[KeyOf(proc[p])] # None
           /\ outcome = cache[KeyOf(proc[p])].outcome
    BY <2>1, StoresEffect DEF ResultInv, Records, ResultsAreTraceable
  <2>3. independent = FALSE
    BY <2>2
  <2> QED
    BY <2>2, <2>3
<1>2. AnswersKey(cache[k].run, k) /\ cache[k].run \in Runs
      /\ weekResult[cache[k].run].outcome = outcome
  <2>1. cache[k].run \in Runs
    BY <1>1, InvImpliesTypeOK DEF TypeOK, CacheRecords
  <2> QED
    BY <1>1, <2>1
       DEF ResultInv, Records, ResultsAreTraceable, CacheAgreesWithOrigin, AnswersKey
<1>3. statusOf[k] = outcome
  BY <1>2 DEF StatusIs
<1>4. ASSUME NEW j \in Keys PROVE Untouched(j)
  <2>1. \A s \in Runs : AnswersKey(s, j)' <=> AnswersKey(s, j)
    BY <1>1 DEF AnswersKey
  <2>2. \A s \in Runs : AnswersKey(s, j) => weekResult'[s] = weekResult[s]
    BY <1>1 DEF AnswersKey
  <2>3. proc[p].at \notin Holding /\ proc'[p].at \notin Holding
    BY DEF Copies, Stores, Holding, Reserving, Asking
  <2>4. Holders(j, Reserving)' = Holders(j, Reserving)
    BY <2>3, OtherHolders DEF Holding
  <2>5. Holders(j, Asking)' = Holders(j, Asking)
    BY <2>3, OtherHolders DEF Holding
  <2> QED
    BY <2>1, <2>2, <2>4, <2>5 DEF Untouched, Copies, Stores
<1>5. statusOf' = statusOf
  BY <1>4, AllStay
<1>6. verdictOf[r] = None /\ verdictOf' = [verdictOf EXCEPT ![r] = outcome]
  BY <1>1, VerdictMoves
<1>7. Once!Share(k, r)
  BY <1>3, <1>5, <1>6 DEF Once!Share
<1> QED
  BY <1>7 DEF Once!Next

LEMMA RefinementStep ==
  ASSUME Inv, ResultInv, ResultInv', [Next]_vars
  PROVE  [Once!Next]_<<statusOf, verdictOf>>
<1>1. StatusIs /\ StatusIs'
  BY StatusFacts, StatusFactsNext
<1>2. ASSUME NEW p \in Procs, Command(p)
      PROVE  Once!Next \/ UNCHANGED <<statusOf, verdictOf>>
  <2>1. \A q \in Procs \ {p} : proc'[q] = proc[q]
    BY <1>2, InvImpliesTypeOK, OthersUnchanged DEF Command
  <2> QED
    BY <1>1, <1>2, <2>1, Kinds, QuietRefines, HoldsRefines, MarksRefines,
       SavesRefines, CopiesRefines
<1>3. CASE UNCHANGED <<files, proc>>
  <2>1. \A k \in Keys : Untouched(k)
    BY <1>3 DEF files, Untouched, AnswersKey, Holders, KeyOf
  <2>2. verdictOf' = verdictOf
    BY <1>3 DEF files, verdictOf
  <2> QED
    BY <1>1, <2>1, <2>2, AllStay
<1>4. CASE RemoveLock \/ DeployPrompt \/ UNCHANGED vars
  BY <1>3, <1>4 DEF RemoveLock, DeployPrompt, vars
<1> QED
  BY <1>2, <1>4 DEF Next, Command

(* The lock, markers, caches and recovery together implement "ask each question
   once and report its one answer" (runSingleCase). *)
THEOREM ImplementsAuditOnce == Spec => AsksOnce
<1>1. Init => Once!Init
  <2> SUFFICES ASSUME Init PROVE Once!Init
    OBVIOUS
  <2>1. \A k \in Keys : \A r \in Runs : ~AnswersKey(r, k)
    BY DEF Init, AnswersKey
  <2>2. StatusIs
    BY ResultInit, StatusFacts
  <2>3. \A k \in Keys : statusOf[k] = "open"
    BY <2>1, <2>2 DEF StatusIs, Init
  <2>4. statusOf = [k \in Keys |-> "open"]
    BY <2>2, <2>3 DEF StatusIs
  <2>5. verdictOf = [r \in Runs |-> None]
    BY DEF Init, verdictOf
  <2> QED
    BY <2>4, <2>5 DEF Once!Init
<1>2. (Inv /\ ResultInv) /\ (Inv /\ ResultInv)' /\ [Next]_vars
      => [Once!Next]_<<statusOf, verdictOf>>
  BY RefinementStep
<1> QED
  BY <1>1, <1>2, SpecImpliesResultInv, PTL DEF Spec, AsksOnce, Once!Spec

-----------------------------------------------------------------------------
(* The report.                                                             *)

(* What is shown of a case rests on three records, and none of them changes. *)
LEMMA ShownStays ==
  ASSUME ResultInv, Immutable, NEW w \in Weeks, NEW r \in CasesOf(w),
         w \in Weeks, r \in Runs, weekResult[r] # None
  PROVE  /\ r \in CasesOf(w)'
         /\ weekResult'[r] = weekResult[r]
         /\ StoredState(r)' = StoredState(r)
<1>1. plan[w] # None /\ plan'[w] = plan[w]
  BY DEF CasesOf, Immutable
<1>2. weekResult'[r] = weekResult[r] /\ approval'[r] = approval[r]
  BY DEF ResultInv, Records, StoredResultsAreValid, Immutable
<1>3. ApprovedKey(r)' = ApprovedKey(r)
  BY <1>2 DEF ApprovedKey
<1> QED
  BY <1>1, <1>2, <1>3 DEF CasesOf, StoredState, State

LEMMA ReportGrows ==
  ASSUME TypeOK, ResultInv, Immutable
  PROVE  ReportsGrow
<1> SUFFICES ASSUME NEW w \in Weeks
             PROVE  /\ Fresh(w) \subseteq Fresh(w)'
                    /\ CacheHits(w) \subseteq CacheHits(w)'
  BY DEF ReportsGrow
<1>1. CasesOf(w) \subseteq Runs
  BY DEF CasesOf, TypeOK, Plans
<1>2. ASSUME NEW r \in Shown(w) PROVE r \in Shown(w)'
                                      /\ weekResult'[r] = weekResult[r]
                                      /\ StoredState(r)' = StoredState(r)
  <2>1. r \in CasesOf(w) /\ r \in Runs /\ weekResult[r] # None
    BY <1>1, <1>2 DEF Shown
  <2>2. /\ r \in CasesOf(w)' /\ weekResult'[r] = weekResult[r]
        /\ StoredState(r)' = StoredState(r)
    BY <2>1, ShownStays
  <2>3. StoredState(r).reason \in {"none", "failure"}
    BY <1>2 DEF Shown
  <2> QED
    BY <2>1, <2>2, <2>3 DEF Shown
<1> QED
  BY <1>2 DEF Fresh, CacheHits

(* A report of whatever age contradicts neither the files nor a later report
   (writeReportAtomically, buildReport). *)
THEOREM OldReportsStand == Spec => ReportsStand
<1>1. (Inv /\ ResultInv) /\ [Next]_vars
      => [files' # files => Immutable /\ ReportsGrow]_vars
  BY InvImpliesTypeOK, StepIsImmutable, ReportGrows
<1> QED
  BY <1>1, SpecImpliesResultInv, PTL DEF Spec, ReportsStand

(* Who has asked a question paid for it alone, and keeps the only call. *)
PaidOK ==
  /\ \A p \in Procs : proc[p].at \in Asking => sent[KeyOf(proc[p])] = <<proc[p].run>>
  /\ \A r \in Runs : weekResult[r] # None /\ weekResult[r].independent =>
       sent[weekResult[r].key] = <<r>>

LEMMA AskingComes ==
  ASSUME Inv, NEW p \in Procs, Command(p), proc'[p].at \in Asking
  PROVE  \/ CallModel(p)
         \/ /\ proc[p].at \in Asking /\ sent' = sent
            /\ proc'[p].run = proc[p].run /\ KeyOf(proc'[p]) = KeyOf(proc[p])
<1>0. /\ TypeOK /\ proc[p] \in Process /\ proc \in [Procs -> Process]
  BY InvImpliesTypeOK DEF TypeOK
<1>1. proc[p].at \in Holding /\ KeyOf(proc'[p]) = KeyOf(proc[p])
  BY Kinds DEF Quiet, Holds, Marks, Saves, Copies, Stores, Holding, Asking
<1>2. CASE Start(p) \/ Crash(p) \/ LockFault(p) \/ Fault(p)
  <2>1. CASE Start(p)
    BY <1>1, <2>1 DEF Start, At, Holding, Reserving, Asking
  <2>2. CASE LockFault(p)
    BY <1>1, <2>2 DEF LockFault, At, Holding, Reserving, Asking
  <2>3. CASE Crash(p)
    BY <1>0, <2>3 DEF Crash, Become, NoProcess, Asking
  <2>4. CASE Fault(p)
    <3>1. Throw(p)
      BY <1>1, <2>4 DEF Fault, At, Holding, Reserving, Asking
    <3>2. proc'[p].at \in {"next", "release", "idle"}
      BY <1>0, <3>1, ThrowLeaves, LeavesQuiet
    <3> QED
      BY <3>2 DEF Asking
  <2> QED
    BY <1>2, <2>1, <2>2, <2>3, <2>4
<1>3. CASE \/ Acquire(p) \/ ReadPlan(p) \/ WritePlan(p) \/ ResolveAuditor(p)
           \/ TakeCase(p) \/ FinishRun(p) \/ Release(p) \/ EnsureApproval(p)
           \/ CheckApproval(p) \/ SaveApproval(p) \/ ReadApproval(p) \/ ReadResult(p)
  BY <1>1, <1>3 DEF Acquire, ReadPlan, WritePlan, ResolveAuditor, TakeCase, FinishRun,
     Release, EnsureApproval, CheckApproval, SaveApproval, ReadApproval, ReadResult,
     At, Holding, Reserving, Asking
<1>4. CASE \/ RepairCache(p) \/ ReadMarker(p) \/ ReadCache(p) \/ SaveCached(p)
           \/ ReadAttempt(p) \/ PrepareCall(p) \/ MarkGlobal(p) \/ SaveCache(p)
  BY <1>1, <1>4 DEF RepairCache, ReadMarker, ReadCache, SaveCached, ReadAttempt,
     PrepareCall, MarkGlobal, SaveCache, At, Holding, Reserving, Asking
<1>5. CASE MarkWeek(p) \/ SaveResult(p)
  BY <1>0, <1>5 DEF MarkWeek, SaveResult, Goto, NextCase, Become, Process, Asking
<1>6. CASE Answer(p)
  BY <1>0, <1>1, <1>6 DEF Answer, At, Become, Process, Asking
<1>7. CASE CallModel(p)
  BY <1>7
<1> QED
  BY <1>2, <1>3, <1>4, <1>5, <1>6, <1>7 DEF Command, Step

LEMMA SentStays ==
  ASSUME NEW p \in Procs, Command(p), ~CallModel(p)
  PROVE  sent' = sent
<1>1. CASE Start(p) \/ Crash(p) \/ LockFault(p) \/ Fault(p)
  BY <1>1 DEF Start, Crash, LockFault, Fault
<1>2. CASE \/ Acquire(p) \/ ReadPlan(p) \/ WritePlan(p) \/ ResolveAuditor(p)
           \/ TakeCase(p) \/ FinishRun(p) \/ Release(p) \/ EnsureApproval(p)
           \/ CheckApproval(p) \/ SaveApproval(p) \/ ReadApproval(p) \/ ReadResult(p)
  BY <1>2 DEF Acquire, ReadPlan, WritePlan, ResolveAuditor, TakeCase, FinishRun,
     Release, EnsureApproval, CheckApproval, SaveApproval, ReadApproval, ReadResult
<1>3. CASE \/ RepairCache(p) \/ ReadMarker(p) \/ ReadCache(p) \/ SaveCached(p)
           \/ ReadAttempt(p) \/ PrepareCall(p) \/ MarkGlobal(p) \/ SaveCache(p)
           \/ MarkWeek(p) \/ SaveResult(p) \/ Answer(p)
  BY <1>3 DEF RepairCache, ReadMarker, ReadCache, SaveCached, ReadAttempt,
     PrepareCall, MarkGlobal, SaveCache, MarkWeek, SaveResult, Answer
<1> QED
  BY <1>1, <1>2, <1>3 DEF Command, Step

LEMMA CallEffect ==
  ASSUME Inv, NEW p \in Procs, CallModel(p)
  PROVE  LET k == KeyOf(proc[p]) IN
         /\ k \in Keys /\ proc[p].run \in Runs /\ sent[k] = <<>>
         /\ sent' = [sent EXCEPT ![k] = <<proc[p].run>>]
         /\ proc'[p].run = proc[p].run /\ KeyOf(proc'[p]) = k
         /\ UNCHANGED weekResult
<1>0. /\ TypeOK /\ proc[p] \in Process /\ LocalOK(proc[p]) /\ proc[p].at = "call"
      /\ DiskOK(proc[p], approval, cache, weekAttempt, globalAttempt, sent)
  BY InvImpliesTypeOK, ProcFacts DEF CallModel, At
<1>1. KeyOf(proc[p]) \in Keys /\ proc[p].run \in Runs /\ KeyOf(proc[p]) = Key(p)
  BY <1>0, KeyType DEF LocalOK, CaseLabels, ModelLabels, KeyOf, Key
<1>2. sent[KeyOf(proc[p])] = <<>>
  BY <1>0 DEF DiskOK, OwnerLabels
<1>3. Append(<<>>, proc[p].run) = <<proc[p].run>>
  BY <1>1
<1>4. proc'[p].run = proc[p].run /\ KeyOf(proc'[p]) = KeyOf(proc[p])
  BY <1>0, GotoEffect DEF CallModel
<1> QED
  BY <1>0, <1>1, <1>2, <1>3, <1>4 DEF CallModel, files, TypeOK

LEMMA PaidNext ==
  ASSUME Inv, ResultInv, PaidOK, NEW p \in Procs, Command(p)
  PROVE  PaidOK'
<1>0. /\ TypeOK
      /\ \A q \in Procs \ {p} : proc'[q] = proc[q]
      /\ \A q \in Procs : KeyOf(proc[q])' = KeyOf(proc'[q])
  BY InvImpliesTypeOK, OthersUnchanged DEF Command, KeyOf
<1>1. CASE CallModel(p)
  <2> DEFINE k == KeyOf(proc[p])
  <2>1. /\ k \in Keys /\ proc[p].run \in Runs /\ sent[k] = <<>>
        /\ sent' = [sent EXCEPT ![k] = <<proc[p].run>>]
        /\ proc'[p].run = proc[p].run /\ KeyOf(proc'[p]) = k
        /\ UNCHANGED weekResult
    BY <1>1, CallEffect
  <2> HIDE DEF k
  <2>2. /\ sent'[k] = <<proc[p].run>>
        /\ \A x : x # k => sent'[x] = sent[x]
    BY <1>0, <2>1 DEF TypeOK
  <2>3. ASSUME NEW r PROVE <<r>> # <<>>
    OBVIOUS
  <2>4. ASSUME NEW q \in Procs, proc'[q].at \in Asking
        PROVE  sent'[KeyOf(proc'[q])] = <<proc'[q].run>>
    <3>1. CASE q = p
      BY <2>1, <2>2, <3>1
    <3>2. CASE q # p
      <4>1. proc'[q] = proc[q] /\ sent[KeyOf(proc[q])] = <<proc[q].run>>
        BY <1>0, <2>4, <3>2 DEF PaidOK
      <4>2. KeyOf(proc[q]) # k
        BY <2>1, <2>3, <4>1
      <4> QED
        BY <2>2, <4>1, <4>2
    <3> QED
      BY <3>1, <3>2
  <2>5. ASSUME NEW r \in Runs, weekResult[r] # None, weekResult[r].independent
        PROVE  sent'[weekResult[r].key] = <<r>>
    <3>1. sent[weekResult[r].key] = <<r>>
      BY <2>5 DEF PaidOK
    <3>2. weekResult[r].key # k
      BY <2>1, <2>3, <3>1
    <3> QED
      BY <2>2, <3>1, <3>2
  <2> QED
    BY <1>0, <2>1, <2>4, <2>5 DEF PaidOK
<1>2. CASE ~CallModel(p)
  <2>1. sent' = sent
    BY <1>2, SentStays
  <2>2. ASSUME NEW q \in Procs, proc'[q].at \in Asking
        PROVE  sent[KeyOf(proc'[q])] = <<proc'[q].run>>
    <3>1. CASE q = p
      <4>1. /\ proc[p].at \in Asking
            /\ proc'[p].run = proc[p].run /\ KeyOf(proc'[p]) = KeyOf(proc[p])
        BY <1>2, <2>2, <3>1, AskingComes
      <4> QED
        BY <3>1, <4>1 DEF PaidOK
    <3>2. CASE q # p
      BY <1>0, <2>2, <3>2 DEF PaidOK
    <3> QED
      BY <3>1, <3>2
  <2>3. ASSUME NEW r \in Runs, weekResult'[r] # None, weekResult'[r].independent
        PROVE  sent[weekResult'[r].key] = <<r>>
    <3>1. CASE weekResult'[r] = weekResult[r]
      BY <2>3, <3>1 DEF PaidOK
    <3>2. CASE weekResult'[r] # weekResult[r]
      <4>1. Saves(p) \/ Copies(p)
        BY <3>2, Kinds DEF Quiet, Holds, Marks
      <4>2. CacheAgreesWithOrigin
        BY DEF ResultInv, Records, ResultsAreTraceable
      <4>3. PICK independent \in BOOLEAN, outcome \in Outcomes, from \in Weeks :
              /\ weekResult'[proc[p].run] =
                   [independent |-> independent, outcome |-> outcome,
                    key |-> KeyOf(proc[p]), from |-> from]
              /\ \A s \in Runs \ {proc[p].run} : weekResult'[s] = weekResult[s]
              /\ independent <=> Saves(p)
        BY <4>1, <4>2, StoresEffect
      <4>4. r = proc[p].run
        BY <3>2, <4>3
      <4>5. Saves(p) /\ weekResult'[r].key = KeyOf(proc[p])
        BY <2>3, <4>3, <4>4
      <4>6. proc[p].at \in Asking
        BY <4>5 DEF Saves, Asking
      <4> QED
        BY <4>4, <4>5, <4>6 DEF PaidOK
    <3> QED
      BY <3>1, <3>2
  <2> QED
    BY <1>0, <2>1, <2>2, <2>3 DEF PaidOK
<1> QED
  BY <1>1, <1>2

LEMMA SpecImpliesPaid == Spec => [](Inv /\ ResultInv /\ PaidOK)
<1>1. Init => PaidOK
  BY DEF Init, PaidOK, NoProcess, Asking
<1>2. Inv /\ ResultInv /\ PaidOK /\ [Next]_vars => PaidOK'
  <2> SUFFICES ASSUME Inv, ResultInv, PaidOK, [Next]_vars PROVE PaidOK'
    OBVIOUS
  <2>1. ASSUME NEW p \in Procs, Command(p) PROVE PaidOK'
    BY <2>1, PaidNext
  <2>2. CASE RemoveLock \/ DeployPrompt \/ UNCHANGED vars
    BY <2>2 DEF RemoveLock, DeployPrompt, vars, files, PaidOK, KeyOf
  <2> QED
    BY <2>1, <2>2 DEF Next, Command
<1> QED
  BY <1>1, <1>2, SpecImpliesResultInv, PTL DEF Spec

(* A call belongs to one run, whose marker counts it. *)
LEMMA CallsAreMarked ==
  ASSUME Inv, NEW w \in Weeks
  PROVE  AttemptedCalls(w) >= Cardinality(CallsOf(w))
<1> DEFINE calls == CallsOf(w)
           marked == {r \in weekAttempt : RunWeek[r] = w}
           answered == {r \in Shown(w) : weekResult[r].independent}
           runOf == [c \in calls |-> sent[c[1]][c[2]]]
<1>0. TypeOK
  BY InvImpliesTypeOK
<1>1. /\ IsFiniteSet(marked) /\ Cardinality(marked) \in Nat
  <2>1. marked \in SUBSET Runs
    BY <1>0 DEF TypeOK
  <2> QED
    BY <2>1, FiniteAssumption, FS_Subset, FS_CardinalityType
<1>2. Cardinality(answered) \in Nat
  <2>1. answered \in SUBSET Runs
    BY <1>0 DEF TypeOK, Shown, CasesOf, Plans
  <2> QED
    BY <2>1, FiniteAssumption, FS_Subset, FS_CardinalityType
<1>3. ASSUME NEW c \in calls
      PROVE  /\ c = <<c[1], 1>> /\ c[1] \in Keys
             /\ runOf[c] \in marked /\ c[1] = ApprovedKey(runOf[c])
  <2>1. PICK k \in Keys : \E i \in 1 .. Len(sent[k]) :
               c = <<k, i>> /\ RunWeek[sent[k][i]] = w
    BY DEF CallsOf
  <2>2. PICK i \in 1 .. Len(sent[k]) : c = <<k, i>> /\ RunWeek[sent[k][i]] = w
    BY <2>1
  <2>3. /\ Len(sent[k]) <= 1 /\ sent[k][i] \in weekAttempt
        /\ k = ApprovedKey(sent[k][i])
    BY <2>2, InvImpliesCalls
  <2>4. sent[k] \in Seq(Runs)
    BY <1>0 DEF TypeOK
  <2>5. i = 1
    BY <2>2, <2>3, <2>4
  <2>6. c[1] = k /\ c[2] = i
    BY <2>2
  <2> QED
    BY <2>2, <2>3, <2>5, <2>6
<1>4. runOf \in Injection(calls, marked)
  <2>1. runOf \in [calls -> marked]
    BY <1>3
  <2>2. ASSUME NEW c \in calls, NEW d \in calls, runOf[c] = runOf[d] PROVE c = d
    BY <1>3, <2>2
  <2> QED
    BY <2>1, <2>2 DEF Injection, IsInjective
<1>5. Cardinality(calls) <= Cardinality(marked) /\ IsFiniteSet(calls)
  BY <1>1, <1>4, FS_Injection
<1>6. Cardinality(calls) \in Nat
  BY <1>5, FS_CardinalityType
<1> HIDE DEF calls, marked, answered, runOf
<1>7. AttemptedCalls(w) = IF Cardinality(marked) > Cardinality(answered)
                          THEN Cardinality(marked) ELSE Cardinality(answered)
  BY DEF AttemptedCalls, marked, answered
<1>8. AttemptedCalls(w) >= Cardinality(calls)
  BY <1>1, <1>2, <1>5, <1>6, <1>7
<1> QED
  BY <1>8 DEF calls

(* No call is hidden from a report, and the rates count answers that their own
   case paid for (deriveCaseState, buildReport). *)
THEOREM CallsAreReported == Spec => []EveryCallIsReported
<1>1. ASSUME Inv PROVE SentIsRecorded
  BY <1>1, InvImpliesCalls DEF SentIsRecorded
<1>2. ASSUME Inv, NEW k \in Keys, NEW i \in 1 .. Len(sent[k]), NEW text \in Texts
      PROVE  CaseState(sent[k][i], text).status \in {"audited", "unavailable"}
  <2> DEFINE r == sent[k][i]
  <2>1. r \in weekAttempt
    BY <1>2, InvImpliesCalls
  <2> HIDE DEF r
  <2>2. StoredState(r).status \in {"audited", "unavailable"}
    <3>1. CASE approval[r] = None
      BY <3>1 DEF StoredState, State
    <3>2. CASE approval[r] # None /\ weekResult[r].key # ApprovedKey(r)
      BY <3>2 DEF StoredState, State
    <3>3. CASE approval[r] # None /\ weekResult[r].key = ApprovedKey(r)
      BY <3>3 DEF StoredState, State
    <3> QED
      BY <3>1, <3>2, <3>3
  <2>3. CaseState(r, text).status \in {"audited", "unavailable"}
    BY <2>1, <2>2 DEF CaseState, State
  <2> QED
    BY <2>3 DEF r
<1>3. ASSUME Inv, PaidOK, NEW w \in Weeks, NEW r \in Fresh(w)
      PROVE  sent[weekResult[r].key] = <<r>>
  <2>1. r \in Runs
    BY <1>3, InvImpliesTypeOK DEF TypeOK, Fresh, Shown, CasesOf, Plans
  <2> QED
    BY <1>3, <2>1 DEF PaidOK, Fresh, Shown
<1>4. Inv /\ PaidOK => EveryCallIsReported
  BY <1>1, <1>2, <1>3, CallsAreMarked DEF EveryCallIsReported
<1> QED
  BY <1>4, SpecImpliesPaid, PTL

-----------------------------------------------------------------------------
(* Entries that can be told apart and ordered, as HistoriesAssumption says. *)
Entries(E) ==
  /\ \A e \in E : e.run \in Int /\ e.created \in Int
  /\ \A e, f \in E : e.run = f.run => e = f

(* For each patch in E its newest entry is in K, and nothing else. *)
Represents(K, E) ==
  /\ K \subseteq E
  /\ \A x, y \in K : x.patch = y.patch => x = y
  /\ \A f \in E : \E x \in K : x.patch = f.patch /\ (x = f \/ KeepExisting(x, f))

Newest(E) == {e \in E : \A f \in E : f.patch = e.patch => f = e \/ KeepExisting(e, f)}

(* KeepExisting is a strict order in which any two entries compare. *)
LEMMA KeepsOneOfTwo ==
  ASSUME NEW E, Entries(E)
  PROVE  /\ \A e, f \in E : ~(KeepExisting(e, f) /\ KeepExisting(f, e))
         /\ \A e, f \in E : e = f \/ KeepExisting(e, f) \/ KeepExisting(f, e)
         /\ \A e, f, g \in E :
              KeepExisting(e, f) /\ KeepExisting(f, g) => KeepExisting(e, g)
BY DEF Entries, KeepExisting

LEMMA RepresentsIsNewest ==
  ASSUME NEW K, NEW E, Entries(E), Represents(K, E)
  PROVE  K = Newest(E)
<1>1. ASSUME NEW e \in K PROVE e \in Newest(E)
  BY <1>1, KeepsOneOfTwo DEF Represents, Newest
<1>2. ASSUME NEW e \in Newest(E) PROVE e \in K
  <2>1. PICK x \in K : x.patch = e.patch /\ (x = e \/ KeepExisting(x, e))
    BY <1>2 DEF Represents, Newest
  <2>2. x = e \/ KeepExisting(e, x)
    BY <1>2, <2>1 DEF Represents, Newest
  <2> QED BY <1>2, <2>1, <2>2, KeepsOneOfTwo DEF Represents, Newest
<1> QED BY <1>1, <1>2

LEMMA KeepRepresents ==
  ASSUME NEW K, NEW E, NEW e, Entries(E \cup {e}), Represents(K, E)
  PROVE  Represents(Keep(K, e), E \cup {e})
<1> DEFINE F == E \cup {e}
<1>1. CASE \E old \in K : old.patch = e.patch /\ KeepExisting(old, e)
  <2>1. Keep(K, e) = K
    BY <1>1 DEF Keep
  <2> QED BY <1>1, <2>1 DEF Represents
<1>2. CASE ~\E old \in K : old.patch = e.patch /\ KeepExisting(old, e)
  <2> DEFINE L == {old \in K : old.patch # e.patch} \cup {e}
  <2>1. Keep(K, e) = L
    BY <1>2 DEF Keep
  <2>2. L \subseteq F /\ \A x, y \in L : x.patch = y.patch => x = y
    BY DEF Represents
  <2>3. ASSUME NEW f \in F
        PROVE  \E x \in L : x.patch = f.patch /\ (x = f \/ KeepExisting(x, f))
    <3>1. CASE f = e
      BY <3>1
    <3>2. CASE f # e
      <4>1. PICK x \in K : x.patch = f.patch /\ (x = f \/ KeepExisting(x, f))
        BY <3>2 DEF Represents
      <4>2. CASE x.patch # e.patch
        BY <4>1, <4>2
      <4>3. CASE x.patch = e.patch
        <5>1. x \in F /\ f \in F /\ e \in F
          BY <4>1 DEF Represents
        <5>2. e = x \/ KeepExisting(e, x)
          BY <1>2, <4>1, <4>3, <5>1, KeepsOneOfTwo
        <5>3. e = f \/ KeepExisting(e, f)
          BY <4>1, <5>1, <5>2, KeepsOneOfTwo
        <5> QED BY <4>1, <4>3, <5>3
      <4> QED BY <4>2, <4>3
    <3> QED BY <3>1, <3>2
  <2> QED BY <2>1, <2>2, <2>3 DEF Represents
<1> QED BY <1>1, <1>2

LEMMA NewestRepresents ==
  ASSUME NEW E, IsFiniteSet(E), Entries(E)
  PROVE  Represents(Newest(E), E)
<1> DEFINE P == {s \in SUBSET E : Represents(Newest(s), s)}
<1>1. {} \in P
  BY DEF Represents, Newest
<1>2. ASSUME NEW s \in SUBSET E, s # {}, \A x \in s : s \ {x} \in P
      PROVE  s \in P
  <2>1. PICK x \in s : TRUE
    BY <1>2
  <2>2. (s \ {x}) \cup {x} = s /\ Entries(s)
    BY <2>1 DEF Entries
  <2>3. Represents(Newest(s \ {x}), s \ {x})
    BY <1>2
  <2>4. Represents(Keep(Newest(s \ {x}), x), s)
    <3> HIDE DEF P
    <3>1. Represents(Keep(Newest(s \ {x}), x), (s \ {x}) \cup {x})
      BY <2>2, <2>3, KeepRepresents
    <3> QED BY <2>2, <3>1
  <2> QED BY <2>2, <2>4, RepresentsIsNewest
<1>3. E \in P
  <2> HIDE DEF P
  <2>1. P \in SUBSET SUBSET E
    BY DEF P
  <2>2. \A s \in SUBSET E : s # {} /\ (\A x \in s : s \ {x} \in P) => s \in P
    BY <1>2
  <2>3. P = SUBSET E
    BY <1>1, <2>1, <2>2, SubsetInduction
  <2> QED BY <2>3
<1> QED BY <1>3

LEMMA KeepsNewest ==
  ASSUME NEW E, NEW e, IsFiniteSet(E), Entries(E \cup {e})
  PROVE  Keep(Newest(E), e) = Newest(E \cup {e})
<1>1. Entries(E)
  BY DEF Entries
<1> QED BY <1>1, NewestRepresents, KeepRepresents, RepresentsIsNewest

LEMMA MaxIsIn ==
  ASSUME NEW n \in Nat, NEW s \in SUBSET (1..n), s # {}
  PROVE  Max(s) \in s
<1> DEFINE T == {m \in Nat : \E x \in s : m = n - x}
<1>1. T \in SUBSET Nat /\ T # {}
  <2>1. PICK x \in s : TRUE
    OBVIOUS
  <2>2. n - x \in T
    BY <2>1
  <2> QED BY <2>2
<1>2. PICK m \in T : \A k \in T : m <= k
  BY <1>1, Smallest
<1>3. PICK x \in s : m = n - x
  BY <1>2
<1>4. \A y \in s : x >= y
  <2> SUFFICES ASSUME NEW y \in s PROVE x >= y
    OBVIOUS
  <2>1. n - y \in T
    OBVIOUS
  <2> QED BY <1>2, <1>3, <2>1
<1> QED BY <1>3, <1>4 DEF Max

Read(h, T) == {h[i] : i \in T}

(* What the loop of dedupeByPatch keeps is the newest entry of each patch. *)
LEMMA DedupeKeepsNewest ==
  ASSUME NEW n \in Nat, NEW h, NEW T \in SUBSET (1..n), Entries(Read(h, T))
  PROVE  DedupeByPatch(h, T) = Newest(Read(h, T))
<1> DEFINE Folds(g) == g = [s \in SUBSET T |->
                              IF s = {} THEN {} ELSE Keep(g[s \ {Max(s)}], h[Max(s)])]
           closed == [s \in SUBSET T |-> Newest(Read(h, s))]
           iter == CHOOSE g : Folds(g)
<1>1. IsFiniteSet(T)
  <2>1. IsFiniteSet(1 .. n)
    BY FS_Interval
  <2> QED BY <2>1, FS_Subset
<1>2. ASSUME NEW s \in SUBSET T, s # {}
      PROVE  /\ Max(s) \in s
             /\ Keep(Newest(Read(h, s \ {Max(s)})), h[Max(s)]) = Newest(Read(h, s))
  <2>1. Max(s) \in s
    BY <1>2, MaxIsIn
  <2> DEFINE x == Max(s)
             E == Read(h, s \ {x})
  <2>2. IsFiniteSet(s \ {x})
    BY <1>1, FS_Subset
  <2>3. IsFiniteSet(E)
    BY <2>2, ValuesFinite DEF Read
  <2>4. E \cup {h[x]} = Read(h, s)
    BY <2>1 DEF Read
  <2>5. Entries(Read(h, s))
    BY DEF Entries, Read
  <2> HIDE DEF E, x
  <2>6. Keep(Newest(E), h[x]) = Newest(Read(h, s))
    BY <2>3, <2>4, <2>5, KeepsNewest
  <2> QED BY <2>1, <2>6 DEF E, x
<1>3. Newest(Read(h, {})) = {}
  BY DEF Newest, Read
<1>4. Folds(closed)
  BY <1>2, <1>3
<1>5. Folds(iter)
  <2> HIDE DEF Folds, closed
  <2> QED BY <1>4
<1>6. DedupeByPatch(h, T) = iter[T]
  BY DEF DedupeByPatch, MapThenFoldSet
<1> HIDE DEF iter
<1>7. iter[T] = Newest(Read(h, T))
  <2> DEFINE P == {s \in SUBSET T : iter[s] = Newest(Read(h, s))}
  <2>1. {} \in P
    BY <1>3, <1>5
  <2>2. ASSUME NEW s \in SUBSET T, s # {}, \A x \in s : s \ {x} \in P
        PROVE  s \in P
    <3>1. iter[s] = Keep(iter[s \ {Max(s)}], h[Max(s)])
      BY <1>5, <2>2
    <3>2. iter[s \ {Max(s)}] = Newest(Read(h, s \ {Max(s)}))
      BY <1>2, <2>2
    <3> QED BY <1>2, <2>2, <3>1, <3>2
  <2>3. T \in P
    <3>1. P \in SUBSET SUBSET T
      OBVIOUS
    <3>2. \A s \in SUBSET T : s # {} /\ (\A x \in s : s \ {x} \in P) => s \in P
      BY <2>2
    <3> HIDE DEF P
    <3>3. P = SUBSET T
      BY <1>1, <2>1, <3>1, <3>2, SubsetInduction
    <3> QED BY <3>3
  <2> QED BY <2>3
<1> QED BY <1>6, <1>7
-----------------------------------------------------------------------------
(* The first entries of an order. *)

StrictOrder(R, S) ==
  /\ \A c \in S : <<c, c>> \notin R
  /\ \A c, d \in S : c = d \/ <<c, d>> \in R \/ <<d, c>> \in R
  /\ \A c, d, e \in S : <<c, d>> \in R /\ <<d, e>> \in R => <<c, e>> \in R

Below(R, S, c) == {d \in S : <<d, c>> \in R}

(* Sorting S by R and taking the first LIMIT. *)
AreFirst(F, R, S, limit) ==
  /\ F \subseteq S
  /\ Cardinality(F) = IF Cardinality(S) < limit THEN Cardinality(S) ELSE limit
  /\ \A c \in F, d \in S \ F : <<c, d>> \in R

LEMMA FirstByCount ==
  ASSUME NEW S, IsFiniteSet(S), NEW R, StrictOrder(R, S), NEW limit \in Nat
  PROVE  AreFirst({c \in S : Cardinality(Below(R, S, c)) < limit}, R, S, limit)
<1> DEFINE rank == [c \in S |-> Cardinality(Below(R, S, c))]
           n == Cardinality(S)
           F == {c \in S : rank[c] < limit}
           Places == 0 .. (n - 1)
<1>1. n \in Nat
  BY FS_CardinalityType
<1>2. ASSUME NEW c \in S
      PROVE  /\ IsFiniteSet(Below(R, S, c)) /\ rank[c] \in Nat /\ rank[c] < n
  <2>1. Below(R, S, c) \in SUBSET S /\ c \notin Below(R, S, c)
    BY DEF Below, StrictOrder
  <2>2. IsFiniteSet(Below(R, S, c)) /\ rank[c] \in Nat /\ rank[c] <= n /\ rank[c] # n
    BY <2>1, FS_Subset, FS_CardinalityType
  <2> QED BY <1>1, <2>2
<1>3. ASSUME NEW c \in S, NEW d \in S, <<c, d>> \in R PROVE rank[c] < rank[d]
  <2>1. Below(R, S, c) \in SUBSET Below(R, S, d) /\ c \in Below(R, S, d)
        /\ c \notin Below(R, S, c)
    BY <1>3 DEF Below, StrictOrder
  <2>2. rank[c] <= rank[d] /\ rank[c] # rank[d]
    BY <1>2, <2>1, FS_Subset
  <2> QED BY <1>2, <2>2
<1> HIDE DEF rank
<1>4. ASSUME NEW c \in S, NEW d \in S PROVE rank[c] = rank[d] => c = d
  <2>1. rank[c] \in Nat /\ rank[d] \in Nat
    BY <1>2
  <2>2. c = d \/ <<c, d>> \in R \/ <<d, c>> \in R
    BY DEF StrictOrder
  <2> QED BY <1>3, <2>1, <2>2
<1>5. ASSUME NEW c \in S, NEW d \in S, rank[c] < rank[d] PROVE <<c, d>> \in R
  <2>1. rank[c] \in Nat /\ rank[d] \in Nat
    BY <1>2
  <2>2. c = d \/ <<c, d>> \in R \/ <<d, c>> \in R
    BY DEF StrictOrder
  <2>3. ~(rank[d] < rank[c]) /\ c # d
    BY <1>5, <2>1
  <2> QED BY <1>3, <2>2, <2>3
<1>6. {rank[c] : c \in S} = Places
  <2> DEFINE T == {rank[c] : c \in S}
  <2>1. T \in SUBSET Places
    BY <1>1, <1>2
  <2>2. \A z : z \in T <=> \E x \in S : z = rank[x]
    OBVIOUS
  <2> HIDE DEF T
  <2>3. Cardinality(T) = n
    BY <1>4, <2>2, SameSize
  <2>4. IsFiniteSet(Places) /\ Cardinality(Places) = n
    BY <1>1, FS_Interval
  <2>5. T = Places
    BY <2>1, <2>3, <2>4, FS_Subset
  <2> QED BY <2>5 DEF T
<1>7. Cardinality(F) = IF n < limit THEN n ELSE limit
  <2> DEFINE m == IF n < limit THEN n ELSE limit
             Q == 0 .. (m - 1)
  <2>1. m \in Nat
    BY <1>1
  <2>2. F \in SUBSET S /\ IsFiniteSet(F)
    BY FS_Subset
  <2>3. \A z : z \in Q <=> \E x \in F : z = rank[x]
    BY <1>1, <1>2, <1>6
  <2>4. \A c, d \in F : rank[c] = rank[d] => c = d
    BY <1>4
  <2>5. Cardinality(Q) = m
    <3>1. \A k \in Nat : Cardinality(0 .. (k - 1)) = k
      BY FS_Interval
    <3> HIDE DEF m
    <3> QED BY <2>1, <3>1
  <2> HIDE DEF m, Q, F
  <2>6. Cardinality(Q) = Cardinality(F)
    BY <2>2, <2>3, <2>4, SameSize
  <2> QED BY <2>5, <2>6 DEF m
<1>8. ASSUME NEW c \in F, NEW d \in S \ F PROVE <<c, d>> \in R
  <2>1. rank[c] \in Nat /\ rank[d] \in Nat
    BY <1>2
  <2>2. rank[c] < rank[d]
    BY <2>1
  <2> QED BY <1>5, <2>2
<1>9. F = {c \in S : Cardinality(Below(R, S, c)) < limit}
  BY DEF rank
<1> HIDE DEF n, F
<1> QED BY <1>7, <1>8, <1>9 DEF AreFirst, n, F

(* OldestFirst, and the order that a seed gives to patches. *)
Older(S) == {x \in S \X S : OldestFirst(x[1], x[2])}
ByRank(S, rank) == {x \in S \X S : rank[x[1].patch] < rank[x[2].patch]}

LEMMA OldestAreFirst ==
  ASSUME NEW S, IsFiniteSet(S), Entries(S)
  PROVE  AreFirst(FirstOf(S, OldestFirst, SampleLimit), Older(S), S, SampleLimit)
<1> DEFINE R == Older(S)
<1>1. \A c, d \in S : <<c, d>> \in R <=> OldestFirst(c, d)
  BY DEF Older
<1>2. StrictOrder(R, S)
  BY <1>1 DEF StrictOrder, Entries, OldestFirst
<1>3. \A c \in S : Below(R, S, c) = {d \in S : OldestFirst(d, c)}
  BY <1>1 DEF Below
<1> HIDE DEF R
<1>4. FirstOf(S, OldestFirst, SampleLimit)
        = {c \in S : Cardinality(Below(R, S, c)) < SampleLimit}
  BY <1>3 DEF FirstOf
<1> QED BY <1>2, <1>4, FirstByCount, SampleAssumption DEF R

LEMMA RandomAreFirst ==
  ASSUME NEW S, IsFiniteSet(S), NEW rank,
         \A c \in S : rank[c.patch] \in Int,
         \A c, d \in S : rank[c.patch] = rank[d.patch] => c = d
  PROVE  AreFirst(RandomSample(S, rank), ByRank(S, rank), S, SampleLimit)
<1> DEFINE R == ByRank(S, rank)
<1>1. \A c, d \in S : <<c, d>> \in R <=> rank[c.patch] < rank[d.patch]
  BY DEF ByRank
<1>2. StrictOrder(R, S)
  BY <1>1 DEF StrictOrder
<1>3. \A c \in S : Below(R, S, c) = {d \in S : rank[d.patch] < rank[c.patch]}
  BY <1>1 DEF Below
<1> HIDE DEF R
<1>4. RandomSample(S, rank) = {c \in S : Cardinality(Below(R, S, c)) < SampleLimit}
  BY <1>3 DEF RandomSample, FirstOf
<1> QED BY <1>2, <1>4, FirstByCount, SampleAssumption DEF R

-----------------------------------------------------------------------------
(* The plan of a history, as a function of its set of entries. *)

InWeek(H, week) == {e \in H : e.week = week}
Eligible(H, week) == {e \in H : e.week = week /\ e.auto}

PlanOf(H, week, rank) ==
  LET unique == Newest(Eligible(H, week))
  IN  [selected |-> WeeklySelection(unique, rank),
       historyDecisions |-> Cardinality(H),
       eligibleUniquePatches |-> Cardinality(unique),
       duplicatePatchRuns |-> Cardinality(Eligible(H, week)) - Cardinality(unique),
       excludedNotAuto |-> Cardinality(InWeek(H, week)) - Cardinality(Eligible(H, week)),
       excludedOutOfPeriod |-> Cardinality(H) - Cardinality(InWeek(H, week))]

LEMMA OrderIsRight ==
  ASSUME NEW H, IsFiniteSet(H), NEW order \in SetToSeqs(H)
  PROVE  /\ Cardinality(H) \in Nat
         /\ order \in [1 .. Cardinality(H) -> H]
         /\ \A i, j \in 1 .. Cardinality(H) : order[i] = order[j] => i = j
         /\ \A e \in H : \E i \in 1 .. Cardinality(H) : e = order[i]
<1> DEFINE n == Cardinality(H)
<1>1. /\ n \in Nat /\ order \in [1 .. n -> H]
      /\ \A i, j \in 1 .. n : order[i] = order[j] => i = j
  BY FS_CardinalityType DEF SetToSeqs
<1>2. IsFiniteSet(1 .. n) /\ Cardinality(1 .. n) = n
  BY <1>1, FS_Interval
<1> DEFINE T == {order[i] : i \in 1 .. n}
<1>3. \A z : z \in T <=> \E i \in 1 .. n : z = order[i]
  OBVIOUS
<1>4. T \in SUBSET H
  BY <1>1
<1> HIDE DEF n, T
<1>5. Cardinality(T) = n
  BY <1>1, <1>2, <1>3, SameSize
<1>6. T = H
  BY <1>4, <1>5, FS_Subset DEF n
<1> QED BY <1>1, <1>3, <1>6 DEF n

LEMMA PlanOfAnyOrder ==
  ASSUME NEW H \in Histories, NEW order \in SetToSeqs(H), NEW week, NEW rank
  PROVE  BuildPlan(order, week, rank) = PlanOf(H, week, rank)
<1> DEFINE n == Cardinality(H)
           inPeriod == {i \in DOMAIN order : order[i].week = week}
           inPeriodAuto == {i \in inPeriod : order[i].auto}
<1>1. IsFiniteSet(H) /\ Entries(H)
  BY HistoriesAssumption DEF Entries
<1>2. /\ n \in Nat /\ order \in [1 .. n -> H]
      /\ \A i, j \in 1 .. n : order[i] = order[j] => i = j
      /\ \A e \in H : \E i \in 1 .. n : e = order[i]
  BY <1>1, OrderIsRight
<1>3. DOMAIN order = 1 .. n /\ Len(order) = n
  BY <1>2
<1>4. ASSUME NEW T \in SUBSET (1 .. n), NEW E, \A z : z \in E <=> \E i \in T : z = order[i]
      PROVE  Cardinality(T) = Cardinality(E)
  <2>1. IsFiniteSet(T)
    <3>1. IsFiniteSet(1 .. n)
      BY <1>2, FS_Interval
    <3> HIDE DEF n
    <3> QED BY <3>1, FS_Subset
  <2>2. \A i, j \in T : order[i] = order[j] => i = j
    BY <1>2
  <2> QED BY <1>4, <2>1, <2>2, SameSize
<1>5. inPeriod \in SUBSET (1 .. n) /\ inPeriodAuto \in SUBSET (1 .. n)
  BY <1>3
<1>6. \A z : z \in InWeek(H, week) <=> \E i \in inPeriod : z = order[i]
  BY <1>2, <1>3 DEF InWeek
<1>7. \A z : z \in Eligible(H, week) <=> \E i \in inPeriodAuto : z = order[i]
  BY <1>2, <1>3 DEF Eligible
<1>8. BuildPlan(order, week, rank) =
        LET unique == DedupeByPatch(order, inPeriodAuto)
        IN  [selected |-> WeeklySelection(unique, rank),
             historyDecisions |-> Len(order),
             eligibleUniquePatches |-> Cardinality(unique),
             duplicatePatchRuns |-> Cardinality(inPeriodAuto) - Cardinality(unique),
             excludedNotAuto |-> Cardinality(inPeriod) - Cardinality(inPeriodAuto),
             excludedOutOfPeriod |-> Len(order) - Cardinality(inPeriod)]
  BY DEF BuildPlan
<1> HIDE DEF inPeriod, inPeriodAuto, n
<1>9. Read(order, inPeriodAuto) = Eligible(H, week)
  BY <1>7 DEF Read
<1>10. Entries(Eligible(H, week))
  BY <1>1 DEF Entries, Eligible
<1>11. DedupeByPatch(order, inPeriodAuto) = Newest(Eligible(H, week))
  <2>1. n \in Nat /\ inPeriodAuto \in SUBSET (1 .. n)
    BY <1>2, <1>5
  <2>2. Entries(Read(order, inPeriodAuto))
    BY <1>9, <1>10
  <2>3. DedupeByPatch(order, inPeriodAuto) = Newest(Read(order, inPeriodAuto))
    BY <2>1, <2>2, DedupeKeepsNewest
  <2> QED BY <1>9, <2>3
<1>12. /\ Cardinality(inPeriod) = Cardinality(InWeek(H, week))
       /\ Cardinality(inPeriodAuto) = Cardinality(Eligible(H, week))
  BY <1>4, <1>5, <1>6, <1>7
<1> QED BY <1>3, <1>8, <1>11, <1>12 DEF PlanOf, n

LEMMA PlanIsSound ==
  ASSUME NEW H \in Histories, NEW rank \in Ranks, NEW week
  PROVE  SoundPlan(PlanOf(H, week, rank), H, week)
<1> DEFINE E == Eligible(H, week)
           U == Newest(E)
           random == RandomSample(U, rank)
           risky == {c \in U \ random : c.risky}
           risk == RiskSample(U \ random)
           patches == {e.patch : e \in E}
           p == PlanOf(H, week, rank)
<1>1. IsFiniteSet(H) /\ Entries(H)
  BY HistoriesAssumption DEF Entries
<1>2. /\ IsFiniteSet(E) /\ IsFiniteSet(InWeek(H, week)) /\ E \subseteq H /\ Entries(E)
      /\ Cardinality(E) \in Nat /\ Cardinality(InWeek(H, week)) \in Nat
      /\ Cardinality(H) \in Nat
  BY <1>1, FS_Subset, FS_CardinalityType DEF Eligible, InWeek, Entries
<1>3. Represents(U, E)
  BY <1>2, NewestRepresents
<1> HIDE DEF U
<1>4. U \subseteq E /\ IsFiniteSet(U) /\ Cardinality(U) \in Nat /\ Entries(U)
  BY <1>2, <1>3, FS_Subset, FS_CardinalityType DEF Represents, Entries
<1>5. AreFirst(random, ByRank(U, rank), U, SampleLimit)
  <2>1. \A c \in U : rank[c.patch] \in Int
    BY <1>2, <1>4, HistoriesAssumption
  <2>2. \A c, d \in U : rank[c.patch] = rank[d.patch] => c = d
    BY <1>2, <1>3, <1>4, HistoriesAssumption DEF Represents
  <2> QED BY <1>4, <2>1, <2>2, RandomAreFirst
<1> HIDE DEF random
<1>6. AreFirst(risk, Older(risky), risky, SampleLimit)
  <2>1. IsFiniteSet(risky) /\ Entries(risky)
    BY <1>4, FS_Subset DEF Entries
  <2>2. risk = FirstOf(risky, OldestFirst, SampleLimit)
    BY DEF RiskSample
  <2> HIDE DEF risk, risky
  <2> QED BY <2>1, <2>2, OldestAreFirst
<1>7. /\ p.selected.random = random /\ p.selected.risk = risk
      /\ p.historyDecisions = Cardinality(H)
      /\ p.eligibleUniquePatches = Cardinality(U)
      /\ p.duplicatePatchRuns = Cardinality(E) - Cardinality(U)
      /\ p.excludedNotAuto = Cardinality(InWeek(H, week)) - Cardinality(E)
      /\ p.excludedOutOfPeriod = Cardinality(H) - Cardinality(InWeek(H, week))
  BY DEF PlanOf, WeeklySelection, U, random
<1>8. Cardinality(patches) = Cardinality(U)
  <2> DEFINE f == [c \in U |-> c.patch]
  <2>1. \A c, d \in U : f[c] = f[d] => c = d
    BY <1>3 DEF Represents
  <2>2. \A z : z \in patches <=> \E c \in U : z = f[c]
    BY <1>3 DEF Represents
  <2> HIDE DEF f, patches
  <2> QED BY <1>4, <2>1, <2>2, SameSize
<1>9. E = {e \in H : e.week = week /\ e.auto}
  BY DEF Eligible
<1> HIDE DEF p, E, patches, risk
<1> DEFINE cases == random \cup risk
<1>10. random \subseteq U /\ risk \subseteq risky /\ risky \subseteq U \ random
  BY <1>5, <1>6 DEF AreFirst
<1>11. p.historyDecisions = p.eligibleUniquePatches + p.duplicatePatchRuns
                            + p.excludedNotAuto + p.excludedOutOfPeriod
  BY <1>2, <1>4, <1>7
<1>12. cases \subseteq E /\ (\A c, d \in cases : c.patch = d.patch => c = d)
       /\ random \cap risk = {}
  BY <1>3, <1>4, <1>10 DEF Represents
<1>13. ASSUME NEW c \in cases, NEW e \in E, e.patch = c.patch PROVE e.created <= c.created
  <2>1. PICK x \in U : x.patch = e.patch /\ (x = e \/ KeepExisting(x, e))
    BY <1>3 DEF Represents
  <2>2. x = c
    BY <1>3, <1>10, <1>13, <2>1 DEF Represents
  <2> QED BY <1>2, <1>4, <2>1, <2>2 DEF KeepExisting, Entries
<1>14. Cardinality(random) =
         IF Cardinality(patches) < SampleLimit THEN Cardinality(patches) ELSE SampleLimit
  BY <1>5, <1>8 DEF AreFirst
<1>15. ASSUME NEW e \in E
       PROVE  \/ \E c \in cases : c.patch = e.patch
              \/ \E f \in E : f.patch = e.patch /\ ~KeepExisting(e, f) /\ f # e
              \/ ~e.risky
              \/ /\ Cardinality(risk) = SampleLimit
                 /\ \A c \in risk : OldestFirst(c, e)
  <2>1. CASE e \notin U
    <3>1. PICK x \in U : x.patch = e.patch /\ (x = e \/ KeepExisting(x, e))
      BY <1>3 DEF Represents
    <3>2. x \in E /\ x # e /\ KeepExisting(x, e)
      BY <1>4, <2>1, <3>1
    <3> QED BY <1>2, <3>1, <3>2, KeepsOneOfTwo
  <2>2. CASE e \in cases
    BY <2>2
  <2>3. CASE e \in U /\ e \notin cases /\ e.risky
    <3>1. e \in risky \ risk
      BY <2>3
    <3>2. \A c \in risk : OldestFirst(c, e)
      BY <1>6, <3>1 DEF AreFirst, Older
    <3>3. Cardinality(risk) = SampleLimit
      <4>1. IsFiniteSet(risky)
        BY <1>4, <1>10, FS_Subset
      <4>2. risk \in SUBSET risky /\ risk # risky
        BY <1>10, <3>1
      <4>3. Cardinality(risk) # Cardinality(risky)
        BY <4>1, <4>2, FS_Subset
      <4> QED BY <1>6, <4>3 DEF AreFirst
    <3> QED BY <3>2, <3>3
  <2> QED BY <2>1, <2>2, <2>3
<1> HIDE DEF cases
<1> QED BY <1>7, <1>9, <1>11, <1>12, <1>13, <1>14, <1>15
        DEF SoundPlan, patches, cases, p

(* For histories of any size, any times, patches and kinds of decision, and
   whatever order the seed gives to the patches, buildPlanFromHistory makes one
   plan of a week however the directories are listed, and a sound one. *)
LEMMA OnePlanForEach == OnePlanEach
<1> SUFFICES ASSUME NEW H \in Histories, NEW rank \in Ranks, NEW week
             PROVE  LET plans == {BuildPlan(order, week, rank) : order \in SetToSeqs(H)}
                    IN  /\ Cardinality(plans) = 1
                        /\ \A p \in plans : SoundPlan(p, H, week)
  BY DEF OnePlanEach
<1> DEFINE plans == {BuildPlan(order, week, rank) : order \in SetToSeqs(H)}
<1>1. SetToSeqs(H) # {}
  <2> DEFINE D == 1 .. Cardinality(H)
  <2>1. ExistsBijection(D, H)
    BY HistoriesAssumption, FS_CardinalityType
  <2>2. PICK f \in Bijection(D, H) : TRUE
    BY <2>1 DEF ExistsBijection
  <2>3. f \in [D -> H] /\ \A i, j \in D : i # j => f[i] # f[j]
    BY <2>2 DEF Bijection, Injection, IsInjective
  <2> QED BY <2>3 DEF SetToSeqs
<1>2. plans = {PlanOf(H, week, rank)}
  BY <1>1, PlanOfAnyOrder
<1> HIDE DEF plans
<1>3. Cardinality(plans) = 1
  BY <1>2, FS_Singleton
<1> QED BY <1>2, <1>3, PlanIsSound DEF plans

(* What buildPlanFromHistory selects from the decisions of the runs is one of
   the Selections among which JevAudit leaves the choice open. *)
THEOREM SampledAsPlanned ==
  ASSUME NEW H \in Histories, NEW order \in SetToSeqs(H), NEW rank \in Ranks, NEW w,
         NEW runOf \in [H -> Runs],
         \A e \in H : RunWeek[runOf[e]] = e.week /\ RunPatch[runOf[e]] = e.patch
  PROVE  LET chosen == BuildPlan(order, w, rank).selected
         IN  {runOf[c] : c \in chosen.random \cup chosen.risk} \in Selections(w)
<1> DEFINE p == BuildPlan(order, w, rank)
           cases == p.selected.random \cup p.selected.risk
<1>1. SoundPlan(p, H, w)
  BY PlanOfAnyOrder, PlanIsSound
<1> HIDE DEF p
<1>2. \A c \in cases : c \in H /\ c.week = w
  BY <1>1 DEF SoundPlan
<1>3. \A c, d \in cases : c.patch = d.patch => c = d
  BY <1>1 DEF SoundPlan
<1> HIDE DEF cases
<1> QED BY <1>2, <1>3 DEF Selections, cases, p

(* Whichever process publishes the plan of a week, in whatever order it listed
   the directories, has the plan that any other would have published. *)
THEOREM PlansReproduced == Spec => []PlansAreReproducible
<1>1. PlansAreReproducible
  BY OnePlanForEach DEF PlansAreReproducible
<1> QED BY <1>1, PTL
=============================================================================
