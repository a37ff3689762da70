--------------------------- MODULE JevAuditProofs ---------------------------
(***************************************************************************)
(* Theorems about JevAudit, for every value of its constants.              *)
(*                                                                         *)
(* The invariants about calls hold together or not at all: that a key is   *)
(* asked once rests on its owner (the process between the two markers and  *)
(* the call) being alone; that it is asked under an approval rests on what *)
(* a process has read being still on disk.  Inv below collects what has to *)
(* be carried along; StepKeepsInv shows once what an action of a process   *)
(* has to respect, and each action is then a short lemma.                  *)
(***************************************************************************)
EXTENDS JevAudit, TLAPS

(* Labels at which a process has fixed the model it would ask. *)
ModelLabels ==
  {"readResult", "repair", "readMarker", "readCache", "saveCached",
   "readAttempt", "prepare", "markGlobal", "markWeek", "call", "waiting",
   "saveResult", "saveCache"}

(* Labels at which it has a case in hand. *)
CaseLabels ==
  ModelLabels \union {"ensure", "approving", "saveApproval", "readApproval"}

(* Labels at which it has reserved a key that it has not asked yet. *)
OwnerLabels == {"markWeek", "call"}

KeyOf(P) == <<RunPatch[P.run], P.model, P.prompt>>

(* The local variables that the next steps of P use are set. *)
LocalOK(P) ==
  /\ P.at # "idle" =>
       P.cmd \in Commands /\ P.week \in Weeks /\ P.prompt \in Prompts
  /\ P.at \in {"acquire", "readPlan"} /\ P.cmd = "approve" => P.run \in Runs
  /\ P.at \in CaseLabels => P.run \in Runs
  /\ P.at \in ModelLabels \union {"saveApproval"} => P.model \in Models
  /\ P.at \in {"repair", "saveResult", "saveCache"} => P.answer \in Outcomes

(* What approveCase has checked still holds of the approval to be saved. *)
CheckedOK(P) ==
  /\ P.at = "saveApproval" => P.model # JevModel[P.run]
  /\ P.at \in {"ensure", "approving", "saveApproval"} /\ P.cmd = "autorun" =>
       RunPatch[P.run] \in CleanPatches
  /\ P.at = "saveApproval" /\ P.cmd = "autorun" => P.model \in CodexModels

(* What P has read of the approvals, caches and markers is still there, and
   nobody else asks the key it has reserved. *)
DiskOK(P, appr, cach, week, glob, asked) ==
  /\ P.at \in ModelLabels =>
       /\ appr[P.run] # None
       /\ appr[P.run].model = P.model
       /\ appr[P.run].prompt = P.prompt
  /\ P.at = "saveCached" => cach[KeyOf(P)] # None
  /\ P.at \in OwnerLabels => KeyOf(P) \in glob /\ asked[KeyOf(P)] = <<>>
  /\ P.at = "call" => P.run \in week

ProcsOK ==
  \A p \in Procs :
    /\ LocalOK(proc[p])
    /\ CheckedOK(proc[p])
    /\ DiskOK(proc[p], approval, cache, weekAttempt, globalAttempt, sent)

OwnersDistinct ==
  \A p, q \in Procs :
    /\ p # q
    /\ proc[p].at \in OwnerLabels
    /\ proc[q].at \in OwnerLabels
    => KeyOf(proc[p]) # KeyOf(proc[q])

FilesType ==
  /\ lock \in Procs \union {None}
  /\ plan \in [Weeks -> Plans \union {None}]
  /\ approval \in [Runs -> Approvals \union {None}]
  /\ weekAttempt \subseteq Runs
  /\ weekResult \in [Runs -> Results \union {None}]
  /\ globalAttempt \subseteq Keys
  /\ cache \in [Keys -> CacheRecords \union {None}]
  /\ prompt \in Prompts

ApprovalsOK ==
  \A r \in Runs : approval[r] # None =>
    /\ approval[r].model # JevModel[r]
    /\ approval[r].mode = "automatic" =>
         approval[r].model \in CodexModels /\ RunPatch[r] \in CleanPatches

(* One call at most, reserved, recorded and approved. *)
CallsOK ==
  \A k \in Keys :
    \/ sent[k] = <<>>
    \/ \E r \in Runs :
         /\ sent[k] = <<r>>
         /\ k \in globalAttempt
         /\ r \in weekAttempt
         /\ approval[r] # None
         /\ k = <<RunPatch[r], approval[r].model, approval[r].prompt>>

Inv ==
  /\ FilesType
  /\ proc \in [Procs -> Process]
  /\ sent \in [Keys -> Seq(Runs)]
  /\ ProcsOK
  /\ OwnersDistinct
  /\ ApprovalsOK
  /\ CallsOK

-----------------------------------------------------------------------------
(* What Inv gives.                                                         *)

LEMMA InvImpliesTypeOK == Inv => TypeOK
BY DEF Inv, TypeOK, FilesType

(* What each of the invariants about calls says of one call. *)
LEMMA InvImpliesCalls ==
  ASSUME Inv, NEW k \in Keys
  PROVE  /\ Len(sent[k]) <= 1
         /\ \A i \in 1 .. Len(sent[k]) :
              /\ k \in globalAttempt
              /\ sent[k][i] \in weekAttempt
              /\ approval[sent[k][i]] # None
              /\ k = ApprovedKey(sent[k][i])
              /\ k[2] # JevModel[sent[k][i]]
<1>1. CASE sent[k] = <<>>
  BY <1>1
<1>2. CASE sent[k] # <<>>
  <2>1. PICK r \in Runs : /\ sent[k] = <<r>>
                          /\ k \in globalAttempt
                          /\ r \in weekAttempt
                          /\ approval[r] # None
                          /\ k = ApprovedKey(r)
    BY <1>2 DEF Inv, CallsOK, ApprovedKey
  <2>2. Len(sent[k]) = 1 /\ \A i \in 1 .. Len(sent[k]) : sent[k][i] = r
    BY <2>1
  <2>3. k[2] = approval[r].model
    BY <2>1 DEF ApprovedKey
  <2>4. k[2] # JevModel[r]
    BY <2>1, <2>3 DEF Inv, ApprovalsOK
  <2> QED
    BY <2>1, <2>2, <2>4
<1> QED
  BY <1>1, <1>2

-----------------------------------------------------------------------------
(* The step of one process.                                                *)

LEMMA NoProcessOK ==
  /\ NoProcess \in Process
  /\ NoProcess.at = "idle"
  /\ LocalOK(NoProcess)
  /\ CheckedOK(NoProcess)
BY DEF NoProcess, Process, Labels, LocalOK, CheckedOK, CaseLabels, ModelLabels

LEMMA InitInv == Init => Inv
<1> SUFFICES ASSUME Init PROVE Inv
  OBVIOUS
<1>1. FilesType /\ sent \in [Keys -> Seq(Runs)]
  BY DEF Init, FilesType
<1>2. proc \in [Procs -> Process] /\ \A p \in Procs : proc[p] = NoProcess
  BY NoProcessOK DEF Init
<1>3. ProcsOK
  BY <1>2, NoProcessOK DEF ProcsOK, DiskOK, ModelLabels, OwnerLabels
<1>4. OwnersDistinct
  BY <1>2, NoProcessOK DEF OwnersDistinct, OwnerLabels
<1>5. ApprovalsOK /\ CallsOK
  BY DEF Init, ApprovalsOK, CallsOK
<1> QED
  BY <1>1, <1>2, <1>3, <1>4, <1>5 DEF Inv

(* Become(p, P) changes the local state of p to P and of nobody else. *)
LEMMA BecomeEffect ==
  ASSUME proc \in [Procs -> Process], NEW p \in Procs, NEW P \in Process,
         Become(p, P)
  PROVE  /\ proc' \in [Procs -> Process]
         /\ proc'[p] = P
         /\ \A q \in Procs \ {p} : proc'[q] = proc[q]
BY DEF Become

(* Published records are only added: what the invariant needs of it. *)
Grows ==
  /\ \A r \in Runs : approval[r] # None => approval'[r] = approval[r]
  /\ \A k \in Keys : cache[k] # None => cache'[k] # None
  /\ weekAttempt \subseteq weekAttempt'
  /\ globalAttempt \subseteq globalAttempt'

LEMMA KeyType ==
  ASSUME NEW P \in Process, LocalOK(P), P.at \in ModelLabels
  PROVE  KeyOf(P) \in Keys
<1>1. P.run \in Runs /\ P.model \in Models /\ P.prompt \in Prompts
  BY DEF LocalOK, CaseLabels, ModelLabels
<1> QED
  BY <1>1, ConstantsAssumption DEF KeyOf, Keys

LEMMA DiskStaysOK ==
  ASSUME NEW P \in Process, LocalOK(P), Grows,
         DiskOK(P, approval, cache, weekAttempt, globalAttempt, sent),
         P.at \in OwnerLabels => sent'[KeyOf(P)] = <<>>
  PROVE  DiskOK(P, approval', cache', weekAttempt', globalAttempt', sent')
<1>1. P.at \in CaseLabels => P.run \in Runs
  BY DEF LocalOK
<1>2. P.at \in ModelLabels => KeyOf(P) \in Keys
  BY KeyType
<1> QED
  BY <1>1, <1>2 DEF DiskOK, Grows, ModelLabels, OwnerLabels, CaseLabels

LEMMA StepKeepsInv ==
  ASSUME Inv, NEW p \in Procs, NEW P \in Process, Become(p, P),
         FilesType', Grows, ApprovalsOK', sent' = sent,
         LocalOK(P), CheckedOK(P),
         DiskOK(P, approval', cache', weekAttempt', globalAttempt', sent'),
         P.at \in OwnerLabels =>
           \A q \in Procs \ {p} :
             proc[q].at \in OwnerLabels => KeyOf(proc[q]) # KeyOf(P)
  PROVE  Inv'
<1>1. /\ proc' \in [Procs -> Process]
      /\ proc'[p] = P
      /\ \A q \in Procs \ {p} : proc'[q] = proc[q]
  BY BecomeEffect DEF Inv
<1>2. ProcsOK'
  <2> SUFFICES ASSUME NEW q \in Procs
               PROVE  /\ LocalOK(proc'[q])
                      /\ CheckedOK(proc'[q])
                      /\ DiskOK(proc'[q], approval', cache', weekAttempt',
                                globalAttempt', sent')
    BY DEF ProcsOK, LocalOK, CheckedOK, DiskOK, KeyOf
  <2>1. CASE q = p
    BY <2>1, <1>1
  <2>2. CASE q # p
    <3>1. /\ proc[q] \in Process /\ LocalOK(proc[q]) /\ CheckedOK(proc[q])
          /\ DiskOK(proc[q], approval, cache, weekAttempt, globalAttempt, sent)
      BY DEF Inv, ProcsOK
    <3>2. proc[q].at \in OwnerLabels => sent'[KeyOf(proc[q])] = <<>>
      BY <3>1 DEF DiskOK
    <3>3. DiskOK(proc[q], approval', cache', weekAttempt', globalAttempt', sent')
      BY <3>1, <3>2, DiskStaysOK
    <3> QED
      BY <2>2, <3>1, <3>3, <1>1
  <2> QED
    BY <2>1, <2>2
<1>3. OwnersDistinct'
  <2>1. \A q \in Procs : KeyOf(proc[q])' = KeyOf(proc'[q])
    BY DEF KeyOf
  <2> QED
    BY <1>1, <2>1 DEF Inv, OwnersDistinct
<1>4. CallsOK'
  BY DEF Inv, CallsOK, Grows
<1> QED
  BY <1>1, <1>2, <1>3, <1>4 DEF Inv

LEMMA QuietFiles ==
  ASSUME Inv, UNCHANGED <<files, prompt>>, lock' \in Procs \union {None}
  PROVE  FilesType' /\ Grows /\ ApprovalsOK'
BY DEF Inv, FilesType, Grows, ApprovalsOK, files

LEMMA ProcFacts ==
  ASSUME Inv, NEW p \in Procs
  PROVE  /\ proc[p] \in Process
         /\ LocalOK(proc[p])
         /\ CheckedOK(proc[p])
         /\ DiskOK(proc[p], approval, cache, weekAttempt, globalAttempt, sent)
BY DEF Inv, ProcsOK

(* Every way out of a case or of a command. *)
Leaves(p) ==
  \/ NextCase(p)
  \/ Goto(p, "release")
  \/ Become(p, NoProcess)

LEMMA ThrowLeaves ==
  ASSUME NEW p \in Procs, Throw(p) PROVE Leaves(p)
BY DEF Throw, Leaves

LEMMA LeavingKeepsInv ==
  ASSUME Inv, NEW p \in Procs, proc[p].at # "idle", Leaves(p),
         FilesType', Grows, ApprovalsOK', sent' = sent
  PROVE  Inv'
<1>0. proc[p] \in Process /\ LocalOK(proc[p])
  BY ProcFacts
<1> DEFINE Loop == [proc[p] EXCEPT !.at = "next", !.run = None,
                                   !.model = None, !.answer = None]
           Stop == [proc[p] EXCEPT !.at = "release"]
<1>1. CASE NextCase(p)
  <2>1. /\ Loop \in Process /\ Loop.at = "next" /\ Loop.cmd = proc[p].cmd
        /\ Loop.week = proc[p].week /\ Loop.prompt = proc[p].prompt
    BY <1>0 DEF Process, Labels
  <2>2. LocalOK(Loop) /\ CheckedOK(Loop)
    BY <1>0, <2>1 DEF LocalOK, CheckedOK, CaseLabels, ModelLabels
  <2>3. DiskOK(Loop, approval', cache', weekAttempt', globalAttempt', sent')
    BY <2>1 DEF DiskOK, ModelLabels, OwnerLabels
  <2> HIDE DEF Loop
  <2> QED
    BY <1>1, <2>1, <2>2, <2>3, StepKeepsInv DEF NextCase, OwnerLabels, Loop
<1>2. CASE Goto(p, "release")
  <2>1. /\ Stop \in Process /\ Stop.at = "release" /\ Stop.cmd = proc[p].cmd
        /\ Stop.week = proc[p].week /\ Stop.prompt = proc[p].prompt
    BY <1>0 DEF Process, Labels
  <2>2. LocalOK(Stop) /\ CheckedOK(Stop)
    BY <1>0, <2>1 DEF LocalOK, CheckedOK, CaseLabels, ModelLabels
  <2>3. DiskOK(Stop, approval', cache', weekAttempt', globalAttempt', sent')
    BY <2>1 DEF DiskOK, ModelLabels, OwnerLabels
  <2> QED
    BY <1>2, <2>1, <2>2, <2>3, StepKeepsInv DEF Goto, OwnerLabels
<1>3. CASE Become(p, NoProcess)
  <2>1. DiskOK(NoProcess, approval', cache', weekAttempt', globalAttempt', sent')
    BY NoProcessOK DEF DiskOK, ModelLabels, OwnerLabels
  <2> QED
    BY <1>3, <2>1, NoProcessOK, StepKeepsInv DEF OwnerLabels
<1> QED
  BY <1>1, <1>2, <1>3 DEF Leaves

LEMMA StartStep ==
  ASSUME Inv, NEW p \in Procs, Start(p) PROVE Inv'
<1>1. PICK c \in Commands, w \in Weeks, r \in Runs :
        Become(p, [NoProcess EXCEPT !.at = "acquire", !.cmd = c, !.week = w,
                     !.prompt = prompt,
                     !.run = IF c = "approve" THEN r ELSE None])
  BY DEF Start
<1> DEFINE P == [NoProcess EXCEPT !.at = "acquire", !.cmd = c, !.week = w,
                   !.prompt = prompt,
                   !.run = IF c = "approve" THEN r ELSE None]
<1>2. prompt \in Prompts
  BY DEF Inv, FilesType
<1>3. /\ P \in Process /\ P.at = "acquire" /\ P.cmd = c /\ P.week = w
      /\ P.prompt = prompt /\ P.run = (IF c = "approve" THEN r ELSE None)
  BY <1>2, NoProcessOK DEF Process, Labels, NoProcess
<1>4. LocalOK(P) /\ CheckedOK(P)
  BY <1>2, <1>3 DEF LocalOK, CheckedOK, CaseLabels, ModelLabels
<1>5. DiskOK(P, approval', cache', weekAttempt', globalAttempt', sent')
  BY <1>3 DEF DiskOK, ModelLabels, OwnerLabels
<1>6. FilesType' /\ Grows /\ ApprovalsOK' /\ sent' = sent
  BY QuietFiles DEF Start, Inv, FilesType
<1> QED
  BY <1>1, <1>3, <1>4, <1>5, <1>6, StepKeepsInv DEF OwnerLabels

-----------------------------------------------------------------------------
(* The actions that only read the files.                                   *)

LEMMA QuietStep ==
  ASSUME Inv, NEW p \in Procs, NEW P \in Process, Become(p, P),
         UNCHANGED <<files, prompt, sent>>, lock' \in Procs \union {None},
         LocalOK(P), CheckedOK(P), P.at \notin OwnerLabels,
         DiskOK(P, approval, cache, weekAttempt, globalAttempt, sent)
  PROVE  Inv'
<1>1. FilesType' /\ Grows /\ ApprovalsOK'
  BY QuietFiles
<1>2. DiskOK(P, approval', cache', weekAttempt', globalAttempt', sent')
  BY DEF files
<1> QED
  BY <1>1, <1>2, StepKeepsInv

LEMMA QuietLeave ==
  ASSUME Inv, NEW p \in Procs, proc[p].at # "idle", Leaves(p),
         UNCHANGED <<files, prompt, sent>>, lock' \in Procs \union {None}
  PROVE  Inv'
BY QuietFiles, LeavingKeepsInv

(* Only the label of P changes. *)
LEMMA GotoFields ==
  ASSUME NEW P \in Process, NEW l \in Labels
  PROVE  LET Q == [P EXCEPT !.at = l]
         IN  /\ Q \in Process /\ Q.at = l /\ Q.cmd = P.cmd /\ Q.week = P.week
             /\ Q.prompt = P.prompt /\ Q.run = P.run /\ Q.model = P.model
             /\ Q.answer = P.answer /\ KeyOf(Q) = KeyOf(P)
BY DEF Process, KeyOf

(* The checks that runSingleCase makes before it reserves a key. *)
LEMMA QuietCheck ==
  ASSUME Inv, NEW p \in Procs, proc[p].at \in ModelLabels,
         NEW l \in {"readMarker", "readCache", "readAttempt", "prepare",
                    "markGlobal"},
         Goto(p, l), UNCHANGED <<lock, files, prompt, sent>>
  PROVE  Inv'
<1> DEFINE P == [proc[p] EXCEPT !.at = l]
<1>0. /\ proc[p] \in Process /\ LocalOK(proc[p])
      /\ DiskOK(proc[p], approval, cache, weekAttempt, globalAttempt, sent)
  BY ProcFacts
<1>1. l \in Labels
  BY DEF Labels
<1>2. /\ P \in Process /\ P.at = l /\ P.cmd = proc[p].cmd
      /\ P.week = proc[p].week /\ P.prompt = proc[p].prompt
      /\ P.run = proc[p].run /\ P.model = proc[p].model
  BY <1>0, <1>1, GotoFields
<1>3. LocalOK(P) /\ CheckedOK(P) /\ P.at \notin OwnerLabels
  BY <1>0, <1>2 DEF LocalOK, CheckedOK, CaseLabels, ModelLabels, OwnerLabels
<1>4. DiskOK(P, approval, cache, weekAttempt, globalAttempt, sent)
  BY <1>0, <1>2 DEF DiskOK, ModelLabels, OwnerLabels
<1>5. lock' \in Procs \union {None}
  BY DEF Inv, FilesType
<1> QED
  BY <1>2, <1>3, <1>4, <1>5, QuietStep DEF Goto

LEMMA AcquireStep ==
  ASSUME Inv, NEW p \in Procs, Acquire(p) PROVE Inv'
<1>0. /\ proc[p] \in Process /\ LocalOK(proc[p]) /\ CheckedOK(proc[p])
      /\ proc[p].at = "acquire"
  BY ProcFacts DEF Acquire, At
<1>1. UNCHANGED <<files, prompt, sent>> /\ lock' \in Procs \union {None}
  BY DEF Acquire, Inv, FilesType
<1>2. CASE Leaves(p)
  BY <1>0, <1>1, <1>2, QuietLeave
<1>3. CASE Goto(p, "readPlan")
  <2> DEFINE P == [proc[p] EXCEPT !.at = "readPlan"]
  <2>1. /\ P \in Process /\ P.at = "readPlan" /\ P.cmd = proc[p].cmd
        /\ P.week = proc[p].week /\ P.prompt = proc[p].prompt /\ P.run = proc[p].run
    BY <1>0 DEF Process, Labels
  <2>2. LocalOK(P) /\ CheckedOK(P) /\ P.at \notin OwnerLabels
    BY <1>0, <2>1 DEF LocalOK, CheckedOK, CaseLabels, ModelLabels, OwnerLabels
  <2>3. DiskOK(P, approval, cache, weekAttempt, globalAttempt, sent)
    BY <2>1 DEF DiskOK, ModelLabels, OwnerLabels
  <2> QED
    BY <1>1, <1>3, <2>1, <2>2, <2>3, QuietStep DEF Goto
<1> QED
  BY <1>2, <1>3 DEF Acquire, Leaves

LEMMA ReadPlanStep ==
  ASSUME Inv, NEW p \in Procs, ReadPlan(p) PROVE Inv'
<1>0. /\ proc[p] \in Process /\ LocalOK(proc[p]) /\ CheckedOK(proc[p])
      /\ proc[p].at = "readPlan"
  BY ProcFacts DEF ReadPlan, At
<1>1. UNCHANGED <<files, prompt, sent>> /\ lock' \in Procs \union {None}
  BY DEF ReadPlan, Inv, FilesType
<1>2. CASE Leaves(p)
  BY <1>0, <1>1, <1>2, QuietLeave
<1>3. CASE Goto(p, "approving") /\ proc[p].cmd = "approve"
  <2> DEFINE P == [proc[p] EXCEPT !.at = "approving"]
  <2>1. /\ P \in Process /\ P.at = "approving" /\ P.cmd = "approve"
        /\ P.week = proc[p].week /\ P.prompt = proc[p].prompt /\ P.run = proc[p].run
    BY <1>0, <1>3 DEF Process, Labels
  <2>2. LocalOK(P) /\ CheckedOK(P) /\ P.at \notin OwnerLabels
    BY <1>0, <1>3, <2>1 DEF LocalOK, CheckedOK, CaseLabels, ModelLabels, OwnerLabels
  <2>3. DiskOK(P, approval, cache, weekAttempt, globalAttempt, sent)
    BY <2>1 DEF DiskOK, ModelLabels, OwnerLabels
  <2> QED
    BY <1>1, <1>3, <2>1, <2>2, <2>3, QuietStep DEF Goto
<1>4. ASSUME NEW S \in SUBSET Runs, NEW l \in {"writePlan", "release", "resolve"},
             Become(p, [proc[p] EXCEPT !.at = l, !.todo = S])
      PROVE  Inv'
  <2> DEFINE P == [proc[p] EXCEPT !.at = l, !.todo = S]
  <2>0. l \in Labels
    BY DEF Labels
  <2>1. /\ P \in Process /\ P.at = l /\ P.cmd = proc[p].cmd
        /\ P.week = proc[p].week /\ P.prompt = proc[p].prompt
    BY <1>0, <2>0 DEF Process
  <2>2. LocalOK(P) /\ CheckedOK(P) /\ P.at \notin OwnerLabels
    BY <1>0, <2>1 DEF LocalOK, CheckedOK, CaseLabels, ModelLabels, OwnerLabels
  <2>3. DiskOK(P, approval, cache, weekAttempt, globalAttempt, sent)
    BY <2>1 DEF DiskOK, ModelLabels, OwnerLabels
  <2> QED
    BY <1>1, <1>4, <2>1, <2>2, <2>3, QuietStep
<1>5. CASE proc[p].cmd = "approve"
  BY <1>2, <1>3, <1>5 DEF ReadPlan, Leaves
<1>6. CASE proc[p].cmd # "approve"
  <2> DEFINE w == proc[p].week
  <2>1. w \in Weeks /\ plan \in [Weeks -> Plans \union {None}]
    BY <1>0 DEF LocalOK, Inv, FilesType
  <2>2. CASE plan[w] = None /\ ~Goto(p, "release")
    <3>1. PICK S \in Selections(w) :
            Become(p, [proc[p] EXCEPT !.at = "writePlan", !.todo = S])
      BY <1>6, <2>2 DEF ReadPlan
    <3>2. S \in SUBSET Runs
      BY DEF Selections
    <3> QED
      BY <3>1, <3>2, <1>4
  <2>3. CASE plan[w] # None /\ ~Goto(p, "release")
    <3>1. plan[w].selected \in SUBSET Runs
      BY <2>1, <2>3 DEF Plans
    <3>2. AfterPlan(p) \in {"writePlan", "release", "resolve"}
      BY DEF AfterPlan
    <3>3. Become(p, [proc[p] EXCEPT !.at = AfterPlan(p), !.todo = plan[w].selected])
      BY <1>6, <2>3 DEF ReadPlan
    <3> QED
      BY <3>1, <3>2, <3>3, <1>4
  <2> QED
    BY <1>2, <2>2, <2>3 DEF Leaves
<1> QED
  BY <1>5, <1>6

LEMMA ResolveAuditorStep ==
  ASSUME Inv, NEW p \in Procs, ResolveAuditor(p) PROVE Inv'
<1>0. proc[p] \in Process /\ LocalOK(proc[p]) /\ proc[p].at = "resolve"
  BY ProcFacts DEF ResolveAuditor, At
<1>1. /\ UNCHANGED <<files, prompt, sent>> /\ lock' \in Procs \union {None}
  BY DEF ResolveAuditor, Inv, FilesType
<1>2. PICK m \in Models \union {None} :
        Become(p, [proc[p] EXCEPT !.at = "next", !.auditor = m])
  BY DEF ResolveAuditor
<1> DEFINE P == [proc[p] EXCEPT !.at = "next", !.auditor = m]
<1>3. /\ P \in Process /\ P.at = "next" /\ P.cmd = proc[p].cmd
      /\ P.week = proc[p].week /\ P.prompt = proc[p].prompt
  BY <1>0 DEF Process, Labels
<1>4. LocalOK(P) /\ CheckedOK(P) /\ P.at \notin OwnerLabels
  BY <1>0, <1>3 DEF LocalOK, CheckedOK, CaseLabels, ModelLabels, OwnerLabels
<1>5. DiskOK(P, approval, cache, weekAttempt, globalAttempt, sent)
  BY <1>3 DEF DiskOK, ModelLabels, OwnerLabels
<1> QED
  BY <1>1, <1>2, <1>3, <1>4, <1>5, QuietStep

LEMMA TakeCaseStep ==
  ASSUME Inv, NEW p \in Procs, TakeCase(p) PROVE Inv'
<1>0. proc[p] \in Process /\ LocalOK(proc[p]) /\ proc[p].at = "next"
  BY ProcFacts DEF TakeCase, At
<1>1. /\ UNCHANGED <<files, prompt, sent>> /\ lock' \in Procs \union {None}
  BY DEF TakeCase, Inv, FilesType
<1>2. ASSUME NEW l \in {"readApproval", "ensure", "next"},
             NEW r \in Runs \union {None}, NEW T \in SUBSET Runs,
             Become(p, [proc[p] EXCEPT !.at = l, !.run = r, !.todo = T]),
             l # "next" => r \in Runs,
             l = "ensure" => RunPatch[r] \in CleanPatches
      PROVE  Inv'
  <2> DEFINE P == [proc[p] EXCEPT !.at = l, !.run = r, !.todo = T]
  <2>0. l \in Labels
    BY DEF Labels
  <2>1. /\ P \in Process /\ P.at = l /\ P.cmd = proc[p].cmd
        /\ P.week = proc[p].week /\ P.prompt = proc[p].prompt /\ P.run = r
    BY <1>0, <2>0 DEF Process
  <2>2. LocalOK(P) /\ CheckedOK(P) /\ P.at \notin OwnerLabels
    BY <1>0, <1>2, <2>1 DEF LocalOK, CheckedOK, CaseLabels, ModelLabels, OwnerLabels
  <2>3. DiskOK(P, approval, cache, weekAttempt, globalAttempt, sent)
    BY <2>1 DEF DiskOK, ModelLabels, OwnerLabels
  <2> QED
    BY <1>1, <1>2, <2>1, <2>2, <2>3, QuietStep
<1>3. PICK r \in proc[p].todo, l \in {"readApproval", "ensure", "next"} :
        LET s == IF l = "next" THEN None ELSE r
        IN  /\ Become(p, [proc[p] EXCEPT !.at = l, !.run = s,
                                         !.todo = proc[p].todo \ {r}])
            /\ l = "ensure" => RunPatch[r] \in CleanPatches
  BY DEF TakeCase
<1>4. proc[p].todo \in SUBSET Runs
  BY <1>0 DEF Process
<1>5. r \in Runs /\ proc[p].todo \ {r} \in SUBSET Runs
  BY <1>4
<1> QED
  BY <1>2, <1>3, <1>5

LEMMA EnsureApprovalStep ==
  ASSUME Inv, NEW p \in Procs, EnsureApproval(p) PROVE Inv'
<1>0. /\ proc[p] \in Process /\ LocalOK(proc[p]) /\ CheckedOK(proc[p])
      /\ proc[p].at = "ensure"
  BY ProcFacts DEF EnsureApproval, At
<1>1. UNCHANGED <<files, prompt, sent>> /\ lock' \in Procs \union {None}
  BY DEF EnsureApproval, Inv, FilesType
<1>2. PICK l \in {"approving", "readApproval"} : Goto(p, l)
  BY DEF EnsureApproval
<1> DEFINE P == [proc[p] EXCEPT !.at = l]
<1>3. l \in Labels
  BY DEF Labels
<1>4. /\ P \in Process /\ P.at = l /\ P.cmd = proc[p].cmd
      /\ P.week = proc[p].week /\ P.prompt = proc[p].prompt /\ P.run = proc[p].run
  BY <1>0, <1>3, GotoFields
<1>5. LocalOK(P) /\ CheckedOK(P) /\ P.at \notin OwnerLabels
  BY <1>0, <1>4 DEF LocalOK, CheckedOK, CaseLabels, ModelLabels, OwnerLabels
<1>6. DiskOK(P, approval, cache, weekAttempt, globalAttempt, sent)
  BY <1>4 DEF DiskOK, ModelLabels, OwnerLabels
<1> QED
  BY <1>1, <1>2, <1>4, <1>5, <1>6, QuietStep DEF Goto

(* The model to be approved differs from the one that routed the run. *)
LEMMA CheckApprovalStep ==
  ASSUME Inv, NEW p \in Procs, CheckApproval(p) PROVE Inv'
<1>0. /\ proc[p] \in Process /\ LocalOK(proc[p]) /\ CheckedOK(proc[p])
      /\ proc[p].at = "approving"
  BY ProcFacts DEF CheckApproval, At
<1>1. UNCHANGED <<files, prompt, sent>> /\ lock' \in Procs \union {None}
  BY DEF CheckApproval, Inv, FilesType
<1>2. CASE Throw(p)
  BY <1>0, <1>1, <1>2, ThrowLeaves, QuietLeave
<1>3. CASE ~Throw(p)
  <2>1. PICK m \in Models, route \in Routes \union {None} :
          /\ proc[p].cmd = "autorun" => m \in CodexModels
          /\ Independent(m, proc[p].run, route)
          /\ Become(p, [proc[p] EXCEPT !.at = "saveApproval", !.model = m])
    BY <1>3 DEF CheckApproval
  <2> DEFINE P == [proc[p] EXCEPT !.at = "saveApproval", !.model = m]
  <2>2. /\ P \in Process /\ P.at = "saveApproval" /\ P.cmd = proc[p].cmd
        /\ P.week = proc[p].week /\ P.prompt = proc[p].prompt
        /\ P.run = proc[p].run /\ P.model = m
    BY <1>0 DEF Process, Labels
  <2>3. m # JevModel[proc[p].run]
    BY <2>1, NoneAssumption DEF Independent
  <2>4. LocalOK(P) /\ P.at \notin OwnerLabels
    BY <1>0, <2>2 DEF LocalOK, CaseLabels, ModelLabels, OwnerLabels
  <2>5. CheckedOK(P)
    BY <1>0, <2>1, <2>2, <2>3 DEF CheckedOK
  <2>6. DiskOK(P, approval, cache, weekAttempt, globalAttempt, sent)
    BY <2>2 DEF DiskOK, ModelLabels, OwnerLabels
  <2> QED
    BY <1>1, <2>1, <2>2, <2>4, <2>5, <2>6, QuietStep
<1> QED
  BY <1>2, <1>3

LEMMA ReadApprovalStep ==
  ASSUME Inv, NEW p \in Procs, ReadApproval(p) PROVE Inv'
<1> DEFINE r == proc[p].run
           P == [proc[p] EXCEPT !.at = "readResult", !.model = approval[r].model]
<1>0. /\ proc[p] \in Process /\ LocalOK(proc[p]) /\ CheckedOK(proc[p])
      /\ proc[p].at = "readApproval"
  BY ProcFacts DEF ReadApproval, At
<1>1. UNCHANGED <<files, prompt, sent>> /\ lock' \in Procs \union {None}
  BY DEF ReadApproval, Inv, FilesType
<1>2. CASE NextCase(p)
  BY <1>0, <1>1, <1>2, QuietLeave DEF Leaves
<1>3. CASE ~NextCase(p)
  <2>1. /\ approval[r] # None /\ approval[r].prompt = proc[p].prompt
        /\ Become(p, P)
    BY <1>3 DEF ReadApproval
  <2>2. r \in Runs
    BY <1>0 DEF LocalOK, CaseLabels, ModelLabels
  <2>3. approval[r].model \in Models
    BY <2>1, <2>2 DEF Inv, FilesType, Approvals
  <2>4. /\ P \in Process /\ P.at = "readResult" /\ P.cmd = proc[p].cmd
        /\ P.week = proc[p].week /\ P.prompt = proc[p].prompt
        /\ P.run = r /\ P.model = approval[r].model
    BY <1>0, <2>3 DEF Process, Labels
  <2>5. LocalOK(P) /\ CheckedOK(P) /\ P.at \notin OwnerLabels
    BY <1>0, <2>2, <2>3, <2>4 DEF LocalOK, CheckedOK, CaseLabels, ModelLabels, OwnerLabels
  <2>6. DiskOK(P, approval, cache, weekAttempt, globalAttempt, sent)
    BY <2>1, <2>4 DEF DiskOK, ModelLabels, OwnerLabels
  <2> HIDE DEF P
  <2> QED
    BY <1>1, <2>1, <2>4, <2>5, <2>6, QuietStep
<1> QED
  BY <1>2, <1>3

LEMMA ReadResultStep ==
  ASSUME Inv, NEW p \in Procs, ReadResult(p) PROVE Inv'
<1> DEFINE r == proc[p].run
           P == [proc[p] EXCEPT !.at = "repair", !.answer = weekResult[r].outcome]
<1>0. /\ proc[p] \in Process /\ LocalOK(proc[p]) /\ CheckedOK(proc[p])
      /\ proc[p].at = "readResult"
      /\ DiskOK(proc[p], approval, cache, weekAttempt, globalAttempt, sent)
  BY ProcFacts DEF ReadResult, At
<1>1. UNCHANGED <<lock, files, prompt, sent>> /\ lock' \in Procs \union {None}
  BY DEF ReadResult, Inv, FilesType
<1>2. CASE NextCase(p)
  BY <1>0, <1>1, <1>2, QuietLeave DEF Leaves
<1>3. CASE Goto(p, "readMarker")
  BY <1>0, <1>1, <1>3, QuietCheck DEF ModelLabels
<1>4. CASE ~NextCase(p) /\ ~Goto(p, "readMarker")
  <2>1. weekResult[r] # None /\ Become(p, P)
    BY <1>4 DEF ReadResult
  <2>2. r \in Runs
    BY <1>0 DEF LocalOK, CaseLabels, ModelLabels
  <2>3. weekResult[r].outcome \in Outcomes
    BY <2>1, <2>2 DEF Inv, FilesType, Results
  <2>4. /\ P \in Process /\ P.at = "repair" /\ P.cmd = proc[p].cmd
        /\ P.week = proc[p].week /\ P.prompt = proc[p].prompt
        /\ P.run = r /\ P.model = proc[p].model /\ P.answer \in Outcomes
    BY <1>0, <2>3 DEF Process, Labels
  <2>5. LocalOK(P) /\ CheckedOK(P) /\ P.at \notin OwnerLabels
    BY <1>0, <2>4 DEF LocalOK, CheckedOK, CaseLabels, ModelLabels, OwnerLabels
  <2>6. DiskOK(P, approval, cache, weekAttempt, globalAttempt, sent)
    BY <1>0, <2>4 DEF DiskOK, ModelLabels, OwnerLabels
  <2> HIDE DEF P
  <2> QED
    BY <1>1, <2>1, <2>4, <2>5, <2>6, QuietStep
<1> QED
  BY <1>2, <1>3, <1>4

(* From one label of a case to another, the answer and the model at hand. *)
LEMMA QuietRecord ==
  ASSUME Inv, NEW p \in Procs, proc[p].at \in ModelLabels,
         NEW l \in {"saveCache", "saveCached"},
         l = "saveCache" => proc[p].answer \in Outcomes,
         l = "saveCached" => cache[Key(p)] # None,
         Goto(p, l), UNCHANGED <<lock, files, prompt, sent>>
  PROVE  Inv'
<1> DEFINE P == [proc[p] EXCEPT !.at = l]
<1>0. /\ proc[p] \in Process /\ LocalOK(proc[p])
      /\ DiskOK(proc[p], approval, cache, weekAttempt, globalAttempt, sent)
  BY ProcFacts
<1>1. l \in Labels
  BY DEF Labels
<1>2. /\ P \in Process /\ P.at = l /\ P.cmd = proc[p].cmd
      /\ P.week = proc[p].week /\ P.prompt = proc[p].prompt
      /\ P.run = proc[p].run /\ P.model = proc[p].model
      /\ P.answer = proc[p].answer /\ KeyOf(P) = KeyOf(proc[p])
  BY <1>0, <1>1, GotoFields
<1>3. LocalOK(P) /\ CheckedOK(P) /\ P.at \notin OwnerLabels
  BY <1>0, <1>2 DEF LocalOK, CheckedOK, CaseLabels, ModelLabels, OwnerLabels
<1>4. KeyOf(proc[p]) = Key(p)
  BY DEF KeyOf, Key
<1>5. DiskOK(P, approval, cache, weekAttempt, globalAttempt, sent)
  BY <1>0, <1>2, <1>4 DEF DiskOK, ModelLabels, OwnerLabels
<1>6. lock' \in Procs \union {None}
  BY DEF Inv, FilesType
<1> QED
  BY <1>2, <1>3, <1>5, <1>6, QuietStep DEF Goto

LEMMA RepairCacheStep ==
  ASSUME Inv, NEW p \in Procs, RepairCache(p) PROVE Inv'
<1>0. proc[p].at = "repair" /\ proc[p].answer \in Outcomes
  BY ProcFacts DEF RepairCache, At, LocalOK
<1>1. UNCHANGED <<lock, files, prompt, sent>> /\ lock' \in Procs \union {None}
  BY DEF RepairCache, Inv, FilesType
<1>2. CASE NextCase(p)
  BY <1>0, <1>1, <1>2, QuietLeave DEF Leaves
<1>3. CASE Goto(p, "saveCache")
  BY <1>0, <1>1, <1>3, QuietRecord DEF ModelLabels
<1> QED
  BY <1>2, <1>3 DEF RepairCache

LEMMA ReadMarkerStep ==
  ASSUME Inv, NEW p \in Procs, ReadMarker(p) PROVE Inv'
<1>1. /\ UNCHANGED <<lock, files, prompt, sent>> /\ lock' \in Procs \union {None}
      /\ proc[p].at = "readMarker"
  BY DEF ReadMarker, At, Inv, FilesType
<1>2. CASE NextCase(p)
  BY <1>1, <1>2, QuietLeave DEF Leaves
<1>3. CASE Goto(p, "readCache")
  BY <1>1, <1>3, QuietCheck DEF ModelLabels
<1> QED
  BY <1>2, <1>3 DEF ReadMarker

LEMMA ReadCacheStep ==
  ASSUME Inv, NEW p \in Procs, ReadCache(p) PROVE Inv'
<1>1. /\ UNCHANGED <<lock, files, prompt, sent>>
      /\ proc[p].at = "readCache"
  BY DEF ReadCache, At
<1>2. CASE Goto(p, "saveCached") /\ cache[Key(p)] # None
  BY <1>1, <1>2, QuietRecord DEF ModelLabels
<1>3. CASE Goto(p, "readAttempt")
  BY <1>1, <1>3, QuietCheck DEF ModelLabels
<1> QED
  BY <1>2, <1>3 DEF ReadCache

LEMMA ReadAttemptStep ==
  ASSUME Inv, NEW p \in Procs, ReadAttempt(p) PROVE Inv'
<1>1. /\ UNCHANGED <<lock, files, prompt, sent>> /\ lock' \in Procs \union {None}
      /\ proc[p].at = "readAttempt"
  BY DEF ReadAttempt, At, Inv, FilesType
<1>2. CASE NextCase(p)
  BY <1>1, <1>2, QuietLeave DEF Leaves
<1>3. CASE Goto(p, "prepare")
  BY <1>1, <1>3, QuietCheck DEF ModelLabels
<1> QED
  BY <1>2, <1>3 DEF ReadAttempt

LEMMA PrepareCallStep ==
  ASSUME Inv, NEW p \in Procs, PrepareCall(p) PROVE Inv'
<1>1. /\ UNCHANGED <<lock, files, prompt, sent>> /\ lock' \in Procs \union {None}
      /\ proc[p].at = "prepare"
  BY DEF PrepareCall, At, Inv, FilesType
<1>2. CASE NextCase(p)
  BY <1>1, <1>2, QuietLeave DEF Leaves
<1>3. CASE Goto(p, "markGlobal")
  BY <1>1, <1>3, QuietCheck DEF ModelLabels
<1> QED
  BY <1>2, <1>3 DEF PrepareCall

LEMMA AnswerStep ==
  ASSUME Inv, NEW p \in Procs, Answer(p) PROVE Inv'
<1>0. /\ proc[p] \in Process /\ LocalOK(proc[p]) /\ proc[p].at = "waiting"
      /\ DiskOK(proc[p], approval, cache, weekAttempt, globalAttempt, sent)
  BY ProcFacts DEF Answer, At
<1>1. UNCHANGED <<files, prompt, sent>> /\ lock' \in Procs \union {None}
  BY DEF Answer, Inv, FilesType
<1>2. PICK o \in Outcomes :
        Become(p, [proc[p] EXCEPT !.at = "saveResult", !.answer = o])
  BY DEF Answer
<1> DEFINE P == [proc[p] EXCEPT !.at = "saveResult", !.answer = o]
<1>3. /\ P \in Process /\ P.at = "saveResult" /\ P.cmd = proc[p].cmd
      /\ P.week = proc[p].week /\ P.prompt = proc[p].prompt
      /\ P.run = proc[p].run /\ P.model = proc[p].model /\ P.answer = o
  BY <1>0 DEF Process, Labels
<1>4. LocalOK(P) /\ CheckedOK(P) /\ P.at \notin OwnerLabels
  BY <1>0, <1>3 DEF LocalOK, CheckedOK, CaseLabels, ModelLabels, OwnerLabels
<1>5. DiskOK(P, approval, cache, weekAttempt, globalAttempt, sent)
  BY <1>0, <1>3 DEF DiskOK, ModelLabels, OwnerLabels
<1> QED
  BY <1>1, <1>2, <1>3, <1>4, <1>5, QuietStep

(* The steps that end a case or a command without writing a record. *)
LEMMA EndSteps ==
  ASSUME Inv, NEW p \in Procs,
         FinishRun(p) \/ Release(p) \/ LockFault(p) \/ Crash(p)
  PROVE  Inv'
<1>1. CASE FinishRun(p) \/ Release(p) \/ Crash(p)
  <2>1. /\ UNCHANGED <<files, prompt, sent>> /\ lock' \in Procs \union {None}
        /\ proc[p].at # "idle" /\ Leaves(p)
    BY <1>1 DEF FinishRun, Release, Crash, At, Leaves, Inv, FilesType
  <2> QED
    BY <2>1, QuietLeave
<1>2. CASE LockFault(p)
  <2>1. /\ UNCHANGED <<files, prompt, sent>> /\ lock' \in Procs \union {None}
        /\ proc[p].at # "idle" /\ Leaves(p)
    BY <1>2 DEF LockFault, At, Leaves, Inv, FilesType
  <2> QED
    BY <2>1, QuietLeave
<1> QED
  BY <1>1, <1>2

LEMMA FaultStep ==
  ASSUME Inv, NEW p \in Procs, Fault(p) PROVE Inv'
<1>1. UNCHANGED <<files, prompt, sent>> /\ lock' \in Procs \union {None}
  BY DEF Fault, Inv, FilesType
<1>2. proc[p].at # "idle"
  BY DEF Fault, At
<1>3. Leaves(p)
  BY ThrowLeaves DEF Fault, Leaves
<1> QED
  BY <1>1, <1>2, <1>3, QuietLeave

-----------------------------------------------------------------------------
(* The actions that publish a record.                                      *)

LEMMA WritePlanStep ==
  ASSUME Inv, NEW p \in Procs, WritePlan(p) PROVE Inv'
<1> DEFINE w == proc[p].week
           new == [selected |-> proc[p].todo,
                   version |-> PromptVersion[proc[p].prompt]]
<1>0. /\ proc[p] \in Process /\ LocalOK(proc[p]) /\ proc[p].at = "writePlan"
  BY ProcFacts DEF WritePlan, At
<1>1. new \in Plans
  BY <1>0, ConstantsAssumption DEF LocalOK, Process, Plans
<1>2. plan' \in [Weeks -> Plans \union {None}]
  BY <1>1 DEF WritePlan, Inv, FilesType
<1>3. FilesType' /\ Grows /\ ApprovalsOK' /\ sent' = sent
  BY <1>2 DEF WritePlan, Inv, FilesType, Grows, ApprovalsOK
<1>4. CASE Goto(p, "release")
  BY <1>0, <1>3, <1>4, LeavingKeepsInv DEF Leaves
<1>5. CASE Goto(p, "resolve")
  <2> DEFINE P == [proc[p] EXCEPT !.at = "resolve"]
  <2>0. "resolve" \in Labels
    BY DEF Labels
  <2>1. /\ P \in Process /\ P.at = "resolve" /\ P.cmd = proc[p].cmd
        /\ P.week = proc[p].week /\ P.prompt = proc[p].prompt
    BY <1>0, <2>0, GotoFields
  <2>2. LocalOK(P) /\ CheckedOK(P)
    BY <1>0, <2>1 DEF LocalOK, CheckedOK, CaseLabels, ModelLabels
  <2>3. DiskOK(P, approval', cache', weekAttempt', globalAttempt', sent')
    BY <2>1 DEF DiskOK, ModelLabels, OwnerLabels
  <2> QED
    BY <1>3, <1>5, <2>1, <2>2, <2>3, StepKeepsInv DEF Goto, OwnerLabels
<1> QED
  BY <1>4, <1>5 DEF WritePlan, AfterPlan

LEMMA SaveApprovalStep ==
  ASSUME Inv, NEW p \in Procs, SaveApproval(p) PROVE Inv'
<1> DEFINE r == proc[p].run
           mode == IF proc[p].cmd = "autorun" THEN "automatic" ELSE "manual"
           new == [model |-> proc[p].model, prompt |-> proc[p].prompt,
                   mode |-> mode]
<1>0. /\ proc[p] \in Process /\ LocalOK(proc[p]) /\ CheckedOK(proc[p])
      /\ proc[p].at = "saveApproval"
  BY ProcFacts DEF SaveApproval, At
<1>1. r \in Runs /\ proc[p].model \in Models /\ proc[p].prompt \in Prompts
  BY <1>0 DEF LocalOK, CaseLabels
<1>2. new \in Approvals
  BY <1>1 DEF Approvals, Modes
<1>3. CASE approval[r] # None
  <2>1. Throw(p) /\ approval' = approval
    BY <1>3 DEF SaveApproval
  <2>2. FilesType' /\ Grows /\ ApprovalsOK' /\ sent' = sent
    BY <2>1 DEF SaveApproval, Inv, FilesType, Grows, ApprovalsOK
  <2> QED
    BY <1>0, <2>1, <2>2, ThrowLeaves, LeavingKeepsInv
<1>4. CASE approval[r] = None
  <2>1. approval' = [approval EXCEPT ![r] = new]
    BY <1>4 DEF SaveApproval
  <2>2. approval' \in [Runs -> Approvals \union {None}]
    BY <1>1, <1>2, <2>1 DEF Inv, FilesType
  <2>3. FilesType' /\ sent' = sent
    BY <2>2 DEF SaveApproval, Inv, FilesType
  <2>4. Grows
    BY <1>1, <1>4, <2>1 DEF SaveApproval, Inv, FilesType, Grows
  <2>5. \A s \in Runs : approval'[s] = IF s = r THEN new ELSE approval[s]
    BY <1>1, <2>1 DEF Inv, FilesType
  <2>6. /\ new.model # JevModel[r]
        /\ new.mode = "automatic" =>
             new.model \in CodexModels /\ RunPatch[r] \in CleanPatches
    BY <1>0 DEF CheckedOK
  <2>7. ApprovalsOK'
    BY <2>5, <2>6 DEF Inv, ApprovalsOK
  <2>8. PICK l \in {"readApproval", "release"} :
          Become(p, [proc[p] EXCEPT !.model = None, !.at = l])
    BY <1>4 DEF SaveApproval
  <2> DEFINE P == [proc[p] EXCEPT !.model = None, !.at = l]
  <2>9. l \in Labels
    BY DEF Labels
  <2>10. /\ P \in Process /\ P.at = l /\ P.cmd = proc[p].cmd
         /\ P.week = proc[p].week /\ P.prompt = proc[p].prompt
         /\ P.run = r
    BY <1>0, <2>9 DEF Process
  <2>11. LocalOK(P) /\ CheckedOK(P) /\ P.at \notin OwnerLabels
    BY <1>0, <1>1, <2>10 DEF LocalOK, CheckedOK, CaseLabels, ModelLabels, OwnerLabels
  <2>12. DiskOK(P, approval', cache', weekAttempt', globalAttempt', sent')
    BY <2>10 DEF DiskOK, ModelLabels, OwnerLabels
  <2> QED
    BY <2>3, <2>4, <2>7, <2>8, <2>10, <2>11, <2>12, StepKeepsInv
<1> QED
  BY <1>3, <1>4

LEMMA SaveCachedStep ==
  ASSUME Inv, NEW p \in Procs, SaveCached(p) PROVE Inv'
<1> DEFINE found == cache[Key(p)]
           new == [independent |-> FALSE, outcome |-> found.outcome,
                   key |-> Key(p), from |-> RunWeek[found.run]]
<1>0. /\ proc[p] \in Process /\ LocalOK(proc[p]) /\ proc[p].at = "saveCached"
      /\ DiskOK(proc[p], approval, cache, weekAttempt, globalAttempt, sent)
  BY ProcFacts DEF SaveCached, At
<1>1. Key(p) \in Keys
  BY <1>0, KeyType DEF ModelLabels, KeyOf, Key
<1>2. found # None
  BY <1>0 DEF DiskOK, KeyOf, Key
<1>3. found.outcome \in Outcomes /\ found.run \in Runs
  BY <1>1, <1>2 DEF Inv, FilesType, CacheRecords
<1>4. new \in Results
  BY <1>1, <1>3, ConstantsAssumption DEF Results
<1>5. weekResult' \in [Runs -> Results \union {None}]
  BY <1>4 DEF SaveCached, Inv, FilesType
<1>6. FilesType' /\ Grows /\ ApprovalsOK' /\ sent' = sent
  BY <1>5 DEF SaveCached, Inv, FilesType, Grows, ApprovalsOK
<1>7. Leaves(p)
  BY DEF SaveCached, Leaves
<1> QED
  BY <1>0, <1>6, <1>7, LeavingKeepsInv

(* Only the process that creates the marker of a key comes to own it. *)
LEMMA MarkGlobalStep ==
  ASSUME Inv, NEW p \in Procs, MarkGlobal(p) PROVE Inv'
<1>0. /\ proc[p] \in Process /\ LocalOK(proc[p]) /\ proc[p].at = "markGlobal"
      /\ DiskOK(proc[p], approval, cache, weekAttempt, globalAttempt, sent)
  BY ProcFacts DEF MarkGlobal, At
<1>1. Key(p) \in Keys /\ Key(p) = KeyOf(proc[p])
  BY <1>0, KeyType DEF ModelLabels, KeyOf, Key
<1>2. FilesType' /\ Grows /\ ApprovalsOK' /\ sent' = sent
  BY <1>1 DEF MarkGlobal, Inv, FilesType, Grows, ApprovalsOK
<1>3. CASE Key(p) \in globalAttempt
  BY <1>0, <1>2, <1>3, LeavingKeepsInv DEF MarkGlobal, Leaves
<1>4. CASE Key(p) \notin globalAttempt
  <2> DEFINE P == [proc[p] EXCEPT !.at = "markWeek"]
  <2>0. "markWeek" \in Labels
    BY DEF Labels
  <2>1. /\ P \in Process /\ P.at = "markWeek" /\ P.cmd = proc[p].cmd
        /\ P.week = proc[p].week /\ P.prompt = proc[p].prompt
        /\ P.run = proc[p].run /\ P.model = proc[p].model
        /\ KeyOf(P) = Key(p)
    BY <1>0, <1>1, <2>0, GotoFields
  <2>2. LocalOK(P) /\ CheckedOK(P)
    BY <1>0, <2>1 DEF LocalOK, CheckedOK, CaseLabels, ModelLabels
  <2>3. Become(p, P) /\ globalAttempt' = globalAttempt \union {Key(p)}
    BY <1>4 DEF MarkGlobal, Goto
  <2>4. sent[Key(p)] = <<>>
    BY <1>1, <1>4 DEF Inv, CallsOK
  <2>5. approval' = approval
    BY DEF MarkGlobal
  <2>6. DiskOK(P, approval', cache', weekAttempt', globalAttempt', sent')
    BY <1>0, <1>2, <2>1, <2>3, <2>4, <2>5 DEF DiskOK, ModelLabels, OwnerLabels
  <2>7. \A q \in Procs \ {p} :
          proc[q].at \in OwnerLabels => KeyOf(proc[q]) # KeyOf(P)
    BY <1>4, <2>1 DEF Inv, ProcsOK, DiskOK
  <2> QED
    BY <1>2, <2>1, <2>2, <2>3, <2>6, <2>7, StepKeepsInv
<1> QED
  BY <1>3, <1>4

LEMMA MarkWeekStep ==
  ASSUME Inv, NEW p \in Procs, MarkWeek(p) PROVE Inv'
<1> DEFINE r == proc[p].run
<1>0. /\ proc[p] \in Process /\ LocalOK(proc[p]) /\ proc[p].at = "markWeek"
      /\ DiskOK(proc[p], approval, cache, weekAttempt, globalAttempt, sent)
  BY ProcFacts DEF MarkWeek, At
<1>1. r \in Runs
  BY <1>0 DEF LocalOK, CaseLabels, ModelLabels
<1>2. FilesType' /\ Grows /\ ApprovalsOK' /\ sent' = sent
  BY <1>1 DEF MarkWeek, Inv, FilesType, Grows, ApprovalsOK
<1>3. CASE r \in weekAttempt
  BY <1>0, <1>2, <1>3, LeavingKeepsInv DEF MarkWeek, Leaves
<1>4. CASE r \notin weekAttempt
  <2> DEFINE P == [proc[p] EXCEPT !.at = "call"]
  <2>0. "call" \in Labels
    BY DEF Labels
  <2>1. /\ P \in Process /\ P.at = "call" /\ P.cmd = proc[p].cmd
        /\ P.week = proc[p].week /\ P.prompt = proc[p].prompt
        /\ P.run = r /\ P.model = proc[p].model
        /\ KeyOf(P) = KeyOf(proc[p])
    BY <1>0, <2>0, GotoFields
  <2>2. LocalOK(P) /\ CheckedOK(P)
    BY <1>0, <2>1 DEF LocalOK, CheckedOK, CaseLabels, ModelLabels
  <2>3. Become(p, P) /\ weekAttempt' = weekAttempt \union {r}
    BY <1>4 DEF MarkWeek, Goto
  <2>4. approval' = approval /\ globalAttempt' = globalAttempt
    BY DEF MarkWeek
  <2>5. DiskOK(P, approval', cache', weekAttempt', globalAttempt', sent')
    BY <1>0, <1>2, <2>1, <2>3, <2>4 DEF DiskOK, ModelLabels, OwnerLabels
  <2>6. \A q \in Procs \ {p} :
          proc[q].at \in OwnerLabels => KeyOf(proc[q]) # KeyOf(P)
    BY <1>0, <2>1 DEF Inv, OwnersDistinct, OwnerLabels
  <2> QED
    BY <1>2, <2>1, <2>2, <2>3, <2>5, <2>6, StepKeepsInv
<1> QED
  BY <1>3, <1>4

LEMMA SaveResultStep ==
  ASSUME Inv, NEW p \in Procs, SaveResult(p) PROVE Inv'
<1> DEFINE r == proc[p].run
           new == [independent |-> TRUE, outcome |-> proc[p].answer,
                   key |-> Key(p), from |-> RunWeek[r]]
<1>0. /\ proc[p] \in Process /\ LocalOK(proc[p]) /\ proc[p].at = "saveResult"
      /\ DiskOK(proc[p], approval, cache, weekAttempt, globalAttempt, sent)
  BY ProcFacts DEF SaveResult, At
<1>1. r \in Runs /\ proc[p].answer \in Outcomes /\ Key(p) \in Keys
  BY <1>0, KeyType DEF LocalOK, CaseLabels, ModelLabels, KeyOf, Key
<1>2. new \in Results
  BY <1>1, ConstantsAssumption DEF Results
<1>3. weekResult' \in [Runs -> Results \union {None}]
  BY <1>2 DEF SaveResult, Inv, FilesType
<1>4. FilesType' /\ Grows /\ ApprovalsOK' /\ sent' = sent
  BY <1>3 DEF SaveResult, Inv, FilesType, Grows, ApprovalsOK
<1>5. CASE NextCase(p)
  BY <1>0, <1>4, <1>5, LeavingKeepsInv DEF Leaves
<1>6. CASE Goto(p, "saveCache")
  <2> DEFINE P == [proc[p] EXCEPT !.at = "saveCache"]
  <2>0. "saveCache" \in Labels
    BY DEF Labels
  <2>1. /\ P \in Process /\ P.at = "saveCache" /\ P.cmd = proc[p].cmd
        /\ P.week = proc[p].week /\ P.prompt = proc[p].prompt
        /\ P.run = r /\ P.model = proc[p].model /\ P.answer = proc[p].answer
    BY <1>0, <2>0, GotoFields
  <2>2. LocalOK(P) /\ CheckedOK(P)
    BY <1>0, <2>1 DEF LocalOK, CheckedOK, CaseLabels, ModelLabels
  <2>3. approval' = approval
    BY DEF SaveResult
  <2>4. DiskOK(P, approval', cache', weekAttempt', globalAttempt', sent')
    BY <1>0, <2>1, <2>3 DEF DiskOK, ModelLabels, OwnerLabels
  <2> QED
    BY <1>4, <1>6, <2>1, <2>2, <2>4, StepKeepsInv DEF Goto, OwnerLabels
<1> QED
  BY <1>5, <1>6 DEF SaveResult

LEMMA SaveCacheStep ==
  ASSUME Inv, NEW p \in Procs, SaveCache(p) PROVE Inv'
<1> DEFINE new == [run |-> proc[p].run, outcome |-> proc[p].answer]
           k == Key(p)
<1>0. /\ proc[p] \in Process /\ LocalOK(proc[p]) /\ proc[p].at = "saveCache"
  BY ProcFacts DEF SaveCache, At
<1>1. /\ proc[p].run \in Runs /\ proc[p].answer \in Outcomes /\ k \in Keys
  BY <1>0, KeyType DEF LocalOK, CaseLabels, ModelLabels, KeyOf, Key
<1>2. new \in CacheRecords /\ new # None
  BY <1>1, NoneIsNoRecord DEF CacheRecords
<1>3. cache' = [cache EXCEPT ![k] = IF cache[k] = None THEN new ELSE cache[k]]
  BY DEF SaveCache
<1>4. cache' \in [Keys -> CacheRecords \union {None}]
  BY <1>1, <1>2, <1>3 DEF Inv, FilesType
<1>5. \A j \in Keys : cache[j] # None => cache'[j] # None
  BY <1>1, <1>3 DEF Inv, FilesType
<1>6. FilesType' /\ Grows /\ ApprovalsOK' /\ sent' = sent
  BY <1>4, <1>5 DEF SaveCache, Inv, FilesType, Grows, ApprovalsOK
<1>7. Leaves(p)
  BY DEF SaveCache, Leaves
<1> QED
  BY <1>0, <1>6, <1>7, LeavingKeepsInv

-----------------------------------------------------------------------------
(* The call, and the steps of nobody.                                      *)

(* The caller owns its key, so this is the key's first call; every other
   owner holds another key, which nobody has asked. *)
LEMMA CallModelStep ==
  ASSUME Inv, NEW p \in Procs, CallModel(p) PROVE Inv'
<1> DEFINE r == proc[p].run
           k == Key(p)
           P == [proc[p] EXCEPT !.at = "waiting"]
<1>0. /\ proc[p] \in Process /\ LocalOK(proc[p]) /\ proc[p].at = "call"
      /\ DiskOK(proc[p], approval, cache, weekAttempt, globalAttempt, sent)
  BY ProcFacts DEF CallModel, At
<1>1. r \in Runs /\ k \in Keys /\ k = KeyOf(proc[p])
  BY <1>0, KeyType DEF LocalOK, CaseLabels, ModelLabels, KeyOf, Key
<1>2. /\ sent[k] = <<>> /\ k \in globalAttempt /\ r \in weekAttempt
      /\ approval[r] # None
      /\ k = <<RunPatch[r], approval[r].model, approval[r].prompt>>
  BY <1>0, <1>1 DEF DiskOK, OwnerLabels, ModelLabels, KeyOf
<1>3. sent' = [sent EXCEPT ![k] = <<r>>]
  <2>1. Append(<<>>, r) = <<r>>
    BY <1>1
  <2> QED
    BY <1>1, <1>2, <2>1 DEF CallModel, Inv
<1>4. /\ sent' \in [Keys -> Seq(Runs)]
      /\ \A j \in Keys : sent'[j] = IF j = k THEN <<r>> ELSE sent[j]
  BY <1>1, <1>3 DEF Inv
<1>5. /\ UNCHANGED <<lock, plan, approval, weekAttempt, weekResult,
                     globalAttempt, cache, prompt>>
      /\ Become(p, P)
  BY DEF CallModel, files, Goto
<1>6. FilesType' /\ Grows /\ ApprovalsOK'
  BY <1>5 DEF Inv, FilesType, Grows, ApprovalsOK
<1>7. "waiting" \in Labels
  BY DEF Labels
<1>8. /\ P \in Process /\ P.at = "waiting" /\ P.cmd = proc[p].cmd
      /\ P.week = proc[p].week /\ P.prompt = proc[p].prompt
      /\ P.run = r /\ P.model = proc[p].model
  BY <1>0, <1>7, GotoFields
<1>9. /\ proc' \in [Procs -> Process]
      /\ proc'[p] = P
      /\ \A q \in Procs \ {p} : proc'[q] = proc[q]
  BY <1>5, <1>8, BecomeEffect DEF Inv
<1>10. LocalOK(P) /\ CheckedOK(P)
  BY <1>0, <1>8 DEF LocalOK, CheckedOK, CaseLabels, ModelLabels
<1>11. DiskOK(P, approval', cache', weekAttempt', globalAttempt', sent')
  BY <1>0, <1>5, <1>8 DEF DiskOK, ModelLabels, OwnerLabels
<1>12. ProcsOK'
  <2> SUFFICES ASSUME NEW q \in Procs
               PROVE  /\ LocalOK(proc'[q])
                      /\ CheckedOK(proc'[q])
                      /\ DiskOK(proc'[q], approval', cache', weekAttempt',
                                globalAttempt', sent')
    BY DEF ProcsOK, LocalOK, CheckedOK, DiskOK, KeyOf
  <2>1. CASE q = p
    BY <2>1, <1>9, <1>10, <1>11
  <2>2. CASE q # p
    <3>1. /\ proc[q] \in Process /\ LocalOK(proc[q]) /\ CheckedOK(proc[q])
          /\ DiskOK(proc[q], approval, cache, weekAttempt, globalAttempt, sent)
      BY ProcFacts
    <3>2. proc[q].at \in OwnerLabels => sent'[KeyOf(proc[q])] = <<>>
      <4> SUFFICES ASSUME proc[q].at \in OwnerLabels
                   PROVE  sent'[KeyOf(proc[q])] = <<>>
        OBVIOUS
      <4>1. KeyOf(proc[q]) # k
        BY <1>0, <1>1, <2>2 DEF Inv, OwnersDistinct, OwnerLabels
      <4>2. KeyOf(proc[q]) \in Keys
        BY <3>1, KeyType DEF OwnerLabels, ModelLabels
      <4> QED
        BY <1>4, <3>1, <4>1, <4>2 DEF DiskOK
    <3>3. DiskOK(proc[q], approval', cache', weekAttempt', globalAttempt', sent')
      BY <1>6, <3>1, <3>2, DiskStaysOK
    <3> QED
      BY <1>9, <2>2, <3>1, <3>3
  <2> QED
    BY <2>1, <2>2
<1>13. OwnersDistinct'
  <2>1. \A q \in Procs : KeyOf(proc[q])' = KeyOf(proc'[q])
    BY DEF KeyOf
  <2>2. proc'[p].at \notin OwnerLabels
    BY <1>8, <1>9 DEF OwnerLabels
  <2> QED
    BY <1>9, <2>1, <2>2 DEF Inv, OwnersDistinct
<1>14. CallsOK'
  <2> SUFFICES ASSUME NEW j \in Keys
               PROVE  \/ sent'[j] = <<>>
                      \/ \E s \in Runs :
                           /\ sent'[j] = <<s>>
                           /\ j \in globalAttempt /\ s \in weekAttempt
                           /\ approval[s] # None
                           /\ j = <<RunPatch[s], approval[s].model,
                                    approval[s].prompt>>
    BY <1>5 DEF CallsOK
  <2>1. CASE j = k
    BY <1>1, <1>2, <1>4, <2>1
  <2>2. CASE j # k
    BY <1>4, <2>2 DEF Inv, CallsOK
  <2> QED
    BY <2>1, <2>2
<1> QED
  BY <1>4, <1>6, <1>9, <1>12, <1>13, <1>14 DEF Inv

LEMMA OutsideStep ==
  ASSUME Inv, RemoveLock \/ DeployPrompt \/ UNCHANGED vars
  PROVE  Inv'
<1>1. UNCHANGED <<plan, approval, weekAttempt, weekResult, globalAttempt,
                  cache, proc, sent>>
  BY DEF RemoveLock, DeployPrompt, vars, files
<1>2. lock' \in Procs \union {None} /\ prompt' \in Prompts
  BY DEF RemoveLock, DeployPrompt, vars, Inv, FilesType
<1>3. FilesType'
  BY <1>1, <1>2 DEF Inv, FilesType
<1>4. ApprovalsOK' /\ CallsOK' /\ OwnersDistinct'
  BY <1>1 DEF Inv, ApprovalsOK, CallsOK, OwnersDistinct, KeyOf
<1>5. ProcsOK'
  BY <1>1 DEF Inv, ProcsOK, LocalOK, CheckedOK, DiskOK, KeyOf
<1> QED
  BY <1>1, <1>3, <1>4, <1>5 DEF Inv

-----------------------------------------------------------------------------
(* The theorems.                                                           *)

LEMMA NextKeepsInv == Inv /\ [Next]_vars => Inv'
<1> SUFFICES ASSUME Inv, [Next]_vars PROVE Inv'
  OBVIOUS
<1>1. CASE RemoveLock \/ DeployPrompt \/ UNCHANGED vars
  BY <1>1, OutsideStep
<1>2. ASSUME NEW p \in Procs, Start(p) \/ Fault(p) \/ LockFault(p) \/ Crash(p)
      PROVE  Inv'
  BY <1>2, StartStep, FaultStep, EndSteps
<1>3. ASSUME NEW p \in Procs, Step(p) PROVE Inv'
  <2>1. CASE \/ Acquire(p) \/ ReadPlan(p) \/ WritePlan(p) \/ ResolveAuditor(p)
             \/ TakeCase(p) \/ FinishRun(p) \/ Release(p)
    BY <2>1, AcquireStep, ReadPlanStep, WritePlanStep, ResolveAuditorStep,
       TakeCaseStep, EndSteps
  <2>2. CASE \/ EnsureApproval(p) \/ CheckApproval(p) \/ SaveApproval(p)
             \/ ReadApproval(p)
    BY <2>2, EnsureApprovalStep, CheckApprovalStep, SaveApprovalStep,
       ReadApprovalStep
  <2>3. CASE \/ ReadResult(p) \/ RepairCache(p) \/ ReadMarker(p)
             \/ ReadCache(p) \/ SaveCached(p) \/ ReadAttempt(p)
    BY <2>3, ReadResultStep, RepairCacheStep, ReadMarkerStep, ReadCacheStep,
       SaveCachedStep, ReadAttemptStep
  <2>4. CASE \/ PrepareCall(p) \/ MarkGlobal(p) \/ MarkWeek(p) \/ CallModel(p)
             \/ Answer(p) \/ SaveResult(p) \/ SaveCache(p)
    BY <2>4, PrepareCallStep, MarkGlobalStep, MarkWeekStep, CallModelStep,
       AnswerStep, SaveResultStep, SaveCacheStep
  <2> QED
    BY <1>3, <2>1, <2>2, <2>3, <2>4 DEF Step
<1> QED
  BY <1>1, <1>2, <1>3 DEF Next

LEMMA SpecImpliesInv == Spec => []Inv
BY InitInv, NextKeepsInv, PTL DEF Spec

(* Every variable keeps its type, whatever processes do (audit.ts). *)
THEOREM TypeCorrect == Spec => []TypeOK
BY SpecImpliesInv, InvImpliesTypeOK, PTL

(* A question is put to the external model at most once, with any number of
   processes, weeks and crashes and without relying on the lock: the link(2)
   of the global marker alone decides (runSingleCase). *)
THEOREM CalledOnce == Spec => []AtMostOneCall
<1>1. Inv => AtMostOneCall
  BY InvImpliesCalls DEF AtMostOneCall
<1> QED
  BY <1>1, SpecImpliesInv, PTL

(* What is sent was approved, for that patch, model and prompt (runSingleCase,
   approveCase). *)
THEOREM ApprovedBeforeSent == Spec => []SentWithApproval
<1>1. Inv => SentWithApproval
  BY InvImpliesCalls DEF SentWithApproval
<1> QED
  BY <1>1, SpecImpliesInv, PTL

(* Both markers precede the call (runSingleCase). *)
THEOREM RecordedBeforeSent == Spec => []SentIsRecorded
<1>1. Inv => SentIsRecorded
  BY InvImpliesCalls DEF SentIsRecorded
<1> QED
  BY <1>1, SpecImpliesInv, PTL

(* No model audits its own decision (assertAuditorIndependent). *)
THEOREM IndependentAuditor == Spec => []SentToIndependentModel
<1>1. Inv => SentToIndependentModel
  BY InvImpliesCalls DEF SentToIndependentModel
<1> QED
  BY <1>1, SpecImpliesInv, PTL

(* The opt-in of run --auto-approve reaches only clean patches and Codex
   models (runCaseWithOptIn, approveCase). *)
THEOREM GuardedAutomation == Spec => []AutomaticApprovalIsGuarded
<1>1. Inv => AutomaticApprovalIsGuarded
  BY DEF Inv, ApprovalsOK, AutomaticApprovalIsGuarded
<1> QED
  BY <1>1, SpecImpliesInv, PTL

(* A patch leaves the machine only as somebody approved it, or as the opt-in
   allows (runSingleCase, approveCase). *)
THEOREM CallsApproved == Spec => []CallsAreApproved
<1>1. SentWithApproval /\ AutomaticApprovalIsGuarded => CallsAreApproved
  BY DEF CallsAreApproved
<1> QED
  BY <1>1, ApprovedBeforeSent, GuardedAutomation, PTL

-----------------------------------------------------------------------------
(* The lock.                                                               *)

(* A process that works holds the lock. *)
LockHeld ==
  \A p \in Procs : proc[p].at \notin {"idle", "acquire"} => lock = p

LEMMA OthersUnchanged ==
  ASSUME TypeOK, NEW p \in Procs, NEW q \in Procs \ {p},
         Start(p) \/ Step(p) \/ Fault(p) \/ LockFault(p) \/ Crash(p)
  PROVE  proc'[q] = proc[q]
<1>0. ASSUME NEW P, Become(p, P) PROVE proc'[q] = proc[q]
  BY <1>0 DEF Become, TypeOK
<1>1. ASSUME NEW l, Goto(p, l) PROVE proc'[q] = proc[q]
  BY <1>0, <1>1 DEF Goto
<1>2. NextCase(p) \/ Throw(p) => proc'[q] = proc[q]
  BY <1>0, <1>1 DEF NextCase, Throw
<1>3. CASE Start(p) \/ Fault(p) \/ LockFault(p) \/ Crash(p)
  BY <1>0, <1>1, <1>2, <1>3 DEF Start, Fault, LockFault, Crash
<1>4. CASE \/ Acquire(p) \/ ReadPlan(p) \/ WritePlan(p) \/ ResolveAuditor(p)
           \/ TakeCase(p) \/ FinishRun(p) \/ Release(p)
  BY <1>0, <1>1, <1>4 DEF Acquire, ReadPlan, WritePlan, ResolveAuditor,
     TakeCase, FinishRun, Release
<1>5. CASE \/ EnsureApproval(p) \/ CheckApproval(p) \/ SaveApproval(p)
           \/ ReadApproval(p) \/ ReadResult(p) \/ RepairCache(p)
  BY <1>0, <1>1, <1>2, <1>5 DEF EnsureApproval, CheckApproval, SaveApproval,
     ReadApproval, ReadResult, RepairCache
<1>6. CASE \/ ReadMarker(p) \/ ReadCache(p) \/ SaveCached(p) \/ ReadAttempt(p)
           \/ PrepareCall(p) \/ MarkGlobal(p) \/ MarkWeek(p)
  BY <1>1, <1>2, <1>6 DEF ReadMarker, ReadCache, SaveCached, ReadAttempt,
     PrepareCall, MarkGlobal, MarkWeek
<1>7. CASE CallModel(p) \/ Answer(p) \/ SaveResult(p) \/ SaveCache(p)
  BY <1>0, <1>1, <1>2, <1>7 DEF CallModel, Answer, SaveResult, SaveCache
<1> QED
  BY <1>3, <1>4, <1>5, <1>6, <1>7 DEF Step

(* Between acquire and release a process leaves the lock alone. *)
LEMMA WorkKeepsLock ==
  ASSUME NEW p \in Procs, Step(p), ~Acquire(p), ~Release(p)
  PROVE  lock' = lock /\ proc[p].at \notin {"idle", "acquire"}
<1>1. CASE \/ ReadPlan(p) \/ WritePlan(p) \/ ResolveAuditor(p)
           \/ TakeCase(p) \/ FinishRun(p)
  BY <1>1 DEF At, ReadPlan, WritePlan, ResolveAuditor, TakeCase, FinishRun
<1>2. CASE \/ EnsureApproval(p) \/ CheckApproval(p) \/ SaveApproval(p)
           \/ ReadApproval(p) \/ ReadResult(p) \/ RepairCache(p)
  BY <1>2 DEF At, EnsureApproval, CheckApproval, SaveApproval,
     ReadApproval, ReadResult, RepairCache
<1>3. CASE \/ ReadMarker(p) \/ ReadCache(p) \/ SaveCached(p) \/ ReadAttempt(p)
           \/ PrepareCall(p) \/ MarkGlobal(p) \/ MarkWeek(p)
  BY <1>3 DEF At, ReadMarker, ReadCache, SaveCached, ReadAttempt,
     PrepareCall, MarkGlobal, MarkWeek
<1>4. CASE CallModel(p) \/ Answer(p) \/ SaveResult(p) \/ SaveCache(p)
  BY <1>4 DEF At, CallModel, Answer, SaveResult, SaveCache
<1> QED
  BY <1>1, <1>2, <1>3, <1>4 DEF Step

LEMMA LockStep ==
  ASSUME ~Careless, TypeOK, LockHeld, [Next]_vars
  PROVE  LockHeld'
<1>1. CASE UNCHANGED vars \/ DeployPrompt \/ RemoveLock
  BY <1>1 DEF vars, DeployPrompt, RemoveLock, LockHeld
<1>2. ASSUME NEW p \in Procs, Step(p), ~Acquire(p), ~Release(p)
      PROVE  LockHeld'
  BY <1>2, OthersUnchanged, WorkKeepsLock DEF LockHeld
<1>3. ASSUME NEW p \in Procs, Fault(p) PROVE LockHeld'
  <2>1. lock' = lock /\ proc[p].at \notin {"idle", "acquire"}
    BY <1>3 DEF Fault, At
  <2> QED
    BY <1>3, <2>1, OthersUnchanged DEF LockHeld
<1>4. ASSUME NEW p \in Procs, Start(p) \/ Crash(p) PROVE LockHeld'
  <2>1. lock' = lock
    BY <1>4 DEF Start, Crash
  <2>2. CASE Start(p)
    <3>1. proc'[p].at = "acquire"
      BY <2>2 DEF Start, Become, TypeOK, NoProcess
    <3> QED
      BY <1>4, <2>1, <3>1, OthersUnchanged DEF LockHeld
  <2>3. CASE Crash(p)
    <3>1. proc'[p].at = "idle"
      BY <2>3 DEF Crash, Become, TypeOK, NoProcess
    <3> QED
      BY <1>4, <2>1, <3>1, OthersUnchanged DEF LockHeld
  <2> QED
    BY <1>4, <2>2, <2>3
<1>5. ASSUME NEW p \in Procs, Acquire(p) PROVE LockHeld'
  <2>1. CASE lock = None
    <3>1. lock' = p
      BY <1>5, <2>1 DEF Acquire
    <3>2. \A q \in Procs : proc[q].at \in {"idle", "acquire"}
      BY <2>1, NoneAssumption DEF LockHeld
    <3> QED
      BY <1>5, <3>1, <3>2, OthersUnchanged DEF LockHeld, Step
  <2>2. CASE lock # None
    <3>1. lock' = lock /\ proc'[p].at = "idle"
      BY <1>5, <2>2 DEF Acquire, Become, TypeOK, NoProcess
    <3> QED
      BY <1>5, <3>1, OthersUnchanged DEF LockHeld, Step
  <2> QED
    BY <2>1, <2>2
<1>6. ASSUME NEW p \in Procs, Release(p) \/ LockFault(p) PROVE LockHeld'
  <2>1. \A q \in Procs \ {p} : proc[q].at \in {"idle", "acquire"}
    BY <1>6, NoneAssumption DEF Release, LockFault, At, LockHeld
  <2>2. proc'[p].at = "idle"
    BY <1>6 DEF Release, LockFault, Become, TypeOK, NoProcess
  <2>3. \A q \in Procs \ {p} : proc'[q] = proc[q]
    BY <1>6, OthersUnchanged DEF Step
  <2> QED
    BY <2>1, <2>2, <2>3 DEF LockHeld
<1> QED
  BY <1>1, <1>2, <1>3, <1>4, <1>5, <1>6 DEF Next

(* The documented use of the lock excludes: the file may be removed by hand
   only while nobody works (lock.ts, the recovery of SKILL.md). *)
THEOREM MutualExclusion ==
  ASSUME ~Careless
  PROVE  Spec => []OneAtATime
<1>1. Init => LockHeld
  BY NoProcessOK DEF Init, LockHeld
<1>2. TypeOK /\ LockHeld /\ [Next]_vars => LockHeld'
  BY LockStep
<1>3. LockHeld => OneAtATime
  BY DEF LockHeld, OneAtATime
<1> QED
  BY <1>1, <1>2, <1>3, TypeCorrect, PTL DEF Spec

-----------------------------------------------------------------------------
(* Published records.                                                      *)

LEMMA StepIsImmutable ==
  ASSUME TypeOK, [Next]_vars PROVE Immutable
<1>1. CASE UNCHANGED files
  BY <1>1 DEF files, Immutable
<1>2. ASSUME NEW p \in Procs, Step(p) PROVE Immutable
  <2>1. CASE WritePlan(p)
    BY <2>1 DEF WritePlan, Immutable, TypeOK
  <2>2. CASE SaveApproval(p)
    BY <2>2 DEF SaveApproval, Immutable, TypeOK
  <2>3. CASE SaveCached(p)
    BY <2>3 DEF SaveCached, Immutable, TypeOK
  <2>4. CASE MarkGlobal(p) \/ MarkWeek(p)
    BY <2>4 DEF MarkGlobal, MarkWeek, Immutable
  <2>5. CASE SaveResult(p)
    BY <2>5 DEF SaveResult, Immutable, TypeOK
  <2>6. CASE SaveCache(p)
    BY <2>6 DEF SaveCache, Immutable, TypeOK
  <2>7. CASE \/ Acquire(p) \/ ReadPlan(p) \/ ResolveAuditor(p) \/ TakeCase(p)
             \/ FinishRun(p) \/ EnsureApproval(p) \/ CheckApproval(p)
             \/ ReadApproval(p) \/ ReadResult(p) \/ RepairCache(p)
             \/ ReadMarker(p) \/ ReadCache(p) \/ ReadAttempt(p)
             \/ PrepareCall(p) \/ CallModel(p) \/ Answer(p) \/ Release(p)
    BY <1>1, <2>7 DEF Acquire, ReadPlan, ResolveAuditor, TakeCase, FinishRun,
       EnsureApproval, CheckApproval, ReadApproval, ReadResult, RepairCache,
       ReadMarker, ReadCache, ReadAttempt, PrepareCall, CallModel, Answer,
       Release
  <2> QED
    BY <1>2, <2>1, <2>2, <2>3, <2>4, <2>5, <2>6, <2>7 DEF Step
<1>3. CASE UNCHANGED vars \/ DeployPrompt \/ RemoveLock
  BY <1>1, <1>3 DEF vars, DeployPrompt, RemoveLock
<1>4. ASSUME NEW p \in Procs, Start(p) \/ Fault(p) \/ LockFault(p) \/ Crash(p)
      PROVE  Immutable
  BY <1>1, <1>4 DEF Start, Fault, LockFault, Crash
<1> QED
  BY <1>2, <1>3, <1>4 DEF Next

(* No command, crash or operator changes or removes a record once it is
   published (publishPrivateFileAtomic). *)
THEOREM RecordsAreImmutable == Spec => PublishedIsImmutable
<1>1. TypeOK /\ [Next]_vars => [Immutable]_vars
  BY StepIsImmutable
<1> QED
  BY <1>1, TypeCorrect, PTL DEF Spec, PublishedIsImmutable
=============================================================================
