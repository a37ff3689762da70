------------------------------ MODULE JevAudit ------------------------------
(***************************************************************************)
(* The weekly audit of automatic review-level decisions                    *)
(* (skills/jev-audit/scripts).  Processes are invocations of audit.ts.     *)
(* They share one directory tree: a lock file, and per-week and global     *)
(* records published once with link(2) and never rewritten.  A `run` asks  *)
(* an external model about a patch, which costs money and discloses code:  *)
(* it may happen at most once per (patch, model, prompt), only with an     *)
(* approval, and only to a model other than the one being audited.         *)
(*                                                                         *)
(* Every step between two accesses to shared files is one action, so the   *)
(* check-then-act windows of the code are all open.  What lies outside the *)
(* directory (model resolution, source runs, the disk, the operator) is a  *)
(* nondeterministic choice made when the code consults it.                 *)
(***************************************************************************)
EXTENDS Naturals, Sequences, FiniteSets

CONSTANTS
  Procs,          \* invocations of audit.ts that may be alive at once
  Runs,           \* parallel-review run ids recorded in the history
  Weeks,          \* completed UTC weeks
  Patches,        \* sha256 of reviewed patches
  CleanPatches,   \* patches in which automaticPreflight finds nothing
  Models,         \* model ids the resolver may answer for the auditor role
  Routes,         \* model ids that route.review may name, now or in the past
  CodexModels,    \* those that start with "openai-codex/"
  Prompts,        \* deployed texts of the auditor prompt (promptHash)
  RunWeek,        \* week of a run's createdAt
  RunPatch,       \* patchSha256 of a run's level decision
  JevModel,       \* model that routed a run, None if not recorded
  PromptVersion,  \* AUDITOR_PROMPT_VERSION shipped with a prompt text
  None,           \* no value: a file that does not exist, an unset variable
  Careless,       \* the lock file may be removed while a process runs
  CanCrash,       \* a process may be killed between any two steps
  CanFault        \* a write, or the spawn of the runner, may throw

ASSUME ConstantsAssumption ==
  /\ CleanPatches \subseteq Patches
  /\ CodexModels \subseteq Models
  /\ RunWeek \in [Runs -> Weeks]
  /\ RunPatch \in [Runs -> Patches]
  /\ JevModel \in [Runs -> Routes \union {None}]
  /\ PromptVersion \in [Prompts -> Nat]
  /\ Careless \in BOOLEAN /\ CanCrash \in BOOLEAN /\ CanFault \in BOOLEAN

ASSUME FiniteAssumption == IsFiniteSet(Runs)

ASSUME NoneAssumption ==
  None \notin Procs \union Runs \union Weeks \union Models \union Routes \union Prompts

Outcomes == {"success", "failure"}
Modes == {"manual", "automatic"}
Commands == {"prepare", "approve", "run", "autorun", "report"}
RunCommands == {"run", "autorun"}

(* The cache key of an audit: one external question. *)
Keys == Patches \X Models \X Prompts

Plans == [selected : SUBSET Runs, version : Nat]
Approvals == [model : Models, prompt : Prompts, mode : Modes]
Results == [independent : BOOLEAN, outcome : Outcomes, key : Keys, from : Weeks]
CacheRecords == [run : Runs, outcome : Outcomes]

ASSUME NoneIsNoRecord ==
  None \notin Plans \union Approvals \union Results \union CacheRecords

VARIABLES
  lock,           \* .audit.lock: the process that created it, or None
  plan,           \* weeks/W/plan.json
  approval,       \* weeks/W/approvals/R.json
  weekAttempt,    \* runs with weeks/W/results/R.attempt.json
  weekResult,     \* weeks/W/results/R.json
  globalAttempt,  \* keys with cache/attempts/KEY.json
  cache,          \* cache/KEY.json
  prompt,         \* the prompt text of the installed code
  proc,           \* what each process is doing, and its local variables
  sent            \* history: for each key, the runs whose patch was sent

files == <<plan, approval, weekAttempt, weekResult, globalAttempt, cache>>
vars == <<lock, files, prompt, proc, sent>>

Labels ==
  {"idle", "acquire", "readPlan", "writePlan", "resolve", "next", "ensure",
   "approving", "saveApproval", "readApproval", "readResult", "repair",
   "readMarker", "readCache", "saveCached", "readAttempt", "prepare",
   "markGlobal", "markWeek", "call", "waiting", "saveResult", "saveCache",
   "release"}

Process ==
  [at : Labels, cmd : Commands \union {None}, week : Weeks \union {None},
   prompt : Prompts \union {None}, auditor : Models \union {None},
   todo : SUBSET Runs, run : Runs \union {None}, model : Models \union {None},
   answer : Outcomes \union {None}]

NoProcess ==
  [at |-> "idle", cmd |-> None, week |-> None, prompt |-> None,
   auditor |-> None, todo |-> {}, run |-> None, model |-> None,
   answer |-> None]

TypeOK ==
  /\ lock \in Procs \union {None}
  /\ plan \in [Weeks -> Plans \union {None}]
  /\ approval \in [Runs -> Approvals \union {None}]
  /\ weekAttempt \subseteq Runs
  /\ weekResult \in [Runs -> Results \union {None}]
  /\ globalAttempt \subseteq Keys
  /\ cache \in [Keys -> CacheRecords \union {None}]
  /\ prompt \in Prompts
  /\ proc \in [Procs -> Process]
  /\ sent \in [Keys -> Seq(Runs)]

Init ==
  /\ lock = None
  /\ plan = [w \in Weeks |-> None]
  /\ approval = [r \in Runs |-> None]
  /\ weekAttempt = {}
  /\ weekResult = [r \in Runs |-> None]
  /\ globalAttempt = {}
  /\ cache = [k \in Keys |-> None]
  /\ prompt \in Prompts
  /\ proc = [p \in Procs |-> NoProcess]
  /\ sent = [k \in Keys |-> <<>>]

-----------------------------------------------------------------------------
(* Control flow of one process.                                            *)

At(p, label) == proc[p].at = label

Become(p, local) == proc' = [proc EXCEPT ![p] = local]

Goto(p, label) == Become(p, [proc[p] EXCEPT !.at = label])

(* The cache key of the case in hand. *)
Key(p) == <<RunPatch[proc[p].run], proc[p].model, proc[p].prompt>>

(* The loop of cmdRun records the case's state and takes the next one. *)
NextCase(p) ==
  Become(p, [proc[p] EXCEPT !.at = "next", !.run = None, !.model = None,
                             !.answer = None])

(* Broken: an early exit of a command skips the `finally`. *)
ThrowPastFinally(p) ==
  IF proc[p].cmd \in RunCommands THEN NextCase(p)
  ELSE Become(p, NoProcess)

(* An exception: caught per case inside the loop of cmdRun, otherwise it
   reaches the `finally` that releases the lock. *)
Throw(p) ==
  IF proc[p].cmd \in RunCommands THEN NextCase(p) ELSE Goto(p, "release")

-----------------------------------------------------------------------------
(* Entering and leaving a command.                                         *)

(* The operator or launchd starts audit.ts; the process runs the code, and
   so the prompt, that is installed now. *)
Start(p) ==
  /\ At(p, "idle")
  /\ \E c \in Commands, w \in Weeks, r \in Runs :
       /\ RunWeek[r] = w
       /\ Become(p, [NoProcess EXCEPT !.at = "acquire", !.cmd = c,
                       !.week = w, !.prompt = prompt,
                       !.run = IF c = "approve" THEN r ELSE None])
  /\ UNCHANGED <<lock, files, prompt, sent>>

(* Broken: the lock file is opened with flag "w". *)
AcquireWithoutExcl(p) ==
  /\ At(p, "acquire")
  /\ lock' = p
  /\ Goto(p, IF proc[p].cmd = "report" THEN "release" ELSE "readPlan")
  /\ UNCHANGED <<files, prompt, sent>>

(* O_EXCL creation of the lock file: no waiting, a second command fails. *)
Acquire(p) ==
  /\ At(p, "acquire")
  /\ IF lock = None
     THEN /\ lock' = p
          /\ Goto(p, IF proc[p].cmd = "report" THEN "release" ELSE "readPlan")
     ELSE /\ Become(p, NoProcess)
          /\ UNCHANGED lock
  /\ UNCHANGED <<files, prompt, sent>>

(* release() unlinks the path whoever created the file that is there now. *)
Release(p) ==
  /\ At(p, "release")
  /\ lock' = None
  /\ Become(p, NoProcess)
  /\ UNCHANGED <<files, prompt, sent>>

-----------------------------------------------------------------------------
(* The weekly plan.                                                        *)

(* What dedupeByPatch and the sampling may select from a week's history. *)
Selections(w) ==
  {S \in SUBSET {r \in Runs : RunWeek[r] = w} :
     \A r, s \in S : RunPatch[r] = RunPatch[s] => r = s}

AfterPlan(p) == IF proc[p].cmd = "prepare" THEN "release" ELSE "resolve"

(* approve only reads the plan; the other commands create it when missing
   and refuse one made for another prompt version.  All of them fail on a plan
   of another runs directory or on unreadable state, at any time.  (inspect
   does what prepare does, then stages a patch for the operator to read.) *)
ReadPlan(p) ==
  LET w == proc[p].week IN
  /\ At(p, "readPlan")
  /\ \/ Goto(p, "release")
     \/ IF proc[p].cmd = "approve"
        THEN Goto(p, IF plan[w] # None /\ proc[p].run \in plan[w].selected
                     THEN "approving" ELSE "release")
        ELSE IF plan[w] = None
        THEN \E S \in Selections(w) :
               Become(p, [proc[p] EXCEPT !.at = "writePlan", !.todo = S])
        ELSE /\ plan[w].version = PromptVersion[proc[p].prompt]
             /\ Become(p, [proc[p] EXCEPT !.at = AfterPlan(p),
                                          !.todo = plan[w].selected])
  /\ UNCHANGED <<lock, files, prompt, sent>>

(* publishPrivateFileAtomic with ifExists "fail": link(2) or an exception. *)
WritePlan(p) ==
  LET w == proc[p].week IN
  /\ At(p, "writePlan")
  /\ IF plan[w] = None
     THEN /\ plan' = [plan EXCEPT ![w] =
                       [selected |-> proc[p].todo,
                        version |-> PromptVersion[proc[p].prompt]]]
          /\ Goto(p, AfterPlan(p))
     ELSE UNCHANGED plan /\ Goto(p, "release")
  /\ UNCHANGED <<lock, approval, weekAttempt, weekResult, globalAttempt, cache,
                 prompt, sent>>

(* Broken: an empty answer of the resolver counts as a model. *)
ResolveAuditorOrEmpty(p) ==
  /\ At(p, "resolve")
  /\ \E m \in Models \union {None, ""} :
       Become(p, [proc[p] EXCEPT !.at = "next", !.auditor = m])
  /\ UNCHANGED <<lock, files, prompt, sent>>

(* The auditor role is resolved once per run; failure leaves it unset. *)
ResolveAuditor(p) ==
  /\ At(p, "resolve")
  /\ \E m \in Models \union {None} :
       Become(p, [proc[p] EXCEPT !.at = "next", !.auditor = m])
  /\ UNCHANGED <<lock, files, prompt, sent>>

-----------------------------------------------------------------------------
(* The loop of cmdRun and the opt-in of `run --auto-approve`.              *)

(* The next case of the plan.  With --auto-approve it goes on only when the
   auditor resolved for this run is a Codex model, the patch can be staged
   (staged) and automaticPreflight finds nothing in it. *)
TakeCase(p) ==
  /\ At(p, "next")
  /\ proc[p].todo # {}
  /\ \E r \in proc[p].todo, staged \in BOOLEAN :
       LET rest == proc[p].todo \ {r}
           go(label, run) == Become(p, [proc[p] EXCEPT !.at = label,
                                                   !.run = run, !.todo = rest])
       IN IF proc[p].cmd = "run" THEN go("readApproval", r)
          ELSE IF /\ proc[p].auditor \in CodexModels
                  /\ staged /\ RunPatch[r] \in CleanPatches
          THEN go("ensure", r)
          ELSE go("next", None)
  /\ UNCHANGED <<lock, files, prompt, sent>>

(* The plan is done; the report is written and the lock released. *)
FinishRun(p) ==
  /\ At(p, "next")
  /\ proc[p].todo = {}
  /\ Goto(p, "release")
  /\ UNCHANGED <<lock, files, prompt, sent>>

EnsureApproval(p) ==
  /\ At(p, "ensure")
  /\ Goto(p, IF approval[proc[p].run] = None THEN "approving"
             ELSE "readApproval")
  /\ UNCHANGED <<lock, files, prompt, sent>>

-----------------------------------------------------------------------------
(* approveCase, for the approve command and for --auto-approve.            *)

(* Broken: only the routing role configured today is excluded. *)
IndependentOfRouteOnly(m, r, route) == m # route

(* route is the id of route.review, None when it cannot be resolved. *)
Independent(m, r, route) ==
  LET blocked == {JevModel[r], route} \ {None}
  IN blocked # {} /\ m \notin blocked

(* The staged patch, the run's metadata and its patch are compared with the
   plan (checked), and the auditor role is resolved once more. *)
CheckApproval(p) ==
  /\ At(p, "approving")
  /\ \E m \in Models \union {None}, route \in Routes \union {None},
        checked \in BOOLEAN :
       IF /\ checked /\ m # None
          /\ proc[p].cmd = "autorun" => m \in CodexModels
          /\ Independent(m, proc[p].run, route)
       THEN Become(p, [proc[p] EXCEPT !.at = "saveApproval", !.model = m])
       ELSE Throw(p)
  /\ UNCHANGED <<lock, files, prompt, sent>>

(* Broken: a second approval replaces the first. *)
SaveApprovalReplacing(p) ==
  LET automatic == proc[p].cmd = "autorun" IN
  /\ At(p, "saveApproval")
  /\ approval' = [approval EXCEPT ![proc[p].run] =
       [model |-> proc[p].model, prompt |-> proc[p].prompt,
        mode |-> IF automatic THEN "automatic" ELSE "manual"]]
  /\ Become(p, [proc[p] EXCEPT !.model = None,
                  !.at = IF automatic THEN "readApproval" ELSE "release"])
  /\ UNCHANGED <<lock, plan, weekAttempt, weekResult, globalAttempt, cache,
                 prompt, sent>>

SaveApproval(p) ==
  LET r == proc[p].run IN
  /\ At(p, "saveApproval")
  /\ IF approval[r] = None
     THEN /\ approval' = [approval EXCEPT ![r] =
               [model |-> proc[p].model, prompt |-> proc[p].prompt,
                mode |-> IF proc[p].cmd = "autorun" THEN "automatic"
                         ELSE "manual"]]
          /\ Become(p, [proc[p] EXCEPT
               !.model = None,
               !.at = IF proc[p].cmd = "autorun" THEN "readApproval"
                      ELSE "release"])
     ELSE UNCHANGED approval /\ Throw(p)
  /\ UNCHANGED <<lock, plan, weekAttempt, weekResult, globalAttempt, cache,
                 prompt, sent>>

-----------------------------------------------------------------------------
(* runSingleCase, from the approval to the external call.                  *)

(* Broken: the prompt hash of the approval is not compared. *)
ReadApprovalOfAnyPrompt(p) ==
  LET granted == approval[proc[p].run] IN
  /\ At(p, "readApproval")
  /\ IF granted # None
     THEN Become(p, [proc[p] EXCEPT !.at = "readResult", !.model = granted.model])
     ELSE NextCase(p)
  /\ UNCHANGED <<lock, files, prompt, sent>>

ReadApproval(p) ==
  LET granted == approval[proc[p].run] IN
  /\ At(p, "readApproval")
  /\ IF granted # None /\ granted.prompt = proc[p].prompt
     THEN Become(p, [proc[p] EXCEPT !.at = "readResult", !.model = granted.model])
     ELSE NextCase(p)      \* needs_preflight, held: prompt_changed
  /\ UNCHANGED <<lock, files, prompt, sent>>

(* A stored result ends the case; an independent one may have to be copied
   to the global cache, if an earlier process died in between. *)
ReadResult(p) ==
  LET res == weekResult[proc[p].run] IN
  /\ At(p, "readResult")
  /\ IF res = None THEN Goto(p, "readMarker")
     ELSE IF res.key = Key(p) /\ res.independent
     THEN Become(p, [proc[p] EXCEPT !.at = "repair", !.answer = res.outcome])
     ELSE NextCase(p)      \* cached, or invalid_stored_result
  /\ UNCHANGED <<lock, files, prompt, sent>>

(* reconstructGlobalCacheIfMissing; a conflicting cache changes nothing. *)
RepairCache(p) ==
  /\ At(p, "repair")
  /\ IF cache[Key(p)] = None THEN Goto(p, "saveCache") ELSE NextCase(p)
  /\ UNCHANGED <<lock, files, prompt, sent>>

(* Broken: whatever model is resolved now is used. *)
ReadMarkerWithAnyModel(p) ==
  /\ At(p, "readMarker")
  /\ \E m \in Models :
       IF proc[p].run \notin weekAttempt
       THEN Become(p, [proc[p] EXCEPT !.at = "readCache", !.model = m])
       ELSE NextCase(p)
  /\ UNCHANGED <<lock, files, prompt, sent>>

(* No result but an attempt marker: prior_attempt_incomplete.  Otherwise the
   approved model must be the one resolved now: at the start of the run, or
   here if that failed. *)
ReadMarker(p) ==
  /\ At(p, "readMarker")
  /\ \E m \in IF proc[p].auditor # None THEN {proc[p].auditor}
              ELSE Models \union {None} :
       IF proc[p].run \notin weekAttempt /\ m = proc[p].model
       THEN Goto(p, "readCache")
       ELSE NextCase(p)
  /\ UNCHANGED <<lock, files, prompt, sent>>

ReadCache(p) ==
  /\ At(p, "readCache")
  /\ Goto(p, IF cache[Key(p)] # None THEN "saveCached" ELSE "readAttempt")
  /\ UNCHANGED <<lock, files, prompt, sent>>

(* Broken: the record is spread from the cache without clearing its flag. *)
SaveCachedAsIndependent(p) ==
  LET r == proc[p].run
      found == cache[Key(p)]
  IN
  /\ At(p, "saveCached")
  /\ weekResult' = [weekResult EXCEPT ![r] =
       [independent |-> TRUE, outcome |-> found.outcome, key |-> Key(p),
        from |-> RunWeek[found.run]]]
  /\ NextCase(p)
  /\ UNCHANGED <<lock, plan, approval, weekAttempt, globalAttempt, cache,
                 prompt, sent>>

(* The week's copy of an answer that another week paid for. *)
SaveCached(p) ==
  LET r == proc[p].run
      found == cache[Key(p)]
  IN
  /\ At(p, "saveCached")
  /\ IF weekResult[r] = None
     THEN weekResult' = [weekResult EXCEPT ![r] =
            [independent |-> FALSE, outcome |-> found.outcome, key |-> Key(p),
             from |-> RunWeek[found.run]]]
     ELSE UNCHANGED weekResult
  /\ NextCase(p)
  /\ UNCHANGED <<lock, plan, approval, weekAttempt, globalAttempt, cache,
                 prompt, sent>>

(* A key once reserved is never asked again, answered or not. *)
ReadAttempt(p) ==
  /\ At(p, "readAttempt")
  /\ IF Key(p) \in globalAttempt THEN NextCase(p) ELSE Goto(p, "prepare")
  /\ UNCHANGED <<lock, files, prompt, sent>>

(* The source run is found, its metadata and patch still match (checked),
   independence is verified again, and a private directory is prepared. *)
PrepareCall(p) ==
  /\ At(p, "prepare")
  /\ \E route \in Routes \union {None}, checked \in BOOLEAN :
       IF checked /\ Independent(proc[p].model, proc[p].run, route)
       THEN Goto(p, "markGlobal")
       ELSE NextCase(p)
  /\ UNCHANGED <<lock, files, prompt, sent>>

(* Broken: "exists" is taken for "created". *)
MarkGlobalWhenMarked(p) ==
  /\ At(p, "markGlobal")
  /\ globalAttempt' = globalAttempt \union {Key(p)} /\ Goto(p, "markWeek")
  /\ UNCHANGED <<lock, plan, approval, weekAttempt, weekResult, cache, prompt,
                 sent>>

(* publishPrivateFileAtomic with ifExists "ignore": one link(2) wins. *)
MarkGlobal(p) ==
  /\ At(p, "markGlobal")
  /\ IF Key(p) \in globalAttempt
     THEN UNCHANGED globalAttempt /\ NextCase(p)
     ELSE globalAttempt' = globalAttempt \union {Key(p)} /\ Goto(p, "markWeek")
  /\ UNCHANGED <<lock, plan, approval, weekAttempt, weekResult, cache, prompt,
                 sent>>

MarkWeek(p) ==
  LET r == proc[p].run IN
  /\ At(p, "markWeek")
  /\ IF r \in weekAttempt
     THEN UNCHANGED weekAttempt /\ NextCase(p)
     ELSE weekAttempt' = weekAttempt \union {r} /\ Goto(p, "call")
  /\ UNCHANGED <<lock, plan, approval, weekResult, globalAttempt, cache, prompt,
                 sent>>

(* The runner is spawned: the patch leaves the machine. *)
CallModel(p) ==
  /\ At(p, "call")
  /\ sent' = [sent EXCEPT ![Key(p)] = Append(@, proc[p].run)]
  /\ Goto(p, "waiting")
  /\ UNCHANGED <<lock, files, prompt>>

-----------------------------------------------------------------------------
(* The answer and its two records.                                         *)

(* Broken: the global record is written before the week's. *)
AnswerToCacheFirst(p) ==
  /\ At(p, "waiting")
  /\ \E o \in Outcomes :
       Become(p, [proc[p] EXCEPT !.at = "saveCache", !.answer = o])
  /\ UNCHANGED <<lock, files, prompt, sent>>

(* Broken: a failed call leaves no record. *)
AnswerOnlySuccess(p) ==
  /\ At(p, "waiting")
  /\ \/ Become(p, [proc[p] EXCEPT !.at = "saveResult", !.answer = "success"])
     \/ NextCase(p)
  /\ UNCHANGED <<lock, files, prompt, sent>>

(* success: parsable JSON.  failure: runner_failed (an error, the runner's
   timeout) or invalid_auditor_json. *)
Answer(p) ==
  /\ At(p, "waiting")
  /\ \E o \in Outcomes :
       Become(p, [proc[p] EXCEPT !.at = "saveResult", !.answer = o])
  /\ UNCHANGED <<lock, files, prompt, sent>>

SaveResult(p) ==
  LET r == proc[p].run IN
  /\ At(p, "saveResult")
  /\ IF weekResult[r] = None
     THEN /\ weekResult' = [weekResult EXCEPT ![r] =
               [independent |-> TRUE, outcome |-> proc[p].answer,
                key |-> Key(p), from |-> RunWeek[r]]]
          /\ Goto(p, "saveCache")
     ELSE UNCHANGED weekResult /\ NextCase(p)
  /\ UNCHANGED <<lock, plan, approval, weekAttempt, globalAttempt, cache,
                 prompt, sent>>

(* Also the write of the repair: the record is the run's own result. *)
SaveCache(p) ==
  /\ At(p, "saveCache")
  /\ cache' = [cache EXCEPT ![Key(p)] =
       IF @ = None THEN [run |-> proc[p].run, outcome |-> proc[p].answer]
       ELSE @]
  /\ NextCase(p)
  /\ UNCHANGED <<lock, plan, approval, weekAttempt, weekResult, globalAttempt,
                 prompt, sent>>

-----------------------------------------------------------------------------
(* Failures and the operator.                                              *)

(* A write or the spawn of the runner throws and leaves no file behind. *)
Fault(p) ==
  /\ CanFault
  /\ \/ At(p, "writePlan") /\ Goto(p, "release")
     \/ /\ proc[p].at \in {"saveApproval", "saveCached", "markGlobal",
                           "markWeek", "call", "saveResult", "saveCache"}
        /\ Throw(p)
  /\ UNCHANGED <<lock, files, prompt, sent>>

(* The lock file is created but its payload cannot be written, or it cannot
   be unlinked (release ignores that): it stays, and its creator exits. *)
LockFault(p) ==
  /\ CanFault
  /\ \/ At(p, "acquire") /\ lock = None /\ lock' = p
     \/ At(p, "release") /\ UNCHANGED lock
  /\ Become(p, NoProcess)
  /\ UNCHANGED <<files, prompt, sent>>

Crash(p) ==
  /\ CanCrash
  /\ ~At(p, "idle")
  /\ Become(p, NoProcess)
  /\ UNCHANGED <<lock, files, prompt, sent>>

(* The documented recovery: remove the lock file by hand, after verifying
   that no process is at work.  A careless operator does not verify. *)
RemoveLock ==
  /\ lock # None
  /\ Careless \/ \A p \in Procs : proc[p].at \in {"idle", "acquire"}
  /\ lock' = None
  /\ UNCHANGED <<files, prompt, proc, sent>>

(* Another version of the code is installed. *)
DeployPrompt ==
  /\ prompt' \in Prompts \ {prompt}
  /\ UNCHANGED <<lock, files, proc, sent>>

-----------------------------------------------------------------------------

(* What a live process does next without being disturbed. *)
Step(p) ==
  \/ Acquire(p) \/ ReadPlan(p) \/ WritePlan(p) \/ ResolveAuditor(p)
  \/ TakeCase(p) \/ FinishRun(p) \/ EnsureApproval(p)
  \/ CheckApproval(p) \/ SaveApproval(p) \/ ReadApproval(p)
  \/ ReadResult(p) \/ RepairCache(p) \/ ReadMarker(p) \/ ReadCache(p)
  \/ SaveCached(p) \/ ReadAttempt(p) \/ PrepareCall(p) \/ MarkGlobal(p)
  \/ MarkWeek(p) \/ CallModel(p) \/ Answer(p) \/ SaveResult(p)
  \/ SaveCache(p) \/ Release(p)

Next ==
  \/ \E p \in Procs : Start(p) \/ Step(p) \/ Fault(p) \/ LockFault(p) \/ Crash(p)
  \/ RemoveLock
  \/ DeployPrompt

Spec == Init /\ [][Next]_vars

(* Every await of a live process ends: files are local, the resolver is a
   script, and the runner stops the model after AUDITOR_TIMEOUT_SECONDS. *)
FairSpec == Spec /\ \A p \in Procs : WF_vars(Step(p))

-----------------------------------------------------------------------------
(* What the audit promises.                                                *)

ApprovedKey(r) == <<RunPatch[r], approval[r].model, approval[r].prompt>>

(* Documented use of the lock: between taking and releasing it a process is
   alone, also after crashes and manual recovery (lock.ts, SKILL.md). *)
OneAtATime ==
  \A p, q \in Procs :
    /\ proc[p].at \notin {"idle", "acquire"}
    /\ proc[q].at \notin {"idle", "acquire"}
    => p = q

(* A question is put to the external model at most once, in whatever week and
   for whatever run it comes up, with or without the lock (runSingleCase). *)
AtMostOneCall == \A k \in Keys : Len(sent[k]) <= 1

(* Part of CallsAreApproved: a patch is sent only under an approval of that
   very patch, model and prompt, whatever was installed or resolved meanwhile
   (runSingleCase). *)
SentWithApproval ==
  \A k \in Keys : \A i \in 1 .. Len(sent[k]) :
    approval[sent[k][i]] # None /\ k = ApprovedKey(sent[k][i])

(* Part of EveryCallIsReported, of AuditReport: both attempt markers are on
   disk before a patch is sent, so that no crash can hide a call from later
   runs and from the report (runSingleCase). *)
SentIsRecorded ==
  \A k \in Keys : \A i \in 1 .. Len(sent[k]) :
    k \in globalAttempt /\ sent[k][i] \in weekAttempt

(* The auditor is never the model whose decision it audits, although the
   model is resolved at three different moments (assertAuditorIndependent). *)
SentToIndependentModel ==
  \A k \in Keys : \A i \in 1 .. Len(sent[k]) : k[2] # JevModel[sent[k][i]]

(* Part of CallsAreApproved: an approval nobody gave by hand is only ever for
   a clean patch and a Codex model, although the role is resolved again after
   the run's own check (runCaseWithOptIn, approveCase). *)
AutomaticApprovalIsGuarded ==
  \A r \in Runs :
    approval[r] # None /\ approval[r].mode = "automatic" =>
      approval[r].model \in CodexModels /\ RunPatch[r] \in CleanPatches

(* Whatever is resolved or installed meanwhile, a patch leaves the machine only
   as somebody approved it, or as the opt-in allows (runSingleCase,
   approveCase). *)
CallsAreApproved == SentWithApproval /\ AutomaticApprovalIsGuarded

(* Part of ResultsAreTraceable: approvals and results exist only for runs of
   the week's one plan (ensureWeeklyPlan, writePlanImmutable). *)
EveryCaseIsPlanned ==
  \A r \in Runs :
    approval[r] # None \/ r \in weekAttempt \/ weekResult[r] # None =>
      plan[RunWeek[r]] # None /\ r \in plan[RunWeek[r]].selected

(* A stored result always passes the identity check against the approval:
   no run ends as invalid_stored_result (runSingleCase). *)
StoredResultsAreValid ==
  \A r \in Runs : weekResult[r] # None =>
    approval[r] # None /\ weekResult[r].key = ApprovedKey(r)

(* At most one run holds the paid answer to a question; the others hold copies
   (the `cached` records of runSingleCase). *)
OneIndependentResult ==
  \A r, s \in Runs :
    /\ weekResult[r] # None /\ weekResult[s] # None
    /\ weekResult[r].independent /\ weekResult[s].independent
    /\ weekResult[r].key = weekResult[s].key
    => r = s

(* Part of ResultsAreTraceable: a cache record copies an independent result
   that is on disk, so that a repair can never meet a conflict
   (reconstructGlobalCacheIfMissing). *)
CacheAgreesWithOrigin ==
  \A k \in Keys : cache[k] # None =>
    LET res == weekResult[cache[k].run] IN
    res # None /\ res.independent /\ res.key = k /\ res.outcome = cache[k].outcome

(* Part of ResultsAreTraceable: a cached result names another week, and that
   week holds the answer it copies (the cachedFromWeek of runSingleCase). *)
CachedFromAnotherWeek ==
  \A r \in Runs : weekResult[r] # None /\ ~weekResult[r].independent =>
    /\ weekResult[r].from # RunWeek[r]
    /\ \E s \in Runs :
         /\ RunWeek[s] = weekResult[r].from
         /\ weekResult[s] # None /\ weekResult[s].independent
         /\ weekResult[s].key = weekResult[r].key
         /\ weekResult[s].outcome = weekResult[r].outcome

(* Every result leads back to one plan and one paid answer, also when two
   processes plan one week, a process dies between result and cache, or the
   answer is reused in another week (runSingleCase). *)
ResultsAreTraceable ==
  EveryCaseIsPlanned /\ CacheAgreesWithOrigin /\ CachedFromAnotherWeek

Immutable ==
  /\ \A w \in Weeks : plan[w] # None => plan'[w] = plan[w]
  /\ \A r \in Runs : approval[r] # None => approval'[r] = approval[r]
  /\ \A r \in Runs : weekResult[r] # None => weekResult'[r] = weekResult[r]
  /\ \A k \in Keys : cache[k] # None => cache'[k] = cache[k]
  /\ weekAttempt \subseteq weekAttempt'
  /\ globalAttempt \subseteq globalAttempt'

(* No step rewrites or removes a published record (publishPrivateFileAtomic). *)
PublishedIsImmutable == [][Immutable]_vars

(* Without crashes and faults a command always gives the lock back, on every
   early return and exception (the `finally` blocks of audit.ts). *)
LockIsReleased == (lock # None) ~> (lock = None)

(* Without crashes and faults a reserved question gets its recorded answer,
   a failure included: only those two can burn a key (runSingleCase). *)
ReservedIsAnswered ==
  \A k \in Keys : (k \in globalAttempt) ~>
    (\E r \in Runs : /\ weekResult[r] # None
                     /\ weekResult[r].independent /\ weekResult[r].key = k)

-----------------------------------------------------------------------------
(* Refinement of AuditOnce.                                                *)

(* Some process holds question k at one of the labels. *)
HeldAt(k, labels) == \E p \in Procs : proc[p].at \in labels /\ Key(p) = k

Answers(k) ==
  {r \in Runs : /\ weekResult[r] # None
                /\ weekResult[r].independent /\ weekResult[r].key = k}

statusOf ==
  [k \in Keys |->
    IF Answers(k) # {} THEN weekResult[CHOOSE r \in Answers(k) : TRUE].outcome
    ELSE IF k \notin globalAttempt THEN "open"
    ELSE IF HeldAt(k, {"markWeek", "call"}) THEN "reserved"
    ELSE IF HeldAt(k, {"waiting", "saveResult"}) THEN "asked"
    ELSE "lost"]

verdictOf ==
  [r \in Runs |-> IF weekResult[r] = None THEN None ELSE weekResult[r].outcome]

Once == INSTANCE AuditOnce WITH status <- statusOf, verdict <- verdictOf

(* Locks, markers, caches and recovery together implement "ask once, report
   one answer": every step is a step of AuditOnce or changes nothing there. *)
AsksOnce == Once!Spec
=============================================================================
