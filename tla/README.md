# Formal specification of the agent tooling in this repository

The repository is a set of dotfiles around coding agents.  Most of it is
configuration and prose; the programs in it that have state, run concurrently
and can fail are the review and audit scripts under `skills/*/scripts` and the
Pi extensions under `pi/agent/extensions`.  This directory specifies them in
TLA+, checks small instances with TLC and proves theorems about them with TLAPS.

## 1. Inventory

Components in the order of what a defect would cost.  "Hard" names what is
difficult to test; the lines are in `PROJECT.json` under `hazards`.

| Component | State it keeps | Operations | Hard | Correct when |
|---|---|---|---|---|
| **jev-audit** `skills/jev-audit/scripts` | a directory tree: `.audit.lock`, `weeks/W/{plan,approvals,results,report}`, `cache/KEY.json`, `cache/attempts/KEY.json` | `prepare`, `inspect`, `approve`, `run`, `run --auto-approve`, `report` | several processes on one tree, crashes between two files, a lock removed by hand, models and prompts that change between approval and call | a paid question is asked at most once, only when approved, only of an independent model; records never change and agree with one another |
| **parallel-review runner** `run_pi_review.sh`, `review_common.sh`, `pi_review_events.ts` | child process group, watchdog and its marker file, attempt counter, logs | attempt, retry, cancel, cleanup on signal, classify the stream | timeout against a child that just ended, signals between attempts | every attempt is classified once, no child outlives the script |
| **review history** `review_history.ts`, `select_review_level.ts` | immutable metadata, execution records, snapshot files per run | init, record an execution, save, read | several savers, records that advance meanwhile, a crash while publishing | what is published stays readable and coherent, and a further save stays possible |
| **evaluation of review models** `evaluate_models.ts` | none: a report over all run directories | select snapshots, consolidate issues, count | copies of a run, ties, several executions of one model | each run, execution and issue counts once, from the latest snapshot |
| **impl runner** `run_impl.sh`, `run_impl_events.ts`, `impl_stream.ts`, `impl_history.ts` | child, flags and sums of the stream, `metadata.json` | read the stream, finish, set validation, report | retries within a stream, overflow, termination while draining, read-modify-write | exit code, output and stored record tell the same story |
| **auto-fugu, auto-continue** | route and restore model, expected switch, continuation flags, two timers | input, before/after a run, compaction, escalate, manual switch | awaited switches against user switches; two extensions in unknown load order | the user's model comes back; one continuation, after it came back |
| **status lines** `codex-usage.ts`, `openrouter-balance.ts` | refresh id, abort controller, a child process | refresh, cancel, shut down | a slow superseded answer, a child that hangs | the status shown belongs to the last refresh; every query ends |
| **workspace-cd** | pending target, dispatch timer | tool call, dispatch, fork and switch | new target while one is pending | a switch happens once, to the last target |
| **cmux session name** | queue of lookups, last automatic name | startup, first settled run | a rename during a lookup | a name the user chose is kept |
| **repo memory** | `memory.md` and `memory.md.bak` | remember, review | failure or death between backup, truncation and write | no saved note is lost |
| model role resolution, the cmux session feed (generated by cmux), report rendering, first-reader, shell wrappers, editor and shell configuration | files read or rendered once | | sequential | not modelled |

Interactions: `jev-audit` reads the run directories and level decisions that
the review history writes, sends the patch through the parallel-review runner,
and asks `resolve-model.sh` for model ids.  The evaluation reads what the review
history published, of all runs.  The impl history reads and rewrites the record
that the impl runner leaves.  The Pi extensions talk to their host by events; to
each other only auto-fugu and auto-continue do, through `auto-fugu:ready`,
`:ping` and `:model-settled`.

## 2. Modules

| Module | Models |
|---|---|
| `JevAudit` | the audit: processes, lock, plan, approvals, results, cache, attempt markers, prompt deployments |
| `AuditOnce` | the abstract promise: each question is open, reserved, asked, answered or lost, and verdicts repeat the one answer |
| `AuditReport` | the report of a week as a function of the files of `JevAudit` |
| `AuditSampling` | how the cases of a week are selected from the decision history |
| `LevelSelection` | the decision records of a review's level and chunking, and their validation |
| `ModelEvaluation` | which snapshots the evaluation uses and what it counts |
| `ReviewHistory` | one review's run directory, its runners, savers and readers; composes the two before |
| `ReviewEvents` | one Pi and the events helper that reads its stream and prints its last message |
| `ReviewAttempts` | the runner of such pairs: attempts, watchdog, traps; composes `ReviewEvents` with the shells |
| `ImplStream` | what an implementation run makes of Pi's lines: flags, usage, outcome |
| `ImplHistory` | the validation of run records and the report over them |
| `ImplRun` | the helper, Pi, and callers that record a validation; composes the two before |
| `AutoFugu` | the model router of a Pi session: routing, restore, manual choice, awaited switches |
| `AutoContinue` | the continuation after a compaction, composed with `AutoFugu` over their shared events |
| `WorkspaceCd`, `SessionName`, `StatusLine`, `RepoMemory` | one Pi extension each (`StatusLine`: the two status lines) |
| `MC...` | small instances for TLC |
| `...Proofs` | theorems: `JevAuditResultProofs` builds on `JevAuditProofs`, `AutoFuguProofs` is about the router and the continuation, `PiExtensionProofs` about the four small extensions |
| `FiniteSums` | lemmas: induction over sets, and sums over finite sets |

### JevAudit and the code

A process is one invocation of `audit.ts`.  Its record `proc[p]` is the program
counter `at` and the local variables of `cmdRun`, `runSingleCase` and
`approveCase` that live across an `await`.  Each action is the code between
two accesses to shared files, so that another process can act in every
check-then-act window:

| Code | Actions |
|---|---|
| `main`, `acquireGlobalAuditLock`, `release` | `Start`, `Acquire`, `Release` |
| `ensureWeeklyPlan`, `readPlan`, `writePlanImmutable` | `ReadPlan`, `WritePlan` |
| loop of `cmdRun`, `runCaseWithOptIn`, `ensureAutomaticApproval` | `ResolveAuditor`, `TakeCase`, `EnsureApproval`, `FinishRun` |
| `approveCase` | `CheckApproval`, `SaveApproval` |
| `runSingleCase` up to the call | `ReadApproval`, `ReadResult`, `RepairCache`, `ReadMarker`, `ReadCache`, `SaveCached`, `ReadAttempt`, `PrepareCall`, `MarkGlobal`, `MarkWeek`, `CallModel` |
| `runSingleCase` after the call | `Answer`, `SaveResult`, `SaveCache` |
| exceptions, `finally`, process death | `Throw`, `Fault`, `LockFault`, `Crash` |
| the operator | `RemoveLock`, `DeployPrompt`, `Start` |

Files are maps from their path's parameters to a record or `None`; publishing
with link(2) is one step that sees whether the path exists.  A cache key is
⟨patch, model, prompt⟩.  `sent` is a history variable: the runs for which each
question left the machine.  Broken variants of operators (comments starting
"Broken:") stand before the definitions they vary; they document which mistake
each property catches.

Abstractions, each nondeterministic rather than favourable:

* what a check compares (hashes of patches, metadata, paths, JSON shapes) is a
  Boolean chosen when the code consults it; a plan may always be refused, for
  a different runs directory or unreadable state;
* the model resolver may answer anything, or fail, each time it is asked;
* `inspect` changes shared state as `prepare` does and is not a command of its own;
* `report` is lock and unlock: the report is derived from the other files, and
  what it says of them is `AuditReport`;
* sampling may select any runs of the week without two of the same patch: that
  the code selects from these, and always the same, is `AuditSampling`;
* a process that fails before it owns the lock leaves no trace.

### AuditReport, AuditSampling and the code

Both modules are pure operators.  `CaseState(r, text)` is `deriveCaseState` for
the process whose prompt is `text`, which may be one that nobody ever used for an
audit (`None`); `Shown`, `Fresh` and `CacheHits` are the rows that `buildReport`
passes on, puts into the rates and lists apart; `AttemptedCalls` its count of
calls.  A report reads many files one after the other; under the lock none of them
changes meanwhile, so that it is a function of one state.  A report that runs
beside another command, because the lock was removed by hand, is treated as if it
read them all at once, which the code does not guarantee.  Levels,
agreement rates and wording are left out.

`BuildPlan` is `buildPlanFromHistory`: the filters by week and by kind of
decision, `DedupeByPatch`, the random and the risk sample and the account of all
entries.  A history is a sequence, in the order in which directories are read.
The hash of seed and patch is an arbitrary order of the patches (`Ranks`).

### AutoFugu, AutoContinue and the code

`AutoFugu` is `auto-fugu-model.ts`.  Its variables are the closure's variables
(the comments in the module pair the names), `model` is the host's `ctx.model`
and `chosen` a history variable, the model the user picked last.  `thread[t]` is
a place the host calls handlers from: the run's preparation, a settled run, a
tool, a steering prompt, the command, the end of the session.  A thread that
awaits `setModel` remembers what the closure's `expected`, `current` and
`previous` constants do.

| Code | Actions |
|---|---|
| `restoreModelIfNeeded`, `applyRouteTarget` up to the await, `setModel` | `Restore`, `Apply`, `SetModel`, used by the handlers' actions |
| the two after the await, their `catch` and `finally` | `Resume` |
| `input` of an idle session; of a running one | `Input`; `Steer` |
| `before_agent_start`, its two awaits | `Prepare`, `RouteRun` |
| `agent_start`, `tool_execution_start` and `_end`, the escalation tool | `AgentStart`, `ToolEnd`, `Escalate` |
| `session_compact`, `agent_settled` | `Compact`, `Settle`, `EmitSettled` |
| `model_select` | `Select`; part of `SetModel` for the extension's own switch |
| `/auto-fugu` | `SwitchOn`, `SwitchOff` |
| `session_shutdown`, `session_start` | `Shutdown`, `Ended`, `NewSession` |

`AutoContinue` is `auto-continue-after-compact.ts`, in one host with the other:
an event both handle is one joint action (`CompactBoth`, `StartBoth`,
`SettleBoth`, `ShutdownBoth`), except that the host awaits the handlers of
`agent_settled` one after the other, in load order (`routerFirst`, either):
the second one's part is `SettleSecond`.  `RouterSettled` is the event between
them, `FallbackFires` and `TimerFires` are the two timers.  The router is
always loaded (`modelRouterActive` is true by its ready event or its answer to
the ping).

Assumptions about the host and the user, all stated in the modules:

* `setModel` switches or not, then delivers `model_select`, then answers, as the
  fake host of `pi/agent/tests/auto-fugu-model.test.ts` does; it may also
  refuse, or throw before or after it switched;
* the user does not pick exactly the model that is being switched to while the
  switch is awaited: the code cannot tell that pick from its own;
* a run starts after the last `agent_settled` handlers returned, and lasts
  longer than a timer of zero milliseconds that was set before it;
* `Overlaps`, `Escalates` and `Toggles` say whether handlers that switch models
  may overlap, whether the tool is called while a manual choice stands, and
  when `/auto-fugu` is typed.  The passing run has one awaited switch at a time,
  no such call, and the command only while none is awaited; the two runs that
  expect a violation lift one restriction each and show why it is needed.  That the
  command is typed only then is a real restriction of `WayBack` too: after
  `/auto-fugu off` during an awaited switch the session may stay on the model that
  the switch reaches, in the code as in the model, and no run shows it.

### ReviewEvents, ReviewAttempts and the code

`ReviewEvents` is `pi_review_events.ts` and the Pi it spawns.  Pi writes lines
into a bounded pipe: the start of an assistant message, its end (with or without
a text, with or without a successful stop reason), something between, or
garbage; it exits when it likes.  `tracker` is the code's `StreamTracker` as far
as `finalizeStreamOutcome` reads it.  The log is a sequence of records in which
equal neighbours are one.

| Code | Actions |
|---|---|
| `open`, `spawn`, its `error` event | `OpenLog` |
| `handleLine`, `sanitizePiRecord` | `HandleLine`, `Advance` |
| the loop over stdout, its end and its `catch` | `EndOfStream`, `ReadFails` |
| `closeStatus`, `finalizeStreamOutcome`, exit code | `Conclude`, `Complete` |
| `writeAll`, `return 0` | `PrintFinal`, `HelperExits` |

`ReviewAttempts` is the loop of `run_pi_review.sh` and `review_common.sh`.  The
runner's program counter is `at`; the watchdog is a subshell with its own; its
`sleep`, the helper and Pi are further processes.  They share `timerFile` (the
pid file), `marker` (`timed-out`) and signals.

| Code | Actions |
|---|---|
| `main`, the loop | `BeginAttempt`, `RecordExit`, `Exit` |
| `review_run_one_attempt` | `ClearAttempt`, `ForkChild`, `NoteChild`, `ForkWatchdog`, `NoteWatchdog`, `WaitChild`, `TestMarker`, `TimedOut` |
| its subshell | `StartTimer`, `WriteTimerFile`, `WaitTimer`, `CheckGroup`, `MarkAndTerm`, `WatchdogPolls` |
| `review_cancel_watchdog` | `CancelWatchdog`, `ReapWatchdog`, `NothingToCancel` |
| `review_stop_process_group`, `cleanup_all` | `StopGroup`, `PollGroup`, `Stopped` |
| `review_on_signal`, the traps | `Signal` |

`caller` tells for whom the shared functions run, since a signal may interrupt
them anywhere.  `cut` and `final` are history variables.  A process that was
sent SIGTERM may die or go on; after SIGKILL it dies.  Loops that poll for a
bounded time may give up at once.  Assumptions: the events log is used (without
it Pi itself leads the group), the arguments passed their checks, the traps are
installed, process ids are not reused, and a helper dies early only by the
signals of the runner.

### LevelSelection, ModelEvaluation, ReviewHistory and the code

`ReviewHistory` is one run directory.  `metadata` and the execution records are
written by `init` and by the review runners, `snapshots` are the files of
`snapshots/` in the order of their publication; readers see them as a set.

| Code | Actions |
|---|---|
| `init` | `InitRun` |
| the runner's record of an execution begun, written and completed, and its log | `StartExecution`, `RecordStarted`, `CompleteExecution`, `WriteLog` |
| `save`: reads the records and the findings given; the earlier snapshots; writes a temporary file; links it | `ReadRecords`, `ReadPriors`, `WriteTemp`, `Publish` |
| a saver dies | `CrashSave` |
| a run directory is copied; time passes | `CopyDirectory`, `Tick` |
| what the evaluation and `decisions` read | `RunDirs`, `ListedDecisions` |

`history-format.md` asks callers to save one at a time; `overlapped` is a
history variable that tells whether they did, and the parts of the properties
that need it say so.  A file of which a part is written is `Part`.  Snapshots are
written under a temporary name, and the properties say that no reader meets a part
of one.  `metadata.json` and the running record of an execution are written in
place, so a crash, or a failing `jq`, leaves a part of them under their own names
for good: `init` and the runner (`SKILL.md:146`) refuse to write a file that
exists.  Such a file ends every later save, and torn metadata the listing of
decisions too; nothing of it gets into the history (`HistoryIsCoherent`), and
`SavableUnlessTorn` says that, of saves that do not overlap, nothing else but a
changed patch can end the later ones.  The rewrite of a
completed record is a rename.  The clock of the savers is assumed never to step
back; `LatestIsUsed` rests on it, since the evaluation orders snapshots by
`savedAt`.
`LevelSelection` represents a JSON object as a function whose domain is its
fields, so that "exactly these keys" is an equation of domains.  `Built` are the
decisions a selection may have built, from any patch size (`Sized`), answer of the
routing model (`Answers`) and threshold (`Thresholds`): those of today, which are
explicit, and the automatic ones that older versions left in the history.  The
level of a fallback is `FallbackLevel`: the code's parameter for it has no caller
that gives another.

### ImplStream, ImplHistory, ImplRun and the code

`ImplStream` is the state machine of `impl_stream.ts` as operators on a record,
`ImplHistory` the validator and the report of `impl_history.ts`.  `ImplRun` is
the helper process; a step of it ends at an `await`.

| Code | Actions |
|---|---|
| `main` up to the spawn | `Prepare`, `PrepareFails` |
| the loop over lines; a line that cannot be used; the end of one that is too long | `HandleLine`, `BadLineRead`, `NewlineFound` |
| a line that goes on beyond the limit of what is discarded | `Overflow`, `OverflowEnds` |
| the stream fails, the `catch` of `main` | `ReadFails`, `Abort` |
| `finalizeStream`, the last write of `metadata.json`, the output | `FinishRun`, `WriteStdout` |
| the helper is killed | `KillHelper` |
| Pi exits by itself, or by the helper's signal | `PiExits`, `PiTerminated` |
| `set-validation` | `SetRead`, `SetRename`, `SetFails` |

Every write of `metadata.json` is a rename, so no reader sees a part of it.
`PrepareFails` has every way to end before Pi runs, one of which leaves the first
record there as running.  `CaseKey` is what the report groups by: both prompts,
kind and revision of the checkout and its repository.  Pi
may settle again without a new start.  The code then keeps an earlier explicit
`aborted: false` if the later event has no such field, where `history-format.md:50`
of the skill asks the final event for it; `RecordIsTrue` is stated for the code.
`lines`, `asked` and `overlapped` are history variables.

### The four small extensions and the code

| Module | Code | Actions |
|---|---|---|
| `WorkspaceCd` | the tool; `agent_settled`; the timer, which finds the agent idle or busy | `ScheduleSwitch`; `CdSettled`; `Dispatch`, `DispatchBusy` |
| | the two commands, up to their awaits and after them | `CallCd`, `BeginSwitch`, `RefuseSwitch`, `FinishSwitch`, `LeaveSession`, `CdShutdown` |
| `SessionName` | `session_start` and `agent_settled` queue a lookup; the lookup | `OnEvent`; `BeginSync`, `LookUp`, `EndSync` |
| | the user names the session or renames the workspace | `GiveName`, `Retitle` |
| `StatusLine` | the events and commands that refresh or cancel | `RefreshUsage`, `RefreshBalance`, `SelectModel`, `RefuseCommand`, `StatusShutdown` |
| | `lib/codex-usage.ts`: answers, timeout, end of the child | `Initialized`, `RateLimitsRead`, `CreditsRead`, `QueryTimesOut`, `ChildExits`, `ChildCloses`, `QueryEnds` |
| `RepoMemory` | `remember` | `Remember`, `Append`, `Reread` |
| | the review: read, model and user, `.bak`, truncation, write, removal | `BeginReview`, `Curate`, `GiveUp`, `BackUp`, `Truncate`, `Rewrite`, `RemoveBackup` |
| | a session dies | `RestartSession` |

The host takes no prompt while a command is under way and runs one command of a
kind at a time.  A workspace name that the user sets to the extension's own last
name counts as automatic, in the code as in the model.  Two calls that overlap
on `memory.md` may lose notes: the code does not prevent it, and the property
excepts them.  `MCPiExtensions` runs the extensions in one state space, one group
per behaviour (`loaded`), since groups share no state.

## 3. Runs

The audit's instances have two processes.  Two are enough for every pairwise race on a
file; a third only repeats one of them, and processes are interchangeable
(`Symmetry`, used for safety runs only).

| Run | Instance | Shows |
|---|---|---|
| `JevAuditLocked` | one week, two runs (one patch with a preflight finding, one run's routing model unrecorded), two models that are also the possible routing models, two prompts of different version; crashes and faults; lock used as documented | commands exclude each other; a patch goes only to the approved, independent model; automatic approvals are guarded; stored results never fail their identity check.  Once, at constant level: every small history has one sound plan |
| `JevAuditLostLock` | one patch in three runs over two weeks; the lock file may be removed at any time; crashes and faults | one call per question, and none that a report hides; one independent result; plan, results, cache and copies agree |
| `JevAuditRefines` | one patch in two weeks; crashes; lock removable | records and what a report says of them never change; the refinement of `AuditOnce` |
| `JevAuditLive` | two weeks, no crashes, no faults, weak fairness | the lock is released; a reserved question is answered |
| `ReviewAttempts` | two attempts, two messages each, a pipe of one line, one signal outside the gaps, fairness | attempts are classified once and correctly and do not overlap; success means the last message; nothing survives the runner; it ends |
| `ReviewSignalGap` (violation) | the signal may arrive between a fork and the assignment of its process id | finding 3 |
| `ReviewHistory` | two executions, two savers (symmetric) with two saves in all, two readings of the clock, exit codes 0 and 124, another run in the history | the history stays readable, coherent and, unless metadata or a record is torn, open to a further save; the evaluation counts once, from the latest snapshot; decisions are honoured, at every boundary of size and confidence |
| `ImplRun` | ten kinds of line, three of them read, Pi exits with 0 or 1, one caller that sets a validation, the largest finite number 3, fairness | the record is always valid and true, a result is printed only of a recorded run, the report compares two models exactly where both finished the same case; the helper ends |
| `PiExtensions` | auto-fugu with auto-continue: the two models of the router and one other, both load orders; three directories; two titles; three refreshes; two sessions with two notes; fairness | way back, manual choice, one continuation; the last promised directory, always reached; the user's name; the newest status, every query ends; notes survive |
| `AutoFuguOverlap` (violation) | switches may overlap | finding 1 |
| `AutoFuguEscalate` (violation) | the tool may be called while a manual choice stands | finding 2 |
| `RepoMemoryBackup` (violation) | one session, two notes, two reviews | finding 4 |

**Findings.**  (1) An awaited switch is recognised by its target alone and the
model to restore is recorded only after the await.  If a steered prompt and the
escalation tool both await the ultra model and the first is refused, its
`finally` also ends the second one's expectation; the second switch succeeds,
is taken for superseded, and nothing is left to restore (`WayBack`), although
the header promises the restore at the end of the turn.  (2) The escalation
tool does not look at `manualOverrideActive`, so it switches away from a base
model that the user picked by hand (`ManualChoiceStands`), although
`pi/README.md` says a manual selection disables routing.  (3) bash may run a
pending trap between `"${review_attempt_cmd[@]}" &` and `review_child_pid=$!`;
the handler then finds no process id and exits, and the group it started lives
on (`NoSurvivors`), although the runner promises bounded process cleanup.
(4) A review that fails while it rewrites `memory.md` leaves the file truncated
and the notes only in `.bak`; the next review reads the truncated file, writes it
to `.bak` and, if it succeeds, removes that copy too (`FailedReviewKeepsNotes`),
although the description of the review says that the backup is kept if saving
fails.

The bounds of the audit are where the interesting cases begin: the same patch must occur
twice in a week (deduplication) and in two weeks (cached answers), two models
are needed for a resolver that changes its mind, two prompts for a deployment
between approval and run.  Nothing is bounded by a counter: every file is
written once, so the state space is finite.  The histories of the sampling are
all those of four decisions on three patches, one of them reviewed twice, and of
three with every kind of decision, in two weeks, each in every order, with one
case per stratum: the smallest in which a patch is deduplicated, tied, or passed
over by either sample.  In `AutoContinue` the count of failures stops at the threshold, past which it makes no difference, and one
model outside the pair stands for all: the router leaves every one of them
alone.  In `ReviewAttempts` a second attempt is what can overlap with a first, a
second message what can follow a complete one; a pipe of one line already lets
Pi be ahead of the helper, or die with a line unread.  In `ReviewHistory` two
saves are what can conflict, with records that advance between the reads of one,
and two issues let a later save try to move a finding to the other;
two readings of the clock give ties.  Three lines are what `ImplRun` needs: an
answer, what follows it (a retry, a compaction, the end), and what follows that;
the sum of three answers exceeds `MaxFinite`.  Three directories and three
refreshes are a first one, one that replaces it while it is pending, and one
after it.

**Deadlock** is checked in the audit, where an idle process can always start, and
in the review history, which stutters only once nothing is left to do (`Done`).  The review runner and the impl helper really end; that they do not
stop before is `Terminates` and `HelperEnds`.  In `PiExtensions` the bound on
refreshes, a user with nothing left to name or notes to give, ends a behaviour;
that nothing is stuck before is `WorkContinues`, `PromiseIsKept` and `QueriesEnd`.

**Fairness.**  `FairSpec` asks weak fairness of `Step(p)`, one process's next
undisturbed step.  The code has no waiting loop: file operations are local,
the resolver is a short script, and the runner is started with
`AUDITOR_TIMEOUT_SECONDS`, so every await ends.  `Start`, `Crash`, `Fault`,
`RemoveLock` and `DeployPrompt` are never required to happen.  The liveness
run excludes crashes and faults because the code does not promise progress
then: a crash after the global marker burns the question for good (the
abstract status "lost"), by design (at most once, not at least once), and a
lock left behind needs the operator.  `ContinueFairSpec` asks weak fairness of the
answer of `setModel`, of timers and of the handlers of `agent_settled`, and
strong fairness of `SettleBoth`: every run of the agent ends, however often
switches and steering get in between.  No prompt, pick or command is required.
In `ReviewAttempts` the shells go on, the `sleep` of the watchdog ends, and a
process that was sent SIGKILL dies; nothing is asked of Pi or the helper, which
may hang or ignore SIGTERM for ever.  In `ImplRun` the helper goes on and a Pi that
was sent a signal ends; Pi itself may print, hang or exit.  `HelperEnds` excepts
what the code leaves to the operating system: after an overflow it waits for the
close of a pipe that it no longer reads.  In `StatusLine` timers fire, a child
that was sent SIGKILL exits, and a pipe closes after its process; nothing is asked
of answers.  In `WorkspaceCd` runs settle, and the timer finds the agent idle
if it is idle again and again (strong fairness of `Dispatch`).

## 4. Proofs

All theorems hold for every value of the constants that satisfies the named
assumptions of the modules, and for behaviours of any length.

| Module | Theorem | States | Assumes |
|---|---|---|---|
| `JevAuditProofs` | `TypeCorrect` | `TypeOK` | |
| | `CalledOnce` | `AtMostOneCall` | |
| | `CallsApproved`, from `ApprovedBeforeSent` and `GuardedAutomation` | `CallsAreApproved` | |
| | `RecordedBeforeSent` | `SentIsRecorded` | |
| | `IndependentAuditor` | `SentToIndependentModel` | |
| | `MutualExclusion` | `OneAtATime` | `~Careless` |
| | `RecordsAreImmutable` | `PublishedIsImmutable` | |
| `JevAuditResultProofs` | `ResultsAreValid` | `StoredResultsAreValid` | |
| | `PaidForOnce` | `OneIndependentResult` | |
| | `EveryResultIsTraceable` | `ResultsAreTraceable` | |
| | `OldReportsStand` | `ReportsStand` | |
| | `CallsAreReported` | `EveryCallIsReported` | |
| | `ImplementsAuditOnce` | `AsksOnce`: the refinement | |
| | `PlansReproduced` | `PlansAreReproducible` | |
| | `SampledAsPlanned` | `BuildPlan` selects one of the `Selections` of `JevAudit` | |
| `ReviewAttemptsProofs` | `SuccessMeansLastMessage` | `SuccessIsTheLastMessage` | |
| | `NobodySurvives` | `NoSurvivors` | `~Gaps` |
| | `TimeoutMeansInterruption` | `InterruptionIsTimeout` | `~Gaps` |
| | `AttemptsApart` | `AttemptsAreApart` | `~Gaps` |
| `AutoFuguProofs` | `WayBackIsKept` | `WayBack` | `Discipline` |
| | `ChoiceStands` | `ManualChoiceStands` | `Discipline` |
| | `ExpectedIsAwaited` | `ExpectationIsAwaited` | `Discipline` |
| | `RouterIsUndisturbed` | `ContinueSpec => Spec`: with the continuation loaded the router behaves as it does alone | |
| | `ContinuedOnce` | `ContinuesOnce` | |
| `ReviewHistoryProofs` | `Coherent` | `HistoryIsCoherent` | |
| | `RulesNeverLock` | `SavableUnlessTorn` | |
| | `LastJudgementCounts` | `LatestIsUsed` | |
| | `DecisionsFollowed` | `DecisionsHold` | |
| | `ReportAlwaysSound` | `ReportIsSound` | |
| `ImplRunProofs` | `RecordAlwaysReadable` | `MetadataIsValid` | |
| | `RecordAlwaysTrue` | `RecordIsTrue` | |
| | `ResultAlwaysKept` | `ResultIsKept` | |
| | `ReportAlwaysFair` | `ReportIsFair` | |
| `PiExtensionProofs` | `GoesWherePromised` | `DispatchesThePromised` | |
| | `NameOfUserStands` | `ManualNameStands` | |
| | `NewestCounts` | `OnlyTheNewestCounts` | |
| | `NotesSurvive` | `SavedNotesSurvive` | |

The named assumptions say what the inputs of the programs look like, and every run
evaluates them on its instance: what Pi's lines may contain (`LinesAssumption`),
that the runs of a decision history differ in their ids and the ranks of its
patches do not collide (`HistoriesAssumption`),
that records already in a history were accepted by its readers
(`RecordsAssumption`, `FilesAssumption`, `DirsAssumption`: the snapshots of
other runs were, and there are finitely many directories and executions), which answers the routing model may have
given (`SelectionAssumption`), and that `None` is not one of the values it stands
beside (`ConstantsAssumption`, `NoneAssumption`, `ImplAssumption` and their kin).

`~Careless`: nobody removes the lock file under a running process.  `~Gaps`: no
signal falls between a fork and the assignment of its process id (finding 3).
`Discipline`: one switch is awaited at a time, no escalation after a manual
choice (findings 1 and 2), and the command is typed only while no switch is
awaited.

None of these properties is inductive; what has to be added is the argument.

*JevAudit, calls.*  `Inv` adds what each process knows at each label (`LocalOK`:
which locals are set; `CheckedOK`: the model it holds was found independent;
`DiskOK`: what on disk its next step relies on), that no two processes own one
key between the global marker and the call (`OwnersDistinct`), what approvals on
disk imply (`ApprovalsOK`), and that a key in `sent` has its markers and approval
(`CallsOK`).  `AtMostOneCall` follows because the marker is created by one
`link(2)`: its creator is the one owner, a key that was sent has no owner, and an
owner's key was not sent.  The step lemmas are grouped by what an action touches:
steps that only change one process's record (`QuietStep` and its kin) and steps
that publish one file.  `MutualExclusion` uses a second invariant, `LockHeld`: a
process past `acquire` is the one named in the lock file.

*JevAudit, results.*  `ResultInv` says that a process works on planned cases
(`KnownOK`, `PlansOK`), that who holds a question, from its marker to its stored
answer, holds it alone and finds it unanswered (`HoldersOK`), and that the stored
records are valid, single and traceable (`Records`).  Every step is of one of
five kinds (`Kinds`): it leaves questions alone, keeps holding one, marks one,
saves its answer, or copies an answer to another week.  Invariant and refinement
are shown once per kind: marking is the step `Reserve` of `AuditOnce`, the call
and the answer steps of the one who holds, saving and copying the steps that
give a verdict; the rest stutters, or loses a question.  `PaidOK` adds who was
sent a question while its answer is awaited; `CallsAreMarked` counts calls by an
injection into the markers of the week.

*AuditSampling.*  What the loop of `dedupeByPatch` has kept of the entries it read
represents them: of each patch the entry that wins against all others
(`Represents`, `KeepRepresents`).  There is only one such set, `Newest`, so it does not depend
on the order (`DedupeKeepsNewest`, by induction over the positions read).  The rank of
a candidate is the number of those before it; ranks are distinct, hence exactly
the numbers below the number of candidates, and the first places are taken
(`FirstByCount`).  `SampledAsPlanned` joins this to `JevAudit`: the selection is one
that its plans may have.

*ReviewAttempts.*  `ShellInv` says what a process id, a file and a signal mean at
each label: a group without a process id is gone or was killed, a watchdog
without one is done, a signal to the group in the body of an attempt implies the
marker.  `StreamInv` relates tracker, pipe and what was printed; `LogInv` bounds
the records by the attempt under way.

*AutoFugu.*  At most one thread awaits (`OneAwaits`), the expectation is its
(`Expected`), what it remembers is the user's model when `restoreModel` is not
set (`Awaited`), and `restoreModel` never holds anything but the user's model
(`Held`); `EndedInv` covers a session that ends meanwhile.

*AutoContinue.*  `ContinueInv` says that what the extension remembers of an
earlier run is gone before a run ends: a context without a timer still waits for
the router (`Waiting`, `Heard`), without whose answer no run starts (`Calm`), and
a timer or a context in an idle session means a compaction nobody answered
(`Owing`, `Carried`).  `Discipline` is not needed: however switches overlap,
`ContinuesOnce` holds.

*ReviewHistory.*  What a save has read stays true of the records until it
publishes, because records and logs of a completed execution are final
(`Faithful`); a save that no other overlapped compares itself with all snapshots
there are (`Fresh`); so each snapshot follows all those before it (`Chain`).  From
`Chain` follow `HistoryGrows`, that the last snapshot is selected unless it is
tied, and that an acceptable assessment exists as long as the records can be read: the reviews of the last snapshot for
the executions it holds as completed, and a verdict without findings for the rest.  `BuiltIsValid` goes
through every way to build a decision and every check of the validator, field by
field.

*ImplRun.*  `Tallied` says that exactly the metrics with a sum have a count
between one and the number of answers; `StreamIsTrue` relates the flags and sums of
the stream to the lines read, and `Sound` says of every record, in the file and in
the hands of each caller, that readers accept it and that it claims no more than
the lines show.  `InOrder` is what holds as long as nobody validates too early:
the file has the last validation, and who is about to write holds the file with
his own.  The report needs no more than that its records are valid.

*The small extensions.*  `WorkspaceCd`: the timer is set only while a target is
noted, and that is the promised one.  `SessionName`: lookups are chained, so the
automatic name that the second one puts back is still the one it read.
`StatusLine`: the abort controller belongs to the newest query as long as that
waits, hence whatever is superseded was stopped (`WaitsIsNewest`).  `RepoMemory`:
unless calls overlap, a review is alone, and at each of its labels the notes are
in the file or in its copy (`CallsOK`).

Looking for these invariants corrected the model in three places.  `Coverage` and
`FinalizeStream` had CASE arms that overlap: TLC takes the first, as the code does,
but the formula leaves the choice open; they are now ordered.  `HandleSettled` used
nested `@`s, which the prover reads differently from TLC.  And the exactness of the
sums in `RecordIsTrue` was said through a recursive operator; it and the totals of
the two reports are now sums of the community modules (`SumFunction`).

*The sums.*  `SumFunction` adds in the order in which `CHOOSE` picks, which no
prover knows.  `FiniteSums` shows that the order does not matter: induction over
the subsets of a finite set is stated for a set of subsets, so that it needs no
operator as parameter; `Sums` is the set of all partial sums that
some order yields; there is one for each subset (`SumsExist`, `SumsAgree`) and it grows by
the value that is added (`SumAdd`).  `SumOfParts` counts the parts of a disjoint
union: with it the rows of the impl report add up to its records (`RowsAddUp`),
and the executions and findings of the evaluation to those that exist.

*ReviewHistory, report.*  What `ReportIsSound` says holds of any directories whose
snapshots are valid, and `Coherent` says that of the run's own.  Of one run one
snapshot is selected, so its executions are disjoint from those of any other run,
each belongs to the group of its reviewer and model, and `SumOfParts` adds the groups up.

Only model-checked: everything under fairness, which this prover cannot treat
(`LockIsReleased`, `ReservedIsAnswered`, `Terminates`, `HelperEnds`,
`WorkContinues`, `PromiseIsKept`, `QueriesEnd`).  Every other property of a passing
run is stated by a theorem.

## 5. Plan

What could come next, in this order:

1. The comparison of a report with that of the week before, and the agreement
   rates, on top of `AuditReport`.
2. The arguments and the isolated configuration directory of the two runners.

Each module is written to be proved about: constants with named assumptions,
one action per handler, no RECURSIVE operators.

## 6. Not modelled

* Contents of reports, prompts and JSON; HTML; medians and other statistics; the
  agreement rates of the audit and their comparison with the week before; the two
  renames that publish `report.json` and `report.html`, which may disagree after a
  crash and about which nothing is promised.
* File permissions, symlink and output-directory checks; the syntax of ids, paths
  and dates; week arithmetic.
* `run_impl.sh` itself, `run_pi_review.sh` before its loop: arguments and the
  isolated configuration; the framing of bytes into lines; the sanitised events
  log; the commands that resolve a revision; a spawn that fails asynchronously.
* In the extensions: notices, wording, sessions without a user interface, a
  log-in or log-out that raises no event; the forked session file of
  `workspace-cd` and its removal after a refusal; the memory index and
  `recall_memory`.
* The classification of a prompt (`fugu-model-routing.ts`): a pure function whose
  every answer is possible in `AutoFugu`.
* Extensions with one synchronous handler, skills that are prose or vendored
  references, report rendering, first-reader, shell wrappers, editor, shell and
  terminal configuration, installers, and the session feed that cmux generates.
