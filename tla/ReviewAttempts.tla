--------------------------- MODULE ReviewAttempts ---------------------------
(***************************************************************************)
(* The runner of one review (skills/parallel-review/scripts:               *)
(* run_pi_review.sh with --events-log, and review_common.sh): attempts,    *)
(* a watchdog for each, and traps that stop everything.  The runner, the   *)
(* watchdog's subshell, its timer and the process group of ReviewEvents    *)
(* are processes of their own; they share two files and signals.           *)
(***************************************************************************)
EXTENDS ReviewEvents

CONSTANTS
  MaxSignals,  \* bound: signals sent to the runner
  Gaps         \* whether one may arrive between a fork and the assignment
               \* of its process id

ASSUME SignalsAssumption == MaxSignals \in Nat /\ Gaps \in BOOLEAN

VARIABLES
  at,           \* where the runner is
  caller,       \* for whom it cancels and stops: the attempt or a trap
  trapped,      \* the EXIT trap has begun
  status,       \* of the last attempt
  result,       \* with which the runner exits
  signals,      \* sent so far
  childPid,     \* review_child_pid is set
  watchdogPid,  \* review_watchdog_pid is set
  watchdog,     \* where the subshell is
  timer,        \* its `sleep`
  timerFile,    \* watchdog-timer.pid has been written
  marker,       \* timed-out exists
  termed,       \* the group was sent SIGTERM
  killed,       \* the group was sent SIGKILL
  cut           \* history: the watchdog's SIGTERM met a running helper

runner == <<at, caller, trapped, status, result, childPid, watchdogPid>>
guard == <<watchdog, timer>>
files == <<timerFile, marker>>
sent == <<termed, killed, cut>>
vars == <<attempt, log, helperVars, runner, signals, guard, files, sent>>

Labels ==
  {"begin", "clear", "fork", "forked", "spawn", "spawned", "wait", "test",
   "late", "look", "reap", "stop", "stopping", "stopped", "record", "exited"}

WatchdogLabels ==
  {"none", "starting", "sleeping", "armed", "check", "mark", "stop", "stopping",
   "done"}

TypeOK ==
  /\ HelperTypeOK
  /\ at \in Labels
  /\ caller \in {"attempt", "signal", "exit"}
  /\ trapped \in BOOLEAN
  /\ status \in {"none", "ok", "failed", "timeout"}
  /\ result \in {"none", "ok", "failed", "timeout", "signal"}
  /\ signals \in 0 .. MaxSignals
  /\ childPid \in BOOLEAN /\ watchdogPid \in BOOLEAN
  /\ watchdog \in WatchdogLabels
  /\ timer \in {"none", "running", "fired", "killed"}
  /\ timerFile \in BOOLEAN /\ marker \in BOOLEAN
  /\ termed \in BOOLEAN /\ killed \in BOOLEAN /\ cut \in BOOLEAN

Init ==
  /\ attempt = 1 /\ log = <<>> /\ HelperInit
  /\ at = "begin" /\ caller = "attempt" /\ trapped = FALSE
  /\ status = "none" /\ result = "none" /\ signals = 0
  /\ childPid = FALSE /\ watchdogPid = FALSE
  /\ watchdog = "none" /\ timer = "none"
  /\ timerFile = FALSE /\ marker = FALSE
  /\ termed = FALSE /\ killed = FALSE /\ cut = FALSE

-----------------------------------------------------------------------------
(* The process group.                                                      *)

Running == leader \in Working \/ pi = "running"

(* A helper the runner has not waited for is still there for kill -0. *)
Zombie == leader \in Over /\ at = "wait"

(* review_process_group_exists *)
GroupExists == Running \/ Zombie
GroupGone == ~Running

(* kill -TERM; a process may ignore it for as long as it likes. *)
Terminate(byWatchdog) ==
  /\ termed' = TRUE
  /\ cut' = (cut \/ (byWatchdog /\ leader \in Working))
  /\ UNCHANGED killed

Kill == killed' = TRUE /\ UNCHANGED <<termed, cut>>

LeaderDies ==
  /\ termed \/ killed
  /\ leader \in Working
  /\ leader' = "killed"
  /\ out' \in {out} \union (IF leader = "printing" THEN {Part} ELSE {})
  /\ UNCHANGED <<attempt, log, pi, said, pipe, tracker, streamError, final,
                 runner, signals, guard, files, sent>>

PiDies ==
  /\ termed \/ killed
  /\ pi = "running"
  /\ pi' = "failed"
  /\ UNCHANGED <<attempt, log, leader, said, pipe, tracker, streamError, out, final,
                 runner, signals, guard, files, sent>>

GroupRuns ==
  /\ Pi \/ Helper
  /\ UNCHANGED <<runner, signals, guard, files, sent>>

-----------------------------------------------------------------------------
(* The runner.                                                             *)

Go(label) == at' = label /\ UNCHANGED <<caller, trapped, result>>

(* `exit`: the EXIT trap runs, unless it has begun already. *)
Exit(code) ==
  /\ result' = code
  /\ IF trapped THEN at' = "exited" /\ UNCHANGED <<caller, trapped>>
     ELSE at' = "look" /\ caller' = "exit" /\ trapped' = TRUE

(* append_attempt_start_record, whose `die` exits. *)
BeginAttempt ==
  /\ at = "begin"
  /\ \/ /\ log' = Logged([kind |-> "attempt_start", attempt |-> attempt])
        /\ Go("clear")
     \/ UNCHANGED log /\ Exit("failed")
  /\ UNCHANGED <<attempt, helperVars, status, childPid, watchdogPid, signals,
                 guard, files, sent>>

ClearAttempt ==
  /\ at = "clear"
  /\ Go("fork")
  /\ childPid' = FALSE /\ watchdogPid' = FALSE
  /\ timerFile' = FALSE /\ marker' = FALSE
  /\ UNCHANGED <<attempt, log, helperVars, status, signals, guard, sent>>

ForkChild ==
  /\ at = "fork"
  /\ Go("forked")
  /\ Launch
  /\ termed' = FALSE /\ killed' = FALSE /\ cut' = FALSE
  /\ UNCHANGED <<attempt, log, status, childPid, watchdogPid, signals, guard, files>>

NoteChild ==
  /\ at = "forked"
  /\ Go("spawn") /\ childPid' = TRUE
  /\ UNCHANGED <<attempt, log, helperVars, status, watchdogPid, signals, guard,
                 files, sent>>

ForkWatchdog ==
  /\ at = "spawn"
  /\ Go("spawned")
  /\ watchdog' = "starting" /\ timer' = "none"
  /\ UNCHANGED <<attempt, log, helperVars, status, childPid, watchdogPid, signals,
                 files, sent>>

NoteWatchdog ==
  /\ at = "spawned"
  /\ Go("wait") /\ watchdogPid' = TRUE
  /\ UNCHANGED <<attempt, log, helperVars, status, childPid, signals, guard,
                 files, sent>>

WaitChild ==
  /\ at = "wait" /\ leader \in Over
  /\ Go("test")
  /\ status' = IF leader = "ok" THEN "ok" ELSE "failed"
  /\ UNCHANGED <<attempt, log, helperVars, childPid, watchdogPid, signals, guard,
                 files, sent>>

(* Is there a marker? *)
TestMarker ==
  /\ at = "test"
  /\ IF marker THEN Go("late")
     ELSE /\ at' = "look" /\ caller' = "attempt"
          /\ UNCHANGED <<trapped, result>>
  /\ UNCHANGED <<attempt, log, helperVars, status, childPid, watchdogPid, signals,
                 guard, files, sent>>

(* The watchdog ended the attempt: return 124 once it is done. *)
TimedOut ==
  /\ at = "late" /\ watchdog = "done"
  /\ Go("record")
  /\ watchdogPid' = FALSE /\ childPid' = FALSE
  /\ marker' = FALSE /\ status' = "timeout"
  /\ UNCHANGED <<attempt, log, helperVars, signals, guard, timerFile, sent>>

(* append_attempt_exit_record, then the end of the loop's body. *)
RecordExit ==
  /\ at = "record"
  /\ \/ UNCHANGED <<log, attempt>> /\ Exit("failed")
     \/ /\ log' = Logged([kind |-> "attempt_exit", attempt |-> attempt,
                          exitCode |-> status])
        /\ IF status = "ok" \/ attempt = Attempts
           THEN Exit(status) /\ UNCHANGED attempt
           ELSE attempt' = attempt + 1 /\ Go("begin")
  /\ UNCHANGED <<helperVars, status, childPid, watchdogPid, signals, guard, files, sent>>

-----------------------------------------------------------------------------
(* review_cancel_watchdog and review_stop_process_group.                   *)

(* Broken: the process id is forgotten before the group is stopped. *)
AfterCancelForgetting ==
  /\ childPid' = FALSE
  /\ IF caller = "attempt" THEN Go("record") ELSE Go("stop")

AfterCancel ==
  IF caller = "attempt"
  THEN Go("record") /\ childPid' = FALSE
  ELSE Go("stop") /\ UNCHANGED childPid

AfterStop ==
  IF caller = "signal" THEN Exit(result)
  ELSE Go("exited")

(* With the timer's file the timer is killed; without it, after the subshell
   ended or 0.2 seconds, the subshell. *)
CancelWatchdog ==
  /\ at = "look" /\ watchdogPid
  /\ IF timerFile
     THEN /\ timer' = IF timer = "running" THEN "killed" ELSE timer
          /\ UNCHANGED watchdog
     ELSE watchdog' = "done" /\ UNCHANGED timer
  /\ Go("reap")
  /\ UNCHANGED <<attempt, log, helperVars, status, childPid, watchdogPid, signals,
                 files, sent>>

NothingToCancel ==
  /\ at = "look" /\ ~watchdogPid
  /\ timerFile' = FALSE /\ marker' = FALSE
  /\ AfterCancel
  /\ UNCHANGED <<attempt, log, helperVars, status, watchdogPid, signals, guard, sent>>

(* Broken: the watchdog is not waited for. *)
ReapWatchdogAtOnce ==
  /\ at = "reap"
  /\ watchdogPid' = FALSE
  /\ timerFile' = FALSE /\ marker' = FALSE
  /\ AfterCancel
  /\ UNCHANGED <<attempt, log, helperVars, status, signals, guard, sent>>

ReapWatchdog ==
  /\ at = "reap" /\ watchdog = "done"
  /\ watchdogPid' = FALSE
  /\ timerFile' = FALSE /\ marker' = FALSE
  /\ AfterCancel
  /\ UNCHANGED <<attempt, log, helperVars, status, signals, guard, sent>>

StopGroup ==
  /\ at = "stop"
  /\ IF childPid THEN Go("stopping") /\ Terminate(FALSE)
     ELSE AfterStop /\ UNCHANGED sent
  /\ UNCHANGED <<attempt, log, helperVars, status, childPid, watchdogPid, signals,
                 guard, files>>

(* Two seconds, then SIGKILL. *)
PollGroup ==
  /\ at = "stopping"
  /\ IF GroupGone THEN UNCHANGED sent ELSE Kill
  /\ Go("stopped")
  /\ UNCHANGED <<attempt, log, helperVars, status, childPid, watchdogPid, signals,
                 guard, files>>

Stopped ==
  /\ at = "stopped" /\ leader \in Over
  /\ childPid' = FALSE
  /\ AfterStop
  /\ UNCHANGED <<attempt, log, helperVars, status, watchdogPid, signals, guard,
                 files, sent>>

(* review_on_signal, between two commands of the runner or in a `wait`. *)
Signal ==
  /\ at # "exited" /\ signals < MaxSignals
  /\ Gaps \/ at \notin {"forked", "spawned"}
  /\ signals' = signals + 1
  /\ at' = "look" /\ caller' = "signal" /\ result' = "signal"
  /\ UNCHANGED <<attempt, log, helperVars, trapped, status, childPid, watchdogPid,
                 guard, files, sent>>

Runner ==
  \/ BeginAttempt \/ ClearAttempt \/ ForkChild \/ NoteChild \/ ForkWatchdog
  \/ NoteWatchdog \/ WaitChild \/ TestMarker \/ TimedOut \/ RecordExit
  \/ CancelWatchdog \/ NothingToCancel \/ ReapWatchdog
  \/ StopGroup \/ PollGroup \/ Stopped

-----------------------------------------------------------------------------
(* The watchdog.                                                           *)

StartTimer ==
  /\ watchdog = "starting"
  /\ watchdog' = "sleeping" /\ timer' = "running"
  /\ UNCHANGED <<files, sent>>

WriteTimerFile ==
  /\ watchdog = "sleeping"
  /\ watchdog' = "armed" /\ timerFile' = TRUE
  /\ UNCHANGED <<timer, marker, sent>>

WaitTimer ==
  /\ watchdog = "armed" /\ timer # "running"
  /\ watchdog' = IF timer = "fired" THEN "check" ELSE "done"
  /\ UNCHANGED <<timer, files, sent>>

CheckGroup ==
  /\ watchdog = "check"
  /\ \/ GroupExists /\ watchdog' = "mark"
     \/ GroupGone /\ watchdog' = "done"
  /\ UNCHANGED <<timer, files, sent>>

(* Broken: the group is stopped before the marker is written. *)
MarkAfterTerm ==
  \/ /\ watchdog = "mark"
     /\ watchdog' = "stop" /\ Terminate(TRUE)
     /\ UNCHANGED <<timer, files>>
  \/ /\ watchdog = "stop"
     /\ watchdog' = "stopping" /\ marker' = TRUE
     /\ UNCHANGED <<timer, timerFile, sent>>

(* The marker first, then SIGTERM. *)
MarkAndTerm ==
  \/ /\ watchdog = "mark"
     /\ watchdog' = "stop" /\ marker' = TRUE
     /\ UNCHANGED <<timer, timerFile, sent>>
  \/ /\ watchdog = "stop"
     /\ watchdog' = "stopping" /\ Terminate(TRUE)
     /\ UNCHANGED <<timer, files>>

(* Broken: no SIGKILL, the group is waited for. *)
WatchdogWaits ==
  /\ watchdog = "stopping" /\ GroupGone
  /\ watchdog' = "done"
  /\ UNCHANGED <<timer, files, sent>>

WatchdogPolls ==
  /\ watchdog = "stopping"
  /\ IF GroupGone THEN UNCHANGED sent ELSE Kill
  /\ watchdog' = "done"
  /\ UNCHANGED <<timer, files>>

TimerFires ==
  /\ timer = "running"
  /\ timer' = "fired"
  /\ UNCHANGED <<attempt, log, helperVars, runner, signals, watchdog, files, sent>>

Watchdog ==
  /\ \/ StartTimer \/ WriteTimerFile \/ WaitTimer \/ CheckGroup \/ MarkAndTerm
     \/ WatchdogPolls
  /\ UNCHANGED <<attempt, log, helperVars, runner, signals>>

-----------------------------------------------------------------------------

Next ==
  \/ Runner \/ Signal \/ Watchdog \/ TimerFires
  \/ GroupRuns \/ LeaderDies \/ PiDies

Spec == Init /\ [][Next]_vars

(* The shells run on, the timer fires, and SIGKILL is not ignored. *)
Fairness ==
  /\ WF_vars(Runner) /\ WF_vars(Watchdog) /\ WF_vars(TimerFires)
  /\ WF_vars(killed /\ LeaderDies) /\ WF_vars(killed /\ PiDies)

FairSpec == Spec /\ Fairness

-----------------------------------------------------------------------------

(* No process of the group outlives the runner, however it exits, unless
   SIGKILL is already on its way (cleanup_all, review_on_signal). *)
NoSurvivors == at = "exited" => GroupGone \/ killed

(* An attempt that the watchdog interrupted is never classified by the status of
   the interrupted helper, and 124 means that this attempt's timer went off
   (marker before SIGTERM in review_run_one_attempt). *)
InterruptionIsTimeout ==
  at = "record" =>
    /\ cut => status = "timeout"
    /\ status = "timeout" => timer = "fired"

(* Part of AttemptsAreApart: the group of an attempt and its watchdog, which
   shares the marker file, are done when the next group is forked. *)
AttemptsDoNotOverlap ==
  at = "fork" => (GroupGone \/ killed) /\ watchdog \in {"none", "done"}

(* Exit status 0 means that the last attempt printed the whole of Pi's last
   message, completed with a successful stop reason, of a Pi that exited with
   0; an attempt that failed by itself printed no whole message
   (finalizeStreamOutcome, resolveWrapperExitCode). *)
SuccessIsTheLastMessage ==
  /\ result = "ok" => out # None /\ out = final /\ pi = "ok"
  /\ leader = "failed" => out \in {None, Part}

(* A start follows nothing or the exit of the attempt before; anything else
   follows a record of its own attempt, not its exit. *)
MayFollow(record, before) ==
  IF record.kind = "attempt_start"
  THEN IF before = <<>> THEN record.attempt = 1
       ELSE /\ Last(before).kind = "attempt_exit"
            /\ Last(before).attempt = record.attempt - 1
            /\ Last(before).exitCode # "ok"
  ELSE /\ before # <<>>
       /\ Last(before).kind # "attempt_exit"
       /\ Last(before).attempt = record.attempt

(* Part of AttemptsAreApart: in the log an attempt is opened once, its events
   lie between its start and its exit, and none follows one that succeeded. *)
LogIsSequential ==
  \A i \in 1 .. Len(log) : MayFollow(log[i], SubSeq(log, 1, i - 1))

(* Nothing of an attempt reaches into the next one, neither a process nor an
   event of the log (references/history-format.md, events sidecar). *)
AttemptsAreApart == TypeOK /\ AttemptsDoNotOverlap /\ LogIsSequential

(* The runner ends, whatever Pi does: the cleanup is bounded
   (header of run_pi_review.sh). *)
Terminates == <>(at = "exited")
=============================================================================
