------------------------ MODULE ReviewAttemptsProofs ------------------------
(***************************************************************************)
(* Attempts are apart and leave nobody behind, for any number of attempts, *)
(* messages and signals, if no signal falls between a fork and the         *)
(* assignment of its process id (~Gaps).                                   *)
(*                                                                         *)
(* The runner, the watchdog and the group of processes only know each      *)
(* other through two process ids, two files and signals.  ShellInv says    *)
(* what each of these means at each label; in particular that a group      *)
(* without a process id is gone or has been killed, that a watchdog        *)
(* without one is done, and that in the body of an attempt a signal to the *)
(* group implies the marker.                                               *)
(***************************************************************************)
EXTENDS ReviewAttempts, TLAPS

-----------------------------------------------------------------------------
(* The runner, the watchdog and the group. *)

Flow == {"begin", "clear", "fork", "forked", "spawn", "spawned", "wait", "test",
         "late", "record"}
Cancelling == {"look", "reap"}
Stopping == {"stop", "stopping", "stopped", "exited"}
CancelsAttempt == caller = "attempt" /\ at \in Cancelling

(* The processes of the group. *)
GroupInv ==
  /\ leader \in {"none"} \union Working \union Over
  /\ pi \in {"none", "running", "ok", "failed"}
  /\ pi = "running" => leader \in {"reading", "closing", "killed"}
  /\ leader = "killed" => termed \/ killed

(* For whom the runner cancels; a trap does not return. *)
CallerInv ==
  /\ at \in Labels /\ caller \in {"attempt", "signal", "exit"}
  /\ at \in Flow => caller = "attempt" /\ ~trapped
  /\ caller = "attempt" => at \in Flow \union Cancelling /\ ~trapped
  /\ caller = "exit" => trapped

(* What the two process ids mean. *)
PidInv ==
  /\ at \in {"begin", "clear", "fork", "forked", "record", "exited"} => ~childPid
  /\ at \in {"spawn", "spawned", "wait", "test", "late", "stopping", "stopped"} =>
       childPid
  /\ CancelsAttempt => childPid /\ watchdogPid
  /\ at \in {"wait", "test", "late", "reap"} => watchdogPid
  /\ at \in {"begin", "clear", "fork", "forked", "spawn", "spawned", "record"}
       \union Stopping => ~watchdogPid
  /\ ~childPid /\ at # "forked" => GroupGone \/ killed
  /\ ~watchdogPid /\ at # "spawned" => watchdog \in {"none", "done"}
  /\ at = "stopped" => GroupGone \/ killed

(* The watchdog, its timer and the two files. *)
WatchdogInv ==
  /\ watchdog \in WatchdogLabels
  /\ watchdog \in {"starting", "sleeping"} => ~timerFile
  /\ watchdog \in {"armed", "check", "mark", "stop", "stopping"} => timerFile
  /\ watchdog \in {"check", "mark", "stop", "stopping"} => timer = "fired"
  /\ at \in {"fork", "forked", "spawn"} => ~timerFile /\ ~marker
  /\ marker => timer = "fired" /\ watchdog \in {"stop", "stopping", "done"}
  /\ watchdog \in {"stop", "stopping"} => marker
  /\ at = "late" => marker

(* In the body of an attempt, only the watchdog sends signals to the group. *)
AttemptInv ==
  LET inBody == \/ at \in {"forked", "spawn", "spawned", "wait", "test", "late"}
                \/ CancelsAttempt IN
  /\ inBody /\ (termed \/ killed) => marker /\ watchdog \in {"stopping", "done"}
  /\ inBody /\ marker /\ watchdog = "done" => GroupGone \/ killed
  /\ inBody /\ cut => termed
  /\ at \in {"test", "late", "record"} => leader \in Over
  /\ at = "test" => status \in {"ok", "failed"}
  /\ CancelsAttempt =>
       leader \in {"ok", "failed"} /\ ~cut /\ status \in {"ok", "failed"}
  /\ at = "record" =>
       /\ cut => status = "timeout"
       /\ status = "timeout" => timer = "fired"

ShellInv == GroupInv /\ CallerInv /\ PidInv /\ WatchdogInv /\ AttemptInv

LEMMA ShellInit == Init => ShellInv
  BY DEF Init, HelperInit, ShellInv, GroupInv, CallerInv, PidInv, WatchdogInv,
         AttemptInv, Labels, Flow, Cancelling, Stopping, CancelsAttempt, Working,
         Over, GroupGone, Running, WatchdogLabels

LEMMA ShellNext == ~Gaps /\ ShellInv /\ [Next]_vars => ShellInv'
<1> SUFFICES ASSUME ~Gaps, ShellInv, [Next]_vars PROVE ShellInv'
  OBVIOUS
<1> USE DEF ShellInv, GroupInv, CallerInv, PidInv, WatchdogInv, AttemptInv, Labels,
            Flow, Cancelling, Stopping, CancelsAttempt, Working, Over, GroupGone,
            Running, WatchdogLabels, runner, guard, files, sent
<1>1. CASE UNCHANGED vars
  BY <1>1 DEF vars, helperVars
<1>2. CASE BeginAttempt
  BY <1>2 DEF BeginAttempt, Exit, Go, helperVars
<1>3. CASE ClearAttempt
  BY <1>3 DEF ClearAttempt, Go, helperVars
<1>4. CASE ForkChild
  BY <1>4 DEF ForkChild, Go, Launch, helperVars
<1>5. CASE NoteChild
  BY <1>5 DEF NoteChild, Go, helperVars
<1>6. CASE ForkWatchdog
  BY <1>6 DEF ForkWatchdog, Go, helperVars
<1>7. CASE NoteWatchdog
  BY <1>7 DEF NoteWatchdog, Go, helperVars
<1>8. CASE WaitChild
  BY <1>8 DEF WaitChild, Go, helperVars
<1>9. CASE TestMarker
  BY <1>9 DEF TestMarker, Go, helperVars
<1>10. CASE TimedOut
  BY <1>10 DEF TimedOut, Go, helperVars
<1>11. CASE RecordExit
  BY <1>11 DEF RecordExit, Go, Exit, helperVars
<1>12. CASE CancelWatchdog
  BY <1>12 DEF CancelWatchdog, Go, helperVars
<1>13. CASE NothingToCancel
  BY <1>13 DEF NothingToCancel, AfterCancel, Go, helperVars
<1>14. CASE ReapWatchdog
  BY <1>14 DEF ReapWatchdog, AfterCancel, Go, helperVars
<1>15. CASE StopGroup
  BY <1>15 DEF StopGroup, Go, Terminate, AfterStop, Exit, helperVars
<1>16. CASE PollGroup
  BY <1>16 DEF PollGroup, Go, Kill, helperVars
<1>17. CASE Stopped
  BY <1>17 DEF Stopped, AfterStop, Exit, Go, helperVars
<1>18. CASE Signal
  BY <1>18 DEF Signal, helperVars
<1>19. CASE StartTimer /\ UNCHANGED <<attempt, log, helperVars, runner, signals>>
  BY <1>19 DEF StartTimer, helperVars
<1>20. CASE WriteTimerFile /\ UNCHANGED <<attempt, log, helperVars, runner, signals>>
  BY <1>20 DEF WriteTimerFile, helperVars
<1>21. CASE WaitTimer /\ UNCHANGED <<attempt, log, helperVars, runner, signals>>
  BY <1>21 DEF WaitTimer, helperVars
<1>22. CASE CheckGroup /\ UNCHANGED <<attempt, log, helperVars, runner, signals>>
  BY <1>22 DEF CheckGroup, GroupExists, Zombie, helperVars
<1>23. CASE MarkAndTerm /\ UNCHANGED <<attempt, log, helperVars, runner, signals>>
  <2>1. CASE watchdog = "mark"
    BY <1>23, <2>1 DEF MarkAndTerm, helperVars
  <2>2. CASE watchdog = "stop"
    <3>1. /\ watchdog' = "stopping" /\ termed' = TRUE /\ killed' = killed
          /\ UNCHANGED <<timer, files, attempt, log, helperVars, runner, signals>>
      BY <1>23, <2>2 DEF MarkAndTerm, Terminate
    <3>2. cut' => cut \/ leader \in Working
      BY <1>23, <2>2 DEF MarkAndTerm, Terminate
    <3> QED
      BY <2>2, <3>1, <3>2 DEF helperVars
  <2> QED
    BY <1>23, <2>1, <2>2 DEF MarkAndTerm
<1>24. CASE WatchdogPolls /\ UNCHANGED <<attempt, log, helperVars, runner, signals>>
  BY <1>24 DEF WatchdogPolls, Kill, helperVars
<1>25. CASE TimerFires
  BY <1>25 DEF TimerFires, helperVars
<1>26. CASE GroupRuns /\ Pi
  <2>1. /\ pi = "running" /\ pi' \in {"running", "ok", "failed"}
        /\ UNCHANGED <<leader, runner, signals, guard, files, sent>>
    BY <1>26 DEF GroupRuns, Pi, PiStarts, PiEnds, PiStreams, PiGarbles, PiWrites,
                 PiExits
  <2> QED
    BY <2>1
<1>27. CASE GroupRuns /\ Helper
  BY <1>27 DEF GroupRuns, Helper, OpenLog, HandleLine, ReadFails, EndOfStream, Conclude,
             PrintFinal, HelperExits
<1>28. CASE LeaderDies
  BY <1>28 DEF LeaderDies
<1>29. CASE PiDies
  BY <1>29 DEF PiDies
<1> QED
  BY <1>1, <1>2, <1>3, <1>4, <1>5, <1>6, <1>7, <1>8, <1>9, <1>10, <1>11, <1>12, <1>13, <1>14, <1>15, <1>16, <1>17, <1>18, <1>19, <1>20, <1>21, <1>22, <1>23, <1>24, <1>25, <1>26, <1>27, <1>28, <1>29
     DEF Next, Runner, Watchdog, GroupRuns

-----------------------------------------------------------------------------
(* The stream. *)

Verdict(line) == IF line.kind = "end" /\ line.stop = "stop" THEN line.text ELSE None
TrackerVerdict ==
  IF tracker.assistantMessageEnded /\ tracker.stop = "stop" THEN tracker.text ELSE None

(* The last line in the pipe that says something about the last message, or
   else the tracker, tells what Pi said last. *)
PipeInv ==
  /\ \A i \in 1 .. Len(pipe) :
       pipe[i].kind # "delta" /\ (\A j \in i + 1 .. Len(pipe) : pipe[j].kind = "delta")
         => final = Verdict(pipe[i])
  /\ (\A i \in 1 .. Len(pipe) : pipe[i].kind = "delta") /\ ~streamError
         => final = TrackerVerdict

(* What the helper has made sure of at its labels. *)
OutcomeInv ==
  /\ pi = "running" => leader \in {"reading", "closing", "killed"}
  /\ leader \in {"closing", "printing", "printed", "ok"} /\ ~streamError =>
       pipe = <<>> /\ pi # "running"
  /\ leader \in {"printing", "printed", "ok"} =>
       ~streamError /\ Complete /\ pi = "ok"
  /\ leader \in {"printed", "ok"} => out = tracker.text
  /\ leader \in {"open", "reading", "closing"} => out = None
  /\ leader = "failed" => out \in {None, Part}

(* Where the exit status of the helper goes. *)
ResultInv ==
  /\ at \in Flow => result = "none" /\ caller = "attempt" /\ ~trapped
  /\ caller = "attempt" =>
       at \in Flow \union Cancelling /\ result = "none" /\ ~trapped
  /\ result = "ok" => leader = "ok"
  /\ status = "ok" /\ (at \in {"test", "late", "record"} \/ CancelsAttempt) =>
       leader = "ok"
  /\ at \in {"test", "late", "record"} \/ CancelsAttempt => status # "none"

StreamInv == TypeOK /\ PipeInv /\ OutcomeInv /\ ResultInv


LEMMA LoggedType ==
  ASSUME log \in Seq(Records), NEW record \in Records
  PROVE  /\ Logged(record) \in Seq(Records)
         /\ Logged(record) # <<>>
         /\ Last(Logged(record)) = record
<1>1. CASE log # <<>> /\ Last(log) = record
  BY <1>1 DEF Logged
<1>2. CASE ~(log # <<>> /\ Last(log) = record)
  <2>1. Logged(record) = Append(log, record)
    BY <1>2 DEF Logged
  <2>2. /\ Append(log, record) \in Seq(Records)
        /\ Len(Append(log, record)) = Len(log) + 1 /\ Len(log) \in Nat
        /\ Append(log, record)[Len(log) + 1] = record
    OBVIOUS
  <2>3. Append(log, record) # <<>>
    BY <2>2
  <2> QED
    BY <2>1, <2>2, <2>3 DEF Last
<1> QED
  BY <1>1, <1>2

LEMMA StreamInit == Init => StreamInv
<1> SUFFICES ASSUME Init PROVE StreamInv
  OBVIOUS
<1>1. HelperTypeOK
  <2>1. createStreamTracker \in Trackers
    BY DEF createStreamTracker, Trackers, StopReasons
  <2> QED
    <3>1. attempt \in 1 .. Attempts /\ said \in 0 .. MaxMessages
      BY BoundsAssumption DEF Init, HelperInit
    <3>2. log \in Seq(Records) /\ pipe \in Seq(Lines) /\ Len(pipe) <= PipeSize
      BY BoundsAssumption DEF Init, HelperInit
    <3>3. /\ leader = "none" /\ pi = "none" /\ streamError = FALSE
          /\ out = None /\ final = None /\ tracker = createStreamTracker
      BY DEF Init, HelperInit
    <3> QED
      BY <2>1, <3>1, <3>2, <3>3 DEF HelperTypeOK
<1>2. TypeOK
  <2>1. signals \in 0 .. MaxSignals
    BY SignalsAssumption DEF Init
  <2>2. /\ at = "begin" /\ caller = "attempt" /\ trapped = FALSE
        /\ status = "none" /\ result = "none"
        /\ childPid = FALSE /\ watchdogPid = FALSE
        /\ watchdog = "none" /\ timer = "none"
        /\ timerFile = FALSE /\ marker = FALSE
        /\ termed = FALSE /\ killed = FALSE /\ cut = FALSE
    BY DEF Init
  <2> QED
    BY <1>1, <2>1, <2>2 DEF TypeOK, Labels, WatchdogLabels
<1>3. PipeInv /\ OutcomeInv /\ ResultInv
  BY DEF Init, HelperInit, PipeInv, OutcomeInv, ResultInv, TrackerVerdict,
         createStreamTracker, Flow, CancelsAttempt, Cancelling
<1> QED
  BY <1>2, <1>3 DEF StreamInv

(* Lines that Pi writes. *)
LEMMA PiWritesKeeps ==
  ASSUME StreamInv, NEW line \in Lines, PiWrites(line),
         IF line.kind = "delta" THEN final' = final ELSE final' = Verdict(line),
         final' \in Messages \union {None}
  PROVE  (PipeInv /\ OutcomeInv)' /\ pipe' \in Seq(Lines) /\ Len(pipe') <= PipeSize
<1> USE BoundsAssumption
<1>1. pipe \in Seq(Lines) /\ Len(pipe) \in Nat
  BY DEF StreamInv, TypeOK, HelperTypeOK
<1>2. /\ pipe' \in Seq(Lines) /\ Len(pipe') = Len(pipe) + 1
      /\ \A i \in 1 .. Len(pipe) : pipe'[i] = pipe[i]
      /\ pipe'[Len(pipe) + 1] = line
      /\ Len(pipe') <= PipeSize
  BY <1>1 DEF PiWrites
<1>3. UNCHANGED <<tracker, streamError, leader, pi, out>>
  BY DEF PiWrites
<1>4. ASSUME line.kind = "delta" PROVE PipeInv'
  <2>1. final' = final /\ TrackerVerdict' = TrackerVerdict /\ pipe'[Len(pipe')].kind = "delta"
    BY <1>1, <1>2, <1>3, <1>4 DEF TrackerVerdict
  <2>2. \A i \in 1 .. Len(pipe') :
          pipe'[i].kind # "delta"
            /\ (\A j \in i + 1 .. Len(pipe') : pipe'[j].kind = "delta")
          => final' = Verdict(pipe'[i])
    <3> SUFFICES ASSUME NEW i \in 1 .. Len(pipe'), pipe'[i].kind # "delta",
                        \A j \in i + 1 .. Len(pipe') : pipe'[j].kind = "delta"
                 PROVE  final' = Verdict(pipe'[i])
      OBVIOUS
    <3>1. i \in 1 .. Len(pipe) /\ pipe[i] = pipe'[i]
      BY <1>1, <1>2, <2>1
    <3>2. \A j \in i + 1 .. Len(pipe) : pipe[j].kind = "delta"
      BY <1>1, <1>2
    <3> QED
      BY <2>1, <3>1, <3>2 DEF StreamInv, PipeInv
  <2>3. ASSUME \A i \in 1 .. Len(pipe') : pipe'[i].kind = "delta", ~streamError'
        PROVE  final' = TrackerVerdict'
    <3>1. \A i \in 1 .. Len(pipe) : pipe[i].kind = "delta"
      BY <1>1, <1>2, <2>3
    <3> QED
      BY <1>3, <2>1, <2>3, <3>1 DEF StreamInv, PipeInv
  <2> QED
    BY <2>2, <2>3 DEF PipeInv
<1>5. ASSUME line.kind # "delta" PROVE PipeInv'
  <2>1. \A i \in 1 .. Len(pipe') :
          pipe'[i].kind # "delta"
            /\ (\A j \in i + 1 .. Len(pipe') : pipe'[j].kind = "delta")
          => final' = Verdict(pipe'[i])
    <3> SUFFICES ASSUME NEW i \in 1 .. Len(pipe'), pipe'[i].kind # "delta",
                        \A j \in i + 1 .. Len(pipe') : pipe'[j].kind = "delta"
                 PROVE  final' = Verdict(pipe'[i])
      OBVIOUS
    <3>1. i = Len(pipe')
      BY <1>1, <1>2, <1>5
    <3> QED
      BY <1>1, <1>2, <1>5, <3>1
  <2>2. ~ \A i \in 1 .. Len(pipe') : pipe'[i].kind = "delta"
    BY <1>1, <1>2, <1>5
  <2> QED
    BY <2>1, <2>2 DEF PipeInv
<1>6. PipeInv'
  BY <1>4, <1>5
<1>7. OutcomeInv'
  BY <1>3, <1>2 DEF StreamInv, OutcomeInv, PiWrites, Complete
<1> QED
  BY <1>2, <1>6, <1>7

(* A line that the helper takes from the pipe. *)
LEMMA HandleLineKeeps ==
  ASSUME StreamInv, HandleLine
  PROVE  (HelperTypeOK /\ PipeInv /\ OutcomeInv)'
<1> DEFINE line == Head(pipe)
<1>1. /\ pipe \in Seq(Lines) /\ pipe # <<>> /\ Len(pipe) \in Nat \ {0}
      /\ line \in Lines /\ line = pipe[1]
  BY DEF StreamInv, TypeOK, HelperTypeOK, HandleLine
<1>2. /\ pipe' \in Seq(Lines) /\ Len(pipe') = Len(pipe) - 1
      /\ \A i \in 1 .. Len(pipe') : pipe'[i] = pipe[i + 1]
  BY <1>1 DEF HandleLine
<1>3. \/ streamError' = TRUE /\ tracker' \in {tracker, Advance(line)}
      \/ /\ ~streamError /\ streamError' = FALSE
         /\ tracker' = Advance(line) /\ line.kind # "bad"
  BY DEF HandleLine, StreamInv, TypeOK, HelperTypeOK
<1>4. Advance(line) \in Trackers
  BY <1>1 DEF Advance, Lines, Trackers, createStreamTracker, StopReasons, StreamInv,
              TypeOK, HelperTypeOK
<1>5. UNCHANGED <<attempt, leader, pi, said, out, final>> /\ leader = "reading"
  BY DEF HandleLine
<1>6. log' \in Seq(Records)
  <2>1. [kind |-> "pi_event", attempt |-> attempt] \in Records
    BY DEF Records, StreamInv, TypeOK, HelperTypeOK
  <2> QED
    BY <2>1, LoggedType DEF HandleLine, StreamInv, TypeOK, HelperTypeOK
<1>7. HelperTypeOK'
  <2>1. tracker' \in Trackers /\ streamError' \in BOOLEAN
    BY <1>3, <1>4 DEF StreamInv, TypeOK, HelperTypeOK
  <2>2. Len(pipe') <= PipeSize
    BY <1>1, <1>2, BoundsAssumption DEF StreamInv, TypeOK, HelperTypeOK
  <2> QED
    BY <1>2, <1>5, <1>6, <2>1, <2>2 DEF StreamInv, TypeOK, HelperTypeOK
<1>8. PipeInv'
  <2>1. \A i \in 1 .. Len(pipe') :
          pipe'[i].kind # "delta"
            /\ (\A j \in i + 1 .. Len(pipe') : pipe'[j].kind = "delta")
          => final' = Verdict(pipe'[i])
    <3> SUFFICES ASSUME NEW i \in 1 .. Len(pipe'), pipe'[i].kind # "delta",
                        \A j \in i + 1 .. Len(pipe') : pipe'[j].kind = "delta"
                 PROVE  final' = Verdict(pipe'[i])
      OBVIOUS
    <3>1. i + 1 \in 1 .. Len(pipe) /\ pipe'[i] = pipe[i + 1]
      BY <1>1, <1>2
    <3>2. \A j \in (i + 1) + 1 .. Len(pipe) : pipe[j].kind = "delta"
      <4> TAKE j \in (i + 1) + 1 .. Len(pipe)
      <4>1. j - 1 \in i + 1 .. Len(pipe') /\ pipe'[j - 1] = pipe[j]
        BY <1>1, <1>2
      <4> QED
        BY <4>1
    <3> QED
      BY <1>5, <3>1, <3>2 DEF StreamInv, PipeInv
  <2>2. ASSUME \A i \in 1 .. Len(pipe') : pipe'[i].kind = "delta", ~streamError'
        PROVE  final' = TrackerVerdict'
    <3>1. \A j \in 2 .. Len(pipe) : pipe[j].kind = "delta"
      <4> TAKE j \in 2 .. Len(pipe)
      <4>1. j - 1 \in 1 .. Len(pipe') /\ pipe'[j - 1] = pipe[j]
        BY <1>1, <1>2
      <4> QED
        BY <2>2, <4>1
    <3>2. ~streamError /\ tracker' = Advance(line) /\ line.kind # "bad"
      BY <1>3, <2>2
    <3>3. CASE line.kind = "delta"
      <4>1. \A j \in 1 .. Len(pipe) : pipe[j].kind = "delta"
        BY <1>1, <3>1, <3>3
      <4> QED
        BY <1>5, <3>2, <3>3, <4>1 DEF Advance, StreamInv, PipeInv, TrackerVerdict
    <3>4. CASE line.kind # "delta"
      <4>1. final = Verdict(line)
        BY <1>1, <3>1, <3>4 DEF StreamInv, PipeInv
      <4>2. line.kind \in {"start", "end"}
        BY <1>1, <3>2, <3>4 DEF Lines
      <4> QED
        BY <1>5, <3>2, <4>1, <4>2
           DEF Advance, createStreamTracker, Verdict, TrackerVerdict
    <3> QED
      BY <3>3, <3>4
  <2> QED
    BY <2>1, <2>2 DEF PipeInv
<1>9. OutcomeInv'
  BY <1>5 DEF StreamInv, OutcomeInv
<1> QED
  BY <1>7, <1>8, <1>9

(* The other steps of the helper. *)
LEMMA HelperKeeps ==
  ASSUME StreamInv,
         OpenLog \/ ReadFails \/ EndOfStream \/ Conclude \/ PrintFinal \/ HelperExits
  PROVE  (HelperTypeOK /\ PipeInv /\ OutcomeInv)'
<1> USE DEF StreamInv, TypeOK
<1>1. log' \in Seq(Records)
  <2>1. [kind |-> "wrapper_error", attempt |-> attempt] \in Records
    BY DEF Records, HelperTypeOK
  <2> QED
    BY <2>1, LoggedType
       DEF OpenLog, ReadFails, EndOfStream, Conclude, PrintFinal, HelperExits,
           HelperTypeOK
<1>2. UNCHANGED <<attempt, said, pipe, tracker, final>>
  BY DEF OpenLog, ReadFails, EndOfStream, Conclude, PrintFinal, HelperExits
<1>3. CASE OpenLog
  BY <1>1, <1>2, <1>3
     DEF OpenLog, HelperTypeOK, PipeInv, TrackerVerdict, OutcomeInv, Complete,
         Working, Over
<1>4. CASE ReadFails \/ EndOfStream
  BY <1>1, <1>2, <1>4
     DEF ReadFails, EndOfStream, HelperTypeOK, PipeInv, TrackerVerdict, OutcomeInv,
         Complete, Working, Over
<1>5. CASE Conclude \/ HelperExits
  BY <1>1, <1>2, <1>5
     DEF Conclude, HelperExits, HelperTypeOK, PipeInv, TrackerVerdict, OutcomeInv,
         Complete, Working, Over
<1>6. CASE PrintFinal
  <2>1. tracker.text \in Messages \union {None}
    BY DEF HelperTypeOK, Trackers
  <2> QED
    BY <1>1, <1>2, <1>6, <2>1
       DEF PrintFinal, HelperTypeOK, PipeInv, TrackerVerdict, OutcomeInv, Complete,
           Working, Over
<1> QED
  BY <1>3, <1>4, <1>5, <1>6

LEMMA PiKeeps ==
  ASSUME StreamInv, Pi
  PROVE  (HelperTypeOK /\ PipeInv /\ OutcomeInv)'
<1> USE BoundsAssumption DEF StreamInv, TypeOK
<1>1. CASE PiStarts
  <2>1. [kind |-> "start"] \in Lines
    BY DEF Lines
  <2>2. (PipeInv /\ OutcomeInv)' /\ pipe' \in Seq(Lines) /\ Len(pipe') <= PipeSize
    BY <1>1, <2>1, PiWritesKeeps DEF PiStarts, Verdict
  <2> QED
    BY <1>1, <2>2 DEF PiStarts, PiWrites, HelperTypeOK
<1>2. CASE PiStreams
  <2>1. [kind |-> "delta"] \in Lines
    BY DEF Lines
  <2>2. (PipeInv /\ OutcomeInv)' /\ pipe' \in Seq(Lines) /\ Len(pipe') <= PipeSize
    BY <1>2, <2>1, PiWritesKeeps DEF PiStreams, HelperTypeOK
  <2> QED
    BY <1>2, <2>2 DEF PiStreams, PiWrites, HelperTypeOK
<1>3. CASE PiGarbles
  <2>1. [kind |-> "bad"] \in Lines
    BY DEF Lines
  <2>2. (PipeInv /\ OutcomeInv)' /\ pipe' \in Seq(Lines) /\ Len(pipe') <= PipeSize
    BY <1>3, <2>1, PiWritesKeeps DEF PiGarbles, Verdict
  <2> QED
    BY <1>3, <2>2 DEF PiGarbles, PiWrites, HelperTypeOK
<1>4. ASSUME NEW stop \in StopReasons, NEW text \in Messages \union {None},
             PiEnds(stop, text)
      PROVE  (HelperTypeOK /\ PipeInv /\ OutcomeInv)'
  <2>1. [kind |-> "end", stop |-> stop, text |-> text] \in Lines
    BY DEF Lines
  <2>2. final' \in Messages \union {None}
    BY <1>4 DEF PiEnds
  <2>3. (PipeInv /\ OutcomeInv)' /\ pipe' \in Seq(Lines) /\ Len(pipe') <= PipeSize
    BY <1>4, <2>1, <2>2, PiWritesKeeps DEF PiEnds, Verdict
  <2> QED
    BY <1>4, <2>2, <2>3 DEF PiEnds, PiWrites, HelperTypeOK
<1>5. CASE PiExits
  BY <1>5 DEF PiExits, HelperTypeOK, PipeInv, TrackerVerdict, OutcomeInv, Complete
<1> QED
  BY <1>1, <1>2, <1>3, <1>4, <1>5 DEF Pi

(* Steps of the runner and the watchdog touch the helper only to launch it. *)
LEMMA GroupStep ==
  ASSUME Next
  PROVE  \/ UNCHANGED helperVars
         \/ ForkChild
         \/ (Pi \/ Helper) /\ UNCHANGED <<runner, signals, guard, files, sent>>
         \/ LeaderDies \/ PiDies
  BY DEF Next, Runner, GroupRuns, Watchdog, Signal, TimerFires, BeginAttempt,
         ClearAttempt, NoteChild, ForkWatchdog, NoteWatchdog, WaitChild, TestMarker,
         TimedOut, RecordExit, CancelWatchdog, NothingToCancel, ReapWatchdog,
         StopGroup, PollGroup, Stopped

LEMMA HelperNext == StreamInv /\ [Next]_vars => (PipeInv /\ OutcomeInv)'
<1> SUFFICES ASSUME StreamInv, [Next]_vars PROVE (PipeInv /\ OutcomeInv)'
  OBVIOUS
<1>1. CASE UNCHANGED helperVars
  BY <1>1 DEF helperVars, StreamInv, PipeInv, OutcomeInv, TrackerVerdict, Complete
<1>2. CASE ForkChild
  BY <1>2 DEF ForkChild, Launch, createStreamTracker, PipeInv, OutcomeInv,
              TrackerVerdict
<1>3. CASE Pi \/ Helper
  BY <1>3, PiKeeps, HelperKeeps, HandleLineKeeps DEF Helper
<1>4. CASE LeaderDies \/ PiDies
  BY <1>4 DEF LeaderDies, PiDies, StreamInv, PipeInv, OutcomeInv, TrackerVerdict,
              Complete, Working
<1> QED
  BY <1>1, <1>2, <1>3, <1>4, GroupStep DEF vars

(* The variables of the shells. *)
ShellType ==
  /\ at \in Labels
  /\ caller \in {"attempt", "signal", "exit"}
  /\ trapped \in BOOLEAN
  /\ status \in {"none", "ok", "failed", "timeout"}
  /\ result \in {"none", "ok", "failed", "timeout", "signal"}
  /\ signals \in 0 .. MaxSignals
  /\ childPid \in BOOLEAN /\ watchdogPid \in BOOLEAN
  /\ watchdog \in WatchdogLabels
  /\ timer \in {"none", "running", "fired", "killed"}
  /\ timerFile \in BOOLEAN /\ marker \in BOOLEAN
  /\ termed \in BOOLEAN /\ killed \in BOOLEAN /\ cut \in BOOLEAN

LEMMA ResultNext == StreamInv /\ [Next]_vars => ResultInv'
<1> SUFFICES ASSUME ResultInv, [Next]_vars PROVE ResultInv'
  BY DEF StreamInv
<1> USE DEF ResultInv, Flow, Cancelling, CancelsAttempt, runner, guard, files, sent
<1>1. CASE UNCHANGED vars
  BY <1>1 DEF vars, helperVars
<1>2. CASE BeginAttempt
  BY <1>2 DEF BeginAttempt, Exit, Go, helperVars
<1>3. CASE ClearAttempt
  BY <1>3 DEF ClearAttempt, Go, helperVars
<1>4. CASE ForkChild
  BY <1>4 DEF ForkChild, Go, Launch, helperVars
<1>5. CASE NoteChild
  BY <1>5 DEF NoteChild, Go, helperVars
<1>6. CASE ForkWatchdog
  BY <1>6 DEF ForkWatchdog, Go, helperVars
<1>7. CASE NoteWatchdog
  BY <1>7 DEF NoteWatchdog, Go, helperVars
<1>8. CASE WaitChild
  BY <1>8 DEF WaitChild, Go, helperVars
<1>9. CASE TestMarker
  BY <1>9 DEF TestMarker, Go, helperVars
<1>10. CASE TimedOut
  BY <1>10 DEF TimedOut, Go, helperVars
<1>11. CASE RecordExit
  BY <1>11 DEF RecordExit, Go, Exit, helperVars
<1>12. CASE CancelWatchdog
  BY <1>12 DEF CancelWatchdog, Go, helperVars
<1>13. CASE NothingToCancel
  <2>1. UNCHANGED <<leader, caller, trapped, result, status>>
    BY <1>13 DEF NothingToCancel, AfterCancel, Go, helperVars
  <2>2. CASE caller = "attempt"
    <3>1. at \in Cancelling /\ at' = "record"
      BY <1>13, <2>2 DEF NothingToCancel, AfterCancel, Go
    <3> QED
      BY <2>1, <2>2, <3>1
  <2>3. CASE caller # "attempt"
    <3>1. at' = "stop"
      BY <1>13, <2>3 DEF NothingToCancel, AfterCancel, Go
    <3> QED
      BY <2>1, <2>3, <3>1
  <2> QED
    BY <2>2, <2>3
<1>14. CASE ReapWatchdog
  <2>1. UNCHANGED <<leader, caller, trapped, result, status>>
    BY <1>14 DEF ReapWatchdog, AfterCancel, Go, helperVars
  <2>2. CASE caller = "attempt"
    <3>1. at \in Cancelling /\ at' = "record"
      BY <1>14, <2>2 DEF ReapWatchdog, AfterCancel, Go
    <3> QED
      BY <2>1, <2>2, <3>1
  <2>3. CASE caller # "attempt"
    <3>1. at' = "stop"
      BY <1>14, <2>3 DEF ReapWatchdog, AfterCancel, Go
    <3> QED
      BY <2>1, <2>3, <3>1
  <2> QED
    BY <2>2, <2>3
<1>15. CASE StopGroup
  BY <1>15 DEF StopGroup, Go, AfterStop, Exit, helperVars, Terminate
<1>16. CASE PollGroup
  BY <1>16 DEF PollGroup, Go, helperVars, Kill
<1>17. CASE Stopped
  BY <1>17 DEF Stopped, AfterStop, Exit, Go, helperVars
<1>18. CASE Signal
  BY <1>18 DEF Signal, helperVars
<1>19. CASE StartTimer /\ UNCHANGED <<attempt, log, helperVars, runner, signals>>
  BY <1>19 DEF StartTimer, helperVars
<1>20. CASE WriteTimerFile /\ UNCHANGED <<attempt, log, helperVars, runner, signals>>
  BY <1>20 DEF WriteTimerFile, helperVars
<1>21. CASE WaitTimer /\ UNCHANGED <<attempt, log, helperVars, runner, signals>>
  BY <1>21 DEF WaitTimer, helperVars
<1>22. CASE CheckGroup /\ UNCHANGED <<attempt, log, helperVars, runner, signals>>
  BY <1>22 DEF CheckGroup, helperVars
<1>23. CASE MarkAndTerm /\ UNCHANGED <<attempt, log, helperVars, runner, signals>>
  BY <1>23 DEF MarkAndTerm, Terminate, helperVars
<1>24. CASE WatchdogPolls /\ UNCHANGED <<attempt, log, helperVars, runner, signals>>
  BY <1>24 DEF WatchdogPolls, Kill, helperVars
<1>25. CASE TimerFires
  BY <1>25 DEF TimerFires, helperVars
<1>26. CASE (Pi \/ Helper) /\ UNCHANGED <<runner, signals, guard, files, sent>>
  <2>1. leader = "ok" => leader' = "ok"
    BY <1>26 DEF Pi, PiStarts, PiEnds, PiStreams, PiGarbles, PiWrites, PiExits, Helper,
               OpenLog, HandleLine, ReadFails, EndOfStream, Conclude, PrintFinal,
               HelperExits
  <2> QED
    BY <1>26, <2>1
<1>27. CASE LeaderDies \/ PiDies
  BY <1>27 DEF LeaderDies, PiDies, Working
<1> QED
  BY <1>1, <1>2, <1>3, <1>4, <1>5, <1>6, <1>7, <1>8, <1>9, <1>10, <1>11, <1>12, <1>13, <1>14, <1>15, <1>16, <1>17, <1>18, <1>19, <1>20, <1>21, <1>22, <1>23, <1>24, <1>25, <1>26, <1>27
     DEF Next, Runner, Watchdog, GroupRuns

LEMMA ShellTypeNext == StreamInv /\ [Next]_vars => ShellType'
<1> SUFFICES ASSUME ShellType, [Next]_vars PROVE ShellType'
  BY DEF StreamInv, TypeOK, ShellType
<1> USE DEF vars, helperVars, runner, guard, files, sent,
            Next, Runner, BeginAttempt, ClearAttempt, ForkChild, NoteChild, ForkWatchdog,
            NoteWatchdog, WaitChild, TestMarker, TimedOut, RecordExit, CancelWatchdog,
            NothingToCancel, ReapWatchdog, StopGroup, PollGroup, Stopped, Signal,
            Go, Exit, AfterCancel, AfterStop, Terminate, Kill,
            Watchdog, StartTimer, WriteTimerFile, WaitTimer, CheckGroup, MarkAndTerm,
            WatchdogPolls, TimerFires, GroupRuns, LeaderDies, PiDies
<1>1. at' \in Labels
  BY DEF ShellType, Labels
<1>2. caller' \in {"attempt", "signal", "exit"} /\ trapped' \in BOOLEAN
  BY DEF ShellType
<1>3. status' \in {"none", "ok", "failed", "timeout"}
  BY DEF ShellType
<1>4. result' \in {"none", "ok", "failed", "timeout", "signal"}
  BY DEF ShellType
<1>5. signals' \in 0 .. MaxSignals
  BY SignalsAssumption DEF ShellType
<1>6. childPid' \in BOOLEAN
  BY DEF ShellType
<1>7. watchdogPid' \in BOOLEAN
  BY DEF ShellType
<1>8. watchdog' \in WatchdogLabels
  BY DEF ShellType, WatchdogLabels
<1>9. timer' \in {"none", "running", "fired", "killed"}
  BY DEF ShellType
<1>10. timerFile' \in BOOLEAN
  BY DEF ShellType
<1>11. marker' \in BOOLEAN
  BY DEF ShellType
<1>12. termed' \in BOOLEAN
  BY DEF ShellType
<1>13. killed' \in BOOLEAN
  BY DEF ShellType
<1>14. cut' \in BOOLEAN
  BY DEF ShellType
<1> QED
  BY <1>1, <1>2, <1>3, <1>4, <1>5, <1>6, <1>7, <1>8, <1>9, <1>10, <1>11, <1>12,
     <1>13, <1>14 DEF ShellType

LEMMA HelperTypeNext == StreamInv /\ [Next]_vars => HelperTypeOK'
<1> SUFFICES ASSUME StreamInv, [Next]_vars PROVE HelperTypeOK'
  OBVIOUS
<1> USE BoundsAssumption DEF StreamInv, TypeOK
<1>1. CASE UNCHANGED <<attempt, log, helperVars>>
  BY <1>1 DEF helperVars, HelperTypeOK
<1>2. CASE BeginAttempt
  <2>1. [kind |-> "attempt_start", attempt |-> attempt] \in Records
    BY DEF Records, HelperTypeOK
  <2> QED
    BY <1>2, <2>1, LoggedType DEF BeginAttempt, helperVars, HelperTypeOK
<1>3. CASE RecordExit
  <2>1. [kind |-> "attempt_exit", attempt |-> attempt, exitCode |-> status] \in Records
    BY <1>3 DEF RecordExit, Records, HelperTypeOK, ResultInv
  <2>2. log' \in Seq(Records)
    BY <1>3, <2>1, LoggedType DEF RecordExit, HelperTypeOK
  <2>3. attempt' \in 1 .. Attempts
    BY <1>3 DEF RecordExit, HelperTypeOK
  <2> QED
    BY <1>3, <2>2, <2>3 DEF RecordExit, helperVars, HelperTypeOK
<1>4. CASE ForkChild
  <2>1. createStreamTracker \in Trackers
    BY DEF createStreamTracker, Trackers, StopReasons
  <2> QED
    <3>1. /\ attempt' = attempt /\ log' = log
          /\ leader' = "open" /\ pi' = "none" /\ said' = 0 /\ pipe' = <<>>
          /\ tracker' = createStreamTracker /\ streamError' = FALSE
          /\ out' = None /\ final' = None
      BY <1>4 DEF ForkChild, Launch
    <3>2. Len(pipe') <= PipeSize /\ pipe' \in Seq(Lines) /\ said' \in 0 .. MaxMessages
      BY <3>1
    <3> QED
      BY <2>1, <3>1, <3>2 DEF HelperTypeOK, Working
<1>5. CASE Pi \/ Helper
  BY <1>5, PiKeeps, HelperKeeps, HandleLineKeeps DEF Helper
<1>6. CASE LeaderDies \/ PiDies
  BY <1>6 DEF LeaderDies, PiDies, HelperTypeOK, Over
<1> QED
  BY <1>1, <1>2, <1>3, <1>4, <1>5, <1>6
     DEF vars, Next, Runner, GroupRuns, Watchdog, Signal, TimerFires,
         ClearAttempt, NoteChild, ForkWatchdog, NoteWatchdog, WaitChild, TestMarker,
         TimedOut, CancelWatchdog, NothingToCancel, ReapWatchdog, StopGroup, PollGroup,
         Stopped

LEMMA StreamNext == StreamInv /\ [Next]_vars => StreamInv'
  BY HelperNext, ResultNext, ShellTypeNext, HelperTypeNext DEF StreamInv, TypeOK, ShellType

-----------------------------------------------------------------------------
(* The log. *)

Open ==
  log # <<>> /\ Last(log).kind # "attempt_exit" /\ Last(log).attempt = attempt

LogInv ==
  /\ LogIsSequential
  /\ at = "begin" =>
       /\ leader \notin Working
       /\ IF log = <<>> THEN attempt = 1
          ELSE /\ Last(log).kind = "attempt_exit"
               /\ Last(log).attempt = attempt - 1
               /\ Last(log).exitCode # "ok"
  /\ at \in Flow \ {"begin"} \/ CancelsAttempt => Open
  /\ leader \in Working => Open

LEMMA LoggedKeeps ==
  ASSUME log \in Seq(Records), LogIsSequential, NEW record \in Records,
         log' = Logged(record),
         (log # <<>> /\ Last(log) = record) \/ MayFollow(record, log)
  PROVE  LogIsSequential'
<1>1. CASE log' = log
  BY <1>1 DEF LogIsSequential
<1>2. CASE log' = Append(log, record) /\ MayFollow(record, log)
  <2> DEFINE grown == Append(log, record)
  <2>1. /\ Len(log) \in Nat /\ Len(grown) = Len(log) + 1
        /\ \A i \in 1 .. Len(log) : grown[i] = log[i]
        /\ grown[Len(log) + 1] = record
    OBVIOUS
  <2>2. ASSUME NEW i \in 1 .. Len(grown)
        PROVE  MayFollow(grown[i], SubSeq(grown, 1, i - 1))
    <3>1. CASE i \in 1 .. Len(log)
      <4>1. SubSeq(grown, 1, i - 1) = SubSeq(log, 1, i - 1)
        BY <2>1, <3>1
      <4>2. MayFollow(log[i], SubSeq(log, 1, i - 1))
        BY <3>1 DEF LogIsSequential
      <4> QED
        BY <2>1, <3>1, <4>1, <4>2
    <3>2. CASE i = Len(log) + 1
      <4>1. SubSeq(grown, 1, i - 1) = log
        BY <2>1, <3>2
      <4> QED
        BY <1>2, <2>1, <3>2, <4>1
    <3> QED
      BY <2>1, <3>1, <3>2
  <2> QED
    BY <1>2, <2>2 DEF LogIsSequential
<1> QED
  BY <1>1, <1>2 DEF Logged

LEMMA LogInit == Init => LogInv
<1> SUFFICES ASSUME Init PROVE LogInv
  OBVIOUS
<1>1. log = <<>> /\ attempt = 1 /\ leader = "none" /\ at = "begin"
  BY DEF Init, HelperInit
<1> QED
  BY <1>1 DEF LogInv, LogIsSequential, Open, Working, CancelsAttempt, Cancelling

(* Only the start and the exit of an attempt, and a helper at work, log. *)
LEMMA LogNext ==
  ShellInv /\ StreamInv /\ LogInv /\ [Next]_vars => LogInv'
<1> SUFFICES ASSUME ShellInv, StreamInv, LogInv, [Next]_vars PROVE LogInv'
  OBVIOUS
<1>0. log \in Seq(Records) /\ attempt \in Nat
  BY BoundsAssumption DEF StreamInv, TypeOK, HelperTypeOK
<1>1. CASE BeginAttempt
  <2>1. CASE UNCHANGED log /\ Exit("failed")
    BY <1>1, <2>1
       DEF BeginAttempt, Exit, Go, helperVars, LogInv, LogIsSequential, Open, Flow,
           Cancelling, CancelsAttempt, ResultInv, StreamInv
  <2>2. CASE /\ log' = Logged([kind |-> "attempt_start", attempt |-> attempt])
             /\ Go("clear")
    <3> DEFINE record == [kind |-> "attempt_start", attempt |-> attempt]
    <3>1. record \in Records /\ MayFollow(record, log)
      BY <1>1 DEF BeginAttempt, LogInv, MayFollow, Records, StreamInv, TypeOK,
                  HelperTypeOK
    <3>2. LogIsSequential'
      BY <1>0, <2>2, <3>1, LoggedKeeps DEF LogInv
    <3>3. log' # <<>> /\ Last(log') = record
      BY <1>0, <2>2, <3>1, LoggedType
    <3>4. Open'
      BY <1>1, <3>3 DEF Open, BeginAttempt
    <3>5. at' # "begin"
      BY <2>2 DEF Go
    <3> QED
      BY <3>2, <3>4, <3>5 DEF LogInv
  <2> QED
    BY <1>1, <2>1, <2>2 DEF BeginAttempt
<1>2. CASE RecordExit
  <2>1. leader \notin Working /\ leader' = leader
    BY <1>2 DEF RecordExit, helperVars, ShellInv, AttemptInv, Working, Over
  <2>2. CASE UNCHANGED <<log, attempt>> /\ Exit("failed")
    BY <1>2, <2>1, <2>2
       DEF RecordExit, Exit, LogInv, LogIsSequential, Open, Flow, Cancelling,
           CancelsAttempt, ResultInv, StreamInv
  <2>3. CASE log' = Logged([kind |-> "attempt_exit", attempt |-> attempt,
                            exitCode |-> status])
    <3> DEFINE record == [kind |-> "attempt_exit", attempt |-> attempt,
                          exitCode |-> status]
    <3>1. record \in Records
      BY <1>2 DEF RecordExit, Records, StreamInv, TypeOK, HelperTypeOK, ResultInv
    <3>2. MayFollow(record, log)
      BY <1>2 DEF RecordExit, MayFollow, LogInv, Open, Flow
    <3>3. LogIsSequential'
      BY <1>0, <2>3, <3>1, <3>2, LoggedKeeps DEF LogInv
    <3>4. log' # <<>> /\ Last(log') = record
      BY <1>0, <2>3, <3>1, LoggedType
    <3>5. \/ at' = "begin" /\ attempt' = attempt + 1 /\ status # "ok"
          \/ at' \in {"look", "exited"} /\ caller' = "exit"
      BY <1>2, <2>3 DEF RecordExit, Go, Exit, Logged, StreamInv, ResultInv, Flow, Last
    <3> QED
      BY <1>0, <2>1, <3>3, <3>4, <3>5
         DEF LogInv, Flow, CancelsAttempt, Cancelling
  <2> QED
    BY <1>2, <2>2, <2>3 DEF RecordExit
<1>3. CASE GroupRuns /\ (Pi \/ ReadFails \/ EndOfStream \/ Conclude \/ PrintFinal
                          \/ HelperExits)
  <2>1. UNCHANGED <<attempt, log, at, caller>>
    BY <1>3 DEF GroupRuns, runner, Pi, PiStarts, PiEnds, PiStreams, PiGarbles, PiWrites,
                PiExits, ReadFails, EndOfStream, Conclude, PrintFinal, HelperExits
  <2>2. leader' \in Working => leader \in Working
    BY <1>3 DEF Pi, PiStarts, PiEnds, PiStreams, PiGarbles, PiWrites, PiExits,
                ReadFails, EndOfStream, Conclude, PrintFinal, HelperExits, Working
  <2> QED
    BY <2>1, <2>2 DEF LogInv, LogIsSequential, Open, CancelsAttempt
<1>4. CASE GroupRuns /\ (OpenLog \/ HandleLine)
  <2>1. /\ leader \in Working /\ attempt' = attempt
        /\ UNCHANGED <<at, caller>>
    BY <1>4 DEF GroupRuns, runner, OpenLog, HandleLine, Working
  <2>2. Open
    BY <2>1 DEF LogInv
  <2>3. \/ log' = log
        \/ log' = Logged([kind |-> "wrapper_error", attempt |-> attempt])
        \/ log' = Logged([kind |-> "pi_event", attempt |-> attempt])
    BY <1>4 DEF OpenLog, HandleLine
  <2>4. ASSUME NEW k \in {"wrapper_error", "pi_event"},
               log' = Logged([kind |-> k, attempt |-> attempt])
        PROVE  LogIsSequential' /\ Open'
    <3> DEFINE record == [kind |-> k, attempt |-> attempt]
    <3>1. record \in Records
      BY DEF Records, StreamInv, TypeOK, HelperTypeOK
    <3>2. MayFollow(record, log)
      BY <2>2 DEF MayFollow, Open
    <3>3. LogIsSequential'
      BY <1>0, <2>4, <3>1, <3>2, LoggedKeeps DEF LogInv
    <3>4. log' # <<>> /\ Last(log') = record
      BY <1>0, <2>4, <3>1, LoggedType
    <3> QED
      BY <2>1, <3>3, <3>4 DEF Open
  <2>5. LogIsSequential' /\ Open'
    BY <2>1, <2>2, <2>3, <2>4 DEF LogInv, LogIsSequential, Open
  <2>6. at' # "begin"
    BY <2>1 DEF LogInv
  <2> QED
    BY <2>5, <2>6 DEF LogInv
<1>5. CASE ForkChild
  BY <1>5 DEF ForkChild, Go, Launch, LogInv, LogIsSequential, Open, Flow,
              CancelsAttempt, Cancelling
<1>6. CASE \/ UNCHANGED vars
           \/ Watchdog \/ TimerFires \/ LeaderDies \/ PiDies
  <2>1. UNCHANGED <<attempt, log, at, caller>>
    BY <1>6 DEF vars, runner, Watchdog, TimerFires, LeaderDies, PiDies
  <2>2. leader' \in Working => leader \in Working
    BY <1>6 DEF vars, helperVars, Watchdog, TimerFires, LeaderDies, PiDies, Working
  <2> QED
    BY <2>1, <2>2 DEF LogInv, LogIsSequential, Open, CancelsAttempt
<1>7. CASE \/ ClearAttempt \/ NoteChild \/ ForkWatchdog \/ NoteWatchdog
           \/ WaitChild \/ TestMarker \/ TimedOut \/ CancelWatchdog
           \/ NothingToCancel \/ ReapWatchdog \/ StopGroup \/ PollGroup \/ Stopped
           \/ Signal
  <2>1. UNCHANGED <<attempt, log, leader>>
    BY <1>7
       DEF helperVars, ClearAttempt, NoteChild, ForkWatchdog, NoteWatchdog, WaitChild,
           TestMarker, TimedOut, CancelWatchdog, NothingToCancel, ReapWatchdog,
           StopGroup, PollGroup, Stopped, Signal
  <2>2. /\ at' # "begin"
        /\ at' \in Flow \/ CancelsAttempt' => at \in Flow \ {"begin"} \/ CancelsAttempt
    BY <1>7
       DEF ClearAttempt, NoteChild, ForkWatchdog, NoteWatchdog, WaitChild, TestMarker,
           TimedOut, CancelWatchdog, NothingToCancel, ReapWatchdog, StopGroup,
           PollGroup, Stopped, Signal, Go, Exit, AfterCancel, AfterStop, Flow,
           Cancelling, CancelsAttempt, StreamInv, ResultInv
  <2> QED
    BY <2>1, <2>2 DEF LogInv, LogIsSequential, Open
<1> QED
  BY <1>1, <1>2, <1>3, <1>4, <1>5, <1>6, <1>7 DEF Next, Runner, GroupRuns, Helper

-----------------------------------------------------------------------------
(* The theorems. *)

LEMMA ShellAlways == ~Gaps => (Spec => []ShellInv)
<1> SUFFICES ASSUME ~Gaps PROVE Spec => []ShellInv
  OBVIOUS
<1>1. ShellInv /\ [Next]_vars => ShellInv'
  BY ShellNext
<1> QED
  BY <1>1, ShellInit, PTL DEF Spec

(* Attempts, messages and signals of any number: exit status 0 means that the
   last message of Pi, completed and whole, is what was printed (pi_review_events.ts,
   finalizeStreamOutcome). *)
THEOREM SuccessMeansLastMessage == Spec => []SuccessIsTheLastMessage
<1>1. StreamInv => SuccessIsTheLastMessage
  <2> SUFFICES ASSUME StreamInv PROVE SuccessIsTheLastMessage
    OBVIOUS
  <2>1. ASSUME leader = "ok" PROVE out # None /\ out = final /\ pi = "ok"
    <3>1. pipe = <<>> /\ ~streamError /\ Complete /\ pi = "ok" /\ out = tracker.text
      BY <2>1 DEF StreamInv, OutcomeInv
    <3>2. final = TrackerVerdict
      BY <3>1 DEF StreamInv, PipeInv
    <3> QED
      BY <3>1, <3>2 DEF Complete, TrackerVerdict
  <2> QED
    BY <2>1 DEF StreamInv, ResultInv, OutcomeInv, SuccessIsTheLastMessage
<1> QED
  BY <1>1, StreamInit, StreamNext, PTL DEF Spec

(* The runner leaves no process of the group behind, however it ends
   (review_common.sh, review_stop_process_group). *)
THEOREM NobodySurvives == ~Gaps => (Spec => []NoSurvivors)
<1> SUFFICES ASSUME ~Gaps PROVE Spec => []NoSurvivors
  OBVIOUS
<1>1. ShellInv => NoSurvivors
  BY DEF ShellInv, PidInv, NoSurvivors
<1> QED
  BY <1>1, ShellAlways, PTL

(* An interrupted attempt is recorded as timed out, and only such a one
   (review_common.sh, review_run_one_attempt). *)
THEOREM TimeoutMeansInterruption == ~Gaps => (Spec => []InterruptionIsTimeout)
<1> SUFFICES ASSUME ~Gaps PROVE Spec => []InterruptionIsTimeout
  OBVIOUS
<1>1. ShellInv => InterruptionIsTimeout
  BY DEF ShellInv, AttemptInv, InterruptionIsTimeout
<1> QED
  BY <1>1, ShellAlways, PTL

(* No process, no watchdog and no event of an attempt reaches into the next
   (run_pi_review.sh, the loop over the attempts). *)
THEOREM AttemptsApart == ~Gaps => (Spec => []AttemptsAreApart)
<1> SUFFICES ASSUME ~Gaps PROVE Spec => []AttemptsAreApart
  OBVIOUS
<1> DEFINE AllInv == ShellInv /\ StreamInv /\ LogInv
<1>1. Init => AllInv
  BY ShellInit, StreamInit, LogInit
<1>2. AllInv /\ [Next]_vars => AllInv'
  BY ShellNext, StreamNext, LogNext
<1>3. AllInv => AttemptsAreApart
  BY DEF ShellInv, PidInv, StreamInv, LogInv, AttemptsAreApart, AttemptsDoNotOverlap
<1> HIDE DEF AllInv
<1> QED
  BY <1>1, <1>2, <1>3, PTL DEF Spec
=============================================================================
