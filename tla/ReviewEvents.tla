---------------------------- MODULE ReviewEvents ----------------------------
(***************************************************************************)
(* One review by Pi under the events helper                                *)
(* (skills/parallel-review/scripts/pi_review_events.ts).  Pi writes lines  *)
(* of JSON into a pipe; the helper logs each as metadata, tracks what the  *)
(* last assistant message said, and prints that message when Pi is done.   *)
(* ReviewAttempts runs one such pair after another.                        *)
(***************************************************************************)
EXTENDS Naturals, Sequences, SequencesExt

CONSTANTS
  Attempts,    \* --attempts
  MaxMessages, \* bound: assistant messages Pi starts in an attempt
  PipeSize,    \* bound: lines in the pipe
  Part,        \* a part of a message
  None

ASSUME BoundsAssumption ==
  Attempts \in Nat \ {0} /\ MaxMessages \in Nat \ {0} /\ PipeSize \in Nat \ {0}

Messages == 1 .. MaxMessages

ASSUME NoneAssumption ==
  /\ None \notin Messages /\ Part \notin Messages /\ Part # None

VARIABLES
  attempt,     \* the number of the attempt, --attempt of the helper
  log,         \* the events log
  leader,      \* the helper, leader of the process group
  pi,          \* Pi, its child
  said,        \* assistant messages Pi started
  pipe,        \* lines on their way from Pi to the helper
  tracker,     \* what the helper knows of the last message
  streamError, \* the stream was malformed, unreadable or could not be logged
  out,         \* what the helper printed: a message, or part of one
  final        \* history: the last message, if Pi completed it well

helperVars == <<leader, pi, said, pipe, tracker, streamError, out, final>>

Working == {"open", "reading", "closing", "printing", "printed"}
Over == {"ok", "failed", "killed"}

(* None: missing, or not one of SUCCESS_STOP_REASONS *)
StopReasons == {"stop", None}

Lines ==
  [kind : {"start", "delta", "bad"}]
    \union [kind : {"end"}, stop : StopReasons, text : Messages \union {None}]

Trackers ==
  [assistantMessageEnded : BOOLEAN, stop : StopReasons, text : Messages \union {None}]

createStreamTracker ==
  [assistantMessageEnded |-> FALSE, stop |-> None, text |-> None]

Records ==
  [kind : {"attempt_start", "pi_event", "wrapper_error"}, attempt : 1 .. Attempts]
    \union [kind : {"attempt_exit"}, attempt : 1 .. Attempts,
            exitCode : {"ok", "failed", "timeout"}]

HelperTypeOK ==
  /\ attempt \in 1 .. Attempts
  /\ log \in Seq(Records)
  /\ leader \in {"none"} \union Working \union Over
  /\ pi \in {"none", "running", "ok", "failed"}
  /\ said \in 0 .. MaxMessages
  /\ pipe \in Seq(Lines) /\ Len(pipe) <= PipeSize
  /\ tracker \in Trackers
  /\ streamError \in BOOLEAN
  /\ out \in Messages \union {None, Part}
  /\ final \in Messages \union {None}

HelperInit ==
  /\ leader = "none" /\ pi = "none" /\ said = 0 /\ pipe = <<>>
  /\ tracker = createStreamTracker /\ streamError = FALSE
  /\ out = None /\ final = None

(* A new helper, before its first step. *)
Launch ==
  /\ leader' = "open" /\ pi' = "none" /\ said' = 0 /\ pipe' = <<>>
  /\ tracker' = createStreamTracker /\ streamError' = FALSE
  /\ out' = None /\ final' = None

-----------------------------------------------------------------------------
(* The log, in which a run of events of one attempt counts once.           *)

Logged(record) ==
  IF log # <<>> /\ Last(log) = record THEN log ELSE Append(log, record)

-----------------------------------------------------------------------------
(* Pi.                                                                     *)

PiWrites(line) ==
  /\ pi = "running" /\ Len(pipe) < PipeSize
  /\ pipe' = Append(pipe, line)
  /\ UNCHANGED <<attempt, log, leader, pi, tracker, streamError, out>>

PiStarts ==
  /\ said < MaxMessages
  /\ said' = said + 1 /\ final' = None
  /\ PiWrites([kind |-> "start"])

PiEnds(stop, text) ==
  /\ said > 0
  /\ text \in {said, None}
  /\ final' = IF stop = "stop" THEN text ELSE None
  /\ UNCHANGED said
  /\ PiWrites([kind |-> "end", stop |-> stop, text |-> text])

PiStreams ==
  /\ UNCHANGED <<said, final>>
  /\ PiWrites([kind |-> "delta"])

(* A malformed line, or one cut off. *)
PiGarbles ==
  /\ final' = None /\ UNCHANGED said
  /\ PiWrites([kind |-> "bad"])

PiExits ==
  /\ pi = "running"
  /\ pi' \in {"ok", "failed"}
  /\ UNCHANGED <<attempt, log, leader, said, pipe, tracker, streamError, out, final>>

Pi ==
  \/ PiStarts \/ PiStreams \/ PiGarbles \/ PiExits
  \/ \E stop \in StopReasons, text \in Messages \union {None} : PiEnds(stop, text)

-----------------------------------------------------------------------------
(* The helper.                                                             *)

(* The log is opened and Pi spawned; either may fail. *)
OpenLog ==
  /\ leader = "open"
  /\ \/ leader' = "failed" /\ UNCHANGED <<log, pi>>
     \/ /\ leader' = "failed"
        /\ log' = Logged([kind |-> "wrapper_error", attempt |-> attempt])
        /\ UNCHANGED pi
     \/ leader' = "reading" /\ pi' = "running" /\ UNCHANGED log
  /\ UNCHANGED <<attempt, said, pipe, tracker, streamError, out, final>>

(* Broken: a new message does not reset the one before. *)
AdvanceKeepingFinal(line) ==
  IF line.kind = "end"
  THEN [assistantMessageEnded |-> TRUE, stop |-> line.stop,
        text |-> IF line.text = None THEN tracker.text ELSE line.text]
  ELSE tracker

(* advanceCategory and the tracker's part of sanitizePiRecord *)
Advance(line) ==
  IF line.kind = "start" THEN createStreamTracker
  ELSE IF line.kind = "end"
  THEN [assistantMessageEnded |-> TRUE, stop |-> line.stop, text |-> line.text]
  ELSE tracker

(* handleLine: after the first error the rest of the stream is skipped. *)
HandleLine ==
  LET line == Head(pipe) IN
  /\ leader = "reading" /\ pipe # <<>>
  /\ pipe' = Tail(pipe)
  /\ IF streamError THEN UNCHANGED <<tracker, streamError, log>>
     ELSE IF line.kind = "bad" THEN streamError' = TRUE /\ UNCHANGED <<tracker, log>>
     ELSE /\ tracker' = Advance(line)
          /\ \/ streamError' = TRUE /\ UNCHANGED log
             \/ /\ log' = Logged([kind |-> "pi_event", attempt |-> attempt])
                /\ UNCHANGED streamError
  /\ UNCHANGED <<attempt, leader, pi, said, out, final>>

(* Reading stdout fails, the `catch` of the loop. *)
ReadFails ==
  /\ leader = "reading"
  /\ leader' = "closing" /\ streamError' = TRUE
  /\ UNCHANGED <<attempt, log, pi, said, pipe, tracker, out, final>>

EndOfStream ==
  /\ leader = "reading" /\ pipe = <<>> /\ pi # "running"
  /\ leader' = "closing"
  /\ UNCHANGED <<attempt, log, pi, said, pipe, tracker, streamError, out, final>>

(* finalizeStreamOutcome *)
Complete ==
  tracker.assistantMessageEnded /\ tracker.stop = "stop" /\ tracker.text # None

(* Pi has exited and its pipe is closed: resolveWrapperExitCode. *)
Conclude ==
  /\ leader = "closing" /\ pi # "running"
  /\ leader' = IF pi = "ok" /\ ~streamError /\ Complete THEN "printing" ELSE "failed"
  /\ UNCHANGED <<attempt, log, pi, said, pipe, tracker, streamError, out, final>>

(* writeAll may fail half-way. *)
PrintFinal ==
  /\ leader = "printing"
  /\ \/ leader' = "printed" /\ out' = tracker.text
     \/ leader' = "failed" /\ out' \in {None, Part}
  /\ UNCHANGED <<attempt, log, pi, said, pipe, tracker, streamError, final>>

HelperExits ==
  /\ leader = "printed"
  /\ leader' = "ok"
  /\ UNCHANGED <<attempt, log, pi, said, pipe, tracker, streamError, out, final>>

Helper ==
  \/ OpenLog \/ HandleLine \/ ReadFails \/ EndOfStream \/ Conclude
  \/ PrintFinal \/ HelperExits
=============================================================================
