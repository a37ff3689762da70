------------------------------ MODULE ImplRun ------------------------------
(***************************************************************************)
(* One implementation run: the helper that starts Pi, reads its stream and *)
(* records the run in metadata.json (run_impl_events.ts), and the callers  *)
(* that record their validation in the same file (set-validation of        *)
(* impl_history.ts), which may come at any moment.  A step of the helper   *)
(* ends at an await.  Every write of metadata.json is a rename.            *)
(*                                                                         *)
(* History variables: "lines", the lines that were read; "asked", the last *)
(* validation that was recorded; "overlapped", a validation was under way  *)
(* together with the run or with another one, although SKILL.md places     *)
(* validation after the run.                                               *)
(***************************************************************************)
EXTENDS ImplHistory, Sequences

CONSTANTS
  Alive,         \* the state of a process before it exits
  Lines,         \* bound: the usable lines that Pi prints
  MaxLines,      \* bound: how many lines are read
  ExitCodes,     \* bound: the exit codes of Pi, signals as 128 + n
  Provenances,   \* what the revision of the working copy may resolve to
  OtherRuns,     \* the records of other runs
  Setters        \* callers of set-validation

ASSUME ImplAssumption ==
  /\ MaxLines \in Nat /\ 0 \in ExitCodes /\ ExitCodes \subseteq 0..255
  /\ MaxFinite \in Nat
  /\ None # 0 /\ None # "stop" /\ None \notin BOOLEAN
  /\ Alive \notin ExitCodes

ReportsUsage(line) == line.type \in {"message_end", "compaction_end"}

ASSUME LinesAssumption ==
  \A l \in Lines :
    /\ "type" \in DOMAIN l
    /\ l.type \in {"agent_start", "message_start", "message_end",
                   "compaction_end", "tool_execution_end", "agent_settled",
                   "auto_retry_start"}
    /\ ReportsUsage(l) =>
         /\ "usage" \in DOMAIN l /\ DOMAIN l.usage \subseteq Metrics
         /\ \A k \in DOMAIN l.usage : l.usage[k] \in Nat
    /\ l.type = "agent_settled" => l.aborted \in BOOLEAN \cup {None}
    /\ l.type = "tool_execution_end" => l.isError \in BOOLEAN

IsProvenance(p) ==
  /\ p = [kind |-> p.kind, revision |-> p.revision, comparable |-> p.comparable,
          repository |-> p.repository]
  /\ p.comparable \in BOOLEAN
  /\ ValidProvenance(p)

(* Every record in the history was accepted by its readers. *)
ASSUME RecordsAssumption ==
  /\ \A p \in Provenances : IsProvenance(p)
  /\ IsFiniteSet(OtherRuns)
  /\ \A m \in OtherRuns : ValidRunMetadata(m) /\ IsProvenance(m.provenance)

VARIABLES
  phase,       \* where the helper is
  pi,          \* None before it is started, Alive, or its exit code
  signalled,   \* Pi was sent SIGTERM
  unread,      \* Pi left output in a pipe that is not being read
  discarding,  \* the helper skips the rest of an overlong line
  stream,
  meta,        \* metadata.json, None before it is written
  printed,     \* the text on the standard output
  status,      \* the exit status of the helper
  setter,      \* the record each caller is about to write, None when idle
  lines, asked, overlapped

vars == <<phase, pi, signalled, unread, discarding, stream, meta, printed,
          status, setter, lines, asked, overlapped>>
piVars == <<pi, signalled, unread>>
streamVars == <<discarding, stream, lines>>
setVars == <<setter, asked, overlapped>>
outVars == <<printed, status>>

BadLine == [type |-> "bad"]
Ended == phase \in {"exited", "killed"}

InitialMetadata(provenance) ==
  [runId |-> "run", model |-> "m1", prompt |-> "p1", systemPrompt |-> "s1",
   status |-> "running", provenance |-> provenance, usage |-> EmptyUsage,
   responses |-> 0, compactions |-> 0, retries |-> 0, calls |-> 0,
   toolErrors |-> 0, parent |-> "unverified"]

RecordedStatus(outcome, child) == IF child = 0 THEN outcome.status ELSE "failed"

(* The fields that were known at the start are kept. *)
FinalMetadata(initial, s, outcome, child) ==
  LET m == [runId |-> initial.runId, model |-> initial.model,
            prompt |-> initial.prompt, systemPrompt |-> initial.systemPrompt,
            provenance |-> initial.provenance,
            status |-> RecordedStatus(outcome, child),
            usage |-> FinalUsage(s), responses |-> s.responses,
            compactions |-> s.compactions, retries |-> s.retries,
            calls |-> s.calls, toolErrors |-> s.toolErrors,
            parent |-> "unverified", exit |-> child]
  IN  IF outcome.stop = None THEN m ELSE Merge(m, [stop |-> outcome.stop])

FailureMetadata(initial) ==
  FinalMetadata(initial, NewStream, FinalizeStream(NewStream), 1)

Init ==
  /\ phase = "start"
  /\ pi = None /\ signalled = FALSE /\ unread = FALSE
  /\ discarding = FALSE /\ stream = NewStream
  /\ meta = None
  /\ printed = None /\ status = None
  /\ setter = [s \in Setters |-> None]
  /\ lines = <<>> /\ asked = "unverified" /\ overlapped = FALSE

-----------------------------------------------------------------------------
(* The helper. *)

ExitWith(code) == phase' = "exited" /\ status' = code

(* The first record is written, and Pi is started. *)
Prepare ==
  /\ phase = "start"
  /\ \E p \in Provenances : meta' = InitialMetadata(p)
  /\ phase' = "drain"
  /\ pi' = Alive
  /\ UNCHANGED <<signalled, unread, streamVars, outVars, setVars>>

(* The first record cannot be written, though its replacement may be; or it  *)
(* is written, the events file cannot be created or Pi cannot be started, and *)
(* its replacement may fail, so that it stays.                               *)
PrepareFails ==
  /\ phase = "start"
  /\ \/ UNCHANGED meta
     \/ \E p \in Provenances :
          meta' \in {InitialMetadata(p), FailureMetadata(InitialMetadata(p))}
  /\ ExitWith(1)
  /\ UNCHANGED <<piVars, streamVars, printed, setVars>>

(* Pi starts anew, which takes back what it said of its end. *)
Starts == {"agent_start", "message_start"}

Labelled(line) ==
  IF line.type = "message_end" THEN Merge([text |-> Len(lines) + 1], line)
  ELSE line

Draining == phase = "drain" /\ Len(lines) < MaxLines

(* What Pi printed before its end is read while it counts as alive. *)
HandleLine ==
  /\ Draining /\ pi = Alive /\ ~discarding
  /\ \E l \in Lines :
       /\ stream' = ApplyLine(stream, Labelled(l))
       /\ lines' = Append(lines, Labelled(l))
  /\ UNCHANGED <<phase, piVars, discarding, meta, outVars, setVars>>

(* A line that is no record, no UTF-8 or too long, or whose entry of the     *)
(* events log cannot be written.                                             *)
BadLineRead ==
  /\ Draining /\ pi = Alive /\ ~discarding
  /\ stream' = NoteError(stream)
  /\ lines' = Append(lines, BadLine)
  /\ discarding' \in BOOLEAN
  /\ UNCHANGED <<phase, piVars, meta, outVars, setVars>>

NewlineFound ==
  /\ phase = "drain" /\ discarding
  /\ discarding' = FALSE
  /\ UNCHANGED <<phase, piVars, stream, lines, meta, outVars, setVars>>

(* Broken: the helper waits for the end of Pi without asking for it. *)
WaitOnly == UNCHANGED signalled

Terminate == signalled' = (signalled \/ pi = Alive)

(* More than the limit was discarded: Pi is terminated, and its end is       *)
(* awaited within the loop that reads its output.                            *)
Overflow ==
  /\ phase = "drain" /\ discarding /\ pi = Alive
  /\ Terminate
  /\ unread' \in BOOLEAN
  /\ phase' = "overflow"
  /\ UNCHANGED <<pi, streamVars, meta, outVars, setVars>>

PiClosed == pi \in ExitCodes /\ ~unread

OverflowEnds ==
  /\ phase = "overflow" /\ PiClosed
  /\ phase' = "drain"
  /\ UNCHANGED <<piVars, streamVars, meta, outVars, setVars>>

(* The output cannot be read any further: the helper fails. *)
ReadFails ==
  /\ phase = "drain"
  /\ Terminate
  /\ phase' = "abort"
  /\ UNCHANGED <<pi, unread, streamVars, meta, outVars, setVars>>

Abort ==
  /\ phase = "abort" /\ PiClosed
  /\ meta' \in {meta, FailureMetadata(meta)}
  /\ ExitWith(1)
  /\ UNCHANGED <<piVars, streamVars, printed, setVars>>

(* Broken: a record that could not be written is not missed. *)
WriteFailsUnnoticed ==
  /\ phase' = "print"
  /\ UNCHANGED <<meta, status>>

WriteFails ==
  /\ meta' \in {meta, FailureMetadata(meta)}
  /\ ExitWith(1)

(* The stream and Pi have ended: the run is recorded before its result is    *)
(* printed.                                                                  *)
FinishRun ==
  /\ phase = "drain" /\ PiClosed
  /\ LET s == IF discarding THEN NoteError(stream) ELSE stream
         outcome == FinalizeStream(s)
         code == ResolveExitCode(outcome, pi)
     IN  \/ /\ meta' = FinalMetadata(meta, s, outcome, pi)
            /\ IF code = 0 THEN phase' = "print" /\ UNCHANGED status
               ELSE ExitWith(code)
         \/ WriteFails
  /\ UNCHANGED <<piVars, streamVars, printed, setVars>>

WriteStdout ==
  /\ phase = "print"
  /\ \/ printed' = FinalizeStream(stream).text /\ ExitWith(0)
     \/ ExitWith(1) /\ UNCHANGED printed
  /\ UNCHANGED <<piVars, streamVars, meta, setVars>>

KillHelper ==
  /\ ~Ended
  /\ phase' = "killed"
  /\ UNCHANGED <<piVars, streamVars, meta, outVars, setVars>>

-----------------------------------------------------------------------------
(* Pi. *)

PiExits ==
  /\ pi = Alive
  /\ pi' \in ExitCodes
  /\ UNCHANGED <<phase, signalled, unread, streamVars, meta, outVars, setVars>>

PiTerminated ==
  /\ pi = Alive /\ signalled
  /\ pi' \in ExitCodes
  /\ UNCHANGED <<phase, signalled, unread, streamVars, meta, outVars, setVars>>

-----------------------------------------------------------------------------
(* set-validation. *)

Settable == {"passed", "failed", "not-run"}
Busy(s) == setter[s] # None

MayBeMarked(m, parent) == parent = "passed" => m.status = "completed"

SetRead(s) ==
  /\ ~Busy(s)
  /\ meta # None /\ ValidRunMetadata(meta)
  /\ \E parent \in Settable :
       /\ MayBeMarked(meta, parent)
       /\ ValidRunMetadata([meta EXCEPT !.parent = parent])
       /\ setter' = [setter EXCEPT ![s] = [meta EXCEPT !.parent = parent]]
  /\ overlapped' = (overlapped \/ ~Ended \/ \E t \in Setters \ {s} : Busy(t))
  /\ UNCHANGED <<phase, piVars, streamVars, meta, outVars, asked>>

SetRename(s) ==
  /\ Busy(s)
  /\ meta' = setter[s]
  /\ asked' = setter[s].parent
  /\ setter' = [setter EXCEPT ![s] = None]
  /\ UNCHANGED <<phase, piVars, streamVars, outVars, overlapped>>

SetFails(s) ==
  /\ Busy(s)
  /\ setter' = [setter EXCEPT ![s] = None]
  /\ UNCHANGED <<phase, piVars, streamVars, meta, outVars, asked, overlapped>>

-----------------------------------------------------------------------------
Helper ==
  \/ Prepare \/ PrepareFails \/ OverflowEnds \/ Abort \/ FinishRun \/ WriteStdout

Next ==
  \/ Helper
  \/ HandleLine \/ BadLineRead \/ NewlineFound \/ Overflow \/ ReadFails
  \/ KillHelper
  \/ PiExits \/ PiTerminated
  \/ \E s \in Setters : SetRead(s) \/ SetRename(s) \/ SetFails(s)

Fairness == WF_vars(Helper) /\ WF_vars(PiTerminated)

Spec == Init /\ [][Next]_vars /\ Fairness
-----------------------------------------------------------------------------
(* Properties. *)

(* Whatever is under the name metadata.json, at any moment and after any      *)
(* failure or concurrent validation, is a record its readers accept.          *)
MetadataIsValid == meta # None => ValidRunMetadata(meta)

UsageLines == {i \in DOMAIN lines : ReportsUsage(lines[i])}
Answer(i) ==
  /\ lines[i].type = "message_end"
  /\ \A j \in (i + 1)..Len(lines) : lines[j].type \notin Starts \cup {"message_end"}
SettledUnaborted ==
  \E j \in DOMAIN lines :
    /\ lines[j].type = "agent_settled" /\ lines[j].aborted = FALSE
    /\ \A k \in (j + 1)..Len(lines) : lines[k].type \notin Starts

CompletionIsTrue ==
  /\ \E i \in DOMAIN lines : Answer(i) /\ lines[i].stop = "stop"
  /\ SettledUnaborted
  /\ \A i \in DOMAIN lines : lines[i] # BadLine
  /\ pi = 0

Reported(k) == SumFunction([i \in UsageLines |-> Get(lines[i].usage, k, 0)])
MetricsAreExact(usage) ==
  \A k \in CoreMetrics :
    /\ \A i \in UsageLines : k \in DOMAIN lines[i].usage
    /\ usage.sum[k] = Reported(k)

(* The record tells what Pi did: a run is completed only when the last        *)
(* answer ended with "stop" and the agent settled unaborted with no restart   *)
(* after either, every line was usable and Pi exited with 0; and coverage is  *)
(* complete only when every answer and compaction reported all core metrics,  *)
(* whose totals are then exact.                                               *)
RecordIsTrue ==
  meta # None =>
    /\ meta.status = "completed" => CompletionIsTrue
    /\ meta.usage.coverage = "complete" => MetricsAreExact(meta.usage)

(* The caller gets a result only of a run that is recorded as completed, and  *)
(* it is the last answer of Pi; a validation that comes after the run is      *)
(* kept with the result it judged.                                            *)
ResultIsKept ==
  /\ printed # None => Answer(printed)
  /\ ~overlapped /\ status = 0 =>
       meta.status = "completed" /\ meta.parent = asked

FairRow(records, row) ==
  /\ row.runs = row.completed + row.failed + row.incomplete + row.running
  /\ row.cost = "full" =>
       \A m \in RunsOf(records, row.model) : m.usage.expected > 0 =>
         m.status = "completed" /\ CostKnown(m) = m.usage.expected

SameCase(m, n) ==
  /\ m.prompt = n.prompt /\ m.systemPrompt = n.systemPrompt
  /\ m.provenance = n.provenance /\ m.provenance.comparable

(* The times of two models are compared exactly where both finished the same *)
(* case.                                                                     *)
FairCases(records) ==
  LET compared == {Compared(g) : g \in CaseGroups(records)} IN
  \A m, n \in records : m.model # n.model =>
    ((\E c \in compared : {m, n} \subseteq c)
       <=> SameCase(m, n) /\ "running" \notin {m.status, n.status})

(* The report counts every run once and compares the times of models exactly  *)
(* where both finished one pair of prompts from one known revision; it calls  *)
(* the cost of a model full only when all its runs with an answer completed   *)
(* at a known cost.                                                           *)
ReportIsFair ==
  LET records == OtherRuns \cup (IF meta = None THEN {} ELSE {meta})
      rows == ModelRows(records)
  IN  /\ SumFunction([row \in rows |-> row.runs]) = Cardinality(records)
      /\ \A row \in rows : FairRow(records, row)
      /\ FairCases(records)

(* Once Pi has ended, or its output failed, the helper ends too, with Pi:     *)
(* unless it waits for the close of a pipe that it no longer reads.           *)
HelperEnds ==
  pi \in ExitCodes \/ phase \in {"overflow", "abort"}
    ~> (Ended /\ (phase = "exited" => pi # Alive)) \/ (phase = "overflow" /\ unread)
=============================================================================
