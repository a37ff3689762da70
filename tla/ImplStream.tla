----------------------------- MODULE ImplStream -----------------------------
(***************************************************************************)
(* What an implementation run makes of the lines that Pi prints            *)
(* (impl_stream.ts): the flags of the last answer, the totals of usage,    *)
(* and the outcome once the stream has ended.  A line is a record with a   *)
(* type; a line that cannot be used has the type "bad".  A slice of usage  *)
(* maps the metrics it reports to their numbers, and a sum that exceeds    *)
(* MaxFinite is not finite.  The text of an answer is a number.            *)
(***************************************************************************)
EXTENDS Integers, FiniteSets, TLC

CONSTANTS
  None,       \* an absent value
  MaxFinite   \* the largest finite number

CoreMetrics == {"input", "output", "cacheRead", "cacheWrite"}
Metrics == CoreMetrics \cup
  {"cacheWrite1h", "reasoning", "totalTokens", "estimatedCostUsd"}

Get(f, key, default) == IF key \in DOMAIN f THEN f[key] ELSE default

(* The fields of f, and those of g that f does not have. *)
Merge(f, g) ==
  [k \in DOMAIN f \cup DOMAIN g |-> IF k \in DOMAIN f THEN f[k] ELSE g[k]]

-----------------------------------------------------------------------------
(* Usage. *)

EmptyUsage ==
  [coverage |-> "unknown", sources |-> {}, expected |-> 0,
   known |-> <<>>, sum |-> <<>>]

AnyCore(known) == \E k \in CoreMetrics : Get(known, k, 0) > 0

Coverage(expected, known) ==
  IF expected = 0 \/ ~AnyCore(known) THEN "unknown"
  ELSE IF \A k \in CoreMetrics : Get(known, k, 0) = expected THEN "complete"
  ELSE "partial"

(* A sum that overflows is forgotten, with the slices that were counted. *)
AddUsageSlice(usage, slice, source) ==
  LET total == [k \in DOMAIN slice |-> Get(usage.sum, k, 0) + slice[k]]
      kept == {k \in DOMAIN slice : total[k] <= MaxFinite}
      keys == (DOMAIN usage.sum \ DOMAIN slice) \cup kept
      known == [k \in keys |->
                  Get(usage.known, k, 0) + IF k \in kept THEN 1 ELSE 0]
  IN  [coverage |-> Coverage(usage.expected + 1, known),
       sources |-> usage.sources \cup {source},
       expected |-> usage.expected + 1,
       known |-> known,
       sum |-> [k \in keys |-> IF k \in kept THEN total[k] ELSE usage.sum[k]]]

(* Broken: usage after a stream error is called partial in any case. *)
DegradeToPartial(usage) == [usage EXCEPT !.coverage = "partial"]

DegradeUsage(usage) ==
  [usage EXCEPT !.coverage =
     IF usage.expected > 0 /\ AnyCore(usage.known) THEN "partial" ELSE "unknown"]

-----------------------------------------------------------------------------
(* The stream. *)

(* "aborted" is None until an agent_settled says explicitly whether the      *)
(* agent was aborted.                                                        *)
FreshFlags ==
  [ended |-> FALSE, text |-> None, stop |-> None, settled |-> FALSE,
   aborted |-> None]

NewStream ==
  [flags |-> FreshFlags, usage |-> EmptyUsage, responses |-> 0,
   compactions |-> 0, retries |-> 0, calls |-> 0, toolErrors |-> 0,
   error |-> FALSE]

NoteError(stream) == [stream EXCEPT !.error = TRUE]

(* Broken: a new answer forgets the one before but not that it was settled. *)
InvalidateAnswerOnly(flags) ==
  [flags EXCEPT !.ended = FALSE, !.text = None, !.stop = None]

InvalidateTerminalFlags(flags) == FreshFlags

HandleMessageEnd(stream, line) ==
  [stream EXCEPT
     !.flags = [@ EXCEPT !.ended = TRUE, !.stop = line.stop, !.text = line.text],
     !.responses = @ + 1,
     !.usage = AddUsageSlice(@, line.usage, "assistant_message_end")]

HandleCompactionEnd(stream, line) ==
  [stream EXCEPT
     !.compactions = @ + 1,
     !.usage = AddUsageSlice(@, line.usage, "compaction_end")]

HandleSettled(stream, line) ==
  LET f == stream.flags
      aborted == IF line.aborted = None THEN f.aborted ELSE line.aborted
  IN  [stream EXCEPT !.flags = [f EXCEPT !.settled = TRUE, !.aborted = aborted]]

HandleToolEnd(stream, line) ==
  [stream EXCEPT !.calls = @ + 1,
                 !.toolErrors = @ + IF line.isError THEN 1 ELSE 0]

(* message_start and message_end stand for those of the assistant: others    *)
(* change nothing.                                                           *)
ApplyLine(stream, line) ==
  CASE line.type \in {"agent_start", "message_start"} ->
         [stream EXCEPT !.flags = InvalidateTerminalFlags(@)]
    [] line.type = "message_end"        -> HandleMessageEnd(stream, line)
    [] line.type = "compaction_end"     -> HandleCompactionEnd(stream, line)
    [] line.type = "tool_execution_end" -> HandleToolEnd(stream, line)
    [] line.type = "agent_settled"      -> HandleSettled(stream, line)
    [] line.type = "auto_retry_start"   -> [stream EXCEPT !.retries = @ + 1]
    [] line.type = "bad"                -> NoteError(stream)

-----------------------------------------------------------------------------
(* The outcome. *)

Outcome(status, stop, text) ==
  [status |-> status, stop |-> stop, text |-> text]

StopReasonStatus(stop) ==
  CASE stop = "stop" -> "completed"
    [] stop \in {"error", "aborted"} -> "failed"
    [] OTHER -> "incomplete"

FinalizeStream(stream) ==
  LET f == stream.flags
      status ==
        CASE stream.error -> "failed"
          [] ~stream.error /\ f.aborted = TRUE -> "failed"
          [] ~stream.error /\ f.aborted = None -> "incomplete"
          [] ~stream.error /\ f.aborted = FALSE ->
               IF f.settled /\ f.ended THEN StopReasonStatus(f.stop)
               ELSE "incomplete"
  IN  Outcome(status, f.stop, IF status = "completed" THEN f.text ELSE None)

FinalUsage(stream) ==
  IF stream.error THEN DegradeUsage(stream.usage) ELSE stream.usage

ResolveExitCode(outcome, child) ==
  CASE child # 0 -> child
    [] child = 0 -> IF outcome.status = "completed" THEN 0 ELSE 1
=============================================================================
