---------------------------- MODULE ImplRunProofs ----------------------------
(***************************************************************************)
(* The record of an implementation run is valid, true and kept with its    *)
(* result, and the report over a history is fair, for any lines, any       *)
(* number of them, and any number of callers that validate.                *)
(***************************************************************************)
EXTENDS ImplRun, FiniteSums

(* What the usage of a stream satisfies, besides what its readers check:      *)
(* exactly the metrics with a sum have a count.                               *)
Tallied(u) ==
  /\ DOMAIN u = DOMAIN EmptyUsage
  /\ u.expected \in Nat
  /\ u.sources \subseteq UsageSources /\ (u.expected > 0 => u.sources # {})
  /\ DOMAIN u.known \subseteq Metrics /\ DOMAIN u.sum = DOMAIN u.known
  /\ \A k \in DOMAIN u.known :
       u.known[k] \in 1..u.expected /\ u.sum[k] \in 0..MaxFinite
  /\ u.coverage = Coverage(u.expected, u.known)

FlagsOK(f) ==
  /\ DOMAIN f = DOMAIN FreshFlags
  /\ f.ended \in BOOLEAN /\ f.settled \in BOOLEAN
  /\ f.aborted \in BOOLEAN \cup {None}

StreamOK(s) ==
  /\ DOMAIN s = DOMAIN NewStream
  /\ FlagsOK(s.flags) /\ Tallied(s.usage) /\ s.error \in BOOLEAN
  /\ s.responses \in Nat /\ s.compactions \in Nat /\ s.retries \in Nat
  /\ s.calls \in Nat /\ s.toolErrors \in Nat
  /\ s.usage.expected = s.responses + s.compactions

ReadLine ==
  Lines \cup {BadLine} \cup
  {Merge([text |-> n], l) : n \in 1..MaxLines, l \in Lines}

(* A metric that every slice reported has its exact sum. *)
Exact ==
  \A k \in CoreMetrics : Get(stream.usage.known, k, 0) = stream.usage.expected =>
    /\ Get(stream.usage.sum, k, 0) = Reported(k)
    /\ \A i \in UsageLines : k \in DOMAIN lines[i].usage

(* The stream remembers of the lines what the record will be made from. *)
StreamIsTrue ==
  /\ lines \in Seq(ReadLine) /\ Len(lines) <= MaxLines
  /\ ~stream.error => \A i \in DOMAIN lines : lines[i].type # "bad"
  /\ stream.flags.ended =>
       /\ stream.flags.text \in DOMAIN lines /\ Answer(stream.flags.text)
       /\ lines[stream.flags.text].stop = stream.flags.stop
  /\ stream.flags.aborted = FALSE => SettledUnaborted
  /\ Exact

Fields ==
  {"runId", "model", "prompt", "systemPrompt", "status", "provenance", "usage",
   "responses", "compactions", "retries", "calls", "toolErrors", "parent"}

RunRecord(m) ==
  /\ ValidRunMetadata(m) /\ IsProvenance(m.provenance)
  /\ Fields \subseteq DOMAIN m

(* Nothing is read any more once a record claims anything. *)
Done == phase \in {"print", "exited", "killed"}

TrueRecord(m) ==
  /\ m.status = "completed" => Done /\ CompletionIsTrue
  /\ m.usage.coverage = "complete" => Done /\ MetricsAreExact(m.usage)

Sound(m) == RunRecord(m) /\ TrueRecord(m)

(* The first record is there from the start of Pi on, and so is a true one in *)
(* each hand.                                                                 *)
RecordsOK ==
  /\ meta # None \/ phase \in {"drain", "overflow", "abort", "print"} => Sound(meta)
  /\ \A s \in Setters : Busy(s) => Sound(setter[s])

HelperOK ==
  /\ phase \in {"start", "drain", "overflow", "abort", "print", "exited", "killed"}
  /\ pi \in {None, Alive} \cup ExitCodes
  /\ discarding \in BOOLEAN /\ overlapped \in BOOLEAN
  /\ setter = [s \in Setters |-> setter[s]]
  /\ phase = "print" => FinalizeStream(stream).status = "completed"
  /\ printed # None => phase = "exited" /\ Answer(printed)
  /\ status = 0 => phase = "exited"

(* Without overlap the record holds the last validation, and a caller who is  *)
(* about to write holds the record with its own.                              *)
InOrder ==
  /\ ~Ended => asked = "unverified" /\ \A s \in Setters : ~Busy(s)
  /\ phase = "print" => meta.status = "completed" /\ meta.parent = "unverified"
  /\ status = 0 => meta.status = "completed" /\ meta.parent = asked
  /\ \A s \in Setters : Busy(s) =>
       setter[s] = [meta EXCEPT !.parent = setter[s].parent]
  /\ \A s, t \in Setters : Busy(s) /\ Busy(t) => s = t

Inv ==
  /\ HelperOK /\ StreamOK(stream) /\ StreamIsTrue /\ RecordsOK
  /\ ~overlapped => InOrder
-----------------------------------------------------------------------------
(* Usage. *)

IsSlice(slice) ==
  DOMAIN slice \subseteq Metrics /\ \A k \in DOMAIN slice : slice[k] \in Nat

LEMMA GetOf ==
  ASSUME NEW f, NEW k, NEW d
  PROVE  /\ k \in DOMAIN f => Get(f, k, d) = f[k]
         /\ k \notin DOMAIN f => Get(f, k, d) = d
BY DEF Get

LEMMA EmptyTallied == Tallied(EmptyUsage)
<1>1. Coverage(0, <<>>) = "unknown"
  BY DEF Coverage
<1> QED BY <1>1, ImplAssumption DEF Tallied, EmptyUsage

(* A slice is counted with every metric it reports, unless the sum overflows. *)
LEMMA AddTallied ==
  ASSUME NEW u, NEW slice, NEW source \in UsageSources, Tallied(u), IsSlice(slice)
  PROVE  LET w == AddUsageSlice(u, slice, source) IN
         /\ Tallied(w) /\ w.expected = u.expected + 1
         /\ \A k \in Metrics : Get(w.known, k, 0) = w.expected =>
              /\ Get(u.known, k, 0) = u.expected /\ k \in DOMAIN slice
              /\ Get(w.sum, k, 0) = Get(u.sum, k, 0) + slice[k]
<1> DEFINE total == [k \in DOMAIN slice |-> Get(u.sum, k, 0) + slice[k]]
           kept == {k \in DOMAIN slice : total[k] <= MaxFinite}
           keys == (DOMAIN u.sum \ DOMAIN slice) \cup kept
           known == [k \in keys |->
                       Get(u.known, k, 0) + IF k \in kept THEN 1 ELSE 0]
           sum == [k \in keys |-> IF k \in kept THEN total[k] ELSE u.sum[k]]
           w == AddUsageSlice(u, slice, source)
<1>1. w = [coverage |-> Coverage(u.expected + 1, known),
           sources |-> u.sources \cup {source}, expected |-> u.expected + 1,
           known |-> known, sum |-> sum]
  BY DEF AddUsageSlice
<1>2. /\ w.coverage = Coverage(u.expected + 1, known)
      /\ w.sources = u.sources \cup {source} /\ w.expected = u.expected + 1
      /\ w.known = known /\ w.sum = sum
  BY <1>1
<1>3. DOMAIN known = keys /\ DOMAIN sum = keys /\ keys \subseteq Metrics
  BY DEF Tallied, IsSlice
<1>4. \A k \in Metrics : Get(u.known, k, 0) \in 0..u.expected
                        /\ Get(u.sum, k, 0) \in Nat
  BY ImplAssumption DEF Get, Tallied
<1>5. \A k \in kept : /\ total[k] \in 0..MaxFinite /\ sum[k] = total[k]
                      /\ total[k] = Get(u.sum, k, 0) + slice[k]
                      /\ known[k] = Get(u.known, k, 0) + 1
  BY <1>4, ImplAssumption DEF IsSlice
<1>6. \A k \in keys \ kept :
        /\ k \in DOMAIN u.known /\ sum[k] = u.sum[k] /\ known[k] = u.known[k]
        /\ known[k] = Get(u.known, k, 0)
  <2> SUFFICES ASSUME NEW k \in keys \ kept
               PROVE  /\ k \in DOMAIN u.known /\ sum[k] = u.sum[k]
                      /\ known[k] = u.known[k] /\ known[k] = Get(u.known, k, 0)
    OBVIOUS
  <2>1. k \in DOMAIN u.sum /\ k \in DOMAIN u.known
    BY DEF Tallied
  <2>2. u.known[k] \in Nat
    BY <2>1 DEF Tallied
  <2>3. known[k] = Get(u.known, k, 0) + 0
    OBVIOUS
  <2> QED BY <2>1, <2>2, <2>3, GetOf
<1>7. Tallied(w)
  <2>1. \A k \in keys : known[k] \in 1..(u.expected + 1) /\ sum[k] \in 0..MaxFinite
    <3> SUFFICES ASSUME NEW k \in keys
                 PROVE  known[k] \in 1..(u.expected + 1) /\ sum[k] \in 0..MaxFinite
      OBVIOUS
    <3> HIDE DEF known, sum, total
    <3>1. u.expected \in Nat /\ k \in Metrics
      BY <1>3 DEF Tallied
    <3>2. CASE k \in kept
      <4> HIDE DEF kept
      <4> QED BY <3>1, <3>2, <1>4, <1>5
    <3>3. CASE k \notin kept
      <4> HIDE DEF kept, keys
      <4> QED BY <3>1, <3>3, <1>6 DEF Tallied
    <3> QED BY <3>2, <3>3
  <2>2. DOMAIN w = DOMAIN EmptyUsage
    BY <1>1 DEF EmptyUsage
  <2> HIDE DEF known, sum, keys, w
  <2> QED BY <1>2, <1>3, <2>1, <2>2 DEF Tallied
<1>8. ASSUME NEW k \in Metrics, Get(w.known, k, 0) = w.expected
      PROVE  /\ Get(u.known, k, 0) = u.expected /\ k \in DOMAIN slice
             /\ Get(w.sum, k, 0) = Get(u.sum, k, 0) + slice[k]
  <2>1. u.expected \in Nat /\ Get(u.known, k, 0) \in 0..u.expected
    BY <1>4 DEF Tallied
  <2>2. k \in keys
    <3> HIDE DEF keys, known
    <3> QED BY <1>2, <1>3, <1>8, <2>1, GetOf
  <2>3. known[k] = u.expected + 1 /\ Get(w.sum, k, 0) = sum[k]
    <3> HIDE DEF keys, known, sum
    <3> QED BY <1>2, <1>3, <1>8, <2>2, GetOf
  <2>4. k \in kept
    <3> HIDE DEF known, kept, keys, sum
    <3> QED BY <1>6, <2>1, <2>2, <2>3
  <2> QED
    <3> HIDE DEF known, sum, total
    <3> QED BY <1>5, <2>1, <2>3, <2>4
<1> QED BY <1>2, <1>7, <1>8

LEMMA CoverageTag ==
  ASSUME NEW n \in Nat, NEW known
  PROVE  LET c == Coverage(n, known) IN
         /\ c \in {"complete", "partial", "unknown"}
         /\ c = "complete" => /\ n > 0
                              /\ \A k \in CoreMetrics : Get(known, k, 0) = n
         /\ c = "unknown" <=> n = 0 \/ ~AnyCore(known)
BY DEF Coverage

LEMMA TalliedValid ==
  ASSUME NEW u, NEW r \in Nat, NEW c \in Nat, Tallied(u), u.expected = r + c
  PROVE  ValidUsage(u, r, c) /\ ValidUsage(DegradeUsage(u), r, c)
<1> DEFINE core == CoreMetrics \cap DOMAIN u.sum
           w == DegradeUsage(u)
<1>1. /\ u.expected \in Nat /\ DOMAIN u.known \subseteq Metrics
      /\ DOMAIN u.sum = DOMAIN u.known
      /\ \A k \in DOMAIN u.known : u.known[k] \in 1..u.expected
      /\ \A k \in DOMAIN u.known : u.known[k] \in 0..u.expected
      /\ \A k \in DOMAIN u.sum : u.sum[k] \in 0..MaxFinite
  BY DEF Tallied
<1>2. \A k \in Metrics : Get(u.known, k, 0) > 0 <=> k \in DOMAIN u.sum
  BY <1>1, GetOf
<1>3. AnyCore(u.known) <=> core # {}
  BY <1>2 DEF AnyCore, Metrics
<1>4. /\ w.coverage = IF u.expected > 0 /\ AnyCore(u.known) THEN "partial"
                      ELSE "unknown"
      /\ w.expected = u.expected /\ w.known = u.known /\ w.sum = u.sum
      /\ w.sources = u.sources
  <2>1. DOMAIN u = {"coverage", "sources", "expected", "known", "sum"}
    BY DEF Tallied, EmptyUsage
  <2> QED BY <2>1 DEF DegradeUsage
<1>5. ValidCoverageTag(u)
  BY <1>1, <1>3, CoverageTag DEF ValidCoverageTag, Tallied
<1>6. ValidCoverageTag(w)
  BY <1>1, <1>3, <1>4 DEF ValidCoverageTag
<1>7. ValidKnownSlices(u) /\ ValidMetricPairs(u)
  BY <1>1, <1>2 DEF ValidKnownSlices, ValidMetricPairs
<1>8. ValidKnownSlices(w) /\ ValidMetricPairs(w)
  BY <1>4, <1>7 DEF ValidKnownSlices, ValidMetricPairs
<1>9. u.coverage \in {"complete", "partial", "unknown"}
  BY <1>1, CoverageTag DEF Tallied
<1>10. ValidUsage(u, r, c)
  BY <1>1, <1>5, <1>7, <1>9 DEF ValidUsage, Tallied
<1>11. ValidUsage(w, r, c)
  BY <1>1, <1>4, <1>6, <1>8 DEF ValidUsage, Tallied
<1> QED BY <1>10, <1>11

-----------------------------------------------------------------------------
(* The stream. *)

LEMMA NewStreamOK == StreamOK(NewStream)
<1>1. FlagsOK(FreshFlags)
  BY DEF FlagsOK, FreshFlags
<1>2. EmptyUsage.expected = 0
  BY DEF EmptyUsage
<1> QED BY <1>1, <1>2, EmptyTallied DEF StreamOK, NewStream

(* The fields of a stream, in the order of NewStream. *)
HasFields(s, f, u, r, c, n, a, b, e) ==
  /\ DOMAIN s = DOMAIN NewStream
  /\ s.flags = f /\ s.usage = u /\ s.responses = r /\ s.compactions = c
  /\ s.retries = n /\ s.calls = a /\ s.toolErrors = b /\ s.error = e

LEMMA OwnFields ==
  ASSUME NEW s, StreamOK(s)
  PROVE  HasFields(s, s.flags, s.usage, s.responses, s.compactions, s.retries,
                   s.calls, s.toolErrors, s.error)
BY DEF StreamOK, HasFields

LEMMA NoteErrorOK ==
  ASSUME NEW s, StreamOK(s)
  PROVE  LET t == NoteError(s) IN
         StreamOK(t) /\ t.error = TRUE /\ t.flags = s.flags /\ t.usage = s.usage
<1> DEFINE t == NoteError(s)
<1>1. HasFields(t, s.flags, s.usage, s.responses, s.compactions, s.retries,
                s.calls, s.toolErrors, TRUE)
  BY OwnFields DEF NoteError, HasFields, NewStream
<1> HIDE DEF t
<1>2. StreamOK(t)
  BY <1>1 DEF StreamOK, HasFields
<1> QED BY <1>1, <1>2 DEF HasFields, t

(* A usable line as the stream takes it. *)
Usable(line) ==
  /\ line.type \in {"agent_start", "message_start", "message_end",
                    "compaction_end", "tool_execution_end", "agent_settled",
                    "auto_retry_start"}
  /\ ReportsUsage(line) => IsSlice(line.usage)
  /\ line.type = "agent_settled" => line.aborted \in BOOLEAN \cup {None}

LEMMA LabelledUsable ==
  ASSUME NEW l \in Lines, lines \in Seq(ReadLine), Len(lines) < MaxLines
  PROVE  LET x == Labelled(l) IN
         /\ x \in ReadLine /\ Usable(x) /\ x.type = l.type
         /\ x.type = "message_end" => x.text = Len(lines) + 1
         /\ ReportsUsage(x) => ReportsUsage(l) /\ x.usage = l.usage
<1> DEFINE x == Labelled(l)
           n == Len(lines) + 1
<1>1. n \in 1..MaxLines
  BY ImplAssumption
<1>2. CASE l.type = "message_end"
  <2>1. x = Merge([text |-> n], l)
    BY <1>2 DEF Labelled
  <2> HIDE DEF n
  <2>2. x = [k \in {"text"} \cup DOMAIN l |->
               IF k \in {"text"} THEN [text |-> n][k] ELSE l[k]]
    BY <2>1 DEF Merge
  <2>3. "type" \in DOMAIN l /\ "usage" \in DOMAIN l
    BY <1>2, LinesAssumption DEF ReportsUsage
  <2>4. x.text = n /\ x.type = l.type /\ x.usage = l.usage
    BY <2>2, <2>3
  <2>5. x \in ReadLine
    BY <1>1, <2>1 DEF ReadLine
  <2>6. Usable(x)
    <3> HIDE DEF x
    <3> QED BY <1>2, <2>4, LinesAssumption DEF Usable, ReportsUsage, IsSlice
  <2> HIDE DEF x
  <2>7. x.text = Len(lines) + 1
    BY <2>4 DEF n
  <2> QED BY <1>2, <2>4, <2>5, <2>6, <2>7 DEF ReportsUsage, x
<1>3. CASE l.type # "message_end"
  <2>1. x = l
    BY <1>3 DEF Labelled
  <2> QED BY <1>3, <2>1, LinesAssumption DEF Usable, ReportsUsage, IsSlice, ReadLine
<1> QED BY <1>2, <1>3

(* What line x makes of stream s. *)
Applied(s, x, t) ==
  /\ StreamOK(t) /\ t.error = s.error
  /\ t.usage = CASE x.type = "message_end" ->
                      AddUsageSlice(s.usage, x.usage, "assistant_message_end")
                 [] x.type = "compaction_end" ->
                      AddUsageSlice(s.usage, x.usage, "compaction_end")
                 [] OTHER -> s.usage
  /\ x.type \in Starts => t.flags = FreshFlags
  /\ x.type = "message_end" =>
       t.flags = [s.flags EXCEPT !.ended = TRUE, !.stop = x.stop, !.text = x.text]
  /\ x.type = "agent_settled" =>
       t.flags = [s.flags EXCEPT !.settled = TRUE,
                    !.aborted = IF x.aborted = None THEN s.flags.aborted
                                ELSE x.aborted]
  /\ x.type \notin Starts \cup {"message_end", "agent_settled"} =>
       t.flags = s.flags

LEMMA ApplyOK ==
  ASSUME NEW s, NEW x, StreamOK(s), Usable(x)
  PROVE  Applied(s, x, ApplyLine(s, x))
<1> DEFINE t == ApplyLine(s, x)
           T(f, u, r, c, n, a, b) == HasFields(t, f, u, r, c, n, a, b, s.error)
<1>1. HasFields(s, s.flags, s.usage, s.responses, s.compactions, s.retries,
                s.calls, s.toolErrors, s.error)
  BY OwnFields
<1>2. /\ FlagsOK(s.flags) /\ Tallied(s.usage) /\ s.error \in BOOLEAN
      /\ s.responses \in Nat /\ s.compactions \in Nat /\ s.retries \in Nat
      /\ s.calls \in Nat /\ s.toolErrors \in Nat
      /\ s.usage.expected = s.responses + s.compactions
  BY DEF StreamOK
<1>3. CASE x.type \in Starts
  <2>1. T(FreshFlags, s.usage, s.responses, s.compactions, s.retries, s.calls,
          s.toolErrors)
    BY <1>1, <1>3 DEF ApplyLine, Starts, InvalidateTerminalFlags, HasFields, NewStream
  <2>2. FlagsOK(FreshFlags)
    BY DEF FlagsOK, FreshFlags
  <2> HIDE DEF t
  <2>3. StreamOK(t)
    BY <1>2, <2>1, <2>2 DEF StreamOK, HasFields
  <2> QED BY <1>3, <2>1, <2>3 DEF HasFields, Applied, Starts, t
<1>4. CASE x.type = "message_end"
  <2> DEFINE f == [s.flags EXCEPT !.ended = TRUE, !.stop = x.stop, !.text = x.text]
             u == AddUsageSlice(s.usage, x.usage, "assistant_message_end")
  <2>1. T(f, u, s.responses + 1, s.compactions, s.retries, s.calls, s.toolErrors)
    BY <1>1, <1>4 DEF ApplyLine, HandleMessageEnd, HasFields, NewStream
  <2>2. FlagsOK(f)
    BY <1>2 DEF FlagsOK, FreshFlags
  <2>3. Tallied(u) /\ u.expected = (s.responses + 1) + s.compactions
    BY <1>2, <1>4, AddTallied DEF Usable, ReportsUsage, UsageSources
  <2> HIDE DEF f, u, t
  <2>4. StreamOK(t)
    BY <1>2, <2>1, <2>2, <2>3 DEF StreamOK, HasFields
  <2> QED BY <1>4, <2>1, <2>4 DEF HasFields, Applied, Starts, t, f, u
<1>5. CASE x.type = "compaction_end"
  <2> DEFINE u == AddUsageSlice(s.usage, x.usage, "compaction_end")
  <2>1. T(s.flags, u, s.responses, s.compactions + 1, s.retries, s.calls,
          s.toolErrors)
    BY <1>1, <1>5 DEF ApplyLine, HandleCompactionEnd, HasFields, NewStream
  <2>2. Tallied(u) /\ u.expected = s.responses + (s.compactions + 1)
    BY <1>2, <1>5, AddTallied DEF Usable, ReportsUsage, UsageSources
  <2> HIDE DEF u, t
  <2>3. StreamOK(t)
    BY <1>2, <2>1, <2>2 DEF StreamOK, HasFields
  <2> QED BY <1>5, <2>1, <2>3 DEF HasFields, Applied, Starts, t, u
<1>6. CASE x.type = "tool_execution_end"
  <2> DEFINE b == s.toolErrors + IF x.isError THEN 1 ELSE 0
  <2>1. T(s.flags, s.usage, s.responses, s.compactions, s.retries, s.calls + 1, b)
    BY <1>1, <1>6 DEF ApplyLine, HandleToolEnd, HasFields, NewStream
  <2>2. b \in Nat
    BY <1>2
  <2> HIDE DEF b, t
  <2>3. StreamOK(t)
    BY <1>2, <2>1, <2>2 DEF StreamOK, HasFields
  <2> QED BY <1>6, <2>1, <2>3 DEF HasFields, Applied, Starts, t
<1>7. CASE x.type = "agent_settled"
  <2> DEFINE f == [s.flags EXCEPT !.settled = TRUE,
                     !.aborted = IF x.aborted = None THEN s.flags.aborted
                                   ELSE x.aborted]
  <2>1. T(f, s.usage, s.responses, s.compactions, s.retries, s.calls, s.toolErrors)
    BY <1>1, <1>7 DEF ApplyLine, HandleSettled, HasFields, NewStream
  <2>2. FlagsOK(f)
    <3>1. x.aborted \in BOOLEAN \cup {None}
      BY <1>7 DEF Usable
    <3>2. /\ f.ended = s.flags.ended /\ f.settled = TRUE
          /\ f.aborted = IF x.aborted = None THEN s.flags.aborted ELSE x.aborted
          /\ DOMAIN f = DOMAIN FreshFlags
      BY <1>2 DEF FlagsOK, FreshFlags
    <3> HIDE DEF f
    <3> QED BY <1>2, <3>1, <3>2 DEF FlagsOK
  <2> HIDE DEF f, t
  <2>3. StreamOK(t)
    BY <1>2, <2>1, <2>2 DEF StreamOK, HasFields
  <2> QED BY <1>7, <2>1, <2>3 DEF HasFields, Applied, Starts, t, f
<1>8. CASE x.type = "auto_retry_start"
  <2>1. T(s.flags, s.usage, s.responses, s.compactions, s.retries + 1, s.calls,
          s.toolErrors)
    BY <1>1, <1>8 DEF ApplyLine, HasFields, NewStream
  <2> HIDE DEF t
  <2>2. StreamOK(t)
    BY <1>2, <2>1 DEF StreamOK, HasFields
  <2> QED BY <1>8, <2>1, <2>2 DEF HasFields, Applied, Starts, t
<1> QED BY <1>3, <1>4, <1>5, <1>6, <1>7, <1>8 DEF Usable, Starts

(* What a completed outcome says of the flags. *)
LEMMA Outcomes ==
  ASSUME NEW s, StreamOK(s)
  PROVE  LET o == FinalizeStream(s) IN
         /\ o.status \in {"completed", "failed", "incomplete"}
         /\ o.stop = s.flags.stop
         /\ o.status # "completed" => o.text = None
         /\ o.status = "completed" =>
              /\ ~s.error /\ s.flags.ended /\ s.flags.aborted = FALSE
              /\ s.flags.stop = "stop" /\ o.text = s.flags.text
<1>1. StopReasonStatus(s.flags.stop) \in {"completed", "failed", "incomplete"}
  BY DEF StopReasonStatus
<1>2. StopReasonStatus(s.flags.stop) = "completed" => s.flags.stop = "stop"
  BY DEF StopReasonStatus
<1> QED BY <1>1, <1>2, ImplAssumption DEF FinalizeStream, Outcome, StreamOK, FlagsOK

-----------------------------------------------------------------------------
(* Reading. *)

Appended(x) ==
  /\ lines' = Append(lines, x)
  /\ lines \in Seq(ReadLine) /\ Len(lines) < MaxLines /\ x \in ReadLine

LEMMA AppendLine ==
  ASSUME NEW x, Appended(x)
  PROVE  /\ lines' \in Seq(ReadLine) /\ Len(lines') = Len(lines) + 1
         /\ Len(lines') <= MaxLines /\ Len(lines) \in Nat
         /\ DOMAIN lines = 1..Len(lines) /\ DOMAIN lines' = 1..(Len(lines) + 1)
         /\ \A i \in DOMAIN lines : lines'[i] = lines[i]
         /\ lines'[Len(lines) + 1] = x
BY ImplAssumption DEF Appended

(* Lines that start or end no answer leave the answer; lines that start none  *)
(* leave the settling.                                                        *)
LEMMA Stays ==
  ASSUME NEW x, Appended(x)
  PROVE  /\ \A i \in DOMAIN lines :
              Answer(i) /\ x.type \notin Starts \cup {"message_end"} =>
                (/\ lines[i].type = "message_end"
                 /\ \A j \in (i + 1)..Len(lines) :
                      lines[j].type \notin Starts \cup {"message_end"})'
         /\ SettledUnaborted /\ x.type \notin Starts => SettledUnaborted'
         /\ (\A i \in DOMAIN lines : lines[i].type # "bad") /\ x.type # "bad" =>
              (\A i \in DOMAIN lines : lines[i].type # "bad")'
<1>1. /\ Len(lines') = Len(lines) + 1 /\ Len(lines) \in Nat
      /\ DOMAIN lines = 1..Len(lines) /\ DOMAIN lines' = 1..(Len(lines) + 1)
      /\ \A i \in DOMAIN lines : lines'[i] = lines[i]
      /\ lines'[Len(lines) + 1] = x
  BY AppendLine
<1> DEFINE n == Len(lines)
<1>2. /\ n \in Nat /\ Len(lines') = n + 1 /\ DOMAIN lines = 1..n
      /\ DOMAIN lines' = 1..(n + 1) /\ lines'[n + 1] = x
      /\ \A i \in 1..n : lines'[i] = lines[i]
  BY <1>1
<1> HIDE DEF n
<1>3. ASSUME NEW i \in DOMAIN lines, Answer(i),
             x.type \notin Starts \cup {"message_end"}
      PROVE  (/\ lines[i].type = "message_end"
              /\ \A j \in (i + 1)..Len(lines) :
                   lines[j].type \notin Starts \cup {"message_end"})'
  <2>1. \A j \in (i + 1)..n : lines[j].type \notin Starts \cup {"message_end"}
    BY <1>3 DEF Answer, n
  <2>2. \A j \in (i + 1)..(n + 1) : lines'[j].type \notin Starts \cup {"message_end"}
    BY <1>2, <1>3, <2>1
  <2> QED BY <1>2, <1>3, <2>2 DEF Answer
<1>4. ASSUME SettledUnaborted, x.type \notin Starts PROVE SettledUnaborted'
  <2>1. PICK j \in DOMAIN lines :
          /\ lines[j].type = "agent_settled" /\ lines[j].aborted = FALSE
          /\ \A k \in (j + 1)..n : lines[k].type \notin Starts
    BY <1>4 DEF SettledUnaborted, n
  <2>2. \A k \in (j + 1)..(n + 1) : lines'[k].type \notin Starts
    BY <1>2, <1>4, <2>1
  <2>3. j \in DOMAIN lines' /\ lines'[j] = lines[j]
    BY <1>2
  <2> QED BY <1>2, <2>1, <2>2, <2>3 DEF SettledUnaborted
<1>5. ASSUME \A i \in DOMAIN lines : lines[i].type # "bad", x.type # "bad"
      PROVE  (\A i \in DOMAIN lines : lines[i].type # "bad")'
  <2>1. \A i \in 1..(n + 1) : lines'[i].type # "bad"
    BY <1>2, <1>5
  <2> QED BY <1>2, <2>1
<1> QED BY <1>3, <1>4, <1>5

LEMMA SameReports ==
  ASSUME NEW k, UNCHANGED lines
  PROVE  Reported(k)' = Reported(k) /\ UsageLines' = UsageLines
BY DEF Reported, UsageLines

(* What is read reports numbers. *)
LEMMA ReadReports ==
  ASSUME NEW x \in ReadLine, ReportsUsage(x), NEW k
  PROVE  Get(x.usage, k, 0) \in Nat
<1>1. x # BadLine
  BY DEF BadLine, ReportsUsage
<1>2. PICK l \in Lines : x = l \/ \E n : x = Merge([text |-> n], l)
  <2>1. CASE x \in Lines
    BY <2>1
  <2>2. CASE x \in {Merge([text |-> n], l) : n \in 1..MaxLines, l \in Lines}
    <3>1. PICK n \in 1..MaxLines, l \in Lines : x = Merge([text |-> n], l)
      BY <2>2
    <3> QED BY <3>1
  <2> QED BY <1>1, <2>1, <2>2 DEF ReadLine
<1>3. "type" \in DOMAIN l /\ x.type = l.type
  BY <1>2, LinesAssumption DEF Merge
<1>4. IsSlice(l.usage) /\ "usage" \in DOMAIN l
  BY <1>3, LinesAssumption DEF ReportsUsage, IsSlice
<1>5. x.usage = l.usage
  BY <1>2, <1>4 DEF Merge
<1> QED BY <1>4, <1>5 DEF IsSlice, Get

(* A line with usage adds what it reports; any other line adds nothing. *)
LEMMA ReportedNext ==
  ASSUME NEW x, Appended(x), NEW k
  PROVE  /\ Reported(k) \in Nat
         /\ UsageLines' = IF ReportsUsage(x) THEN UsageLines \cup {Len(lines) + 1}
                          ELSE UsageLines
         /\ \A i \in UsageLines : i \in DOMAIN lines /\ lines'[i] = lines[i]
         /\ Reported(k)' = IF ReportsUsage(x) THEN Get(x.usage, k, 0) + Reported(k)
                           ELSE Reported(k)
<1> DEFINE n == Len(lines)
           S == UsageLines
           T == UsageLines'
           f == [i \in S |-> Get(lines[i].usage, k, 0)]
           g == [i \in T |-> Get(lines'[i].usage, k, 0)]
<1>1. /\ n \in Nat /\ DOMAIN lines = 1..n /\ DOMAIN lines' = 1..(n + 1)
      /\ \A i \in 1..n : lines'[i] = lines[i] /\ lines[i] \in ReadLine
      /\ lines'[n + 1] = x /\ x \in ReadLine
  BY AppendLine DEF Appended
<1>2. Reported(k) = SumFunctionOnSet(f, S) /\ Reported(k)' = SumFunctionOnSet(g, T)
  BY DEF Reported, SumFunction
<1> HIDE DEF n
<1>3. S \subseteq 1..n /\ n + 1 \notin S /\ IsFiniteSet(S)
  <2>1. S \subseteq 1..n
    BY <1>1 DEF UsageLines
  <2>2. IsFiniteSet(1..n)
    BY <1>1, FS_Interval
  <2>3. n + 1 \notin 1..n
    BY <1>1
  <2> HIDE DEF S
  <2>4. IsFiniteSet(S)
    BY <2>1, <2>2, FS_Subset
  <2> QED BY <2>1, <2>3, <2>4
<1>4. T = IF ReportsUsage(x) THEN S \cup {n + 1} ELSE S
  <2>1. \A i \in 1..n : i \in T <=> i \in S
    BY <1>1 DEF UsageLines, ReportsUsage
  <2>2. n + 1 \in T <=> ReportsUsage(x)
    BY <1>1 DEF UsageLines, ReportsUsage
  <2>3. T \subseteq 1..(n + 1)
    BY <1>1 DEF UsageLines
  <2>4. \A i \in 1..(n + 1) : i \in 1..n \/ i = n + 1
    BY <1>1
  <2> HIDE DEF S, T
  <2>5. \A i : i \in T <=> i \in S \/ (i = n + 1 /\ ReportsUsage(x))
    BY <1>3, <2>1, <2>2, <2>3, <2>4
  <2> QED BY <2>5
<1>5. \A i \in S : f[i] \in Nat /\ f[i] = g[i] /\ i \in T /\ lines'[i] = lines[i]
  <2> SUFFICES ASSUME NEW i \in S
               PROVE  f[i] \in Nat /\ f[i] = g[i] /\ i \in T /\ lines'[i] = lines[i]
    OBVIOUS
  <2>1. lines'[i] = lines[i] /\ lines[i] \in ReadLine /\ i \in T
    BY <1>1, <1>3, <1>4
  <2>2. ReportsUsage(lines[i])
    BY DEF UsageLines
  <2>3. Get(lines[i].usage, k, 0) \in Nat
    BY <2>1, <2>2, ReadReports
  <2> QED BY <2>1, <2>3
<1>6. ReportsUsage(x) => g[n + 1] = Get(x.usage, k, 0) /\ Get(x.usage, k, 0) \in Nat
  BY <1>1, <1>4, ReadReports
<1> HIDE DEF f, g, S, T
<1>7. SumFunctionOnSet(f, S) = SumFunctionOnSet(g, S) /\ SumFunctionOnSet(f, S) \in Nat
  BY <1>3, <1>5, SumAgrees, SumNat
<1>8. ReportsUsage(x) =>
        SumFunctionOnSet(g, S \cup {n + 1}) = Get(x.usage, k, 0) + SumFunctionOnSet(g, S)
  <2> SUFFICES ASSUME ReportsUsage(x)
               PROVE  SumFunctionOnSet(g, S \cup {n + 1})
                        = Get(x.usage, k, 0) + SumFunctionOnSet(g, S)
    OBVIOUS
  <2>1. \A y \in S \cup {n + 1} : g[y] \in Nat
    BY <1>5, <1>6
  <2>2. SumFunctionOnSet(g, S \cup {n + 1}) = g[n + 1] + SumFunctionOnSet(g, S)
    BY <1>3, <2>1, SumAdd
  <2> QED BY <1>6, <2>2
<1>9. \A i \in S : i \in DOMAIN lines
  BY <1>1, <1>3
<1> QED BY <1>2, <1>4, <1>5, <1>7, <1>8, <1>9 DEF n, S, T

LEMMA ExactStays ==
  ASSUME NEW x, Appended(x), StreamOK(stream), Exact,
         IF ReportsUsage(x)
         THEN /\ IsSlice(x.usage)
              /\ \E source \in UsageSources :
                   stream'.usage = AddUsageSlice(stream.usage, x.usage, source)
         ELSE stream'.usage = stream.usage
  PROVE  Exact'
<1> DEFINE n == Len(lines)
<1>1. /\ n \in Nat /\ DOMAIN lines = 1..n /\ DOMAIN lines' = 1..(n + 1)
      /\ \A i \in 1..n : lines'[i] = lines[i]
      /\ lines'[n + 1] = x
  BY AppendLine
<1> HIDE DEF n
<1>2. ASSUME NEW k
      PROVE  /\ UsageLines' = IF ReportsUsage(x) THEN UsageLines \cup {n + 1}
                              ELSE UsageLines
             /\ \A i \in UsageLines : lines'[i] = lines[i]
             /\ Reported(k) \in Nat
             /\ Reported(k)' = IF ReportsUsage(x) THEN Get(x.usage, k, 0) + Reported(k)
                               ELSE Reported(k)
  BY ReportedNext DEF n
<1>3. CASE ~ReportsUsage(x)
  <2>1. UsageLines' = UsageLines /\ \A i \in UsageLines : lines'[i] = lines[i]
    BY <1>2, <1>3
  <2>2. \A k \in CoreMetrics : Reported(k)' = Reported(k)
    BY <1>2, <1>3
  <2>3. stream'.usage = stream.usage
    BY <1>3
  <2>4. ASSUME NEW k \in CoreMetrics,
               Get(stream'.usage.known, k, 0) = stream'.usage.expected
        PROVE  /\ Get(stream'.usage.sum, k, 0) = Reported(k)'
               /\ \A i \in UsageLines' : k \in DOMAIN lines'[i].usage
    <3>1. /\ Get(stream.usage.sum, k, 0) = Reported(k)
          /\ \A i \in UsageLines : k \in DOMAIN lines[i].usage
      BY <2>3, <2>4 DEF Exact
    <3> QED BY <2>1, <2>2, <2>3, <3>1
  <2> QED BY <2>4 DEF Exact
<1>4. CASE ReportsUsage(x)
  <2> DEFINE w == stream'.usage
  <2>1. PICK source \in UsageSources :
          w = AddUsageSlice(stream.usage, x.usage, source)
    BY <1>4
  <2>2. IsSlice(x.usage) /\ Tallied(stream.usage)
    BY <1>4 DEF StreamOK
  <2>3. \A k \in Metrics : Get(w.known, k, 0) = w.expected =>
          /\ Get(stream.usage.known, k, 0) = stream.usage.expected
          /\ k \in DOMAIN x.usage
          /\ Get(w.sum, k, 0) = Get(stream.usage.sum, k, 0) + x.usage[k]
    BY <2>1, <2>2, AddTallied
  <2>4. ASSUME NEW k \in CoreMetrics, Get(w.known, k, 0) = w.expected
        PROVE  /\ Get(w.sum, k, 0) = Reported(k)'
               /\ \A i \in UsageLines' : k \in DOMAIN lines'[i].usage
    <3>1. k \in Metrics
      BY DEF Metrics
    <3>2. /\ Get(stream.usage.known, k, 0) = stream.usage.expected
          /\ k \in DOMAIN x.usage
          /\ Get(w.sum, k, 0) = Get(stream.usage.sum, k, 0) + x.usage[k]
      BY <2>3, <2>4, <3>1
    <3>3. /\ Get(stream.usage.sum, k, 0) = Reported(k)
          /\ \A i \in UsageLines : k \in DOMAIN lines[i].usage
      BY <3>2 DEF Exact
    <3>4. Reported(k)' = Reported(k) + x.usage[k]
      <4>1. Get(x.usage, k, 0) = x.usage[k] /\ x.usage[k] \in Nat
        BY <2>2, <3>2 DEF Get, IsSlice
      <4>2. Reported(k)' = Get(x.usage, k, 0) + Reported(k) /\ Reported(k) \in Nat
        BY <1>2, <1>4
      <4> QED BY <4>1, <4>2
    <3>5. \A i \in UsageLines' : k \in DOMAIN lines'[i].usage
      <4>1. UsageLines' = UsageLines \cup {n + 1}
            /\ \A i \in UsageLines : lines'[i] = lines[i]
        BY <1>2, <1>4
      <4> QED BY <1>1, <3>2, <3>3, <4>1
    <3> QED BY <3>2, <3>3, <3>4, <3>5
  <2> QED BY <2>4 DEF Exact
<1> QED BY <1>3, <1>4

LEMMA ReadUsable ==
  ASSUME NEW l \in Lines, StreamOK(stream), StreamIsTrue, Len(lines) < MaxLines,
         stream' = ApplyLine(stream, Labelled(l)),
         lines' = Append(lines, Labelled(l))
  PROVE  StreamOK(stream') /\ StreamIsTrue'
<1> DEFINE x == Labelled(l)
           n == Len(lines)
           f == stream.flags
           g == stream'.flags
<1>1. /\ x \in ReadLine /\ Usable(x) /\ x.type = l.type
      /\ x.type = "message_end" => x.text = n + 1
      /\ ReportsUsage(x) => x.usage = l.usage
  BY LabelledUsable DEF StreamIsTrue
<1>2. Appended(x)
  BY <1>1 DEF Appended, StreamIsTrue
<1> HIDE DEF x
<1>3. /\ lines' \in Seq(ReadLine) /\ Len(lines') = n + 1 /\ Len(lines') <= MaxLines
      /\ n \in Nat /\ DOMAIN lines = 1..n /\ DOMAIN lines' = 1..(n + 1)
      /\ \A i \in DOMAIN lines : lines'[i] = lines[i]
      /\ lines'[n + 1] = x
  BY <1>2, AppendLine
<1>4. Applied(stream, x, stream')
  <2>1. stream' = ApplyLine(stream, x)
    BY DEF x
  <2> QED BY <1>1, <2>1, ApplyOK
<1>5. Exact'
  <2>1. ReportsUsage(x) => IsSlice(x.usage)
    BY <1>1 DEF Usable
  <2>2. IF ReportsUsage(x)
        THEN \E source \in UsageSources :
               stream'.usage = AddUsageSlice(stream.usage, x.usage, source)
        ELSE stream'.usage = stream.usage
    BY <1>4 DEF Applied, ReportsUsage, UsageSources
  <2> QED BY <1>2, <2>1, <2>2, ExactStays DEF StreamIsTrue
<1>6. ~stream'.error => (\A i \in DOMAIN lines : lines[i].type # "bad")'
  <2>1. x.type # "bad"
    BY <1>1 DEF Usable
  <2> QED BY <1>2, <1>4, <2>1, Stays DEF StreamIsTrue, Applied
<1>7. DOMAIN f = {"ended", "text", "stop", "settled", "aborted"}
  BY DEF StreamOK, FlagsOK, FreshFlags
<1>8. g.aborted = FALSE => SettledUnaborted'
  <2>1. CASE x.type \in Starts
    <3>1. g.aborted = None
      BY <1>4, <2>1 DEF FreshFlags, Applied
    <3> QED BY <3>1, ImplAssumption
  <2>2. CASE x.type = "agent_settled" /\ x.aborted = FALSE
    <3>1. \A k \in (n + 2)..(n + 1) : FALSE
      BY <1>3
    <3>2. n + 1 \in DOMAIN lines' /\ (n + 1) + 1 = n + 2
      BY <1>3
    <3> QED BY <1>3, <2>2, <3>1, <3>2 DEF SettledUnaborted
  <2>3. CASE x.type \notin Starts /\ ~(x.type = "agent_settled" /\ x.aborted = FALSE)
    <3>1. g.aborted = FALSE => f.aborted = FALSE
      BY <1>4, <1>7, <2>3 DEF Applied
    <3> QED BY <1>2, <2>3, <3>1, Stays DEF StreamIsTrue
  <2> QED BY <2>1, <2>2, <2>3
<1>9. g.ended => /\ g.text \in DOMAIN lines'
                 /\ (Answer(stream.flags.text))'
                 /\ lines'[g.text].stop = g.stop
  <2>1. CASE x.type \in Starts
    BY <1>4, <2>1 DEF FreshFlags, Applied
  <2>2. CASE x.type = "message_end"
    <3>1. g.text = n + 1 /\ g.stop = x.stop
      BY <1>1, <1>4, <1>7, <2>2 DEF Applied
    <3>2. \A k \in (n + 2)..(n + 1) : FALSE
      BY <1>3
    <3>3. n + 1 \in DOMAIN lines' /\ (n + 1) + 1 = n + 2
      BY <1>3
    <3> QED BY <1>3, <2>2, <3>1, <3>2, <3>3 DEF Answer
  <2>3. CASE x.type \notin Starts \cup {"message_end"}
    <3>1. g.ended = f.ended /\ g.text = f.text /\ g.stop = f.stop
      BY <1>4, <1>7, <2>3 DEF Applied
    <3>2. ASSUME f.ended
          PROVE  /\ f.text \in DOMAIN lines /\ Answer(f.text)
                 /\ lines[f.text].stop = f.stop
      BY <3>2 DEF StreamIsTrue
    <3> SUFFICES ASSUME f.ended
                 PROVE  /\ g.text \in DOMAIN lines' /\ (Answer(stream.flags.text))'
                        /\ lines'[g.text].stop = g.stop
      BY <3>1
    <3> DEFINE i == f.text
    <3>3. /\ i \in DOMAIN lines /\ Answer(i) /\ lines'[i] = lines[i]
          /\ i \in DOMAIN lines' /\ lines[i].stop = f.stop
      BY <1>3, <3>2
    <3> HIDE DEF i
    <3>4. (lines[i].type = "message_end") /\ lines'[i].type = "message_end"
          /\ \A j \in (i + 1)..Len(lines') :
               lines'[j].type \notin Starts \cup {"message_end"}
      BY <1>2, <2>3, <3>3, Stays DEF Answer
    <3>5. g.text = i
      BY <3>1 DEF i
    <3> QED BY <3>1, <3>3, <3>4, <3>5 DEF Answer
  <2> QED BY <2>1, <2>2, <2>3
<1> QED BY <1>3, <1>4, <1>5, <1>6, <1>8, <1>9 DEF StreamIsTrue, Applied

LEMMA ReadBad ==
  ASSUME StreamOK(stream), StreamIsTrue, Len(lines) < MaxLines,
         stream' = NoteError(stream), lines' = Append(lines, BadLine)
  PROVE  StreamOK(stream') /\ StreamIsTrue'
<1> DEFINE n == Len(lines)
<1>1. /\ StreamOK(stream') /\ stream'.error = TRUE
      /\ stream'.flags = stream.flags /\ stream'.usage = stream.usage
  BY NoteErrorOK
<1>2. Appended(BadLine) /\ BadLine.type = "bad"
  BY DEF Appended, StreamIsTrue, ReadLine, BadLine
<1>3. /\ lines' \in Seq(ReadLine) /\ Len(lines') <= MaxLines
      /\ \A i \in DOMAIN lines : lines'[i] = lines[i] /\ i \in DOMAIN lines'
  BY <1>2, AppendLine
<1>4. Exact'
  BY <1>1, <1>2, ExactStays DEF StreamIsTrue, ReportsUsage
<1>5. stream'.flags.aborted = FALSE => SettledUnaborted'
  BY <1>1, <1>2, Stays DEF StreamIsTrue, Starts
<1>6. stream'.flags.ended => /\ stream'.flags.text \in DOMAIN lines'
                             /\ (Answer(stream.flags.text))'
                             /\ lines'[stream'.flags.text].stop = stream'.flags.stop
  <2> SUFFICES ASSUME stream.flags.ended
               PROVE  /\ stream'.flags.text \in DOMAIN lines'
                      /\ (Answer(stream.flags.text))'
                      /\ lines'[stream'.flags.text].stop = stream'.flags.stop
    BY <1>1
  <2> DEFINE i == stream.flags.text
  <2>1. i \in DOMAIN lines /\ Answer(i) /\ lines[i].stop = stream.flags.stop
    BY DEF StreamIsTrue
  <2>2. stream'.flags.text = i /\ lines'[i] = lines[i] /\ i \in DOMAIN lines'
    BY <1>1, <1>3, <2>1
  <2> HIDE DEF i
  <2>3. lines'[i].type = "message_end"
        /\ \A j \in (i + 1)..Len(lines') :
             lines'[j].type \notin Starts \cup {"message_end"}
    BY <1>2, <2>1, <2>2, Stays DEF Answer, Starts
  <2> QED BY <1>1, <2>1, <2>2, <2>3 DEF Answer
<1> QED BY <1>1, <1>3, <1>4, <1>5, <1>6 DEF StreamIsTrue

-----------------------------------------------------------------------------
(* Records. *)

(* The fields of a final record that its readers check. *)
IsFinal(r, m, s, outcome, child) ==
  /\ Fields \cup {"exit"} \subseteq DOMAIN r
  /\ r.provenance = m.provenance /\ r.usage = FinalUsage(s)
  /\ r.status = RecordedStatus(outcome, child) /\ r.parent = "unverified"
  /\ r.responses = s.responses /\ r.compactions = s.compactions
  /\ r.retries = s.retries /\ r.calls = s.calls
  /\ r.toolErrors = s.toolErrors /\ r.exit = child
  /\ outcome.stop # None => "stop" \in DOMAIN r /\ r.stop = outcome.stop

LEMMA FinalFields ==
  ASSUME NEW m, NEW s, NEW outcome, NEW child
  PROVE  IsFinal(FinalMetadata(m, s, outcome, child), m, s, outcome, child)
<1> DEFINE b == [runId |-> m.runId, model |-> m.model,
                 prompt |-> m.prompt, systemPrompt |-> m.systemPrompt,
                 provenance |-> m.provenance,
                 status |-> RecordedStatus(outcome, child),
                 usage |-> FinalUsage(s), responses |-> s.responses,
                 compactions |-> s.compactions, retries |-> s.retries,
                 calls |-> s.calls, toolErrors |-> s.toolErrors,
                 parent |-> "unverified", exit |-> child]
           r == FinalMetadata(m, s, outcome, child)
<1>1. CASE outcome.stop = None
  <2>1. r = b
    BY <1>1 DEF FinalMetadata
  <2> QED BY <1>1, <2>1 DEF IsFinal, Fields
<1>2. CASE outcome.stop # None
  <2>1. r = Merge(b, [stop |-> outcome.stop])
    BY <1>2 DEF FinalMetadata
  <2>2. /\ DOMAIN b = Fields \cup {"exit"}
        /\ DOMAIN [stop |-> outcome.stop] = {"stop"}
    BY DEF Fields
  <2>3. DOMAIN r = Fields \cup {"exit", "stop"}
    <3> HIDE DEF b
    <3> QED BY <2>1, <2>2 DEF Merge
  <2>4. \A k \in Fields \cup {"exit"} : r[k] = b[k]
    <3> HIDE DEF b
    <3> QED BY <2>1, <2>2 DEF Merge
  <2>5. r.stop = outcome.stop
    <3> HIDE DEF b
    <3> QED BY <2>1, <2>2 DEF Merge, Fields
  <2>6. /\ r.provenance = b.provenance /\ r.usage = b.usage
        /\ r.status = b.status /\ r.parent = b.parent
        /\ r.responses = b.responses /\ r.compactions = b.compactions
        /\ r.retries = b.retries /\ r.calls = b.calls
        /\ r.toolErrors = b.toolErrors /\ r.exit = b.exit
    <3> HIDE DEF b, r
    <3> QED BY <2>4 DEF Fields
  <2>7. /\ r.provenance = m.provenance /\ r.usage = FinalUsage(s)
        /\ r.status = RecordedStatus(outcome, child) /\ r.parent = "unverified"
        /\ r.responses = s.responses /\ r.compactions = s.compactions
        /\ r.retries = s.retries /\ r.calls = s.calls
        /\ r.toolErrors = s.toolErrors /\ r.exit = child
    <3> HIDE DEF r
    <3> QED BY <2>6
  <2>8. Fields \cup {"exit"} \subseteq DOMAIN r /\ "stop" \in DOMAIN r
    BY <2>3
  <2> HIDE DEF r, b
  <2> QED BY <2>5, <2>7, <2>8 DEF IsFinal, r
<1> QED BY <1>1, <1>2

LEMMA FinalRecord ==
  ASSUME NEW m, IsProvenance(m.provenance), NEW s, StreamOK(s), NEW child \in Nat
  PROVE  RunRecord(FinalMetadata(m, s, FinalizeStream(s), child))
<1> DEFINE o == FinalizeStream(s)
           r == FinalMetadata(m, s, o, child)
<1>1. IsFinal(r, m, s, o, child)
  BY FinalFields
<1>2. /\ o.status \in {"completed", "failed", "incomplete"}
      /\ o.status = "completed" => o.stop = "stop"
  BY Outcomes
<1>3. /\ r.status \in {"completed", "failed", "incomplete"}
      /\ r.status = "completed" => child = 0 /\ o.stop = "stop"
  BY <1>1, <1>2 DEF IsFinal, RecordedStatus
<1>4. /\ s.responses \in Nat /\ s.compactions \in Nat /\ s.retries \in Nat
      /\ s.calls \in Nat /\ s.toolErrors \in Nat
      /\ Tallied(s.usage) /\ s.usage.expected = s.responses + s.compactions
  BY DEF StreamOK
<1>5. ValidUsage(r.usage, r.responses, r.compactions)
  <2>1. ValidUsage(FinalUsage(s), s.responses, s.compactions)
    BY <1>4, TalliedValid DEF FinalUsage
  <2> QED BY <1>1, <2>1 DEF IsFinal
<1> HIDE DEF r, o
<1>6. ValidTiming(r)
  BY <1>1, <1>3 DEF ValidTiming, Has, IsFinal
<1>7. ValidCross(r)
  BY <1>1, <1>3, ImplAssumption DEF ValidCross, Has, IsFinal
<1>8. /\ r.responses >= 0 /\ r.retries >= 0 /\ r.compactions >= 0
      /\ r.calls >= 0 /\ r.toolErrors >= 0
  BY <1>1, <1>4 DEF IsFinal
<1>9. IsProvenance(r.provenance) /\ r.parent = "unverified"
  BY <1>1 DEF IsFinal
<1>10. ValidRunMetadata(r)
  BY <1>3, <1>5, <1>6, <1>7, <1>8, <1>9 DEF ValidRunMetadata, IsProvenance
<1> QED BY <1>1, <1>9, <1>10 DEF RunRecord, IsFinal, r, o

LEMMA InitialRecord ==
  ASSUME NEW p \in Provenances
  PROVE  LET m == InitialMetadata(p) IN
         /\ RunRecord(m)
         /\ m.status = "running" /\ m.usage.coverage = "unknown"
<1> DEFINE m == InitialMetadata(p)
<1>1. IsProvenance(p)
  BY RecordsAssumption
<1>2. ValidUsage(EmptyUsage, 0, 0)
  <2>1. EmptyUsage.expected = 0 + 0
    BY DEF EmptyUsage
  <2> QED BY <2>1, EmptyTallied, TalliedValid
<1>3. /\ m.status = "running" /\ m.provenance = p /\ m.usage = EmptyUsage
      /\ m.responses = 0 /\ m.compactions = 0 /\ m.retries = 0 /\ m.calls = 0
      /\ m.toolErrors = 0 /\ m.parent = "unverified" /\ DOMAIN m = Fields
  BY DEF InitialMetadata, Fields
<1> HIDE DEF m
<1>4. ValidTiming(m) /\ ValidCross(m)
  BY <1>3 DEF ValidTiming, ValidCross, Has, Fields
<1>5. ValidRunMetadata(m)
  BY <1>1, <1>2, <1>3, <1>4 DEF ValidRunMetadata, IsProvenance
<1> QED BY <1>1, <1>3, <1>5 DEF RunRecord, EmptyUsage, m

(* A record of a failure claims nothing. *)
LEMMA FailureRecord ==
  ASSUME NEW m, IsProvenance(m.provenance)
  PROVE  LET r == FailureMetadata(m) IN
         RunRecord(r) /\ r.status = "failed" /\ r.usage.coverage = "unknown"
<1> DEFINE r == FailureMetadata(m)
           o == FinalizeStream(NewStream)
<1>1. RunRecord(r)
  BY NewStreamOK, FinalRecord DEF FailureMetadata
<1>2. IsFinal(r, m, NewStream, o, 1)
  BY FinalFields DEF FailureMetadata
<1>3. FinalUsage(NewStream) = EmptyUsage
  BY DEF FinalUsage, NewStream
<1> HIDE DEF r
<1> QED BY <1>1, <1>2, <1>3 DEF IsFinal, RecordedStatus, EmptyUsage, r

-----------------------------------------------------------------------------
(* The invariant. *)

Begun == phase \in {"drain", "overflow", "abort", "print"}

(* What record m claims is true after the step. *)
StillTrue(m) ==
  /\ m.status = "completed" => Done' /\ CompletionIsTrue'
  /\ m.usage.coverage = "complete" =>
       /\ Done'
       /\ \A k \in CoreMetrics :
            /\ \A i \in UsageLines' : k \in DOMAIN lines'[i].usage
            /\ m.usage.sum[k] = Reported(k)'

SoundNext(m) == RunRecord(m) /\ StillTrue(m)

LEMMA RecordsNext ==
  ASSUME meta' # None \/ Begun' => SoundNext(meta'),
         \A s \in Setters : setter'[s] # None => SoundNext(setter'[s])
  PROVE  RecordsOK'
BY DEF RecordsOK, Sound, SoundNext, StillTrue, TrueRecord, Begun, MetricsAreExact, Busy

(* Before the end of the run no record claims anything, and after it nothing  *)
(* changes of what they claim.                                                *)
LEMMA TrueStays ==
  ASSUME NEW m, Sound(m),
         Done => Done' /\ UNCHANGED lines /\ (pi' = pi \/ pi = Alive)
  PROVE  SoundNext(m)
<1>1. CASE ~Done
  BY <1>1 DEF Sound, SoundNext, TrueRecord, StillTrue
<1>2. CASE Done
  <2>1. m.status = "completed" => CompletionIsTrue'
    <3>1. CompletionIsTrue => pi # Alive
      BY ImplAssumption DEF CompletionIsTrue
    <3>2. CompletionIsTrue /\ pi' = pi => CompletionIsTrue'
      BY <1>2 DEF CompletionIsTrue, Answer, SettledUnaborted
    <3> QED BY <1>2, <3>1, <3>2 DEF Sound, TrueRecord
  <2>2. UsageLines' = UsageLines /\ \A k : Reported(k)' = Reported(k)
    BY <1>2, SameReports
  <2> QED BY <1>2, <2>1, <2>2 DEF Sound, SoundNext, TrueRecord, StillTrue, MetricsAreExact
<1> QED BY <1>1, <1>2

LEMMA InvInit == Init => Inv
<1> SUFFICES ASSUME Init PROVE Inv
  OBVIOUS
<1>1. StreamOK(stream)
  BY NewStreamOK DEF Init
<1>2. lines \in Seq(ReadLine) /\ Len(lines) <= MaxLines /\ DOMAIN lines = {}
  BY ImplAssumption DEF Init
<1>4. Exact
  <2>1. UsageLines = {}
    BY <1>2 DEF UsageLines
  <2>2. stream.usage.sum = <<>>
    BY DEF Init, NewStream, EmptyUsage
  <2>3. ASSUME NEW k PROVE Reported(k) = 0
    <3> DEFINE f == [i \in UsageLines |-> Get(lines[i].usage, k, 0)]
    <3>1. Reported(k) = SumFunctionOnSet(f, {})
      BY <2>1 DEF Reported, SumFunction
    <3> HIDE DEF f
    <3> QED BY <3>1, FS_EmptySet, SumNat
  <2> QED BY <2>1, <2>2, <2>3 DEF Exact, Get
<1>5. StreamIsTrue
  <2>1. stream.flags.ended = FALSE /\ stream.flags.aborted # FALSE
    BY ImplAssumption DEF Init, NewStream, FreshFlags
  <2> QED BY <1>2, <1>4, <2>1 DEF StreamIsTrue
<1>6. HelperOK /\ RecordsOK /\ InOrder
  BY ImplAssumption DEF Init, HelperOK, RecordsOK, InOrder, Busy, Ended
<1> QED BY <1>1, <1>5, <1>6 DEF Inv

(* A step that neither reads, nor writes a record, nor ends the run. *)
LEMMA InvQuiet ==
  ASSUME Inv,
         UNCHANGED <<stream, lines, meta, printed, status, setVars>>,
         discarding' \in BOOLEAN, pi' \in {None, Alive} \cup ExitCodes,
         \/ phase' = phase /\ (pi' = pi \/ pi = Alive)
         \/ ~Ended /\ phase' = "killed" /\ pi' = pi
         \/ /\ phase \in {"drain", "overflow", "abort"} /\ pi' = pi
            /\ phase' \in {"drain", "overflow", "abort"}
  PROVE  Inv'
<1>1. StreamOK(stream') /\ StreamIsTrue'
  <2>1. \A k : Reported(k)' = Reported(k) /\ UsageLines' = UsageLines
    BY SameReports
  <2> QED BY <2>1 DEF Inv, StreamIsTrue, Exact, Answer, SettledUnaborted
<1>2. \A m : Sound(m) => SoundNext(m)
  BY TrueStays DEF Done, Ended
<1>3. RecordsOK'
  <2>1. Begun' => Begun
    BY DEF Begun
  <2>2. meta' # None \/ Begun' => SoundNext(meta')
    BY <1>2, <2>1 DEF Inv, RecordsOK, Begun
  <2>3. \A s \in Setters : setter'[s] # None => SoundNext(setter'[s])
    BY <1>2 DEF Inv, RecordsOK, Busy, setVars
  <2> QED BY <2>2, <2>3, RecordsNext
<1>4. HelperOK'
  <2>1. phase' = "exited" <=> phase = "exited"
    BY DEF Ended
  <2>2. phase' = "print" => phase = "print"
    OBVIOUS
  <2>3. phase' \in {"start", "drain", "overflow", "abort", "print", "exited", "killed"}
    BY DEF Inv, HelperOK
  <2> QED BY <2>1, <2>2, <2>3 DEF Inv, HelperOK, Answer, setVars
<1>5. (~overlapped => InOrder)'
  BY DEF Inv, InOrder, Ended, Busy, setVars
<1> QED BY <1>1, <1>3, <1>4, <1>5 DEF Inv

LEMMA InvRead == Inv /\ (HandleLine \/ BadLineRead) => Inv'
<1> SUFFICES ASSUME Inv, HandleLine \/ BadLineRead PROVE Inv'
  OBVIOUS
<1>1. /\ phase = "drain" /\ Len(lines) < MaxLines
      /\ UNCHANGED <<phase, pi, meta, printed, status, setVars>>
      /\ discarding' \in BOOLEAN
  BY DEF HandleLine, BadLineRead, Draining, piVars, outVars, Inv, HelperOK
<1>2. StreamOK(stream') /\ StreamIsTrue'
  BY <1>1, ReadUsable, ReadBad DEF HandleLine, BadLineRead, Inv
<1>3. \A m : Sound(m) => SoundNext(m)
  BY <1>1, TrueStays DEF Done
<1>4. RecordsOK'
  <2>1. Sound(meta) /\ \A s \in Setters : Busy(s) => Sound(setter[s])
    BY <1>1 DEF Inv, RecordsOK
  <2> QED BY <1>1, <1>3, <2>1, RecordsNext DEF Busy, setVars
<1>5. HelperOK'
  BY <1>1 DEF Inv, HelperOK, setVars
<1>6. (~overlapped => InOrder)'
  BY <1>1 DEF Inv, InOrder, Ended, Busy, setVars
<1> QED BY <1>2, <1>4, <1>5, <1>6 DEF Inv

LEMMA InvPrepare == Inv /\ (Prepare \/ PrepareFails) => Inv'
<1> SUFFICES ASSUME Inv, Prepare \/ PrepareFails PROVE Inv'
  OBVIOUS
<1>1. /\ phase = "start" /\ UNCHANGED <<discarding, stream, lines, setVars>>
      /\ UNCHANGED printed
  BY DEF Prepare, PrepareFails, streamVars, outVars
<1>2. StreamOK(stream') /\ StreamIsTrue'
  <2>1. \A k : Reported(k)' = Reported(k) /\ UsageLines' = UsageLines
    BY <1>1, SameReports
  <2> QED BY <1>1, <2>1 DEF Inv, StreamIsTrue, Exact, Answer, SettledUnaborted
<1>3. \A m : Sound(m) => SoundNext(m)
  BY <1>1, TrueStays DEF Done
<1>4. \A s \in Setters : setter'[s] # None => SoundNext(setter'[s])
  BY <1>1, <1>3 DEF Inv, RecordsOK, Busy, setVars
<1>5. printed = None
  BY <1>1 DEF Inv, HelperOK
<1>6. CASE Prepare
  <2>1. PICK p \in Provenances : meta' = InitialMetadata(p)
    BY <1>6 DEF Prepare
  <2>2. SoundNext(meta')
    BY <2>1, InitialRecord DEF SoundNext, StillTrue
  <2>3. phase' = "drain" /\ pi' = Alive /\ status' = status
    BY <1>6 DEF Prepare, outVars
  <2>4. RecordsOK'
    BY <1>4, <2>2, RecordsNext
  <2>5. HelperOK'
    BY <1>1, <1>5, <2>3 DEF Inv, HelperOK, setVars
  <2>6. (~overlapped => InOrder)'
    BY <1>1, <2>3 DEF Inv, HelperOK, InOrder, Ended, Busy, setVars
  <2> QED BY <1>2, <2>4, <2>5, <2>6 DEF Inv
<1>7. CASE PrepareFails
  <2>1. phase' = "exited" /\ status' = 1 /\ pi' = pi
    BY <1>7 DEF PrepareFails, ExitWith, piVars
  <2>2. meta' # None => SoundNext(meta')
    <3>1. CASE meta' = meta
      BY <1>3, <3>1 DEF Inv, RecordsOK
    <3>2. ASSUME NEW p \in Provenances, meta' = InitialMetadata(p)
          PROVE  SoundNext(meta')
      BY <3>2, InitialRecord DEF SoundNext, StillTrue
    <3>3. ASSUME NEW p \in Provenances, meta' = FailureMetadata(InitialMetadata(p))
          PROVE  SoundNext(meta')
      <4>1. IsProvenance(InitialMetadata(p).provenance)
        BY InitialRecord DEF RunRecord
      <4> QED BY <3>3, <4>1, FailureRecord DEF SoundNext, StillTrue
    <3> QED BY <1>7, <3>1, <3>2, <3>3 DEF PrepareFails
  <2>3. RecordsOK'
    BY <1>4, <2>1, <2>2, RecordsNext DEF Begun
  <2>4. HelperOK'
    BY <1>1, <1>5, <2>1 DEF Inv, HelperOK, setVars
  <2>5. (~overlapped => InOrder)'
    BY <1>1, <2>1 DEF Inv, InOrder, Ended, Busy, setVars
  <2> QED BY <1>2, <2>3, <2>4, <2>5 DEF Inv
<1> QED BY <1>6, <1>7

(* The end of the run, by a failure or with a final record. *)
LEMMA InvAbort == Inv /\ Abort => Inv'
<1> SUFFICES ASSUME Inv, Abort PROVE Inv'
  OBVIOUS
<1>1. /\ phase = "abort" /\ phase' = "exited" /\ status' = 1
      /\ UNCHANGED <<pi, discarding, stream, lines, setVars, printed>>
  BY DEF Abort, ExitWith, piVars, streamVars
<1>2. StreamOK(stream') /\ StreamIsTrue'
  <2>1. \A k : Reported(k)' = Reported(k) /\ UsageLines' = UsageLines
    BY <1>1, SameReports
  <2> QED BY <1>1, <2>1 DEF Inv, StreamIsTrue, Exact, Answer, SettledUnaborted
<1>3. \A m : Sound(m) => SoundNext(m)
  BY <1>1, TrueStays DEF Done
<1>4. Sound(meta) /\ IsProvenance(meta.provenance)
  BY <1>1 DEF Inv, RecordsOK, Sound, RunRecord
<1>5. SoundNext(meta')
  <2>1. CASE meta' = meta
    BY <1>3, <1>4, <2>1
  <2>2. CASE meta' = FailureMetadata(meta)
    BY <1>4, <2>2, FailureRecord DEF SoundNext, StillTrue
  <2> QED BY <2>1, <2>2 DEF Abort
<1>6. RecordsOK'
  BY <1>1, <1>3, <1>5, RecordsNext DEF Inv, RecordsOK, Busy, setVars
<1>7. HelperOK'
  BY <1>1 DEF Inv, HelperOK, setVars
<1>8. (~overlapped => InOrder)'
  BY <1>1 DEF Inv, InOrder, Ended, Busy, setVars
<1> QED BY <1>2, <1>6, <1>7, <1>8 DEF Inv

LEMMA InvFinish == Inv /\ FinishRun => Inv'
<1> SUFFICES ASSUME Inv, FinishRun PROVE Inv'
  OBVIOUS
<1> DEFINE s == IF discarding THEN NoteError(stream) ELSE stream
           o == FinalizeStream(s)
           code == ResolveExitCode(o, pi)
           r == FinalMetadata(meta, s, o, pi)
<1>1. /\ phase = "drain" /\ pi \in ExitCodes /\ pi \in Nat
      /\ UNCHANGED <<pi, discarding, stream, lines, setVars, printed>>
  BY ImplAssumption DEF FinishRun, PiClosed, piVars, streamVars
<1>2. \/ /\ meta' = r
         /\ IF code = 0 THEN phase' = "print" /\ UNCHANGED status
            ELSE phase' = "exited" /\ status' = code
      \/ meta' \in {meta, FailureMetadata(meta)} /\ phase' = "exited" /\ status' = 1
  BY DEF FinishRun, WriteFails, ExitWith
<1>3. StreamOK(stream') /\ StreamIsTrue'
  <2>1. \A k : Reported(k)' = Reported(k) /\ UsageLines' = UsageLines
    BY <1>1, SameReports
  <2> QED BY <1>1, <2>1 DEF Inv, StreamIsTrue, Exact, Answer, SettledUnaborted
<1>4. \A m : Sound(m) => SoundNext(m)
  BY <1>1, TrueStays DEF Done
<1>5. Sound(meta) /\ IsProvenance(meta.provenance)
  BY <1>1 DEF Inv, RecordsOK, Sound, RunRecord
<1>6. StreamOK(s) /\ (s.error \/ s = stream)
  BY NoteErrorOK DEF Inv
<1>7. Done'
  BY <1>2 DEF Done
<1>8. /\ o.status \in {"completed", "failed", "incomplete"}
      /\ o.status = "completed" =>
           /\ ~s.error /\ s.flags.ended /\ s.flags.aborted = FALSE
           /\ s.flags.stop = "stop"
  BY <1>6, Outcomes
<1>9. IsFinal(r, meta, s, o, pi) /\ RunRecord(r)
  BY <1>1, <1>5, <1>6, FinalFields, FinalRecord
<1>10. code = 0 => pi = 0 /\ o.status = "completed"
  BY DEF ResolveExitCode
<1>11. r.status = "completed" => CompletionIsTrue'
  <2> SUFFICES ASSUME r.status = "completed" PROVE CompletionIsTrue'
    OBVIOUS
  <2>1. pi = 0 /\ o.status = "completed"
    BY <1>9 DEF IsFinal, RecordedStatus
  <2>2. s = stream /\ ~stream.error
    BY <1>6, <1>8, <2>1
  <2>3. CompletionIsTrue
    <3>1. \A i \in DOMAIN lines : lines[i] # BadLine
      BY <2>2 DEF Inv, StreamIsTrue, BadLine
    <3>2. \E i \in DOMAIN lines : Answer(i) /\ lines[i].stop = "stop"
      BY <1>8, <2>1, <2>2 DEF Inv, StreamIsTrue
    <3>3. SettledUnaborted
      BY <1>8, <2>1, <2>2 DEF Inv, StreamIsTrue
    <3> QED BY <2>1, <3>1, <3>2, <3>3 DEF CompletionIsTrue
  <2> QED BY <1>1, <2>3 DEF CompletionIsTrue, Answer, SettledUnaborted
<1>12. ASSUME r.usage.coverage = "complete", NEW k \in CoreMetrics
       PROVE  /\ \A i \in UsageLines' : k \in DOMAIN lines'[i].usage
              /\ r.usage.sum[k] = Reported(k)'
  <2> DEFINE u == stream.usage
  <2>1. r.usage = FinalUsage(s)
    BY <1>9 DEF IsFinal
  <2>2. ~s.error
    <3>1. DOMAIN s.usage = DOMAIN EmptyUsage
      BY <1>6 DEF StreamOK, Tallied
    <3>2. DegradeUsage(s.usage).coverage # "complete"
      BY <3>1 DEF DegradeUsage, EmptyUsage
    <3> QED BY <1>12, <2>1, <3>2 DEF FinalUsage
  <2>3. r.usage = u
    BY <1>6, <2>1, <2>2 DEF FinalUsage
  <2>4. Tallied(u)
    BY DEF Inv, StreamOK
  <2>5. u.expected > 0 /\ Get(u.known, k, 0) = u.expected
    <3> HIDE DEF u
    <3> QED BY <1>12, <2>3, <2>4, CoverageTag DEF Tallied
  <2>6. k \in DOMAIN u.sum
    <3> HIDE DEF u
    <3> QED BY <2>4, <2>5 DEF Tallied, Get
  <2>7. Get(u.sum, k, 0) = Reported(k) /\ \A i \in UsageLines : k \in DOMAIN lines[i].usage
    BY <2>5 DEF Inv, StreamIsTrue, Exact
  <2>8. UsageLines' = UsageLines /\ Reported(k)' = Reported(k)
    BY <1>1, SameReports
  <2> QED BY <1>1, <2>3, <2>6, <2>7, <2>8 DEF Get
<1> HIDE DEF r, code
<1>13. SoundNext(r)
  BY <1>7, <1>9, <1>11, <1>12 DEF SoundNext, StillTrue
<1>14. SoundNext(meta')
  <2>1. SoundNext(FailureMetadata(meta))
    BY <1>5, FailureRecord DEF SoundNext, StillTrue
  <2> QED BY <1>2, <1>4, <1>5, <1>13, <2>1
<1>15. RecordsOK'
  BY <1>1, <1>4, <1>14, RecordsNext DEF Inv, RecordsOK, Busy, setVars
<1>16. HelperOK'
  <2>1. phase' = "print" => FinalizeStream(stream').status = "completed"
    BY <1>1, <1>2, <1>6, <1>8, <1>10
  <2>2. phase' \in {"print", "exited"} /\ (status' = 0 => phase' = "exited")
    BY <1>1, <1>2 DEF Inv, HelperOK
  <2>3. printed = None
    BY <1>1 DEF Inv, HelperOK
  <2> QED BY <1>1, <2>1, <2>2, <2>3 DEF Inv, HelperOK, setVars
<1>17. (~overlapped => InOrder)'
  <2>1. phase' = "print" => meta'.status = "completed" /\ meta'.parent = "unverified"
    BY <1>2, <1>9, <1>10 DEF IsFinal, RecordedStatus
  <2>2. status' # 0
    BY <1>1, <1>2 DEF Inv, HelperOK
  <2> QED BY <1>1, <2>1, <2>2 DEF Inv, InOrder, Ended, Busy, setVars
<1> QED BY <1>3, <1>15, <1>16, <1>17 DEF Inv

LEMMA InvPrint == Inv /\ WriteStdout => Inv'
<1> SUFFICES ASSUME Inv, WriteStdout PROVE Inv'
  OBVIOUS
<1>1. /\ phase = "print" /\ phase' = "exited"
      /\ \/ printed' = FinalizeStream(stream).text /\ status' = 0
         \/ UNCHANGED printed /\ status' = 1
      /\ UNCHANGED <<pi, discarding, stream, lines, setVars, meta>>
  BY DEF WriteStdout, ExitWith, piVars, streamVars
<1>2. StreamOK(stream') /\ StreamIsTrue'
  <2>1. \A k : Reported(k)' = Reported(k) /\ UsageLines' = UsageLines
    BY <1>1, SameReports
  <2> QED BY <1>1, <2>1 DEF Inv, StreamIsTrue, Exact, Answer, SettledUnaborted
<1>3. \A m : Sound(m) => SoundNext(m)
  BY <1>1, TrueStays DEF Done
<1>4. RecordsOK'
  BY <1>1, <1>3, RecordsNext DEF Inv, RecordsOK, Busy, setVars
<1>5. printed' # None => Answer(printed')
  <2>1. /\ stream.flags.ended
        /\ FinalizeStream(stream).text = stream.flags.text
    BY <1>1, Outcomes DEF Inv, HelperOK
  <2> QED BY <1>1, <2>1 DEF Inv, StreamIsTrue, HelperOK
<1>6. HelperOK'
  <2>1. printed' # None => Answer(printed)'
    BY <1>1, <1>5 DEF Answer
  <2> QED BY <1>1, <2>1 DEF Inv, HelperOK, setVars
<1>7. (~overlapped => InOrder)'
  BY <1>1 DEF Inv, InOrder, Ended, Busy, setVars
<1> QED BY <1>2, <1>4, <1>6, <1>7 DEF Inv

(* set-validation. *)
LEMMA InvSet == ASSUME Inv, NEW s \in Setters, SetRead(s) \/ SetRename(s) \/ SetFails(s)
                PROVE  Inv'
<1>1. /\ UNCHANGED <<phase, pi, discarding, stream, lines, printed, status>>
      /\ setter = [t \in Setters |-> setter[t]]
      /\ overlapped \in BOOLEAN
  BY DEF SetRead, SetRename, SetFails, piVars, streamVars, outVars, Inv, HelperOK
<1>2. StreamOK(stream') /\ StreamIsTrue'
  <2>1. \A k : Reported(k)' = Reported(k) /\ UsageLines' = UsageLines
    BY <1>1, SameReports
  <2> QED BY <1>1, <2>1 DEF Inv, StreamIsTrue, Exact, Answer, SettledUnaborted
<1>3. \A m : Sound(m) => SoundNext(m)
  BY <1>1, TrueStays DEF Done
<1>4. PICK w : setter' = [setter EXCEPT ![s] = w]
  BY DEF SetRead, SetRename, SetFails
<1>5. /\ setter' = [t \in Setters |-> setter'[t]] /\ setter'[s] = w
      /\ \A t \in Setters \ {s} : setter'[t] = setter[t]
  BY <1>1, <1>4
<1>6. HelperOK'
  <2>1. overlapped' \in BOOLEAN
    BY <1>1 DEF SetRead, SetRename, SetFails, Ended
  <2> QED BY <1>1, <1>5, <2>1 DEF Inv, HelperOK, Answer
<1>7. \A t \in Setters \ {s} : setter'[t] # None => SoundNext(setter'[t])
  BY <1>3, <1>5 DEF Inv, RecordsOK, Busy
<1>8. CASE SetRead(s)
  <2>1. meta # None /\ meta' = meta /\ asked' = asked
    BY <1>8 DEF SetRead
  <2>2. Sound(meta)
    BY <2>1 DEF Inv, RecordsOK
  <2>3. PICK parent \in Settable :
          /\ MayBeMarked(meta, parent)
          /\ ValidRunMetadata([meta EXCEPT !.parent = parent])
          /\ setter' = [setter EXCEPT ![s] = [meta EXCEPT !.parent = parent]]
    BY <1>8 DEF SetRead
  <2> DEFINE v == [meta EXCEPT !.parent = parent]
  <2>4. setter'[s] = v
    BY <1>1, <2>3
  <2>5. /\ v.parent = parent /\ v.status = meta.status /\ v.usage = meta.usage
        /\ v.provenance = meta.provenance /\ DOMAIN v = DOMAIN meta
    BY <2>2 DEF Sound, RunRecord, Fields
  <2>6. v = [meta EXCEPT !.parent = v.parent]
    BY <2>5
  <2>7. ValidRunMetadata(v)
    BY <2>3
  <2> HIDE DEF v
  <2>8. Sound(v)
    BY <2>2, <2>5, <2>7 DEF Sound, RunRecord, TrueRecord, MetricsAreExact
  <2>9. RecordsOK'
    <3>1. \A t \in Setters : setter'[t] # None => SoundNext(setter'[t])
      BY <1>3, <1>7, <2>4, <2>8
    <3>2. SoundNext(meta')
      BY <1>3, <2>1, <2>2
    <3> QED BY <3>1, <3>2, RecordsNext
  <2>10. (~overlapped => InOrder)'
    <3> SUFFICES ASSUME ~overlapped' PROVE InOrder'
      OBVIOUS
    <3>1. ~overlapped /\ Ended /\ \A t \in Setters \ {s} : ~Busy(t)
      BY <1>8 DEF SetRead
    <3>2. InOrder
      BY <3>1 DEF Inv
    <3> QED BY <1>1, <1>5, <2>1, <2>4, <2>6, <3>1, <3>2 DEF InOrder, Ended, Busy
  <2> QED BY <1>2, <1>6, <2>9, <2>10 DEF Inv
<1>9. CASE SetRename(s)
  <2>1. /\ Busy(s) /\ meta' = setter[s] /\ asked' = setter[s].parent
        /\ setter'[s] = None /\ overlapped' = overlapped
    BY <1>1, <1>9 DEF SetRename
  <2>2. Sound(setter[s])
    BY <2>1 DEF Inv, RecordsOK
  <2>3. RecordsOK'
    BY <1>3, <1>7, <2>1, <2>2, RecordsNext
  <2>4. (~overlapped => InOrder)'
    <3> SUFFICES ASSUME ~overlapped PROVE InOrder'
      BY <2>1
    <3>1. InOrder
      BY DEF Inv
    <3>2. Ended /\ phase # "print"
      BY <2>1, <3>1 DEF InOrder, Ended
    <3>3. \A t \in Setters : setter'[t] = None
      BY <1>5, <2>1, <3>1 DEF InOrder, Busy
    <3>4. "status" \in DOMAIN setter[s]
      BY <2>2 DEF Sound, RunRecord, Fields
    <3>5. setter[s] = [meta EXCEPT !.parent = setter[s].parent]
      BY <2>1, <3>1 DEF InOrder
    <3>6. setter[s].status = meta.status
      <4> DEFINE v == setter[s]
                 p == v.parent
      <4>1. v = [meta EXCEPT !.parent = p] /\ "status" \in DOMAIN v
        BY <3>4, <3>5
      <4> HIDE DEF v, p
      <4>2. DOMAIN v = DOMAIN meta
        BY <4>1
      <4>3. v.status = meta.status
        BY <4>1, <4>2
      <4> QED BY <4>3 DEF v
    <3> QED BY <1>1, <2>1, <3>1, <3>2, <3>3, <3>6 DEF InOrder, Ended, Busy
  <2> QED BY <1>2, <1>6, <2>3, <2>4 DEF Inv
<1>10. CASE SetFails(s)
  <2>1. UNCHANGED <<meta, asked, overlapped>> /\ setter'[s] = None
    BY <1>1, <1>10 DEF SetFails
  <2>2. RecordsOK'
    <3>1. meta' # None \/ Begun' => SoundNext(meta')
      BY <1>1, <1>3, <2>1 DEF Inv, RecordsOK, Begun
    <3>2. \A t \in Setters : setter'[t] # None => SoundNext(setter'[t])
      BY <1>7, <2>1
    <3> QED BY <3>1, <3>2, RecordsNext
  <2>3. (~overlapped => InOrder)'
    BY <1>1, <1>5, <2>1 DEF Inv, InOrder, Ended, Busy
  <2> QED BY <1>2, <1>6, <2>2, <2>3 DEF Inv
<1> QED BY <1>8, <1>9, <1>10

LEMMA InvStep == Inv /\ [Next]_vars => Inv'
<1> SUFFICES ASSUME Inv, [Next]_vars PROVE Inv'
  OBVIOUS
<1>1. CASE UNCHANGED vars
  BY <1>1, InvQuiet DEF vars, setVars, Inv, HelperOK
<1>2. CASE Prepare \/ PrepareFails
  BY <1>2, InvPrepare
<1>3. CASE HandleLine \/ BadLineRead
  BY <1>3, InvRead
<1>4. CASE NewlineFound \/ Overflow \/ OverflowEnds \/ ReadFails
  <2>1. /\ UNCHANGED <<stream, lines, meta, printed, status, setVars, pi>>
        /\ phase \in {"drain", "overflow"}
        /\ phase' \in {"drain", "overflow", "abort"}
    BY <1>4 DEF NewlineFound, Overflow, OverflowEnds, ReadFails, piVars, streamVars, outVars
  <2>2. discarding' \in BOOLEAN
    BY <1>4 DEF NewlineFound, Overflow, OverflowEnds, ReadFails, streamVars, Inv, HelperOK
  <2> QED BY <2>1, <2>2, InvQuiet DEF Inv, HelperOK
<1>5. CASE KillHelper
  <2>1. /\ UNCHANGED <<stream, lines, meta, printed, status, setVars, pi,
                       discarding>>
        /\ ~Ended /\ phase' = "killed"
    BY <1>5 DEF KillHelper, piVars, streamVars, outVars
  <2> QED BY <2>1, InvQuiet DEF Inv, HelperOK
<1>6. CASE PiExits \/ PiTerminated
  <2>1. /\ UNCHANGED <<stream, lines, meta, printed, status, setVars,
                       phase, discarding>>
        /\ pi = Alive /\ pi' \in ExitCodes
    BY <1>6 DEF PiExits, PiTerminated, streamVars, outVars
  <2> QED BY <2>1, InvQuiet DEF Inv, HelperOK
<1>7. CASE Abort
  BY <1>7, InvAbort
<1>8. CASE FinishRun
  BY <1>8, InvFinish
<1>9. CASE WriteStdout
  BY <1>9, InvPrint
<1>10. CASE \E s \in Setters : SetRead(s) \/ SetRename(s) \/ SetFails(s)
  BY <1>10, InvSet
<1> QED BY <1>1, <1>2, <1>3, <1>4, <1>5, <1>6, <1>7, <1>8, <1>9, <1>10
        DEF Next, Helper

LEMMA InvAlways == Spec => []Inv
BY InvInit, InvStep, PTL DEF Spec

(* Whatever a reader finds under the name metadata.json, while the helper     *)
(* writes it, after it failed, and however many callers validate at once, is  *)
(* a record that validateRunMetadata of impl_history.ts accepts.              *)
THEOREM RecordAlwaysReadable == Spec => []MetadataIsValid
<1>1. Inv => MetadataIsValid
  BY DEF Inv, RecordsOK, Sound, RunRecord, MetadataIsValid
<1> QED BY <1>1, InvAlways, PTL

(* For any lines in any order and any exit of Pi, a record is completed only  *)
(* after a settled last answer with no unusable line, and its totals are      *)
(* exact where coverage is complete (impl_stream.ts), in the hands of any     *)
(* number of callers of set-validation.                                       *)
THEOREM RecordAlwaysTrue == Spec => []RecordIsTrue
<1>1. Inv => RecordIsTrue
  BY DEF Inv, RecordsOK, Sound, TrueRecord, RecordIsTrue
<1> QED BY <1>1, InvAlways, PTL

(* What finishRun prints is the last answer of Pi, the record it printed for  *)
(* is completed, and a validation that follows the run is kept in it.         *)
THEOREM ResultAlwaysKept == Spec => []ResultIsKept
<1>1. Inv => ResultIsKept
  BY DEF Inv, HelperOK, InOrder, ResultIsKept
<1> QED BY <1>1, InvAlways, PTL

-----------------------------------------------------------------------------
(* The report. *)

RunStatuses == {"running", "completed", "failed", "incomplete"}

(* A row is the one of its model, and holds the number of its runs. *)
LEMMA RowsAre ==
  ASSUME NEW records
  PROVE  /\ \A x \in Models(records) : \E row \in ModelRows(records) : row.model = x
         /\ \A row \in ModelRows(records) :
              /\ row.model \in Models(records)
              /\ row = ModelRow(records, row.model)
              /\ row.runs = Cardinality(RunsOf(records, row.model))
<1>1. \A x : /\ ModelRow(records, x).model = x
             /\ ModelRow(records, x).runs = Cardinality(RunsOf(records, x))
  BY DEF ModelRow
<1> QED BY <1>1 DEF ModelRows

LEMMA ModelsFinite ==
  ASSUME NEW records, IsFiniteSet(records)
  PROVE  IsFiniteSet(Models(records))
<1> DEFINE model == [m \in records |-> m.model]
<1>1. Models(records) = {model[m] : m \in records}
  BY DEF Models
<1> HIDE DEF model
<1> QED BY <1>1, ValuesFinite

LEMMA RowsAddUp ==
  ASSUME NEW records, IsFiniteSet(records)
  PROVE  SumFunction([row \in ModelRows(records) |-> row.runs]) = Cardinality(records)
<1> DEFINE G == ModelRows(records)
           p == [row \in G |-> RunsOf(records, row.model)]
           f == [row \in G |-> row.runs]
<1>1. IsFiniteSet(G)
  <2> DEFINE rowOf == [x \in Models(records) |-> ModelRow(records, x)]
  <2>1. G = {rowOf[x] : x \in Models(records)}
    BY DEF ModelRows
  <2> HIDE DEF rowOf, G
  <2> QED BY <2>1, ModelsFinite, ValuesFinite
<1>2. \A row \in G : IsFiniteSet(p[row]) /\ f[row] = Cardinality(p[row])
  <2>1. \A x : IsFiniteSet(RunsOf(records, x))
    BY FS_Subset DEF RunsOf
  <2> QED BY <2>1, RowsAre
<1>3. \A x, y \in G : x # y => p[x] \cap p[y] = {}
  <2>1. \A x, y \in G : x # y => x.model # y.model
    BY RowsAre
  <2> QED BY <2>1 DEF RunsOf
<1>4. \A m : m \in records <=> \E row \in G : m \in p[row]
  <2>1. \A m \in records : \E row \in G : row.model = m.model
    BY RowsAre DEF Models
  <2> QED BY <2>1 DEF RunsOf
<1>5. SumFunction(f) = SumFunctionOnSet(f, G)
  BY DEF SumFunction
<1> HIDE DEF f, p, G
<1>6. SumFunctionOnSet(f, G) = Cardinality(records)
  BY <1>1, <1>2, <1>3, <1>4, SumOfParts
<1> QED BY <1>5, <1>6 DEF f, G

LEMMA RowsOK ==
  ASSUME NEW records, IsFiniteSet(records), NEW x,
         \A m \in records : m.status \in RunStatuses
  PROVE  FairRow(records, ModelRow(records, x))
<1> DEFINE row == ModelRow(records, x)
           runs == RunsOf(records, x)
           W(s) == {m \in runs : m.status = s}
<1>1. IsFiniteSet(runs) /\ \A m \in runs : m.status \in RunStatuses
  BY FS_Subset DEF RunsOf
<1>2. /\ row.runs = Cardinality(runs)
      /\ row.completed = Cardinality(W("completed"))
      /\ row.failed = Cardinality(W("failed"))
      /\ row.incomplete = Cardinality(W("incomplete"))
      /\ row.running = Cardinality(W("running"))
      /\ row.cost = CostLabel(runs)
  BY DEF ModelRow
<1>5. RunsOf(records, row.model) = runs
  BY DEF ModelRow
<1> HIDE DEF row, runs
<1>3. row.runs = row.completed + row.failed + row.incomplete + row.running
  <2> DEFINE c == W("completed")
             f == W("failed")
             i == W("incomplete")
             r == W("running")
  <2>1. /\ IsFiniteSet(c) /\ IsFiniteSet(f) /\ IsFiniteSet(i) /\ IsFiniteSet(r)
        /\ c \cap f = {} /\ (c \cup f) \cap i = {} /\ (c \cup f \cup i) \cap r = {}
        /\ runs = c \cup f \cup i \cup r
    <3>1. c \subseteq runs /\ f \subseteq runs /\ i \subseteq runs /\ r \subseteq runs
      OBVIOUS
    <3>2. IsFiniteSet(c) /\ IsFiniteSet(f) /\ IsFiniteSet(i) /\ IsFiniteSet(r)
      <4> HIDE DEF c, f, i, r
      <4> QED BY <1>1, <3>1, FS_Subset
    <3>3. c \cap f = {} /\ (c \cup f) \cap i = {} /\ (c \cup f \cup i) \cap r = {}
      OBVIOUS
    <3>4. runs = c \cup f \cup i \cup r
      BY <1>1 DEF RunStatuses
    <3> QED BY <3>2, <3>3, <3>4
  <2> HIDE DEF c, f, i, r
  <2> DEFINE cf == c \cup f
             cfi == cf \cup i
  <2>2. /\ Cardinality(c) \in Nat /\ Cardinality(f) \in Nat
        /\ Cardinality(i) \in Nat /\ Cardinality(r) \in Nat
    BY <2>1, FS_CardinalityType
  <2>3. IsFiniteSet(cf) /\ Cardinality(cf) = Cardinality(c) + Cardinality(f)
    BY <2>1, DisjointUnion
  <2>4. cf \cap i = {} /\ (cf \cup i) \cap r = {} /\ runs = cf \cup i \cup r
    BY <2>1
  <2> HIDE DEF cf
  <2>5. IsFiniteSet(cfi) /\ Cardinality(cfi) = Cardinality(cf) + Cardinality(i)
    BY <2>1, <2>3, <2>4, DisjointUnion
  <2>6. cfi \cap r = {} /\ runs = cfi \cup r
    BY <2>4
  <2> HIDE DEF cfi
  <2>7. Cardinality(runs) = Cardinality(cfi) + Cardinality(r)
    BY <2>1, <2>5, <2>6, DisjointUnion
  <2> QED BY <1>2, <2>2, <2>3, <2>5, <2>7 DEF c, f, i, r
<1>4. ASSUME row.cost = "full", NEW m \in runs, m.usage.expected > 0
      PROVE  m.status = "completed" /\ CostKnown(m) = m.usage.expected
  <2> DEFINE expected == {n \in runs : n.usage.expected > 0}
             full == {n \in runs : FullyPriced(n)}
  <2>1. Cardinality(full) = Cardinality(expected)
    BY <1>2, <1>4 DEF CostLabel
  <2>2. full \subseteq expected /\ expected \subseteq runs
    BY DEF FullyPriced
  <2>3. IsFiniteSet(expected)
    <3> HIDE DEF expected
    <3> QED BY <1>1, <2>2, FS_Subset
  <2>4. full = expected
    <3> HIDE DEF full, expected
    <3> QED BY <2>1, <2>2, <2>3, FS_Subset
  <2> QED BY <1>4, <2>4 DEF FullyPriced
<1>6. FairRow(records, row)
  BY <1>3, <1>4, <1>5 DEF FairRow
<1> QED BY <1>6 DEF row

(* Two runs of one group that were matched are runs of one case. *)
LEMMA OneKey ==
  ASSUME NEW m, NEW n, IsProvenance(m.provenance), IsProvenance(n.provenance),
         Matched(m.provenance), Matched(n.provenance), CaseKey(m) = CaseKey(n)
  PROVE  SameCase(m, n)
<1> DEFINE p == m.provenance
           q == n.provenance
<1>1. <<m.prompt, m.systemPrompt, p.kind, p.revision, p.repository>>
        = <<n.prompt, n.systemPrompt, q.kind, q.revision, q.repository>>
  BY DEF CaseKey
<1>2. /\ m.prompt = n.prompt /\ m.systemPrompt = n.systemPrompt
      /\ p.kind = q.kind /\ p.revision = q.revision /\ p.repository = q.repository
  BY <1>1
<1>3. p.comparable = TRUE /\ q.comparable = TRUE
  BY DEF Matched, IsProvenance
<1>4. /\ p = [kind |-> p.kind, revision |-> p.revision,
              comparable |-> p.comparable, repository |-> p.repository]
      /\ q = [kind |-> q.kind, revision |-> q.revision,
              comparable |-> q.comparable, repository |-> q.repository]
  BY DEF IsProvenance
<1> HIDE DEF p, q
<1>5. p = q
  BY <1>2, <1>3, <1>4
<1> QED BY <1>2, <1>3, <1>5 DEF SameCase, p, q

(* A group with a matched run has no other. *)
LEMMA MatchedKey ==
  ASSUME NEW m, NEW n, Matched(m.provenance), CaseKey(n) = CaseKey(m)
  PROVE  Matched(n.provenance)
<1> SUFFICES ASSUME ~Matched(n.provenance) PROVE FALSE
  OBVIOUS
<1>1. <<"hetero", n.prompt, n.systemPrompt, n.runId>>
        = <<m.prompt, m.systemPrompt, m.provenance.kind, m.provenance.revision,
            m.provenance.repository>>
  BY DEF CaseKey
<1>2. Len(<<"hetero", n.prompt, n.systemPrompt, n.runId>>) = 4
  OBVIOUS
<1>3. Len(<<m.prompt, m.systemPrompt, m.provenance.kind, m.provenance.revision,
            m.provenance.repository>>) = 5
  OBVIOUS
<1> QED BY <1>1, <1>2, <1>3

LEMMA CasesOK ==
  ASSUME NEW records, IsFiniteSet(records),
         \A m \in records : IsProvenance(m.provenance)
  PROVE  FairCases(records)
<1> DEFINE groups == CaseGroups(records)
           BothEnded(m, n) == "running" \notin {m.status, n.status}
<1>1. ASSUME NEW m \in records, NEW n \in records,
             NEW g \in groups, {m, n} \subseteq Compared(g)
      PROVE  SameCase(m, n) /\ BothEnded(m, n)
  <2>1. PICK key : g = {r \in records : CaseKey(r) = key}
    BY DEF CaseGroups
  <2>2. /\ m \in g /\ n \in g /\ m.status # "running" /\ n.status # "running"
        /\ Matched(m.provenance) /\ Matched(n.provenance)
    BY <1>1 DEF Compared
  <2>3. CaseKey(m) = CaseKey(n)
    BY <2>1, <2>2
  <2> QED BY <2>2, <2>3, OneKey
<1>2. ASSUME NEW m \in records, NEW n \in records, m.model # n.model,
             SameCase(m, n), BothEnded(m, n)
      PROVE  \E g \in groups : {m, n} \subseteq Compared(g)
  <2> DEFINE g == {r \in records : CaseKey(r) = CaseKey(m)}
             timed == {r \in g : r.status # "running"}
  <2>1. Matched(m.provenance) /\ CaseKey(n) = CaseKey(m)
    BY <1>2 DEF SameCase, Matched, IsProvenance, ValidProvenance, CaseKey
  <2>2. g \in groups
    BY DEF CaseGroups
  <2>3. \A r \in g : Matched(r.provenance)
    BY <2>1, MatchedKey
  <2>4. m \in timed /\ n \in timed
    BY <1>2, <2>1
  <2>5. Cardinality(Models(timed)) >= 2
    <3>1. IsFiniteSet(timed)
      BY FS_Subset
    <3>2. {m.model, n.model} \subseteq Models(timed)
      BY <2>4 DEF Models
    <3> HIDE DEF timed
    <3>3. IsFiniteSet(Models(timed))
      BY <3>1, ModelsFinite
    <3>4. Cardinality({m.model, n.model}) = 2
      <4>1. IsFiniteSet({m.model}) /\ Cardinality({m.model}) = 1
        BY FS_Singleton
      <4>2. Cardinality({m.model} \cup {n.model}) = 1 + 1
        BY <1>2, <4>1, FS_AddElement
      <4>3. {m.model, n.model} = {m.model} \cup {n.model}
        OBVIOUS
      <4> QED BY <4>2, <4>3
    <3>5. /\ Cardinality({m.model, n.model}) <= Cardinality(Models(timed))
          /\ Cardinality(Models(timed)) \in Nat
      BY <3>2, <3>3, FS_Subset, FS_CardinalityType
    <3> QED BY <3>4, <3>5
  <2>6. Compared(g) = timed
    BY <2>3, <2>5 DEF Compared
  <2> HIDE DEF g, timed
  <2> QED BY <2>2, <2>4, <2>6
<1> HIDE DEF groups
<1>3. \A m, n \in records : m.model # n.model =>
        ((\E g \in groups : {m, n} \subseteq Compared(g))
           <=> SameCase(m, n) /\ BothEnded(m, n))
  BY <1>1, <1>2
<1>4. \A m, n : (\E c \in {Compared(g) : g \in groups} : {m, n} \subseteq c)
                 <=> (\E g \in groups : {m, n} \subseteq Compared(g))
  OBVIOUS
<1> QED BY <1>3, <1>4 DEF FairCases, groups

(* Whatever runs of other models and prompts are in the history, the report   *)
(* of impl_history.ts counts each run once, compares models exactly where     *)
(* both finished one pair of prompts from one known revision of a repository, *)
(* and calls a cost full only when every run with an answer completed at a    *)
(* known cost.                                                                *)
THEOREM ReportAlwaysFair == Spec => []ReportIsFair
<1>1. ASSUME Inv PROVE ReportIsFair
  <2> DEFINE records == OtherRuns \cup (IF meta = None THEN {} ELSE {meta})
  <2>1. IsFiniteSet(records)
    BY RecordsAssumption, FS_AddElement
  <2>2. \A m \in records : m.status \in RunStatuses /\ IsProvenance(m.provenance)
    BY <1>1, RecordsAssumption
       DEF Inv, RecordsOK, Sound, RunRecord, ValidRunMetadata, RunStatuses
  <2> HIDE DEF records
  <2>3. \A row \in ModelRows(records) : FairRow(records, row)
    <3>1. \A x : FairRow(records, ModelRow(records, x))
      BY <2>1, <2>2, RowsOK
    <3> QED BY <3>1, RowsAre
  <2>4. /\ SumFunction([row \in ModelRows(records) |-> row.runs]) = Cardinality(records)
        /\ FairCases(records)
    BY <2>1, <2>2, RowsAddUp, CasesOK
  <2> QED BY <2>3, <2>4 DEF ReportIsFair, records
<1> QED BY <1>1, InvAlways, PTL
=============================================================================
