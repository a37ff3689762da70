----------------------------- MODULE AuditReport -----------------------------
(***************************************************************************)
(* The report of an audited week (report.ts): a function of the files that *)
(* JevAudit keeps, derived whenever a process that owns the lock gets to   *)
(* it, also by a version of the scripts with another prompt than those     *)
(* that wrote the files.  The levels, the wording and report.json itself   *)
(* are left out, every file can be read, and all of them are read at once: *)
(* under the lock they do not change while a report is made.               *)
(***************************************************************************)
EXTENDS JevAudit

(* The prompts of the versions that may report; None is one that nobody has  *)
(* used for an audit.                                                        *)
Texts == Prompts \union {None}

CasesOf(w) == IF plan[w] = None THEN {} ELSE plan[w].selected

State(status, reason) == [status |-> status, reason |-> reason]

(* The status of a case with a result, which counts whatever else is there.  *)
StoredState(r) ==
  CASE approval[r] = None -> State("unavailable", "missing_approval")
    [] approval[r] # None /\ weekResult[r].key # ApprovedKey(r) ->
         State("unavailable", "invalid_stored_result")
    [] approval[r] # None /\ weekResult[r].key = ApprovedKey(r) ->
         IF weekResult[r].outcome = "failure"
         THEN State("unavailable", "failure")
         ELSE State("audited", "none")

(* The status of a case that has neither a result nor an attempt marker. *)
OpenState(r, text) ==
  CASE approval[r] = None -> State("needs_preflight", "none")
    [] approval[r] # None /\ approval[r].prompt # text ->
         State("held", "prompt_changed")
    [] approval[r] # None /\ approval[r].prompt = text ->
         IF cache[ApprovedKey(r)] = None /\ ApprovedKey(r) \in globalAttempt
         THEN State("unavailable", "global_attempt_incomplete")
         ELSE State("approved_pending", "none")

(* Broken: a case without a result is open. *)
CaseStateOfResult(r, text) ==
  IF weekResult[r] # None THEN StoredState(r) ELSE OpenState(r, text)

(* deriveCaseState *)
CaseState(r, text) ==
  IF weekResult[r] # None THEN StoredState(r)
  ELSE IF r \in weekAttempt
  THEN State("unavailable", "prior_attempt_incomplete")
  ELSE OpenState(r, text)

(* The cases whose result the report passes on, which no other file can      *)
(* change: the audited ones and those whose call failed.                     *)
Shown(w) ==
  {r \in CasesOf(w) :
     weekResult[r] # None /\ StoredState(r).reason \in {"none", "failure"}}

(* The rows that enter the rates of disagreement, and the reused answers     *)
(* that are listed apart.                                                    *)
Fresh(w) ==
  {r \in Shown(w) : StoredState(r).status = "audited" /\ weekResult[r].independent}
CacheHits(w) == {r \in Shown(w) : ~weekResult[r].independent}

AttemptedCalls(w) ==
  LET markers == Cardinality({r \in weekAttempt : RunWeek[r] = w})
      answered == Cardinality({r \in Shown(w) : weekResult[r].independent})
  IN  IF markers > answered THEN markers ELSE answered

-----------------------------------------------------------------------------

CallsOf(w) ==
  UNION {{<<k, i>> : i \in {j \in 1 .. Len(sent[k]) : RunWeek[sent[k][j]] = w}}
         : k \in Keys}

(* Both attempt markers are on disk before a patch is sent, and so, whatever  *)
(* crashes or is installed afterwards, no report shows the case as one that   *)
(* was not asked, nor counts fewer calls than were made; and the rates are    *)
(* about answers that this very case paid for, one for each call.             *)
EveryCallIsReported ==
  /\ SentIsRecorded
  /\ \A k \in Keys : \A i \in 1 .. Len(sent[k]) : \A text \in Texts :
       CaseState(sent[k][i], text).status \in {"audited", "unavailable"}
  /\ \A w \in Weeks :
       /\ AttemptedCalls(w) >= Cardinality(CallsOf(w))
       /\ \A r \in Fresh(w) : sent[weekResult[r].key] = <<r>>

ReportsGrow ==
  \A w \in Weeks :
    /\ Fresh(w) \subseteq Fresh(w)'
    /\ CacheHits(w) \subseteq CacheHits(w)'

(* A report may be old when the next week is compared with it: what was       *)
(* published or reported as audited never changes, so that an old report can  *)
(* lack rows but not contradict the files (writeReportAtomically, buildReport). *)
ReportsStand == [][files' # files => Immutable /\ ReportsGrow]_vars
=============================================================================
