----------------------------- MODULE AuditOnce ------------------------------
(***************************************************************************)
(* What the audit promises about the external model, free of files, locks  *)
(* and processes: each question is asked at most once, has at most one     *)
(* answer, and whoever reports on it reports that answer.  A question whose *)
(* asking was cut short is lost, and never asked again.                    *)
(***************************************************************************)
CONSTANTS
  Keys,      \* questions: a patch put to a model with a prompt
  Runs,      \* audited runs
  Outcomes,  \* answers
  None       \* no verdict yet

VARIABLES
  status,    \* of each question
  verdict    \* of each run

Statuses == {"open", "reserved", "asked", "lost"} \union Outcomes

Init ==
  /\ status = [k \in Keys |-> "open"]
  /\ verdict = [r \in Runs |-> None]

Move(k, from, to) ==
  /\ status[k] \in from
  /\ status' = [status EXCEPT ![k] = to]

(* Someone decides to ask, durably. *)
Reserve(k) == Move(k, {"open"}, "reserved") /\ UNCHANGED verdict

(* The one call. *)
Ask(k) == Move(k, {"reserved"}, "asked") /\ UNCHANGED verdict

(* Whoever asked dies or cannot record the answer. *)
Lose(k) == Move(k, {"reserved", "asked"}, "lost") /\ UNCHANGED verdict

(* The answer becomes the verdict of the run it was asked for. *)
Conclude(k, r, o) ==
  /\ Move(k, {"asked"}, o)
  /\ verdict[r] = None
  /\ verdict' = [verdict EXCEPT ![r] = o]

(* Another run with the same question gets the same answer. *)
Share(k, r) ==
  /\ status[k] \in Outcomes
  /\ verdict[r] = None
  /\ verdict' = [verdict EXCEPT ![r] = status[k]]
  /\ UNCHANGED status

Next ==
  \/ \E k \in Keys : Reserve(k) \/ Ask(k) \/ Lose(k)
  \/ \E k \in Keys, r \in Runs : Share(k, r) \/ \E o \in Outcomes : Conclude(k, r, o)

Spec == Init /\ [][Next]_<<status, verdict>>
=============================================================================
