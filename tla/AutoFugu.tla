------------------------------ MODULE AutoFugu ------------------------------
(***************************************************************************)
(* The Pi extension that moves a session from the base Fugu model to the   *)
(* ultra model for a hard piece of work and back again afterwards          *)
(* (pi/agent/extensions/auto-fugu-model.ts).                               *)
(*                                                                         *)
(* Its handlers call pi.setModel and await the answer.  Meanwhile the user *)
(* may pick a model, type a command or steer the run, tools may end, and   *)
(* other handlers may start.  A thread is one place the host calls         *)
(* handlers from; each action is the code between two awaits.              *)
(***************************************************************************)
EXTENDS Naturals

CONSTANTS
  Base,      \* the model of role route.fugu.base
  Ultra,     \* the model of role route.fugu.ultra
  Others,    \* models the router leaves alone
  None,      \* undefined
  Overlaps,  \* a handler may switch models while another one awaits a switch
  Escalates, \* whether the model may call the tool escalate_to_fugu_ultra
             \* while a manual choice stands
  Toggles    \* when /auto-fugu is typed: "never", "quiet" (no switch is
             \* awaited) or "anytime"

ASSUME ConstantsAssumption ==
  /\ Base # Ultra
  /\ Base \notin Others /\ Ultra \notin Others
  /\ Overlaps \in BOOLEAN /\ Escalates \in BOOLEAN
  /\ Toggles \in {"never", "quiet", "anytime"}

Pair == {Base, Ultra}
Models == Pair \union Others

ASSUME NoneAssumption == None \notin Models

STRUGGLE_THRESHOLD == 2

Threads == {"agent", "settle", "tool", "steer", "command", "end"}
Prompts == {"user", "continuation", "extension"}
Phases == {"idle", "submitted", "preparing", "running", "ending", "ended"}
Outcomes == {"ok", "refused", "thrown"}
Jobs == {"prepare", "start", "steer", "struggle", "escalate", "off", "settled",
         "shutdown"}

VARIABLES
  model,      \* ctx.model
  enabled, expected, restore, active, onward, pending, failures, manual,
              \* enabled, expectedAutomaticModel, restoreModel,
              \* activeTemporaryTarget, continueTargetAfterCompact,
              \* pendingLiteralRouteDecision, consecutiveFailures,
              \* manualOverrideActive
  thread,     \* the handlers under way
  phase,      \* of the agent run
  prompt,     \* what kind of prompt the run is for
  chosen      \* history: the model the user picked last

route == <<expected, restore, active>>
session == <<phase, prompt>>
vars == <<model, enabled, route, onward, pending, failures, manual, thread,
          session, chosen>>

Free == [at |-> "free"]

Awaiting ==
  {task \in [at : {"awaiting"}, job : Jobs, op : {"route", "restore"},
             goal : Models, from : Models, outcome : Outcomes] :
     task.op = "route" => task.goal \in Pair}

Returned == [at : {"returned"}, job : Jobs]

TypeOK ==
  /\ model \in Models /\ chosen \in Models
  /\ enabled \in BOOLEAN /\ manual \in BOOLEAN
  /\ expected \in Models \union {None}
  /\ restore \in Models \union {None}
  /\ active \in Pair \union {None}
  /\ onward \in Pair \union {None}
  /\ pending \in Pair \union {None}
  /\ failures \in 0 .. STRUGGLE_THRESHOLD
  /\ thread \in [Threads -> {Free} \union Awaiting \union Returned]
  /\ phase \in Phases /\ prompt \in Prompts

Init ==
  /\ model \in Models /\ chosen = model
  /\ enabled = TRUE /\ manual = FALSE
  /\ expected = None /\ restore = None /\ active = None
  /\ onward = None /\ pending = None /\ failures = 0
  /\ thread = [t \in Threads |-> Free]
  /\ phase = "idle" /\ prompt = "user"

-----------------------------------------------------------------------------
(* Awaiting pi.setModel.                                                   *)

IsFree(t) == thread[t].at = "free"
IsAwaiting(t) == thread[t].at = "awaiting"

NoneAwaiting == \A t \in Threads : ~IsAwaiting(t)

MaySwitch == Overlaps \/ NoneAwaiting

(* Jobs that go on after their first await. *)
Continued == {"prepare", "start", "settled", "shutdown"}

Return(t, job) ==
  thread' = [thread EXCEPT ![t] =
    IF job \in Continued THEN [at |-> "returned", job |-> job] ELSE Free]

(* clearTemporaryRouteState, keeping the continuation. *)
ClearTemporary == restore' = None /\ active' = None

(* The host switches, refuses, or throws before or after switching; model_select
   comes before the answer and is ignored, as the model is the expected one. *)
SetModel(t, job, op, goal) ==
  /\ expected' = goal
  /\ \E outcome \in Outcomes, switched \in BOOLEAN :
       /\ outcome = "ok" => switched
       /\ outcome = "refused" => ~switched
       /\ model' = IF switched THEN goal ELSE model
       /\ thread' = [thread EXCEPT ![t] =
            [at |-> "awaiting", job |-> job, op |-> op, goal |-> goal,
             from |-> model, outcome |-> outcome]]

(* Broken: an operation does not ask whether it is still the expected one. *)
ResumeUnasked(t) ==
  LET task == thread[t]
      done == task.outcome = "ok" \/ (task.outcome = "thrown" /\ model = task.goal)
  IN
  /\ IsAwaiting(t)
  /\ Return(t, task.job)
  /\ expected' = None
  /\ IF ~done THEN UNCHANGED <<restore, active>>
     ELSE IF task.op = "restore" THEN ClearTemporary
     ELSE /\ restore' = IF restore = None THEN task.from ELSE restore
          /\ active' = task.goal
  /\ UNCHANGED <<model, enabled, onward, pending, failures, manual, session, chosen>>

(* Broken: a refusal returns without clearing the expectation. *)
ResumeStillExpecting(t) ==
  LET task == thread[t]
      done == task.outcome = "ok" \/ (task.outcome = "thrown" /\ model = task.goal)
      current == expected = task.goal
  IN
  /\ IsAwaiting(t)
  /\ Return(t, task.job)
  /\ expected' = IF current /\ done THEN None ELSE expected
  /\ IF ~current \/ ~done THEN UNCHANGED <<restore, active>>
     ELSE IF task.op = "restore" THEN ClearTemporary
     ELSE /\ restore' = IF restore = None THEN task.from ELSE restore
          /\ active' = task.goal
  /\ UNCHANGED <<model, enabled, onward, pending, failures, manual, session, chosen>>

(* Broken: the model to go back to is the one of the latest switch. *)
ResumeRestoringLatest(t) ==
  LET task == thread[t]
      goal == task.goal
      done == task.outcome = "ok" \/ (task.outcome = "thrown" /\ model = goal)
  IN
  /\ IsAwaiting(t)
  /\ Return(t, task.job)
  /\ expected' = IF expected = goal THEN None ELSE expected
  /\ IF expected # goal \/ ~done THEN UNCHANGED <<restore, active>>
     ELSE IF task.op = "restore" THEN ClearTemporary
     ELSE restore' = task.from /\ active' = goal
  /\ UNCHANGED <<model, enabled, onward, pending, failures, manual, session, chosen>>

(* The await of applyRouteTarget or restoreModelIfNeeded ends.  Unless this
   operation is still the expected one it leaves everything alone. *)
Resume(t) ==
  LET task == thread[t]
      goal == task.goal
      done == task.outcome = "ok" \/ (task.outcome = "thrown" /\ model = goal)
      back == IF restore = None THEN task.from ELSE restore
  IN
  /\ IsAwaiting(t)
  /\ Return(t, task.job)
  /\ expected' = IF expected = goal THEN None ELSE expected
  /\ IF expected # goal THEN UNCHANGED <<restore, active>>
     ELSE IF task.op = "restore"
     THEN IF done THEN ClearTemporary ELSE restore' = goal /\ UNCHANGED active
     ELSE IF ~done THEN UNCHANGED <<restore, active>>
     ELSE IF goal = back THEN ClearTemporary
     ELSE restore' = back /\ active' = goal
  /\ UNCHANGED <<model, enabled, onward, pending, failures, manual, session, chosen>>

(* applyRouteTarget up to its await.  A target may be out of scope or unknown
   to the registry. *)
Apply(t, job, target) ==
  /\ MaySwitch
  /\ \/ /\ model \notin Pair \/ model # target \/ restore # model
        /\ Return(t, job)
        /\ UNCHANGED <<model, route>>
     \/ /\ model = target /\ restore = model
        /\ ClearTemporary /\ Return(t, job)
        /\ UNCHANGED <<model, expected>>
     \/ /\ model \in Pair \ {target}
        /\ SetModel(t, job, "route", target)
        /\ UNCHANGED <<restore, active>>

(* restoreModelIfNeeded up to its await. *)
Restore(t, job) ==
  /\ MaySwitch
  /\ IF restore = None
     THEN Return(t, job) /\ UNCHANGED <<model, route>>
     ELSE IF model = restore
     THEN ClearTemporary /\ Return(t, job) /\ UNCHANGED <<model, expected>>
     ELSE SetModel(t, job, "restore", restore) /\ UNCHANGED <<restore, active>>

-----------------------------------------------------------------------------
(* One run of the agent.                                                   *)

(* "input" while the agent is idle.  The text is classified now and routed
   when the run starts; the prefix of the continuation is recognised. *)
Input(kind) ==
  /\ phase = "idle"
  /\ phase' = "submitted" /\ prompt' = kind
  /\ onward' = IF kind = "continuation" THEN onward ELSE None
  /\ pending' \in IF kind = "user" /\ enabled THEN Pair \union {None} ELSE {None}
  /\ UNCHANGED <<model, enabled, route, failures, manual, thread, chosen>>

(* "before_agent_start": undo what an earlier run left. *)
Prepare ==
  /\ phase = "submitted"
  /\ phase' = "preparing"
  /\ Restore("agent", "prepare")
  /\ UNCHANGED <<enabled, onward, pending, failures, manual, prompt, chosen>>

(* ... then route for this one, by its text or as before the compaction. *)
RouteRun ==
  LET target == IF prompt = "continuation" THEN onward ELSE pending IN
  /\ thread["agent"] = [at |-> "returned", job |-> "prepare"]
  /\ onward' = None /\ pending' = None
  /\ IF enabled /\ ~manual /\ target # None
     THEN Apply("agent", "start", target)
     ELSE Return("agent", "start") /\ UNCHANGED <<model, route>>
  /\ UNCHANGED <<enabled, failures, manual, session, chosen>>

(* "agent_start" *)
AgentStart ==
  /\ phase = "preparing"
  /\ thread["agent"] = [at |-> "returned", job |-> "start"]
  /\ thread' = [thread EXCEPT !["agent"] = Free]
  /\ phase' = "running" /\ failures' = 0 /\ pending' = None
  /\ UNCHANGED <<model, enabled, route, onward, manual, prompt, chosen>>

(* "input" that steers the run: routed at once, if its text calls for it. *)
Steer ==
  /\ phase = "running" /\ IsFree("steer")
  /\ pending' = None /\ onward' = None
  /\ \/ enabled /\ ~manual /\ \E target \in Pair : Apply("steer", "steer", target)
     \/ UNCHANGED <<model, route, thread>>
  /\ UNCHANGED <<enabled, failures, manual, session, chosen>>

(* "tool_execution_end" of an edit or a validation command.  The count of
   failures is cut off where it stops mattering. *)
ToolEnd(isError) ==
  LET count == IF ~isError THEN 0
               ELSE IF failures < STRUGGLE_THRESHOLD THEN failures + 1
               ELSE failures
  IN
  /\ phase = "running" /\ IsFree("tool") /\ enabled
  /\ IF count = STRUGGLE_THRESHOLD /\ model = Base /\ ~manual
     THEN failures' = 0 /\ Apply("tool", "struggle", Ultra)
     ELSE failures' = count /\ UNCHANGED <<model, route, thread>>
  /\ UNCHANGED <<enabled, onward, pending, manual, session, chosen>>

(* The tool escalate_to_fugu_ultra. *)
Escalate ==
  /\ phase = "running" /\ IsFree("tool")
  /\ Escalates \/ ~manual
  /\ model = Base /\ enabled
  /\ Apply("tool", "escalate", Ultra)
  /\ UNCHANGED <<enabled, onward, pending, failures, manual, session, chosen>>

(* "session_compact" that is neither manual nor retried by the host. *)
Compact ==
  /\ phase = "running"
  /\ onward' = IF restore # None /\ active # None THEN active ELSE onward
  /\ UNCHANGED <<model, enabled, route, pending, failures, manual, thread,
                 session, chosen>>

(* "agent_settled" *)
Settle ==
  /\ phase = "running" /\ IsFree("settle")
  /\ phase' = "idle"
  /\ Restore("settle", "settled")
  /\ UNCHANGED <<enabled, onward, pending, failures, manual, prompt, chosen>>

(* ... whose `finally` emits auto-fugu:model-settled. *)
EmitSettled ==
  /\ thread["settle"] = [at |-> "returned", job |-> "settled"]
  /\ thread' = [thread EXCEPT !["settle"] = Free]
  /\ UNCHANGED <<model, enabled, route, onward, pending, failures, manual,
                 session, chosen>>

-----------------------------------------------------------------------------
(* The user.                                                               *)

(* "model_select" for a model picked by the user, or restored with a session.
   The extension takes a pick of the very model it awaits for its own switch;
   the user is assumed not to hit that moment. *)
Select(m, source) ==
  /\ phase \notin {"ending", "ended"}
  /\ m \notin {model, expected}
  /\ model' = m /\ chosen' = m
  /\ expected' = None /\ ClearTemporary
  /\ onward' = None /\ pending' = None
  /\ manual' = (manual \/ source # "restore")
  /\ UNCHANGED <<enabled, failures, thread, session>>

MayToggle ==
  \/ Toggles = "anytime"
  \/ Toggles = "quiet" /\ NoneAwaiting

(* /auto-fugu on *)
SwitchOn ==
  /\ phase \notin {"ending", "ended"} /\ MayToggle
  /\ enabled' = TRUE /\ manual' = FALSE
  /\ UNCHANGED <<model, route, onward, pending, failures, thread, session, chosen>>

(* /auto-fugu off *)
SwitchOff ==
  /\ phase \notin {"ending", "ended"} /\ MayToggle /\ IsFree("command")
  /\ enabled' = FALSE
  /\ failures' = 0 /\ pending' = None /\ onward' = None
  /\ IF restore \in {None, model}
     THEN expected' = None /\ ClearTemporary /\ UNCHANGED <<model, thread>>
     ELSE Restore("command", "off")
  /\ UNCHANGED <<manual, session, chosen>>

(* "session_shutdown" *)
Shutdown ==
  /\ phase \notin {"ending", "ended"}
  /\ phase' = "ending"
  /\ Restore("end", "shutdown")
  /\ UNCHANGED <<enabled, onward, pending, failures, manual, prompt, chosen>>

(* ... ends with clearAllAutomaticState. *)
Ended ==
  /\ thread["end"] = [at |-> "returned", job |-> "shutdown"]
  /\ thread' = [thread EXCEPT !["end"] = Free]
  /\ phase' = "ended"
  /\ expected' = None /\ ClearTemporary /\ onward' = None /\ pending' = None
  /\ UNCHANGED <<model, enabled, failures, manual, prompt, chosen>>

(* "session_start" of the next session; the host drops the old one's handlers. *)
NewSession ==
  /\ phase = "ended"
  /\ phase' = "idle"
  /\ thread' = [t \in Threads |-> Free]
  /\ manual' = FALSE
  /\ model' \in Models /\ chosen' = model'
  /\ UNCHANGED <<enabled, route, onward, pending, failures, prompt>>

-----------------------------------------------------------------------------

(* What is not observed by other extensions. *)
Internal ==
  \/ \E t \in Threads : Resume(t)
  \/ Prepare \/ RouteRun \/ Steer \/ Escalate
  \/ \E isError \in BOOLEAN : ToolEnd(isError)
  \/ \E m \in Models, source \in {"set", "restore"} : Select(m, source)
  \/ SwitchOn \/ SwitchOff

Next ==
  \/ Internal
  \/ \E kind \in Prompts : Input(kind)
  \/ AgentStart \/ Compact \/ Settle \/ EmitSettled
  \/ Shutdown \/ Ended \/ NewSession

Spec == Init /\ [][Next]_vars

-----------------------------------------------------------------------------

(* The way back is never lost: with no switch in flight the session is on the
   model the user picked, or the extension holds that model to restore it, also
   when a switch or a restore was refused or threw (header of
   auto-fugu-model.ts: the model is restored when the turn ends). *)
WayBack ==
  phase # "ended" /\ NoneAwaiting =>
    model = chosen \/ restore = chosen

(* After a manual choice the model stays as chosen until /auto-fugu on or a
   new session (pi/README.md, "Fugu model routing"). *)
ManualChoiceStands == manual => model = chosen

(* The state is well-formed, and the extension never expects a switch that
   nobody awaits: a later choice of that model by the user would be taken for
   its own (the `finally` blocks). *)
ExpectationIsAwaited ==
  /\ TypeOK
  /\ expected # None =>
       \E t \in Threads : IsAwaiting(t) /\ thread[t].goal = expected
=============================================================================
