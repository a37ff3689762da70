---------------------------- MODULE AutoContinue ----------------------------
(***************************************************************************)
(* The Pi extension that resumes interrupted work after an automatic       *)
(* compaction (pi/agent/extensions/auto-continue-after-compact.ts), in one *)
(* host with AutoFugu.  The two share the host's events, whose handlers    *)
(* run in load order, and the event auto-fugu:model-settled, by which the  *)
(* continuation waits for the user's model to be restored.                 *)
(***************************************************************************)
EXTENDS AutoFugu

VARIABLES
  routerFirst,   \* the load order: auto-fugu handles an event first
  carry,         \* continueAfterSettle
  routerSettled, \* modelRouterSettled
  context,       \* settledContext is set
  timer,         \* continueTimer is set
  fallback,      \* settleFallbackTimer is set
  due,           \* the host has yet to call this extension's agent_settled
  owed,          \* history: a compaction, and no message for it since
  hasty          \* history: the timer was set by the fallback

flags == <<routerFirst, carry, routerSettled, context, timer, fallback, due>>
history == <<owed, hasty>>
allVars == <<vars, flags, history>>

ContinueInit ==
  /\ Init
  /\ routerFirst \in BOOLEAN
  /\ carry = FALSE /\ routerSettled = FALSE /\ context = FALSE
  /\ timer = FALSE /\ fallback = FALSE /\ due = FALSE
  /\ owed = FALSE /\ hasty = FALSE

-----------------------------------------------------------------------------

(* scheduleContinue *)
Schedule(byFallback) ==
  /\ fallback' = FALSE /\ timer' = TRUE
  /\ hasty' = byFallback

(* This extension's "agent_settled". *)
OnSettled ==
  IF ~carry THEN UNCHANGED <<carry, context, timer, fallback, hasty>>
  ELSE /\ carry' = FALSE /\ context' = TRUE
       /\ IF routerSettled THEN Schedule(FALSE)
          ELSE fallback' = TRUE /\ UNCHANGED <<timer, hasty>>

(* "session_compact", neither manual nor retried by the host. *)
CompactBoth ==
  /\ Compact
  /\ carry' = TRUE /\ owed' = TRUE
  /\ UNCHANGED <<routerFirst, routerSettled, context, timer, fallback, due, hasty>>

(* "agent_start"; the handlers of the last "agent_settled" have returned. *)
StartBoth ==
  /\ AgentStart /\ IsFree("settle") /\ ~due
  /\ routerSettled' = FALSE
  /\ UNCHANGED <<routerFirst, carry, context, timer, fallback, due, history>>

(* "agent_settled": the second extension is called when the first is done.  No
   run is over before a timer of zero milliseconds that it found set. *)
SettleBoth ==
  /\ Settle /\ ~due /\ ~timer
  /\ IF routerFirst
     THEN due' = TRUE /\ UNCHANGED <<carry, context, timer, fallback, hasty>>
     ELSE due' = FALSE /\ OnSettled
  /\ UNCHANGED <<routerFirst, routerSettled, owed>>

(* Broken: the event ends the wait, but nothing is scheduled. *)
RouterSettledForgets ==
  /\ EmitSettled
  /\ routerSettled' = TRUE /\ fallback' = FALSE
  /\ UNCHANGED <<routerFirst, carry, context, timer, due, history>>

(* auto-fugu:model-settled; a session that ends has unsubscribed from it. *)
RouterSettled ==
  /\ EmitSettled
  /\ IF phase \in {"ending", "ended"}
     THEN UNCHANGED <<routerSettled, timer, fallback, hasty>>
     ELSE /\ routerSettled' = TRUE
          /\ IF context THEN Schedule(FALSE)
             ELSE fallback' = FALSE /\ UNCHANGED <<timer, hasty>>
  /\ UNCHANGED <<routerFirst, carry, context, due, owed>>

SettleSecond ==
  /\ due /\ IsFree("settle")
  /\ due' = FALSE
  /\ OnSettled
  /\ UNCHANGED <<vars, routerFirst, routerSettled, owed>>

(* Two seconds without auto-fugu:model-settled. *)
FallbackFires ==
  /\ fallback
  /\ IF context THEN Schedule(TRUE)
     ELSE fallback' = FALSE /\ UNCHANGED <<timer, hasty>>
  /\ UNCHANGED <<vars, routerFirst, carry, routerSettled, context, due, owed>>

(* Broken: the context is kept when the timer fires. *)
TimerKeepsContext ==
  /\ timer
  /\ timer' = FALSE
  /\ IF phase = "idle"
     THEN Input("continuation") /\ owed' = FALSE
     ELSE UNCHANGED <<vars, owed>>
  /\ UNCHANGED <<routerFirst, carry, routerSettled, context, fallback, due, hasty>>

(* The timer fires: if the host is idle the message is sent, else dropped. *)
TimerFires ==
  /\ timer
  /\ timer' = FALSE /\ context' = FALSE
  /\ IF phase = "idle"
     THEN Input("continuation") /\ owed' = FALSE
     ELSE UNCHANGED <<vars, owed>>
  /\ UNCHANGED <<routerFirst, carry, routerSettled, fallback, due, hasty>>

(* A prompt of the user or of another extension. *)
PromptBoth ==
  /\ \E kind \in Prompts \ {"continuation"} : Input(kind)
  /\ owed' = FALSE
  /\ UNCHANGED <<flags, hasty>>

(* "session_shutdown" *)
ShutdownBoth ==
  /\ Shutdown
  /\ carry' = FALSE /\ routerSettled' = FALSE /\ context' = FALSE
  /\ timer' = FALSE /\ fallback' = FALSE /\ due' = FALSE
  /\ owed' = FALSE /\ UNCHANGED <<routerFirst, hasty>>

RouterOnly ==
  /\ Internal \/ Ended \/ NewSession
  /\ UNCHANGED <<flags, history>>

ContinueNext ==
  \/ CompactBoth \/ StartBoth \/ SettleBoth \/ RouterSettled \/ SettleSecond
  \/ FallbackFires \/ TimerFires \/ PromptBoth \/ ShutdownBoth \/ RouterOnly

ContinueSpec == ContinueInit /\ [][ContinueNext]_allVars

(* setModel answers, timers fire, handlers return, and every run settles. *)
Fairness ==
  /\ \A t \in Threads : WF_allVars(Resume(t) /\ UNCHANGED <<flags, history>>)
  /\ WF_allVars(RouterSettled) /\ WF_allVars(SettleSecond)
  /\ WF_allVars(FallbackFires) /\ WF_allVars(TimerFires)
  /\ SF_allVars(SettleBoth)

ContinueFairSpec == ContinueSpec /\ Fairness

-----------------------------------------------------------------------------

Continues == timer /\ ~timer' /\ phase' = "submitted" /\ phase = "idle"

(* The message is sent once per compaction, only if no other prompt came in
   between, and not while the user's model is being restored unless the
   fallback gave up waiting (header of auto-continue-after-compact.ts). *)
ContinuesOnce ==
  [][Continues => owed /\ (hasty \/ ~IsAwaiting("settle"))]_allVars

(* Work that a compaction interrupted is taken up again: by the message, unless
   another prompt or the end of the session comes first. *)
WorkContinues == owed ~> ~owed
=============================================================================
