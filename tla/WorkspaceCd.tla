---------------------------- MODULE WorkspaceCd ----------------------------
(***************************************************************************)
(* The Pi extension that moves a session into another directory            *)
(* (pi/agent/extensions/workspace-cd.ts).                                  *)
(*                                                                         *)
(* The tool switch_workspace_cwd only notes the target.  Once the run has  *)
(* settled, a timer of zero milliseconds dispatches the command            *)
(* /workspace-cd-continue, which forks the session into the target and     *)
(* goes on there; /workspace-cd does so at once, without going on.  What   *)
(* Pi does is external: it runs a command while it awaits nothing else of  *)
(* that kind, and takes no prompt while a command is under way.            *)
(***************************************************************************)
CONSTANTS
  Dirs,     \* directories, as realpath names them
  Nowhere   \* undefined

ASSUME NowhereAssumption == Nowhere \notin Dirs

Commands == {"workspace-cd", "workspace-cd-continue"}

VARIABLES
  cwd,           \* ctx.cwd
  persisted,     \* getSessionFile() is defined
  running,       \* an agent run is under way: not ctx.isIdle()
  pendingTarget, \* pendingTarget
  dispatchTimer, \* dispatchTimer is set
  switching,     \* per command, the target it was called for and whether it
                 \* awaits switchSession
  promised       \* history: the target of the last "Scheduled session switch"
                 \* that the session still waits for

cdVars == <<cwd, persisted, running, pendingTarget, dispatchTimer, switching, promised>>

NotCalled == [to |-> Nowhere, awaits |-> FALSE]
Busy(c) == switching[c] # NotCalled

CdTypeOK ==
  /\ cwd \in Dirs /\ persisted \in BOOLEAN /\ running \in BOOLEAN
  /\ pendingTarget \in Dirs \union {Nowhere} /\ dispatchTimer \in BOOLEAN
  /\ switching \in [Commands -> [to : Dirs \union {Nowhere}, awaits : BOOLEAN]]
  /\ promised \in Dirs \union {Nowhere}

CdInit ==
  /\ cwd \in Dirs /\ persisted \in BOOLEAN
  /\ running = FALSE
  /\ pendingTarget = Nowhere /\ dispatchTimer = FALSE
  /\ switching = [c \in Commands |-> NotCalled]
  /\ promised = Nowhere

(* A prompt starts a run. *)
CdPrompt ==
  /\ ~running /\ \A c \in Commands : ~Busy(c)
  /\ running' = TRUE
  /\ UNCHANGED <<cwd, persisted, pendingTarget, dispatchTimer, switching, promised>>

(* switch_workspace_cwd: the last valid target counts.  A path that is missing
   or no directory throws, as does a session without a file; the directory of
   the session itself needs no switch, and leaves an earlier target noted. *)
ScheduleSwitch(dir) ==
  /\ running /\ persisted /\ dir # cwd
  /\ pendingTarget' = dir
  /\ promised' = dir
  /\ UNCHANGED <<cwd, persisted, running, dispatchTimer, switching>>

(* The run ends: "agent_settled" restarts the timer if a target is noted. *)
CdSettled ==
  /\ running
  /\ running' = FALSE
  /\ dispatchTimer' = (pendingTarget # Nowhere \/ dispatchTimer)
  /\ UNCHANGED <<cwd, persisted, pendingTarget, switching, promised>>

(* Broken: the target is forgotten before isIdle is asked. *)
DispatchBusyForgets ==
  /\ dispatchTimer /\ running
  /\ dispatchTimer' = FALSE /\ pendingTarget' = Nowhere
  /\ UNCHANGED <<cwd, persisted, running, switching, promised>>

(* The timer fires during a run that began meanwhile: the target stays noted
   for the next "agent_settled". *)
DispatchBusy ==
  /\ dispatchTimer /\ running
  /\ dispatchTimer' = FALSE
  /\ UNCHANGED <<cwd, persisted, running, pendingTarget, switching, promised>>

Send(target) ==
  /\ switching' = [switching EXCEPT !["workspace-cd-continue"].to = target]
  /\ promised' = Nowhere

(* Broken: the target is noted until the switch has succeeded. *)
DispatchKeepingTarget ==
  /\ dispatchTimer /\ ~running
  /\ dispatchTimer' = FALSE
  /\ Send(pendingTarget)
  /\ UNCHANGED <<cwd, persisted, running, pendingTarget>>

(* The timer fires while Pi is idle: the command is sent, the target forgotten. *)
Dispatch ==
  /\ dispatchTimer /\ ~running
  /\ dispatchTimer' = FALSE
  /\ pendingTarget' = Nowhere
  /\ Send(pendingTarget)
  /\ UNCHANGED <<cwd, persisted, running>>

(* The user types /workspace-cd, at any time. *)
CallCd(dir) ==
  /\ ~Busy("workspace-cd")
  /\ switching' = [switching EXCEPT !["workspace-cd"].to = dir]
  /\ UNCHANGED <<cwd, persisted, running, pendingTarget, dispatchTimer, promised>>

EndCommand(c) == switching' = [switching EXCEPT ![c] = NotCalled]

(* The path may have vanished, may be where the session already is, the
   session may have no file, the fork may fail: nothing changes. *)
RefuseSwitch(c) ==
  /\ Busy(c)
  /\ EndCommand(c)
  /\ UNCHANGED <<cwd, persisted, running, pendingTarget, dispatchTimer, promised>>

(* Resolve again, fork the session and call switchSession. *)
BeginSwitch(c) ==
  /\ Busy(c) /\ ~switching[c].awaits
  /\ persisted /\ switching[c].to # cwd
  /\ switching' = [switching EXCEPT ![c].awaits = TRUE]
  /\ UNCHANGED <<cwd, persisted, running, pendingTarget, dispatchTimer, promised>>

(* "session_shutdown" *)
CdShutdown ==
  /\ pendingTarget' = Nowhere /\ dispatchTimer' = FALSE
  /\ promised' = Nowhere

(* Pi changes to the fork, which shuts the old session down, and
   /workspace-cd-continue sends the message that goes on. *)
FinishSwitch(c) ==
  /\ switching[c].awaits
  /\ cwd' = switching[c].to
  /\ running' = (c = "workspace-cd-continue")
  /\ CdShutdown
  /\ EndCommand(c)
  /\ UNCHANGED persisted

(* The session is left in another way: /new, /resume, /reload or the end. *)
LeaveSession ==
  /\ cwd' \in Dirs /\ persisted' \in BOOLEAN
  /\ running' = FALSE
  /\ CdShutdown
  /\ switching' = [c \in Commands |-> NotCalled]

CdNext ==
  \/ CdPrompt \/ CdSettled \/ DispatchBusy \/ Dispatch \/ LeaveSession
  \/ \E dir \in Dirs : ScheduleSwitch(dir) \/ CallCd(dir)
  \/ \E c \in Commands : RefuseSwitch(c) \/ BeginSwitch(c) \/ FinishSwitch(c)

CdSpec == CdInit /\ [][CdNext]_cdVars

(* Runs settle, and a timer of zero milliseconds is not beaten by a new
   prompt forever. *)
CdFairness == WF_cdVars(CdSettled) /\ SF_cdVars(Dispatch)

-----------------------------------------------------------------------------

Dispatches ==
  switching["workspace-cd-continue"].to = Nowhere
    /\ switching'["workspace-cd-continue"].to # Nowhere

(* The session goes on in the directory that the tool promised last, once per
   promise, never in a session that has ended, and a cancelled switch is not
   tried again (pi/README.md, "workspace cwd switch"). *)
DispatchesThePromised ==
  [][Dispatches => /\ switching'["workspace-cd-continue"].to = promised
                   /\ promised # Nowhere]_cdVars

(* A promised switch is dispatched, whatever runs come in between, unless the
   session is left first (the agent_settled handler). *)
PromiseIsKept == promised # Nowhere ~> promised = Nowhere
=============================================================================
