--------------------------- MODULE AutoFuguProofs ---------------------------
(***************************************************************************)
(* The way back to the model of the user, for all models, provided that    *)
(* one switch is awaited at a time, that /auto-fugu is not typed meanwhile, *)
(* and that the model of the session does not escalate by itself after a   *)
(* manual choice (Discipline).                                             *)
(*                                                                         *)
(* The point of Inv is that restoreModel never holds anything but the      *)
(* user's model, even while a switch is awaited, and that the awaited      *)
(* operation remembers the user's model when restoreModel does not.        *)
(***************************************************************************)
EXTENDS AutoContinue, TLAPS

Discipline == ~Overlaps /\ ~Escalates /\ Toggles \in {"never", "quiet"}

OneAwaits == \A s, t \in Threads : IsAwaiting(s) /\ IsAwaiting(t) => s = t

Expected ==
  expected # None => \E t \in Threads : IsAwaiting(t) /\ thread[t].goal = expected

(* What the awaited operation knows, as long as it is the expected one. *)
Awaited ==
  \A t \in Threads : IsAwaiting(t) /\ expected # None =>
    /\ thread[t].op = "route" =>
         /\ thread[t].from # thread[t].goal
         /\ restore = None => thread[t].from = chosen
         /\ thread[t].outcome = "ok" => model = thread[t].goal
         /\ model \in {thread[t].from, thread[t].goal}
         /\ thread[t].outcome = "refused" => model = thread[t].from
    /\ thread[t].op = "restore" =>
         /\ thread[t].goal = restore
         /\ thread[t].outcome = "ok" => model = thread[t].goal

(* Whose model is held, or is the current one. *)
Held ==
  /\ restore \in {None, chosen}
  /\ expected = None /\ restore = None => model = chosen \/ phase = "ended"
  /\ manual => model = chosen

(* A session that has ended holds and routes nothing. *)
EndedInv ==
  phase = "ended" =>
    expected = None /\ restore = None /\ pending = None /\ onward = None

Core == OneAwaits /\ Expected /\ Awaited /\ Held

Inv == TypeOK /\ Core /\ EndedInv

-----------------------------------------------------------------------------
(* Types. *)

LEMMA TypeInit == Init => TypeOK
<1> SUFFICES ASSUME Init PROVE TypeOK
  OBVIOUS
<1>1. thread \in [Threads -> {Free} \union Awaiting \union Returned]
  BY DEF Init
<1>2. /\ model \in Models /\ chosen \in Models
      /\ enabled = TRUE /\ manual = FALSE
      /\ expected = None /\ restore = None /\ active = None
      /\ onward = None /\ pending = None /\ failures = 0
      /\ phase = "idle" /\ prompt = "user"
  BY DEF Init
<1>3. failures \in 0 .. STRUGGLE_THRESHOLD
  BY <1>2 DEF STRUGGLE_THRESHOLD
<1>4. phase \in Phases /\ prompt \in Prompts
  BY <1>2 DEF Phases, Prompts
<1> QED
  BY <1>1, <1>2, <1>3, <1>4 DEF TypeOK

(* What a switch touches. *)
SwitchOK ==
  /\ model \in Models
  /\ expected \in Models \union {None}
  /\ restore \in Models \union {None}
  /\ active \in Pair \union {None}
  /\ thread \in [Threads -> {Free} \union Awaiting \union Returned]

LEMMA ReturnType ==
  ASSUME TypeOK, NEW t \in Threads, NEW job \in Jobs, Return(t, job)
  PROVE  thread' \in [Threads -> {Free} \union Awaiting \union Returned]
  BY DEF Return, TypeOK, Returned

LEMMA SetModelType ==
  ASSUME TypeOK, NEW t \in Threads, NEW job \in Jobs,
         NEW op \in {"route", "restore"}, NEW goal \in Models,
         SetModel(t, job, op, goal), UNCHANGED <<restore, active>>,
         op = "route" => goal \in Pair
  PROVE  SwitchOK'
<1>1. PICK outcome \in Outcomes, switched \in BOOLEAN :
        /\ model' = IF switched THEN goal ELSE model
        /\ thread' = [thread EXCEPT ![t] =
             [at |-> "awaiting", job |-> job, op |-> op, goal |-> goal,
              from |-> model, outcome |-> outcome]]
  BY DEF SetModel
<1>2. [at |-> "awaiting", job |-> job, op |-> op, goal |-> goal,
       from |-> model, outcome |-> outcome] \in Awaiting
  BY DEF Awaiting, TypeOK
<1> QED
  BY <1>1, <1>2 DEF SetModel, SwitchOK, TypeOK

LEMMA ApplyType ==
  ASSUME TypeOK, NEW t \in Threads, NEW job \in Jobs, NEW target \in Pair,
         Apply(t, job, target)
  PROVE  SwitchOK'
<1>1. CASE Return(t, job) /\ UNCHANGED <<model, route>>
  BY <1>1, ReturnType DEF SwitchOK, TypeOK, route
<1>2. CASE ClearTemporary /\ Return(t, job) /\ UNCHANGED <<model, expected>>
  BY <1>2, ReturnType DEF SwitchOK, TypeOK, ClearTemporary
<1>3. CASE SetModel(t, job, "route", target) /\ UNCHANGED <<restore, active>>
  BY <1>3, SetModelType DEF Models
<1> QED
  BY <1>1, <1>2, <1>3 DEF Apply

LEMMA RestoreType ==
  ASSUME TypeOK, NEW t \in Threads, NEW job \in Jobs, Restore(t, job)
  PROVE  SwitchOK'
<1>1. CASE Return(t, job) /\ UNCHANGED <<model, route>>
  BY <1>1, ReturnType DEF SwitchOK, TypeOK, route
<1>2. CASE ClearTemporary /\ Return(t, job) /\ UNCHANGED <<model, expected>>
  BY <1>2, ReturnType DEF SwitchOK, TypeOK, ClearTemporary
<1>3. CASE /\ SetModel(t, job, "restore", restore)
           /\ UNCHANGED <<restore, active>> /\ restore # None
  BY <1>3, SetModelType DEF TypeOK
<1> QED
  BY <1>1, <1>2, <1>3 DEF Restore

LEMMA ResumeType ==
  ASSUME TypeOK, NEW t \in Threads, Resume(t)
  PROVE  SwitchOK'
<1> DEFINE task == thread[t]
<1>1. task \in Awaiting
  BY DEF Resume, IsAwaiting, TypeOK, Free, Returned
<1>2. task.goal \in Models /\ task.from \in Models /\ task.job \in Jobs
  BY <1>1 DEF Awaiting
<1>3. thread' \in [Threads -> {Free} \union Awaiting \union Returned]
  BY <1>2, ReturnType DEF Resume
<1>4. model' \in Models /\ expected' \in Models \union {None}
  BY DEF Resume, TypeOK
<1>5. restore' \in Models \union {None} /\ active' \in Pair \union {None}
  <2>1. task.op # "restore" => task.goal \in Pair
    BY <1>1 DEF Awaiting
  <2> QED
    BY <1>2, <2>1 DEF Resume, TypeOK, ClearTemporary
<1> QED
  BY <1>3, <1>4, <1>5 DEF SwitchOK

(* Every step keeps the types. *)
LEMMA TypeNext ==
  ASSUME TypeOK, Next PROVE TypeOK'
<1> USE DEF Jobs
<1>1. ASSUME NEW t \in Threads, Resume(t) PROVE TypeOK'
  BY <1>1, ResumeType DEF Resume, TypeOK, SwitchOK, session
<1>2. CASE Prepare
  <2>1. SwitchOK'
    BY <1>2, RestoreType DEF Prepare, Threads
  <2> QED
    BY <1>2, <2>1 DEF Prepare, TypeOK, SwitchOK, Phases
<1>3. CASE RouteRun
  <2> DEFINE target == IF prompt = "continuation" THEN onward ELSE pending
  <2>1. SwitchOK'
    <3>1. CASE enabled /\ ~manual /\ target # None
      <4>1. target \in Pair
        BY <3>1 DEF TypeOK
      <4> QED
        BY <1>3, <3>1, <4>1, ApplyType DEF RouteRun, Threads
    <3>2. CASE ~(enabled /\ ~manual /\ target # None)
      BY <1>3, <3>2, ReturnType DEF RouteRun, Threads, SwitchOK, TypeOK, route
    <3> QED
      BY <3>1, <3>2
  <2> QED
    BY <1>3, <2>1 DEF RouteRun, TypeOK, SwitchOK, session
<1>4. CASE Steer
  <2>1. SwitchOK'
    BY <1>4, ApplyType DEF Steer, Threads, SwitchOK, TypeOK, route
  <2> QED
    BY <1>4, <2>1 DEF Steer, TypeOK, SwitchOK, session
<1>5. CASE Escalate
  <2>1. SwitchOK'
    BY <1>5, ApplyType DEF Escalate, Threads, Pair
  <2> QED
    BY <1>5, <2>1 DEF Escalate, TypeOK, SwitchOK, session
<1>6. ASSUME NEW isError \in BOOLEAN, ToolEnd(isError) PROVE TypeOK'
  <2>1. SwitchOK'
    BY <1>6, ApplyType DEF ToolEnd, Threads, Pair, SwitchOK, TypeOK, route
  <2>2. failures' \in 0 .. STRUGGLE_THRESHOLD
    BY <1>6 DEF ToolEnd, TypeOK, STRUGGLE_THRESHOLD
  <2> QED
    BY <1>6, <2>1, <2>2 DEF ToolEnd, TypeOK, SwitchOK, session
<1>7. ASSUME NEW m \in Models, NEW source \in {"set", "restore"}, Select(m, source)
      PROVE  TypeOK'
  BY <1>7 DEF Select, ClearTemporary, TypeOK, session
<1>8. CASE SwitchOn
  BY <1>8 DEF SwitchOn, TypeOK, route, session
<1>9. CASE SwitchOff
  <2>1. SwitchOK'
    BY <1>9, RestoreType DEF SwitchOff, Threads, SwitchOK, TypeOK, ClearTemporary
  <2>2. 0 \in 0 .. STRUGGLE_THRESHOLD
    BY DEF STRUGGLE_THRESHOLD
  <2> QED
    BY <1>9, <2>1, <2>2 DEF SwitchOff, TypeOK, SwitchOK, session
<1>10. ASSUME NEW kind \in Prompts, Input(kind) PROVE TypeOK'
  BY <1>10 DEF Input, TypeOK, route, Phases
<1>11. CASE AgentStart
  <2>1. 0 \in 0 .. STRUGGLE_THRESHOLD
    BY DEF STRUGGLE_THRESHOLD
  <2> QED
    BY <1>11, <2>1 DEF AgentStart, TypeOK, route, Phases
<1>12. CASE Compact
  BY <1>12 DEF Compact, TypeOK, route, session
<1>13. CASE Settle
  <2>1. SwitchOK'
    BY <1>13, RestoreType DEF Settle, Threads
  <2> QED
    BY <1>13, <2>1 DEF Settle, TypeOK, SwitchOK, Phases
<1>14. CASE EmitSettled
  BY <1>14 DEF EmitSettled, TypeOK, route, session
<1>15. CASE Shutdown
  <2>1. SwitchOK'
    BY <1>15, RestoreType DEF Shutdown, Threads
  <2> QED
    BY <1>15, <2>1 DEF Shutdown, TypeOK, SwitchOK, Phases
<1>16. CASE Ended
  BY <1>16 DEF Ended, TypeOK, ClearTemporary, Phases
<1>17. CASE NewSession
  BY <1>17 DEF NewSession, TypeOK, route, Phases
<1> QED
  BY <1>1, <1>2, <1>3, <1>4, <1>5, <1>6, <1>7, <1>8, <1>9, <1>10, <1>11, <1>12,
     <1>13, <1>14, <1>15, <1>16, <1>17 DEF Next, Internal

-----------------------------------------------------------------------------
(* The steps up to an await and the one after it. *)

LEMMA ReturnFrees ==
  ASSUME TypeOK, NEW t \in Threads, NEW job, Return(t, job)
  PROVE  /\ thread'[t].at \in {"free", "returned"}
         /\ \A s \in Threads \ {t} : thread'[s] = thread[s]
  BY DEF Return, TypeOK, Free

LEMMA SetModelKeeps ==
  ASSUME Inv, NEW t \in Threads, NEW job, NEW op \in {"route", "restore"},
         NEW goal \in Models, SetModel(t, job, op, goal), NoneAwaiting, ~manual',
         model # goal, UNCHANGED <<manual, chosen, restore>>, phase # "ended",
         op = "restore" => goal = restore
  PROVE  Core'
<1>1. PICK outcome \in Outcomes, switched \in BOOLEAN :
        /\ outcome = "ok" => switched
        /\ outcome = "refused" => ~switched
        /\ model' = IF switched THEN goal ELSE model
        /\ thread' = [thread EXCEPT ![t] =
             [at |-> "awaiting", job |-> job, op |-> op, goal |-> goal,
              from |-> model, outcome |-> outcome]]
  BY DEF SetModel
<1>2. /\ thread'[t] = [at |-> "awaiting", job |-> job, op |-> op, goal |-> goal,
                       from |-> model, outcome |-> outcome]
      /\ \A s \in Threads \ {t} : thread'[s] = thread[s] /\ thread[s].at # "awaiting"
  BY <1>1 DEF Inv, TypeOK, NoneAwaiting, IsAwaiting
<1>3. expected' = goal /\ goal # None
  BY NoneAssumption DEF SetModel
<1>4. expected = None
  BY DEF Inv, Core, Expected, NoneAwaiting
<1>5. OneAwaits' /\ Expected'
  BY <1>2, <1>3 DEF OneAwaits, Expected, IsAwaiting
<1>6. Awaited'
  BY <1>1, <1>2, <1>3, <1>4 DEF Inv, Core, Awaited, Held, IsAwaiting
<1>7. Held'
  BY <1>3 DEF Inv, Core, Held
<1> QED
  BY <1>5, <1>6, <1>7 DEF Core

(* A thread that is not awaiting moves on, and the route stays. *)
LEMMA NothingSwitched ==
  ASSUME Inv, NEW t \in Threads, NoneAwaiting,
         thread'[t].at \in {"free", "returned"},
         \A s \in Threads \ {t} : thread'[s] = thread[s],
         UNCHANGED <<model, expected, chosen, manual>>, phase # "ended",
         restore' = restore \/ (restore' = None /\ model = restore)
  PROVE  Core'
<1>1. expected = None /\ \A s \in Threads : thread'[s].at # "awaiting"
  BY DEF Inv, Core, Expected, NoneAwaiting, IsAwaiting
<1> QED
  BY <1>1 DEF Inv, Core, OneAwaits, Expected, Awaited, Held, IsAwaiting

(* A thread that awaits nothing moves on, whoever else awaits a switch. *)
LEMMA OthersKeep ==
  ASSUME Inv, NEW t \in Threads, ~IsAwaiting(t), thread'[t].at # "awaiting",
         \A s \in Threads \ {t} : thread'[s] = thread[s],
         UNCHANGED <<model, expected, restore, chosen, manual>>,
         phase = "ended" => phase' = "ended"
  PROVE  Core'
<1>1. \A s \in Threads : thread'[s].at = "awaiting" =>
        s # t /\ thread'[s] = thread[s] /\ thread[s].at = "awaiting"
  OBVIOUS
<1>2. \A s \in Threads : thread[s].at = "awaiting" => thread'[s] = thread[s]
  BY DEF IsAwaiting
<1>3. OneAwaits' /\ Expected'
  BY <1>1, <1>2 DEF Inv, Core, OneAwaits, Expected, IsAwaiting
<1>4. Awaited'
  BY <1>1 DEF Inv, Core, Awaited, IsAwaiting
<1>5. Held'
  BY DEF Inv, Core, Held
<1> QED
  BY <1>3, <1>4, <1>5 DEF Core

LEMMA RestoreKeeps ==
  ASSUME Inv, Discipline, NEW t \in Threads, NEW job, Restore(t, job),
         UNCHANGED <<chosen, manual>>, phase # "ended"
  PROVE  Core'
<1>1. NoneAwaiting
  BY DEF Restore, MaySwitch, Discipline
<1>2. CASE restore = None \/ model = restore
  <2>1. /\ Return(t, job) /\ UNCHANGED <<model, expected>>
        /\ restore' = restore \/ (restore' = None /\ model = restore)
    BY <1>2 DEF Restore, ClearTemporary, route
  <2> QED
    BY <1>1, <2>1, ReturnFrees, NothingSwitched DEF Inv
<1>3. CASE restore # None /\ model # restore
  <2>1. SetModel(t, job, "restore", restore) /\ UNCHANGED <<restore, active>>
    BY <1>3 DEF Restore
  <2>2. ~manual /\ restore \in Models
    BY <1>3 DEF Inv, Core, Held, TypeOK
  <2> QED
    BY <1>1, <1>3, <2>1, <2>2, SetModelKeeps
<1> QED
  BY <1>2, <1>3

LEMMA ApplyKeeps ==
  ASSUME Inv, Discipline, NEW t \in Threads, NEW job, NEW target \in Pair,
         Apply(t, job, target), ~manual, UNCHANGED <<chosen, manual>>,
         phase # "ended"
  PROVE  Core'
<1>1. NoneAwaiting
  BY DEF Apply, MaySwitch, Discipline
<1>2. CASE Return(t, job) /\ UNCHANGED <<model, expected>>
           /\ (restore' = restore \/ (restore' = None /\ model = restore))
  BY <1>1, <1>2, ReturnFrees, NothingSwitched DEF Inv
<1>3. CASE SetModel(t, job, "route", target) /\ model # target
           /\ UNCHANGED <<restore, active>>
  BY <1>1, <1>3, SetModelKeeps DEF Models
<1> QED
  BY <1>2, <1>3 DEF Apply, ClearTemporary, route

LEMMA ResumeKeeps ==
  ASSUME Inv, NEW t \in Threads, Resume(t)
  PROVE  Core'
<1> DEFINE task == thread[t]
<1>1. /\ task \in Awaiting /\ task.at = "awaiting"
      /\ thread'[t].at \in {"free", "returned"}
      /\ \A s \in Threads \ {t} : thread'[s] = thread[s]
      /\ UNCHANGED <<model, manual, phase, chosen>>
  BY ReturnFrees DEF Resume, Inv, TypeOK, IsAwaiting, Free, Returned, session
<1>2. \A s \in Threads : thread'[s].at # "awaiting"
  BY <1>1 DEF Inv, Core, OneAwaits, IsAwaiting
<1>3. expected # None => expected = task.goal
  BY <1>1 DEF Inv, Core, OneAwaits, Expected, IsAwaiting
<1>4. expected' = None
  BY <1>3 DEF Resume
<1>5. OneAwaits' /\ Expected' /\ Awaited'
  BY <1>2, <1>4 DEF OneAwaits, Expected, Awaited, IsAwaiting
<1>6. CASE expected = None
  <2>1. task.goal # None
    BY <1>1, NoneAssumption DEF Awaiting
  <2>2. restore' = restore
    BY <1>6, <2>1 DEF Resume
  <2> QED
    BY <1>1, <1>4, <1>5, <1>6, <2>2 DEF Core, Held, Inv
<1>7. CASE expected # None /\ task.op = "restore"
  <2>1. task.goal = restore /\ (task.outcome = "ok" => model = task.goal)
    BY <1>1, <1>7 DEF Inv, Core, Awaited, IsAwaiting
  <2>2. /\ restore # None
        /\ restore' = restore \/ (restore' = None /\ model = restore)
    BY <1>1, <1>3, <1>7, <2>1, NoneAssumption DEF Resume, ClearTemporary, Awaiting
  <2> QED
    BY <1>1, <1>4, <1>5, <2>2 DEF Core, Held, Inv
<1>8. CASE expected # None /\ task.op = "route"
  <2>1. /\ task.from # task.goal
        /\ restore = None => task.from = chosen
        /\ task.outcome = "ok" => model = task.goal
        /\ model \in {task.from, task.goal}
        /\ task.outcome = "refused" => model = task.from
    BY <1>1, <1>8 DEF Inv, Core, Awaited, IsAwaiting
  <2>2. task.outcome \in {"ok", "refused", "thrown"} /\ task.from # None
    BY <1>1, NoneAssumption DEF Awaiting, Outcomes
  <2> DEFINE done == task.outcome = "ok" \/ (task.outcome = "thrown" /\ model = task.goal)
             back == IF restore = None THEN task.from ELSE restore
  <2>3. back = chosen
    BY <2>1 DEF Inv, Core, Held
  <2>4. CASE ~done
    <3>1. restore' = restore /\ model = task.from
      BY <1>3, <1>8, <2>1, <2>2, <2>4 DEF Resume
    <3> QED
      BY <1>1, <1>4, <1>5, <2>1, <3>1 DEF Core, Held, Inv
  <2>5. CASE done
    <3>1. model = task.goal
      BY <2>1, <2>5
    <3>2. IF task.goal = back THEN restore' = None ELSE restore' = back
      BY <1>3, <1>8, <2>5 DEF Resume, ClearTemporary
    <3> QED
      BY <1>1, <1>4, <1>5, <2>3, <3>1, <3>2, NoneAssumption DEF Core, Held, Inv, TypeOK
  <2> QED
    BY <2>4, <2>5
<1> QED
  BY <1>1, <1>6, <1>7, <1>8 DEF Awaiting

-----------------------------------------------------------------------------
(* Every step. *)

LEMMA InvInit == Init => Inv
<1> SUFFICES ASSUME Init PROVE Inv
  OBVIOUS
<1>1. \A t \in Threads : ~IsAwaiting(t)
  BY DEF Init, Free, IsAwaiting
<1> QED
  BY <1>1, TypeInit
     DEF Init, Inv, Core, OneAwaits, Expected, Awaited, Held, EndedInv

LEMMA CoreNext ==
  ASSUME Inv, Discipline, Next PROVE Core'
<1> USE DEF Inv
<1>1. ASSUME UNCHANGED <<model, expected, restore, thread, chosen, manual>>,
             phase' = "ended" <=> phase = "ended"
      PROVE  Core'
  BY <1>1 DEF Core, OneAwaits, Expected, Awaited, Held, IsAwaiting
<1>2. ASSUME NEW t \in Threads, Resume(t) PROVE Core'
  BY <1>2, ResumeKeeps
<1>3. CASE Prepare
  BY <1>3, RestoreKeeps DEF Prepare, Threads
<1>4. CASE RouteRun
  <2> DEFINE target == IF prompt = "continuation" THEN onward ELSE pending
  <2>1. UNCHANGED <<chosen, manual, phase>>
    BY <1>4 DEF RouteRun, session
  <2>2. CASE enabled /\ ~manual /\ target # None
    <3>1. target \in Pair /\ phase # "ended"
      BY <2>2 DEF TypeOK, EndedInv
    <3>2. Apply("agent", "start", target)
      BY <1>4, <2>2 DEF RouteRun
    <3> QED
      BY <2>1, <2>2, <3>1, <3>2, ApplyKeeps DEF Threads
  <2>3. CASE ~(enabled /\ ~manual /\ target # None)
    <3>1. /\ Return("agent", "start") /\ UNCHANGED <<model, expected, restore>>
          /\ ~IsAwaiting("agent")
      BY <1>4, <2>3 DEF RouteRun, route, IsAwaiting
    <3>2. /\ thread'["agent"].at \in {"free", "returned"}
          /\ \A s \in Threads \ {"agent"} : thread'[s] = thread[s]
      BY <3>1, ReturnFrees DEF Threads
    <3> QED
      BY <2>1, <3>1, <3>2, OthersKeep DEF Threads
  <2> QED
    BY <2>2, <2>3
<1>5. CASE Steer
  BY <1>1, <1>5, ApplyKeeps DEF Steer, Threads, route, session
<1>6. CASE Escalate
  BY <1>6, ApplyKeeps DEF Escalate, Discipline, Threads, Pair
<1>7. ASSUME NEW isError \in BOOLEAN, ToolEnd(isError) PROVE Core'
  BY <1>1, <1>7, ApplyKeeps DEF ToolEnd, Threads, Pair, route, session
<1>8. ASSUME NEW m \in Models, NEW source \in {"set", "restore"}, Select(m, source)
      PROVE  Core'
  BY <1>8 DEF Select, ClearTemporary, Core, OneAwaits, Expected, Awaited, Held,
              IsAwaiting
<1>9. CASE SwitchOn
  BY <1>9 DEF SwitchOn, route, session, Core, OneAwaits, Expected, Awaited, Held,
              IsAwaiting
<1>10. CASE SwitchOff
  <2>1. /\ NoneAwaiting /\ phase # "ended" /\ UNCHANGED <<chosen, manual>>
    BY <1>10 DEF SwitchOff, MayToggle, Discipline
  <2>2. CASE restore \in {None, model}
    <3>1. /\ UNCHANGED <<model, thread>> /\ expected = None /\ expected' = None
          /\ restore' = None /\ (restore # None => model = restore)
      BY <1>10, <2>1, <2>2
         DEF SwitchOff, ClearTemporary, Core, Expected, NoneAwaiting
    <3> QED
      BY <2>1, <3>1 DEF Core, OneAwaits, Expected, Awaited, Held, NoneAwaiting, IsAwaiting
  <2>3. CASE restore \notin {None, model}
    <3>1. Restore("command", "off")
      BY <1>10, <2>3 DEF SwitchOff
    <3> QED
      BY <2>1, <3>1, RestoreKeeps DEF Threads
  <2> QED
    BY <2>2, <2>3
<1>11. CASE \E kind \in Prompts : Input(kind)
  BY <1>1, <1>11 DEF Input, route
<1>12. CASE AgentStart
  <2>1. /\ ~IsAwaiting("agent") /\ thread' = [thread EXCEPT !["agent"] = Free]
        /\ UNCHANGED <<model, expected, restore, chosen, manual>> /\ phase # "ended"
    BY <1>12 DEF AgentStart, IsAwaiting, route
  <2> QED
    BY <2>1, OthersKeep DEF Threads, TypeOK, Free
<1>13. CASE Compact
  BY <1>1, <1>13 DEF Compact, route, session
<1>14. CASE Settle
  BY <1>14, RestoreKeeps DEF Settle, Threads
<1>15. CASE EmitSettled
  <2>1. /\ ~IsAwaiting("settle") /\ thread' = [thread EXCEPT !["settle"] = Free]
        /\ UNCHANGED <<model, expected, restore, chosen, manual, phase>>
    BY <1>15 DEF EmitSettled, IsAwaiting, route, session
  <2> QED
    BY <2>1, OthersKeep DEF Threads, TypeOK, Free
<1>16. CASE Shutdown
  BY <1>16, RestoreKeeps DEF Shutdown, Threads
<1>17. CASE Ended
  <2>1. /\ ~IsAwaiting("end") /\ thread' = [thread EXCEPT !["end"] = Free]
        /\ UNCHANGED <<model, chosen, manual>> /\ phase' = "ended"
        /\ expected' = None /\ restore' = None
    BY <1>17 DEF Ended, IsAwaiting, ClearTemporary
  <2>2. \A s \in Threads : thread'[s].at = "awaiting" =>
          thread[s].at = "awaiting"
    BY <2>1 DEF TypeOK, Free
  <2> QED
    BY <2>1, <2>2 DEF Core, OneAwaits, Expected, Awaited, Held, IsAwaiting
<1>18. CASE NewSession
  <2>1. \A s \in Threads : thread'[s].at # "awaiting"
    BY <1>18 DEF NewSession, Free
  <2>2. /\ expected' = None /\ restore' = None /\ ~manual' /\ model' = chosen'
    BY <1>18 DEF NewSession, EndedInv, route
  <2> QED
    BY <2>1, <2>2 DEF Core, OneAwaits, Expected, Awaited, Held, IsAwaiting
<1> QED
  BY <1>2, <1>3, <1>4, <1>5, <1>6, <1>7, <1>8, <1>9, <1>10, <1>11, <1>12, <1>13,
     <1>14, <1>15, <1>16, <1>17, <1>18 DEF Next, Internal

(* An ended session stays quiet: whatever still returns finds nothing expected,
   held or pending. *)
LEMMA EndedNext ==
  ASSUME Inv, Next PROVE EndedInv'
<1> SUFFICES ASSUME phase' = "ended"
             PROVE  /\ expected' = None /\ restore' = None
                    /\ pending' = None /\ onward' = None
  BY DEF EndedInv
<1>1. CASE Ended
  BY <1>1 DEF Ended, ClearTemporary
<1>2. ASSUME phase = "ended", NEW t \in Threads, Resume(t)
      PROVE  /\ expected' = None /\ restore' = None
             /\ pending' = None /\ onward' = None
  <2>1. thread[t].goal # None
    BY <1>2, NoneAssumption
       DEF Inv, TypeOK, Resume, IsAwaiting, Free, Returned, Awaiting
  <2> QED
    BY <1>2, <2>1 DEF Resume, Inv, EndedInv
<1>3. CASE phase = "ended" /\ RouteRun
  BY <1>3 DEF RouteRun, Inv, EndedInv, route
<1>4. CASE phase = "ended" /\ EmitSettled
  BY <1>4 DEF EmitSettled, Inv, EndedInv, route
<1>5. ASSUME phase # "ended", ~Ended PROVE FALSE
  <2>1. phase' = phase \/ phase' \in {"submitted", "preparing", "running", "idle", "ending"}
    BY <1>5 DEF Next, Internal, Resume, Prepare, RouteRun, Steer, Escalate, ToolEnd,
       Select, SwitchOn, SwitchOff, Input, AgentStart, Compact, Settle, EmitSettled,
       Shutdown, NewSession, session
  <2> QED
    BY <1>5, <2>1
<1>6. phase = "ended" => \/ \E t \in Threads : Resume(t)
                        \/ RouteRun \/ EmitSettled \/ Ended
  BY DEF Next, Internal, Prepare, Steer, Escalate, ToolEnd, Select, SwitchOn,
         SwitchOff, Input, AgentStart, Compact, Settle, Shutdown, NewSession
<1> QED
  BY <1>1, <1>2, <1>3, <1>4, <1>5, <1>6

LEMMA Invariance == Discipline => (Spec => []Inv)
<1> SUFFICES ASSUME Discipline PROVE Spec => []Inv
  OBVIOUS
<1>1. Init => Inv
  BY InvInit
<1>2. Inv /\ [Next]_vars => Inv'
  <2> SUFFICES ASSUME Inv, [Next]_vars PROVE Inv'
    OBVIOUS
  <2>1. CASE Next
    BY <2>1, TypeNext, CoreNext, EndedNext DEF Inv
  <2>2. CASE UNCHANGED vars
    BY <2>2 DEF Inv, TypeOK, Core, OneAwaits, Expected, Awaited, Held, EndedInv,
                IsAwaiting, vars, route, session
  <2> QED
    BY <2>1, <2>2
<1> QED
  BY <1>1, <1>2, PTL DEF Spec

-----------------------------------------------------------------------------
(* The theorems. *)

(* The way back to the user's model is never lost. *)
THEOREM WayBackIsKept == Discipline => (Spec => []WayBack)
<1>1. Inv => WayBack
  BY DEF Inv, Core, Expected, Held, WayBack, NoneAwaiting
<1> QED
  BY <1>1, Invariance, PTL

(* A manual choice of the model stands. *)
THEOREM ChoiceStands == Discipline => (Spec => []ManualChoiceStands)
<1>1. Inv => ManualChoiceStands
  BY DEF Inv, Core, Held, ManualChoiceStands
<1> QED
  BY <1>1, Invariance, PTL

(* An expected switch is always awaited by the handler that asked for it. *)
THEOREM ExpectedIsAwaited == Discipline => (Spec => []ExpectationIsAwaited)
<1>1. Inv => ExpectationIsAwaited
  BY DEF Inv, Core, Expected, ExpectationIsAwaited
<1> QED
  BY <1>1, Invariance, PTL

-----------------------------------------------------------------------------
(***************************************************************************)
(* The continuation of interrupted work, in one host with the router, for  *)
(* all models and in both load orders.  The point of ContinueInv is that   *)
(* what the extension remembers of an earlier run is gone before a run     *)
(* ends: a context without a timer waits for the router, without which no  *)
(* run starts, and a timer fires before the run is over that found it set. *)
(***************************************************************************)

FlagsOK ==
  /\ carry \in BOOLEAN /\ routerSettled \in BOOLEAN /\ context \in BOOLEAN
  /\ timer \in BOOLEAN /\ fallback \in BOOLEAN /\ due \in BOOLEAN
  /\ routerFirst \in BOOLEAN /\ owed \in BOOLEAN /\ hasty \in BOOLEAN

SettleJob == ~IsFree("settle") => thread["settle"].job = "settled"

(* Both handlers of the last agent_settled have returned before a run. *)
Calm == phase = "running" => IsFree("settle") /\ ~due /\ ~routerSettled

Silenced ==
  phase \in {"ending", "ended"} =>
    ~carry /\ ~context /\ ~timer /\ ~fallback /\ ~due

Carried ==
  carry => /\ phase = "running" \/ due
           /\ phase \in {"running", "idle"} => owed

(* Called second, the extension has heard from the router before. *)
Heard == due /\ IsFree("settle") => routerSettled

Waiting == context /\ ~timer => ~IsFree("settle")

Owing == (timer \/ context) /\ phase = "idle" => owed

Unhurried == timer /\ ~hasty => ~IsAwaiting("settle")

(* Only a session that ends has the thread of its shutdown under way. *)
EndThread == ~IsFree("end") => phase \in {"ending", "ended"}

ContinueInv ==
  /\ TypeOK /\ EndThread /\ FlagsOK /\ SettleJob /\ Calm /\ Silenced
  /\ Carried /\ Heard /\ Waiting /\ Owing /\ Unhurried

-----------------------------------------------------------------------------
(* The router in the host. *)

LEMMA RouterStep == ContinueNext => [Next]_vars
<1> SUFFICES ASSUME ContinueNext PROVE [Next]_vars
  OBVIOUS
<1>1. CASE CompactBoth \/ StartBoth \/ SettleBoth \/ RouterSettled \/ ShutdownBoth
  BY <1>1 DEF CompactBoth, StartBoth, SettleBoth, RouterSettled, ShutdownBoth, Next
<1>2. CASE SettleSecond \/ FallbackFires
  BY <1>2 DEF SettleSecond, FallbackFires
<1>3. CASE TimerFires
  <2>1. Input("continuation") \/ UNCHANGED vars
    BY <1>3 DEF TimerFires
  <2>2. "continuation" \in Prompts
    BY DEF Prompts
  <2> QED BY <2>1, <2>2 DEF Next
<1>4. CASE PromptBoth
  BY <1>4 DEF PromptBoth, Next
<1>5. CASE RouterOnly
  BY <1>5 DEF RouterOnly, Next
<1> QED BY <1>1, <1>2, <1>3, <1>4, <1>5 DEF ContinueNext

(* The continuation asks nothing of the router that another prompt could not: *)
(* with it loaded, in either order, the router behaves as it does alone, and  *)
(* so what is proved of it holds (auto-continue-after-compact.ts uses only    *)
(* the host's prompts and the event auto-fugu:model-settled).                 *)
THEOREM RouterIsUndisturbed == ContinueSpec => Spec
<1>1. ContinueInit => Init
  BY DEF ContinueInit
<1>2. [ContinueNext]_allVars => [Next]_vars
  BY RouterStep DEF allVars
<1> QED BY <1>1, <1>2, PTL DEF ContinueSpec, Spec

-----------------------------------------------------------------------------
(* The thread of agent_settled. *)

SameSettle ==
  /\ IsFree("settle") <=> IsFree("settle")'
  /\ IsAwaiting("settle")' => IsAwaiting("settle")
  /\ SettleJob'

LEMMA ReturnOther ==
  ASSUME TypeOK, NEW t \in Threads, NEW job, Return(t, job)
  PROVE  \A s \in Threads \ {t} : thread'[s] = thread[s]
BY DEF Return, TypeOK

LEMMA SetModelOther ==
  ASSUME TypeOK, NEW t \in Threads, NEW job, NEW op, NEW goal,
         SetModel(t, job, op, goal)
  PROVE  \A s \in Threads \ {t} : thread'[s] = thread[s]
BY DEF SetModel, TypeOK

LEMMA SwitchOther ==
  ASSUME TypeOK, NEW t \in Threads, NEW job, NEW target,
         Apply(t, job, target) \/ Restore(t, job)
  PROVE  \A s \in Threads \ {t} : thread'[s] = thread[s]
BY ReturnOther, SetModelOther DEF Apply, Restore

LEMMA SettleKept ==
  ASSUME SettleJob, thread'["settle"] = thread["settle"]
  PROVE  SameSettle
BY DEF SameSettle, SettleJob, IsFree, IsAwaiting

LEMMA ResumeSettle ==
  ASSUME TypeOK, SettleJob, NEW t \in Threads, Resume(t)
  PROVE  SameSettle
<1>1. IsAwaiting(t) /\ Return(t, thread[t].job)
  BY DEF Resume
<1>2. CASE t # "settle"
  <2>1. thread'["settle"] = thread["settle"]
    BY <1>1, <1>2, ReturnOther DEF Threads
  <2> QED BY <2>1, SettleKept
<1>3. CASE t = "settle"
  <2>1. thread["settle"].at = "awaiting" /\ thread["settle"].job = "settled"
    BY <1>1, <1>3 DEF IsAwaiting, SettleJob, IsFree
  <2>2. thread' = [thread EXCEPT !["settle"] = [at |-> "returned", job |-> "settled"]]
    BY <1>1, <1>3, <2>1 DEF Return, Continued
  <2>3. thread'["settle"] = [at |-> "returned", job |-> "settled"]
    BY <2>2 DEF TypeOK, Threads
  <2> QED BY <2>1, <2>3 DEF SameSettle, SettleJob, IsFree, IsAwaiting
<1> QED BY <1>2, <1>3

(* A step of the router that the extension does not see. *)
LEMMA InternalSettle ==
  ASSUME TypeOK, SettleJob, Internal
  PROVE  /\ SameSettle
         /\ phase' = phase \/ (phase = "submitted" /\ phase' = "preparing")
<1>1. CASE \E t \in Threads : Resume(t)
  BY <1>1, ResumeSettle DEF Resume, session
<1>2. CASE Prepare \/ RouteRun
  <2>1. thread'["settle"] = thread["settle"]
    BY <1>2, SwitchOther, ReturnOther DEF Prepare, RouteRun, Threads
  <2> QED BY <1>2, <2>1, SettleKept DEF Prepare, RouteRun, session
<1>3. CASE Steer
  <2>1. thread'["settle"] = thread["settle"]
    BY <1>3, SwitchOther DEF Steer, Threads
  <2> QED BY <1>3, <2>1, SettleKept DEF Steer, session
<1>4. CASE Escalate \/ \E isError \in BOOLEAN : ToolEnd(isError)
  <2>1. thread'["settle"] = thread["settle"]
    BY <1>4, SwitchOther DEF Escalate, ToolEnd, Threads
  <2> QED BY <1>4, <2>1, SettleKept DEF Escalate, ToolEnd, session
<1>5. CASE \E m \in Models, source \in {"set", "restore"} : Select(m, source)
  BY <1>5, SettleKept DEF Select, session
<1>6. CASE SwitchOn
  BY <1>6, SettleKept DEF SwitchOn, session
<1>7. CASE SwitchOff
  <2>1. thread'["settle"] = thread["settle"]
    BY <1>7, SwitchOther DEF SwitchOff, Threads
  <2> QED BY <1>7, <2>1, SettleKept DEF SwitchOff, session
<1> QED BY <1>1, <1>2, <1>3, <1>4, <1>5, <1>6, <1>7 DEF Internal

LEMMA RestoreSettled ==
  ASSUME TypeOK, Restore("settle", "settled")
  PROVE  ~IsFree("settle")' /\ SettleJob'
<1>1. CASE Return("settle", "settled")
  <2>1. thread' = [thread EXCEPT !["settle"] = [at |-> "returned", job |-> "settled"]]
    BY <1>1 DEF Return, Continued
  <2>2. thread'["settle"] = [at |-> "returned", job |-> "settled"]
    BY <2>1 DEF TypeOK, Threads
  <2> QED BY <2>2 DEF IsFree, SettleJob
<1>2. CASE SetModel("settle", "settled", "restore", restore)
  <2>1. PICK outcome \in Outcomes : thread' = [thread EXCEPT !["settle"] =
          [at |-> "awaiting", job |-> "settled", op |-> "restore",
           goal |-> restore, from |-> model, outcome |-> outcome]]
    BY <1>2 DEF SetModel
  <2>2. thread'["settle"] =
          [at |-> "awaiting", job |-> "settled", op |-> "restore",
           goal |-> restore, from |-> model, outcome |-> outcome]
    BY <2>1 DEF TypeOK, Threads
  <2> QED BY <2>2 DEF IsFree, SettleJob
<1>3. Return("settle", "settled") \/ SetModel("settle", "settled", "restore", restore)
  BY DEF Restore
<1> QED BY <1>1, <1>2, <1>3

LEMMA EmitFrees ==
  ASSUME TypeOK, EmitSettled
  PROVE  ~IsFree("settle") /\ IsFree("settle")' /\ ~IsAwaiting("settle")' /\ phase' = phase
BY DEF EmitSettled, TypeOK, Threads, Free, IsFree, IsAwaiting, session

(* The thread of session_shutdown. *)
LEMMA EndKept ==
  ASSUME TypeOK, EndThread, [Next]_vars
  PROVE  EndThread'
<1>1. CASE /\ thread'["end"] = thread["end"]
           /\ phase \in {"ending", "ended"} => phase' \in {"ending", "ended"}
  BY <1>1 DEF EndThread, IsFree
<1>2. CASE UNCHANGED vars
  BY <1>2 DEF vars, session, EndThread, IsFree
<1>3. ASSUME NEW t \in Threads, Resume(t) PROVE EndThread'
  <2>1. Return(t, thread[t].job) /\ phase' = phase /\ ~IsFree(t)
    BY <1>3 DEF Resume, session, IsFree, IsAwaiting
  <2>2. CASE t = "end"
    BY <2>1, <2>2 DEF EndThread
  <2>3. CASE t # "end"
    BY <2>1, <2>3, ReturnOther, <1>1 DEF Threads
  <2> QED BY <2>2, <2>3
<1>4. CASE Prepare \/ RouteRun \/ AgentStart
  <2>1. thread'["end"] = thread["end"]
    BY <1>4, SwitchOther, ReturnOther DEF Prepare, RouteRun, AgentStart, TypeOK, Threads
  <2> QED BY <1>1, <1>4, <2>1 DEF Prepare, RouteRun, AgentStart, session
<1>5. CASE Steer \/ Escalate \/ \E isError \in BOOLEAN : ToolEnd(isError)
  <2>1. thread'["end"] = thread["end"]
    BY <1>5, SwitchOther DEF Steer, Escalate, ToolEnd, Threads
  <2>2. phase' = phase
    BY <1>5 DEF Steer, Escalate, ToolEnd, session
  <2> QED BY <1>1, <2>1, <2>2
<1>6. CASE Compact \/ SwitchOn \/ SwitchOff
           \/ \E m \in Models, source \in {"set", "restore"} : Select(m, source)
  <2>1. thread'["end"] = thread["end"]
    BY <1>6, SwitchOther DEF Compact, SwitchOn, SwitchOff, Select, Threads
  <2>2. phase' = phase
    BY <1>6 DEF Compact, SwitchOn, SwitchOff, Select, session
  <2> QED BY <1>1, <2>1, <2>2
<1>7. CASE Settle \/ EmitSettled \/ \E kind \in Prompts : Input(kind)
  <2>1. thread'["end"] = thread["end"]
    BY <1>7, SwitchOther DEF Settle, EmitSettled, Input, TypeOK, Threads
  <2> QED BY <1>1, <1>7, <2>1 DEF Settle, EmitSettled, Input, session
<1>8. CASE Shutdown \/ Ended
  BY <1>8 DEF Shutdown, Ended, EndThread
<1>9. CASE NewSession
  BY <1>9 DEF NewSession, EndThread, IsFree, Free, Threads
<1> QED BY <1>2, <1>3, <1>4, <1>5, <1>6, <1>7, <1>8, <1>9 DEF Next, Internal

-----------------------------------------------------------------------------
(* The invariant. *)

LEMMA ContinueInvInit == ContinueInit => ContinueInv
<1> SUFFICES ASSUME ContinueInit PROVE ContinueInv
  OBVIOUS
<1>1. TypeOK
  BY TypeInit DEF ContinueInit
<1>2. phase = "idle" /\ IsFree("settle")
  BY DEF ContinueInit, Init, Threads, Free, IsFree
<1>3. IsFree("end")
  BY DEF ContinueInit, Init, Threads, Free, IsFree
<1> QED BY <1>1, <1>2, <1>3 DEF ContinueInit, ContinueInv, FlagsOK, SettleJob, Calm,
          Silenced, Carried, Heard, Waiting, Owing, Unhurried, EndThread

LEMMA ContinueType == TypeOK /\ [Next]_vars => TypeOK'
BY TypeNext DEF vars, TypeOK, route, session

LEMMA ContinueStep == ContinueInv /\ [ContinueNext]_allVars => ContinueInv'
<1> SUFFICES ASSUME ContinueInv, [ContinueNext]_allVars PROVE ContinueInv'
  OBVIOUS
<1>1. TypeOK /\ FlagsOK /\ SettleJob /\ TypeOK' /\ EndThread'
  <2>1. [Next]_vars
    BY RouterStep DEF allVars
  <2> QED BY <2>1, ContinueType, EndKept DEF ContinueInv
<1> DEFINE Rest == FlagsOK' /\ SettleJob' /\ Calm' /\ Silenced' /\ Carried'
                   /\ Heard' /\ Waiting' /\ Owing' /\ Unhurried'
<1> SUFFICES Rest
  BY <1>1 DEF ContinueInv
<1> USE DEF ContinueInv
<1>2. CASE UNCHANGED allVars
  BY <1>2 DEF allVars, vars, flags, history, session, FlagsOK, SettleJob, Calm,
     Silenced, Carried, Heard, Waiting, Owing, Unhurried, IsFree, IsAwaiting
<1>3. CASE CompactBoth
  BY <1>1, <1>3 DEF CompactBoth, Compact, session, FlagsOK, SettleJob, Calm,
     Silenced, Carried, Heard, Waiting, Owing, Unhurried, IsFree, IsAwaiting
<1>4. CASE StartBoth
  <2>1. thread'["settle"] = thread["settle"] /\ phase' = "running"
        /\ phase = "preparing"
    BY <1>1, <1>4 DEF StartBoth, AgentStart, TypeOK, Threads
  <2>2. SameSettle
    BY <1>1, <2>1, SettleKept
  <2> QED BY <1>1, <1>4, <2>1, <2>2 DEF StartBoth, SameSettle, history, FlagsOK, Calm,
     Silenced, Carried, Heard, Waiting, Owing, Unhurried
<1>5. CASE SettleBoth
  <2>1. phase = "running" /\ phase' = "idle" /\ ~IsFree("settle")' /\ SettleJob'
        /\ IsFree("settle") /\ ~timer /\ ~due
    BY <1>1, <1>5, RestoreSettled DEF SettleBoth, Settle
  <2>2. ~context /\ ~routerSettled /\ (carry => owed) /\ owed' = owed
    BY <1>5, <2>1 DEF Waiting, Calm, Carried, SettleBoth
  <2>3. timer' = FALSE /\ (context' => carry) /\ (carry' => due') /\ FlagsOK'
        /\ (carry' => carry)
    BY <1>1, <1>5, <2>1, <2>2 DEF SettleBoth, OnSettled, FlagsOK
  <2> QED BY <2>1, <2>2, <2>3 DEF Calm, Silenced, Carried, Heard, Waiting, Owing, Unhurried
<1>6. CASE RouterSettled
  <2>1. ~IsFree("settle") /\ IsFree("settle")' /\ ~IsAwaiting("settle")'
        /\ phase' = phase
    BY <1>1, <1>6, EmitFrees DEF RouterSettled
  <2>2. SettleJob' /\ FlagsOK'
    BY <1>1, <1>6, <2>1 DEF SettleJob, RouterSettled, Schedule, FlagsOK
  <2>3. Calm' /\ Silenced' /\ Carried' /\ Heard' /\ Waiting' /\ Owing' /\ Unhurried'
    BY <1>1, <1>6, <2>1, <2>2 DEF RouterSettled, Schedule, FlagsOK, Calm, Silenced,
       Carried, Heard, Waiting, Owing, Unhurried
  <2> QED BY <2>2, <2>3
<1>7. CASE SettleSecond
  <2>1. SameSettle /\ phase' = phase /\ IsFree("settle") /\ due
    BY <1>1, <1>7, SettleKept DEF SettleSecond, vars, session
  <2>2. ~IsAwaiting("settle")
    BY <2>1 DEF IsFree, IsAwaiting
  <2>3. FlagsOK'
    BY <1>1, <1>7 DEF SettleSecond, OnSettled, Schedule, FlagsOK
  <2>4. /\ phase \notin {"running", "ending", "ended"} /\ routerSettled
        /\ (context => timer) /\ IsFree("settle")' /\ ~IsAwaiting("settle")'
        /\ due' = FALSE /\ SettleJob' /\ owed' = owed
    BY <1>7, <2>1, <2>2 DEF SettleSecond, SameSettle, Calm, Silenced, Waiting, Heard
  <2>5. Calm' /\ Silenced' /\ Heard'
    BY <2>1, <2>4 DEF Calm, Silenced, Heard
  <2>6. CASE ~carry
    <3>1. UNCHANGED <<carry, context, timer, hasty>>
      BY <1>7, <2>6 DEF SettleSecond, OnSettled
    <3> QED BY <2>1, <2>3, <2>4, <2>5, <2>6, <3>1 DEF Carried, Waiting, Owing, Unhurried
  <2>7. CASE carry
    <3>1. ~carry' /\ timer' /\ (phase = "idle" => owed)
      BY <1>7, <2>4, <2>7 DEF SettleSecond, OnSettled, Schedule, Carried
    <3> QED BY <2>1, <2>3, <2>4, <2>5, <3>1 DEF Carried, Waiting, Owing, Unhurried
  <2> QED BY <2>6, <2>7
<1>8. CASE FallbackFires
  <2>1. SameSettle /\ phase' = phase
    BY <1>1, <1>8, SettleKept DEF FallbackFires, vars, session
  <2> QED BY <1>1, <1>8, <2>1 DEF FallbackFires, Schedule, SameSettle, FlagsOK, Calm,
     Silenced, Carried, Heard, Waiting, Owing, Unhurried
<1>9. CASE TimerFires
  <2>1. SameSettle /\ (phase' = phase \/ (phase = "idle" /\ phase' = "submitted"))
        /\ (phase # "idle" => UNCHANGED owed)
    BY <1>1, <1>9, SettleKept DEF TimerFires, Input, vars, session
  <2>2. phase = "idle" => phase' = "submitted"
    BY <1>9 DEF TimerFires, Input
  <2>3. FlagsOK'
    BY <1>1, <1>9 DEF TimerFires, FlagsOK
  <2> QED BY <1>1, <1>9, <2>1, <2>2, <2>3 DEF TimerFires, SameSettle, FlagsOK, Calm,
     Silenced, Carried, Heard, Waiting, Owing, Unhurried
<1>10. CASE PromptBoth
  <2>1. SameSettle /\ phase = "idle" /\ phase' = "submitted"
    BY <1>1, <1>10, SettleKept DEF PromptBoth, Input
  <2> QED BY <1>1, <1>10, <2>1 DEF PromptBoth, flags, SameSettle, FlagsOK, Calm,
     Silenced, Carried, Heard, Waiting, Owing, Unhurried
<1>11. CASE ShutdownBoth
  <2>1. SameSettle
    <3>1. thread'["settle"] = thread["settle"]
      BY <1>1, <1>11, SwitchOther DEF ShutdownBoth, Shutdown, Threads
    <3> QED BY <1>1, <3>1, SettleKept
  <2>2. phase' = "ending"
    BY <1>11 DEF ShutdownBoth, Shutdown
  <2> QED BY <1>1, <1>11, <2>1, <2>2 DEF ShutdownBoth, SameSettle, FlagsOK, Calm,
     Silenced, Carried, Heard, Waiting, Owing, Unhurried
<1>12. CASE Internal /\ UNCHANGED <<flags, history>>
  <2>1. /\ SameSettle
        /\ phase' = phase \/ (phase = "submitted" /\ phase' = "preparing")
    BY <1>1, <1>12, InternalSettle
  <2> QED BY <1>1, <1>12, <2>1 DEF flags, history, SameSettle, FlagsOK, Calm,
     Silenced, Carried, Heard, Waiting, Owing, Unhurried
<1>13. CASE Ended /\ UNCHANGED <<flags, history>>
  <2>1. SameSettle
    <3>1. thread'["settle"] = thread["settle"]
      BY <1>1, <1>13 DEF Ended, TypeOK, Threads
    <3> QED BY <1>1, <3>1, SettleKept
  <2>2. phase \in {"ending", "ended"} /\ phase' = "ended"
    BY <1>1, <1>13 DEF Ended, EndThread, IsFree
  <2> QED BY <1>1, <1>13, <2>1, <2>2 DEF flags, history, SameSettle, FlagsOK, Calm,
     Silenced, Carried, Heard, Waiting, Owing, Unhurried
<1>14. CASE NewSession /\ UNCHANGED <<flags, history>>
  <2>1. IsFree("settle")' /\ ~IsAwaiting("settle")' /\ SettleJob'
    BY <1>14 DEF NewSession, IsFree, IsAwaiting, SettleJob, Free, Threads
  <2>2. phase = "ended" /\ phase' = "idle"
    BY <1>14 DEF NewSession
  <2> QED BY <1>1, <1>14, <2>1, <2>2 DEF flags, history, FlagsOK, Calm,
     Silenced, Carried, Heard, Waiting, Owing, Unhurried
<1> QED BY <1>2, <1>3, <1>4, <1>5, <1>6, <1>7, <1>8, <1>9, <1>10, <1>11, <1>12,
           <1>13, <1>14 DEF ContinueNext, RouterOnly

(* The timer of auto-continue-after-compact.ts sends its message only while a *)
(* compaction is still unanswered, and not while auto-fugu-model.ts awaits    *)
(* the user's model unless the fallback gave up waiting: in both load orders, *)
(* with any overlap of switches, prompts and shutdowns.                       *)
THEOREM ContinuedOnce == ContinueSpec => ContinuesOnce
<1>1. ContinueInv /\ [ContinueNext]_allVars
        => [Continues => owed /\ (hasty \/ ~IsAwaiting("settle"))]_allVars
  BY DEF ContinueInv, Owing, Unhurried, Continues, FlagsOK
<1> QED BY <1>1, ContinueInvInit, ContinueStep, PTL DEF ContinueSpec, ContinuesOnce
=============================================================================
