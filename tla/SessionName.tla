---------------------------- MODULE SessionName ----------------------------
(***************************************************************************)
(* The Pi extension that names a session after its cmux workspace          *)
(* (pi/agent/extensions/cmux-session-name.ts).                             *)
(*                                                                         *)
(* It looks the workspace's title up at most twice, when the session       *)
(* starts and when its first run settles.  A lookup is a subprocess: while *)
(* it is awaited the user may name the session, clear its name, or rename  *)
(* the workspace.  A name is the user's unless it is the one the extension *)
(* set last.                                                               *)
(***************************************************************************)
CONSTANTS
  Titles,   \* normalised custom titles of the workspace
  Names,    \* names the user may give
  Unnamed   \* undefined or empty

ASSUME UnnamedAssumption == Unnamed \notin Titles \union Names

Syncs == {"startup", "settled"}

VARIABLES
  title,        \* custom_title of the workspace
  sessionName,  \* pi.getSessionName()
  autoName,     \* autoName
  used,         \* startupScheduled, settledUsed: the events handled so far
  sync,         \* per lookup: where it is, the autoName it was called with
                \* and the title it found
  given         \* history: the name that the user gave

nameVars == <<title, sessionName, autoName, used, sync, given>>

Unqueued == [at |-> "none", auto |-> Unnamed, found |-> Unnamed]

NameTypeOK ==
  /\ title \in Titles \union {Unnamed}
  /\ sessionName \in Titles \union Names \union {Unnamed}
  /\ autoName \in Titles \union {Unnamed}
  /\ used \subseteq Syncs
  /\ sync \in [Syncs -> [at : {"none", "queued", "asking", "answered", "done"},
                         auto : Titles \union {Unnamed},
                         found : Titles \union {Unnamed}]]
  /\ given \in Names \union {Unnamed}

(* A resumed session may already have a name. *)
NameInit ==
  /\ title \in Titles \union {Unnamed}
  /\ sessionName \in Names \union {Unnamed} /\ given = sessionName
  /\ autoName = Unnamed
  /\ used = {}
  /\ sync = [s \in Syncs |-> Unqueued]

IsManual(auto) == sessionName # Unnamed /\ sessionName # auto

(* "session_start", then the first "agent_settled": queue a lookup unless the
   session has a name of the user's. *)
OnEvent(s) ==
  /\ s \notin used /\ (s = "settled" => "startup" \in used)
  /\ used' = used \union {s}
  /\ sync' = IF IsManual(autoName) THEN sync
             ELSE [sync EXCEPT ![s].at = "queued"]
  /\ UNCHANGED <<title, sessionName, autoName, given>>

(* Broken: lookups are not chained to each other. *)
AtOnce(s) == TRUE

(* queue.then: a lookup begins when the one before it is done. *)
IsNext(s) == s = "settled" => sync["startup"].at \in {"none", "done"}

(* syncCmuxSessionName up to the await: in no workspace, or with a name of the
   user's by now, there is nothing to look up. *)
BeginSync(s) ==
  /\ sync[s].at = "queued" /\ IsNext(s)
  /\ \/ /\ ~IsManual(autoName)
        /\ sync' = [sync EXCEPT ![s].at = "asking", ![s].auto = autoName]
     \/ sync' = [sync EXCEPT ![s].at = "done"]
  /\ UNCHANGED <<title, sessionName, autoName, used, given>>

(* cmux lists its workspaces, or fails, is killed after five seconds, or
   prints something else. *)
LookUp(s) ==
  /\ sync[s].at = "asking"
  /\ \E found \in {title, Unnamed} :
       sync' = [sync EXCEPT ![s].at = "answered", ![s].found = found]
  /\ UNCHANGED <<title, sessionName, autoName, used, given>>

Finish(s) == sync' = [sync EXCEPT ![s] = [Unqueued EXCEPT !.at = "done"]]

(* ... and after it: without a title, or with a name that the user gave in the
   meantime, autoName is put back as it was when the lookup began. *)
EndSync(s) ==
  LET name == sync[s].found IN
  /\ sync[s].at = "answered"
  /\ IF name = Unnamed \/ IsManual(sync[s].auto)
     THEN autoName' = sync[s].auto /\ UNCHANGED sessionName
     ELSE sessionName' = name /\ autoName' = name
  /\ Finish(s)
  /\ UNCHANGED <<title, used, given>>

(* The user names the session or clears its name.  Retyping the name that the
   extension gave leaves it to the extension. *)
GiveName(name) ==
  /\ sessionName' = name
  /\ given' = IF name = autoName THEN Unnamed ELSE name
  /\ UNCHANGED <<title, autoName, used, sync>>

(* cmux: the workspace is renamed. *)
Retitle ==
  /\ title' \in Titles \union {Unnamed}
  /\ UNCHANGED <<sessionName, autoName, used, sync, given>>

NameNext ==
  \/ \E s \in Syncs : OnEvent(s) \/ BeginSync(s) \/ LookUp(s) \/ EndSync(s)
  \/ \E name \in Names \union {Unnamed} : GiveName(name)
  \/ Retitle

NameSpec == NameInit /\ [][NameNext]_nameVars

-----------------------------------------------------------------------------

(* A name that the user gave stays, given before, between or during lookups;
   any other name is the one the extension remembers to have set, so that it
   is updated later and not mistaken for the user's (pi/README.md, "cmux
   session names"). *)
ManualNameStands ==
  /\ given # Unnamed => sessionName = given
  /\ given = Unnamed /\ sessionName # Unnamed => sessionName = autoName
=============================================================================
