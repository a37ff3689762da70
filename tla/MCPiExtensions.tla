--------------------------- MODULE MCPiExtensions ---------------------------
(***************************************************************************)
(* Small instances of the Pi extensions for TLC.  Extensions of different  *)
(* groups share no state: a behaviour is about the one that was loaded.    *)
(***************************************************************************)
EXTENDS AutoContinue, WorkspaceCd, SessionName, StatusLine, RepoMemory

CONSTANTS codex, d1, d2, d3, t1, t2, n1, s1, s2

VARIABLE loaded

others == <<cdVars, nameVars, statusVars, memVars>>
everything == <<loaded, allVars, others>>

Groups == {"continue", "cd", "name", "status", "memory"}

(* The extensions that are not loaded have one initial state each. *)
MCInit ==
  /\ loaded \in Groups
  /\ ContinueInit /\ (loaded # "continue" => routerFirst /\ model = Base)
  /\ CdInit /\ (loaded # "cd" => cwd = d1 /\ persisted)
  /\ NameInit /\ (loaded # "name" => title = t1 /\ sessionName = Unnamed)
  /\ StatusInit /\ (loaded # "status" => extension = "codex" /\ supported)
  /\ MemInit

MCNext ==
  /\ UNCHANGED loaded
  /\ \/ /\ loaded = "continue"
        /\ ContinueNext /\ UNCHANGED others
     \/ /\ loaded = "cd"
        /\ CdNext /\ UNCHANGED <<allVars, nameVars, statusVars, memVars>>
     \/ /\ loaded = "name"
        /\ NameNext /\ UNCHANGED <<allVars, cdVars, statusVars, memVars>>
     \/ /\ loaded = "status"
        /\ StatusNext /\ UNCHANGED <<allVars, cdVars, nameVars, memVars>>
     \/ /\ loaded = "memory"
        /\ MemNext /\ UNCHANGED <<allVars, cdVars, nameVars, statusVars>>

(* In the initial state of an extension nothing is there to be fair to. *)
MCSpec ==
  MCInit /\ [][MCNext]_everything /\ Fairness /\ CdFairness /\ StatusFairness
=============================================================================
