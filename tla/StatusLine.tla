----------------------------- MODULE StatusLine -----------------------------
(***************************************************************************)
(* The two Pi extensions that show an account's state in the footer:       *)
(* codex-usage.ts, which asks a child process (lib/codex-usage.ts), and    *)
(* openrouter-balance.ts, which asks a web server.                         *)
(*                                                                         *)
(* A refresh cancels the one before it and awaits its own query, which may *)
(* be answered, fail, time out or be cancelled; the query of Codex then    *)
(* still awaits the end of its child.  Answers so may come in any order,   *)
(* also after the session has been shut down.                              *)
(***************************************************************************)
EXTENDS Naturals

CONSTANT MaxRefresh   \* bound on the refreshes and cancellations of a session

ASSUME RefreshAssumption == MaxRefresh \in Nat

VARIABLES
  extension,  \* "codex" or "openrouter"
  supported,  \* the model is one of the account; there is a management key
  live,       \* the session is not shut down
  refreshId,  \* refreshId
  controller, \* the refresh whose AbortController is set; 0: undefined
  status,     \* the refresh whose answer the footer shows; 0: undefined
  query       \* per refresh: where its query is, and its child process,
              \* which is "killed" from SIGKILL until it exits

statusVars == <<extension, supported, live, refreshId, controller, status, query>>

Ids == 1 .. MaxRefresh
Places == {"none", "initialize", "rateLimits", "fetch", "answered", "failed", "ended"}
Children == {"none", "alive", "killed", "exited", "closed"}
NoQuery == [at |-> "none", child |-> "none"]

StatusTypeOK ==
  /\ extension \in {"codex", "openrouter"}
  /\ supported \in BOOLEAN /\ live \in BOOLEAN
  /\ refreshId \in 0 .. MaxRefresh /\ controller \in 0 .. MaxRefresh
  /\ status \in 0 .. MaxRefresh
  /\ query \in [Ids -> [at : Places, child : Children]]

StatusInit ==
  /\ extension \in {"codex", "openrouter"}
  /\ supported \in BOOLEAN
  /\ live = TRUE
  /\ refreshId = 0 /\ controller = 0 /\ status = 0
  /\ query = [q \in Ids |-> NoQuery]

Waits(q) == query[q].at \in {"initialize", "rateLimits", "fetch"}

(* Broken: close() leaves the child to end by itself. *)
ClosingUnkilled(at, entry) == [at |-> at, child |-> entry.child]

(* The finally of queryCodexUsage: the outcome is kept, close() clears timeout
   and listener and kills the child; the query of OpenRouter just ends. *)
Closing(at, entry) ==
  [at |-> at, child |-> IF entry.child = "alive" THEN "killed" ELSE entry.child]

(* stop(): the pending request is rejected and the child killed. *)
Stopped(q) == Closing("failed", query[q])

(* controller?.abort(): nothing hears it once the query is closing. *)
Aborted ==
  [q \in Ids |-> IF q = controller /\ Waits(q) THEN Stopped(q) ELSE query[q]]

(* cancelRefresh, then a new query if there is something to ask.  The child is
   started and asked in one go; that it cannot be started shows later. *)
Refresh(wanted) ==
  /\ refreshId < MaxRefresh
  /\ refreshId' = refreshId + 1
  /\ IF wanted
     THEN /\ controller' = refreshId'
          /\ query' = [Aborted EXCEPT ![refreshId'] =
               IF extension = "codex"
               THEN [at |-> "initialize", child |-> "alive"]
               ELSE [at |-> "fetch", child |-> "none"]]
          /\ UNCHANGED status
     ELSE controller' = 0 /\ query' = Aborted /\ status' = 0

(* codex-usage: "session_start", "agent_settled", and the command. *)
RefreshUsage ==
  /\ live /\ extension = "codex"
  /\ Refresh(supported)
  /\ UNCHANGED <<extension, supported, live>>

(* openrouter-balance: the same, for a terminal and a management key. *)
RefreshBalance ==
  /\ live /\ extension = "openrouter"
  /\ Refresh(supported)
  /\ UNCHANGED <<extension, supported, live>>

(* "model_select", which only codex-usage handles. *)
SelectModel ==
  /\ live /\ extension = "codex"
  /\ supported' \in BOOLEAN
  /\ Refresh(supported')
  /\ UNCHANGED <<extension, live>>

(* /codex-usage with another model: cleared, and nothing is cancelled. *)
RefuseCommand ==
  /\ live /\ extension = "codex" /\ ~supported
  /\ status' = 0
  /\ UNCHANGED <<extension, supported, live, refreshId, controller, query>>

(* "session_shutdown" *)
StatusShutdown ==
  /\ live /\ refreshId < MaxRefresh
  /\ live' = FALSE
  /\ refreshId' = refreshId + 1
  /\ controller' = 0 /\ query' = Aborted /\ status' = 0
  /\ UNCHANGED <<extension, supported>>

Answered(q, entry) ==
  /\ query' = [query EXCEPT ![q] = entry]
  /\ UNCHANGED <<extension, supported, live, refreshId, controller, status>>

(* The answer to initialize: write() throws if the child has exited. *)
Initialized(q) ==
  /\ query[q].at = "initialize"
  /\ IF query[q].child = "alive"
     THEN Answered(q, [query[q] EXCEPT !.at = "rateLimits"])
     ELSE Answered(q, Stopped(q))

(* The answer that was asked for, an error, or something malformed. *)
RateLimitsRead(q) ==
  /\ query[q].at = "rateLimits"
  /\ \E outcome \in {"answered", "failed"} : Answered(q, Closing(outcome, query[q]))

(* The same of the server's credits: one request, then its body. *)
CreditsRead(q) ==
  /\ query[q].at = "fetch"
  /\ \E outcome \in {"answered", "failed"} : Answered(q, Closing(outcome, query[q]))

(* Five seconds have passed, or writing to the child failed. *)
QueryTimesOut(q) == Waits(q) /\ Answered(q, Stopped(q))

(* The child exits, killed or not; its output may still be on the way. *)
ChildExits(q) ==
  /\ query[q].child \in {"alive", "killed"}
  /\ Answered(q, [query[q] EXCEPT !.child = "exited"])

(* Its "close": a request that still waits is rejected. *)
ChildCloses(q) ==
  /\ query[q].child = "exited"
  /\ Answered(q, [(IF Waits(q) THEN Stopped(q) ELSE query[q]) EXCEPT !.child = "closed"])

(* Broken: whoever is answered last is shown. *)
ShownOfAny(q) ==
  /\ status' = IF query[q].at = "answered" THEN q ELSE 0
  /\ controller' = 0

(* refresh after the await: a superseded answer or failure changes nothing. *)
Shown(q) ==
  IF q = refreshId
  THEN /\ status' = IF query[q].at = "answered" THEN q ELSE 0
       /\ controller' = 0
  ELSE UNCHANGED <<status, controller>>

(* close() and with it the query returns once the child's "close" was there. *)
QueryEnds(q) ==
  /\ query[q].at \in {"answered", "failed"}
  /\ query[q].child \in {"none", "closed"}
  /\ Shown(q)
  /\ query' = [query EXCEPT ![q].at = "ended"]
  /\ UNCHANGED <<extension, supported, live, refreshId>>

StatusNext ==
  \/ RefreshUsage \/ RefreshBalance \/ SelectModel \/ RefuseCommand \/ StatusShutdown
  \/ \E q \in Ids :
       \/ Initialized(q) \/ RateLimitsRead(q) \/ CreditsRead(q)
       \/ QueryTimesOut(q) \/ ChildExits(q) \/ ChildCloses(q) \/ QueryEnds(q)

StatusSpec == StatusInit /\ [][StatusNext]_statusVars

(* The timer of a query fires, SIGKILL is obeyed, the output of a child ends
   with it, and promises are continued. *)
StatusFairness ==
  \A q \in Ids :
    /\ WF_statusVars(QueryTimesOut(q))
    /\ WF_statusVars(query[q].child = "killed" /\ ChildExits(q))
    /\ WF_statusVars(ChildCloses(q))
    /\ WF_statusVars(QueryEnds(q))

-----------------------------------------------------------------------------

(* The footer shows an answer only of a live session with a supported model,
   and once the newest refresh is over, of no other refresh, however late the
   others are; and no child of a superseded refresh or of an ended session is
   left unkilled (cancelRefresh, refresh, createCodexAppServer). *)
OnlyTheNewestCounts ==
  /\ status # 0 => live /\ supported
  /\ status # 0 /\ query[refreshId].at = "ended" => status = refreshId
  /\ \A q \in Ids : q # refreshId => query[q].child # "alive"

(* Every query ends, and its child with it, whatever the child or the server
   does (the timeouts and close of queryCodexUsage and queryOpenRouterBalance). *)
QueriesEnd ==
  \A q \in Ids :
    query[q].at # "none" ~>
      query[q].at = "ended" /\ query[q].child \notin {"alive", "killed"}
=============================================================================
