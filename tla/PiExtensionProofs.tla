------------------------- MODULE PiExtensionProofs -------------------------
(***************************************************************************)
(* What the small Pi extensions promise, for all directories, titles and   *)
(* names, and any number of refreshes, sessions and notes.  Each extension *)
(* has an inductive invariant of its own.                                  *)
(***************************************************************************)
EXTENDS WorkspaceCd, SessionName, StatusLine, RepoMemory, TLAPS

-----------------------------------------------------------------------------
(***************************************************************************)
(* A session goes on only where it was promised to, for all directories.   *)
(* The timer is set only while a target is noted, and the target is noted  *)
(* exactly as long as the session waits for it.                            *)
(***************************************************************************)

CdInv ==
  /\ CdTypeOK
  /\ promised = pendingTarget
  /\ dispatchTimer => pendingTarget # Nowhere
  /\ \A c \in Commands : switching[c].to = Nowhere => switching[c] = NotCalled

LEMMA CdInvInit == CdInit => CdInv
<1> SUFFICES ASSUME CdInit PROVE CdInv
  OBVIOUS
<1>1. CdTypeOK
  <2>1. NotCalled \in [to : Dirs \union {Nowhere}, awaits : BOOLEAN]
    BY DEF NotCalled
  <2> QED
    BY <2>1 DEF CdInit, CdTypeOK
<1>2. promised = pendingTarget /\ ~dispatchTimer
  BY DEF CdInit
<1>3. \A c \in Commands : switching[c] = NotCalled
  BY DEF CdInit
<1> QED
  BY <1>1, <1>2, <1>3 DEF CdInv

LEMMA CdInvNext == CdInv /\ [CdNext]_cdVars => CdInv'
<1> SUFFICES ASSUME CdInv, [CdNext]_cdVars PROVE CdInv'
  OBVIOUS
<1> USE NowhereAssumption DEF CdInv, CdTypeOK, NotCalled, Busy
<1>1. CASE UNCHANGED cdVars
  BY <1>1 DEF cdVars
<1>2. CASE CdPrompt
  BY <1>2 DEF CdPrompt
<1>3. CASE CdSettled
  BY <1>3 DEF CdSettled
<1>4. CASE DispatchBusy
  BY <1>4 DEF DispatchBusy
<1>5. CASE Dispatch
  BY <1>5 DEF Dispatch, Send
<1>6. CASE LeaveSession
  BY <1>6 DEF LeaveSession, CdShutdown
<1>7. ASSUME NEW dir \in Dirs, ScheduleSwitch(dir)
      PROVE  CdInv'
  BY <1>7 DEF ScheduleSwitch
<1>8. ASSUME NEW dir \in Dirs, CallCd(dir)
      PROVE  CdInv'
  BY <1>8 DEF CallCd
<1>9. ASSUME NEW c \in Commands, RefuseSwitch(c)
      PROVE  CdInv'
  BY <1>9 DEF RefuseSwitch, EndCommand
<1>10. ASSUME NEW c \in Commands, BeginSwitch(c)
      PROVE  CdInv'
  <2>1. switching[c].to # Nowhere
    BY <1>10 DEF BeginSwitch
  <2> QED
    BY <1>10, <2>1 DEF BeginSwitch
<1>11. ASSUME NEW c \in Commands, FinishSwitch(c)
       PROVE  CdInv'
  <2>1. switching[c].to \in Dirs
    BY <1>11 DEF FinishSwitch
  <2> QED
    BY <1>11, <2>1 DEF FinishSwitch, CdShutdown, EndCommand
<1> QED
  BY <1>1, <1>2, <1>3, <1>4, <1>5, <1>6, <1>7, <1>8, <1>9, <1>10, <1>11
     DEF CdNext

LEMMA CdInvDispatch ==
  CdInv /\ [CdNext]_cdVars =>
    [Dispatches => /\ switching'["workspace-cd-continue"].to = promised
                   /\ promised # Nowhere]_cdVars
<1> SUFFICES ASSUME CdInv, CdNext, Dispatches
             PROVE  /\ switching'["workspace-cd-continue"].to = promised
                    /\ promised # Nowhere
  BY DEF cdVars, Dispatches
<1> USE DEF CdInv, CdTypeOK, Dispatches, Commands
<1>1. ASSUME ~Dispatch PROVE FALSE
  <2>1. ASSUME NEW dir \in Dirs, CallCd(dir) PROVE FALSE
    BY <2>1 DEF CallCd
  <2>2. ASSUME NEW c \in Commands, RefuseSwitch(c) PROVE FALSE
    BY <2>2 DEF RefuseSwitch, EndCommand, NotCalled
  <2>3. ASSUME NEW c \in Commands, BeginSwitch(c) PROVE FALSE
    BY <2>3 DEF BeginSwitch
  <2>4. ASSUME NEW c \in Commands, FinishSwitch(c) PROVE FALSE
    BY <2>4 DEF FinishSwitch, EndCommand, NotCalled
  <2>5. CASE LeaveSession
    BY <2>5 DEF LeaveSession, NotCalled
  <2> QED
    BY <1>1, <2>1, <2>2, <2>3, <2>4, <2>5
       DEF CdNext, CdPrompt, CdSettled, DispatchBusy, ScheduleSwitch
<1> QED
  BY <1>1 DEF Dispatch, Send

(* Whatever is scheduled, typed, cancelled or left in between: what the timer
   dispatches is the target that the session was last promised and still waits
   for (workspace-cd.ts, dispatchPending). *)
THEOREM GoesWherePromised == CdSpec => DispatchesThePromised
<1> QED
  BY CdInvInit, CdInvNext, CdInvDispatch, PTL DEF CdSpec, DispatchesThePromised

-----------------------------------------------------------------------------
(***************************************************************************)
(* The name that the user gave stands, for all titles and names.           *)
(*                                                                         *)
(* A lookup puts autoName back as it was when it began.  That is harmless  *)
(* because lookups are chained: while one is under way nobody else changes *)
(* autoName (AutoKept), and this rests on what the other lookup does       *)
(* meanwhile (Chained), and on when it may be queued at all (Queued).      *)
(***************************************************************************)

Underway == {"asking", "answered"}

Queued ==
  /\ \A s \in Syncs : sync[s].at # "none" => s \in used
  /\ "settled" \in used => "startup" \in used

Chained ==
  sync["settled"].at \in Underway => sync["startup"].at \in {"none", "done"}

AutoKept ==
  \A s \in Syncs : sync[s].at \in Underway => sync[s].auto = autoName

(* What the extension set last is never taken for a name of the user's. *)
GivenIsManual == given # Unnamed => given # autoName

NameInv ==
  /\ NameTypeOK /\ Queued /\ Chained /\ AutoKept /\ GivenIsManual
  /\ ManualNameStands

LEMMA NameInvInit == NameInit => NameInv
  BY DEF NameInit, NameInv, NameTypeOK, Queued, Chained, AutoKept, GivenIsManual,
         ManualNameStands, Unqueued, Syncs, Underway

LEMMA NameInvNext == NameInv /\ [NameNext]_nameVars => NameInv'
<1> SUFFICES ASSUME NameInv, [NameNext]_nameVars PROVE NameInv'
  OBVIOUS
<1> USE DEF NameInv, NameTypeOK, Queued, Chained, AutoKept, GivenIsManual,
            ManualNameStands, Syncs, Underway
<1>1. CASE UNCHANGED nameVars
  BY <1>1 DEF nameVars
<1>2. ASSUME NEW s \in Syncs, OnEvent(s)
      PROVE  NameInv'
  BY <1>2 DEF OnEvent
<1>3. ASSUME NEW s \in Syncs, BeginSync(s)
      PROVE  NameInv'
  BY <1>3 DEF BeginSync, IsNext, IsManual
<1>4. ASSUME NEW s \in Syncs, LookUp(s)
      PROVE  NameInv'
  BY <1>4 DEF LookUp
<1>5. ASSUME NEW s \in Syncs, EndSync(s)
      PROVE  NameInv'
  <2>1. sync[s].auto = autoName
    BY <1>5 DEF EndSync
  <2>2. CASE sync[s].found = Unnamed \/ IsManual(sync[s].auto)
    BY <1>5, <2>1, <2>2 DEF EndSync, Finish, Unqueued
  <2>3. CASE ~(sync[s].found = Unnamed \/ IsManual(sync[s].auto))
    <3>1. given = Unnamed
      BY <2>1, <2>3 DEF IsManual
    <3> QED
      BY <1>5, <2>1, <2>3, <3>1 DEF EndSync, Finish, Unqueued
  <2> QED
    BY <2>2, <2>3
<1>6. ASSUME NEW name \in Names \union {Unnamed}, GiveName(name)
      PROVE  NameInv'
  BY <1>6 DEF GiveName
<1>7. CASE Retitle
  BY <1>7 DEF Retitle
<1> QED
  BY <1>1, <1>2, <1>3, <1>4, <1>5, <1>6, <1>7 DEF NameNext

(* Whatever the workspace and its titles do while a lookup is awaited, a name
   that the user gave is not replaced, and any other name is the one that the
   extension remembers (cmux-session-name.ts, syncCmuxSessionName). *)
THEOREM NameOfUserStands == NameSpec => []ManualNameStands
<1>1. NameInv => ManualNameStands
  BY DEF NameInv
<1> QED
  BY <1>1, NameInvInit, NameInvNext, PTL DEF NameSpec

-----------------------------------------------------------------------------
(***************************************************************************)
(* The newest refresh alone counts, for any number of refreshes.           *)
(*                                                                         *)
(* A superseded query cannot be waiting: the controller belongs to the     *)
(* newest refresh for as long as its query waits (WaitsIsNewest), so that  *)
(* the next refresh finds and stops it; and a query that does not wait has *)
(* killed its child (NotWaitingKilled).                                    *)
(***************************************************************************)

(* Entries of refreshes to come are empty. *)
LaterEmpty == \A q \in Ids : q > refreshId => query[q] = NoQuery

WaitsIsNewest == \A q \in Ids : Waits(q) => q = refreshId /\ controller = q

NotWaitingKilled ==
  \A q \in Ids : ~Waits(q) => query[q].child # "alive"

(* A query of the newest refresh asks for something that is wanted. *)
NewestIsWanted ==
  \A q \in Ids : q = refreshId /\ query[q].at # "none" => live /\ supported

FooterOK ==
  /\ controller \in {0, refreshId}
  /\ refreshId = 0 => status = 0
  /\ status # 0 => live /\ supported
  /\ \A q \in Ids :
       status # 0 /\ q = refreshId /\ query[q].at = "ended" => status = q

StatusInv ==
  /\ StatusTypeOK /\ LaterEmpty /\ WaitsIsNewest /\ NotWaitingKilled
  /\ NewestIsWanted /\ FooterOK

LEMMA StatusInvInit == StatusInit => StatusInv
  BY RefreshAssumption
     DEF StatusInit, StatusInv, StatusTypeOK, LaterEmpty, WaitsIsNewest,
         NotWaitingKilled, NewestIsWanted, FooterOK, NoQuery, Places, Children,
         Waits, Ids

(* Cancelling leaves no query that waits, and none whose child lives unkilled. *)
LEMMA AbortStops ==
  ASSUME StatusInv
  PROVE  /\ Aborted \in [Ids -> [at : Places, child : Children]]
         /\ \A q \in Ids :
              /\ Aborted[q].at \notin {"initialize", "rateLimits", "fetch"}
              /\ Aborted[q].child # "alive"
              /\ q > refreshId => Aborted[q] = NoQuery
              /\ Aborted[q].at = "none" <=> query[q].at = "none"
  BY DEF StatusInv, StatusTypeOK, LaterEmpty, WaitsIsNewest, NotWaitingKilled, Aborted,
         Stopped, Closing, Waits, NoQuery, Places, Children

LEMMA RefreshKeepsInv ==
  ASSUME StatusInv, NEW wanted \in BOOLEAN, Refresh(wanted), UNCHANGED <<extension, live>>,
         live, supported' = wanted
  PROVE  StatusInv'
<1> USE RefreshAssumption
<1> DEFINE new == IF extension = "codex" THEN [at |-> "initialize", child |-> "alive"]
                  ELSE [at |-> "fetch", child |-> "none"]
<1>1. /\ refreshId \in 0 .. MaxRefresh /\ refreshId' = refreshId + 1
      /\ refreshId' \in Ids
  BY DEF Refresh, StatusInv, StatusTypeOK, Ids
<1>2. CASE wanted
  <2>1. /\ query' = [Aborted EXCEPT ![refreshId'] = new]
        /\ controller' = refreshId' /\ status' = status /\ supported'
    BY <1>2 DEF Refresh
  <2>2. new \in [at : Places, child : Children] /\ new.at \in {"initialize", "fetch"}
    BY DEF Places, Children
  <2> HIDE DEF new
  <2>3. /\ query'[refreshId'] = new
        /\ \A q \in Ids : q # refreshId' => query'[q] = Aborted[q]
    BY <1>1, <2>1, AbortStops
  <2>4. StatusTypeOK'
    BY <1>1, <2>1, <2>2, AbortStops DEF StatusInv, StatusTypeOK, Ids
  <2> QED
    BY <1>1, <2>1, <2>2, <2>3, <2>4, AbortStops
       DEF StatusInv, StatusTypeOK, LaterEmpty, WaitsIsNewest, NotWaitingKilled,
           NewestIsWanted, FooterOK, Waits, Ids
<1>3. CASE ~wanted
  <2>1. query' = Aborted /\ controller' = 0 /\ status' = 0
    BY <1>3 DEF Refresh
  <2>2. StatusTypeOK'
    BY <1>1, <2>1, AbortStops DEF StatusInv, StatusTypeOK, Ids
  <2>3. Aborted[refreshId'].at = "none"
    BY <1>1, AbortStops DEF NoQuery, Ids
  <2> QED
    BY <1>1, <2>1, <2>2, <2>3, AbortStops
       DEF StatusInv, StatusTypeOK, LaterEmpty, WaitsIsNewest, NotWaitingKilled,
           NewestIsWanted, FooterOK, Waits, Ids
<1> QED
  BY <1>2, <1>3

(* A step of one query that has begun and does not go back to waiting. *)
LEMMA AnswerKeepsInv ==
  ASSUME StatusInv, NEW q \in Ids, NEW entry \in [at : Places, child : Children],
         Answered(q, entry), query[q] # NoQuery,
         entry.at \in {"initialize", "rateLimits", "fetch"} => Waits(q),
         entry.at \notin {"initialize", "rateLimits", "fetch"} => entry.child # "alive",
         entry.at # "none" => query[q].at # "none",
         entry.at = "ended" => query[q].at = "ended"
  PROVE  StatusInv'
  BY DEF Answered, StatusInv, StatusTypeOK, LaterEmpty, WaitsIsNewest, NotWaitingKilled,
         NewestIsWanted, FooterOK, Waits

LEMMA StatusInvNext == StatusInv /\ [StatusNext]_statusVars => StatusInv'
<1> SUFFICES ASSUME StatusInv, [StatusNext]_statusVars PROVE StatusInv'
  OBVIOUS
<1> USE RefreshAssumption
<1>1. CASE UNCHANGED statusVars
  BY <1>1 DEF statusVars, StatusInv, StatusTypeOK, LaterEmpty, WaitsIsNewest,
              NotWaitingKilled, NewestIsWanted, FooterOK, Waits
<1>2. CASE RefreshUsage \/ RefreshBalance
  BY <1>2, RefreshKeepsInv DEF RefreshUsage, RefreshBalance, StatusInv, StatusTypeOK
<1>3. CASE SelectModel
  BY <1>3, RefreshKeepsInv DEF SelectModel
<1>4. CASE RefuseCommand
  BY <1>4 DEF RefuseCommand, StatusInv, StatusTypeOK, LaterEmpty, WaitsIsNewest,
              NotWaitingKilled, NewestIsWanted, FooterOK, Waits
<1>5. CASE StatusShutdown
  <2>1. /\ refreshId \in 0 .. MaxRefresh /\ refreshId' = refreshId + 1
        /\ refreshId' \in Ids
    BY <1>5 DEF StatusShutdown, StatusInv, StatusTypeOK, Ids
  <2>2. Aborted[refreshId'].at = "none"
    BY <2>1, AbortStops DEF NoQuery, Ids
  <2>3. StatusTypeOK'
    <3>1. /\ query' \in [Ids -> [at : Places, child : Children]]
          /\ controller' \in 0 .. MaxRefresh /\ status' \in 0 .. MaxRefresh
      BY <1>5, AbortStops DEF StatusShutdown
    <3>2. /\ extension' \in {"codex", "openrouter"}
          /\ supported' \in BOOLEAN /\ live' \in BOOLEAN
      BY <1>5 DEF StatusShutdown, StatusInv, StatusTypeOK
    <3> QED
      BY <2>1, <3>1, <3>2 DEF StatusTypeOK, Ids
  <2> QED
    BY <1>5, <2>1, <2>2, <2>3, AbortStops
       DEF StatusShutdown, StatusInv, StatusTypeOK, LaterEmpty, WaitsIsNewest,
           NotWaitingKilled, NewestIsWanted, FooterOK, Waits, Ids
<1>6. ASSUME NEW q \in Ids, StatusNext, query[q] \in [at : Places, child : Children],
             Initialized(q) \/ RateLimitsRead(q) \/ CreditsRead(q)
               \/ QueryTimesOut(q) \/ ChildExits(q) \/ ChildCloses(q)
      PROVE  StatusInv'
  <2>1. CASE Initialized(q)
    <3>1. CASE query[q].child = "alive"
      BY <1>6, <2>1, <3>1, AnswerKeepsInv
         DEF Initialized, Places, Children, Waits, NoQuery
    <3>2. CASE query[q].child # "alive"
      BY <1>6, <2>1, <3>2, AnswerKeepsInv
         DEF Initialized, Stopped, Closing, Places, Children, Waits, NoQuery
    <3> QED
      BY <3>1, <3>2
  <2>2. CASE RateLimitsRead(q) \/ CreditsRead(q)
    BY <1>6, <2>2, AnswerKeepsInv
       DEF RateLimitsRead, CreditsRead, Closing, Places, Children, Waits, NoQuery
  <2>3. CASE QueryTimesOut(q)
    BY <1>6, <2>3, AnswerKeepsInv
       DEF QueryTimesOut, Stopped, Closing, Places, Children, Waits, NoQuery
  <2>4. CASE ChildExits(q)
    BY <1>6, <2>4, AnswerKeepsInv
       DEF ChildExits, Places, Children, Waits, NoQuery
  <2>5. CASE ChildCloses(q)
    BY <1>6, <2>5, AnswerKeepsInv
       DEF ChildCloses, Stopped, Closing, Places, Children, Waits, NoQuery
  <2> QED
    BY <1>6, <2>1, <2>2, <2>3, <2>4, <2>5
<1>7. ASSUME NEW q \in Ids, QueryEnds(q)
      PROVE  StatusInv'
  <2>1. query[q] \in [at : Places, child : Children]
    BY DEF StatusInv, StatusTypeOK
  <2> QED
    BY <1>7, <2>1
       DEF QueryEnds, Shown, StatusInv, StatusTypeOK, LaterEmpty, WaitsIsNewest,
           NotWaitingKilled, NewestIsWanted, FooterOK, Waits, Places, NoQuery, Ids
<1> QED
  <2>1. \A q \in Ids : query[q] \in [at : Places, child : Children]
    BY DEF StatusInv, StatusTypeOK
  <2> QED
    BY <1>1, <1>2, <1>3, <1>4, <1>5, <1>6, <1>7, <2>1 DEF StatusNext

(* However late answers, failures and ends of child processes come: the footer
   follows the newest refresh of a live session, and every other refresh has
   killed its child (codex-usage.ts and openrouter-balance.ts, refresh). *)
THEOREM NewestCounts == StatusSpec => []OnlyTheNewestCounts
<1>1. StatusInv => OnlyTheNewestCounts
  BY DEF StatusInv, StatusTypeOK, WaitsIsNewest, NotWaitingKilled, FooterOK,
         OnlyTheNewestCounts, Ids
<1> QED
  BY <1>1, StatusInvInit, StatusInvNext, PTL DEF StatusSpec

-----------------------------------------------------------------------------
(***************************************************************************)
(* No saved note is lost, for every number of sessions and notes.          *)
(*                                                                         *)
(* While no call has overlapped a review, the session that reviews is      *)
(* alone, so that what it read is still what is on disk; MemInv says    *)
(* for each label of a review which of the two files the notes are in.     *)
(***************************************************************************)

(* A review that no other call overlapped is alone. *)
ReviewsAlone ==
  \A s, t \in Sessions : s # t /\ Reviews(s) => IsIdle(t)

(* What a call has read or written, as the labels say. *)
CallsOK ==
  \A s \in Sessions :
    /\ op[s].at = "reread" => op[s].note \in memory
    /\ op[s].at \in {"model", "backup"} =>
         op[s].raw = memory /\ saved \ pruned \subseteq memory
    /\ op[s].at \in {"write", "writing"} =>
         op[s].raw = bak /\ saved \ pruned \subseteq bak
    /\ op[s].at = "unlink" => saved \ pruned \subseteq memory

MemInv ==
  /\ MemTypeOK
  /\ overlapped \/ again \/ (ReviewsAlone /\ CallsOK /\ Kept)

LEMMA MemInvInit == MemInit => MemInv
<1> SUFFICES ASSUME MemInit PROVE MemInv
  OBVIOUS
<1>1. NoCall \in Calls
  BY DEF NoCall, Calls
<1>2. MemTypeOK
  BY <1>1 DEF MemInit, MemTypeOK
<1> QED
  BY <1>2 DEF MemInit, MemInv, ReviewsAlone, CallsOK, Kept, NoCall, Reviews, IsIdle

(* What a step of session s has to respect, when the others stay where they
   are. *)
LEMMA MemInvNext == MemInv /\ [MemNext]_memVars => MemInv'
<1> SUFFICES ASSUME MemInv, [MemNext]_memVars PROVE MemInv'
  OBVIOUS
<1> USE DEF MemInv, MemTypeOK, Calls, NoCall, Move, Advance, histories, IsIdle
<1>1. CASE UNCHANGED memVars
  BY <1>1 DEF memVars, ReviewsAlone, CallsOK, Kept, Reviews
<1>2. ASSUME NEW s \in Sessions, NEW note \in Notes, Remember(s, note)
      PROVE  MemInv'
  BY <1>2 DEF Remember, NoteOverlap, ReviewsAlone, CallsOK, Kept, Reviews
<1>3. ASSUME NEW s \in Sessions, Append(s)
      PROVE  MemInv'
  BY <1>3 DEF Append, ReviewsAlone, CallsOK, Kept, Reviews
<1>4. ASSUME NEW s \in Sessions, Reread(s)
      PROVE  MemInv'
  BY <1>4 DEF Reread, ReviewsAlone, CallsOK, Kept, Reviews
<1>5. ASSUME NEW s \in Sessions, BeginReview(s)
      PROVE  MemInv'
  BY <1>5 DEF BeginReview, NoteOverlap, ReviewsAlone, CallsOK, Kept, Reviews
<1>6. ASSUME NEW s \in Sessions, Curate(s)
      PROVE  MemInv'
  BY <1>6 DEF Curate, ReviewsAlone, CallsOK, Kept, Reviews
<1>7. ASSUME NEW s \in Sessions, GiveUp(s) \/ RestartSession(s)
      PROVE  MemInv'
  BY <1>7 DEF GiveUp, RestartSession, ReviewsAlone, CallsOK, Kept, Reviews
<1>8. ASSUME NEW s \in Sessions, BackUp(s)
      PROVE  MemInv'
  BY <1>8 DEF BackUp, ReviewsAlone, CallsOK, Kept, Reviews
<1>9. ASSUME NEW s \in Sessions, Truncate(s)
      PROVE  MemInv'
  BY <1>9 DEF Truncate, ReviewsAlone, CallsOK, Kept, Reviews
<1>10. ASSUME NEW s \in Sessions, Rewrite(s)
      PROVE  MemInv'
  BY <1>10 DEF Rewrite, ReviewsAlone, CallsOK, Kept, Reviews
<1>11. ASSUME NEW s \in Sessions, RemoveBackup(s)
      PROVE  MemInv'
  BY <1>11 DEF RemoveBackup, ReviewsAlone, CallsOK, Kept, Reviews
<1> QED
  BY <1>1, <1>2, <1>3, <1>4, <1>5, <1>6, <1>7, <1>8, <1>9, <1>10, <1>11 DEF MemNext

(* However many sessions remember and review, die and fail: a note reported as
   saved stays in memory.md or its copy, with the exceptions that
   SavedNotesSurvive names (repo-memory-local.ts, applyConsolidation). *)
THEOREM NotesSurvive == MemSpec => []SavedNotesSurvive
<1>1. MemInv => SavedNotesSurvive
  BY DEF MemInv, SavedNotesSurvive
<1> QED
  BY <1>1, MemInvInit, MemInvNext, PTL DEF MemSpec
=============================================================================
