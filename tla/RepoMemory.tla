----------------------------- MODULE RepoMemory -----------------------------
(***************************************************************************)
(* The Pi extension that keeps notes about a repository                    *)
(* (pi/agent/extensions/repo-memory-local.ts).                             *)
(*                                                                         *)
(* All sessions in the repository share memory.md and memory.md.bak.       *)
(* remember appends to the file; a review reads it, awaits a language      *)
(* model and, for the command, the user, copies what it read to .bak,      *)
(* rewrites the file in place and removes the copy.  A session may die, or *)
(* a write fail, at any point.  A file is the set of its notes; a missing  *)
(* file is an empty one.  The index, which only words what a session knows *)
(* of the file, is left out.                                               *)
(***************************************************************************)
CONSTANTS
  Sessions,  \* sessions in one repository, or tool calls under way in one
  Notes      \* what may be remembered

VARIABLES
  memory,    \* memory.md
  bak,       \* memory.md.bak
  op,        \* per session, the call under way
  saved,     \* history: notes reported as "Saved to repo memory"
  pruned,    \* history: notes that a completed review left out
  overlapped,\* history: a review overlapped another call
  again      \* history: a review began while notes were only in .bak

memVars == <<memory, bak, op, saved, pruned, overlapped, again>>
histories == <<saved, pruned, overlapped, again>>

NoCall == [at |-> "idle"]
Calls ==
  [at : {"idle"}] \cup [at : {"append", "reread"}, note : Notes]
  \cup [at : {"model"}, raw : SUBSET Notes]
  \cup [at : {"backup", "write", "writing", "unlink"},
        raw : SUBSET Notes, curated : SUBSET Notes]

MemTypeOK ==
  /\ memory \in SUBSET Notes /\ bak \in SUBSET Notes
  /\ op \in [Sessions -> Calls]
  /\ saved \subseteq Notes /\ pruned \subseteq Notes
  /\ overlapped \in BOOLEAN /\ again \in BOOLEAN

MemInit ==
  /\ memory = {} /\ bak = {}
  /\ op = [s \in Sessions |-> NoCall]
  /\ saved = {} /\ pruned = {} /\ overlapped = FALSE /\ again = FALSE

IsIdle(s) == op[s] = NoCall
Reviews(s) == op[s].at \in {"model", "backup", "write", "writing", "unlink"}
Move(s, call) == op' = [op EXCEPT ![s] = call]
NoteOverlap(isReview, s) ==
  overlapped' = (overlapped \/ \E t \in Sessions \ {s} :
                                 Reviews(t) \/ (isReview /\ ~IsIdle(t)))

(* remember: a note that the file already has is not written again. *)
Remember(s, note) ==
  /\ IsIdle(s)
  /\ note \notin memory
  /\ Move(s, [at |-> "append", note |-> note])
  /\ NoteOverlap(FALSE, s)
  /\ UNCHANGED <<memory, bak, saved, pruned, again>>

Append(s) ==
  /\ op[s].at = "append"
  /\ \/ /\ memory' = memory \cup {op[s].note}
        /\ Move(s, [at |-> "reread", note |-> op[s].note])
     \/ UNCHANGED memory /\ Move(s, NoCall)
  /\ UNCHANGED <<bak, histories>>

(* ... and then the file is read once more, for the index. *)
Reread(s) ==
  /\ op[s].at = "reread"
  /\ saved' = saved \cup {op[s].note} /\ pruned' = pruned \ {op[s].note}
  /\ Move(s, NoCall)
  /\ UNCHANGED <<memory, bak, overlapped, again>>

(* consolidateMemoryText up to the language model. *)
BeginReview(s) ==
  /\ IsIdle(s) /\ memory # {}
  /\ Move(s, [at |-> "model", raw |-> memory])
  /\ NoteOverlap(TRUE, s)
  /\ again' = (again \/ ~(saved \ pruned \subseteq memory))
  /\ UNCHANGED <<memory, bak, saved, pruned>>

(* The model merges and drops notes as it likes. *)
Curate(s) ==
  /\ op[s].at = "model"
  /\ \E curated \in SUBSET op[s].raw \ {{}} :
       Move(s, [at |-> "backup", raw |-> op[s].raw, curated |-> curated])
  /\ UNCHANGED <<memory, bak, histories>>

(* No model, no key, no output, an exception, or the user declines. *)
GiveUp(s) ==
  /\ op[s].at \in {"model", "backup"}
  /\ Move(s, NoCall)
  /\ UNCHANGED <<memory, bak, histories>>

Advance(s, at) ==
  Move(s, [at |-> at, raw |-> op[s].raw, curated |-> op[s].curated])

(* Broken: what is copied is the new text. *)
BackUpCurated(s) ==
  /\ op[s].at = "backup"
  /\ bak' = op[s].curated /\ Advance(s, "write")
  /\ UNCHANGED <<memory, histories>>

(* applyConsolidation: writeFile of .bak, which may fail half-way. *)
BackUp(s) ==
  /\ op[s].at = "backup"
  /\ \/ bak' = op[s].raw /\ Advance(s, "write")
     \/ bak' \in SUBSET op[s].raw /\ Move(s, NoCall)
  /\ UNCHANGED <<memory, histories>>

(* writeFile of memory.md truncates it first ... *)
Truncate(s) ==
  /\ op[s].at = "write"
  /\ memory' = {} /\ Advance(s, "writing")
  /\ UNCHANGED <<bak, histories>>

(* ... then writes the new text, or part of it; .bak is kept in that case. *)
Rewrite(s) ==
  /\ op[s].at = "writing"
  /\ \/ /\ memory' = op[s].curated /\ Advance(s, "unlink")
        /\ pruned' = pruned \cup (op[s].raw \ op[s].curated)
     \/ memory' \in SUBSET op[s].curated /\ Move(s, NoCall) /\ UNCHANGED pruned
  /\ UNCHANGED <<bak, saved, overlapped, again>>

(* .bak is removed or, at worst, stays. *)
RemoveBackup(s) ==
  /\ op[s].at = "unlink"
  /\ bak' \in {{}, bak}
  /\ Move(s, NoCall)
  /\ UNCHANGED <<memory, histories>>

(* A session dies in the middle of a write or a wait; another takes its place. *)
RestartSession(s) ==
  /\ ~IsIdle(s)
  /\ Move(s, NoCall)
  /\ UNCHANGED <<memory, bak, histories>>

MemNext ==
  \E s \in Sessions :
    \/ \E note \in Notes : Remember(s, note)
    \/ Append(s) \/ Reread(s)
    \/ BeginReview(s) \/ Curate(s) \/ GiveUp(s)
    \/ BackUp(s) \/ Truncate(s) \/ Rewrite(s) \/ RemoveBackup(s)
    \/ RestartSession(s)

MemSpec == MemInit /\ [][MemNext]_memVars

-----------------------------------------------------------------------------

Kept == saved \ pruned \subseteq memory \cup bak

(* Through failed writes and deaths of sessions, every note reported as saved
   stays in memory.md or in .bak, unless a completed review dropped it; calls
   that overlap a review, and a second review on top of a failed one, are
   excepted (remember, applyConsolidation). *)
SavedNotesSurvive == overlapped \/ again \/ Kept

(* The copy is kept if saving fails: the notes of a failed review can be taken
   back from .bak (the promptGuidelines of review_memory). *)
FailedReviewKeepsNotes == overlapped \/ Kept
=============================================================================
