---------------------------- MODULE ReviewHistory ----------------------------
(***************************************************************************)
(* The history of one parallel review: the run directory that "init"       *)
(* creates, the execution records its runners advance, and the snapshots   *)
(* of the reviewers' findings that "save" appends, several processes       *)
(* saving, crashing and reading at once.  A save reads the records, then   *)
(* the earlier snapshots, then hashes the logs, and publishes its file     *)
(* with one link: every read is a step of its own.  A snapshot's place in  *)
(* "snapshots" is the order of publication; readers see a set of files.    *)
(*                                                                         *)
(* "overlapped" is a history variable: two saves were once active at the   *)
(* same time, which history-format.md asks callers never to do.            *)
(***************************************************************************)
EXTENDS SequencesExt, ModelEvaluation, LevelSelection

CONSTANTS
  RunId,        \* the id of the run
  OtherDirs,    \* the other run directories: their snapshot files by name
  Savers,       \* processes that run "save"
  Plans,        \* for each execution its backend and model, its timeouts and its chunk
  Sized,        \* the patches a level may have been selected for
  Answers,      \* the answers that the routing model may have given
  Thresholds,   \* the least confidence with which its answer was followed
  Decisions,    \* bound: the level decisions that an "init" is given
  Scales,       \* bound: the scales an "init" is given, with the levels of each
  LegacyRuns,   \* the metadata of directories that older versions created
  Judgements,   \* the findings a reviewer's output may be read as
  Verbose,      \* bound: the executions whose output arrives in two parts
  Actors,       \* bound: who judges, of "agent" and "human"
  ExitCodes,    \* bound: the exit codes of reviewers; 124 is a timeout
  Patches,      \* patches a run may be about
  MaxSaves,     \* bound: snapshots of a run, published or under way
  MaxClock      \* bound: the milliseconds that pass

ASSUME SelectionAssumption ==
  /\ \A p \in Sized : p.bytes \in Nat /\ p.newlines \in Nat
  /\ Thresholds \subseteq Percent
  /\ \A a \in Answers :
       /\ {"model", "suggestedLevel", "suggestedChoice", "confidence"} \subseteq DOMAIN a
       /\ a.suggestedLevel \in Levels /\ a.suggestedChoice \in ChunkChoices
       /\ a.confidence \in Percent
       /\ Has(a, "costUsd") => a.costUsd \in Nat
       /\ Has(a, "probabilities") => ValidProbabilities(a.probabilities)

ASSUME HistoryAssumption ==
  /\ MaxSaves \in Nat /\ MaxClock \in Nat
  /\ ExitCodes \subseteq 0..255 /\ Actors \subseteq {"agent", "human"}
  /\ DOMAIN Scales \subseteq {2, 3, 5}

VARIABLES
  plan,         \* what each execution is to run
  patch,        \* the patch in changes.patch
  meta,         \* metadata.json: None, Part, or its record
  exec,         \* executions/<id>.json: None, Part, or its record
  log,          \* the contents of the logs of an execution, by version
  snapshots,    \* the published snapshot files, in order of publication
  copied,       \* a copy of the directory was made when it had this many snapshots
  save,         \* the state of each saving process
  clock,
  overlapped

vars == <<plan, patch, meta, exec, log, snapshots, copied, save, clock,
          overlapped>>
dirVars == <<plan, patch, meta>>

Statuses == {"pending", "running", "completed"}
Record(status, exit) == [status |-> status, exit |-> exit]
Running == Record("running", None)
Records == {Record(s, None) : s \in {"pending", "running"}}
           \cup {Record("completed", x) : x \in ExitCodes}

Idle == [phase |-> "idle"]
Recorded == {e \in Execs : exec[e] # None}
RecordsReadable == Recorded # {} /\ \A e \in Recorded : exec[e] # Part

Init ==
  /\ plan \in Plans
  /\ patch \in Patches
  /\ meta \in {None} \cup LegacyRuns
  /\ exec = [e \in Execs |-> None]
  /\ log = [e \in Execs |-> 0]
  /\ snapshots = <<>>
  /\ copied = None
  /\ save = [s \in Savers |-> Idle]
  /\ clock = 0
  /\ overlapped = FALSE

-----------------------------------------------------------------------------
(* The level decisions that a selection may have built: those of today, and  *)
(* the automatic ones of older versions, with an answer or without.          *)

Built ==
  {SelectReviewLevel(requested, p) : requested \in Selectable, p \in Sized}
  \cup {WithChunks(LevelOf(p, min, a), ChunksOf(p, min, b)) :
          p \in Sized, min \in Thresholds, a \in Answers, b \in Answers}
  \cup {WithChunks(FallbackDecision(FallbackLevel, reason, p, min, <<>>),
                   ChunkFallback(reason, p, min, <<>>)) :
          reason \in SharedReasons \ {"low_confidence"}, p \in Sized,
          min \in Thresholds}

-----------------------------------------------------------------------------
(* init *)

ValidMetadata(m) ==
  /\ m.level \in Levels
  /\ LevelScale(m) \in {2, 3, 5}
  /\ m.level <= LevelScale(m)
  /\ "levelDecision" \in DOMAIN m =>
       /\ ValidLevelDecision(m.levelDecision)
       /\ m.levelDecision.level = m.level
       /\ LevelScale(m) # 3

NewMetadata(level, scale, decision) ==
  Merge([runId |-> RunId, level |-> level, levelScale |-> scale],
        IF decision = None THEN <<>> ELSE [levelDecision |-> decision])

(* metadata.json is written in place: a reader, or a crash, may find a part *)
(* of it.                                                                   *)
InitRun ==
  /\ meta = None
  /\ \E decision \in Decisions \cup {None}, scale \in DOMAIN Scales :
     \E level \in Scales[scale] :
       /\ decision # None => level = decision.level
       /\ ValidMetadata(NewMetadata(level, scale, decision))
       /\ meta' \in {NewMetadata(level, scale, decision), Part}
  /\ UNCHANGED <<plan, patch, exec, log, snapshots, copied, save, clock,
                 overlapped>>

MetadataReadable == meta \notin {None, Part} /\ ValidMetadata(meta)

-----------------------------------------------------------------------------
(* The runners of the executions, which SKILL.md starts: the record before *)
(* the reviewer, its output while it runs, its exit code by a rename.       *)

(* An id is used once.  The shell creates the record in place, and jq fills *)
(* it: if either dies or fails in between, the file stays as it is, since   *)
(* nobody creates it again.                                                 *)
StartExecution(e) ==
  /\ meta \notin {None, Part}
  /\ exec[e] = None
  /\ exec' = [exec EXCEPT ![e] = Part]
  /\ UNCHANGED <<dirVars, log, snapshots, copied, save, clock, overlapped>>

RecordStarted(e) ==
  /\ exec[e] = Part
  /\ exec' = [exec EXCEPT ![e] = Running]
  /\ UNCHANGED <<dirVars, log, snapshots, copied, save, clock, overlapped>>

WriteLog(e) ==
  /\ e \in Verbose
  /\ exec[e] = Running
  /\ log[e] = 0
  /\ log' = [log EXCEPT ![e] = 1]
  /\ UNCHANGED <<dirVars, exec, snapshots, copied, save, clock, overlapped>>

CompleteExecution(e) ==
  /\ exec[e] = Running
  /\ \E x \in ExitCodes : exec' = [exec EXCEPT ![e] = Record("completed", x)]
  /\ UNCHANGED <<dirVars, log, snapshots, copied, save, clock, overlapped>>

-----------------------------------------------------------------------------
(* The assessment given to a save. *)

ValidFinding(f) ==
  /\ f.decision # "pending" => "reason" \in f.grounds
  /\ f.verification \in {"confirmed", "contradicted"} => "evidence" \in f.grounds
  /\ f.action = "fixed" => "actionEvidence" \in f.grounds

(* findings maps the ids of the findings to them. *)
ValidReview(record, review) ==
  /\ Unsuccessful(record) <=> review.verdict = "unavailable"
  /\ review.verdict = "findings" <=> DOMAIN review.findings # {}
  /\ \A id \in DOMAIN review.findings : ValidFinding(review.findings[id])

Reviews ==
  [verdict : {"unavailable", "unparsed", "no_findings", "findings"},
   findings : {<<>>} \cup {[id \in {"f1"} |-> f] : f \in Judgements}]

(* The assessments of a set of records: exactly one review of each. *)
Assessments(records) ==
  LET valid == [e \in DOMAIN records |->
                  {r \in Reviews : ValidReview(records[e], r)}]
  IN  {a \in [DOMAIN records -> UNION {valid[e] : e \in DOMAIN records}] :
         \A e \in DOMAIN records : a[e] \in valid[e]}

-----------------------------------------------------------------------------
(* save *)

(* What a snapshot must keep of one that was published before it. *)
ExecutionKept(old, new) ==
  IF old.record.status = "completed" THEN new = old
  ELSE /\ ~(old.record.status = "running" /\ new.record.status = "pending")
       /\ new.task = old.task

(* Broken: a finding may be moved to another issue. *)
FindingsStillThere(old, new) ==
  DOMAIN old.findings \subseteq DOMAIN new.findings

FindingsKept(old, new) ==
  \A id \in DOMAIN old.findings :
    id \in DOMAIN new.findings /\ new.findings[id].key = old.findings[id].key

Extends(old, new) ==
  /\ new.meta = old.meta /\ new.patch = old.patch
  /\ \A e \in DOMAIN old.execs :
       /\ e \in DOMAIN new.execs
       /\ ExecutionKept(old.execs[e], new.execs[e])
       /\ FindingsKept(old.reviews[e], new.reviews[e])

(* Broken: the logs of a reviewer that still runs may not change either. *)
CompatibleLogs(priors, snapshot) ==
  \A p \in priors :
    /\ p # Part /\ Extends(p, snapshot)
    /\ \A e \in DOMAIN p.execs : p.execs[e].log = snapshot.execs[e].log

Compatible(priors, snapshot) ==
  \A p \in priors : p # Part /\ Extends(p, snapshot)

Others(s) == {t \in Savers \ {s} : save[t].phase # "idle"}

(* The metadata and the execution records are read, and a torn one ends the *)
(* save.  The assessment, which is validated against them at once, is chosen *)
(* when the snapshot is built.                                              *)
ReadRecords(s) ==
  /\ save[s] = Idle
  /\ Len(snapshots) + Cardinality(Others(s)) < MaxSaves
  /\ MetadataReadable /\ RecordsReadable
  /\ save' = [save EXCEPT ![s] =
       [phase |-> "records", records |-> [e \in Recorded |-> exec[e]]]]
  /\ overlapped' = (overlapped \/ Others(s) # {})
  /\ UNCHANGED <<dirVars, exec, log, snapshots, copied, clock>>

(* An earlier snapshot that does not validate ends the save; no other file  *)
(* of the directory is looked at.                                           *)
ReadPriors(s) ==
  /\ save[s].phase = "records"
  /\ save' = [save EXCEPT ![s] =
       IF Part \in Range(snapshots) THEN Idle
       ELSE [phase |-> "priors", records |-> @.records,
             priors |-> Len(snapshots)]]
  /\ UNCHANGED <<dirVars, exec, log, snapshots, copied, clock, overlapped>>

PatchMatches ==
  "levelDecision" \in DOMAIN meta => meta.levelDecision.patchSha256 = patch.sha

SnapshotOf(records, reviews, actor) ==
  [meta |-> meta, patch |-> patch.sha, savedAt |-> clock, actor |-> actor,
   reviews |-> reviews,
   execs |-> [e \in DOMAIN records |->
                [record |-> records[e], task |-> plan[e], log |-> log[e]]]]

(* The files are hashed, the snapshot is stamped and compared with the      *)
(* earlier ones, and written to a temporary file no reader looks at.        *)
WriteTemp(s) ==
  /\ save[s].phase = "priors"
  /\ \E reviews \in Assessments(save[s].records), actor \in Actors :
       LET priors == Range(SubSeq(snapshots, 1, save[s].priors))
           new == SnapshotOf(save[s].records, reviews, actor)
       IN  save' = [save EXCEPT ![s] =
             IF PatchMatches /\ Compatible(priors, new)
             THEN [phase |-> "temp", snapshot |-> new] ELSE Idle]
  /\ UNCHANGED <<dirVars, exec, log, snapshots, copied, clock, overlapped>>

(* The temporary file is linked to the snapshot's own name, unique to the   *)
(* save, and removed.                                                       *)
Publish(s) ==
  /\ save[s].phase = "temp"
  /\ snapshots' = Append(snapshots, save[s].snapshot)
  /\ save' = [save EXCEPT ![s] = Idle]
  /\ UNCHANGED <<dirVars, exec, log, copied, clock, overlapped>>

(* A save that dies leaves at most its temporary file. *)
CrashSave(s) ==
  /\ save[s].phase # "idle"
  /\ save' = [save EXCEPT ![s] = Idle]
  /\ UNCHANGED <<dirVars, exec, log, snapshots, copied, clock, overlapped>>

-----------------------------------------------------------------------------
(* The surroundings: the directory is copied once, time passes. *)

CopyDirectory ==
  /\ copied = None
  /\ snapshots # <<>>
  /\ copied' = Len(snapshots)
  /\ UNCHANGED <<dirVars, exec, log, snapshots, save, clock, overlapped>>

Tick ==
  /\ clock < MaxClock
  /\ clock' = clock + 1
  /\ UNCHANGED <<dirVars, exec, log, snapshots, copied, save, overlapped>>

Done ==
  /\ \A s \in Savers : save[s] = Idle
  /\ Len(snapshots) = MaxSaves \/ meta = Part
  /\ UNCHANGED vars

Next ==
  \/ InitRun \/ CopyDirectory \/ Tick \/ Done
  \/ \E e \in Execs : StartExecution(e) \/ RecordStarted(e)
                      \/ WriteLog(e) \/ CompleteExecution(e)
  \/ \E s \in Savers : ReadRecords(s) \/ ReadPriors(s) \/ WriteTemp(s)
                       \/ Publish(s) \/ CrashSave(s)

Spec == Init /\ [][Next]_vars
-----------------------------------------------------------------------------
(* What is in the files. *)

Metadata ==
  LegacyRuns \cup {NewMetadata(level, scale, decision) :
    level \in Levels, scale \in {2, 3, 5}, decision \in Decisions \cup {None}}

OfSomeExecs(S) == UNION {[E -> S] : E \in SUBSET Execs}

Tasks == {p[e] : p \in Plans, e \in Execs}

Snapshots ==
  [meta : Metadata, patch : {p.sha : p \in Patches}, savedAt : 0..MaxClock,
   actor : Actors, reviews : OfSomeExecs(Reviews),
   execs : OfSomeExecs([record : Records, task : Tasks, log : 0..1])]

(* The metadata of an older version is valid, and no file passes for absent *)
(* or for a part of one.                                                    *)
ASSUME FilesAssumption ==
  /\ \A m \in LegacyRuns : ValidMetadata(m)
  /\ None \notin Records \cup Built /\ Part \notin Records \cup Snapshots

(* What the evaluation takes from a snapshot that validates. *)
IsCounted(s) ==
  /\ DOMAIN s.execs = DOMAIN s.reviews /\ IsFiniteSet(DOMAIN s.execs)
  /\ \A e \in DOMAIN s.execs :
       /\ ValidReview(s.execs[e].record, s.reviews[e])
       /\ IsFiniteSet(DOMAIN s.reviews[e].findings)

ASSUME DirsAssumption ==
  /\ IsFiniteSet(Execs) /\ IsFiniteSet(DOMAIN OtherDirs)
  /\ \A d \in DOMAIN OtherDirs : \A s \in OtherDirs[d] \ {Part} : IsCounted(s)

-----------------------------------------------------------------------------
(* What the readers of the directory see. *)

RunDirs ==
  Merge(OtherDirs,
        Merge([run |-> Range(snapshots)],
              IF copied = None THEN <<>>
              ELSE [copy |-> Range(SubSeq(snapshots, 1, copied))]))

(* "decisions": the level decisions of the runs, one for each run id.       *)
ListedDecisions ==
  IF MetadataReadable /\ "levelDecision" \in DOMAIN meta
  THEN {[runId |-> meta.runId, levelDecision |-> meta.levelDecision]}
  ELSE {}

-----------------------------------------------------------------------------
(* Properties. *)

IsSnapshot(s) ==
  /\ ValidMetadata(s.meta) /\ s.savedAt \in 0..MaxClock
  /\ DOMAIN s.execs = DOMAIN s.reviews /\ DOMAIN s.execs # {}
  /\ \A e \in DOMAIN s.execs :
       /\ s.execs[e].record \in Records
       /\ ValidReview(s.execs[e].record, s.reviews[e])

(* Part of HistoryIsCoherent: the state stays well-formed, and whatever a     *)
(* reader finds under a snapshot's name passes validateSnapshot.             *)
HistoryTypeOK ==
  /\ meta \notin {None, Part} => ValidMetadata(meta)
  /\ exec \in [Execs -> {None, Part} \cup Records]
  /\ log \in [Execs -> 0..1]
  /\ \A i \in DOMAIN snapshots : snapshots[i] # Part /\ IsSnapshot(snapshots[i])
  /\ copied = None \/ copied \in 1..Len(snapshots)
  /\ \A s \in Savers : save[s].phase \in {"idle", "records", "priors", "temp"}

(* Part of HistoryIsCoherent: the history only grows.  A snapshot keeps      *)
(* every completed execution of an earlier one with its logs, never turns a  *)
(* running execution back into a pending one, and keeps every finding under  *)
(* its issue.                                                                *)
HistoryGrows ==
  \A j \in DOMAIN snapshots : \A i \in 1..(j - 1) :
    LET old == snapshots[i]  new == snapshots[j] IN
    \A e \in DOMAIN old.execs :
      /\ e \in DOMAIN new.execs
      /\ old.execs[e].record.status = "completed" => new.execs[e] = old.execs[e]
      /\ old.execs[e].record.status = "running" =>
           new.execs[e].record.status # "pending"
      /\ \A id \in DOMAIN old.reviews[e].findings :
           /\ id \in DOMAIN new.reviews[e].findings
           /\ new.reviews[e].findings[id].key = old.reviews[e].findings[id].key

(* However often savers crash, nothing unreadable is published; and when     *)
(* saves run one after another, as history-format.md asks, no later snapshot *)
(* loses or reopens what an earlier one holds.                               *)
HistoryIsCoherent == HistoryTypeOK /\ (overlapped \/ HistoryGrows)

(* The rules that keep the history coherent never lock it: whatever the      *)
(* reviewers and savers did meanwhile, there is an assessment of the records *)
(* as they are now that a save would accept.  What does end every later save *)
(* is excepted: a changed patch, and metadata or an execution record of which *)
(* a crash left only a part, since both are written in place.                *)
SavableUnlessTorn ==
  ~overlapped /\ MetadataReadable /\ RecordsReadable /\ PatchMatches =>
    LET records == [e \in Recorded |-> exec[e]] IN
    \E reviews \in Assessments(records) :
      Compatible(Range(snapshots), SnapshotOf(records, reviews, CHOOSE actor \in Actors : TRUE))

(* The evaluation reads the judgement that was published last: it passes a   *)
(* directory over only when two snapshots carry the same millisecond, and    *)
(* never falls back to one that a later save has corrected.                  *)
LatestIsUsed ==
  ~overlapped /\ snapshots # <<>> =>
    \/ SelectedOf(Range(snapshots)) = Last(snapshots)
    \/ /\ SelectedOf(Range(snapshots)) = None
       /\ \E i \in 1..(Len(snapshots) - 1) :
            snapshots[i].savedAt = Last(snapshots).savedAt

Executions(dirs) == UNION {{<<s, e>> : e \in DOMAIN s.execs} : s \in Selected(dirs)}
FindingsOf(x) == DOMAIN x[1].reviews[x[2]].findings
Findings(dirs) == UNION {{<<x, id>> : id \in FindingsOf(x)} : x \in Executions(dirs)}

(* Part of ReportIsSound: a run is counted once however often its directory  *)
(* was copied, and so is every execution and finding of it.                  *)
CountedOnce(dirs, rows) ==
  /\ \A s, t \in Selected(dirs) : s.meta.runId = t.meta.runId => s = t
  /\ SumFunction([row \in rows |-> row.executions.total])
       = Cardinality(Executions(dirs))
  /\ SumFunction([row \in rows |-> row.issues.rawFindings])
       = Cardinality(Findings(dirs))

(* Part of ReportIsSound: a reviewer counts as one without findings only     *)
(* when it succeeded.                                                        *)
OnlySuccessSpeaks(rows) ==
  \A row \in rows :
    LET x == row.executions IN x.no_findings + x.unparsed <= x.successful

(* Part of ReportIsSound: an issue is accepted only when every finding of it *)
(* was, and no model is compared with itself.                                *)
ComparedFairly(s) ==
  \A m \in ModelsOf(s) :
    /\ \A i \in Issues(s, m) : i.decision = "accepted" =>
         \A r \in FindingRefs(s, m) : Finding(s, r).key = i.key =>
           Finding(s, r).decision = "accepted"
    /\ ComparableForQuality(s, m) =>
         \E other \in ModelsOf(s) \ {m} : ComparableForQuality(s, other)

(* The report counts every run, execution and finding once, a reviewer as    *)
(* one without findings only when it succeeded, an issue as accepted only    *)
(* when every finding of it was, and never compares a model with itself.     *)
ReportIsSound ==
  LET dirs == RunDirs
      rows == ModelSummaries(dirs)
  IN  /\ CountedOnce(dirs, rows) /\ OnlySuccessSpeaks(rows)
      /\ \A s \in Selected(dirs) : ComparedFairly(s)

(* Part of DecisionsHold: a level decision that "decisions" lists is the one *)
(* the run followed, which has its level, and every snapshot is about the    *)
(* patch it judged.                                                          *)
DecisionsAreHonoured ==
  \A entry \in ListedDecisions :
    /\ meta.level = entry.levelDecision.level
    /\ \A i \in DOMAIN snapshots :
         snapshots[i].patch = entry.levelDecision.patchSha256

(* Part of DecisionsHold: whatever level decision a selection built, for a   *)
(* patch of any size and an answer of any confidence, "init" stores it in a  *)
(* run of some scale: no builder emits a record its readers refuse.          *)
BuiltDecisionsAreStored ==
  meta = None => \A d \in Built : \E scale \in {2, 5} :
    ValidMetadata(NewMetadata(d.level, scale, d))

(* A level decision can be stored however it came about, and what is listed  *)
(* later is what was followed, for the patch it was made for.                *)
DecisionsHold == DecisionsAreHonoured /\ BuiltDecisionsAreStored
=============================================================================
