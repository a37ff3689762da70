------------------------- MODULE ReviewHistoryProofs -------------------------
(***************************************************************************)
(* The history of a review is readable and coherent, and what is evaluated *)
(* of it and of other runs is counted once, for any number of executions,  *)
(* savers and snapshots.                                                   *)
(*                                                                         *)
(* Three things carry the argument: what a save read stays true of the     *)
(* records until it publishes, because records and logs of a completed     *)
(* execution are final (Faithful); a save that no other overlapped         *)
(* compares itself with all there is (Fresh); and so each snapshot extends *)
(* all those before it (Chain).                                            *)
(***************************************************************************)
EXTENDS ReviewHistory, FiniteSums

FilesOK ==
  /\ plan \in Plans /\ patch \in Patches
  /\ meta \in {None, Part} \cup Metadata
  /\ snapshots \in Seq(Snapshots)
  /\ clock \in 0..MaxClock
  /\ save = [s \in Savers |-> save[s]]
  /\ overlapped \in BOOLEAN

(* Nobody writes a record back to pending. *)
NeverPending == \A e \in Execs : exec[e] \in Records => exec[e].status # "pending"

(* What was read of execution e holds of it still. *)
StillHolds(e, record) ==
  /\ e \in Recorded /\ record \in Records /\ record.status # "pending"
  /\ record.status = "completed" => exec[e] = record

Faithful(x) ==
  /\ MetadataReadable /\ x.meta = meta
  /\ PatchMatches /\ x.patch = patch.sha
  /\ x.savedAt <= clock
  /\ \A e \in DOMAIN x.execs :
       /\ StillHolds(e, x.execs[e].record)
       /\ x.execs[e].task = plan[e]
       /\ x.execs[e].record.status = "completed" => x.execs[e].log = log[e]

(* What the process of a save holds in each phase. *)
SaveOK(v) ==
  /\ v.phase = "idle" => v = Idle
  /\ v.phase # "idle" => MetadataReadable
  /\ v.phase \in {"records", "priors"} =>
       /\ DOMAIN v.records # {}
       /\ \A e \in DOMAIN v.records : StillHolds(e, v.records[e])
  /\ v.phase = "priors" => v.priors \in 0..Len(snapshots)
  /\ v.phase = "temp" =>
       v.snapshot \in Snapshots /\ IsSnapshot(v.snapshot) /\ Faithful(v.snapshot)

Follows(old, new) == Extends(old, new) /\ old.savedAt <= new.savedAt

Chain ==
  \A j \in DOMAIN snapshots : \A i \in 1..(j - 1) :
    Follows(snapshots[i], snapshots[j])

OneSaver == \A s, t \in Savers : s # t => save[s] = Idle \/ save[t] = Idle

Fresh ==
  \A s \in Savers :
    /\ save[s].phase = "priors" => save[s].priors = Len(snapshots)
    /\ save[s].phase = "temp" =>
         \A i \in DOMAIN snapshots : Follows(snapshots[i], save[s].snapshot)

Inv ==
  /\ HistoryTypeOK /\ FilesOK /\ NeverPending
  /\ \A i \in DOMAIN snapshots : Faithful(snapshots[i])
  /\ \A s \in Savers : SaveOK(save[s])
  /\ overlapped \/ (Chain /\ OneSaver /\ Fresh)

LEMMA InvInit == Init => Inv
<1> SUFFICES ASSUME Init PROVE Inv
  OBVIOUS
<1>1. HistoryTypeOK
  <2>1. meta \notin {None, Part} => ValidMetadata(meta)
    BY FilesAssumption DEF Init
  <2>2. exec \in [Execs -> {None, Part} \cup Records] /\ log \in [Execs -> 0..1]
    BY DEF Init
  <2>3. \A i \in DOMAIN snapshots : snapshots[i] # Part /\ IsSnapshot(snapshots[i])
    BY DEF Init
  <2>4. copied = None /\ \A s \in Savers : save[s].phase = "idle"
    BY DEF Init, Idle
  <2> QED
    BY <2>1, <2>2, <2>3, <2>4 DEF HistoryTypeOK
<1>2. FilesOK
  <2>1. plan \in Plans /\ patch \in Patches /\ meta \in {None, Part} \cup Metadata
    BY DEF Init, Metadata
  <2>2. snapshots \in Seq(Snapshots) /\ clock \in 0..MaxClock
    BY HistoryAssumption DEF Init
  <2>3. save = [s \in Savers |-> save[s]] /\ overlapped \in BOOLEAN
    BY DEF Init
  <2> QED
    BY <2>1, <2>2, <2>3 DEF FilesOK
<1>3. NeverPending
  BY FilesAssumption DEF Init, NeverPending
<1>4. \A s \in Savers : save[s] = Idle /\ SaveOK(save[s])
  BY DEF Init, SaveOK, Idle
<1>5. snapshots = <<>> /\ Chain /\ OneSaver /\ Fresh
  BY <1>4 DEF Init, Chain, OneSaver, Fresh, Idle
<1> QED
  BY <1>1, <1>2, <1>3, <1>4, <1>5 DEF Inv

-----------------------------------------------------------------------------
(* What every step leaves true of the directory. *)

(* What was written is not taken back. *)
Kept ==
  /\ UNCHANGED <<plan, patch>>
  /\ MetadataReadable => UNCHANGED meta
  /\ clock <= clock'
  /\ \A e \in Recorded : e \in Recorded'
  /\ \A e \in Recorded : exec[e] \in Records /\ exec[e].status = "completed" =>
       exec'[e] = exec[e] /\ log'[e] = log[e]

LEMMA StepKeeps == Inv /\ [Next]_vars => Kept
<1> SUFFICES ASSUME Inv, [Next]_vars PROVE Kept
  OBVIOUS
<1> USE DEF Inv, FilesOK, HistoryTypeOK, Kept, Recorded, dirVars
<1>0. clock \in Int
  BY HistoryAssumption
<1>1. CASE UNCHANGED vars
  BY <1>0, <1>1 DEF vars
<1>2. CASE InitRun
  BY <1>0, <1>2 DEF InitRun, MetadataReadable
<1>3. CASE CopyDirectory \/ Tick \/ Done
  BY <1>0, <1>3 DEF CopyDirectory, Tick, Done, vars
<1>4. ASSUME NEW e \in Execs, StartExecution(e) \/ RecordStarted(e) PROVE Kept
  BY <1>0, <1>4, FilesAssumption DEF StartExecution, RecordStarted, Running, Records
<1>5. ASSUME NEW e \in Execs, WriteLog(e) PROVE Kept
  BY <1>0, <1>5 DEF WriteLog, Running, Record
<1>6. ASSUME NEW e \in Execs, CompleteExecution(e) PROVE Kept
  BY <1>0, <1>6, FilesAssumption DEF CompleteExecution, Running, Record, Records
<1>7. ASSUME NEW s \in Savers,
             ReadRecords(s) \/ ReadPriors(s) \/ WriteTemp(s) \/ Publish(s)
               \/ CrashSave(s)
      PROVE  Kept
  BY <1>0, <1>7 DEF ReadRecords, ReadPriors, WriteTemp, Publish, CrashSave
<1> QED
  BY <1>1, <1>2, <1>3, <1>4, <1>5, <1>6, <1>7 DEF Next

LEMMA ReadableStays == Kept /\ MetadataReadable => MetadataReadable'
  BY DEF Kept, MetadataReadable

LEMMA FaithfulStays ==
  ASSUME Kept, clock \in Int, clock' \in Int
  PROVE  \A x : Faithful(x) /\ x.savedAt \in Int => Faithful(x)'
<1> SUFFICES ASSUME NEW x, Faithful(x), x.savedAt \in Int PROVE Faithful(x)'
  OBVIOUS
<1>1. MetadataReadable' /\ x.meta = meta' /\ PatchMatches' /\ x.patch = patch'.sha
  BY ReadableStays DEF Faithful, Kept, PatchMatches
<1>2. x.savedAt <= clock'
  BY DEF Faithful, Kept
<1> QED
  BY <1>1, <1>2 DEF Faithful, Kept, StillHolds

(* A save that does not move keeps what it holds, as long as no snapshot
   disappears. *)
LEMMA SaveStays ==
  ASSUME Kept, Inv, FilesOK', Len(snapshots) <= Len(snapshots')
  PROVE  \A s \in Savers : SaveOK(save[s]) /\ save'[s] = save[s] => SaveOK(save[s])'
<1> SUFFICES ASSUME NEW s \in Savers, SaveOK(save[s]), save'[s] = save[s]
             PROVE  SaveOK(save[s])'
  OBVIOUS
<1> DEFINE v == save[s]
<1>1. clock \in Int /\ clock' \in Int /\ Len(snapshots) \in Nat /\ Len(snapshots') \in Int
  BY HistoryAssumption DEF Inv, FilesOK
<1>2. v.phase \in {"records", "priors"} =>
        \A e \in DOMAIN v.records : StillHolds(e, v.records[e])'
  BY DEF SaveOK, StillHolds, Kept
<1>3. v.phase = "temp" => Faithful(v.snapshot)'
  <2> SUFFICES ASSUME v.phase = "temp" PROVE Faithful(v.snapshot)'
    OBVIOUS
  <2>1. Faithful(v.snapshot) /\ v.snapshot.savedAt \in Int
    BY HistoryAssumption DEF SaveOK, IsSnapshot
  <2> QED
    BY <1>1, <2>1, FaithfulStays
<1> QED
  BY <1>1, <1>2, <1>3, ReadableStays DEF SaveOK

(* Steps that neither publish nor move a save. *)
LEMMA QuietStep ==
  ASSUME Inv, [Next]_vars, UNCHANGED <<snapshots, save, overlapped>>,
         HistoryTypeOK', FilesOK', NeverPending'
  PROVE  Inv'
<1>1. Kept
  BY StepKeeps
<1>2. (\A i \in DOMAIN snapshots : Faithful(snapshots[i]))'
  <2> SUFFICES ASSUME NEW i \in DOMAIN snapshots, snapshots'[i] = snapshots[i]
               PROVE  Faithful(snapshots[i])'
    OBVIOUS
  <2>1. Faithful(snapshots[i]) /\ IsSnapshot(snapshots[i])
    BY DEF Inv, HistoryTypeOK
  <2>2. clock \in Int /\ clock' \in Int /\ snapshots[i].savedAt \in Int
    BY <2>1, HistoryAssumption DEF IsSnapshot, Inv, FilesOK
  <2> QED
    BY <1>1, <2>1, <2>2, FaithfulStays
<1>3. (\A s \in Savers : SaveOK(save[s]))'
  <2>1. Len(snapshots) <= Len(snapshots')
    BY DEF Inv, FilesOK
  <2> QED
    BY <1>1, <2>1, SaveStays DEF Inv
<1>4. (overlapped \/ (Chain /\ OneSaver /\ Fresh))'
  BY DEF Inv, Chain, OneSaver, Fresh
<1> QED
  BY <1>2, <1>3, <1>4 DEF Inv

(* A step of the save s, which holds w afterwards. *)
LEMMA SaveStep ==
  ASSUME Inv, NEW s \in Savers, NEW w, [Next]_vars,
         save' = [save EXCEPT ![s] = w],
         UNCHANGED <<dirVars, exec, log, snapshots, copied, clock>>,
         overlapped' \in BOOLEAN, overlapped => overlapped',
         SaveOK(w), w.phase \in {"idle", "records", "priors", "temp"},
         \/ overlapped'
         \/ /\ w = Idle \/ \A t \in Savers \ {s} : save[t] = Idle
            /\ w.phase = "priors" => w.priors = Len(snapshots)
            /\ w.phase = "temp" =>
                 \A i \in DOMAIN snapshots : Follows(snapshots[i], w.snapshot)
  PROVE  Inv'
<1> USE DEF dirVars
<1>1. HistoryTypeOK' /\ FilesOK' /\ NeverPending'
  <2>1. HistoryTypeOK'
    BY DEF Inv, HistoryTypeOK, FilesOK
  <2>2. save' = [t \in Savers |-> save'[t]]
    BY DEF Inv, FilesOK
  <2>3. FilesOK' /\ NeverPending'
    BY <2>2 DEF Inv, FilesOK, NeverPending, Recorded
  <2> QED
    BY <2>1, <2>3
<1>2. \A x : Faithful(x)' <=> Faithful(x)
  BY DEF Faithful, StillHolds, MetadataReadable, PatchMatches, Recorded
<1>3. \A v : SaveOK(v)' <=> SaveOK(v)
  BY <1>2 DEF SaveOK, StillHolds, MetadataReadable, Recorded
<1>4. \A t \in Savers : save'[t] = IF t = s THEN w ELSE save[t]
  BY DEF Inv, FilesOK
<1>5. (\A t \in Savers : SaveOK(save[t]))'
  BY <1>3, <1>4 DEF Inv
<1>6. (\A i \in DOMAIN snapshots : Faithful(snapshots[i]))'
  BY <1>2 DEF Inv
<1>7. (overlapped \/ (Chain /\ OneSaver /\ Fresh))'
  BY <1>4 DEF Inv, Chain, OneSaver, Fresh, Idle
<1> QED
  BY <1>1, <1>5, <1>6, <1>7 DEF Inv

-----------------------------------------------------------------------------
(* The snapshot that a save builds. *)

LEMMA AssessmentOf ==
  ASSUME NEW records, NEW reviews \in Assessments(records), NEW e \in DOMAIN records
  PROVE  /\ DOMAIN reviews = DOMAIN records
         /\ reviews[e] \in Reviews /\ ValidReview(records[e], reviews[e])
  BY DEF Assessments

LEMMA BuiltSnapshot ==
  ASSUME Inv, NEW records, DOMAIN records # {},
         \A e \in DOMAIN records : StillHolds(e, records[e]),
         NEW reviews \in Assessments(records), NEW actor \in Actors,
         MetadataReadable, PatchMatches
  PROVE  LET x == SnapshotOf(records, reviews, actor) IN
         x \in Snapshots /\ IsSnapshot(x) /\ Faithful(x)
<1> DEFINE x == SnapshotOf(records, reviews, actor)
<1>1. /\ x.meta = meta /\ x.patch = patch.sha /\ x.savedAt = clock
      /\ x.actor = actor /\ x.reviews = reviews
      /\ DOMAIN x.execs = DOMAIN records
      /\ x.execs = [e \in DOMAIN records |->
                      [record |-> records[e], task |-> plan[e], log |-> log[e]]]
  BY DEF SnapshotOf
<1>2. \A e \in DOMAIN records :
        /\ e \in Execs /\ records[e] \in Records
        /\ x.execs[e].record = records[e] /\ x.execs[e].task = plan[e]
        /\ x.execs[e].log = log[e]
        /\ x.execs[e] \in [record : Records, task : Tasks, log : 0..1]
  <2>1. \A e \in DOMAIN records : e \in Execs /\ records[e] \in Records
    BY DEF StillHolds, Recorded
  <2>2. \A e \in Execs : log[e] \in 0..1 /\ plan[e] \in Tasks
    BY DEF Inv, HistoryTypeOK, FilesOK, Tasks
  <2> QED
    BY <1>1, <2>1, <2>2
<1>3. DOMAIN reviews = DOMAIN records /\ reviews \in [DOMAIN records -> Reviews]
  BY AssessmentOf DEF Assessments
<1>4. x \in Snapshots
  <2>1. DOMAIN records \in SUBSET Execs
    BY <1>2
  <2>2. x.reviews \in OfSomeExecs(Reviews)
    BY <1>1, <1>3, <2>1 DEF OfSomeExecs
  <2>3. x.execs \in OfSomeExecs([record : Records, task : Tasks, log : 0..1])
    <3>1. x.execs \in [DOMAIN records -> [record : Records, task : Tasks, log : 0..1]]
      BY <1>1, <1>2
    <3> QED
      BY <2>1, <3>1 DEF OfSomeExecs
  <2>4. meta \in Metadata /\ clock \in 0..MaxClock /\ patch.sha \in {p.sha : p \in Patches}
    BY DEF Inv, FilesOK, MetadataReadable
  <2>5. x = [meta |-> x.meta, patch |-> x.patch, savedAt |-> x.savedAt,
             actor |-> x.actor, reviews |-> x.reviews, execs |-> x.execs]
    BY DEF SnapshotOf
  <2> HIDE DEF x
  <2> QED
    BY <1>1, <2>2, <2>3, <2>4, <2>5 DEF Snapshots
<1>5. IsSnapshot(x)
  <2>1. ValidMetadata(x.meta) /\ x.savedAt \in 0..MaxClock
    BY <1>1 DEF MetadataReadable, Inv, FilesOK
  <2>2. DOMAIN x.execs = DOMAIN x.reviews /\ DOMAIN x.execs # {}
    BY <1>1, <1>3
  <2>3. \A e \in DOMAIN x.execs :
          /\ x.execs[e].record \in Records
          /\ ValidReview(x.execs[e].record, x.reviews[e])
    BY <1>1, <1>2, AssessmentOf
  <2> HIDE DEF x
  <2> QED
    BY <2>1, <2>2, <2>3 DEF IsSnapshot
<1>6. Faithful(x)
  <2>1. \A e \in DOMAIN x.execs :
          /\ StillHolds(e, x.execs[e].record)
          /\ x.execs[e].task = plan[e] /\ x.execs[e].log = log[e]
    BY <1>1, <1>2
  <2>2. x.savedAt <= clock
    BY <1>1, HistoryAssumption DEF Inv, FilesOK
  <2> HIDE DEF x
  <2> QED
    BY <1>1, <2>1, <2>2 DEF Faithful
<1> QED
  BY <1>4, <1>5, <1>6

(* Publishing keeps the snapshots there were, and appends one. *)
LEMMA Published ==
  ASSUME NEW S, NEW q \in Seq(S), NEW x \in S
  PROVE  /\ Append(q, x) \in Seq(S)
         /\ Len(Append(q, x)) = Len(q) + 1
         /\ DOMAIN q = 1..Len(q) /\ DOMAIN Append(q, x) = 1..(Len(q) + 1)
         /\ \A i \in 1..Len(q) : Append(q, x)[i] = q[i]
         /\ Append(q, x)[Len(q) + 1] = x
  OBVIOUS

LEMMA PublishStep ==
  ASSUME Inv, [Next]_vars, NEW s \in Savers, Publish(s)
  PROVE  Inv'
<1> DEFINE x == save[s].snapshot  n == Len(snapshots)
<1>1. x \in Snapshots /\ IsSnapshot(x) /\ Faithful(x) /\ x # Part
  BY FilesAssumption DEF Publish, Inv, SaveOK
<1>2. /\ snapshots' = Append(snapshots, x) /\ snapshots' \in Seq(Snapshots)
      /\ n \in Nat /\ Len(snapshots') = n + 1
      /\ DOMAIN snapshots = 1..n /\ DOMAIN snapshots' = 1..(n + 1)
      /\ \A i \in 1..n : snapshots'[i] = snapshots[i]
      /\ snapshots'[n + 1] = x
  <2>1. snapshots \in Seq(Snapshots)
    BY DEF Inv, FilesOK
  <2> QED
    BY <1>1, <2>1, Published DEF Publish
<1>3. /\ save' = [save EXCEPT ![s] = Idle]
      /\ UNCHANGED <<plan, patch, meta, exec, log, copied, clock, overlapped>>
  BY DEF Publish, dirVars
<1>4. \A t \in Savers : save'[t] = IF t = s THEN Idle ELSE save[t]
  BY <1>3 DEF Inv, FilesOK
<1> HIDE DEF x, n
<1>5. HistoryTypeOK' /\ FilesOK' /\ NeverPending'
  <2>1. \A i \in DOMAIN snapshots' : snapshots'[i] # Part /\ IsSnapshot(snapshots'[i])
    BY <1>1, <1>2 DEF Inv, HistoryTypeOK
  <2>2. copied' = None \/ copied' \in 1..Len(snapshots')
    BY <1>2, <1>3 DEF Inv, HistoryTypeOK, n
  <2>3. \A t \in Savers : save'[t].phase \in {"idle", "records", "priors", "temp"}
    BY <1>4 DEF Inv, HistoryTypeOK, Idle
  <2>4. HistoryTypeOK'
    BY <1>3, <2>1, <2>2, <2>3 DEF Inv, HistoryTypeOK, IsSnapshot
  <2>5. save' = [t \in Savers |-> save'[t]]
    BY <1>3 DEF Inv, FilesOK
  <2>6. FilesOK' /\ NeverPending'
    BY <1>2, <1>3, <2>5 DEF Inv, FilesOK, NeverPending, Recorded
  <2> QED
    BY <2>4, <2>6
<1>6. \A y : Faithful(y)' <=> Faithful(y)
  BY <1>3 DEF Faithful, StillHolds, MetadataReadable, PatchMatches, Recorded
<1>7. (\A i \in DOMAIN snapshots : Faithful(snapshots[i]))'
  BY <1>1, <1>2, <1>6 DEF Inv
<1>8. (\A t \in Savers : SaveOK(save[t]))'
  <2>1. Kept /\ Len(snapshots) <= Len(snapshots')
    BY <1>2, StepKeeps DEF n
  <2>2. \A t \in Savers : SaveOK(save[t])
    BY DEF Inv
  <2>3. \A t \in Savers \ {s} : SaveOK(save[t])'
    BY <1>4, <1>5, <2>1, <2>2, SaveStays
  <2>4. save'[s] = Idle
    BY <1>4
  <2>5. SaveOK(save[s])'
    BY <2>4 DEF SaveOK, Idle
  <2> QED
    BY <2>3, <2>5
<1>9. ASSUME ~overlapped PROVE (Chain /\ OneSaver /\ Fresh)'
  <2>1. Chain /\ OneSaver /\ Fresh
    BY <1>9 DEF Inv
  <2>2. \A t \in Savers : save'[t] = Idle
    <3>1. save[s].phase = "temp"
      BY DEF Publish
    <3> QED
      BY <1>4, <2>1, <3>1 DEF OneSaver, Idle
  <2>3. \A i \in 1..n : Follows(snapshots[i], x)
    BY <1>2, <2>1 DEF Fresh, Publish, x
  <2>4. Chain'
    BY <1>2, <2>1, <2>3 DEF Chain
  <2> QED
    BY <2>2, <2>4 DEF OneSaver, Fresh, Idle
<1> QED
  BY <1>3, <1>5, <1>7, <1>8, <1>9 DEF Inv

LEMMA ReadRecordsStep ==
  ASSUME Inv, [Next]_vars, NEW s \in Savers, ReadRecords(s)
  PROVE  Inv'
<1> DEFINE w == [phase |-> "records", records |-> [e \in Recorded |-> exec[e]]]
<1>1. \A e \in Recorded : StillHolds(e, exec[e])
  BY DEF ReadRecords, RecordsReadable, Inv, HistoryTypeOK, StillHolds, NeverPending,
         Recorded
<1>2. SaveOK(w)
  BY <1>1 DEF SaveOK, ReadRecords, RecordsReadable
<1>3. ~overlapped' => \A t \in Savers \ {s} : save[t] = Idle
  BY DEF ReadRecords, Others, Inv, SaveOK
<1>4. overlapped' \in BOOLEAN /\ (overlapped => overlapped')
  BY DEF ReadRecords, Inv, FilesOK
<1> QED
  BY <1>2, <1>3, <1>4, SaveStep DEF ReadRecords

LEMMA ReadPriorsStep ==
  ASSUME Inv, [Next]_vars, NEW s \in Savers, ReadPriors(s)
  PROVE  Inv'
<1> DEFINE w == IF Part \in Range(snapshots) THEN Idle
                ELSE [phase |-> "priors", records |-> save[s].records,
                      priors |-> Len(snapshots)]
<1>1. save[s].phase = "records" /\ SaveOK(save[s]) /\ Len(snapshots) \in Nat
  BY DEF ReadPriors, Inv, FilesOK
<1>2. SaveOK(w) /\ w.phase \in {"idle", "priors"}
  BY <1>1 DEF SaveOK, Idle
<1>3. w.phase = "priors" => w.priors = Len(snapshots)
  BY DEF Idle
<1>4. save' = [save EXCEPT ![s] = w] /\ overlapped' = overlapped
  BY DEF ReadPriors
<1>5. ~overlapped => \A t \in Savers \ {s} : save[t] = Idle
  BY <1>1 DEF Inv, OneSaver, Idle
<1> HIDE DEF w
<1> QED
  BY <1>2, <1>3, <1>4, <1>5, SaveStep DEF ReadPriors, Inv, FilesOK

LEMMA WriteTempStep ==
  ASSUME Inv, [Next]_vars, NEW s \in Savers, WriteTemp(s)
  PROVE  Inv'
<1>1. PICK reviews \in Assessments(save[s].records), actor \in Actors :
        LET priors == Range(SubSeq(snapshots, 1, save[s].priors))
            new == SnapshotOf(save[s].records, reviews, actor)
        IN  save' = [save EXCEPT ![s] =
              IF PatchMatches /\ Compatible(priors, new)
              THEN [phase |-> "temp", snapshot |-> new] ELSE Idle]
  BY DEF WriteTemp
<1> DEFINE priors == Range(SubSeq(snapshots, 1, save[s].priors))
           new == SnapshotOf(save[s].records, reviews, actor)
           w == IF PatchMatches /\ Compatible(priors, new)
                THEN [phase |-> "temp", snapshot |-> new] ELSE Idle
<1>2. save[s].phase = "priors" /\ SaveOK(save[s]) /\ MetadataReadable
  BY DEF WriteTemp, Inv, SaveOK
<1>3. PatchMatches => new \in Snapshots /\ IsSnapshot(new) /\ Faithful(new)
  BY <1>2, BuiltSnapshot DEF SaveOK
<1>4. new.savedAt = clock
  BY DEF SnapshotOf
<1> HIDE DEF new
<1>5. SaveOK(w) /\ w.phase \in {"idle", "temp"}
  BY <1>2, <1>3 DEF SaveOK, Idle
<1>6. ASSUME ~overlapped, w.phase = "temp"
      PROVE  \A i \in DOMAIN snapshots : Follows(snapshots[i], w.snapshot)
  <2>1. Compatible(priors, new) /\ w.snapshot = new
    BY <1>6 DEF Idle
  <2>2. SubSeq(snapshots, 1, save[s].priors) = snapshots
    BY <1>2, <1>6 DEF Inv, Fresh, FilesOK
  <2>3. \A i \in DOMAIN snapshots : Extends(snapshots[i], new)
    BY <2>1, <2>2 DEF Compatible, Range
  <2>4. \A i \in DOMAIN snapshots : snapshots[i].savedAt <= clock
    BY DEF Inv, Faithful
  <2> QED
    BY <1>4, <2>1, <2>3, <2>4 DEF Follows
<1>7. ~overlapped => \A t \in Savers \ {s} : save[t] = Idle
  BY <1>2 DEF Inv, OneSaver, Idle
<1>8. save' = [save EXCEPT ![s] = w] /\ overlapped' = overlapped
  BY <1>1 DEF WriteTemp, new
<1> HIDE DEF w
<1> QED
  BY <1>5, <1>6, <1>7, <1>8, SaveStep DEF WriteTemp, Inv, FilesOK

LEMMA Merged ==
  ASSUME NEW f, NEW g
  PROVE  /\ DOMAIN (Merge(f, g)) = DOMAIN f \cup DOMAIN g
         /\ \A k \in DOMAIN f : (Merge(f, g))[k] = f[k]
         /\ \A k \in DOMAIN g \ DOMAIN f : (Merge(f, g))[k] = g[k]
  BY DEF Merge

LEMMA InvNext == Inv /\ [Next]_vars => Inv'
<1> SUFFICES ASSUME Inv, [Next]_vars PROVE Inv'
  OBVIOUS
<1> USE DEF dirVars
<1>1. ASSUME UNCHANGED vars \/ CopyDirectory \/ Tick \/ Done
      PROVE  Inv'
  <2>1. UNCHANGED <<plan, patch, meta, exec, log, snapshots, save, overlapped>>
    BY <1>1 DEF vars, CopyDirectory, Tick, Done
  <2>2. clock' \in 0..MaxClock
    BY <1>1, HistoryAssumption DEF vars, CopyDirectory, Tick, Done, Inv, FilesOK
  <2>3. copied' = None \/ copied' \in 1..Len(snapshots)
    <3>1. Len(snapshots) \in Nat /\ (snapshots # <<>> => Len(snapshots) # 0)
      BY DEF Inv, FilesOK
    <3> QED
      BY <1>1, <3>1 DEF vars, CopyDirectory, Tick, Done, Inv, HistoryTypeOK
  <2>4. HistoryTypeOK' /\ FilesOK' /\ NeverPending'
    BY <2>1, <2>2, <2>3 DEF Inv, HistoryTypeOK, FilesOK, NeverPending, Recorded,
                            IsSnapshot
  <2> QED
    BY <2>1, <2>4, QuietStep
<1>2. CASE InitRun
  <2>1. meta' \in {None, Part} \cup Metadata /\ (meta' \notin {None, Part} => ValidMetadata(meta'))
    <3>1. PICK decision \in Decisions \cup {None}, scale \in DOMAIN Scales :
          \E level \in Scales[scale] :
            /\ ValidMetadata(NewMetadata(level, scale, decision))
            /\ meta' \in {NewMetadata(level, scale, decision), Part}
      BY <1>2 DEF InitRun
    <3>2. PICK level \in Scales[scale] :
            /\ ValidMetadata(NewMetadata(level, scale, decision))
            /\ meta' \in {NewMetadata(level, scale, decision), Part}
      BY <3>1
    <3>3. NewMetadata(level, scale, decision).level = level
      <4> DEFINE f == [runId |-> RunId, level |-> level, levelScale |-> scale]
      <4>1. "level" \in DOMAIN f /\ f.level = level
        OBVIOUS
      <4> HIDE DEF f
      <4> QED
        BY <4>1, Merged DEF NewMetadata, f
    <3>4. level \in Levels /\ scale \in {2, 3, 5}
      BY <3>2, <3>3, HistoryAssumption DEF ValidMetadata
    <3> QED
      BY <3>2, <3>4 DEF Metadata
  <2>2. HistoryTypeOK' /\ FilesOK' /\ NeverPending'
    BY <1>2, <2>1 DEF InitRun, Inv, HistoryTypeOK, FilesOK, NeverPending, Recorded,
                      IsSnapshot
  <2> QED
    BY <1>2, <2>2, QuietStep DEF InitRun
<1>3. ASSUME NEW e \in Execs,
             \/ StartExecution(e) \/ RecordStarted(e)
             \/ WriteLog(e) \/ CompleteExecution(e)
      PROVE  Inv'
  <2>1. /\ exec' \in [Execs -> {None, Part} \cup Records] /\ log' \in [Execs -> 0..1]
        /\ NeverPending'
    BY <1>3, FilesAssumption
       DEF StartExecution, RecordStarted, WriteLog, CompleteExecution, Inv,
           HistoryTypeOK, NeverPending, Running, Record, Records
  <2>2. UNCHANGED <<plan, patch, meta, snapshots, copied, save, clock, overlapped>>
    BY <1>3 DEF StartExecution, RecordStarted, WriteLog, CompleteExecution
  <2>3. HistoryTypeOK' /\ FilesOK'
    BY <2>1, <2>2 DEF Inv, HistoryTypeOK, FilesOK, IsSnapshot
  <2> QED
    BY <2>1, <2>2, <2>3, QuietStep
<1>4. ASSUME NEW s \in Savers, CrashSave(s)
      PROVE  Inv'
  BY <1>4, SaveStep DEF CrashSave, SaveOK, Idle, Inv, FilesOK
<1> QED
  BY <1>1, <1>2, <1>3, <1>4, ReadRecordsStep, ReadPriorsStep, WriteTempStep,
     PublishStep DEF Next

-----------------------------------------------------------------------------

LEMMA ChainGrows == Chain => HistoryGrows
  BY DEF Chain, Follows, Extends, ExecutionKept, FindingsKept, HistoryGrows

(* Whatever crashes and however many processes save at once, every snapshot
   there is validates; and if no two saves were ever active together, each
   keeps the completed executions and the findings of those before it
   (review_history.ts, saveAssessment and publishSnapshotFile). *)
THEOREM Coherent == Spec => []HistoryIsCoherent
<1>1. Inv => HistoryIsCoherent
  BY ChainGrows DEF Inv, HistoryIsCoherent
<1> QED
  BY <1>1, InvInit, InvNext, PTL DEF Spec

(* What a further save can be given: the assessment of the last snapshot, where
   its execution was completed, and one without findings elsewhere.  Only a
   completed execution has findings, so that nothing is lost. *)
LEMMA SavableHolds == Inv => SavableUnlessTorn
<1> SUFFICES ASSUME Inv, ~overlapped, MetadataReadable, RecordsReadable, PatchMatches
             PROVE  LET records == [e \in Recorded |-> exec[e]] IN
                    \E reviews \in Assessments(records) :
                      Compatible(Range(snapshots),
                        SnapshotOf(records, reviews, CHOOSE actor \in Actors : TRUE))
  BY DEF SavableUnlessTorn
<1> DEFINE n == Len(snapshots)
           last == snapshots[n]
           Final == {e \in Recorded : n > 0 /\ e \in DOMAIN last.execs
                                       /\ last.execs[e].record.status = "completed"}
           records == [e \in Recorded |-> exec[e]]
           default(e) == [verdict |-> IF Unsuccessful(exec[e]) THEN "unavailable"
                                      ELSE "no_findings",
                          findings |-> <<>>]
           reviews == [e \in Recorded |-> IF e \in Final THEN last.reviews[e]
                                          ELSE default(e)]
           new == SnapshotOf(records, reviews, CHOOSE actor \in Actors : TRUE)
<1>1. n \in Nat /\ DOMAIN snapshots = 1..n /\ \A i \in 1..n : snapshots[i] \in Snapshots
  BY DEF Inv, FilesOK
<1>2. \A i \in 1..n :
        /\ snapshots[i] # Part /\ IsSnapshot(snapshots[i]) /\ Faithful(snapshots[i])
  BY <1>1 DEF Inv, HistoryTypeOK
<1>3. \A i \in 1..n : \A e \in DOMAIN snapshots[i].execs :
        /\ snapshots[i].execs[e] \in [record : Records, task : Tasks, log : 0..1]
        /\ snapshots[i].reviews[e] \in Reviews
  <2> SUFFICES ASSUME NEW i \in 1..n, NEW e \in DOMAIN snapshots[i].execs
               PROVE  /\ snapshots[i].execs[e] \in [record : Records, task : Tasks, log : 0..1]
                      /\ snapshots[i].reviews[e] \in Reviews
    OBVIOUS
  <2>1. /\ snapshots[i].execs \in OfSomeExecs([record : Records, task : Tasks, log : 0..1])
        /\ snapshots[i].reviews \in OfSomeExecs(Reviews)
    BY <1>1 DEF Snapshots
  <2>2. e \in DOMAIN snapshots[i].reviews
    BY <1>2 DEF IsSnapshot
  <2> QED
    BY <2>1, <2>2 DEF OfSomeExecs
<1>0. \A e \in Recorded : exec[e] \in Records /\ exec[e].status # "pending"
  BY DEF Inv, HistoryTypeOK, NeverPending, Recorded, RecordsReadable
<1>4. \A e \in Recorded : default(e) \in Reviews /\ ValidReview(exec[e], default(e))
  BY DEF Reviews, ValidReview
<1>5. \A e \in Final :
        last.reviews[e] \in Reviews /\ ValidReview(exec[e], last.reviews[e])
  BY <1>1, <1>2, <1>3 DEF IsSnapshot, Faithful, StillHolds
<1>6. reviews \in Assessments(records)
  <2> HIDE DEF Final, default
  <2>1. \A e \in Recorded : reviews[e] \in {r \in Reviews : ValidReview(records[e], r)}
    BY <1>4, <1>5
  <2> HIDE DEF reviews
  <2>2. DOMAIN reviews = Recorded /\ reviews = [e \in Recorded |-> reviews[e]]
    BY DEF reviews
  <2> QED
    BY <2>1, <2>2 DEF Assessments
<1>7. ASSUME NEW i \in 1..n PROVE Extends(snapshots[i], new)
  <2> DEFINE old == snapshots[i]
  <2>1. new.meta = meta /\ new.patch = patch.sha /\ DOMAIN new.execs = Recorded
    BY DEF SnapshotOf
  <2>2. ASSUME NEW e \in DOMAIN old.execs
        PROVE  /\ e \in DOMAIN new.execs
               /\ ExecutionKept(old.execs[e], new.execs[e])
               /\ FindingsKept(old.reviews[e], new.reviews[e])
    <3>1. /\ StillHolds(e, old.execs[e].record) /\ old.execs[e].task = plan[e]
          /\ old.execs[e].record.status = "completed" => old.execs[e].log = log[e]
      BY <1>2, <2>2 DEF Faithful
    <3>2. /\ e \in Recorded /\ new.reviews[e] = reviews[e]
          /\ new.execs[e] = [record |-> exec[e], task |-> plan[e], log |-> log[e]]
      BY <3>1 DEF SnapshotOf, StillHolds
    <3>3. ExecutionKept(old.execs[e], new.execs[e])
      <4>1. exec[e].status # "pending"
        BY <1>0, <3>2
      <4>2. old.execs[e] \in [record : Records, task : Tasks, log : 0..1]
        BY <1>3, <2>2
      <4> HIDE DEF new, old
      <4> QED
        BY <3>1, <3>2, <4>1, <4>2 DEF ExecutionKept, StillHolds
    <3>4. CASE old.execs[e].record.status # "completed"
      <4>1. DOMAIN old.reviews[e].findings = {}
        BY <1>2, <2>2, <3>4 DEF IsSnapshot, ValidReview, Unsuccessful
      <4> QED
        BY <2>1, <3>2, <3>3, <4>1 DEF FindingsKept
    <3>5. CASE old.execs[e].record.status = "completed"
      <4>1. i = n \/ Follows(old, last)
        <5>1. CASE i # n
          <6>1. n \in Nat /\ DOMAIN snapshots = 1..n
            BY <1>1
          <6>2. Chain
            BY DEF Inv
          <6> HIDE DEF n
          <6>3. i \in 1..(n - 1) /\ n \in DOMAIN snapshots
            BY <5>1, <6>1
          <6> QED
            BY <6>2, <6>3 DEF Chain
        <5> QED
          BY <5>1
      <4>2. /\ e \in DOMAIN last.execs /\ last.execs[e].record.status = "completed"
            /\ FindingsKept(old.reviews[e], last.reviews[e])
        BY <2>2, <3>5, <4>1 DEF Follows, Extends, ExecutionKept, FindingsKept
      <4>3. reviews[e] = last.reviews[e]
        <5>1. e \in Final
          <6>1. n > 0
            BY <1>1
          <6> HIDE DEF n, last
          <6> QED
            BY <3>2, <4>2, <6>1
        <5> HIDE DEF Final, last, default
        <5> QED
          BY <3>2, <5>1
      <4> HIDE DEF reviews, new, old, last
      <4> QED
        BY <2>1, <3>2, <3>3, <4>2, <4>3
    <3> QED
      BY <3>4, <3>5
  <2>3. old.meta = meta /\ old.patch = patch.sha
    BY <1>2 DEF Faithful
  <2> HIDE DEF new
  <2> QED
    BY <2>1, <2>2, <2>3 DEF Extends
<1>8. Compatible(Range(snapshots), new)
  <2> HIDE DEF new, n
  <2> QED
    BY <1>1, <1>2, <1>7 DEF Compatible, Range
<1> HIDE DEF reviews, new, Final
<1> QED
  BY <1>6, <1>8 DEF new

(* However runners and savers went on meanwhile, the rules by which a snapshot
   must extend those before it leave a way to save: a save that waits for the
   others can be made as long as its files can be read and the patch is the one
   that was judged (review_history.ts, assertPriorSnapshotsCompatible). *)
THEOREM RulesNeverLock == Spec => []SavableUnlessTorn
<1> QED
  BY SavableHolds, InvInit, InvNext, PTL DEF Spec

LEMMA SnapshotsFinite ==
  ASSUME snapshots \in Seq(Snapshots)
  PROVE  IsFiniteSet(Range(snapshots))
<1>1. snapshots \in Seq(Range(snapshots))
  BY DEF Range
<1>2. \A x \in Range(snapshots) : \E i \in 1..Len(snapshots) : snapshots[i] = x
  BY DEF Range
<1> QED
  BY <1>1, <1>2 DEF IsFiniteSet

LEMMA LatestIsUsedHolds == Inv => LatestIsUsed
<1> SUFFICES ASSUME Inv, ~overlapped, snapshots # <<>>
             PROVE  \/ SelectedOf(Range(snapshots)) = Last(snapshots)
                    \/ /\ SelectedOf(Range(snapshots)) = None
                       /\ \E i \in 1..(Len(snapshots) - 1) :
                            snapshots[i].savedAt = Last(snapshots).savedAt
  BY DEF LatestIsUsed
<1> DEFINE n == Len(snapshots)  files == Range(snapshots)  last == snapshots[n]
<1>1. /\ n \in Nat \ {0} /\ DOMAIN snapshots = 1..n /\ n \in 1..n
      /\ Last(snapshots) = last
  BY DEF Inv, FilesOK, Last
<1>2. \A i \in 1..n :
        /\ snapshots[i].savedAt \in Int /\ snapshots[i].meta = meta
        /\ snapshots[i] # Part
  BY <1>1, HistoryAssumption DEF Inv, HistoryTypeOK, IsSnapshot, Faithful
<1>3. \A i \in 1..n : snapshots[i].savedAt <= last.savedAt
  <2>1. last.savedAt <= last.savedAt
    BY <1>1, <1>2
  <2>2. ASSUME NEW i \in 1..n, i # n PROVE snapshots[i].savedAt <= last.savedAt
    <3>1. Chain
      BY DEF Inv
    <3> HIDE DEF n
    <3>2. i \in 1..(n - 1) /\ n \in DOMAIN snapshots
      BY <1>1, <2>2
    <3> QED
      BY <3>1, <3>2 DEF Chain, Follows
  <2> HIDE DEF n
  <2> QED
    BY <2>1, <2>2 DEF last
<1>4. \A x \in files : \E i \in 1..n : x = snapshots[i]
  BY <1>1 DEF Range
<1>5. last \in files
  BY <1>1 DEF Range
<1> HIDE DEF n, last, files
<1>6. last \in Latest(files)
  BY <1>3, <1>4, <1>5 DEF Latest
<1>7. RunIds(files) = {meta.runId}
  BY <1>1, <1>2, <1>4, <1>5 DEF RunIds
<1>8. IsFiniteSet(Latest(files))
  <2>1. IsFiniteSet(files)
    BY SnapshotsFinite DEF Inv, FilesOK, files
  <2> QED
    BY <2>1, FS_Subset DEF Latest
<1>9. CASE Latest(files) = {last}
  <2>1. Cardinality(Latest(files)) = 1 /\ Cardinality(RunIds(files)) = 1
    BY <1>7, <1>9, FS_Singleton
  <2>2. files # {} /\ Part \notin files
    BY <1>2, <1>4, <1>5
  <2>3. SelectedOf(files) = last
    BY <1>9, <2>1, <2>2 DEF SelectedOf
  <2> QED
    BY <1>1, <2>3 DEF files
<1>10. CASE Latest(files) # {last}
  <2>1. PICK y \in Latest(files) : y # last
    BY <1>6, <1>10
  <2>2. Cardinality(Latest(files)) # 1
    BY <1>6, <1>8, <2>1, FS_Singleton
  <2>3. SelectedOf(files) = None
    BY <2>2 DEF SelectedOf
  <2>4. PICK i \in 1..n : y = snapshots[i]
    BY <1>4, <2>1 DEF Latest
  <2>5. snapshots[i].savedAt = last.savedAt
    BY <1>1, <1>2, <1>3, <1>5, <2>1, <2>4 DEF Latest, last
  <2>6. i \in 1..(n - 1)
    BY <1>1, <2>1, <2>4 DEF last
  <2> QED
    BY <1>1, <2>3, <2>5, <2>6 DEF files, n
<1> QED
  BY <1>9, <1>10

(* Of a directory whose snapshots were saved one after another the evaluation
   takes the last, or none when another has its millisecond
   (evaluate_models.ts, selectLatestInRun). *)
THEOREM LastJudgementCounts == Spec => []LatestIsUsed
<1> QED
  BY LatestIsUsedHolds, InvInit, InvNext, PTL DEF Spec

-----------------------------------------------------------------------------
(* Level decisions: what the builders build passes their own validation. *)

AnswerOK(a) ==
  /\ {"model", "suggestedLevel", "suggestedChoice", "confidence"} \subseteq DOMAIN a
  /\ a.suggestedLevel \in Levels /\ a.suggestedChoice \in ChunkChoices
  /\ a.confidence \in Percent
  /\ Has(a, "costUsd") => a.costUsd \in Nat
  /\ Has(a, "probabilities") => ValidProbabilities(a.probabilities)

(* The fields of the answer that chunks that fell back repeat. *)
Repeated(reason) ==
  IF reason \in {"low_confidence", "whole_patch_limit"}
  THEN {"confidence", "suggestedChoice", "model"} ELSE {}

IsChunkFallback(c, reason, p, min, answer) ==
  /\ DOMAIN c = {"source", "reason", "choice", "minConfidence"}
                \cup (Repeated(reason) \cap DOMAIN answer)
  /\ c.source = "fallback" /\ c.reason = reason
  /\ c.choice = FixedChunkChoice(p) /\ c.minConfidence = min
  /\ \A f \in Repeated(reason) \cap DOMAIN answer : c[f] = answer[f]

LEMMA ChunkFallbackFields ==
  ASSUME NEW reason, NEW p, NEW min, NEW answer
  PROVE  IsChunkFallback(ChunkFallback(reason, p, min, answer), reason, p, min, answer)
<1> DEFINE c == ChunkFallback(reason, p, min, answer)
<1> DEFINE d == [source |-> "fallback", reason |-> reason,
                 choice |-> FixedChunkChoice(p), minConfidence |-> min]
<1>1. /\ DOMAIN d = {"source", "reason", "choice", "minConfidence"}
      /\ d.source = "fallback" /\ d.reason = reason
      /\ d.choice = FixedChunkChoice(p) /\ d.minConfidence = min
  OBVIOUS
<1>2. c = Merge(d, Pick(answer, Repeated(reason)))
  BY DEF ChunkFallback, Repeated
<1> HIDE DEF d, c
<1>3. /\ DOMAIN c = DOMAIN d \cup (Repeated(reason) \cap DOMAIN answer)
      /\ \A k \in DOMAIN d : c[k] = d[k]
      /\ \A k \in (Repeated(reason) \cap DOMAIN answer) \ DOMAIN d : c[k] = answer[k]
  BY <1>2 DEF Merge, Pick
<1>4. Repeated(reason) \cap DOMAIN d = {}
  BY <1>1 DEF Repeated
<1> QED
  BY <1>1, <1>3, <1>4 DEF IsChunkFallback, c

(* Chunks that fell back, with an answer below the threshold or without one. *)
LEMMA ChunkFallbackValid ==
  ASSUME NEW reason \in SharedReasons, NEW p, NEW min \in Percent, NEW answer,
         reason = "low_confidence" => AnswerOK(answer) /\ answer.confidence < min,
         NEW c, c = ChunkFallback(reason, p, min, answer)
  PROVE  ValidChunkDecision(c) /\ c.source = "fallback" /\ c.minConfidence = min
<1>1. /\ c.source = "fallback" /\ c.reason = reason /\ c.minConfidence = min
      /\ c.choice \in {"none", "12000"}
      /\ DOMAIN c = {"source", "reason", "choice", "minConfidence"}
                    \cup (Repeated(reason) \cap DOMAIN answer)
      /\ \A f \in Repeated(reason) \cap DOMAIN answer : c[f] = answer[f]
  <2>1. IsChunkFallback(c, reason, p, min, answer)
    BY ChunkFallbackFields
  <2> QED
    BY <2>1 DEF IsChunkFallback, FixedChunkChoice
<1>2. CASE reason = "low_confidence"
  <2>1. /\ DOMAIN c = {"source", "reason", "choice", "minConfidence", "confidence",
                       "suggestedChoice", "model"}
        /\ c.confidence = answer.confidence
        /\ c.suggestedChoice = answer.suggestedChoice
    BY <1>1, <1>2 DEF AnswerOK, Repeated
  <2>2. ValidChunkShape(c)
    BY <1>1, <1>2, <2>1 DEF ValidChunkShape, ChunkKeys, ChunkReasons, SharedReasons
  <2>3. ValidOptionalFields(c)
    BY <1>1, <1>2, <2>1 DEF ValidOptionalFields, Has, AnswerOK
  <2>4. ValidChunkFallback(c)
    BY <1>1, <1>2, <2>1 DEF ValidChunkFallback, Missed, Has
  <2> QED
    BY <1>1, <2>2, <2>3, <2>4 DEF ValidChunkDecision
<1>3. CASE reason # "low_confidence"
  <2>1. DOMAIN c = {"source", "reason", "choice", "minConfidence"}
    BY <1>1, <1>3 DEF Repeated, SharedReasons
  <2>2. ValidChunkShape(c)
    BY <1>1, <2>1 DEF ValidChunkShape, ChunkKeys, ChunkReasons
  <2>3. ValidOptionalFields(c)
    BY <1>1, <2>1 DEF ValidOptionalFields, Has
  <2>4. ValidChunkFallback(c)
    BY <1>1, <1>3, <2>1 DEF ValidChunkFallback, WithoutFields, Has, SharedReasons
  <2> QED
    BY <1>1, <2>2, <2>3, <2>4 DEF ValidChunkDecision
<1> QED
  BY <1>2, <1>3

(* Chunks that followed an answer, or would have left too large a patch whole. *)
LEMMA ChunkJevValid ==
  ASSUME NEW p, p.bytes \in Nat, NEW min \in Percent, NEW answer,
         AnswerOK(answer), answer.confidence >= min,
         NEW c, c = ChunkJev(answer.suggestedChoice, p, min, answer)
  PROVE  /\ ValidChunkDecision(c)
         /\ c.source \in {"jev", "fallback"} /\ c.minConfidence = min
<1> DEFINE choice == answer.suggestedChoice
<1>1. CASE choice = "none" /\ p.bytes > WholePatchBytes
  <2> DEFINE a == Merge([suggestedChoice |-> "none"], answer)
  <2>1. c = ChunkFallback("whole_patch_limit", p, min, a)
    BY <1>1 DEF ChunkJev
  <2>2. /\ {"confidence", "suggestedChoice", "model"} \subseteq DOMAIN a
        /\ a.suggestedChoice = "none" /\ a.confidence = answer.confidence
    BY DEF Merge, AnswerOK
  <2> HIDE DEF a
  <2>3. FixedChunkChoice(p) = "12000"
    BY <1>1 DEF FixedChunkChoice, WholePatchBytes, FixedBytes
  <2>4. /\ c.source = "fallback" /\ c.reason = "whole_patch_limit"
        /\ c.minConfidence = min /\ c.choice = "12000"
        /\ DOMAIN c = {"source", "reason", "choice", "minConfidence"}
                      \cup (Repeated("whole_patch_limit") \cap DOMAIN a)
        /\ \A f \in Repeated("whole_patch_limit") \cap DOMAIN a : c[f] = a[f]
    <3>1. IsChunkFallback(c, "whole_patch_limit", p, min, a)
      BY <2>1, ChunkFallbackFields
    <3> QED
      BY <2>3, <3>1 DEF IsChunkFallback
  <2>5. /\ DOMAIN c = {"source", "reason", "choice", "minConfidence", "confidence",
                       "suggestedChoice", "model"}
        /\ c.confidence = answer.confidence /\ c.suggestedChoice = "none"
    BY <2>2, <2>4 DEF Repeated
  <2>6. ValidChunkShape(c)
    BY <2>4, <2>5 DEF ValidChunkShape, ChunkKeys, ChunkReasons
  <2>7. ValidOptionalFields(c)
    BY <2>4, <2>5 DEF ValidOptionalFields, Has, AnswerOK, ChunkChoices
  <2>8. ValidChunkFallback(c)
    BY <2>4, <2>5 DEF ValidChunkFallback, Met, Has
  <2> QED
    BY <2>4, <2>6, <2>7, <2>8 DEF ValidChunkDecision
<1>2. CASE ~(choice = "none" /\ p.bytes > WholePatchBytes)
  <2>1. c = [source |-> "jev", reason |-> "jev_ok", choice |-> choice,
             minConfidence |-> min, model |-> answer.model,
             suggestedChoice |-> choice, confidence |-> answer.confidence]
    BY <1>2 DEF ChunkJev
  <2>2. choice \in ChunkChoices /\ answer.confidence \in Percent
    BY DEF AnswerOK
  <2> HIDE DEF choice
  <2>3. /\ DOMAIN c = {"source", "reason", "choice", "minConfidence", "confidence",
                       "suggestedChoice", "model"}
        /\ c.source = "jev" /\ c.reason = "jev_ok" /\ c.minConfidence = min
        /\ c.choice = choice /\ c.suggestedChoice = choice
        /\ c.confidence = answer.confidence
    BY <2>1
  <2>4. ValidChunkShape(c)
    BY <2>2, <2>3 DEF ValidChunkShape, ChunkKeys
  <2>5. ValidOptionalFields(c)
    BY <2>2, <2>3 DEF ValidOptionalFields, Has
  <2>6. ValidChunkJev(c)
    BY <2>3 DEF ValidChunkJev, Met, Has
  <2> QED
    BY <2>3, <2>4, <2>5, <2>6 DEF ValidChunkDecision
<1> QED
  BY <1>1, <1>2

(* A level decision that is valid but for its chunks. *)
ValidWithoutChunks(d) ==
  /\ ValidLevelShape(d) /\ ValidOptionalFields(d)
  /\ {"requestedLevel", "level", "source", "reason", "minConfidence",
      "schemaVersion", "patchSha256"} \subseteq DOMAIN d
  /\ "chunking" \notin DOMAIN d
  /\ \/ d.source = "fallback" /\ ValidFallbackFields(d)
     \/ d.source = "jev" /\ ValidJevFields(d)

LEMMA WithChunksValid ==
  ASSUME NEW d, ValidWithoutChunks(d),
         NEW c, ValidChunkDecision(c), c.source \in {"jev", "fallback"},
         c.minConfidence = d.minConfidence
  PROVE  ValidLevelDecision(WithChunks(d, c)) /\ WithChunks(d, c).level = d.level
<1> DEFINE x == WithChunks(d, c)
<1>1. /\ DOMAIN x = DOMAIN d \cup {"chunking"}
      /\ \A f \in DOMAIN d : x[f] = d[f]
      /\ x.chunking = c
  BY DEF WithChunks, Merge, ValidWithoutChunks
<1> HIDE DEF x
<1>2. /\ x.requestedLevel = d.requestedLevel /\ x.level = d.level
      /\ x.source = d.source /\ x.reason = d.reason
      /\ x.schemaVersion = d.schemaVersion /\ x.minConfidence = d.minConfidence
  BY <1>1 DEF ValidWithoutChunks
<1>3. ValidLevelShape(x)
  BY <1>1, <1>2 DEF ValidWithoutChunks, ValidLevelShape, DecisionKeys
<1>4. ValidOptionalFields(x)
  BY <1>1 DEF ValidWithoutChunks, ValidOptionalFields, Has
<1>5. ValidLevelChunking(x)
  BY <1>1, <1>2 DEF ValidLevelChunking, ValidWithoutChunks
<1>6. CASE d.source = "fallback" /\ ValidFallbackFields(d)
  <2>1. ValidFallbackFields(x)
    BY <1>1, <1>2, <1>6 DEF ValidFallbackFields, Missed, Has, WithoutFields
  <2> QED
    BY <1>2, <1>3, <1>4, <1>5, <1>6, <2>1 DEF ValidLevelDecision, x
<1>7. CASE d.source = "jev" /\ ValidJevFields(d)
  <2>1. ValidJevFields(x)
    BY <1>1, <1>2, <1>7 DEF ValidJevFields, Met, Has
  <2> QED
    BY <1>2, <1>3, <1>4, <1>5, <1>7, <2>1 DEF ValidLevelDecision, x
<1> QED
  BY <1>6, <1>7 DEF ValidWithoutChunks

(* The fields of the answer that a level that fell back repeats. *)
RepeatedForLevel(reason) ==
  IF reason = "low_confidence"
  THEN {"confidence", "suggestedLevel", "model", "costUsd", "probabilities"} ELSE {}

LEMMA FallbackDecisionValid ==
  ASSUME NEW reason \in SharedReasons, NEW p, NEW min \in Percent, NEW answer,
         reason = "low_confidence" => AnswerOK(answer) /\ answer.confidence < min,
         NEW d, d = FallbackDecision(FallbackLevel, reason, p, min, answer)
  PROVE  ValidWithoutChunks(d) /\ d.minConfidence = min /\ d.level \in Levels
<1> DEFINE base == [schemaVersion |-> 1, requestedLevel |-> AutoLevel, level |-> 3,
                    source |-> "fallback", reason |-> reason,
                    patchSha256 |-> p.sha, minConfidence |-> min]
           more == RepeatedForLevel(reason) \cap DOMAIN answer
<1>1. /\ DOMAIN base = {"schemaVersion", "requestedLevel", "level", "source",
                        "reason", "patchSha256", "minConfidence"}
      /\ base.schemaVersion = 1 /\ base.requestedLevel = AutoLevel /\ base.level = 3
      /\ base.source = "fallback" /\ base.reason = reason
      /\ base.minConfidence = min
  OBVIOUS
<1>2. d = Merge(base, Pick(answer, RepeatedForLevel(reason)))
  BY DEF FallbackDecision, FallbackLevel, RepeatedForLevel
<1> HIDE DEF base
<1>3. /\ DOMAIN d = DOMAIN base \cup more
      /\ \A k \in DOMAIN base : d[k] = base[k]
      /\ \A k \in more \ DOMAIN base : d[k] = answer[k]
  BY <1>2 DEF Merge, Pick
<1>4. more \cap DOMAIN base = {}
  BY <1>1 DEF RepeatedForLevel
<1>5. /\ more \subseteq {"confidence", "suggestedLevel", "model", "costUsd", "probabilities"}
      /\ more \subseteq DOMAIN answer
      /\ reason # "low_confidence" => more = {}
      /\ reason = "low_confidence" =>
           {"confidence", "suggestedLevel", "model"} \subseteq more
  BY DEF RepeatedForLevel, AnswerOK
<1>6. more # {} => reason = "low_confidence"
  BY <1>5
<1> HIDE DEF more
<1>7. /\ d.schemaVersion = 1 /\ d.requestedLevel = AutoLevel /\ d.level = 3
      /\ d.source = "fallback" /\ d.reason = reason /\ d.minConfidence = min
      /\ \A k \in more : d[k] = answer[k]
  BY <1>1, <1>3, <1>4
<1>8. ValidLevelShape(d)
  BY <1>1, <1>3, <1>5, <1>7
     DEF ValidLevelShape, DecisionKeys, ValidReason, FallbackReasons, Levels
<1>9. ValidOptionalFields(d)
  BY <1>1, <1>3, <1>5, <1>6, <1>7 DEF ValidOptionalFields, Has, AnswerOK
<1>10. ValidFallbackFields(d)
  BY <1>1, <1>3, <1>5, <1>7 DEF ValidFallbackFields, Missed, Has, WithoutFields
<1> QED
  BY <1>1, <1>3, <1>5, <1>7, <1>8, <1>9, <1>10 DEF ValidWithoutChunks, Levels

LEMMA JevDecisionValid ==
  ASSUME NEW p, NEW min \in Percent, NEW answer,
         AnswerOK(answer), answer.confidence >= min,
         NEW d, d = JevDecision(answer.suggestedLevel, p, min, answer)
  PROVE  ValidWithoutChunks(d) /\ d.minConfidence = min /\ d.level \in Levels
<1> DEFINE level == answer.suggestedLevel
           base == [schemaVersion |-> 1, requestedLevel |-> AutoLevel, level |-> level,
                    source |-> "jev", reason |-> "jev_ok", patchSha256 |-> p.sha,
                    minConfidence |-> min, model |-> answer.model,
                    suggestedLevel |-> level, confidence |-> answer.confidence]
           more == {"costUsd", "probabilities"} \cap DOMAIN answer
<1>1. /\ DOMAIN base = {"schemaVersion", "requestedLevel", "level", "source",
                        "reason", "patchSha256", "minConfidence", "model",
                        "suggestedLevel", "confidence"}
      /\ base.schemaVersion = 1 /\ base.requestedLevel = AutoLevel
      /\ base.level = level /\ base.source = "jev" /\ base.reason = "jev_ok"
      /\ base.minConfidence = min /\ base.suggestedLevel = level
      /\ base.confidence = answer.confidence
  OBVIOUS
<1>2. d = Merge(base, Pick(answer, {"costUsd", "probabilities"}))
  BY DEF JevDecision
<1> HIDE DEF base
<1>3. /\ DOMAIN d = DOMAIN base \cup more
      /\ \A k \in DOMAIN base : d[k] = base[k]
      /\ \A k \in more \ DOMAIN base : d[k] = answer[k]
  BY <1>2 DEF Merge, Pick
<1>4. more \subseteq {"costUsd", "probabilities"} /\ more \cap DOMAIN base = {}
  BY <1>1
<1>5. more \subseteq DOMAIN answer /\ level \in Levels
  BY DEF AnswerOK
<1> HIDE DEF more, level
<1>6. /\ d.schemaVersion = 1 /\ d.requestedLevel = AutoLevel /\ d.level = level
      /\ d.source = "jev" /\ d.reason = "jev_ok" /\ d.minConfidence = min
      /\ d.suggestedLevel = level /\ d.confidence = answer.confidence
      /\ \A k \in more : d[k] = answer[k]
  BY <1>1, <1>3, <1>4
<1>7. ValidLevelShape(d)
  BY <1>1, <1>3, <1>4, <1>5, <1>6 DEF ValidLevelShape, DecisionKeys, ValidReason
<1>8. ValidOptionalFields(d)
  BY <1>1, <1>3, <1>4, <1>5, <1>6 DEF ValidOptionalFields, Has, AnswerOK
<1>9. ValidJevFields(d)
  BY <1>1, <1>3, <1>6 DEF ValidJevFields, Met, Has, AnswerOK
<1> QED
  BY <1>1, <1>3, <1>4, <1>5, <1>6, <1>7, <1>8, <1>9 DEF ValidWithoutChunks

LEMMA ExplicitDecisionValid ==
  ASSUME NEW level \in {1, 2}, NEW p
  PROVE  /\ ValidLevelDecision(ExplicitDecision(level, p))
         /\ ExplicitDecision(level, p).level = level
<1> DEFINE d == ExplicitDecision(level, p)  c == FixedChunk(p)
<1>1. /\ DOMAIN c = {"source", "reason", "choice"}
      /\ c.source = "fixed" /\ c.reason = "explicit_level"
      /\ c.choice \in {"none", "12000"}
  BY DEF FixedChunk, FixedChunkChoice
<1>2. /\ DOMAIN d = {"schemaVersion", "requestedLevel", "level", "source",
                     "reason", "patchSha256", "chunking"}
      /\ d.schemaVersion = 1 /\ d.requestedLevel = level /\ d.level = level
      /\ d.source = "explicit" /\ d.reason = "explicit" /\ d.chunking = c
  BY DEF ExplicitDecision
<1> HIDE DEF d, c
<1>3. ValidChunkDecision(c)
  <2>1. ValidChunkShape(c)
    BY <1>1 DEF ValidChunkShape, ChunkKeys
  <2>2. ValidOptionalFields(c)
    BY <1>1 DEF ValidOptionalFields, Has
  <2> QED
    BY <1>1, <2>1, <2>2 DEF ValidChunkDecision, WithoutFields
<1>4. ValidLevelShape(d) /\ ValidExplicitFields(d)
  BY <1>2 DEF ValidLevelShape, DecisionKeys, ValidReason, ValidExplicitFields,
              WithoutFields, Levels
<1>5. ValidOptionalFields(d)
  BY <1>2 DEF ValidOptionalFields, Has
<1>6. ValidLevelChunking(d)
  BY <1>1, <1>2, <1>3 DEF ValidLevelChunking, Has
<1>7. ValidLevelDecision(d)
  BY <1>2, <1>4, <1>5, <1>6 DEF ValidLevelDecision
<1> QED
  BY <1>2, <1>7 DEF d

LEMMA BuiltIsValid ==
  ASSUME NEW d \in Built
  PROVE  ValidLevelDecision(d) /\ d.level \in Levels
<1>1. ASSUME NEW requested \in Selectable, NEW p \in Sized,
             d = SelectReviewLevel(requested, p)
      PROVE  ValidLevelDecision(d) /\ d.level \in Levels
  BY <1>1, ExplicitDecisionValid DEF SelectReviewLevel, Selectable, Levels
<1>2. ASSUME NEW p \in Sized, NEW min \in Thresholds,
             NEW a \in Answers, NEW b \in Answers,
             d = WithChunks(LevelOf(p, min, a), ChunksOf(p, min, b))
      PROVE  ValidLevelDecision(d) /\ d.level \in Levels
  <2>1. AnswerOK(a) /\ AnswerOK(b) /\ min \in Percent /\ p.bytes \in Nat
    BY SelectionAssumption DEF AnswerOK
  <2>2. min \in Int /\ a.confidence \in Int /\ b.confidence \in Int
    BY <2>1 DEF AnswerOK, Percent
  <2> DEFINE l == LevelOf(p, min, a)  c == ChunksOf(p, min, b)
  <2>3. "low_confidence" \in SharedReasons
    BY DEF SharedReasons
  <2>4. ValidWithoutChunks(l) /\ l.minConfidence = min /\ l.level \in Levels
    <3>1. CASE a.confidence < min
      BY <2>1, <2>3, <3>1, FallbackDecisionValid DEF LevelOf
    <3>2. CASE ~(a.confidence < min)
      <4>1. l = JevDecision(a.suggestedLevel, p, min, a) /\ a.confidence >= min
        BY <2>2, <3>2 DEF LevelOf
      <4> HIDE DEF l
      <4> QED
        BY <2>1, <4>1, JevDecisionValid
    <3> QED
      BY <3>1, <3>2
  <2>5. /\ ValidChunkDecision(c) /\ c.minConfidence = min
        /\ c.source \in {"jev", "fallback"}
    <3>1. CASE b.confidence < min
      BY <2>1, <2>3, <3>1, ChunkFallbackValid DEF ChunksOf
    <3>2. CASE ~(b.confidence < min)
      BY <2>1, <2>2, <3>2, ChunkJevValid DEF ChunksOf
    <3> QED
      BY <3>1, <3>2
  <2> HIDE DEF l, c
  <2>6. d = WithChunks(l, c)
    BY <1>2 DEF l, c
  <2> QED
    BY <2>4, <2>5, <2>6, WithChunksValid
<1>3. ASSUME NEW reason \in SharedReasons \ {"low_confidence"}, NEW p \in Sized,
             NEW min \in Thresholds,
             d = WithChunks(FallbackDecision(FallbackLevel, reason, p, min, <<>>),
                            ChunkFallback(reason, p, min, <<>>))
      PROVE  ValidLevelDecision(d) /\ d.level \in Levels
  <2>1. min \in Percent
    BY SelectionAssumption
  <2> DEFINE l == FallbackDecision(FallbackLevel, reason, p, min, <<>>)
             c == ChunkFallback(reason, p, min, <<>>)
  <2>2. ValidWithoutChunks(l) /\ l.minConfidence = min /\ l.level \in Levels
    BY <2>1, FallbackDecisionValid
  <2>3. ValidChunkDecision(c) /\ c.source = "fallback" /\ c.minConfidence = min
    BY <2>1, ChunkFallbackValid
  <2> HIDE DEF l, c
  <2>4. d = WithChunks(l, c)
    BY <1>3 DEF l, c
  <2> QED
    BY <2>2, <2>3, <2>4, WithChunksValid
<1> QED
  BY <1>1, <1>2, <1>3 DEF Built

(* A run with five levels stores every decision. *)
LEMMA BuiltIsStored == BuiltDecisionsAreStored
<1> SUFFICES ASSUME NEW d \in Built
             PROVE  ValidMetadata(NewMetadata(d.level, 5, d))
  BY DEF BuiltDecisionsAreStored
<1> DEFINE m == NewMetadata(d.level, 5, d)
<1>1. ValidLevelDecision(d) /\ d.level \in Levels
  BY BuiltIsValid
<1>2. d # None
  BY FilesAssumption
<1>3. /\ m.level = d.level /\ "levelScale" \in DOMAIN m /\ m.levelScale = 5
      /\ m.levelDecision = d
  BY <1>2 DEF NewMetadata, Merge
<1> HIDE DEF m
<1>4. LevelScale(m) = 5
  BY <1>3 DEF LevelScale
<1> QED
  BY <1>1, <1>3, <1>4 DEF ValidMetadata, Levels, m

(* Every level decision that a selection may have built, for a patch of any
   size and answers and thresholds of any confidence, can be stored; and one
   that is listed was followed, on the patch it was made for
   (select_review_level.ts, the builders and validateLevelDecision;
   review_history.ts, saveAssessment and readDecisionHistory). *)
THEOREM DecisionsFollowed == Spec => []DecisionsHold
<1>1. Inv => DecisionsHold
  BY BuiltIsStored
     DEF Inv, Faithful, PatchMatches, MetadataReadable, ValidMetadata,
         ListedDecisions, DecisionsAreHonoured, DecisionsHold
<1> QED
  BY <1>1, InvInit, InvNext, PTL DEF Spec
-----------------------------------------------------------------------------
(* The evaluation, of any directories. *)

DirsOK(dirs) ==
  /\ IsFiniteSet(DOMAIN dirs)
  /\ \A d \in DOMAIN dirs : \A s \in dirs[d] \ {Part} : IsCounted(s)

LEMMA ChosenOK ==
  ASSUME NEW dirs, DirsOK(dirs)
  PROVE  /\ IsFiniteSet(Selected(dirs))
         /\ \A s \in Selected(dirs) : IsCounted(s)
         /\ \A s, t \in Selected(dirs) : s.meta.runId = t.meta.runId => s = t
<1> DEFINE pick == [d \in DOMAIN dirs |-> SelectedOf(dirs[d])]
           picks == {SelectedOf(dirs[d]) : d \in DOMAIN dirs} \ {None}
<1>1. IsFiniteSet(Selected(dirs))
  <2> DEFINE all == {pick[d] : d \in DOMAIN dirs}
  <2>1. IsFiniteSet(all)
    <3> HIDE DEF pick
    <3> QED BY ValuesFinite DEF DirsOK
  <2>2. Selected(dirs) \subseteq all
    BY DEF Selected
  <2> HIDE DEF all
  <2> QED BY <2>1, <2>2, FS_Subset
<1>2. ASSUME NEW s \in Selected(dirs) PROVE IsCounted(s)
  <2>1. PICK d \in DOMAIN dirs : s = SelectedOf(dirs[d])
    BY DEF Selected
  <2>2. s # None
    BY DEF Selected
  <2> DEFINE files == dirs[d]
  <2>3. /\ Part \notin files /\ Cardinality(Latest(files)) = 1
        /\ s = CHOOSE x \in Latest(files) : TRUE
    BY <2>1, <2>2 DEF SelectedOf
  <2>4. Latest(files) # {}
    BY <2>3, FS_EmptySet
  <2>5. s \in files
    BY <2>3, <2>4 DEF Latest
  <2> QED BY <2>3, <2>5 DEF DirsOK
<1>3. \A s, t \in Selected(dirs) : s.meta.runId = t.meta.runId => s = t
  BY DEF Selected
<1> QED BY <1>1, <1>2, <1>3

(* The cases: one for each model of each run that is used. *)
IsCase(dirs, s, m) == s \in Selected(dirs) /\ m \in ModelsOf(s)

LEMMA Cases ==
  ASSUME NEW dirs
  PROVE  /\ \A c : c \in CasesOf(dirs) <=> \E s, m : IsCase(dirs, s, m) /\ c = <<s, m>>
         /\ \A g : g \in Groups(CasesOf(dirs)) <=>
                     \E s, m : IsCase(dirs, s, m) /\ g = GroupOf(s, m)
<1>1. \A c : c \in CasesOf(dirs) <=> \E s, m : IsCase(dirs, s, m) /\ c = <<s, m>>
  BY DEF CasesOf, IsCase
<1>2. \A s, m : <<s, m>>[1] = s /\ <<s, m>>[2] = m
  OBVIOUS
<1>3. \A g : g \in Groups(CasesOf(dirs)) <=> \E c \in CasesOf(dirs) : g = GroupOf(c[1], c[2])
  BY DEF Groups
<1>4. ASSUME NEW g, NEW s, NEW m, IsCase(dirs, s, m), g = GroupOf(s, m)
      PROVE  g \in Groups(CasesOf(dirs))
  <2>1. <<s, m>> \in CasesOf(dirs)
    BY <1>1, <1>4
  <2> QED BY <1>2, <1>3, <1>4, <2>1
<1>5. ASSUME NEW g \in Groups(CasesOf(dirs))
      PROVE  \E s, m : IsCase(dirs, s, m) /\ g = GroupOf(s, m)
  <2>1. PICK c \in CasesOf(dirs) : g = GroupOf(c[1], c[2])
    BY <1>3
  <2>2. PICK s, m : IsCase(dirs, s, m) /\ c = <<s, m>>
    BY <1>1
  <2> QED BY <2>1, <2>2
<1> QED BY <1>1, <1>4, <1>5

LEMMA GroupsFinite ==
  ASSUME NEW dirs, DirsOK(dirs)
  PROVE  IsFiniteSet(CasesOf(dirs)) /\ IsFiniteSet(Groups(CasesOf(dirs)))
<1> DEFINE cases == [s \in Selected(dirs) |-> {<<s, m>> : m \in ModelsOf(s)}]
           group == [c \in CasesOf(dirs) |-> GroupOf(c[1], c[2])]
<1>1. ASSUME NEW s \in Selected(dirs) PROVE IsFiniteSet(cases[s])
  <2> DEFINE model == [e \in DOMAIN s.execs |-> <<s, s.execs[e].task.model>>]
  <2>1. cases[s] = {model[e] : e \in DOMAIN s.execs}
    BY DEF ModelsOf
  <2>2. IsFiniteSet(DOMAIN s.execs)
    BY ChosenOK DEF IsCounted
  <2> HIDE DEF model, cases
  <2> QED BY <2>1, <2>2, ValuesFinite
<1>2. IsFiniteSet(CasesOf(dirs))
  <2>1. CasesOf(dirs) = UNION {cases[s] : s \in Selected(dirs)}
    BY DEF CasesOf
  <2> HIDE DEF cases
  <2> QED BY <1>1, <2>1, ChosenOK, UnionFinite
<1>3. IsFiniteSet(Groups(CasesOf(dirs)))
  <2>1. Groups(CasesOf(dirs)) = {group[c] : c \in CasesOf(dirs)}
    BY DEF Groups
  <2> HIDE DEF group
  <2> QED BY <1>2, <2>1, ValuesFinite
<1> QED BY <1>2, <1>3

(* Executions of the runs that are used. *)
IsExecution(dirs, s, e) == s \in Selected(dirs) /\ e \in DOMAIN s.execs

LEMMA ExecutionsAre ==
  ASSUME NEW dirs
  PROVE  /\ \A x : x \in Executions(dirs) <=>
              \E s, e : IsExecution(dirs, s, e) /\ x = <<s, e>>
         /\ \A g, x : x \in ExecutionsOfGroup(CasesOf(dirs), g) <=>
              \E s, e : IsExecution(dirs, s, e) /\ x = <<s, e>>
                /\ g = GroupOf(s, s.execs[e].task.model)
<1>1. \A x : x \in Executions(dirs) <=>
        \E s, e : IsExecution(dirs, s, e) /\ x = <<s, e>>
  BY DEF Executions, IsExecution
<1>2. ASSUME NEW g, NEW s, NEW e, IsExecution(dirs, s, e),
             g = GroupOf(s, s.execs[e].task.model)
      PROVE  <<s, e>> \in ExecutionsOfGroup(CasesOf(dirs), g)
  <2> DEFINE m == s.execs[e].task.model  c == <<s, m>>
  <2>1. c \in CasesOf(dirs) /\ e \in ExecsOf(s, m)
    <3>1. IsCase(dirs, s, m) /\ e \in ExecsOf(s, m)
      BY <1>2 DEF IsExecution, IsCase, ModelsOf, ExecsOf
    <3> HIDE DEF m
    <3> QED BY <3>1, Cases
  <2>2. c \in {d \in CasesOf(dirs) : GroupOf(d[1], d[2]) = g}
    BY <1>2, <2>1
  <2>3. <<s, e>> \in {<<c[1], x>> : x \in ExecsOf(c[1], c[2])}
    BY <2>1
  <2> HIDE DEF c
  <2> QED BY <2>2, <2>3 DEF ExecutionsOfGroup
<1>3. ASSUME NEW g, NEW x \in ExecutionsOfGroup(CasesOf(dirs), g)
      PROVE  \E s, e : IsExecution(dirs, s, e) /\ x = <<s, e>>
               /\ g = GroupOf(s, s.execs[e].task.model)
  <2>1. PICK c \in CasesOf(dirs) :
          /\ GroupOf(c[1], c[2]) = g
          /\ \E e \in ExecsOf(c[1], c[2]) : x = <<c[1], e>>
    BY DEF ExecutionsOfGroup
  <2>2. PICK s, m : IsCase(dirs, s, m) /\ c = <<s, m>>
    BY Cases
  <2>3. PICK e \in ExecsOf(s, m) : x = <<s, e>>
    BY <2>1, <2>2
  <2>4. e \in DOMAIN s.execs /\ m = s.execs[e].task.model
    BY DEF ExecsOf
  <2> QED BY <2>1, <2>2, <2>3, <2>4 DEF IsCase, IsExecution
<1> QED BY <1>1, <1>2, <1>3

LEMMA ExecutionsFinite ==
  ASSUME NEW dirs, DirsOK(dirs)
  PROVE  /\ IsFiniteSet(Executions(dirs))
         /\ \A g : IsFiniteSet(ExecutionsOfGroup(CasesOf(dirs), g))
<1> DEFINE part == [s \in Selected(dirs) |-> {<<s, e>> : e \in DOMAIN s.execs}]
<1>1. ASSUME NEW s \in Selected(dirs) PROVE IsFiniteSet(part[s])
  <2> DEFINE pair == [e \in DOMAIN s.execs |-> <<s, e>>]
  <2>1. part[s] = {pair[e] : e \in DOMAIN s.execs}
    OBVIOUS
  <2>2. IsFiniteSet(DOMAIN s.execs)
    BY ChosenOK DEF IsCounted
  <2> HIDE DEF pair, part
  <2> QED BY <2>1, <2>2, ValuesFinite
<1>2. IsFiniteSet(Executions(dirs))
  <2>1. Executions(dirs) = UNION {part[s] : s \in Selected(dirs)}
    BY DEF Executions
  <2> HIDE DEF part
  <2> QED BY <1>1, <2>1, ChosenOK, UnionFinite
<1>3. \A g : ExecutionsOfGroup(CasesOf(dirs), g) \subseteq Executions(dirs)
  BY ExecutionsAre
<1> QED BY <1>2, <1>3, FS_Subset

(* The report has one row for each group. *)
LEMMA RowsAre ==
  ASSUME NEW dirs
  PROVE  /\ \A g \in Groups(CasesOf(dirs)) : \E row \in ModelSummaries(dirs) : row.group = g
         /\ \A row \in ModelSummaries(dirs) :
              /\ row.group \in Groups(CasesOf(dirs))
              /\ row = Summary(CasesOf(dirs), row.group)
<1>1. \A g : Summary(CasesOf(dirs), g).group = g
  BY DEF Summary
<1>2. ModelSummaries(dirs) = {Summary(CasesOf(dirs), g) : g \in Groups(CasesOf(dirs))}
  BY DEF ModelSummaries
<1> QED BY <1>1, <1>2

LEMMA RowsFinite ==
  ASSUME NEW dirs, DirsOK(dirs)
  PROVE  IsFiniteSet(ModelSummaries(dirs))
<1> DEFINE G == Groups(CasesOf(dirs))
           row == [g \in G |-> Summary(CasesOf(dirs), g)]
<1>1. ModelSummaries(dirs) = {row[g] : g \in G}
  BY DEF ModelSummaries
<1>2. IsFiniteSet(G)
  BY GroupsFinite
<1> HIDE DEF row, G
<1> QED BY <1>1, <1>2, ValuesFinite

LEMMA ExecutionsAddUp ==
  ASSUME NEW dirs, DirsOK(dirs)
  PROVE  SumFunction([row \in ModelSummaries(dirs) |-> row.executions.total])
           = Cardinality(Executions(dirs))
<1> DEFINE G == ModelSummaries(dirs)
           p == [row \in G |-> ExecutionsOfGroup(CasesOf(dirs), row.group)]
           f == [row \in G |-> row.executions.total]
<1>1. \A row \in G : IsFiniteSet(p[row]) /\ f[row] = Cardinality(p[row])
  <2>1. \A g : Summary(CasesOf(dirs), g).executions.total
                 = Cardinality(ExecutionsOfGroup(CasesOf(dirs), g))
    BY DEF Summary, ExecutionStats
  <2>2. \A row \in G : row.executions.total
                 = Cardinality(ExecutionsOfGroup(CasesOf(dirs), row.group))
    BY <2>1, RowsAre
  <2> QED BY <2>2, ExecutionsFinite
<1>2. \A g, h \in G : g # h => p[g] \cap p[h] = {}
  <2>1. \A g, h \in G : g # h => g.group # h.group
    BY RowsAre
  <2> QED BY <2>1, ExecutionsAre
<1>3. \A x : x \in Executions(dirs) <=> \E g \in G : x \in p[g]
  <2>1. \A x : (\E g \in G : x \in p[g]) => x \in Executions(dirs)
    BY ExecutionsAre
  <2>2. ASSUME NEW x \in Executions(dirs) PROVE \E g \in G : x \in p[g]
    <3>1. PICK s, e : IsExecution(dirs, s, e) /\ x = <<s, e>>
      BY ExecutionsAre
    <3> DEFINE m == s.execs[e].task.model
    <3>2. \E row \in G : row.group = GroupOf(s, m)
      <4>1. IsCase(dirs, s, m)
        BY <3>1 DEF IsExecution, IsCase, ModelsOf
      <4> HIDE DEF m
      <4> QED BY <4>1, Cases, RowsAre
    <3>3. x \in ExecutionsOfGroup(CasesOf(dirs), GroupOf(s, m))
      BY <3>1, ExecutionsAre
    <3> QED BY <3>2, <3>3
  <2> QED BY <2>1, <2>2
<1>4. SumFunction(f) = SumFunctionOnSet(f, G)
  BY DEF SumFunction
<1>5. IsFiniteSet(G)
  BY RowsFinite
<1> HIDE DEF f, p, G
<1>6. SumFunctionOnSet(f, G) = Cardinality(Executions(dirs))
  BY <1>1, <1>2, <1>3, <1>5, SumOfParts
<1> QED BY <1>4, <1>6 DEF f, G

(* Findings of the runs that are used. *)
IsFinding(dirs, s, e, id) ==
  IsExecution(dirs, s, e) /\ id \in DOMAIN s.reviews[e].findings

LEMMA FindingsAre ==
  ASSUME NEW dirs
  PROVE  /\ \A y : y \in Findings(dirs) <=>
              \E s, e, id : IsFinding(dirs, s, e, id) /\ y = <<<<s, e>>, id>>
         /\ \A s, m, r : r \in FindingRefs(s, m) <=>
              \E e, id : /\ e \in ExecsOf(s, m)
                         /\ id \in DOMAIN s.reviews[e].findings
                         /\ r = <<e, id>>
<1>1. \A s, m, r : r \in FindingRefs(s, m) <=>
        \E e, id : /\ e \in ExecsOf(s, m)
                   /\ id \in DOMAIN s.reviews[e].findings
                   /\ r = <<e, id>>
  BY DEF FindingRefs
<1>2. ASSUME NEW s, NEW e, NEW id, IsFinding(dirs, s, e, id)
      PROVE  <<<<s, e>>, id>> \in Findings(dirs)
  <2> DEFINE x == <<s, e>>
  <2>1. x \in Executions(dirs)
    BY <1>2, ExecutionsAre DEF IsFinding
  <2>2. id \in FindingsOf(x)
    BY <1>2 DEF IsFinding, FindingsOf
  <2> HIDE DEF x
  <2>3. <<x, id>> \in Findings(dirs)
    BY <2>1, <2>2 DEF Findings
  <2> QED BY <2>3 DEF x
<1>3. ASSUME NEW y \in Findings(dirs)
      PROVE  \E s, e, id : IsFinding(dirs, s, e, id) /\ y = <<<<s, e>>, id>>
  <2>1. PICK x \in Executions(dirs) : \E id \in FindingsOf(x) : y = <<x, id>>
    BY DEF Findings
  <2>2. PICK id \in FindingsOf(x) : y = <<x, id>>
    BY <2>1
  <2>3. PICK s, e : IsExecution(dirs, s, e) /\ x = <<s, e>>
    BY ExecutionsAre
  <2>4. id \in DOMAIN s.reviews[e].findings
    BY <2>3 DEF FindingsOf
  <2> QED BY <2>2, <2>3, <2>4 DEF IsFinding
<1> QED BY <1>1, <1>2, <1>3

LEMMA FindingsFinite ==
  ASSUME NEW dirs, DirsOK(dirs)
  PROVE  /\ IsFiniteSet(Findings(dirs))
         /\ \A s \in Selected(dirs) : \A m : IsFiniteSet(FindingRefs(s, m))
<1> DEFINE part == [x \in Executions(dirs) |-> {<<x, id>> : id \in FindingsOf(x)}]
<1>1. ASSUME NEW s, NEW e, IsExecution(dirs, s, e)
      PROVE  IsFiniteSet(DOMAIN s.reviews[e].findings)
  BY <1>1, ChosenOK DEF IsExecution, IsCounted
<1>2. ASSUME NEW x \in Executions(dirs) PROVE IsFiniteSet(part[x])
  <2> DEFINE pair == [id \in FindingsOf(x) |-> <<x, id>>]
  <2>1. part[x] = {pair[id] : id \in FindingsOf(x)}
    OBVIOUS
  <2>2. IsFiniteSet(FindingsOf(x))
    <3>1. PICK s, e : IsExecution(dirs, s, e) /\ x = <<s, e>>
      BY ExecutionsAre
    <3> QED BY <1>1, <3>1 DEF FindingsOf
  <2> HIDE DEF pair, part
  <2> QED BY <2>1, <2>2, ValuesFinite
<1>3. IsFiniteSet(Findings(dirs))
  <2>1. Findings(dirs) = UNION {part[x] : x \in Executions(dirs)}
    BY DEF Findings
  <2> HIDE DEF part
  <2> QED BY <1>2, <2>1, ExecutionsFinite, UnionFinite
<1>4. ASSUME NEW s \in Selected(dirs), NEW m PROVE IsFiniteSet(FindingRefs(s, m))
  <2> DEFINE refs == [e \in ExecsOf(s, m) |-> {<<e, id>> : id \in DOMAIN s.reviews[e].findings}]
  <2>1. ASSUME NEW e \in ExecsOf(s, m) PROVE IsFiniteSet(refs[e])
    <3> DEFINE pair == [id \in DOMAIN s.reviews[e].findings |-> <<e, id>>]
    <3>1. refs[e] = {pair[id] : id \in DOMAIN s.reviews[e].findings}
      OBVIOUS
    <3>2. IsFiniteSet(DOMAIN s.reviews[e].findings)
      BY <1>1 DEF ExecsOf, IsExecution
    <3> HIDE DEF pair, refs
    <3> QED BY <3>1, <3>2, ValuesFinite
  <2>2. FindingRefs(s, m) = UNION {refs[e] : e \in ExecsOf(s, m)}
    BY DEF FindingRefs
  <2>3. IsFiniteSet(ExecsOf(s, m))
    <3>1. IsFiniteSet(DOMAIN s.execs) /\ ExecsOf(s, m) \subseteq DOMAIN s.execs
      BY ChosenOK DEF IsCounted, ExecsOf
    <3> QED BY <3>1, FS_Subset
  <2> HIDE DEF refs
  <2> QED BY <2>1, <2>2, <2>3, UnionFinite
<1> QED BY <1>3, <1>4

(* The issues of a group, and what is written of each. *)
IsIssue(dirs, g, i, s, m, key) ==
  /\ IsCase(dirs, s, m) /\ GroupOf(s, m) = g
  /\ key \in {Finding(s, r).key : r \in FindingRefs(s, m)}
  /\ i = IssueOf(s, m, key)

LEMMA IssuesAre ==
  ASSUME NEW dirs, NEW g
  PROVE  \A i : i \in IssuesOfGroup(CasesOf(dirs), g) <=>
                  \E s, m, key : IsIssue(dirs, g, i, s, m, key)
<1>1. ASSUME NEW i, NEW s, NEW m, NEW key, IsIssue(dirs, g, i, s, m, key)
      PROVE  i \in IssuesOfGroup(CasesOf(dirs), g)
  <2> DEFINE c == <<s, m>>
  <2>1. c \in CasesOf(dirs)
    BY <1>1, Cases DEF IsIssue
  <2>2. GroupOf(c[1], c[2]) = g /\ i \in Issues(c[1], c[2])
    BY <1>1 DEF IsIssue, Issues
  <2> HIDE DEF c
  <2> QED BY <2>1, <2>2 DEF IssuesOfGroup
<1>2. ASSUME NEW i \in IssuesOfGroup(CasesOf(dirs), g)
      PROVE  \E s, m, key : IsIssue(dirs, g, i, s, m, key)
  <2>1. PICK c \in CasesOf(dirs) : GroupOf(c[1], c[2]) = g /\ i \in Issues(c[1], c[2])
    BY DEF IssuesOfGroup
  <2>2. PICK s, m : IsCase(dirs, s, m) /\ c = <<s, m>>
    BY Cases
  <2>3. GroupOf(s, m) = g /\ i \in Issues(s, m)
    BY <2>1, <2>2
  <2>4. PICK key \in {Finding(s, r).key : r \in FindingRefs(s, m)} : i = IssueOf(s, m, key)
    BY <2>3 DEF Issues
  <2> QED BY <2>2, <2>3, <2>4 DEF IsIssue
<1> QED BY <1>1, <1>2

LEMMA IssuesFinite ==
  ASSUME NEW dirs, DirsOK(dirs), NEW g
  PROVE  IsFiniteSet(IssuesOfGroup(CasesOf(dirs), g))
<1> DEFINE cases == {c \in CasesOf(dirs) : GroupOf(c[1], c[2]) = g}
           issues == [c \in cases |-> Issues(c[1], c[2])]
<1>1. ASSUME NEW c \in cases PROVE IsFiniteSet(issues[c])
  <2>1. PICK s, m : IsCase(dirs, s, m) /\ c = <<s, m>>
    BY Cases
  <2> DEFINE refs == FindingRefs(s, m)
             issue == [r \in refs |-> IssueOf(s, m, Finding(s, r).key)]
  <2>2. issues[c] = {issue[r] : r \in refs}
    BY <2>1 DEF Issues
  <2>3. IsFiniteSet(refs)
    BY <2>1, FindingsFinite DEF IsCase
  <2> HIDE DEF issue, refs, issues
  <2> QED BY <2>2, <2>3, ValuesFinite
<1>2. IsFiniteSet(cases)
  <2>1. cases \subseteq CasesOf(dirs)
    OBVIOUS
  <2> HIDE DEF cases
  <2> QED BY <2>1, GroupsFinite, FS_Subset
<1>3. IssuesOfGroup(CasesOf(dirs), g) = UNION {issues[c] : c \in cases}
  BY DEF IssuesOfGroup
<1> HIDE DEF issues, cases
<1> QED BY <1>1, <1>2, <1>3, UnionFinite

FindingsOfGroup(dirs, g) ==
  {y \in Findings(dirs) :
     GroupOf(y[1][1], y[1][1].execs[y[1][2]].task.model) = g}

(* The findings that were consolidated into an issue. *)
FoundFor(dirs, g, i) ==
  {y \in FindingsOfGroup(dirs, g) :
     /\ y[1][1].meta.runId = i.runId
     /\ y[1][1].reviews[y[1][2]].findings[y[2]].key = i.key}

LEMMA FoundAre ==
  ASSUME NEW dirs, NEW g, NEW i
  PROVE  \A y : y \in FoundFor(dirs, g, i) <=>
           \E s, e, id :
             /\ IsFinding(dirs, s, e, id) /\ y = <<<<s, e>>, id>>
             /\ GroupOf(s, s.execs[e].task.model) = g
             /\ s.meta.runId = i.runId /\ s.reviews[e].findings[id].key = i.key
<1>1. ASSUME NEW y \in FoundFor(dirs, g, i)
      PROVE  \E s, e, id :
               /\ IsFinding(dirs, s, e, id) /\ y = <<<<s, e>>, id>>
               /\ GroupOf(s, s.execs[e].task.model) = g
               /\ s.meta.runId = i.runId /\ s.reviews[e].findings[id].key = i.key
  <2>1. PICK s, e, id : IsFinding(dirs, s, e, id) /\ y = <<<<s, e>>, id>>
    BY FindingsAre DEF FoundFor, FindingsOfGroup
  <2>2. y[1][1] = s /\ y[1][2] = e /\ y[2] = id
    BY <2>1
  <2> QED BY <2>1, <2>2 DEF FoundFor, FindingsOfGroup
<1>2. ASSUME NEW s, NEW e, NEW id, IsFinding(dirs, s, e, id),
             GroupOf(s, s.execs[e].task.model) = g,
             s.meta.runId = i.runId, s.reviews[e].findings[id].key = i.key
      PROVE  <<<<s, e>>, id>> \in FoundFor(dirs, g, i)
  <2> DEFINE y == <<<<s, e>>, id>>
  <2>1. y \in Findings(dirs)
    BY <1>2, FindingsAre
  <2>2. y[1][1] = s /\ y[1][2] = e /\ y[2] = id
    OBVIOUS
  <2> HIDE DEF y
  <2>3. y \in FoundFor(dirs, g, i)
    BY <1>2, <2>1, <2>2 DEF FoundFor, FindingsOfGroup
  <2> QED BY <2>3 DEF y
<1> QED BY <1>1, <1>2

(* An issue counts each of its findings. *)
LEMMA IssueCounts ==
  ASSUME NEW dirs, DirsOK(dirs), NEW g, NEW i \in IssuesOfGroup(CasesOf(dirs), g)
  PROVE  /\ IsFiniteSet(FoundFor(dirs, g, i))
         /\ i.rawFindings = Cardinality(FoundFor(dirs, g, i))
<1>1. PICK s, m, key : IsIssue(dirs, g, i, s, m, key)
  BY IssuesAre
<1> DEFINE refs == {r \in FindingRefs(s, m) : Finding(s, r).key = key}
           whole == [r \in refs |-> <<<<s, r[1]>>, r[2]>>]
           found == FoundFor(dirs, g, i)
<1>2. /\ i.runId = s.meta.runId /\ i.key = key /\ i.rawFindings = Cardinality(refs)
      /\ s \in Selected(dirs) /\ GroupOf(s, m) = g
  BY <1>1 DEF IsIssue, IssueOf, IsCase
<1>3. IsFiniteSet(refs)
  <2>1. IsFiniteSet(FindingRefs(s, m)) /\ refs \subseteq FindingRefs(s, m)
    BY <1>2, FindingsFinite
  <2> HIDE DEF refs
  <2> QED BY <2>1, FS_Subset
<1>4. \A q, r \in refs : whole[q] = whole[r] => q = r
  <2> SUFFICES ASSUME NEW q \in refs, NEW r \in refs, whole[q] = whole[r] PROVE q = r
    OBVIOUS
  <2>1. PICK e, id : q = <<e, id>>
    <3>1. q \in FindingRefs(s, m)
      OBVIOUS
    <3> QED BY <3>1 DEF FindingRefs
  <2>2. PICK e2, id2 : r = <<e2, id2>>
    <3>1. r \in FindingRefs(s, m)
      OBVIOUS
    <3> QED BY <3>1 DEF FindingRefs
  <2>3. <<<<s, e>>, id>> = <<<<s, e2>>, id2>>
    BY <2>1, <2>2
  <2> QED BY <2>1, <2>2, <2>3
<1>5. ASSUME NEW r \in refs PROVE whole[r] \in found
  <2>1. PICK e, id : /\ e \in ExecsOf(s, m) /\ id \in DOMAIN s.reviews[e].findings
                     /\ r = <<e, id>>
    BY FindingsAre
  <2>2. whole[r] = <<<<s, e>>, id>> /\ s.reviews[e].findings[id].key = key
    BY <2>1 DEF Finding
  <2>3. IsFinding(dirs, s, e, id) /\ s.execs[e].task.model = m
    BY <1>2, <2>1 DEF IsFinding, IsExecution, ExecsOf
  <2> HIDE DEF whole, refs
  <2> QED BY <1>2, <2>2, <2>3, FoundAre
<1>6. ASSUME NEW y \in found PROVE \E r \in refs : y = whole[r]
  <2>1. PICK t, e, id :
          /\ IsFinding(dirs, t, e, id) /\ y = <<<<t, e>>, id>>
          /\ GroupOf(t, t.execs[e].task.model) = g
          /\ t.meta.runId = i.runId /\ t.reviews[e].findings[id].key = i.key
    BY FoundAre
  <2>2. t = s
    BY <1>2, <2>1, ChosenOK DEF IsFinding, IsExecution
  <2>3. s.execs[e].task.model = m
    BY <1>2, <2>1, <2>2 DEF GroupOf
  <2>4. e \in ExecsOf(s, m) /\ id \in DOMAIN s.reviews[e].findings
    BY <2>1, <2>2, <2>3 DEF IsFinding, IsExecution, ExecsOf
  <2> DEFINE r == <<e, id>>
  <2>5. r \in FindingRefs(s, m)
    BY <2>4, FindingsAre
  <2>6. Finding(s, r).key = key
    BY <1>2, <2>1, <2>2 DEF Finding
  <2>7. r \in refs
    BY <2>5, <2>6
  <2>8. y = whole[r]
    BY <2>1, <2>2, <2>7
  <2> QED BY <2>7, <2>8
<1> HIDE DEF refs, whole, found
<1>7. \A y : y \in found <=> \E r \in refs : y = whole[r]
  BY <1>5, <1>6
<1>8. IsFiniteSet(found) /\ Cardinality(found) = Cardinality(refs)
  BY <1>3, <1>4, <1>7, SameSize
<1> QED BY <1>2, <1>8 DEF found

LEMMA IssuesAddUp ==
  ASSUME NEW dirs, DirsOK(dirs), NEW g
  PROVE  /\ IsFiniteSet(FindingsOfGroup(dirs, g))
         /\ SumFunction([i \in IssuesOfGroup(CasesOf(dirs), g) |-> i.rawFindings])
              = Cardinality(FindingsOfGroup(dirs, g))
<1> DEFINE I == IssuesOfGroup(CasesOf(dirs), g)
           p == [i \in I |-> FoundFor(dirs, g, i)]
           f == [i \in I |-> i.rawFindings]
           W == FindingsOfGroup(dirs, g)
<1>1. \A i \in I : IsFiniteSet(p[i]) /\ f[i] = Cardinality(p[i])
  BY IssueCounts
<1>2. ASSUME NEW i \in I, NEW j \in I, p[i] \cap p[j] # {} PROVE i = j
  <2>1. i.runId = j.runId /\ i.key = j.key
    BY <1>2 DEF FoundFor
  <2>2. PICK s, m, key : IsIssue(dirs, g, i, s, m, key)
    BY IssuesAre
  <2>3. PICK t, n, k : IsIssue(dirs, g, j, t, n, k)
    BY IssuesAre
  <2>4. s.meta.runId = t.meta.runId /\ key = k /\ m = n
    BY <2>1, <2>2, <2>3 DEF IsIssue, IssueOf, GroupOf
  <2>5. s = t
    BY <2>2, <2>3, <2>4, ChosenOK DEF IsIssue, IsCase
  <2> QED BY <2>2, <2>3, <2>4, <2>5 DEF IsIssue
<1>3. \A i, j \in I : i # j => p[i] \cap p[j] = {}
  BY <1>2
<1>4. \A y : y \in W <=> \E i \in I : y \in p[i]
  <2>1. \A y : (\E i \in I : y \in p[i]) => y \in W
    BY DEF FoundFor
  <2>2. ASSUME NEW y \in W PROVE \E i \in I : y \in p[i]
    <3>1. PICK s, e, id : IsFinding(dirs, s, e, id) /\ y = <<<<s, e>>, id>>
      BY FindingsAre DEF FindingsOfGroup
    <3> DEFINE m == s.execs[e].task.model
               r == <<e, id>>
               key == s.reviews[e].findings[id].key
               i == IssueOf(s, m, key)
    <3>2. GroupOf(s, m) = g
      <4>1. y[1][1] = s /\ y[1][2] = e
        BY <3>1
      <4> QED BY <4>1 DEF FindingsOfGroup
    <3>3. IsCase(dirs, s, m) /\ e \in ExecsOf(s, m) /\ id \in DOMAIN s.reviews[e].findings
      BY <3>1 DEF IsFinding, IsExecution, IsCase, ModelsOf, ExecsOf
    <3>4. r \in FindingRefs(s, m) /\ Finding(s, r).key = key
      BY <3>3, FindingsAre DEF Finding
    <3>5. i.runId = s.meta.runId /\ i.key = key
      BY DEF IssueOf
    <3> HIDE DEF m, r, key, i
    <3>6. IsIssue(dirs, g, i, s, m, key)
      BY <3>2, <3>3, <3>4 DEF IsIssue, i
    <3>7. i \in I
      BY <3>6, IssuesAre
    <3>8. y \in FoundFor(dirs, g, i)
      BY <3>1, <3>2, <3>5, FoundAre DEF m, key
    <3> QED BY <3>7, <3>8
  <2> QED BY <2>1, <2>2
<1>5. SumFunction(f) = SumFunctionOnSet(f, I)
  BY DEF SumFunction
<1>6. IsFiniteSet(I)
  BY IssuesFinite
<1> HIDE DEF f, p, I, W
<1>7. IsFiniteSet(W) /\ SumFunctionOnSet(f, I) = Cardinality(W)
  BY <1>1, <1>3, <1>4, <1>6, SumOfParts
<1> QED BY <1>5, <1>7 DEF f, I, W

LEMMA FindingsAddUp ==
  ASSUME NEW dirs, DirsOK(dirs)
  PROVE  SumFunction([row \in ModelSummaries(dirs) |-> row.issues.rawFindings])
           = Cardinality(Findings(dirs))
<1> DEFINE G == ModelSummaries(dirs)
           p == [row \in G |-> FindingsOfGroup(dirs, row.group)]
           f == [row \in G |-> row.issues.rawFindings]
<1>1. \A row \in G : IsFiniteSet(p[row]) /\ f[row] = Cardinality(p[row])
  <2> SUFFICES ASSUME NEW row \in G PROVE IsFiniteSet(p[row]) /\ f[row] = Cardinality(p[row])
    OBVIOUS
  <2> DEFINE g == row.group
  <2>1. Summary(CasesOf(dirs), g).issues.rawFindings
          = SumFunction([i \in IssuesOfGroup(CasesOf(dirs), g) |-> i.rawFindings])
    BY DEF Summary, IssueSummary
  <2>2. row = Summary(CasesOf(dirs), g)
    BY RowsAre
  <2>3. f[row] = row.issues.rawFindings /\ p[row] = FindingsOfGroup(dirs, g)
    OBVIOUS
  <2> HIDE DEF g, f, p, G
  <2> QED BY <2>1, <2>2, <2>3, IssuesAddUp
<1>2. \A g, h \in G : g # h => p[g] \cap p[h] = {}
  <2>1. \A g, h \in G : g # h => g.group # h.group
    BY RowsAre
  <2> QED BY <2>1 DEF FindingsOfGroup
<1>3. \A y : y \in Findings(dirs) <=> \E g \in G : y \in p[g]
  <2>1. \A y : (\E g \in G : y \in p[g]) => y \in Findings(dirs)
    BY DEF FindingsOfGroup
  <2>2. ASSUME NEW y \in Findings(dirs) PROVE \E g \in G : y \in p[g]
    <3>1. PICK s, e, id : IsFinding(dirs, s, e, id) /\ y = <<<<s, e>>, id>>
      BY FindingsAre
    <3> DEFINE m == s.execs[e].task.model
    <3>2. \E row \in G : row.group = GroupOf(s, m)
      <4>1. IsCase(dirs, s, m)
        BY <3>1 DEF IsFinding, IsExecution, IsCase, ModelsOf
      <4> HIDE DEF m
      <4> QED BY <4>1, Cases, RowsAre
    <3>3. y \in FindingsOfGroup(dirs, GroupOf(s, m))
      <4>1. y[1][1] = s /\ y[1][2] = e
        BY <3>1
      <4> QED BY <4>1 DEF FindingsOfGroup
    <3> QED BY <3>2, <3>3
  <2> QED BY <2>1, <2>2
<1>4. SumFunction(f) = SumFunctionOnSet(f, G)
  BY DEF SumFunction
<1>5. IsFiniteSet(G)
  BY RowsFinite
<1> HIDE DEF f, p, G
<1>6. SumFunctionOnSet(f, G) = Cardinality(Findings(dirs))
  BY <1>1, <1>2, <1>3, <1>5, SumOfParts
<1> QED BY <1>4, <1>6 DEF f, G

(* A reviewer whose answer was read had succeeded. *)
LEMMA SuccessSpeaks ==
  ASSUME NEW dirs, DirsOK(dirs)
  PROVE  OnlySuccessSpeaks(ModelSummaries(dirs))
<1> SUFFICES ASSUME NEW g \in Groups(CasesOf(dirs))
             PROVE  LET x == Summary(CasesOf(dirs), g).executions IN
                    x.no_findings + x.unparsed <= x.successful
  BY RowsAre DEF OnlySuccessSpeaks
<1> DEFINE refs == ExecutionsOfGroup(CasesOf(dirs), g)
           Rec(x) == x[1].execs[x[2]].record
           completed == {x \in refs : Rec(x).status \notin {"pending", "running"}}
           failed == {x \in completed : Rec(x).exit # 0}
           With(verdict) == {x \in completed : x[1].reviews[x[2]].verdict = verdict}
           none == With("no_findings")
           unparsed == With("unparsed")
           successful == completed \ failed
<1>1. LET x == Summary(CasesOf(dirs), g).executions IN
      /\ x.no_findings = Cardinality(none) /\ x.unparsed = Cardinality(unparsed)
      /\ x.successful = Cardinality(successful)
  BY DEF Summary, ExecutionStats
<1>2. ASSUME NEW x \in refs, x[1].reviews[x[2]].verdict \in {"no_findings", "unparsed"}
      PROVE  Rec(x).exit = 0
  <2>1. PICK s, e : IsExecution(dirs, s, e) /\ x = <<s, e>>
    BY ExecutionsAre
  <2>2. ValidReview(s.execs[e].record, s.reviews[e])
    BY <2>1, ChosenOK DEF IsExecution, IsCounted
  <2>3. ~Unsuccessful(s.execs[e].record)
    BY <1>2, <2>1, <2>2 DEF ValidReview
  <2> QED BY <2>1, <2>3 DEF Unsuccessful
<1>3. none \subseteq successful /\ unparsed \subseteq successful
  BY <1>2
<1>4. none \cap unparsed = {}
  OBVIOUS
<1>5. IsFiniteSet(refs) /\ successful \subseteq refs
  BY ExecutionsFinite
<1> HIDE DEF refs, completed, failed, none, unparsed, successful, With
<1>6. IsFiniteSet(successful)
  BY <1>5, FS_Subset
<1> DEFINE both == none \cup unparsed
<1>7. IsFiniteSet(none) /\ IsFiniteSet(unparsed)
  BY <1>3, <1>6, FS_Subset
<1>8. Cardinality(both) = Cardinality(none) + Cardinality(unparsed)
  BY <1>4, <1>7, DisjointUnion
<1>9. both \subseteq successful
  BY <1>3
<1> HIDE DEF both
<1>10. Cardinality(both) <= Cardinality(successful)
  BY <1>6, <1>9, FS_Subset
<1> QED BY <1>1, <1>8, <1>10

LEMMA Consolidated ==
  ASSUME NEW values, IsFiniteSet(values), NEW v, v # "conflict",
         Consolidate(values) = v
  PROVE  values = {v}
<1>1. Cardinality(values) = 1
  BY DEF Consolidate
<1>2. PICK x : values = {x}
  BY <1>1, FS_Singleton
<1> QED BY <1>1, <1>2 DEF Consolidate

LEMMA Compared ==
  ASSUME NEW dirs, DirsOK(dirs), NEW s \in Selected(dirs)
  PROVE  ComparedFairly(s)
<1>1. ASSUME NEW m \in ModelsOf(s), NEW i \in Issues(s, m), i.decision = "accepted",
             NEW r \in FindingRefs(s, m), Finding(s, r).key = i.key
      PROVE  Finding(s, r).decision = "accepted"
  <2>1. PICK key : i = IssueOf(s, m, key)
    BY DEF Issues
  <2> DEFINE found == {q \in FindingRefs(s, m) : Finding(s, q).key = key}
             values == {Finding(s, q).decision : q \in found}
             value == [q \in found |-> Finding(s, q).decision]
  <2>2. Consolidate(values) = "accepted" /\ i.key = key
    <3>1. i.decision = Consolidate({Finding(s, q)["decision"] : q \in found})
      BY <2>1 DEF IssueOf
    <3> QED BY <1>1, <2>1, <3>1 DEF IssueOf
  <2>3. IsFiniteSet(values)
    <3>1. IsFiniteSet(FindingRefs(s, m)) /\ found \subseteq FindingRefs(s, m)
      BY FindingsFinite
    <3>2. values = {value[q] : q \in found}
      OBVIOUS
    <3> HIDE DEF found, value, values
    <3>3. IsFiniteSet(found)
      BY <3>1, FS_Subset
    <3> QED BY <3>2, <3>3, ValuesFinite
  <2>4. Finding(s, r).decision \in values
    BY <1>1, <2>2
  <2> HIDE DEF values
  <2>5. values = {"accepted"}
    BY <2>2, <2>3, Consolidated
  <2> QED BY <2>4, <2>5
<1>2. ASSUME NEW m \in ModelsOf(s), ComparableForQuality(s, m)
      PROVE  \E other \in ModelsOf(s) \ {m} : ComparableForQuality(s, other)
  <2>1. PICK other \in ModelsOf(s) \ {m} :
          CompletedParsed(s, other) /\ Coverage(s, other) = Coverage(s, m)
    BY <1>2 DEF ComparableForQuality
  <2>2. ComparableForQuality(s, other)
    BY <1>2, <2>1 DEF ComparableForQuality
  <2> QED BY <2>1, <2>2
<1> QED BY <1>1, <1>2 DEF ComparedFairly

(* The directories that the evaluation reads, beside this run and its copy. *)
LEMMA RunDirsOK == Inv => DirsOK(RunDirs)
<1> SUFFICES ASSUME Inv PROVE DirsOK(RunDirs)
  OBVIOUS
<1>1. ASSUME NEW i \in DOMAIN snapshots PROVE IsCounted(snapshots[i])
  <2> DEFINE s == snapshots[i]
  <2>1. s \in Snapshots /\ IsSnapshot(s)
    BY DEF Inv, FilesOK, HistoryTypeOK
  <2>2. s.reviews \in OfSomeExecs(Reviews)
    BY <2>1 DEF Snapshots
  <2>3. DOMAIN s.reviews \subseteq Execs /\ \A e \in DOMAIN s.reviews : s.reviews[e] \in Reviews
    BY <2>2 DEF OfSomeExecs
  <2>4. ASSUME NEW review \in Reviews PROVE IsFiniteSet(DOMAIN review.findings)
    <3>1. DOMAIN review.findings = {} \/ DOMAIN review.findings = {"f1"}
      BY DEF Reviews
    <3>2. IsFiniteSet({}) /\ IsFiniteSet({"f1"})
      BY FS_EmptySet, FS_Singleton
    <3> QED BY <3>1, <3>2
  <2>5. IsFiniteSet(DOMAIN s.reviews)
    BY <2>3, DirsAssumption, FS_Subset
  <2> HIDE DEF s
  <2> QED BY <2>1, <2>3, <2>4, <2>5 DEF IsSnapshot, IsCounted, s
<1> DEFINE own == Range(snapshots)
           copy == Range(SubSeq(snapshots, 1, copied))
           last == IF copied = None THEN <<>> ELSE [copy |-> copy]
           here == Merge([run |-> own], last)
<1>2. \A x \in own : IsCounted(x)
  BY <1>1 DEF Range
<1>3. copied # None => copy \subseteq own
  <2> SUFFICES ASSUME copied # None PROVE copy \subseteq own
    OBVIOUS
  <2>1. copied \in 1..Len(snapshots) /\ snapshots \in Seq(Snapshots)
    BY DEF Inv, HistoryTypeOK, FilesOK
  <2>2. Len(snapshots) \in Nat /\ DOMAIN snapshots = 1..Len(snapshots)
    BY <2>1
  <2>3. DOMAIN SubSeq(snapshots, 1, copied) = 1..copied
        /\ \A i \in 1..copied : SubSeq(snapshots, 1, copied)[i] = snapshots[i]
    BY <2>1, <2>2
  <2> QED BY <2>1, <2>2, <2>3 DEF Range
<1>4. /\ DOMAIN here \subseteq {"run", "copy"}
      /\ \A d \in DOMAIN here : here[d] \subseteq own
  <2> HIDE DEF own, copy
  <2>1. DOMAIN last \subseteq {"copy"} /\ \A d \in DOMAIN last : last[d] \subseteq own
    BY <1>3
  <2> HIDE DEF last
  <2> QED BY <2>1 DEF Merge
<1>5. RunDirs = Merge(OtherDirs, here)
  BY DEF RunDirs
<1> HIDE DEF here, own
<1>6. /\ DOMAIN RunDirs = DOMAIN OtherDirs \cup DOMAIN here
      /\ \A d \in DOMAIN RunDirs :
           \/ d \in DOMAIN OtherDirs /\ RunDirs[d] = OtherDirs[d]
           \/ d \in DOMAIN here /\ RunDirs[d] = here[d]
  BY <1>5 DEF Merge
<1>7. IsFiniteSet(DOMAIN RunDirs)
  <2> DEFINE names == DOMAIN here
  <2>1. IsFiniteSet({"run", "copy"})
    <3>1. IsFiniteSet({"run"}) /\ IsFiniteSet({"copy"})
      BY FS_Singleton
    <3>2. IsFiniteSet({"run"} \cup {"copy"})
      BY <3>1, FS_Union
    <3>3. {"run", "copy"} = {"run"} \cup {"copy"}
      OBVIOUS
    <3> QED BY <3>2, <3>3
  <2>2. names \subseteq {"run", "copy"}
    BY <1>4
  <2> HIDE DEF names
  <2>3. IsFiniteSet(names)
    BY <2>1, <2>2, FS_Subset
  <2> QED BY <1>6, <2>3, DirsAssumption, FS_Union DEF names
<1> QED BY <1>2, <1>4, <1>6, <1>7, DirsAssumption DEF DirsOK

(* Whatever other runs and copies of directories there are, and however many
   models, executions and findings, the groups of evaluate_models.ts add up to
   every execution and finding of the runs that are used, each counted once; no
   failure passes for a review without findings, nor a conflict for an accepted
   issue. *)
THEOREM ReportAlwaysSound == Spec => []ReportIsSound
<1>1. ASSUME NEW dirs, DirsOK(dirs)
      PROVE  /\ CountedOnce(dirs, ModelSummaries(dirs))
             /\ OnlySuccessSpeaks(ModelSummaries(dirs))
             /\ \A s \in Selected(dirs) : ComparedFairly(s)
  BY <1>1, ChosenOK, ExecutionsAddUp, FindingsAddUp, SuccessSpeaks, Compared DEF CountedOnce
<1>2. Inv => ReportIsSound
  BY <1>1, RunDirsOK DEF ReportIsSound
<1> QED
  BY <1>2, InvInit, InvNext, PTL DEF Spec
=============================================================================
