--------------------------- MODULE ModelEvaluation ---------------------------
(***************************************************************************)
(* The offline evaluation of review models (evaluate_models.ts): which     *)
(* snapshot of each run directory is used, and what is counted from it.    *)
(* A directory is the set of the contents of its snapshot files, so that   *)
(* files with equal contents are one element; a file that does not         *)
(* validate is Part.                                                       *)
(***************************************************************************)
EXTENDS Integers, FiniteSets, Functions

CONSTANTS
  Execs,   \* ids of executions
  None,    \* an absent value
  Part     \* the contents of a file of which a part was written

Unsuccessful(record) == record.status # "completed" \/ record.exit # 0

LevelScale(m) == IF "levelScale" \in DOMAIN m THEN m.levelScale ELSE 3

-----------------------------------------------------------------------------
(* The snapshot that represents a directory, and a run. *)

RunIds(snaps) == {s.meta.runId : s \in snaps}

(* Broken: a tie of different snapshots is resolved by the file name. *)
LatestOrAny(snaps) ==
  {CHOOSE s \in snaps : \A t \in snaps : t.savedAt <= s.savedAt}

Latest(snaps) == {s \in snaps : \A t \in snaps : t.savedAt <= s.savedAt}

(* None when the directory is excluded: no snapshot, one that does not      *)
(* validate, several run ids, or a tie of different snapshots.              *)
SelectedOf(files) ==
  IF files # {} /\ Part \notin files /\ Cardinality(RunIds(files)) = 1
     /\ Cardinality(Latest(files)) = 1
  THEN CHOOSE s \in Latest(files) : TRUE
  ELSE None

(* dirs maps the names of the directories to their files.  A run id found   *)
(* in several directories counts once, and only when they agree.            *)
Selected(dirs) ==
  LET picks == {SelectedOf(dirs[d]) : d \in DOMAIN dirs} \ {None}
  IN  {s \in picks : \A t \in picks : t.meta.runId = s.meta.runId => t = s}

ExcludedDirs(dirs) ==
  {d \in DOMAIN dirs : SelectedOf(dirs[d]) \notin Selected(dirs)}

-----------------------------------------------------------------------------
(* The cases of a snapshot: one for each model it ran. *)

ModelsOf(s) == {s.execs[e].task.model : e \in DOMAIN s.execs}
ExecsOf(s, m) == {e \in DOMAIN s.execs : s.execs[e].task.model = m}
Coverage(s, m) == {s.execs[e].task.chunk : e \in ExecsOf(s, m)}

CompletedParsed(s, m) ==
  /\ \A e \in ExecsOf(s, m) :
       /\ ~Unsuccessful(s.execs[e].record)
       /\ s.reviews[e].verdict \notin {"unavailable", "unparsed"}
  /\ \E e \in ExecsOf(s, m) : s.reviews[e].verdict \in {"findings", "no_findings"}

ComparableForQuality(s, m) ==
  /\ CompletedParsed(s, m)
  /\ \E other \in ModelsOf(s) \ {m} :
       CompletedParsed(s, other) /\ Coverage(s, other) = Coverage(s, m)

(* The findings of a model, and the issues they name: findings of different *)
(* executions with the same key are one issue, and their judgements are     *)
(* consolidated.                                                            *)
FindingRefs(s, m) ==
  UNION {{<<e, id>> : id \in DOMAIN s.reviews[e].findings} : e \in ExecsOf(s, m)}
Finding(s, ref) == s.reviews[ref[1]].findings[ref[2]]

(* Broken: the first of the judgements decides. *)
ConsolidateFirst(values) == CHOOSE v \in values : TRUE

Consolidate(values) ==
  IF Cardinality(values) = 1 THEN CHOOSE v \in values : TRUE ELSE "conflict"

IssueOf(s, m, key) ==
  LET found == {r \in FindingRefs(s, m) : Finding(s, r).key = key}
      All(field) == Consolidate({Finding(s, r)[field] : r \in found})
  IN  [runId |-> s.meta.runId, key |-> key, decision |-> All("decision"),
       verification |-> All("verification"), action |-> All("action"),
       rawFindings |-> Cardinality(found)]

Issues(s, m) ==
  {IssueOf(s, m, key) : key \in {Finding(s, r).key : r \in FindingRefs(s, m)}}

-----------------------------------------------------------------------------
(* The summary of a group of cases over all runs. *)

GroupOf(s, m) ==
  [model |-> m, level |-> s.meta.level, levelScale |-> LevelScale(s.meta),
   actor |-> s.actor]

CasesOf(dirs) == UNION {{<<s, m>> : m \in ModelsOf(s)} : s \in Selected(dirs)}
Groups(cases) == {GroupOf(c[1], c[2]) : c \in cases}

IssuesOfGroup(cases, g) ==
  UNION {Issues(c[1], c[2]) : c \in {d \in cases : GroupOf(d[1], d[2]) = g}}

ExecutionsOfGroup(cases, g) ==
  UNION {{<<c[1], e>> : e \in ExecsOf(c[1], c[2])} :
           c \in {d \in cases : GroupOf(d[1], d[2]) = g}}

ExecutionStats(refs) ==
  LET Rec(x) == x[1].execs[x[2]].record
      completed == {x \in refs : Rec(x).status \notin {"pending", "running"}}
      failed == {x \in completed : Rec(x).exit # 0}
      With(verdict) == {x \in completed : x[1].reviews[x[2]].verdict = verdict}
  IN  [total |-> Cardinality(refs),
       completed |-> Cardinality(completed),
       unfinished |-> Cardinality(refs \ completed),
       successful |-> Cardinality(completed \ failed),
       failed |-> Cardinality(failed),
       timeouts |-> Cardinality({x \in failed : Rec(x).exit = 124}),
       no_findings |-> Cardinality(With("no_findings")),
       unparsed |-> Cardinality(With("unparsed"))]

IssueSummary(issues) ==
  LET Count(field, v) == Cardinality({i \in issues : i[field] = v})
      accepted == Count("decision", "accepted")
      confirmed == Count("verification", "confirmed")
  IN  [unique |-> Cardinality(issues),
       rawFindings |-> SumFunction([i \in issues |-> i.rawFindings]),
       accepted |-> accepted,
       judged |-> accepted + Count("decision", "rejected"),
       confirmed |-> confirmed,
       verified |-> confirmed + Count("verification", "contradicted"),
       fixed |-> Count("action", "fixed")]

Summary(cases, g) ==
  [group |-> g,
   issues |-> IssueSummary(IssuesOfGroup(cases, g)),
   executions |-> ExecutionStats(ExecutionsOfGroup(cases, g))]

ModelSummaries(dirs) ==
  LET cases == CasesOf(dirs) IN {Summary(cases, g) : g \in Groups(cases)}
=============================================================================
