----------------------------- MODULE ImplHistory -----------------------------
(***************************************************************************)
(* The records of implementation runs (impl_history.ts): what every reader *)
(* of metadata.json accepts, and the report over a set of runs.  A record  *)
(* is a function whose DOMAIN is its fields; the field "exit" stands for   *)
(* finishedAt, elapsedMs and exitCode, which are present together.         *)
(***************************************************************************)
EXTENDS ImplStream, FiniteSets, Functions

Has(m, field) == field \in DOMAIN m

-----------------------------------------------------------------------------
(* Validation. *)

UsageSources == {"assistant_message_end", "compaction_end"}

ValidKnownSlices(u) ==
  /\ DOMAIN u.known \subseteq Metrics
  /\ \A k \in DOMAIN u.known : u.known[k] \in 0..u.expected

(* A number is there exactly when a slice reported it. *)
ValidMetricPairs(u) ==
  \A k \in Metrics : Get(u.known, k, 0) > 0 <=> k \in DOMAIN u.sum

ValidCoverageTag(u) ==
  LET unknown == \/ u.expected = 0
                 \/ ~AnyCore(u.known) /\ CoreMetrics \cap DOMAIN u.sum = {}
      complete == /\ u.expected > 0
                  /\ \A k \in CoreMetrics : Get(u.known, k, 0) = u.expected
  IN  /\ u.coverage = "complete" => complete
      /\ u.coverage = "unknown" => unknown
      /\ u.coverage = "partial" => ~unknown

ValidUsage(u, responses, compactions) ==
  /\ u.coverage \in {"complete", "partial", "unknown"}
  /\ u.sources \subseteq UsageSources
  /\ \A k \in DOMAIN u.sum : u.sum[k] \in 0..MaxFinite
  /\ ValidKnownSlices(u)
  /\ u.expected = responses + compactions
  /\ u.expected > 0 => u.sources # {}
  /\ ValidMetricPairs(u)
  /\ ValidCoverageTag(u)

ValidProvenance(p) ==
  /\ p.kind \in {"jj", "git", "unknown"}
  /\ p.comparable => p.kind # "unknown" /\ p.revision # None

ValidCross(m) ==
  /\ m.parent = "passed" => m.status = "completed"
  /\ m.status = "completed" => m.exit = 0 /\ Has(m, "stop") /\ m.stop = "stop"

ValidTiming(m) ==
  IF m.status = "running" THEN ~Has(m, "exit") /\ ~Has(m, "stop")
  ELSE Has(m, "exit") /\ m.exit >= 0

ValidRunMetadata(m) ==
  /\ m.status \in {"running", "completed", "failed", "incomplete"}
  /\ m.parent \in {"unverified", "passed", "failed", "not-run"}
  /\ ValidProvenance(m.provenance)
  /\ \A n \in {m.responses, m.retries, m.compactions, m.calls, m.toolErrors} :
       n >= 0
  /\ ValidUsage(m.usage, m.responses, m.compactions)
  /\ ValidTiming(m)
  /\ ValidCross(m)

-----------------------------------------------------------------------------
(* The rows of the report, one for each model. *)

RunsOf(records, model) == {m \in records : m.model = model}
Models(records) == {m.model : m \in records}

(* The sum of a metric over the runs that know it, None when none does.  It  *)
(* is assumed to stay finite here.                                           *)
MetricSum(runs, metric) ==
  LET known == {m \in runs : Get(m.usage.known, metric, 0) > 0}
  IN  IF known = {} THEN None
      ELSE SumFunction([m \in known |-> m.usage.sum[metric]])

CostKnown(m) == Get(m.usage.known, "estimatedCostUsd", 0)

(* Broken: a run that failed counts as fully priced. *)
FullyPricedWhenKnown(m) ==
  m.usage.expected > 0 /\ CostKnown(m) = m.usage.expected

FullyPriced(m) ==
  /\ m.status = "completed"
  /\ m.usage.expected > 0 /\ CostKnown(m) = m.usage.expected

KnownCosts(runs) == SumFunction([m \in runs |-> CostKnown(m)])
ExpectedCosts(runs) == SumFunction([m \in runs |-> m.usage.expected])

CostLabel(runs) ==
  LET expected == {m \in runs : m.usage.expected > 0}
      full == {m \in runs : FullyPriced(m)}
  IN  CASE expected # {} /\ Cardinality(full) = Cardinality(expected)
             /\ KnownCosts(runs) = ExpectedCosts(runs) -> "full"
        [] OTHER -> IF MetricSum(runs, "estimatedCostUsd") # None
                    THEN "partial" ELSE "unknown"

ModelRow(records, model) ==
  LET runs == RunsOf(records, model)
      With(status) == Cardinality({m \in runs : m.status = status})
  IN  [model |-> model,
       runs |-> Cardinality(runs), completed |-> With("completed"),
       failed |-> With("failed"), incomplete |-> With("incomplete"),
       running |-> With("running"), cost |-> CostLabel(runs),
       sums |-> [k \in Metrics |-> MetricSum(runs, k)]]

ModelRows(records) == {ModelRow(records, x) : x \in Models(records)}

-----------------------------------------------------------------------------
(* The cases of the report: runs of one pair of prompts from one revision.  *)

Matched(p) == p.comparable /\ p.kind \in {"jj", "git"} /\ p.revision # None

CaseKey(m) ==
  IF Matched(m.provenance)
  THEN <<m.prompt, m.systemPrompt, m.provenance.kind, m.provenance.revision,
         m.provenance.repository>>
  ELSE <<"hetero", m.prompt, m.systemPrompt, m.runId>>

CaseGroups(records) ==
  {{m \in records : CaseKey(m) = key} : key \in {CaseKey(m) : m \in records}}

(* The runs whose times are compared, if two models or more have one. *)
Compared(group) ==
  LET timed == {m \in group : m.status # "running"}
  IN  IF (\A m \in group : Matched(m.provenance)) /\ Cardinality(Models(timed)) >= 2
      THEN timed ELSE {}
=============================================================================
