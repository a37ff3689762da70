--------------------------- MODULE MCReviewHistory ---------------------------
(* Constants of the ReviewHistory run. *)
EXTENDS ReviewHistory

MCSymmetry == Permutations(Savers)

MCTask(model, chunk) == [model |-> model, chunk |-> chunk]
MCPlans == {[e \in Execs |-> MCTask("m1", e)],
            [e \in Execs |-> MCTask(e, "whole")]}

MCPatch(sha, bytes, newlines) ==
  [sha |-> sha, bytes |-> bytes, newlines |-> newlines]
MCPatches == {MCPatch("p1", 100, 10)}
(* Patches on both sides of each limit, and answers on both sides of the     *)
(* threshold.                                                                *)
MCSized == {MCPatch("p1", z[1], z[2]) :
              z \in {<<100, 10>>, <<14999, 399>>, <<15000, 10>>, <<100, 400>>,
                     <<48000, 10>>, <<48001, 10>>}}
MCAnswer(level, choice, conf) ==
  [model |-> "jev", suggestedLevel |-> level, suggestedChoice |-> choice,
   confidence |-> conf]
MCAnswers ==
  {MCAnswer(x[1], x[2], 60) @@ [costUsd |-> 1] :
     x \in {<<1, "none">>, <<2, "12000">>, <<4, "24000">>, <<5, "48000">>}}
  \cup {MCAnswer(3, "none", conf) @@ [probabilities |-> [l \in Levels |-> 20]] :
          conf \in {0, 59, 100}}
MCDecisions == {SelectReviewLevel(1, MCPatch(sha, 100, 10)) : sha \in {"p1", "p2"}}

MCScales == 2 :> {1}
MCLegacyRuns == {[runId |-> "run", level |-> 3]}

MCJudgement(key, decision, verification, action, grounds) ==
  [key |-> key, decision |-> decision, verification |-> verification,
   action |-> action, grounds |-> grounds]
(* Two issues, of which the first is also judged the other way; and a        *)
(* judgement that is refused, confirmed without evidence.                    *)
MCJudgements ==
  {MCJudgement("k1", "accepted", "confirmed", "fixed",
               {"reason", "evidence", "actionEvidence"}),
   MCJudgement("k1", "rejected", "not_checked", "unknown", {"reason"}),
   MCJudgement("k2", "accepted", "not_checked", "unknown", {"reason"}),
   MCJudgement("k2", "accepted", "confirmed", "unknown", {"reason"})}

(* Another run with the same model: one issue, one reviewer timed out. *)
MCOtherDirs ==
  "older" :> {[meta |-> [runId |-> "older", level |-> 1, levelScale |-> 2],
    patch |-> "p0", savedAt |-> 0, actor |-> "agent",
    execs |-> ("e1" :> [record |-> Record("completed", 0),
                        task |-> MCTask("m1", "whole"), log |-> 1])
              @@ ("e2" :> [record |-> Record("completed", 124),
                           task |-> MCTask("m1", "whole"), log |-> 1]),
    reviews |-> ("e1" :> [verdict |-> "findings", findings |-> "f1" :>
                   MCJudgement("k1", "accepted", "confirmed", "fixed",
                               {"reason", "evidence", "actionEvidence"})])
                @@ ("e2" :> [verdict |-> "unavailable", findings |-> <<>>])]}
=============================================================================
