----------------------------- MODULE MCImplRun -----------------------------
(* Constants of the ImplRun run. *)
EXTENDS ImplRun

MCFull == [k \in CoreMetrics \cup {"estimatedCostUsd"} |-> 1]
MCLarge == [k \in {"input", "totalTokens"} |-> 2]
MCEnd(stop, usage) == [type |-> "message_end", stop |-> stop, usage |-> usage]
MCSettled(aborted) == [type |-> "agent_settled", aborted |-> aborted]
MCLines ==
  {[type |-> "message_start"], MCEnd("stop", MCFull), MCEnd("toolUse", MCLarge),
   MCEnd("error", <<>>), MCSettled(TRUE), MCSettled(FALSE), MCSettled(None),
   [type |-> "compaction_end", usage |-> MCFull],
   [type |-> "tool_execution_end", isError |-> TRUE],
   [type |-> "auto_retry_start"]}

MCProvenance(kind, comparable) ==
  [kind |-> kind, revision |-> "r1", comparable |-> comparable,
   repository |-> "repo"]
MCProvenances == {MCProvenance("jj", TRUE), MCProvenance("git", FALSE)}

MCUsed(n) == [coverage |-> "complete", sources |-> {"assistant_message_end"},
              expected |-> n, known |-> [k \in DOMAIN MCFull |-> n],
              sum |-> [k \in DOMAIN MCFull |-> n]]
MCRun(id, model, systemPrompt, provenance, usage) ==
  [runId |-> id, model |-> model, prompt |-> "p1", systemPrompt |-> systemPrompt,
   status |-> "completed", provenance |-> provenance, usage |-> usage,
   responses |-> usage.expected, compactions |-> 0, retries |-> 0, calls |-> 0,
   toolErrors |-> 0, parent |-> "unverified", exit |-> 0, stop |-> "stop"]
(* Completed and fully priced runs: two of another model, of which one is not *)
(* comparable, and one of the same model with another system prompt.         *)
MCOtherRuns ==
  {MCRun("older1", "m2", "s1", MCProvenance("jj", TRUE), MCUsed(2)),
   MCRun("older2", "m2", "s1", MCProvenance("git", FALSE), MCUsed(1)),
   MCRun("older3", "m1", "s2", MCProvenance("jj", TRUE), MCUsed(1))}
=============================================================================
