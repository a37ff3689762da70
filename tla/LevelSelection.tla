--------------------------- MODULE LevelSelection ---------------------------
(***************************************************************************)
(* The review level of a parallel review and how its patch is split: the   *)
(* decision records that select_review_level.ts builds, the historical     *)
(* automatic ones included, and the validation every reader applies to     *)
(* them.  A JSON object is a function whose DOMAIN is the set of its       *)
(* fields: an optional field is absent from the domain.  Confidences are   *)
(* percentages; a patch is its hash, its size and its number of newlines.  *)
(***************************************************************************)
EXTENDS Integers, Sequences, TLC

CONSTANT AutoLevel  \* the requested level of an automatic selection

Levels == 1..5
ChunkChoices == {"none", "12000", "24000", "48000"}
MaxStatuses == 4

FixedBytes == 15000
FixedNewlines == 400
WholePatchBytes == 48000

(* The reasons of an automatic selection that fell back. *)
SharedReasons ==
  {"missing_api_key", "missing_model", "empty_patch", "http_error", "redirect",
   "network_error", "timeout", "invalid_json", "invalid_schema",
   "invalid_choice", "invalid_confidence", "low_confidence", "error_envelope"}
FallbackReasons == SharedReasons \cup {"patch_too_large"}
ChunkReasons == SharedReasons \cup {"whole_patch_limit"}

DecisionKeys ==
  {"schemaVersion", "requestedLevel", "level", "source", "reason",
   "patchSha256", "minConfidence", "model", "suggestedLevel", "confidence",
   "costUsd", "probabilities", "chunking", "contextSha256", "httpStatuses"}
ChunkKeys ==
  {"source", "reason", "choice", "minConfidence", "confidence",
   "suggestedChoice", "model"}

Has(d, field) == field \in DOMAIN d
Pick(d, fields) == [f \in fields \cap DOMAIN d |-> d[f]]
Merge(d, rest) ==
  [f \in DOMAIN d \cup DOMAIN rest |-> IF f \in DOMAIN d THEN d[f] ELSE rest[f]]

-----------------------------------------------------------------------------
(* The builders.  "answer" holds the fields of the routing model's answer   *)
(* that were present.                                                       *)

FixedChunkChoice(patch) ==
  IF patch.bytes >= FixedBytes \/ patch.newlines >= FixedNewlines
  THEN "12000" ELSE "none"

FixedChunk(patch) ==
  [source |-> "fixed", reason |-> "explicit_level",
   choice |-> FixedChunkChoice(patch)]

ChunkFallback(reason, patch, min, answer) ==
  Merge([source |-> "fallback", reason |-> reason,
         choice |-> FixedChunkChoice(patch), minConfidence |-> min],
        Pick(answer, IF reason \in {"low_confidence", "whole_patch_limit"}
                     THEN {"confidence", "suggestedChoice", "model"} ELSE {}))

(* Broken: a chunk choice of "none" for a large patch stays the choice. *)
ChunkJevOfAnySize(choice, patch, min, answer) ==
  IF choice = "none" /\ patch.bytes > WholePatchBytes
  THEN Merge([ChunkFallback("whole_patch_limit", patch, min, answer)
                EXCEPT !.choice = "none"],
             [suggestedChoice |-> "none"])
  ELSE [source |-> "jev", reason |-> "jev_ok", choice |-> choice,
        minConfidence |-> min, model |-> answer.model,
        suggestedChoice |-> choice, confidence |-> answer.confidence]

ChunkJev(choice, patch, min, answer) ==
  IF choice = "none" /\ patch.bytes > WholePatchBytes
  THEN ChunkFallback("whole_patch_limit", patch, min,
                     Merge([suggestedChoice |-> "none"], answer))
  ELSE [source |-> "jev", reason |-> "jev_ok", choice |-> choice,
        minConfidence |-> min, model |-> answer.model,
        suggestedChoice |-> choice, confidence |-> answer.confidence]

ExplicitDecision(level, patch) ==
  [schemaVersion |-> 1, requestedLevel |-> level, level |-> level,
   source |-> "explicit", reason |-> "explicit",
   patchSha256 |-> patch.sha, chunking |-> FixedChunk(patch)]

(* The level unless another is given: no caller gives one, and the readers   *)
(* would refuse it.                                                          *)
FallbackLevel == 3

FallbackDecision(level, reason, patch, min, answer) ==
  Merge([schemaVersion |-> 1, requestedLevel |-> AutoLevel, level |-> level,
         source |-> "fallback", reason |-> reason, patchSha256 |-> patch.sha,
         minConfidence |-> min],
        Pick(answer, IF reason = "low_confidence"
                     THEN {"confidence", "suggestedLevel", "model", "costUsd",
                           "probabilities"} ELSE {}))

JevDecision(level, patch, min, answer) ==
  Merge([schemaVersion |-> 1, requestedLevel |-> AutoLevel, level |-> level,
         source |-> "jev", reason |-> "jev_ok", patchSha256 |-> patch.sha,
         minConfidence |-> min, model |-> answer.model, suggestedLevel |-> level,
         confidence |-> answer.confidence],
        Pick(answer, {"costUsd", "probabilities"}))

(* The selection of today: "auto" is level 1, and only 1 and 2 are offered. *)
SelectReviewLevel(requested, patch) ==
  ExplicitDecision(IF requested = AutoLevel THEN 1 ELSE requested, patch)
Selectable == {AutoLevel, 1, 2}

(* Automatic selections of older versions: level and chunks each followed an *)
(* answer, or fell back when its confidence was too low.                     *)
LevelOf(patch, min, answer) ==
  IF answer.confidence < min
  THEN FallbackDecision(FallbackLevel, "low_confidence", patch, min, answer)
  ELSE JevDecision(answer.suggestedLevel, patch, min, answer)

ChunksOf(patch, min, answer) ==
  IF answer.confidence < min
  THEN ChunkFallback("low_confidence", patch, min, answer)
  ELSE ChunkJev(answer.suggestedChoice, patch, min, answer)

WithChunks(decision, chunks) == Merge(decision, [chunking |-> chunks])

-----------------------------------------------------------------------------
(* Validation. *)

Percent == 0..100
WithoutFields(d, fields) == fields \cap DOMAIN d = {}

ValidReason(source, reason) ==
  CASE source = "explicit" -> reason = "explicit"
    [] source = "jev"      -> reason = "jev_ok"
    [] OTHER               -> reason \in FallbackReasons

ValidProbabilities(p) ==
  DOMAIN p = Levels /\ \A l \in Levels : p[l] \in Percent

ValidStatuses(s) ==
  /\ Len(s) \in 1..MaxStatuses
  /\ \A i \in DOMAIN s : s[i] \in 200..599

ValidOptionalFields(d) ==
  /\ \A f \in {"minConfidence", "confidence"} : Has(d, f) => d[f] \in Percent
  /\ Has(d, "suggestedLevel") => d.suggestedLevel \in Levels
  /\ Has(d, "suggestedChoice") => d.suggestedChoice \in ChunkChoices
  /\ Has(d, "costUsd") => d.costUsd >= 0
  /\ Has(d, "probabilities") => ValidProbabilities(d.probabilities)
  /\ Has(d, "httpStatuses") => ValidStatuses(d.httpStatuses)

(* Confidence was measured and missed the threshold, or met it. *)
Missed(d) == Has(d, "confidence") /\ d.confidence < d.minConfidence
Met(d) == Has(d, "confidence") /\ d.confidence >= d.minConfidence

ValidChunkFallback(c) ==
  /\ Has(c, "minConfidence")
  /\ CASE c.reason = "low_confidence" ->
            Missed(c) /\ Has(c, "model") /\ Has(c, "suggestedChoice")
       [] c.reason = "whole_patch_limit" ->
            /\ Met(c) /\ Has(c, "model") /\ Has(c, "suggestedChoice")
            /\ c.suggestedChoice = "none" /\ c.choice = "12000"
       [] OTHER -> WithoutFields(c, {"model", "suggestedChoice", "confidence"})

ValidChunkJev(c) ==
  /\ Has(c, "minConfidence") /\ Met(c) /\ Has(c, "model")
  /\ Has(c, "suggestedChoice") /\ c.suggestedChoice = c.choice

ValidChunkShape(c) ==
  /\ DOMAIN c \subseteq ChunkKeys
  /\ c.source \in {"jev", "fallback", "fixed"}
  /\ CASE c.source = "fixed"    -> c.reason = "explicit_level"
       [] c.source = "jev"      -> c.reason = "jev_ok"
       [] c.source = "fallback" -> c.reason \in ChunkReasons
  /\ c.choice \in (IF c.source = "jev" THEN ChunkChoices ELSE {"none", "12000"})

ValidChunkDecision(c) ==
  /\ ValidChunkShape(c)
  /\ ValidOptionalFields(c)
  /\ CASE c.source = "fixed" ->
            WithoutFields(c, {"minConfidence", "model", "suggestedChoice",
                              "confidence"})
       [] c.source = "fallback" -> ValidChunkFallback(c)
       [] c.source = "jev"      -> ValidChunkJev(c)

ValidExplicitFields(d) ==
  /\ d.requestedLevel = d.level
  /\ WithoutFields(d, {"minConfidence", "model", "suggestedLevel",
                       "confidence", "costUsd", "probabilities",
                       "contextSha256", "httpStatuses"})

ValidFallbackFields(d) ==
  /\ d.requestedLevel = AutoLevel /\ d.level = 3 /\ Has(d, "minConfidence")
  /\ IF d.reason = "low_confidence"
     THEN Missed(d) /\ Has(d, "model") /\ Has(d, "suggestedLevel")
     ELSE WithoutFields(d, {"model", "suggestedLevel", "confidence",
                            "costUsd", "probabilities"})

ValidJevFields(d) ==
  /\ d.requestedLevel = AutoLevel /\ Has(d, "minConfidence") /\ Met(d)
  /\ Has(d, "suggestedLevel") /\ d.suggestedLevel = d.level
  /\ Has(d, "model")

(* The chunk decision nested in a level decision. *)
ValidLevelChunking(d) ==
  Has(d, "chunking") =>
    /\ ValidChunkDecision(d.chunking)
    /\ d.source = "explicit" <=> d.chunking.source = "fixed"
    /\ Has(d, "minConfidence") /\ Has(d.chunking, "minConfidence") =>
         d.chunking.minConfidence = d.minConfidence

ValidLevelShape(d) ==
  /\ DOMAIN d \subseteq DecisionKeys /\ d.schemaVersion = 1
  /\ d.requestedLevel \in Levels \cup {AutoLevel} /\ d.level \in Levels
  /\ d.source \in {"explicit", "jev", "fallback"}
  /\ ValidReason(d.source, d.reason)

ValidLevelDecision(d) ==
  /\ ValidLevelShape(d)
  /\ ValidOptionalFields(d)
  /\ CASE d.source = "explicit" -> ValidExplicitFields(d)
       [] d.source = "fallback" -> ValidFallbackFields(d)
       [] d.source = "jev"      -> ValidJevFields(d)
  /\ ValidLevelChunking(d)
=============================================================================
