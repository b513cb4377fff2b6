---------------------------- MODULE AnswerJudge ----------------------------
(***************************************************************************)
(* How user-side judges an answer (lib/maas.py): the catalog of Layer 1,   *)
(* the probe of a wire in Layers 2 and 3, and the output of a smoke        *)
(* scenario.  An answer is reduced to the places of its payload that hold  *)
(* something, a text to the checks it does not meet, and a name of a model *)
(* to what it has in common with other names once it is normalised.        *)
(***************************************************************************)
EXTENDS FamilyPlan

CONSTANTS
    Id,       \* what models are called in answers, the models of the plan too
    OccursIn, \* <<a, b>>: the normalised a occurs in the normalised b
    Generic   \* names that any model may give itself: "ChatGPT", "assistant"

ASSUME IdAssumption ==
    /\ Model \subseteq Id
    /\ NoModel \notin Id
    /\ OccursIn \subseteq Id \X Id
    /\ Generic \subseteq Id

----------------------------------------------------------------------------
(* Layer 1: fetch_models_catalog. *)

\* Any status but 200 is "error", a time-out included.
CatalogAnswers == [status : {"ok", "error"}, items : SUBSET (Model \cup {NoModel})]

\* parse_models_catalog: items without an id are dropped.
CatalogIds(answer) == answer.items \ {NoModel}

CatalogBranch(answer) ==
    CASE answer.status # "ok" -> "unavailable"
      [] answer.status = "ok" /\ CatalogIds(answer) # {} -> "listed"
      [] answer.status = "ok" /\ CatalogIds(answer) = {} -> "empty"

----------------------------------------------------------------------------
(* Layers 2 and 3: probe_model_wire. *)

\* What may be filled in a payload of a wire.  The content of messages is
\* one string, blank or not, or a list of blocks; "other" is anything that
\* is not text, such as a tool call.
Payloads(w) ==
    CASE w = "chat" -> SUBSET {"content", "text", "delta"}
      [] w = "messages" -> {{"string"}, {"blank"}} \cup SUBSET {"text", "other"}
      [] w = "responses" -> SUBSET {"item text", "other", "output_text", "text"}

Answers(w) ==
    {[status |-> s, filled |-> {}] : s \in {"timeout", "error"}}
    \cup {[status |-> "ok", filled |-> f] : f \in Payloads(w)}

\* wire_response_shape
ShapeOk(answer) == \E place \in answer.filled : place # "blank"

ProbeResult(answer) ==
    CASE answer.status = "timeout" -> "TIMEOUT"
      [] answer.status = "error" -> "HTTP"
      [] answer.status = "ok" /\ ~ShapeOk(answer) -> "EMPTY"
      [] answer.status = "ok" /\ ShapeOk(answer) -> "OK"

----------------------------------------------------------------------------
(* Smoke scenarios: evaluate_smoke_output. *)

Checks == {"contains", "length", "json", "value"}

\* model_ids_match; an empty name matches nothing.
IdsMatch(a, b) == <<a, b>> \in OccursIn \/ <<b, a>> \in OccursIn

\* The model is only looked at in scenarios that want JSON.
AsksModel(scenario) == scenario.probe /\ "json" \in scenario.expects

Failure == [failed |-> TRUE, lacks |-> {}, reported |-> NoModel, api |-> NoModel]

\* The outputs of a scenario, as far as anything is read of them.  failed: the
\* exit code, which for an answer of the proxy is its status and whether it has
\* any text (wire_response_text); lacks: the checks the text does not meet; reported: the model it says it is; api: the model
\* in the envelope of the answer.
Outputs(scenario) ==
    LET names == IF AsksModel(scenario) THEN Id \cup {NoModel} ELSE {NoModel}
    IN  {Failure} \cup [failed : {FALSE}, lacks : SUBSET scenario.expects,
                        reported : names, api : names]

\* The envelope contradicts the plan.
ApiDisagrees(expected, out) ==
    out.api # NoModel /\ expected # NoModel /\ ~IdsMatch(out.api, expected)

\* Fault: a model that says it is the right one is believed.
RejectedUnlessClaimed(scenario, expected, out) ==
    \/ out.failed
    \/ scenario.expects \cap out.lacks # {}
    \/ AsksModel(scenario) /\ ApiDisagrees(expected, out) /\ out.reported # expected

Rejected(scenario, expected, out) ==
    \/ out.failed
    \/ scenario.expects \cap out.lacks # {}
    \/ AsksModel(scenario) /\ ApiDisagrees(expected, out)

\* What the model says of itself fits neither the plan nor the envelope.
Doubted(scenario, expected, out) ==
    /\ AsksModel(scenario)
    /\ expected # NoModel /\ out.reported # NoModel
    /\ ~IdsMatch(out.reported, expected)
    /\ ~IdsMatch(out.reported, out.api)
    /\ out.reported \notin Generic

Judge(scenario, expected, out) ==
    CASE Rejected(scenario, expected, out) -> "bad"
      [] ~Rejected(scenario, expected, out) /\ Doubted(scenario, expected, out) -> "mismatch"
      [] ~Rejected(scenario, expected, out) /\ ~Doubted(scenario, expected, out) -> "ok"
============================================================================
