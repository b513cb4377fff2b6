----------------------------- MODULE FamilyPlan -----------------------------
(***************************************************************************)
(* What an assessment of user-side tests (lib/maas.py): how the model      *)
(* families of a site in assess-plan.json, the protocol of the site in     *)
(* sites.json and the agent asked for determine the family, the agents in  *)
(* scope, the models and wires of Layer 2, the request of Layer 3 and the  *)
(* model list of the LiteLLM proxy.  Everything here is a function of the  *)
(* two files, read again by every caller.  Where the code raises           *)
(* SystemExit there is a predicate named ...Fails, and the function is     *)
(* only meant where it does not hold.                                      *)
(***************************************************************************)
EXTENDS Naturals, Sequences, SequencesExt

CONSTANTS
    Model,
    NoModel,  \* stands for the empty string and None
    NoFamily  \* stands for None: no --family, or a site without families

ASSUME ModelAssumption == NoModel \notin Model

Agent == {"opencode", "claude", "codex"}
Wire == {"chat", "messages", "responses"}
Family == {"gpt", "anthropic", "other"}
Protocol == {"anthropic", "openai", "chat"}

\* The wire an agent talks: each has one.
WireOf(a) == CASE a = "opencode" -> "chat" [] a = "claude" -> "messages" [] a = "codex" -> "responses"

AllowedAgents(p) ==
    CASE p = "anthropic" -> {"opencode", "claude"}
      [] p = "openai" -> {"opencode", "codex"}
      [] p = "chat" -> {"opencode"}

AllowedWires(p) == {WireOf(a) : a \in AllowedAgents(p)}

\* The built-in definitions, which the shipped assess-plan.json repeats.
PrimaryAgent(f) == CASE f = "gpt" -> "codex" [] f = "anthropic" -> "claude" [] f = "other" -> "opencode"
FamilyAgents(f) == {"opencode", PrimaryAgent(f)}
FamilyWires(f) == {WireOf(a) : a \in FamilyAgents(f)}

(***************************************************************************)
(* A site: its protocol, its families, and what the plan says of it        *)
(* outside of families (layer2.targets, layer3.agents, layer3.models).  An empty   *)
(* set, sequence or function is a key that is absent or empty: the code    *)
(* tests them with "or" and treats both alike.  A map of models has the    *)
(* agents that are named as its domain.                                    *)
(***************************************************************************)
ModelMap == UNION {[S -> Model] : S \in SUBSET Agent}
Target == [model : Model, wires : SUBSET Wire]
FamilyConfig == [models : Seq(Model), wires : SUBSET Wire, agents : SUBSET Agent, own : ModelMap]
Families(s) == DOMAIN s.families

IsSite(s) ==
    /\ s.protocol \in Protocol
    /\ Families(s) \subseteq Family
    /\ \A f \in Families(s) : s.families[f] \in FamilyConfig
    /\ s.targets \in Seq(Target)
    /\ s.agents \subseteq Agent
    /\ s.models \in ModelMap

ModelFor(map, a) == IF a \in DOMAIN map THEN map[a] ELSE NoModel

----------------------------------------------------------------------------
(* plan_site_entry and the functions that read its result. *)

\* resolve_assess_family: the key, or the only family.
KnownFamily(s, key) ==
    IF key # NoFamily THEN key
    ELSE IF \E f \in Family : Families(s) = {f} THEN CHOOSE f \in Family : Families(s) = {f}
    ELSE NoFamily

PlanFails(s, key) ==
    \/ key # NoFamily /\ key \notin Families(s)
    \/ KnownFamily(s, key) = NoFamily /\ Families(s) # {} /\ s.targets = <<>>

OverlayWires(s, f) ==
    LET wires == IF s.families[f].wires # {} THEN s.families[f].wires ELSE FamilyWires(f)
        shared == wires \cap AllowedWires(s.protocol)
    IN  IF shared # {} THEN shared ELSE {"chat"}

\* models_map: what the family names, and its first model for OpenCode and
\* for its primary agent where they are not named.
OverlayModels(s, f) ==
    LET own == s.families[f].own
        first == s.families[f].models
        defaulted == IF first = <<>> THEN {} ELSE FamilyAgents(f)
    IN  [a \in DOMAIN own \cup defaulted |-> IF a \in DOMAIN own THEN own[a] ELSE Head(first)]

\* A family replaces what the site says outside of families.
PlanTargets(s, key) ==
    LET f == KnownFamily(s, key)
    IN  IF f = NoFamily THEN s.targets
        ELSE [i \in 1 .. Len(s.families[f].models) |->
                 [model |-> s.families[f].models[i], wires |-> OverlayWires(s, f)]]

PlanAgents(s, key) ==
    LET f == KnownFamily(s, key)
    IN  IF f = NoFamily THEN s.agents
        ELSE (IF s.families[f].agents # {} THEN s.families[f].agents ELSE FamilyAgents(f))
                 \cap AllowedAgents(s.protocol)

\* agents_for_assess: a family none of whose agents fits the protocol is
\* assessed with all agents that do.
AgentsForAssess(s, key) ==
    LET agents == PlanAgents(s, key)
    IN  IF agents = {} THEN AllowedAgents(s.protocol) ELSE agents \cap AllowedAgents(s.protocol)

Layer3Models(s, key) ==
    LET f == KnownFamily(s, key) IN IF f = NoFamily THEN s.models ELSE OverlayModels(s, f)

----------------------------------------------------------------------------
(* resolve_family_for_site_agent, called without a family. *)

Matches(s, a) == {f \in Families(s) : a \in AgentsForAssess(s, f)}

\* The families an agent is for when several have it.
Preferred(a) == CASE a = "codex" -> {"gpt"} [] a = "claude" -> {"anthropic"} [] a = "opencode" -> Family

\* Fault: the agent's usual family is taken without looking whether the site
\* runs the agent for it.
CandidatesUnmatched(s, a) ==
    IF \E f \in Family : Matches(s, a) = {f} THEN Matches(s, a) ELSE Preferred(a) \cap Families(s)

Candidates(s, a) ==
    IF \E f \in Family : Matches(s, a) = {f} THEN Matches(s, a) ELSE Preferred(a) \cap Matches(s, a)

InferFails(s, a) ==
    KnownFamily(s, NoFamily) = NoFamily /\ Families(s) # {} /\ Candidates(s, a) = {}

\* gpt is tried before anthropic, and that before other.
InferFamily(s, a) ==
    IF KnownFamily(s, NoFamily) # NoFamily \/ Families(s) = {} THEN KnownFamily(s, NoFamily)
    ELSE CHOOSE f \in Candidates(s, a) :
            \/ f = "gpt"
            \/ f = "anthropic" /\ "gpt" \notin Candidates(s, a)
            \/ Candidates(s, a) = {"other"}

----------------------------------------------------------------------------
(* assess_targets_for_site: what Layer 2 probes. *)

\* A target that is left without wires, which the code drops, stays here: it
\* is not probed and serves no agent.
ExpandTargets(raw, p) ==
    [i \in 1 .. Len(raw) |->
        [raw[i] EXCEPT !.wires = IF @ = {} THEN AllowedWires(p) ELSE @ \cap AllowedWires(p)]]

\* default_assess_targets groups the wires by the model of their agent.
DefaultTargets(s) ==
    LET agents == {a \in AllowedAgents(s.protocol) : a \in DOMAIN Layer3Models(s, NoFamily)}
        models == {Layer3Models(s, NoFamily)[a] : a \in agents}
        target(m) == [model |-> m,
                      wires |-> {WireOf(a) : a \in {b \in agents : Layer3Models(s, NoFamily)[b] = m}}]
    IN  SetToSeq({target(m) : m \in models})

\* The default does not know of the family.
TargetsFail(s, key) ==
    PlanFails(s, key) \/ (PlanTargets(s, key) = <<>> /\ PlanFails(s, NoFamily))

AssessTargets(s, key) ==
    IF PlanTargets(s, key) # <<>> THEN ExpandTargets(PlanTargets(s, key), s.protocol)
    ELSE DefaultTargets(s)

----------------------------------------------------------------------------
(* The request of Layer 3, and the model list of the proxy. *)

\* relay_target_for_agent
FallbackModel(targets, a) ==
    LET fit == SelectSeq(targets, LAMBDA t : WireOf(a) \in t.wires)
    IN  IF fit = <<>> THEN NoModel ELSE Head(fit).model

\* relay_model_and_wire_for_agent; the wire is WireOf(a) in both cases.
RelayFails(s, a, key) ==
    \/ PlanFails(s, key)
    \/ /\ a \notin DOMAIN Layer3Models(s, key)
       /\ TargetsFail(s, key) \/ FallbackModel(AssessTargets(s, key), a) = NoModel

RelayModel(s, a, key) ==
    IF a \in DOMAIN Layer3Models(s, key) THEN Layer3Models(s, key)[a]
    ELSE FallbackModel(AssessTargets(s, key), a)

\* A model_name of the proxy: the model, or "<model>-codex-relay".
Name(m, bridged) == [model |-> m, bridged |-> bridged]

\* litellm_relay_model_name
ExposedName(s, a, key) ==
    LET m == Layer3Models(s, key)
    IN  Name(m[a], a = "codex" /\ ModelFor(m, "opencode") = m[a])

\* Fault: every agent with a model gets an entry, in scope or not.
ModelListOfAll(s, key) ==
    {[name |-> ExposedName(s, a, key), upstream |-> Layer3Models(s, key)[a], agent |-> a] :
        a \in DOMAIN Layer3Models(s, key)}

\* Fault: the family is not passed on.
ModelListOfSite(s, key) ==
    {[name |-> ExposedName(s, a, NoFamily), upstream |-> Layer3Models(s, NoFamily)[a], agent |-> a] :
        a \in AgentsForAssess(s, NoFamily) \cap DOMAIN Layer3Models(s, NoFamily)}

\* The entries write_litellm_config puts under model_list, each made for one
\* agent: Claude Code's goes to the anthropic base, Codex's is bridged.
ModelList(s, key) ==
    {[name |-> ExposedName(s, a, key), upstream |-> Layer3Models(s, key)[a], agent |-> a] :
        a \in AgentsForAssess(s, key) \cap DOMAIN Layer3Models(s, key)}
=============================================================================
