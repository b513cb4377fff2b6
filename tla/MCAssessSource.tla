--------------------------- MODULE MCAssessSource ---------------------------
(***************************************************************************)
(* AssessSource for TLC.  Two models.  The sites are those of the shipped  *)
(* assess-plan.json, and variations of them: every protocol, families that *)
(* name wires, agents or models of their own, sites without families, and  *)
(* sites with families and targets.  The last of these names other models  *)
(* outside of its families than in them, and the proxy of a family knows   *)
(* both.                                                                   *)
(***************************************************************************)
EXTENDS AssessSource

CONSTANTS m1, m2, dated, brand

MCModel == {m1, m2}

\* "dated" is m1 with a date, as envelopes have it; "brand" is a name any model
\* may give itself, and is one that the other names do not contain.
MCId == {m1, m2, dated, brand}
MCOccursIn == {<<i, i>> : i \in MCId} \cup {<<m1, dated>>}
MCGeneric == {brand}

None == [a \in {} |-> m1]
For(agents, m) == [a \in agents |-> m]

\* A family as the shipped plan writes it, one that only names its models,
\* and ones that differ from the usual wires and agents.
Plain == [models |-> <<m1>>, wires |-> {}, agents |-> {}, own |-> None]
Second == [Plain EXCEPT !.models = <<m1, m2>>, !.own = For({"opencode", "codex"}, m2)]
Probe1 == [Plain EXCEPT !.agents = {"opencode"}]
Split == [Plain EXCEPT !.models = <<m1, m2>>, !.own = For({"opencode"}, m2)]
AllWires == [Plain EXCEPT !.wires = Wire, !.agents = Agent]
Alone == [Plain EXCEPT !.agents = {"codex"}]
Unlisted == [Plain EXCEPT !.models = <<>>, !.own = For({"opencode"}, m1)]
Configs == {Plain, Second, Probe1, Split, AllWires, Alone, Unlisted}

Pairs == {<<"gpt", "anthropic">>, <<"anthropic", "other">>}
FamilyMaps ==
    {[f \in {} |-> Plain]}
    \cup {[f \in {g} |-> c] : g \in Family, c \in Configs}
    \cup {[f \in {p[1], p[2]} |-> IF f = p[1] THEN c ELSE d] :
             p \in Pairs, c \in Configs, d \in {Plain, Probe1, AllWires}}

Site(p, fs, ts, ms) == [protocol |-> p, families |-> fs, targets |-> ts, agents |-> {}, models |-> ms]

NoFamilies == [f \in {} |-> Plain]
MixedTargets == <<[model |-> m1, wires |-> {}], [model |-> m2, wires |-> {"chat", "messages"}]>>

MCSites ==
    {Site(p, fs, <<>>, None) : p \in Protocol, fs \in FamilyMaps}
    \cup {Site(p, NoFamilies, MixedTargets, ms) : p \in Protocol, ms \in {None, For({"opencode"}, m2)}}
    \cup {Site(p, NoFamilies, <<>>, For(Agent, m1)) : p \in Protocol}
    \cup {Site(p, [f \in {"gpt", "anthropic"} |-> Plain], MixedTargets, For({"opencode"}, m2)) : p \in Protocol}
    \cup {Site(p, [f \in {"gpt", "anthropic"} |-> Split], MixedTargets, For({"claude", "codex"}, m2)) :
             p \in Protocol}

MCScenarios ==
    <<[required |-> TRUE, agentOnly |-> FALSE, probe |-> TRUE, agents |-> Agent,
       expects |-> {"json"}],
      [required |-> TRUE, agentOnly |-> TRUE, probe |-> FALSE, agents |-> {"claude"},
       expects |-> {}],
      [required |-> FALSE, agentOnly |-> TRUE, probe |-> FALSE, agents |-> {"codex", "opencode"},
       expects |-> {"contains"}]>>
=============================================================================
