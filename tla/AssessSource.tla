---------------------------- MODULE AssessSource ----------------------------
(***************************************************************************)
(* One run of assess-source (lib/maas.py, cmd_assess_source): resolve the  *)
(* family, list the models of the source (Layer 1), probe every model and  *)
(* wire of the plan at the source (Layer 2), start the LiteLLM proxy for   *)
(* the family, send the agent's request through it (Layer 3), run the      *)
(* smoke scenarios, write the evidence.  Source and agents answer as they  *)
(* like (AnswerJudge).  A time-out is an answer that is not OK; every      *)
(* other error of the network ends the run.  The files and the key of the  *)
(* site are there.                                                         *)
(***************************************************************************)
EXTENDS AnswerJudge, FiniteSets

CONSTANTS
    Sites,     \* the site configurations considered
    Scenarios  \* smoke_scenarios of the plan, see Scenario

\* agents are those for which resolve_smoke_scenario finds a prompt.
\* expects: expect_contains, min_output_chars, expect_json_key(s) and _value.
Scenario == [required : BOOLEAN, agentOnly : BOOLEAN, probe : BOOLEAN, agents : SUBSET Agent,
             expects : SUBSET Checks]

ASSUME SitesAssumption == \A s \in Sites : IsSite(s)
ASSUME ScenariosAssumption == Scenarios \in Seq(Scenario)

VARIABLES
    site,
    args,    \* what the user asked for
    fam,     \* the family resolved from it
    pc,      \* what the run does next, or "end", or "exit" after a SystemExit
    reason,  \* history: where SystemExit was raised
    failed,  \* cmd_assess_source
    todo,    \* <<i, w>>: wire w of target i is still to be probed in Layer 2
    rows,    \* the rows of run_layer2
    best,    \* wire_best
    proxy,   \* model_list of the proxy that was started
    smoke,   \* run_layer3_smoke, see Counters
    results, \* what the evidence will hold of each layer: "none", "pass", "warn", "fail"
    code     \* the exit code

vars == <<site, args, fam, pc, reason, failed, todo, rows, best, proxy, smoke, results, code>>

Args == [agent : Agent, family : Family \cup {NoFamily}, smoke : BOOLEAN, mode : {"relay", "agent"}]
Layers == {"layer1", "layer2", "layer3", "smoke"}
Step == {"resolve", "layer1", "plan", "layer2", "relay", "layer3", "smoke", "scenarios", "write"}
Row == [model : Model, wire : Wire, ok : BOOLEAN]
NoBest == [model |-> NoModel, ok |-> FALSE]

\* next: the scenario in hand; shown and passed: those with a row, and those
\* of them that were executed and passed; heard: the models that the
\* envelopes of the answers named (history).
Counters == [next : 1 .. Len(Scenarios) + 1,
             shown : SUBSET (1 .. Len(Scenarios)), passed : SUBSET (1 .. Len(Scenarios)),
             requiredFailed : 0 .. Len(Scenarios), optionalFailed : 0 .. Len(Scenarios),
             heard : SUBSET ((1 .. Len(Scenarios)) \X Id)]
NoSmoke == [next |-> 1, shown |-> {}, passed |-> {}, requiredFailed |-> 0, optionalFailed |-> 0,
            heard |-> {}]

Init ==
    /\ site \in Sites
    /\ args \in Args
    /\ args.smoke \/ args.mode = "relay"
    /\ fam = NoFamily
    /\ pc = "resolve"
    /\ reason = "none"
    /\ failed = FALSE
    /\ todo = {}
    /\ rows = {}
    /\ best = [w \in Wire |-> NoBest]
    /\ proxy = {}
    /\ smoke = NoSmoke
    /\ results = [l \in Layers |-> "none"]
    /\ code = 0

Verdict(ok) == IF ok THEN "pass" ELSE "fail"

\* SystemExit with a message: nothing is written.
SystemExit(where) ==
    /\ pc' = "exit"
    /\ reason' = where
    /\ code' = 1

\* http_json: in Layer 1, the same request again at the start of Layer 2, a
\* probe, or the request of Layer 3.
NetworkError ==
    /\ \/ pc \in {"layer1", "plan"}
       \/ pc = "layer2" /\ todo # {}
       \/ pc = "layer3" /\ ~RelayFails(site, args.agent, fam)
    /\ SystemExit("network")
    /\ UNCHANGED <<site, args, fam, failed, todo, rows, best, proxy, smoke, results>>

----------------------------------------------------------------------------
Inferred == IF args.family # NoFamily THEN args.family ELSE InferFamily(site, args.agent)

ResolveFails ==
    IF args.family = NoFamily /\ InferFails(site, args.agent) THEN TRUE
    ELSE PlanFails(site, Inferred)

Resolve ==
    /\ pc = "resolve"
    /\ \/ /\ ResolveFails
          /\ SystemExit("family")
          /\ UNCHANGED fam
       \/ /\ ~ResolveFails
          /\ args.agent \notin AgentsForAssess(site, Inferred)
          /\ SystemExit("scope")
          /\ UNCHANGED fam
       \/ /\ ~ResolveFails
          /\ args.agent \in AgentsForAssess(site, Inferred)
          /\ fam' = Inferred
          /\ pc' = "layer1"
          /\ UNCHANGED <<reason, code>>
    /\ UNCHANGED <<site, args, failed, todo, rows, best, proxy, smoke, results>>

\* The catalog is listed or empty, or it is unavailable.
Layer1(ok) ==
    /\ pc = "layer1"
    /\ results' = [results EXCEPT !["layer1"] = Verdict(ok)]
    /\ failed' = ~ok
    /\ pc' = "plan"
    /\ UNCHANGED <<site, args, fam, reason, todo, rows, best, proxy, smoke, code>>

PlanLayer2 ==
    /\ pc = "plan"
    /\ \/ /\ TargetsFail(site, fam)
          /\ SystemExit("targets")
          /\ UNCHANGED todo
       \/ /\ ~TargetsFail(site, fam)
          /\ LET targets == AssessTargets(site, fam)
             IN  todo' = UNION {{<<i, w>> : w \in targets[i].wires} : i \in 1 .. Len(targets)}
          /\ pc' = "layer2"
          /\ UNCHANGED <<reason, code>>
    /\ UNCHANGED <<site, args, fam, failed, rows, best, proxy, smoke, results>>

\* Fault: every answer replaces the one before.
BestLast(w, m, ok) == [model |-> m, ok |-> ok]

Best(w, m, ok) == IF ok \/ best[w] = NoBest THEN [model |-> m, ok |-> ok] ELSE best[w]

\* The targets are probed in their order.  The order of the wires of one is
\* left open: it makes no difference to any result.
Probe(p, ok) ==
    /\ pc = "layer2"
    /\ p \in todo
    /\ \A q \in todo : p[1] <= q[1]
    /\ LET m == AssessTargets(site, fam)[p[1]].model
       IN  /\ rows' = rows \cup {[model |-> m, wire |-> p[2], ok |-> ok]}
           /\ best' = [best EXCEPT ![p[2]] = Best(p[2], m, ok)]
    /\ todo' = todo \ {p}
    /\ UNCHANGED <<site, args, fam, pc, reason, failed, proxy, smoke, results, code>>

Ready(a) == \E r \in rows : r.ok /\ r.wire = WireOf(a)

EndLayer2 ==
    /\ pc = "layer2"
    /\ todo = {}
    /\ LET ok == \E a \in AgentsForAssess(site, fam) : Ready(a)
       IN  /\ results' = [results EXCEPT !["layer2"] = Verdict(ok)]
           /\ failed' = (failed \/ ~ok)
    /\ pc' = "relay"
    /\ UNCHANGED <<site, args, fam, reason, todo, rows, best, proxy, smoke, code>>

----------------------------------------------------------------------------
\* ensure_litellm_proxy: the script may fail, which is an exception here.
StartRelay ==
    /\ pc = "relay"
    /\ \/ /\ proxy' = ModelList(site, fam)
          /\ pc' = "layer3"
          /\ UNCHANGED <<reason, code>>
       \/ /\ SystemExit("proxy")
          /\ UNCHANGED proxy
    /\ UNCHANGED <<site, args, fam, failed, todo, rows, best, smoke, results>>

\* The proxy looks for the name and does not know who asks: if several
\* entries have it, it takes any.
Served(name) == \E e \in proxy : e.name = name
ServedFor(name, a) == \E e \in proxy : e.name = name /\ e.agent = a

\* Fault: the verdict of this layer replaces those before.
Layer3LastCounts(ok) ==
    /\ pc = "layer3"
    /\ ~RelayFails(site, args.agent, fam)
    /\ ok => Served(Name(RelayModel(site, args.agent, fam), FALSE))
    /\ results' = [results EXCEPT !["layer3"] = Verdict(ok)]
    /\ failed' = ~ok
    /\ pc' = IF args.smoke THEN "smoke" ELSE "write"
    /\ UNCHANGED <<site, args, fam, reason, todo, rows, best, proxy, smoke, code>>

\* The proxy refuses a name that is not in its model list.
Layer3(ok) ==
    /\ pc = "layer3"
    /\ ~RelayFails(site, args.agent, fam)
    /\ ok => Served(Name(RelayModel(site, args.agent, fam), FALSE))
    /\ results' = [results EXCEPT !["layer3"] = Verdict(ok)]
    /\ failed' = (failed \/ ~ok)
    /\ pc' = IF args.smoke THEN "smoke" ELSE "write"
    /\ UNCHANGED <<site, args, fam, reason, todo, rows, best, proxy, smoke, code>>

Layer3Exits ==
    /\ pc = "layer3"
    /\ RelayFails(site, args.agent, fam)
    /\ SystemExit("model")
    /\ UNCHANGED <<site, args, fam, failed, todo, rows, best, proxy, smoke, results>>

----------------------------------------------------------------------------
(* run_layer3_smoke. *)

\* load_smoke_scenarios looks the site up without the family.
BeginSmoke ==
    /\ pc = "smoke"
    /\ \/ /\ PlanFails(site, NoFamily)
          /\ SystemExit("smoke")
       \/ /\ ~PlanFails(site, NoFamily)
          /\ pc' = "scenarios"
          /\ UNCHANGED <<reason, code>>
    /\ UNCHANGED <<site, args, fam, failed, todo, rows, best, proxy, smoke, results>>

Index == smoke.next
Current == Scenarios[Index]
Applies == args.agent \in Current.agents
Skipped == Current.agentOnly /\ args.mode # "agent"

\* run_smoke_scenario_relay is not told the family either.
RelayCanAnswer ==
    /\ ~RelayFails(site, args.agent, NoFamily)
    /\ Served(Name(RelayModel(site, args.agent, NoFamily), FALSE))

\* The launcher of the agent uses the same proxy, with the agent's model.
AgentCanAnswer ==
    /\ args.agent \in DOMAIN Layer3Models(site, fam)
    /\ Served(Name(Layer3Models(site, fam)[args.agent], FALSE))

CanAnswer == IF args.mode = "relay" THEN RelayCanAnswer ELSE AgentCanAnswer

Expected == ModelFor(Layer3Models(site, fam), args.agent)

Outcome(out) == IF Skipped THEN "skip" ELSE Judge(Current, Expected, out)

\* Fault: a required scenario that is skipped is not counted as failed.
FailsUnlessSkipped(outcome) == outcome = "bad"

\* Of the required scenarios.
Fails(outcome) == outcome \in {"bad", "skip"}

\* What can be answered.  An error of the network or a silent time-out counts
\* as a failure; a CLI agent has no envelope.
Possible(out) ==
    /\ Skipped \/ ~CanAnswer => out.failed
    /\ args.mode = "agent" => out.api = NoModel

RunScenario(out) ==
    /\ pc = "scenarios"
    /\ Index <= Len(Scenarios)
    /\ Applies
    /\ Possible(out)
    /\ LET outcome == Outcome(out)
       IN smoke' =
            [next   |-> Index + 1,
             shown  |-> smoke.shown \cup {Index},
             passed |-> IF outcome \in {"ok", "mismatch"} THEN smoke.passed \cup {Index} ELSE smoke.passed,
             requiredFailed |-> smoke.requiredFailed + IF Current.required /\ Fails(outcome) THEN 1 ELSE 0,
             optionalFailed |-> smoke.optionalFailed +
                 IF outcome = "mismatch" \/ (~Current.required /\ outcome = "bad") THEN 1 ELSE 0,
             heard  |-> IF out.failed \/ out.api = NoModel \/ ~AsksModel(Current) THEN smoke.heard
                        ELSE smoke.heard \cup {<<Index, out.api>>}]
    /\ UNCHANGED <<site, args, fam, pc, reason, failed, todo, rows, best, proxy, results, code>>

\* What nobody catches: an answer of the proxy that is not JSON, and a time-out
\* of an agent that has printed something, served or not, whose output is bytes
\* and not text.
Aborts ==
    /\ pc = "scenarios"
    /\ Index <= Len(Scenarios)
    /\ Applies
    /\ ~Skipped
    /\ args.mode = "relay" => CanAnswer
    /\ SystemExit("uncaught")
    /\ UNCHANGED <<site, args, fam, failed, todo, rows, best, proxy, smoke, results>>

NotForAgent ==
    /\ pc = "scenarios"
    /\ Index <= Len(Scenarios)
    /\ ~Applies
    /\ smoke' = [smoke EXCEPT !.next = Index + 1]
    /\ UNCHANGED <<site, args, fam, pc, reason, failed, todo, rows, best, proxy, results, code>>

EndSmoke ==
    /\ pc = "scenarios"
    /\ Index > Len(Scenarios)
    /\ LET status == CASE smoke.shown = {} \/ smoke.requiredFailed > 0 -> "fail"
                       [] smoke.shown # {} /\ smoke.requiredFailed = 0 /\ smoke.optionalFailed > 0 -> "warn"
                       [] OTHER -> "pass"
       IN  /\ results' = [results EXCEPT !["smoke"] = status]
           /\ failed' = (failed \/ status = "fail")
    /\ pc' = "write"
    /\ UNCHANGED <<site, args, fam, reason, todo, rows, best, proxy, smoke, code>>

\* The evidence, and the report if wanted, are written whatever the verdict.
Write ==
    /\ pc = "write"
    /\ pc' = "end"
    /\ code' = IF failed THEN 1 ELSE 0
    /\ UNCHANGED <<site, args, fam, reason, failed, todo, rows, best, proxy, smoke, results>>

Next ==
    \/ Resolve
    \/ NetworkError
    \/ \E a \in CatalogAnswers : Layer1(CatalogBranch(a) # "unavailable")
    \/ PlanLayer2
    \/ \E p \in todo : \E a \in Answers(p[2]) : Probe(p, ProbeResult(a) = "OK")
    \/ EndLayer2 \/ StartRelay \/ Layer3Exits
    \/ \E a \in Answers(WireOf(args.agent)) : Layer3(ProbeResult(a) = "OK")
    \/ BeginSmoke \/ NotForAgent \/ Aborts \/ EndSmoke
    \/ Index <= Len(Scenarios) /\ \E out \in Outputs(Current) : RunScenario(out)
    \/ Write

Spec == Init /\ [][Next]_vars

----------------------------------------------------------------------------
TypeOK ==
    /\ site \in Sites
    /\ args \in Args
    /\ fam \in Families(site) \cup {NoFamily}
    /\ pc \in Step \cup {"end", "exit"}
    /\ reason \in {"none", "family", "scope", "network", "targets", "proxy", "model", "smoke", "uncaught"}
    /\ failed \in BOOLEAN
    /\ \A p \in todo : p[1] \in Nat /\ p[2] \in Wire
    /\ rows \subseteq Row
    /\ best \in [Wire -> [model : Model \cup {NoModel}, ok : BOOLEAN]]
    /\ \A e \in proxy : e.upstream \in Model /\ e.agent \in AllowedAgents(site.protocol)
    /\ smoke \in Counters
    /\ results \in [Layers -> {"none", "pass", "warn", "fail"}]
    /\ code \in {0, 1}

(***************************************************************************)
(* The family inferred for an agent at a site with several is one that the *)
(* site assesses with this agent (resolve_family_for_site_agent 700-749):  *)
(* the agent is never refused as out of scope of a family that the user    *)
(* did not choose.                                                         *)
(***************************************************************************)
InferenceFits ==
    reason = "scope" /\ args.family = NoFamily => Cardinality(Families(site)) <= 1

(***************************************************************************)
(* What the evidence names as the best result of a wire is one of its      *)
(* rows, and it is an answer if any model answered on the wire             *)
(* (run_layer2 1638-1641): a later failure does not hide it.               *)
(***************************************************************************)
BestIsBest ==
    \A w \in Wire :
        /\ best[w].ok <=> \E r \in rows : r.wire = w /\ r.ok
        /\ best[w] # NoBest => [model |-> best[w].model, wire |-> w, ok |-> best[w].ok] \in rows

\* The proxy then calls Codex's entry "<model>-codex-relay".
SharesModel ==
    args.agent = "codex" /\ ModelFor(Layer3Models(site, fam), "opencode") = Layer3Models(site, fam)["codex"]

(***************************************************************************)
(* Which entry of the proxy Layer 3, and the launcher of an agent after    *)
(* it, gets to: the name that is asked for and those of the model list are *)
(* derived separately (write_litellm_config 450-524, run_layer3_relay      *)
(* 1816-1870).  An agent that has a model of its own asks for the name of  *)
(* an entry that was made for it, so that a failure is then one of the     *)
(* source or the proxy.                                                    *)
(* Codex is different where it has OpenCode's model.  Its bridged entry is *)
(* there, under the name that litellm_relay_model_name (432-447) calls the *)
(* one exposed to it, but the plain name is asked for: OpenCode's entry    *)
(* answers, which is not bridged, and if OpenCode is not in scope none     *)
(* does.  Layer 3 then says nothing of the bridge.                         *)
(***************************************************************************)
ProbeIsServed ==
    pc \in {"layer3", "smoke", "scenarios"} /\ args.agent \in DOMAIN Layer3Models(site, fam) =>
        LET m == RelayModel(site, args.agent, fam)
        IN  IF SharesModel
            THEN /\ ServedFor(Name(m, TRUE), "codex")
                 /\ ~ServedFor(Name(m, FALSE), "codex")
                 /\ ServedFor(Name(m, FALSE), "opencode") <=> "opencode" \in AgentsForAssess(site, fam)
            ELSE ServedFor(Name(m, FALSE), args.agent)

(***************************************************************************)
(* The exit code and the evidence agree, in both directions.  A run that   *)
(* stopped before writing it leaves 1; one that wrote it leaves 1 only if  *)
(* it records a layer as failed, and 0 only if the source passed every     *)
(* layer that was asked for, an agent in scope was answered on its wire,   *)
(* and the proxy knew the name asked for (cmd_assess_source 2887-3007).    *)
(***************************************************************************)
CleanExit ==
    /\ pc = "exit" => code = 1 /\ reason # "none"
    /\ pc = "end" /\ code = 1 => \E l \in Layers : results[l] = "fail"
    /\ pc = "end" /\ code = 0 =>
          /\ \A l \in {"layer1", "layer2", "layer3"} : results[l] = "pass"
          /\ IF args.smoke THEN results["smoke"] \in {"pass", "warn"} ELSE results["smoke"] = "none"
          /\ \E a \in AgentsForAssess(site, fam) : Ready(a)
          /\ Served(Name(RelayModel(site, args.agent, fam), FALSE))

(***************************************************************************)
(* The smoke test only passes, with or without warning, if every required  *)
(* scenario of the agent was executed and passed, and there was one        *)
(* scenario at least (run_layer3_smoke 2340-2543).                         *)
(***************************************************************************)
SmokeIsComplete ==
    results["smoke"] \in {"pass", "warn"} =>
        /\ smoke.shown # {}
        /\ \A i \in 1 .. Len(Scenarios) :
              Scenarios[i].required /\ args.agent \in Scenarios[i].agents => i \in smoke.passed

(***************************************************************************)
(* Exit code 0 of a run with smoke scenarios vouches for the model: where  *)
(* the answer to a required model probe named a model, it is the one of    *)
(* the family and agent assessed, although the request is made for a model *)
(* that is looked up without the family (evaluate_smoke_output 2312-2318,  *)
(* run_smoke_scenario_relay 2085-2115).                                    *)
(***************************************************************************)
ModelIsVouched ==
    pc = "end" /\ code = 0 /\ Expected # NoModel =>
        \A h \in smoke.heard : Scenarios[h[1]].required => IdsMatch(h[2], Expected)

(***************************************************************************)
(* The smoke test of a family that the user named runs its scenarios       *)
(* (CONFIG.md line 70 shows it for a site of two families).  In the code    *)
(* load_smoke_scenarios leaves the family out.                             *)
(***************************************************************************)
SmokeRuns == args.family \in Families(site) => reason # "smoke"
============================================================================
