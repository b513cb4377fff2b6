------------------------- MODULE AssessSourceProofs -------------------------
(***************************************************************************)
(* AssessSource proved for any sites, models and smoke scenarios: what     *)
(* Layer 3 asks the proxy for, what exit code 0 means, what a smoke test   *)
(* that passes has run, and which row is reported as best.                 *)
(***************************************************************************)
EXTENDS AssessSource, SequenceTheorems, FiniteSetTheorems, TLAPS

\* Where a run is once a layer has its verdict, and once the proxy is up.
Closed == {"write", "end"}
After3 == {"smoke", "scenarios"} \cup Closed
Started == {"layer3"} \cup After3
After2 == {"relay"} \cup Started
After1 == {"plan", "layer2"} \cup After2

BaseOK ==
    /\ site \in Sites
    /\ args \in Args
    /\ failed \in BOOLEAN
    /\ DOMAIN best = Wire
    /\ DOMAIN results = Layers

\* The family was resolved, and the agent is one it is assessed with.
ScopeOK ==
    pc \in {"layer1"} \cup After1 =>
        /\ ~PlanFails(site, fam)
        /\ args.agent \in AgentsForAssess(site, fam)

ProbeServed == Served(Name(RelayModel(site, args.agent, fam), FALSE))

ProxyOK == pc \in Started => proxy = ModelList(site, fam)

\* Nothing has failed only if every layer so far passed.
VerdictsOK ==
    /\ pc \in After1 /\ ~failed => results["layer1"] = "pass"
    /\ pc \in After2 /\ ~failed =>
          results["layer2"] = "pass" /\ \E a \in AgentsForAssess(site, fam) : Ready(a)
    /\ pc \in After3 /\ ~failed => results["layer3"] = "pass" /\ ProbeServed
    /\ pc \in {"smoke", "scenarios"} => args.smoke
    /\ pc \notin Closed => results["smoke"] = "none"
    /\ pc \in Closed =>
          /\ ~args.smoke => results["smoke"] = "none"
          /\ args.smoke /\ ~failed => results["smoke"] \in {"pass", "warn"}
    /\ pc = "end" /\ code = 0 => ~failed

Tally == [next : Nat, shown : SUBSET Nat, passed : SUBSET Nat,
          requiredFailed : Nat, optionalFailed : Nat, heard : SUBSET (Nat \X Id)]

\* Without a failure so far, the required scenarios so far have passed.
SmokeOK ==
    /\ smoke \in Tally
    /\ \A i \in 1 .. Len(Scenarios) :
          /\ i < smoke.next
          /\ Scenarios[i].required
          /\ args.agent \in Scenarios[i].agents
          /\ smoke.requiredFailed = 0
          => i \in smoke.passed

Inv ==
    /\ BaseOK
    /\ ScopeOK
    /\ ProxyOK
    /\ VerdictsOK
    /\ SmokeOK
    /\ SmokeIsComplete
    /\ BestIsBest

----------------------------------------------------------------------------
\* A plan that resolves gives every agent it names a model for Layer 3.
LEMMA Layer3ModelsAreModels ==
    ASSUME NEW s, IsSite(s), NEW key, ~PlanFails(s, key),
           NEW a \in DOMAIN Layer3Models(s, key)
    PROVE  Layer3Models(s, key)[a] \in Model
<1> DEFINE f == KnownFamily(s, key)
<1>1. CASE f = NoFamily
  <2>1. Layer3Models(s, key) = s.models
    BY <1>1 DEF Layer3Models
  <2>2. PICK S \in SUBSET Agent : s.models \in [S -> Model]
    BY DEF IsSite, ModelMap
  <2> QED
    BY <2>1, <2>2
<1>2. CASE f # NoFamily
  <2>1. f \in Families(s)
    <3>1. CASE key # NoFamily
      BY <3>1 DEF KnownFamily, PlanFails
    <3>2. CASE key = NoFamily
      <4>1. \E g \in Family : Families(s) = {g}
        BY <3>2, <1>2 DEF KnownFamily
      <4>2. f = CHOOSE g \in Family : Families(s) = {g}
        BY <3>2, <4>1 DEF KnownFamily
      <4> QED
        BY <4>1, <4>2
    <3> QED
      BY <3>1, <3>2
  <2> DEFINE own == s.families[f].own
             first == s.families[f].models
             defaulted == IF first = <<>> THEN {} ELSE FamilyAgents(f)
  <2>2. s.families[f] \in FamilyConfig
    BY <2>1 DEF IsSite
  <2>3. first \in Seq(Model) /\ own \in ModelMap
    BY <2>2 DEF FamilyConfig
  <2>4. PICK S \in SUBSET Agent : own \in [S -> Model]
    BY <2>3 DEF ModelMap
  <2>5. Layer3Models(s, key) =
            [b \in DOMAIN own \cup defaulted |-> IF b \in DOMAIN own THEN own[b] ELSE Head(first)]
    BY <1>2 DEF Layer3Models, OverlayModels
  <2>6. a \in DOMAIN own \cup defaulted
    BY <2>5
  <2>7. Layer3Models(s, key)[a] = IF a \in DOMAIN own THEN own[a] ELSE Head(first)
    BY <2>5, <2>6
  <2>8. CASE a \in DOMAIN own
    BY <2>4, <2>7, <2>8
  <2>9. CASE a \notin DOMAIN own
    <3>1. first # <<>>
      BY <2>6, <2>9
    <3>2. Head(first) \in Model
      BY <2>3, <3>1, HeadTailProperties
    <3> QED
      BY <2>7, <2>9, <3>2
  <2> QED
    BY <2>8, <2>9
<1> QED
  BY <1>1, <1>2

\* The model list has one entry for each agent in scope with a model of its
\* own, under the name that is exposed to it.
LEMMA ModelListEntries ==
    ASSUME NEW s, NEW key
    PROVE  /\ \A e \in ModelList(s, key) :
                 /\ e.agent \in AgentsForAssess(s, key) \cap DOMAIN Layer3Models(s, key)
                 /\ e.name = ExposedName(s, e.agent, key)
           /\ \A a \in AgentsForAssess(s, key) \cap DOMAIN Layer3Models(s, key) :
                 \E e \in ModelList(s, key) : e.agent = a /\ e.name = ExposedName(s, a, key)
<1> DEFINE scope == AgentsForAssess(s, key) \cap DOMAIN Layer3Models(s, key)
           entry(a) == [name |-> ExposedName(s, a, key), upstream |-> Layer3Models(s, key)[a], agent |-> a]
<1>1. ModelList(s, key) = {entry(a) : a \in scope}
  BY DEF ModelList
<1>2. \A a : entry(a).agent = a /\ entry(a).name = ExposedName(s, a, key)
  OBVIOUS
<1> HIDE DEF entry, scope
<1>3. \A e \in ModelList(s, key) : e.agent \in scope /\ e.name = ExposedName(s, e.agent, key)
  BY <1>1, <1>2
<1>4. \A a \in scope : \E e \in ModelList(s, key) : e.agent = a /\ e.name = ExposedName(s, a, key)
  BY <1>1, <1>2
<1> QED
  BY <1>3, <1>4 DEF scope

\* Inv holds when a run begins.
LEMMA InitInv == Init => Inv
<1> SUFFICES ASSUME Init PROVE Inv
  OBVIOUS
<1> USE DEF Init
<1>1. BaseOK
  BY DEF BaseOK, Layers
<1>2. ScopeOK /\ ProxyOK
  BY DEF ScopeOK, ProxyOK, Closed, After3, Started, After2, After1
<1>3. VerdictsOK
  BY DEF VerdictsOK, Closed, After3, Started, After2, After1, Layers
<1>4. SmokeOK
  BY ScenariosAssumption DEF SmokeOK, NoSmoke, Tally
<1>5. SmokeIsComplete
  BY DEF SmokeIsComplete, Layers
<1>6. BestIsBest
  BY DEF BestIsBest, NoBest
<1> QED
  BY <1>1, <1>2, <1>3, <1>4, <1>5, <1>6 DEF Inv

----------------------------------------------------------------------------
\* What a step does not touch keeps its part of the invariant.
LEMMA SameBest ==
    ASSUME BestIsBest, UNCHANGED <<best, rows>>
    PROVE  BestIsBest'
BY DEF BestIsBest

LEMMA SameSmoke ==
    ASSUME SmokeOK, UNCHANGED <<args, smoke>>
    PROVE  SmokeOK'
BY DEF SmokeOK

LEMMA SameComplete ==
    ASSUME SmokeIsComplete, UNCHANGED <<args, smoke>>, results'["smoke"] = results["smoke"]
    PROVE  SmokeIsComplete'
BY DEF SmokeIsComplete

\* A run that leaves with a message keeps all that was found.
LEMMA ExitInv ==
    ASSUME Inv, pc \notin Closed, pc' = "exit",
           UNCHANGED <<site, args, fam, failed, rows, best, smoke, results>>
    PROVE  Inv'
<1> USE DEF Inv
<1>1. BaseOK'
  BY DEF BaseOK
<1>2. ScopeOK' /\ ProxyOK'
  BY DEF ScopeOK, ProxyOK, Closed, After3, Started, After2, After1
<1>3. VerdictsOK'
  BY DEF VerdictsOK, Closed, After3, Started, After2, After1
<1>4. SmokeOK' /\ SmokeIsComplete' /\ BestIsBest'
  BY SameSmoke, SameComplete, SameBest
<1> QED
  BY <1>1, <1>2, <1>3, <1>4

\* The family is resolved, or the run is refused.
LEMMA ResolveInv == Inv /\ Resolve => Inv'
<1> SUFFICES ASSUME Inv, Resolve PROVE Inv'
  OBVIOUS
<1>1. CASE pc' = "exit"
  BY <1>1, ExitInv DEF Resolve, Closed
<1>2. CASE pc' # "exit"
  <2>1. /\ pc = "resolve" /\ pc' = "layer1"
        /\ ~ResolveFails /\ fam' = Inferred
        /\ args.agent \in AgentsForAssess(site, Inferred)
        /\ UNCHANGED <<site, args, failed, rows, best, proxy, smoke, results>>
    BY <1>2 DEF Resolve, SystemExit
  <2>2. ~PlanFails(site, Inferred)
    BY <2>1 DEF ResolveFails
  <2>3. BaseOK'
    BY <2>1 DEF Inv, BaseOK
  <2>4. ScopeOK'
    BY <2>1, <2>2 DEF ScopeOK
  <2>5. ProxyOK'
    BY <2>1 DEF ProxyOK, Closed, After3, Started
  <2>6. VerdictsOK'
    BY <2>1 DEF Inv, VerdictsOK, Closed, After3, Started, After2, After1
  <2>7. SmokeOK' /\ SmokeIsComplete' /\ BestIsBest'
    BY <2>1, SameSmoke, SameComplete, SameBest DEF Inv
  <2> QED
    BY <2>3, <2>4, <2>5, <2>6, <2>7 DEF Inv
<1> QED
  BY <1>1, <1>2

\* Layer 1 and the planning of Layer 2.
LEMMA CatalogInv ==
    ASSUME Inv, NEW ok \in BOOLEAN, Layer1(ok) \/ PlanLayer2
    PROVE  Inv'
<1>1. CASE Layer1(ok)
  <2> USE <1>1 DEF Layer1
  <2>1. BaseOK'
    BY DEF Inv, BaseOK
  <2>2. ScopeOK' /\ ProxyOK'
    BY DEF Inv, ScopeOK, ProxyOK, Closed, After3, Started, After2, After1
  <2>3. results' = [results EXCEPT !["layer1"] = Verdict(ok)] /\ "layer1" \in DOMAIN results
    BY DEF Inv, BaseOK, Layers
  <2>4. results'["smoke"] = results["smoke"] /\ results'["layer1"] = Verdict(ok)
    BY <2>3
  <2>5. VerdictsOK'
    BY <2>4 DEF Inv, VerdictsOK, Verdict, Closed, After3, Started, After2, After1
  <2>6. SmokeOK' /\ SmokeIsComplete' /\ BestIsBest'
    BY <2>4, SameSmoke, SameComplete, SameBest DEF Inv
  <2> QED
    BY <2>1, <2>2, <2>5, <2>6 DEF Inv
<1>2. CASE PlanLayer2
  <2>1. CASE pc' = "exit"
    BY <1>2, <2>1, ExitInv DEF PlanLayer2, Closed
  <2>2. CASE pc' # "exit"
    <3>1. /\ pc = "plan" /\ pc' = "layer2"
          /\ UNCHANGED <<site, args, fam, failed, rows, best, proxy, smoke, results>>
      BY <1>2, <2>2 DEF PlanLayer2, SystemExit
    <3>2. BaseOK'
      BY <3>1 DEF Inv, BaseOK
    <3>3. ScopeOK' /\ ProxyOK'
      BY <3>1 DEF Inv, ScopeOK, ProxyOK, Closed, After3, Started, After2, After1
    <3>4. VerdictsOK'
      BY <3>1 DEF Inv, VerdictsOK, Closed, After3, Started, After2, After1
    <3>5. SmokeOK' /\ SmokeIsComplete' /\ BestIsBest'
      BY <3>1, SameSmoke, SameComplete, SameBest DEF Inv
    <3> QED
      BY <3>2, <3>3, <3>4, <3>5 DEF Inv
  <2> QED
    BY <2>1, <2>2
<1> QED
  BY <1>1, <1>2

\* A probe adds a row, and replaces the best one only by an answer.
LEMMA ProbeInv ==
    ASSUME Inv, NEW p \in todo, NEW ok \in BOOLEAN, Probe(p, ok)
    PROVE  Inv'
<1> DEFINE m == AssessTargets(site, fam)[p[1]].model
           row == [model |-> m, wire |-> p[2], ok |-> ok]
<1>1. /\ pc = "layer2" /\ rows' = rows \cup {row}
      /\ best' = [best EXCEPT ![p[2]] = Best(p[2], m, ok)]
      /\ UNCHANGED <<site, args, fam, pc, failed, proxy, smoke, results>>
  BY DEF Probe
<1>2. BaseOK'
  BY <1>1 DEF Inv, BaseOK
<1>3. ScopeOK' /\ ProxyOK'
  BY <1>1 DEF Inv, ScopeOK, ProxyOK
<1>4. VerdictsOK'
  BY <1>1 DEF Inv, VerdictsOK, Closed, After3, Started, After2
<1>5. SmokeOK' /\ SmokeIsComplete'
  BY <1>1, SameSmoke, SameComplete DEF Inv
<1>6. row.wire = p[2] /\ row.ok = ok /\ row.model = m
  OBVIOUS
<1> HIDE DEF m, row
<1>7. ASSUME NEW w \in Wire
      PROVE  /\ best'[w].ok <=> \E r \in rows' : r.wire = w /\ r.ok
             /\ best'[w] # NoBest => [model |-> best'[w].model, wire |-> w, ok |-> best'[w].ok] \in rows'
  <2>1. /\ best[w].ok <=> \E r \in rows : r.wire = w /\ r.ok
        /\ best[w] # NoBest => [model |-> best[w].model, wire |-> w, ok |-> best[w].ok] \in rows
    BY DEF Inv, BestIsBest
  <2>2. w \in DOMAIN best
    BY DEF Inv, BaseOK
  <2>3. CASE w # p[2]
    <3>1. best'[w] = best[w]
      BY <1>1, <2>2, <2>3
    <3> QED
      BY <1>1, <1>6, <2>1, <2>3, <3>1
  <2>4. CASE w = p[2] /\ (ok \/ best[w] = NoBest)
    <3> DEFINE new == [model |-> m, ok |-> ok]
    <3>1. best'[w] = new
      BY <1>1, <2>2, <2>4 DEF Best
    <3>2. new.model = m /\ new.ok = ok
      OBVIOUS
    <3>3. [model |-> m, wire |-> w, ok |-> ok] = row
      BY <2>4 DEF row
    <3>4. ~ok => ~best[w].ok
      BY <2>4 DEF NoBest
    <3> HIDE DEF new
    <3> QED
      BY <1>1, <1>6, <2>1, <2>4, <3>1, <3>2, <3>3, <3>4
  <2>5. CASE w = p[2] /\ ~ok /\ best[w] # NoBest
    <3>1. best'[w] = best[w]
      BY <1>1, <2>2, <2>5 DEF Best
    <3> QED
      BY <1>1, <1>6, <2>1, <2>5, <3>1
  <2> QED
    BY <2>3, <2>4, <2>5
<1>8. BestIsBest'
  BY <1>7 DEF BestIsBest
<1> QED
  BY <1>2, <1>3, <1>4, <1>5, <1>8 DEF Inv

\* Layer 2 ends with its verdict, and the proxy starts or does not.
LEMMA RelayInv == Inv /\ (EndLayer2 \/ StartRelay) => Inv'
<1>1. ASSUME Inv, EndLayer2 PROVE Inv'
  <2> DEFINE ready == \E a \in AgentsForAssess(site, fam) : Ready(a)
  <2>1. /\ pc = "layer2" /\ pc' = "relay"
        /\ results' = [results EXCEPT !["layer2"] = Verdict(ready)]
        /\ failed' = (failed \/ ~ready)
        /\ UNCHANGED <<site, args, fam, rows, best, proxy, smoke>>
    BY <1>1 DEF EndLayer2
  <2>2. /\ results'["smoke"] = results["smoke"]
        /\ results'["layer1"] = results["layer1"]
        /\ results'["layer2"] = Verdict(ready)
    BY <1>1, <2>1 DEF Inv, BaseOK, Layers
  <2>3. ready' <=> ready
    BY <2>1 DEF Ready
  <2>4. BaseOK'
    BY <1>1, <2>1 DEF Inv, BaseOK
  <2>5. ScopeOK' /\ ProxyOK'
    BY <1>1, <2>1 DEF Inv, ScopeOK, ProxyOK, Closed, After3, Started, After2, After1
  <2> HIDE DEF ready
  <2>6. ~failed' => results'["layer2"] = "pass" /\ ready'
    BY <2>1, <2>2, <2>3 DEF Verdict
  <2>7. VerdictsOK'
    BY <1>1, <2>1, <2>2, <2>6 DEF Inv, VerdictsOK, ready, Closed, After3, Started, After2, After1
  <2>8. SmokeOK' /\ SmokeIsComplete' /\ BestIsBest'
    BY <1>1, <2>1, <2>2, SameSmoke, SameComplete, SameBest DEF Inv
  <2> QED
    BY <2>4, <2>5, <2>7, <2>8 DEF Inv
<1>2. ASSUME Inv, StartRelay PROVE Inv'
  <2>1. CASE pc' = "exit"
    BY <1>2, <2>1, ExitInv DEF StartRelay, Closed
  <2>2. CASE pc' # "exit"
    <3>1. /\ pc = "relay" /\ pc' = "layer3" /\ proxy' = ModelList(site, fam)
          /\ UNCHANGED <<site, args, fam, failed, rows, best, smoke, results>>
      BY <1>2, <2>2 DEF StartRelay, SystemExit
    <3>2. BaseOK'
      BY <1>2, <3>1 DEF Inv, BaseOK
    <3>3. ScopeOK' /\ ProxyOK'
      BY <1>2, <3>1 DEF Inv, ScopeOK, ProxyOK, Closed, After3, Started, After2, After1
    <3>4. VerdictsOK'
      BY <1>2, <3>1 DEF Inv, VerdictsOK, Ready, Closed, After3, Started, After2, After1
    <3>5. SmokeOK' /\ SmokeIsComplete' /\ BestIsBest'
      BY <1>2, <3>1, SameSmoke, SameComplete, SameBest DEF Inv
    <3> QED
      BY <3>2, <3>3, <3>4, <3>5 DEF Inv
  <2> QED
    BY <2>1, <2>2
<1> QED
  BY <1>1, <1>2

\* The request of Layer 3: it only succeeds if the proxy knows the model.
LEMMA Layer3Inv ==
    ASSUME Inv, NEW ok \in BOOLEAN, Layer3(ok)
    PROVE  Inv'
<1>1. /\ pc = "layer3" /\ pc' = IF args.smoke THEN "smoke" ELSE "write"
      /\ ok => ProbeServed
      /\ results' = [results EXCEPT !["layer3"] = Verdict(ok)]
      /\ failed' = (failed \/ ~ok)
      /\ UNCHANGED <<site, args, fam, rows, best, proxy, smoke>>
  BY DEF Layer3, ProbeServed
<1>2. /\ results'["smoke"] = results["smoke"]
      /\ results'["layer1"] = results["layer1"]
      /\ results'["layer2"] = results["layer2"]
      /\ results'["layer3"] = Verdict(ok)
  BY <1>1 DEF Inv, BaseOK, Layers
<1>3. BaseOK'
  BY <1>1 DEF Inv, BaseOK
<1>4. ScopeOK' /\ ProxyOK'
  BY <1>1 DEF Inv, ScopeOK, ProxyOK, Closed, After3, Started, After2, After1
<1>5. ProbeServed' <=> ProbeServed
  BY <1>1 DEF ProbeServed, Served
<1>6. ~failed' => results'["layer3"] = "pass" /\ ProbeServed'
  BY <1>1, <1>2, <1>5 DEF Verdict
<1>7. VerdictsOK'
  BY <1>1, <1>2, <1>6 DEF Inv, VerdictsOK, Ready, Closed, After3, Started, After2, After1
<1>8. SmokeOK' /\ SmokeIsComplete' /\ BestIsBest'
  BY <1>1, <1>2, SameSmoke, SameComplete, SameBest DEF Inv
<1> QED
  BY <1>3, <1>4, <1>7, <1>8 DEF Inv

\* While the smoke test has not ended, it has no verdict.
LEMMA SmokeStepInv ==
    ASSUME Inv, pc \in {"smoke", "scenarios"}, pc' = "scenarios",
           UNCHANGED <<site, args, fam, failed, rows, best, proxy, results>>,
           SmokeOK'
    PROVE  Inv'
<1>1. BaseOK'
  BY DEF Inv, BaseOK
<1>2. ScopeOK' /\ ProxyOK'
  BY DEF Inv, ScopeOK, ProxyOK, Closed, After3, Started, After2, After1
<1>3. VerdictsOK'
  BY DEF Inv, VerdictsOK, ProbeServed, Served, Ready, Closed, After3, Started, After2, After1
<1>4. SmokeIsComplete'
  BY DEF Inv, VerdictsOK, Closed, SmokeIsComplete
<1> QED
  BY <1>1, <1>2, <1>3, <1>4, SameBest DEF Inv

\* A scenario has one of four outcomes.
LEMMA OutcomeIsOne == \A out : Outcome(out) \in {"ok", "mismatch", "bad", "skip"}
BY DEF Outcome, Judge

\* The envelope of an output names a model or none.
LEMMA OutputNames ==
    ASSUME NEW scenario, NEW out \in Outputs(scenario)
    PROVE  out.api \in Id \cup {NoModel}
<1> DEFINE names == IF AsksModel(scenario) THEN Id \cup {NoModel} ELSE {NoModel}
<1>1. CASE out = Failure
  BY <1>1 DEF Failure
<1>2. CASE out \in [failed : {FALSE}, lacks : SUBSET scenario.expects, reported : names, api : names]
  BY <1>2
<1> QED
  BY <1>1, <1>2 DEF Outputs

\* A required scenario that is passed over without being counted has passed.
LEMMA ScenarioInv ==
    ASSUME Inv, NEW out, out.api \in Id \cup {NoModel},
           RunScenario(out) \/ NotForAgent
    PROVE  Inv'
<1>1. /\ smoke \in Tally
      /\ smoke.next \in Nat /\ smoke.requiredFailed \in Nat /\ smoke.optionalFailed \in Nat
      /\ smoke.shown \in SUBSET Nat /\ smoke.passed \in SUBSET Nat
      /\ smoke.heard \in SUBSET (Nat \X Id)
  BY DEF Inv, SmokeOK, Tally
<1>2. CASE RunScenario(out)
  <2> DEFINE outcome == Outcome(out)
  <2>0. outcome \in {"ok", "mismatch", "bad", "skip"}
    BY OutcomeIsOne
  <2> HIDE DEF outcome
  <2> DEFINE counted == IF Current.required /\ Fails(outcome) THEN 1 ELSE 0
  <2>1. /\ pc = "scenarios" /\ pc' = pc
        /\ UNCHANGED <<site, args, fam, failed, rows, best, proxy, results>>
        /\ smoke' \in Tally
        /\ smoke'.next = smoke.next + 1
        /\ smoke'.requiredFailed = smoke.requiredFailed + counted
        /\ smoke'.passed = IF outcome \in {"ok", "mismatch"} THEN smoke.passed \cup {smoke.next}
                           ELSE smoke.passed
    BY <1>1, <1>2 DEF RunScenario, Index, Tally, outcome
  <2>2. counted \in {0, 1}
    OBVIOUS
  <2>3. ASSUME NEW i \in 1 .. Len(Scenarios), i < smoke'.next,
               Scenarios[i].required, args.agent \in Scenarios[i].agents,
               smoke'.requiredFailed = 0
        PROVE  i \in smoke'.passed
    <3>1. smoke.requiredFailed = 0 /\ counted = 0
      BY <1>1, <2>1, <2>2, <2>3
    <3>2. CASE i < smoke.next
      BY <2>1, <2>3, <3>1, <3>2 DEF Inv, SmokeOK
    <3>3. CASE i = smoke.next
      BY <2>0, <2>1, <2>3, <3>1, <3>3 DEF Current, Index, Fails
    <3> QED
      BY <1>1, <2>1, <2>3, <3>2, <3>3, ScenariosAssumption
  <2>4. SmokeOK'
    BY <1>1, <2>1, <2>2, <2>3 DEF SmokeOK
  <2> QED
    BY <2>1, <2>4, SmokeStepInv
<1>3. CASE NotForAgent
  <2> DEFINE new == [smoke EXCEPT !.next = smoke.next + 1]
  <2>1. /\ pc = "scenarios" /\ pc' = pc
        /\ UNCHANGED <<site, args, fam, failed, rows, best, proxy, results>>
        /\ ~Applies /\ smoke' = new
    BY <1>3 DEF NotForAgent, Index
  <2>2. SmokeOK'
    <3>1. new \in Tally /\ new.next = smoke.next + 1
          /\ new.passed = smoke.passed /\ new.requiredFailed = smoke.requiredFailed
      BY <1>1 DEF Tally
    <3> HIDE DEF new
    <3> QED
      BY <1>1, <2>1, <3>1, ScenariosAssumption DEF Inv, SmokeOK, Applies, Current, Index
  <2> QED
    BY <2>1, <2>2, SmokeStepInv
<1> QED
  BY <1>2, <1>3

\* The verdict of the smoke test.
LEMMA EndSmokeInv == Inv /\ EndSmoke => Inv'
<1> SUFFICES ASSUME Inv, EndSmoke PROVE Inv'
  OBVIOUS
<1> DEFINE status == CASE smoke.shown = {} \/ smoke.requiredFailed > 0 -> "fail"
                       [] smoke.shown # {} /\ smoke.requiredFailed = 0 /\ smoke.optionalFailed > 0 -> "warn"
                       [] OTHER -> "pass"
<1>0. /\ status \in {"pass", "warn", "fail"}
      /\ status # "fail" => smoke.shown # {} /\ ~(smoke.requiredFailed > 0)
  OBVIOUS
<1>1. /\ pc = "scenarios" /\ pc' = "write" /\ ~(smoke.next <= Len(Scenarios))
      /\ results' = [results EXCEPT !["smoke"] = status]
      /\ failed' = (failed \/ status = "fail")
      /\ UNCHANGED <<site, args, fam, rows, best, proxy, smoke>>
  <2>1. smoke.next \in Nat /\ Len(Scenarios) \in Nat
    BY ScenariosAssumption DEF Inv, SmokeOK, Tally
  <2>2. ~(smoke.next <= Len(Scenarios))
    BY <2>1 DEF EndSmoke, Index
  <2> QED
    BY <2>2 DEF EndSmoke
<1> HIDE DEF status
<1>2. /\ results'["smoke"] = status
      /\ results'["layer1"] = results["layer1"]
      /\ results'["layer2"] = results["layer2"]
      /\ results'["layer3"] = results["layer3"]
  BY <1>1 DEF Inv, BaseOK, Layers
<1>3. BaseOK'
  BY <1>1 DEF Inv, BaseOK
<1>4. ScopeOK' /\ ProxyOK'
  BY <1>1 DEF Inv, ScopeOK, ProxyOK, Closed, After3, Started, After2, After1
<1>5. VerdictsOK'
  BY <1>0, <1>1, <1>2 DEF Inv, VerdictsOK, ProbeServed, Served, Ready, Closed, After3, Started, After2, After1
<1>6. SmokeIsComplete'
  <2>1. smoke.next \in Nat /\ smoke.requiredFailed \in Nat /\ Len(Scenarios) \in Nat
    BY ScenariosAssumption DEF Inv, SmokeOK, Tally
  <2>2. status # "fail" => smoke.requiredFailed = 0
    BY <1>0, <2>1
  <2> QED
    BY <1>0, <1>1, <1>2, <2>1, <2>2 DEF Inv, SmokeOK, SmokeIsComplete
<1> QED
  BY <1>1, <1>3, <1>4, <1>5, <1>6, SameSmoke, SameBest DEF Inv

\* Writing the evidence only settles the exit code.
LEMMA WriteInv == Inv /\ Write => Inv'
<1> SUFFICES ASSUME Inv, Write PROVE Inv'
  OBVIOUS
<1> USE DEF Write
<1>1. BaseOK'
  BY DEF Inv, BaseOK
<1>2. ScopeOK' /\ ProxyOK'
  BY DEF Inv, ScopeOK, ProxyOK, Closed, After3, Started, After2, After1
<1>3. code' = 0 => ~failed'
  OBVIOUS
<1>4. ProbeServed' = ProbeServed
  BY DEF ProbeServed, Served
<1>5. \A a : Ready(a)' = Ready(a)
  BY DEF Ready
<1>6. VerdictsOK'
  BY <1>3, <1>4, <1>5 DEF Inv, VerdictsOK, Closed, After3, Started, After2, After1
<1> QED
  BY <1>1, <1>2, <1>6, SameSmoke, SameComplete, SameBest DEF Inv

\* Inv is kept by every step.
LEMMA StepInv == Inv /\ [Next]_vars => Inv'
<1> SUFFICES ASSUME Inv, [Next]_vars PROVE Inv'
  OBVIOUS
<1>1. CASE Resolve
  BY <1>1, ResolveInv
<1>2. CASE NetworkError
  <2>1. pc \in {"layer1", "plan", "layer2", "layer3"}
    BY <1>2 DEF NetworkError
  <2> QED
    BY <1>2, <2>1, ExitInv DEF NetworkError, SystemExit, Closed
<1>3. CASE \E a \in CatalogAnswers : Layer1(CatalogBranch(a) # "unavailable")
  BY <1>3, CatalogInv
<1>4. CASE PlanLayer2
  BY <1>4, CatalogInv
<1>5. CASE \E p \in todo : \E a \in Answers(p[2]) : Probe(p, ProbeResult(a) = "OK")
  BY <1>5, ProbeInv
<1>6. CASE EndLayer2 \/ StartRelay
  BY <1>6, RelayInv
<1>7. CASE Layer3Exits
  BY <1>7, ExitInv DEF Layer3Exits, SystemExit, Closed
<1>8. CASE BeginSmoke
  <2>1. CASE pc' = "exit"
    BY <1>8, <2>1, ExitInv DEF BeginSmoke, Closed
  <2>2. CASE pc' # "exit"
    BY <1>8, <2>2, SmokeStepInv, SameSmoke DEF BeginSmoke, SystemExit, Inv
  <2> QED
    BY <2>1, <2>2
<1>9. CASE NotForAgent
  <2>1. Failure.api \in Id \cup {NoModel}
    BY DEF Failure
  <2> QED
    BY <1>9, <2>1, ScenarioInv
<1>10. CASE Index <= Len(Scenarios) /\ \E out \in Outputs(Current) : RunScenario(out)
  BY <1>10, ScenarioInv, OutputNames
<1>11. CASE EndSmoke
  BY <1>11, EndSmokeInv
<1>12. CASE Write
  BY <1>12, WriteInv
<1>13. CASE UNCHANGED vars
  <2> USE <1>13 DEF vars
  <2>1. BaseOK' /\ ScopeOK' /\ ProxyOK'
    BY DEF Inv, BaseOK, ScopeOK, ProxyOK
  <2>2. VerdictsOK'
    BY DEF Inv, VerdictsOK, ProbeServed, Served, Ready
  <2> QED
    BY <2>1, <2>2, SameSmoke, SameComplete, SameBest DEF Inv
<1>14. CASE \E a \in Answers(WireOf(args.agent)) : Layer3(ProbeResult(a) = "OK")
  BY <1>14, Layer3Inv
<1>15. CASE Aborts
  BY <1>15, ExitInv DEF Aborts, SystemExit, Closed
<1> QED
  BY <1>1, <1>2, <1>3, <1>4, <1>5, <1>6, <1>7, <1>8, <1>9, <1>10, <1>11, <1>12, <1>13, <1>14, <1>15 DEF Next

----------------------------------------------------------------------------
\* Inv holds at every step of every run of assess-source.
THEOREM Invariance == Spec => []Inv
<1> QED
  BY InitInv, StepInv, PTL DEF Spec

\* The name Layer 3 asks for is that of an entry made for the agent, unless it
\* is Codex and shares OpenCode's model: then Codex's entry has another name,
\* and OpenCode's is the one that answers (write_litellm_config,
\* run_layer3_relay).
THEOREM ProbedModelIsServed == Spec => []ProbeIsServed
<1>1. Inv => ProbeIsServed
  <2> DEFINE m == Layer3Models(site, fam)
             asked == RelayModel(site, args.agent, fam)
             scope == AgentsForAssess(site, fam)
  <2> SUFFICES ASSUME Inv, pc \in {"layer3", "smoke", "scenarios"}, args.agent \in DOMAIN m
               PROVE  IF SharesModel
                      THEN /\ ServedFor(Name(asked, TRUE), "codex")
                           /\ ~ServedFor(Name(asked, FALSE), "codex")
                           /\ ServedFor(Name(asked, FALSE), "opencode") <=> "opencode" \in scope
                      ELSE ServedFor(Name(asked, FALSE), args.agent)
    BY DEF ProbeIsServed
  <2>1. /\ IsSite(site) /\ ~PlanFails(site, fam)
        /\ args.agent \in scope
        /\ proxy = ModelList(site, fam)
    BY SitesAssumption DEF Inv, BaseOK, ScopeOK, ProxyOK, After3, Started, After2, After1
  <2>2. asked = m[args.agent] /\ asked # NoModel
    BY <2>1, Layer3ModelsAreModels, ModelAssumption DEF RelayModel
  <2>3. \A a : ExposedName(site, a, fam) = Name(m[a], a = "codex" /\ ModelFor(m, "opencode") = m[a])
    BY DEF ExposedName
  <2>4. SharesModel <=> args.agent = "codex" /\ ModelFor(m, "opencode") = m["codex"]
    BY DEF SharesModel
  <2>5. \A x, y : Name(x, TRUE) # Name(y, FALSE)
    <3>1. \A x, y : Name(x, TRUE).bridged = TRUE /\ Name(y, FALSE).bridged = FALSE
      BY DEF Name
    <3> QED
      BY <3>1
  <2>6. \A e \in proxy : e.agent \in scope \cap DOMAIN m /\ e.name = ExposedName(site, e.agent, fam)
    BY <2>1, ModelListEntries
  <2>7. \A a \in scope \cap DOMAIN m : \E e \in proxy : e.agent = a /\ e.name = ExposedName(site, a, fam)
    BY <2>1, ModelListEntries
  <2>8. ModelFor(m, "opencode") = asked => "opencode" \in DOMAIN m /\ m["opencode"] = asked
    BY <2>2 DEF ModelFor
  <2> HIDE DEF m, asked, scope
  <2>9. CASE SharesModel
    <3>1. /\ ExposedName(site, "codex", fam) = Name(asked, TRUE)
          /\ args.agent = "codex"
          /\ "opencode" \in DOMAIN m /\ ExposedName(site, "opencode", fam) = Name(asked, FALSE)
      BY <2>2, <2>3, <2>4, <2>8, <2>9
    <3>2. ServedFor(Name(asked, TRUE), "codex")
      BY <2>1, <2>7, <3>1 DEF ServedFor
    <3>3. ~ServedFor(Name(asked, FALSE), "codex")
      BY <2>5, <2>6, <3>1 DEF ServedFor
    <3>4. ServedFor(Name(asked, FALSE), "opencode") <=> "opencode" \in scope
      BY <2>6, <2>7, <3>1 DEF ServedFor
    <3> QED
      BY <2>9, <3>2, <3>3, <3>4
  <2>10. CASE ~SharesModel
    <3>1. ExposedName(site, args.agent, fam) = Name(asked, FALSE)
      BY <2>2, <2>3, <2>4, <2>10
    <3> QED
      BY <2>1, <2>7, <2>10, <3>1 DEF ServedFor
  <2> QED
    BY <2>9, <2>10
<1> QED
  BY <1>1, Invariance, PTL

\* A smoke test that passes has passed every required scenario
\* (run_layer3_smoke).
THEOREM SmokeTestComplete == Spec => []SmokeIsComplete
<1>1. Inv => SmokeIsComplete
  BY DEF Inv
<1> QED
  BY <1>1, Invariance, PTL

\* The best row of a wire is an answer if there was one (run_layer2).
THEOREM BestRow == Spec => []BestIsBest
<1>1. Inv => BestIsBest
  BY DEF Inv
<1> QED
  BY <1>1, Invariance, PTL

----------------------------------------------------------------------------
(***************************************************************************)
(* What exit code 0 says of the model.  Until the first scenario nothing   *)
(* was heard; afterwards, as long as no required scenario has failed,      *)
(* every model heard of in one is the expected one.                        *)
(***************************************************************************)
Begun == {"scenarios", "exit"} \cup Closed

VouchOK ==
    /\ pc \notin Begun => smoke = NoSmoke
    /\ pc \in Closed /\ ~failed => smoke.requiredFailed = 0
    /\ \A h \in smoke.heard :
          Scenarios[h[1]].required /\ smoke.requiredFailed = 0 /\ Expected # NoModel
              => IdsMatch(h[2], Expected)

\* Steps that leave the counters and what was planned alone.
LEMMA SameVouch ==
    ASSUME VouchOK, UNCHANGED <<site, args, fam, smoke>>,
           pc' \notin Begun => pc \notin Begun,
           pc' \in Closed /\ ~failed' => smoke.requiredFailed = 0
    PROVE  VouchOK'
<1>1. Expected' = Expected
  BY DEF Expected
<1> QED
  BY <1>1 DEF VouchOK

\* A failed required scenario is counted; one that is not has a model that
\* matches, or none.
LEMMA ScenarioVouch ==
    ASSUME Inv, VouchOK, NEW out, RunScenario(out), out.api \in Id \cup {NoModel}
    PROVE  VouchOK'
<1> DEFINE outcome == Outcome(out)
           counted == IF Current.required /\ Fails(outcome) THEN 1 ELSE 0
           heard == IF out.failed \/ out.api = NoModel \/ ~AsksModel(Current) THEN {}
                    ELSE {<<Index, out.api>>}
<1>1. /\ pc = "scenarios" /\ pc' = pc
      /\ UNCHANGED <<site, args, fam, failed>>
      /\ smoke'.requiredFailed = smoke.requiredFailed + counted
      /\ smoke'.heard = smoke.heard \cup heard
  BY DEF RunScenario
<1>2. smoke.requiredFailed \in Nat /\ counted \in {0, 1}
  BY DEF Inv, SmokeOK, Tally
<1>3. Expected' = Expected
  BY <1>1 DEF Expected
<1>4. ASSUME out.api # NoModel, ~out.failed, AsksModel(Current), Current.required,
             counted = 0, Expected # NoModel
      PROVE  IdsMatch(out.api, Expected)
  <2>1. outcome \in {"ok", "mismatch"}
    BY <1>4, OutcomeIsOne DEF Fails
  <2>2. outcome = Judge(Current, Expected, out)
    BY <2>1 DEF Outcome
  <2>3. ~Rejected(Current, Expected, out)
    BY <2>1, <2>2 DEF Judge
  <2> QED
    BY <1>4, <2>3 DEF Rejected, ApiDisagrees
<1> HIDE DEF outcome, counted
<1>5. ASSUME NEW h \in smoke'.heard, Scenarios[h[1]].required,
             smoke'.requiredFailed = 0, Expected # NoModel
      PROVE  IdsMatch(h[2], Expected)
  <2>1. smoke.requiredFailed = 0 /\ counted = 0
    BY <1>1, <1>2, <1>5
  <2>2. CASE h \in smoke.heard
    BY <1>5, <2>1, <2>2 DEF VouchOK
  <2>3. CASE h \in heard
    <3>1. h = <<Index, out.api>> /\ out.api # NoModel /\ ~out.failed /\ AsksModel(Current)
      BY <2>3
    <3>2. h[1] = Index /\ h[2] = out.api
      BY <3>1
    <3> QED
      BY <1>4, <1>5, <2>1, <3>1, <3>2 DEF Current
  <2> QED
    BY <1>1, <2>2, <2>3
<1> QED
  BY <1>1, <1>3, <1>5 DEF VouchOK, Begun, Closed

LEMMA VouchStep == Inv /\ VouchOK /\ [Next]_vars => VouchOK'
<1> SUFFICES ASSUME Inv, VouchOK, [Next]_vars PROVE VouchOK'
  OBVIOUS
<1> USE DEF Begun, Closed
<1>1. CASE Resolve
  <2>1. smoke = NoSmoke /\ smoke' = smoke /\ pc = "resolve" /\ pc' \in {"layer1", "exit"}
    BY <1>1 DEF Resolve, SystemExit, VouchOK
  <2> QED
    BY <2>1 DEF VouchOK, NoSmoke
<1>2. CASE NetworkError \/ Layer3Exits \/ Aborts
  BY <1>2, SameVouch DEF NetworkError, Layer3Exits, Aborts, SystemExit
<1>3. CASE \E a \in CatalogAnswers : Layer1(CatalogBranch(a) # "unavailable")
  BY <1>3, SameVouch DEF Layer1
<1>4. CASE PlanLayer2
  BY <1>4, SameVouch DEF PlanLayer2, SystemExit
<1>5. CASE \E p \in todo : \E a \in Answers(p[2]) : Probe(p, ProbeResult(a) = "OK")
  BY <1>5, SameVouch DEF Probe
<1>6. CASE EndLayer2 \/ StartRelay
  BY <1>6, SameVouch DEF EndLayer2, StartRelay, SystemExit
<1>7. CASE \E a \in Answers(WireOf(args.agent)) : Layer3(ProbeResult(a) = "OK")
  <2>1. pc = "layer3" /\ pc' \in {"smoke", "write"} /\ UNCHANGED <<site, args, fam, smoke>>
    BY <1>7 DEF Layer3
  <2>2. smoke.requiredFailed = 0
    BY <2>1 DEF VouchOK, NoSmoke
  <2> QED
    BY <2>1, <2>2, SameVouch
<1>8. CASE BeginSmoke
  BY <1>8, SameVouch DEF BeginSmoke, SystemExit
<1>9. CASE NotForAgent
  <2> DEFINE new == [smoke EXCEPT !.next = smoke.next + 1]
  <2>1. /\ pc = "scenarios" /\ pc' = pc /\ smoke' = new
        /\ UNCHANGED <<site, args, fam, failed>>
    BY <1>9 DEF NotForAgent, Index
  <2>2. new.requiredFailed = smoke.requiredFailed /\ new.heard = smoke.heard
    BY DEF Inv, SmokeOK, Tally
  <2> HIDE DEF new
  <2>3. Expected' = Expected
    BY <2>1 DEF Expected
  <2> QED
    BY <2>1, <2>2, <2>3 DEF VouchOK
<1>10. CASE Index <= Len(Scenarios) /\ \E out \in Outputs(Current) : RunScenario(out)
  BY <1>10, ScenarioVouch, OutputNames
<1>11. CASE EndSmoke
  <2> DEFINE status == CASE smoke.shown = {} \/ smoke.requiredFailed > 0 -> "fail"
                         [] smoke.shown # {} /\ smoke.requiredFailed = 0 /\ smoke.optionalFailed > 0 -> "warn"
                         [] OTHER -> "pass"
  <2>1. /\ pc = "scenarios" /\ pc' = "write" /\ failed' = (failed \/ status = "fail")
        /\ UNCHANGED <<site, args, fam, smoke>>
    BY <1>11 DEF EndSmoke
  <2>2. smoke.requiredFailed \in Nat
    BY DEF Inv, SmokeOK, Tally
  <2>3. status # "fail" => smoke.requiredFailed = 0
    BY <2>2
  <2> HIDE DEF status
  <2> QED
    BY <2>1, <2>3, SameVouch
<1>12. CASE Write
  <2>1. pc = "write" /\ pc' = "end" /\ UNCHANGED <<site, args, fam, failed, smoke>>
    BY <1>12 DEF Write
  <2> QED
    BY <2>1, SameVouch DEF VouchOK
<1>13. CASE UNCHANGED vars
  BY <1>13, SameVouch DEF vars, VouchOK
<1> QED
  BY <1>1, <1>2, <1>3, <1>4, <1>5, <1>6, <1>7, <1>8, <1>9, <1>10, <1>11, <1>12, <1>13 DEF Next

\* With exit code 0, a model that a required probe heard of is the expected
\* one (evaluate_smoke_output, run_layer3_smoke, cmd_assess_source).
THEOREM VouchedModel == Spec => []ModelIsVouched
<1>1. Init => VouchOK
  BY DEF Init, VouchOK, Begun, Closed, NoSmoke
<1>2. Inv /\ VouchOK => ModelIsVouched
  BY DEF Inv, VerdictsOK, VouchOK, ModelIsVouched, Closed
<1> QED
  BY <1>1, <1>2, VouchStep, Invariance, PTL DEF Spec

----------------------------------------------------------------------------
(* Types: what Layer 2 probes, and what is counted. *)

LEMMA KnownFamilyIsPlanned ==
    ASSUME NEW s, NEW key, ~PlanFails(s, key)
    PROVE  KnownFamily(s, key) \in Families(s) \cup {NoFamily}
<1>1. CASE key # NoFamily
  BY <1>1 DEF KnownFamily, PlanFails
<1>2. CASE key = NoFamily /\ \E g \in Family : Families(s) = {g}
  <2>1. KnownFamily(s, key) = CHOOSE g \in Family : Families(s) = {g}
    BY <1>2 DEF KnownFamily
  <2> QED
    BY <1>2, <2>1
<1>3. CASE key = NoFamily /\ ~\E g \in Family : Families(s) = {g}
  BY <1>3 DEF KnownFamily
<1> QED
  BY <1>1, <1>2, <1>3

LEMMA AgentsAreFinite == IsFiniteSet(Agent)
<1>1. IsFiniteSet({"opencode"})
  BY FS_Singleton
<1>2. IsFiniteSet({"opencode"} \cup {"claude"})
  BY <1>1, FS_AddElement
<1>3. IsFiniteSet(({"opencode"} \cup {"claude"}) \cup {"codex"})
  BY <1>2, FS_AddElement
<1>4. Agent = ({"opencode"} \cup {"claude"}) \cup {"codex"}
  BY DEF Agent
<1> QED
  BY <1>3, <1>4

\* A finite set is listed by a sequence of its elements.
LEMMA SetToSeqLists ==
    ASSUME NEW S, IsFiniteSet(S)
    PROVE  SetToSeq(S) \in Seq(S)
<1>1. Cardinality(S) \in Nat /\ ExistsBijection(1 .. Cardinality(S), S)
  BY FS_CardinalityType
<1>2. \E f \in [1 .. Cardinality(S) -> S] : IsInjective(f)
  BY <1>1 DEF ExistsBijection, Bijection, Injection
<1>3. SetToSeq(S) \in [1 .. Cardinality(S) -> S]
  BY <1>2 DEF SetToSeq
<1> QED
  BY <1>1, <1>3, SeqDef

LEMMA TargetsAreTargets ==
    ASSUME NEW s, IsSite(s), NEW key, ~TargetsFail(s, key)
    PROVE  AssessTargets(s, key) \in Seq(Target)
<1>1. \A a \in Agent : WireOf(a) \in Wire
  BY DEF Agent, Wire, WireOf
<1>2. AllowedWires(s.protocol) \subseteq Wire
  BY <1>1 DEF IsSite, Protocol, AllowedWires, AllowedAgents, Agent
<1>3. CASE PlanTargets(s, key) # <<>>
  <2>1. PlanTargets(s, key) \in Seq(Target)
    <3> DEFINE f == KnownFamily(s, key)
    <3>1. CASE f = NoFamily
      BY <3>1 DEF PlanTargets, IsSite
    <3>2. CASE f # NoFamily
      <4>1. f \in Families(s)
        BY <3>2, KnownFamilyIsPlanned DEF TargetsFail
      <4>2. s.families[f].models \in Seq(Model)
        BY <4>1 DEF IsSite, FamilyConfig
      <4>3. OverlayWires(s, f) \subseteq Wire
        BY <1>2 DEF OverlayWires, Wire
      <4>4. \A i \in 1 .. Len(s.families[f].models) :
                [model |-> s.families[f].models[i], wires |-> OverlayWires(s, f)] \in Target
        BY <4>2, <4>3 DEF Target
      <4>5. PlanTargets(s, key) = [i \in 1 .. Len(s.families[f].models) |->
                [model |-> s.families[f].models[i], wires |-> OverlayWires(s, f)]]
        BY <3>2 DEF PlanTargets
      <4>6. Len(s.families[f].models) \in Nat
        BY <4>2
      <4> HIDE DEF f
      <4> QED
        BY <4>4, <4>5, <4>6, SeqDef
    <3> QED
      BY <3>1, <3>2
  <2>2. \A i \in 1 .. Len(PlanTargets(s, key)) :
            [PlanTargets(s, key)[i] EXCEPT !.wires =
                IF @ = {} THEN AllowedWires(s.protocol) ELSE @ \cap AllowedWires(s.protocol)] \in Target
    <3> SUFFICES ASSUME NEW t \in Target
                 PROVE  [t EXCEPT !.wires = IF @ = {} THEN AllowedWires(s.protocol)
                                            ELSE @ \cap AllowedWires(s.protocol)] \in Target
      BY <2>1
    <3> QED
      BY <1>2 DEF Target
  <2>3. ExpandTargets(PlanTargets(s, key), s.protocol) \in Seq(Target)
    BY <2>1, <2>2 DEF ExpandTargets
  <2> QED
    BY <1>3, <2>3 DEF AssessTargets
<1>4. CASE PlanTargets(s, key) = <<>>
  <2>1. ~PlanFails(s, NoFamily)
    BY <1>4 DEF TargetsFail
  <2> DEFINE map == Layer3Models(s, NoFamily)
             agents == {a \in AllowedAgents(s.protocol) : a \in DOMAIN map}
             models == {map[a] : a \in agents}
             target(m) == [model |-> m, wires |-> {WireOf(a) : a \in {b \in agents : map[b] = m}}]
             targets == {target(m) : m \in models}
             of == [a \in agents |-> target(map[a])]
  <2>2. agents \in SUBSET Agent
    BY DEF IsSite, Protocol, AllowedAgents, Agent
  <2>3. IsFiniteSet(agents)
    BY <2>2, AgentsAreFinite, FS_Subset
  <2>4. of \in Surjection(agents, targets)
    BY DEF Surjection
  <2>5. IsFiniteSet(targets)
    BY <2>3, <2>4, FS_Surjection DEF ExistsSurjection
  <2>6. models \subseteq Model
    BY <2>1, Layer3ModelsAreModels
  <2>7. targets \subseteq Target
    BY <1>1, <2>2, <2>6 DEF Target
  <2>8. AssessTargets(s, key) = SetToSeq(targets)
    BY <1>4 DEF AssessTargets, DefaultTargets
  <2> HIDE DEF targets
  <2> QED
    BY <2>5, <2>7, <2>8, SetToSeqLists
<1> QED
  BY <1>3, <1>4

(***************************************************************************)
(* The type invariant with what it needs: what is still to be probed is    *)
(* among the targets of the family, which is not changed any more, and     *)
(* there are no more failures than scenarios so far.                       *)
(***************************************************************************)
TodoOK ==
    /\ pc = "resolve" => todo = {}
    /\ todo # {} => ~TargetsFail(site, fam)
    /\ \A p \in todo : p[1] \in 1 .. Len(AssessTargets(site, fam)) /\ p[2] \in Wire

CountersOK ==
    /\ smoke \in Counters
    /\ smoke.requiredFailed < smoke.next
    /\ smoke.optionalFailed < smoke.next

RestOK ==
    /\ fam \in Families(site) \cup {NoFamily}
    /\ pc \in Step \cup {"end", "exit"}
    /\ reason \in {"none", "family", "scope", "network", "targets", "proxy", "model", "smoke", "uncaught"}
    /\ rows \subseteq Row
    /\ best \in [Wire -> [model : Model \cup {NoModel}, ok : BOOLEAN]]
    /\ \A e \in proxy : e.upstream \in Model /\ e.agent \in AllowedAgents(site.protocol)
    /\ results \in [Layers -> {"none", "pass", "warn", "fail"}]
    /\ code \in {0, 1}

TypeInv == TodoOK /\ CountersOK /\ RestOK

LEMMA InitTypes == Init => TypeInv
<1> SUFFICES ASSUME Init PROVE TypeInv
  OBVIOUS
<1>1. TodoOK
  BY DEF Init, TodoOK
<1>2. Len(Scenarios) \in Nat
  BY ScenariosAssumption
<1>3. CountersOK
  BY <1>2 DEF Init, CountersOK, NoSmoke, Counters
<1>4. RestOK
  BY DEF Init, RestOK, Step, NoBest
<1> QED
  BY <1>1, <1>3, <1>4 DEF TypeInv

\* The entries of the proxy are made for agents that the protocol allows.
LEMMA EntriesAreTyped ==
    ASSUME NEW s, IsSite(s), NEW key, ~PlanFails(s, key), NEW e \in ModelList(s, key)
    PROVE  e.upstream \in Model /\ e.agent \in AllowedAgents(s.protocol)
<1>1. PICK a \in AgentsForAssess(s, key) \cap DOMAIN Layer3Models(s, key) :
         e = [name |-> ExposedName(s, a, key), upstream |-> Layer3Models(s, key)[a], agent |-> a]
  BY DEF ModelList
<1>2. e.upstream = Layer3Models(s, key)[a] /\ e.agent = a
  BY <1>1
<1>3. a \in AllowedAgents(s.protocol)
  BY DEF AgentsForAssess
<1> QED
  BY <1>1, <1>2, <1>3, Layer3ModelsAreModels

LEMMA ProbeTypes ==
    ASSUME Inv, TypeInv, NEW p \in todo, NEW ok \in BOOLEAN, Probe(p, ok)
    PROVE  TypeInv'
<1> DEFINE m == AssessTargets(site, fam)[p[1]].model
           row == [model |-> m, wire |-> p[2], ok |-> ok]
<1>1. /\ rows' = rows \cup {row}
      /\ best' = [best EXCEPT ![p[2]] = Best(p[2], m, ok)]
      /\ todo' = todo \ {p}
      /\ UNCHANGED <<site, args, fam, pc, reason, failed, proxy, smoke, results, code>>
  BY DEF Probe
<1>2. m \in Model
  <2>1. IsSite(site) /\ ~TargetsFail(site, fam) /\ p[1] \in 1 .. Len(AssessTargets(site, fam))
    BY SitesAssumption DEF Inv, BaseOK, TypeInv, TodoOK
  <2>2. AssessTargets(site, fam)[p[1]] \in Target
    BY <2>1, TargetsAreTargets
  <2> QED
    BY <2>2 DEF Target
<1> HIDE DEF m
<1>3. p[2] \in Wire
  BY DEF TypeInv, TodoOK
<1>4. row \in Row
  BY <1>2, <1>3 DEF Row
<1>5. Best(p[2], m, ok) \in [model : Model \cup {NoModel}, ok : BOOLEAN]
  BY <1>2, <1>3 DEF Best, TypeInv, RestOK
<1> HIDE DEF row
<1>6. TodoOK'
  BY <1>1 DEF TypeInv, TodoOK
<1>7. CountersOK'
  BY <1>1 DEF TypeInv, CountersOK
<1>8. RestOK'
  BY <1>1, <1>4, <1>5 DEF TypeInv, RestOK
<1> QED
  BY <1>6, <1>7, <1>8 DEF TypeInv

LEMMA ScenarioTypes ==
    ASSUME TypeInv, NEW out, out.api \in Id \cup {NoModel}, RunScenario(out) \/ NotForAgent
    PROVE  TypeInv'
<1> DEFINE n == Len(Scenarios)
<1>1. n \in Nat
  BY ScenariosAssumption
<1> HIDE DEF n
<1>2. /\ smoke.next \in 1 .. n + 1 /\ smoke.shown \in SUBSET (1 .. n) /\ smoke.passed \in SUBSET (1 .. n)
      /\ smoke.requiredFailed \in 0 .. n /\ smoke.optionalFailed \in 0 .. n
      /\ smoke.heard \in SUBSET ((1 .. n) \X Id)
      /\ smoke.requiredFailed < smoke.next /\ smoke.optionalFailed < smoke.next
      /\ smoke \in Counters
  BY DEF TypeInv, CountersOK, Counters, n
<1>3. smoke.next <= n
  BY DEF RunScenario, NotForAgent, Index, n
<1>4. smoke.next \in 1 .. n /\ smoke.next + 1 \in 1 .. n + 1
  BY <1>1, <1>2, <1>3
<1>5. CountersOK'
  <2>1. CASE RunScenario(out)
    <3> DEFINE outcome == Outcome(out)
               shown == smoke.shown \cup {smoke.next}
               passed == IF outcome \in {"ok", "mismatch"} THEN smoke.passed \cup {smoke.next} ELSE smoke.passed
               required == smoke.requiredFailed + IF Current.required /\ Fails(outcome) THEN 1 ELSE 0
               optional == smoke.optionalFailed +
                   IF outcome = "mismatch" \/ (~Current.required /\ outcome = "bad") THEN 1 ELSE 0
               heard == IF out.failed \/ out.api = NoModel \/ ~AsksModel(Current) THEN smoke.heard
                        ELSE smoke.heard \cup {<<smoke.next, out.api>>}
    <3>1. smoke' = [next |-> smoke.next + 1, shown |-> shown, passed |-> passed,
                    requiredFailed |-> required, optionalFailed |-> optional, heard |-> heard]
      BY <2>1 DEF RunScenario, Index
    <3>2. shown \in SUBSET (1 .. n) /\ passed \in SUBSET (1 .. n)
      BY <1>2, <1>4
    <3>3. heard \in SUBSET ((1 .. n) \X Id)
      BY <1>2, <1>4
    <3>4. /\ required \in 0 .. n /\ optional \in 0 .. n
          /\ required < smoke.next + 1 /\ optional < smoke.next + 1
      BY <1>1, <1>2, <1>3
    <3> HIDE DEF outcome, shown, passed, required, optional, heard
    <3> QED
      BY <1>4, <3>1, <3>2, <3>3, <3>4 DEF CountersOK, Counters, n
  <2>2. CASE NotForAgent
    <3> DEFINE new == [smoke EXCEPT !.next = smoke.next + 1]
    <3>1. smoke' = new
      BY <2>2 DEF NotForAgent, Index
    <3>2. /\ new \in Counters /\ new.next = smoke.next + 1
          /\ new.requiredFailed = smoke.requiredFailed /\ new.optionalFailed = smoke.optionalFailed
      BY <1>2, <1>4 DEF Counters, n
    <3> HIDE DEF new
    <3> QED
      BY <1>1, <1>2, <3>1, <3>2 DEF CountersOK
  <2> QED
    BY <2>1, <2>2
<1>6. TodoOK'
  BY DEF RunScenario, NotForAgent, TypeInv, TodoOK
<1>7. RestOK'
  BY DEF RunScenario, NotForAgent, TypeInv, RestOK
<1> QED
  BY <1>5, <1>6, <1>7 DEF TypeInv

LEMMA StepTypes == Inv /\ TypeInv /\ [Next]_vars => TypeInv'
<1> SUFFICES ASSUME Inv, TypeInv, [Next]_vars PROVE TypeInv'
  OBVIOUS
<1>0. IsSite(site) /\ args \in Args
  BY SitesAssumption DEF Inv, BaseOK
\* The steps that change neither the family, what is to be probed, nor the counters.
<1>1. ASSUME UNCHANGED <<site, fam, todo, smoke>>, pc' # "resolve", RestOK'
      PROVE  TypeInv'
  BY <1>1 DEF TypeInv, TodoOK, CountersOK
<1>2. CASE Resolve
  <2>1. ~ResolveFails => Inferred \in Families(site) \cup {NoFamily}
    BY DEF ResolveFails, PlanFails
  <2>2. /\ pc = "resolve" /\ pc' \in {"exit", "layer1"} /\ todo = {}
        /\ fam' \in Families(site) \cup {NoFamily}
        /\ reason' \in {reason, "family", "scope"} /\ code' \in {code, 1}
        /\ UNCHANGED <<site, args, failed, todo, rows, best, proxy, smoke, results>>
    BY <1>2, <2>1 DEF Resolve, SystemExit, TypeInv, TodoOK, RestOK
  <2>3. TodoOK' /\ CountersOK'
    BY <2>2 DEF TypeInv, TodoOK, CountersOK
  <2>4. RestOK'
    BY <2>2 DEF TypeInv, RestOK, Step
  <2> QED
    BY <2>3, <2>4 DEF TypeInv
<1>3. CASE NetworkError \/ Layer3Exits \/ Aborts \/ BeginSmoke
  BY <1>1, <1>3 DEF NetworkError, Layer3Exits, Aborts, BeginSmoke, SystemExit, TypeInv, RestOK, Step
<1>4. CASE \E a \in CatalogAnswers : Layer1(CatalogBranch(a) # "unavailable")
  BY <1>1, <1>4 DEF Layer1, Verdict, TypeInv, RestOK, Step
<1>5. CASE PlanLayer2
  <2>1. CASE TargetsFail(site, fam)
    BY <1>1, <1>5, <2>1 DEF PlanLayer2, SystemExit, TypeInv, RestOK
  <2>2. CASE ~TargetsFail(site, fam)
    <3> DEFINE targets == AssessTargets(site, fam)
    <3>1. /\ todo' = UNION {{<<i, w>> : w \in targets[i].wires} : i \in 1 .. Len(targets)}
          /\ pc' = "layer2"
          /\ UNCHANGED <<site, args, fam, reason, code, failed, rows, best, proxy, smoke, results>>
      BY <1>5, <2>2 DEF PlanLayer2, SystemExit
    <3>2. targets \in Seq(Target)
      BY <1>0, <2>2, TargetsAreTargets
    <3> HIDE DEF targets
    <3>3. \A i \in 1 .. Len(targets) : targets[i].wires \subseteq Wire
      <4> SUFFICES ASSUME NEW i \in 1 .. Len(targets) PROVE targets[i].wires \subseteq Wire
        OBVIOUS
      <4>1. targets[i] \in Target
        BY <3>2
      <4> QED
        BY <4>1 DEF Target
    <3>4. \A p \in todo' : p[1] \in 1 .. Len(targets) /\ p[2] \in Wire
      BY <3>1, <3>3
    <3>5. TodoOK'
      BY <2>2, <3>1, <3>4 DEF TodoOK, targets
    <3>6. CountersOK' /\ RestOK'
      BY <3>1 DEF TypeInv, CountersOK, RestOK, Step
    <3> QED
      BY <3>5, <3>6 DEF TypeInv
  <2> QED
    BY <2>1, <2>2
<1>6. CASE \E p \in todo : \E a \in Answers(p[2]) : Probe(p, ProbeResult(a) = "OK")
  BY <1>6, ProbeTypes
<1>7. CASE EndLayer2
  BY <1>1, <1>7 DEF EndLayer2, Verdict, TypeInv, RestOK, Step
<1>8. CASE StartRelay
  <2>1. ~PlanFails(site, fam)
    BY <1>8 DEF StartRelay, Inv, ScopeOK, After1, After2
  <2>2. \A e \in proxy' : e.upstream \in Model /\ e.agent \in AllowedAgents(site.protocol)
    BY <1>0, <1>8, <2>1, EntriesAreTyped DEF StartRelay, TypeInv, RestOK
  <2> QED
    BY <1>1, <1>8, <2>2 DEF StartRelay, SystemExit, TypeInv, RestOK, Step
<1>9. CASE \E a \in Answers(WireOf(args.agent)) : Layer3(ProbeResult(a) = "OK")
  BY <1>1, <1>9 DEF Layer3, Verdict, TypeInv, RestOK, Step
<1>10. CASE NotForAgent
  <2>1. Failure.api \in Id \cup {NoModel}
    BY DEF Failure
  <2> QED
    BY <1>10, <2>1, ScenarioTypes
<1>11. CASE Index <= Len(Scenarios) /\ \E out \in Outputs(Current) : RunScenario(out)
  BY <1>11, ScenarioTypes, OutputNames
<1>12. CASE EndSmoke
  BY <1>1, <1>12 DEF EndSmoke, TypeInv, RestOK, Step
<1>13. CASE Write
  BY <1>1, <1>13 DEF Write, TypeInv, RestOK
<1>14. CASE UNCHANGED vars
  BY <1>14 DEF vars, TypeInv, TodoOK, CountersOK, RestOK
<1> QED
  BY <1>2, <1>3, <1>4, <1>5, <1>6, <1>7, <1>8, <1>9, <1>10, <1>11, <1>12, <1>13, <1>14 DEF Next

(***************************************************************************)
(* What a run keeps has the type it should have, for any plan: what it     *)
(* probes are models and wires of the plan, what it serves are entries for *)
(* agents of the protocol, and no more failures are counted than there are *)
(* scenarios (cmd_assess_source, run_layer3_smoke).                        *)
(***************************************************************************)
THEOREM TypeCorrect == Spec => []TypeOK
<1>1. Inv /\ TypeInv => TypeOK
  <2> SUFFICES ASSUME Inv, TypeInv PROVE TypeOK
    OBVIOUS
  <2>1. \A p \in todo : p[1] \in Nat /\ p[2] \in Wire
    BY DEF TypeInv, TodoOK
  <2> QED
    BY <2>1 DEF Inv, BaseOK, TypeInv, CountersOK, RestOK, TypeOK
<1> QED
  BY <1>1, InitTypes, StepTypes, Invariance, PTL DEF Spec

(***************************************************************************)
(* An agent is never refused as out of scope of a family that was inferred *)
(* for it at a site with several (resolve_family_for_site_agent).          *)
(***************************************************************************)
LEMMA InferredFits ==
    ASSUME NEW s, IsSite(s), NEW a, ~InferFails(s, a), a \notin AgentsForAssess(s, InferFamily(s, a))
    PROVE  Cardinality(Families(s)) <= 1
<1>1. CASE KnownFamily(s, NoFamily) # NoFamily
  <2>1. PICK f \in Family : Families(s) = {f}
    BY <1>1 DEF KnownFamily
  <2>2. Cardinality({f}) = 1
    BY FS_Singleton
  <2> QED
    BY <2>1, <2>2
<1>2. CASE Families(s) = {}
  BY <1>2, FS_EmptySet
<1>3. CASE KnownFamily(s, NoFamily) = NoFamily /\ Families(s) # {}
  <2>1. Candidates(s, a) # {}
    BY <1>3 DEF InferFails
  <2>2. Candidates(s, a) \subseteq Matches(s, a)
    BY DEF Candidates
  <2>3. InferFamily(s, a) \in Candidates(s, a)
    <3>1. Candidates(s, a) \subseteq Family
      BY <2>2 DEF Matches, IsSite
    <3>2. \E f \in Candidates(s, a) :
             \/ f = "gpt"
             \/ f = "anthropic" /\ "gpt" \notin Candidates(s, a)
             \/ Candidates(s, a) = {"other"}
      BY <2>1, <3>1 DEF Family
    <3> QED
      BY <1>3, <3>2 DEF InferFamily
  <2> QED
    BY <2>2, <2>3 DEF Matches
<1> QED
  BY <1>1, <1>2, <1>3

THEOREM InferredFamilyFits == Spec => []InferenceFits
<1>1. Init => InferenceFits
  BY DEF Init, InferenceFits
<1>2. Inv /\ InferenceFits /\ [Next]_vars => InferenceFits'
  <2> SUFFICES ASSUME Inv, InferenceFits, [Next]_vars,
                      reason' = "scope", args'.family = NoFamily
               PROVE  Cardinality(Families(site')) <= 1
    BY DEF InferenceFits
  <2>1. site' = site /\ args' = args
    BY DEF Next, vars, Resolve, NetworkError, Layer1, PlanLayer2, Probe, EndLayer2, StartRelay,
           Layer3Exits, Layer3, BeginSmoke, NotForAgent, Aborts, EndSmoke, RunScenario, Write
  <2>2. CASE reason = "scope"
    BY <2>1, <2>2 DEF InferenceFits
  <2>3. CASE reason # "scope"
    <3>1. Resolve /\ ~ResolveFails /\ args.agent \notin AgentsForAssess(site, Inferred)
      BY <2>3
      DEF Next, vars, Resolve, NetworkError, Layer1, PlanLayer2, Probe, EndLayer2, StartRelay,
          Layer3Exits, Layer3, BeginSmoke, NotForAgent, Aborts, EndSmoke, RunScenario, Write, SystemExit
    <3>2. ~InferFails(site, args.agent) /\ Inferred = InferFamily(site, args.agent)
      BY <2>1, <3>1 DEF ResolveFails, Inferred
    <3> QED
      BY <2>1, <3>1, <3>2, InferredFits, SitesAssumption DEF Inv, BaseOK
  <2> QED
    BY <2>2, <2>3
<1> QED
  BY <1>1, <1>2, Invariance, PTL DEF Spec
----------------------------------------------------------------------------
(***************************************************************************)
(* What the exit code says of the evidence.  A layer has no result before  *)
(* its turn, so no verdict is replaced, and a run has failed just when the *)
(* evidence says so of one of its layers.                                  *)
(***************************************************************************)
SomeFail == \E l \in Layers : results[l] = "fail"

ExitOK ==
    /\ pc = "end" => code = IF SomeFail THEN 1 ELSE 0
    /\ pc = "exit" => code = 1 /\ reason # "none"

ReportOK ==
    /\ DOMAIN results = Layers
    /\ failed \in BOOLEAN
    /\ pc # "end" => (failed <=> SomeFail)
    /\ pc \notin After1 \cup {"exit"} => results["layer1"] = "none"
    /\ pc \notin After2 \cup {"exit"} => results["layer2"] = "none"
    /\ pc \notin After3 \cup {"exit"} => results["layer3"] = "none"
    /\ pc \notin Closed \cup {"exit"} => results["smoke"] = "none"
    /\ ExitOK

\* A layer gets its first and only result.
LEMMA OneMoreResult ==
    ASSUME DOMAIN results = Layers, NEW l \in Layers, NEW v,
           results[l] # "fail", results' = [results EXCEPT ![l] = v]
    PROVE  /\ DOMAIN results' = Layers
           /\ results'[l] = v
           /\ \A m \in Layers : m # l => results'[m] = results[m]
           /\ SomeFail' <=> SomeFail \/ v = "fail"
  BY DEF SomeFail

LEMMA ReportStep == ReportOK /\ [Next]_vars => ReportOK'
<1> SUFFICES ASSUME ReportOK, [Next]_vars PROVE ReportOK'
  OBVIOUS
<1> USE DEF Closed, After3, Started, After2, After1
<1>1. ASSUME NEW where \in {"network", "family", "scope", "targets", "proxy", "model", "smoke",
                            "uncaught"},
             SystemExit(where), UNCHANGED <<failed, results>>, pc # "end"
      PROVE  ReportOK'
  BY <1>1 DEF ReportOK, ExitOK, SystemExit, SomeFail
<1>2. ASSUME UNCHANGED <<failed, results, code, reason>>, pc # "end", pc' # "end", pc' # "exit",
             \/ pc' = pc
             \/ pc = "resolve" /\ pc' = "layer1"
             \/ pc = "plan" /\ pc' = "layer2"
             \/ pc = "relay" /\ pc' = "layer3"
             \/ pc = "smoke" /\ pc' = "scenarios"
      PROVE  ReportOK'
  BY <1>2 DEF ReportOK, ExitOK, SomeFail
<1>3. CASE Resolve
  BY <1>1, <1>2, <1>3 DEF Resolve
<1>4. CASE NetworkError
  BY <1>1, <1>4 DEF NetworkError
<1>5. ASSUME NEW ok \in BOOLEAN, Layer1(ok) PROVE ReportOK'
  <2>1. /\ pc = "layer1" /\ pc' = "plan" /\ failed' = ~ok
        /\ results' = [results EXCEPT !["layer1"] = Verdict(ok)]
    BY <1>5 DEF Layer1
  <2>2. ~SomeFail
    BY <2>1 DEF ReportOK, SomeFail, Layers
  <2> QED BY <2>1, <2>2, OneMoreResult DEF ReportOK, ExitOK, Layers, Verdict
<1>6. CASE PlanLayer2
  BY <1>1, <1>2, <1>6 DEF PlanLayer2
<1>7. ASSUME NEW p, NEW ok, Probe(p, ok) PROVE ReportOK'
  BY <1>2, <1>7 DEF Probe
<1>8. CASE EndLayer2
  <2>1. PICK ok \in BOOLEAN :
          /\ results' = [results EXCEPT !["layer2"] = Verdict(ok)]
          /\ failed' = (failed \/ ~ok)
    BY <1>8 DEF EndLayer2
  <2>2. pc = "layer2" /\ pc' = "relay"
    BY <1>8 DEF EndLayer2
  <2> QED BY <2>1, <2>2, OneMoreResult DEF ReportOK, ExitOK, Layers, Verdict
<1>9. CASE StartRelay
  BY <1>1, <1>2, <1>9 DEF StartRelay
<1>10. CASE Layer3Exits
  BY <1>1, <1>10 DEF Layer3Exits
<1>11. ASSUME NEW ok \in BOOLEAN, Layer3(ok) PROVE ReportOK'
  <2>1. /\ pc = "layer3" /\ pc' \in {"smoke", "write"}
        /\ results' = [results EXCEPT !["layer3"] = Verdict(ok)]
        /\ failed' = (failed \/ ~ok)
    BY <1>11 DEF Layer3
  <2> QED BY <2>1, OneMoreResult DEF ReportOK, ExitOK, Layers, Verdict
<1>12. CASE BeginSmoke
  BY <1>1, <1>2, <1>12 DEF BeginSmoke
<1>13. CASE NotForAgent \/ \E out \in Outputs(Current) : RunScenario(out)
  BY <1>2, <1>13 DEF NotForAgent, RunScenario
<1>14. CASE Aborts
  BY <1>1, <1>14 DEF Aborts
<1>15. CASE EndSmoke
  <2> DEFINE verdict ==
          CASE smoke.shown = {} \/ smoke.requiredFailed > 0 -> "fail"
            [] smoke.shown # {} /\ smoke.requiredFailed = 0 /\ smoke.optionalFailed > 0 -> "warn"
            [] OTHER -> "pass"
  <2>0. /\ results' = [results EXCEPT !["smoke"] = verdict]
        /\ failed' = (failed \/ verdict = "fail")
    BY <1>15 DEF EndSmoke
  <2> HIDE DEF verdict
  <2>1. PICK status :
          /\ results' = [results EXCEPT !["smoke"] = status]
          /\ failed' = (failed \/ status = "fail")
    BY <2>0
  <2>2. pc = "scenarios" /\ pc' = "write"
    BY <1>15 DEF EndSmoke
  <2> QED BY <2>1, <2>2, OneMoreResult DEF ReportOK, ExitOK, Layers
<1>16. CASE Write
  BY <1>16 DEF Write, ReportOK, ExitOK, SomeFail
<1>17. CASE UNCHANGED vars
  BY <1>17 DEF vars, ReportOK, ExitOK, SomeFail
<1>18. \A a : (CatalogBranch(a) # "unavailable") \in BOOLEAN /\ (ProbeResult(a) = "OK") \in BOOLEAN
  OBVIOUS
<1> QED
  BY <1>3, <1>4, <1>5, <1>6, <1>7, <1>8, <1>9, <1>10, <1>11, <1>12, <1>13, <1>14, <1>15, <1>16,
     <1>17, <1>18 DEF Next

(***************************************************************************)
(* The exit code and the evidence agree, in both directions: a run that    *)
(* gets to its end leaves 0 just when no layer is recorded as failed, and  *)
(* one that does not leaves 1 and the place where it stopped               *)
(* (cmd_assess_source).                                                    *)
(***************************************************************************)
THEOREM ExitCodeMatchesEvidence == Spec => []ExitOK
<1>1. Init => ReportOK
  BY DEF Init, ReportOK, ExitOK, SomeFail, Layers, Closed, After3, Started, After2, After1
<1>2. ReportOK => ExitOK
  BY DEF ReportOK
<1> QED BY <1>1, <1>2, ReportStep, PTL DEF Spec

(***************************************************************************)
(* And where the exit code is 0, every layer that was asked for passed, an *)
(* agent in scope was answered on its wire, and the proxy knew the name    *)
(* that Layer 3 asks for (cmd_assess_source).                              *)
(***************************************************************************)
THEOREM CleanExitMeansPassed == Spec => []CleanExit
<1>1. Inv /\ ExitOK => CleanExit
  <2> SUFFICES ASSUME Inv, ExitOK PROVE CleanExit
    OBVIOUS
  <2>1. pc = "exit" => code = 1 /\ reason # "none"
    BY DEF ExitOK
  <2>2. pc = "end" /\ code = 1 => \E l \in Layers : results[l] = "fail"
    BY DEF ExitOK, SomeFail
  <2>3. ASSUME pc = "end", code = 0
        PROVE  /\ \A l \in {"layer1", "layer2", "layer3"} : results[l] = "pass"
               /\ IF args.smoke THEN results["smoke"] \in {"pass", "warn"} ELSE results["smoke"] = "none"
               /\ \E a \in AgentsForAssess(site, fam) : Ready(a)
               /\ ProbeServed
    BY <2>3 DEF Inv, BaseOK, Args, VerdictsOK, Closed, After3, Started, After2, After1
  <2> QED
    BY <2>1, <2>2, <2>3 DEF CleanExit, ProbeServed
<1> QED
  BY <1>1, Invariance, ExitCodeMatchesEvidence, PTL
=============================================================================
