-------------------------- MODULE ProfileRunProofs --------------------------
(***************************************************************************)
(* ProfileRun proved for any number of exchanges, runs and users, any      *)
(* limits and answers: what overlapping runs leave in the tables, and      *)
(* which runs the rows of an exchange come from.                           *)
(***************************************************************************)
EXTENDS ProfileRun, FiniteSetTheorems, TLAPS

\* A run lists before it loops, and ends with nothing left to do.
RunOK(r) ==
    /\ run[r].todo \subseteq run[r].rows
    /\ run[r].pc = "finished" => run[r].todo = {}

Contained(r) ==
    /\ Cardinality(InFlight(r)) <= Workers
    /\ InFlight(r) \subseteq run[r].rows \ run[r].todo
    /\ InFlight(r) # {} => run[r].pc = "looping"

\* The exchanges a run has passed are in work, have a row, or have failed.
Behind(r) ==
    run[r].pc \in {"looping", "finished"} =>
        \A e \in run[r].rows \ run[r].todo :
            e \in InFlight(r) \/ quality[e] # NoRow \/ e \in faulted

Settled == redos = 0 => \A r \in Run : Behind(r)

\* AssetGapsExplained for one exchange.
Gap(e) ==
    quality[e] # NoRow =>
        LET a     == quality[e].answer
            stage == task[quality[e].from][e].stage
        IN  a.tier = "A" =>
              /\ a.chunk /\ chunk[e] = NoRow => stage = "chunk"
              /\ a.sft # "none" /\ sft[e] = NoRow => stage \in {"chunk", "sft"}

\* Where a goroutine is in Stage 2.
Stage2 == {"check", "recent", "ask", "upsert"}

(***************************************************************************)
(* A goroutine past Judge acts for a row that is there; if the row is      *)
(* still its own, it stores what the row says.                             *)
(***************************************************************************)
Judged(e) ==
    \A r \in Run :
        /\ task[r][e].stage \in {"chunk", "sft"} \cup Stage2 => quality[e] # NoRow
        /\ task[r][e].stage \in {"chunk", "sft"} /\ quality[e].from = r =>
              task[r][e].answer = quality[e].answer

FlagOfPair(e) == sft[e] # NoRow => (sft[e].eligible <=> sft[e].pair = "eligible")

Local(e) == Judged(e) /\ (e \notin faulted => Gap(e)) /\ FlagOfPair(e)

Inv ==
    /\ TypeOK
    /\ \A r \in Run : RunOK(r) /\ Contained(r)
    /\ Settled
    /\ \A e \in Exchange : Local(e)

----------------------------------------------------------------------------
\* Numbers, and what is not a row.
LEMMA Constants ==
    /\ N \in Nat /\ Limit \in Nat /\ Workers \in Nat /\ MaxExits \in Nat /\ MaxRedos \in Nat
    /\ Exchange \subseteq Nat
    /\ IsFiniteSet(Exchange)
<1>1. N \in Nat /\ IsFiniteSet(1 .. N)
  BY SizeAssumption, FS_Interval
<1> QED
  BY <1>1, SizeAssumption, BoundAssumption DEF Exchange

LEMMA RowsAreRows ==
    /\ NoRow \notin Quality /\ NoRow \notin Chunk /\ NoRow \notin SFT
    /\ NoTask \in [stage : Stage, answer : Answer] /\ NoAnswer \in Verdict
  BY DEF NoRow, Quality, Chunk, SFT, NoTask, NoAnswer, Answer, Verdict, Stage

\* Sets of exchanges have a first and a last.
LEMMA FirstIn ==
    ASSUME NEW S \in SUBSET Exchange, S # {}
    PROVE  Min(S) \in S
<1>1. S \subseteq Nat
  BY Constants
<1>2. PICK n \in S : \A m \in S : ~ (<<m, n>> \in OpToRel(<, Nat))
  BY <1>1, WFMin, NatLessThanWellFounded
<1>3. ASSUME NEW m \in S PROVE n <= m
  <2>1. ~ (m < n)
    BY <1>1, <1>2 DEF OpToRel
  <2> QED BY <1>1, <2>1
<1> QED BY <1>3 DEF Min

LEMMA LastIn ==
    ASSUME NEW S \in SUBSET (0 .. N), S # {}
    PROVE  Max(S) \in S
<1> DEFINE left == {n \in Nat : \E e \in S : n = N - e}
<1>1. \A e \in S : e \in Nat /\ N - e \in Nat
  BY Constants
<1>2. left \subseteq Nat /\ left # {}
  BY <1>1
<1>3. PICK n \in left : \A m \in left : ~ (<<m, n>> \in OpToRel(<, Nat))
  BY <1>2, WFMin, NatLessThanWellFounded
<1>4. PICK e \in S : n = N - e
  OBVIOUS
<1>5. ASSUME NEW f \in S PROVE e >= f
  <2>1. N - f \in left
    BY <1>1
  <2>2. ~ (<<N - f, n>> \in OpToRel(<, Nat))
    BY <1>3, <2>1
  <2>3. ~ (N - f < n)
    BY <1>1, <1>2, <2>2 DEF OpToRel
  <2> QED BY <1>1, <1>4, <2>3, Constants
<1> HIDE DEF left
<1> QED BY <1>5 DEF Max

\* What can be in flight is finite.
LEMMA InFlightFinite ==
    ASSUME NEW r
    PROVE  /\ IsFiniteSet(InFlight(r)) /\ Cardinality(InFlight(r)) \in Nat
           /\ IsFiniteSet(InFlight(r)') /\ Cardinality(InFlight(r)') \in Nat
<1>1. InFlight(r) \in SUBSET Exchange /\ InFlight(r)' \in SUBSET Exchange
  BY DEF InFlight
<1> QED BY <1>1, Constants, FS_Subset, FS_CardinalityType

LEMMA InitInv == Init => Inv
<1> SUFFICES ASSUME Init PROVE Inv
  OBVIOUS
<1>1. TypeOK
  BY RowsAreRows, Constants, BoundAssumption DEF Init, TypeOK, Place
<1>2. \A r \in Run : InFlight(r) = {}
  BY DEF Init, InFlight, NoTask
<1>3. ASSUME NEW r \in Run PROVE RunOK(r) /\ Contained(r)
  <2>1. run[r] = [pc |-> "idle", rows |-> {}, todo |-> {}]
    BY DEF Init
  <2>2. Cardinality(InFlight(r)) <= Workers
    BY <1>2, Constants, FS_EmptySet
  <2> QED BY <1>2, <2>1, <2>2 DEF RunOK, Contained
<1>4. Settled
  BY DEF Init, Settled, Behind
<1>5. \A e \in Exchange : Local(e)
  BY DEF Init, Local, Judged, Gap, FlagOfPair, NoTask, history, Stage2
<1> QED BY <1>1, <1>3, <1>4, <1>5 DEF Inv

----------------------------------------------------------------------------
(* What the steps have in common. *)

\* A step that leaves an exchange, its rows and its goroutines alone.
LEMMA LocalSame ==
    ASSUME Inv, NEW e \in Exchange,
           quality'[e] = quality[e], chunk'[e] = chunk[e], sft'[e] = sft[e],
           \A r \in Run : task'[r][e] = task[r][e],
           faulted \subseteq faulted'
    PROVE  Local(e)'
<1>1. Local(e) /\ (quality[e] # NoRow => quality[e].from \in Run)
  <2>1. quality[e] \in Quality \cup {NoRow}
    BY DEF Inv, TypeOK
  <2> QED BY <2>1 DEF Inv, Quality
<1> QED
  BY <1>1 DEF Local, Judged, Gap, FlagOfPair

\* A run whose goroutines are no more than before.
LEMMA ContainedSame ==
    ASSUME Inv, NEW r \in Run, run'[r] = run[r], InFlight(r)' \subseteq InFlight(r)
    PROVE  RunOK(r)' /\ Contained(r)'
<1>1. Cardinality(InFlight(r)') <= Cardinality(InFlight(r))
  BY InFlightFinite, FS_Subset
<1>2. Cardinality(InFlight(r)') <= Workers
  BY <1>1, InFlightFinite, Constants DEF Inv, Contained
<1> QED
  BY <1>2 DEF Inv, RunOK, Contained

\* The goroutine of r for e is at t.
Puts(r, e, t) == task' = [task EXCEPT ![r][e] = t]

\* A goroutine of r for e has gone on to the stage of t.
LEMMA TaskPut ==
    ASSUME Inv, NEW r \in Run, NEW e \in Exchange,
           NEW t \in [stage : Stage, answer : Answer],
           Puts(r, e, t)
    PROVE  /\ task' \in [Run -> [Exchange -> [stage : Stage, answer : Answer]]]
           /\ task'[r][e] = t
           /\ \A q \in Run, f \in Exchange : q # r \/ f # e => task'[q][f] = task[q][f]
  BY DEF Inv, TypeOK, Puts

LEMMA TaskMoves ==
    ASSUME Inv, NEW r \in Run, NEW e \in Exchange,
           NEW t \in [stage : Stage, answer : Answer],
           Puts(r, e, t)
    PROVE  /\ \A q \in Run : q # r => InFlight(q)' = InFlight(q)
           /\ InFlight(r)' = IF t.stage \in {"none", "done"} THEN InFlight(r) \ {e}
                             ELSE InFlight(r) \cup {e}
<1>1. /\ task'[r][e] = t
      /\ \A q \in Run, f \in Exchange : q # r \/ f # e => task'[q][f] = task[q][f]
  BY TaskPut
<1> QED
  BY <1>1 DEF InFlight

\* A step of a goroutine in flight keeps what is said of runs, if the run has
\* its row or its failure when it is done.
LEMMA GoroutineStep ==
    ASSUME Inv, NEW r \in Run, NEW e \in Exchange, e \in InFlight(r),
           NEW t \in [stage : Stage, answer : Answer],
           Puts(r, e, t),
           UNCHANGED <<run, redos>>,
           faulted \subseteq faulted',
           \A f \in Exchange : quality[f] # NoRow => quality'[f] # NoRow,
           quality'[e] # NoRow \/ e \in faulted' \/ t.stage \notin {"none", "done"}
    PROVE  /\ \A q \in Run : RunOK(q)' /\ Contained(q)'
           /\ Settled'
<1>0. /\ \A q \in Run : q # r => InFlight(q)' = InFlight(q)
      /\ InFlight(r)' = IF t.stage \in {"none", "done"} THEN InFlight(r) \ {e}
                        ELSE InFlight(r) \cup {e}
  BY TaskMoves
<1>1. ASSUME NEW q \in Run
      PROVE  InFlight(q)' \subseteq InFlight(q) /\ InFlight(q) \subseteq InFlight(q)' \cup {e}
  BY <1>0
<1>2. \A q \in Run : RunOK(q)' /\ Contained(q)'
  BY <1>1, ContainedSame
<1>3. \A q \in Run : q # r => InFlight(q)' = InFlight(q)
  BY <1>0
<1>4. t.stage \notin {"none", "done"} => InFlight(r)' = InFlight(r)
  BY <1>0
<1>5. \A q \in Run : run[q].rows \subseteq Exchange
  BY DEF Inv, TypeOK
<1>6. Settled'
  BY <1>1, <1>3, <1>4, <1>5 DEF Inv, Settled, Behind
<1> QED BY <1>2, <1>6

\* PutQuality replaces the row of e.
LEMMA QualityPut ==
    ASSUME Inv, NEW r \in Run, NEW e \in Exchange,
           NEW status \in {"ok", "failed", "skipped_gate"}, NEW a \in Verdict,
           PutQuality(r, e, status, a)
    PROVE  /\ quality' \in [Exchange -> Quality \cup {NoRow}]
           /\ quality'[e] = [status |-> status, answer |-> a, from |-> r, run |-> current]
           /\ quality'[e] # NoRow
           /\ \A f \in Exchange : f # e => quality'[f] = quality[f]
<1>1. [status |-> status, answer |-> a, from |-> r, run |-> current] \in Quality
  BY DEF Inv, TypeOK, Quality
<1> QED
  BY <1>1, RowsAreRows DEF Inv, TypeOK, PutQuality

\* The loop takes its next row.
LEMMA NextRowFacts ==
    ASSUME Inv, NEW r \in Run, NEW e \in Exchange, NextRow(r, e)
    PROVE  /\ e \in run[r].todo /\ run[r].pc = "looping"
           /\ run' \in [Run -> [pc : Place, rows : SUBSET Exchange, todo : SUBSET Exchange]]
           /\ run'[r].pc = "looping" /\ run'[r].rows = run[r].rows
           /\ run'[r].todo = run[r].todo \ {e}
           /\ \A q \in Run : q # r => run'[q] = run[q]
<1>1. run[r] \in [pc : Place, rows : SUBSET Exchange, todo : SUBSET Exchange]
  BY DEF Inv, TypeOK
<1>2. e \in run[r].todo
  BY <1>1, FirstIn DEF NextRow
<1> QED
  BY <1>1, <1>2 DEF NextRow, Inv, TypeOK

----------------------------------------------------------------------------
(* The loop of a run. *)

\* A step of the loop that leaves the tables and the goroutines alone.
LEMMA LoopStep ==
    ASSUME Inv, NEW r \in Run,
           UNCHANGED <<tables, task, faulted, redos>>,
           \A q \in Run : q # r => run'[q] = run[q],
           RunOK(r)', Contained(r)', redos = 0 => Behind(r)',
           TypeOK'
    PROVE  Inv'
<1>1. \A q \in Run : RunOK(q)' /\ Contained(q)'
  <2>1. \A q \in Run : InFlight(q)' = InFlight(q)
    BY DEF InFlight
  <2> QED BY <2>1, ContainedSame
<1>2. Settled'
  BY DEF Inv, Settled, Behind, InFlight, tables
<1>3. \A e \in Exchange : Local(e)'
  BY LocalSame DEF tables
<1> QED BY <1>1, <1>2, <1>3 DEF Inv

\* A run without goroutines.
LEMMA NothingInFlight ==
    ASSUME NEW r \in Run, InFlight(r)' = {}
    PROVE  Contained(r)'
<1>1. Cardinality(InFlight(r)') <= Workers
  BY Constants, FS_EmptySet
<1> QED BY <1>1 DEF Contained

LEMMA StartInv ==
    ASSUME Inv, NEW r \in Run, Start(r)
    PROVE  Inv'
<1>1. /\ run' \in [Run -> [pc : Place, rows : SUBSET Exchange, todo : SUBSET Exchange]]
      /\ run'[r] = [run[r] EXCEPT !.pc = "started"]
      /\ \A q \in Run : q # r => run'[q] = run[q]
  BY DEF Inv, TypeOK, Start, Place
<1>2. TypeOK'
  BY <1>1 DEF Inv, TypeOK, Start, tables, users, bounds, history, MeetsActive, Active
<1>3. InFlight(r) = {} /\ InFlight(r)' = InFlight(r)
  BY DEF Inv, Contained, Start, InFlight
<1>4. RunOK(r)' /\ Contained(r)' /\ Behind(r)'
  <2>1. run[r] \in [pc : Place, rows : SUBSET Exchange, todo : SUBSET Exchange]
    BY DEF Inv, TypeOK
  <2> QED BY <1>1, <1>3, <2>1 DEF Inv, RunOK, Contained, Behind
<1> QED BY <1>1, <1>2, <1>4, LoopStep DEF Start, bounds

LEMMA ListPendingInv ==
    ASSUME Inv, NEW r \in Run, ListPending(r)
    PROVE  Inv'
<1>0. Oldest(Pending) \in SUBSET Exchange
  BY DEF Oldest, Pending, Inv, TypeOK
<1>1. /\ run' \in [Run -> [pc : Place, rows : SUBSET Exchange, todo : SUBSET Exchange]]
      /\ run'[r] = [pc |-> "looping", rows |-> Oldest(Pending), todo |-> Oldest(Pending)]
      /\ \A q \in Run : q # r => run'[q] = run[q]
  BY <1>0 DEF Inv, TypeOK, ListPending, Place
<1>2. TypeOK'
  BY <1>1 DEF Inv, TypeOK, ListPending, tables, users, bounds, history
<1>3. InFlight(r) = {} /\ InFlight(r)' = {}
  BY DEF Inv, Contained, ListPending, InFlight
<1>4. RunOK(r)' /\ Behind(r)'
  BY <1>1 DEF RunOK, Behind
<1>5. Contained(r)'
  BY <1>3, <1>4, NothingInFlight
<1> QED BY <1>1, <1>2, <1>4, <1>5, LoopStep DEF ListPending, bounds, history

LEMMA ListFailsInv ==
    ASSUME Inv, NEW r \in Run, ListFails(r)
    PROVE  Inv'
<1>1. /\ run' \in [Run -> [pc : Place, rows : SUBSET Exchange, todo : SUBSET Exchange]]
      /\ run'[r] = [run[r] EXCEPT !.pc = "failed"]
      /\ \A q \in Run : q # r => run'[q] = run[q]
  BY DEF Inv, TypeOK, ListFails, Place
<1>2. TypeOK'
  BY <1>1 DEF Inv, TypeOK, ListFails, tables, users, bounds, history
<1>3. InFlight(r) = {} /\ InFlight(r)' = InFlight(r)
  BY DEF Inv, Contained, ListFails, InFlight
<1>4. RunOK(r)' /\ Contained(r)' /\ Behind(r)'
  <2>1. run[r] \in [pc : Place, rows : SUBSET Exchange, todo : SUBSET Exchange]
    BY DEF Inv, TypeOK
  <2> QED BY <1>1, <1>3, <2>1 DEF Inv, RunOK, Contained, Behind
<1> QED BY <1>1, <1>2, <1>4, LoopStep DEF ListFails, bounds, history

\* The cursor stays among the exchanges.
LEMMA CursorType ==
    ASSUME Inv, NEW r \in Run, run[r].rows # {}, MoveCursor(Max(run[r].rows))
    PROVE  cursor' \in [at : 0 .. N, id : 0 .. N]
<1>1. run[r].rows \in SUBSET (0 .. N) /\ cursor.at \in 0 .. N
  BY DEF Inv, TypeOK, Exchange
<1>2. Max(run[r].rows) \in 0 .. N
  BY <1>1, LastIn
<1>3. Max({cursor.at, Max(run[r].rows)}) \in {cursor.at, Max(run[r].rows)}
  BY <1>1, <1>2, LastIn
<1> QED BY <1>1, <1>2, <1>3 DEF MoveCursor

LEMMA ConcludeInv ==
    ASSUME Inv, NEW r \in Run, Conclude(r)
    PROVE  Inv'
<1>1. /\ run' \in [Run -> [pc : Place, rows : SUBSET Exchange, todo : SUBSET Exchange]]
      /\ run'[r] = [run[r] EXCEPT !.pc = "finished"]
      /\ \A q \in Run : q # r => run'[q] = run[q]
  <2>1. run' = [run EXCEPT ![r].pc = "finished"]
    BY DEF Conclude
  <2> QED BY <2>1 DEF Inv, TypeOK, Place
<1>2. TypeOK'
  <2>1. cursor' \in [at : 0 .. N, id : 0 .. N]
    BY CursorType DEF Conclude, Inv, TypeOK
  <2> QED BY <1>1, <2>1 DEF Inv, TypeOK, Conclude, tables, users, bounds, history
<1>3. InFlight(r) = {} /\ InFlight(r)' = {}
  BY DEF Conclude, InFlight
<1>4. run[r] \in [pc : Place, rows : SUBSET Exchange, todo : SUBSET Exchange]
  BY DEF Inv, TypeOK
<1>5. RunOK(r)'
  BY <1>1, <1>4 DEF Inv, RunOK, Conclude
<1>6. Contained(r)'
  BY <1>3, <1>5, NothingInFlight
<1>7. redos = 0 => Behind(r)'
  BY <1>1, <1>3, <1>4 DEF Inv, Settled, Behind, Conclude, tables, history
<1> QED BY <1>1, <1>2, <1>5, <1>6, <1>7, LoopStep DEF Conclude, bounds, history

LEMMA GateRejectsInv ==
    ASSUME Inv, NEW r \in Run, NEW e \in Exchange, GateRejects(r, e)
    PROVE  Inv'
<1>1. NextRow(r, e)
  BY DEF GateRejects
<1>2. /\ e \in run[r].todo /\ run[r].pc = "looping"
      /\ run' \in [Run -> [pc : Place, rows : SUBSET Exchange, todo : SUBSET Exchange]]
      /\ run'[r].pc = "looping" /\ run'[r].rows = run[r].rows
      /\ run'[r].todo = run[r].todo \ {e}
      /\ \A q \in Run : q # r => run'[q] = run[q]
  BY <1>1, NextRowFacts
<1>3. \A q \in Run : InFlight(q)' = InFlight(q)
  BY DEF GateRejects, InFlight
<1>4. \A q \in Run : RunOK(q)' /\ Contained(q)'
  <2>1. RunOK(r)' /\ Contained(r)'
    BY <1>2, <1>3 DEF Inv, RunOK, Contained
  <2> QED BY <1>2, <1>3, <2>1, ContainedSame
<1>5. CASE PutQuality(r, e, "skipped_gate", NoAnswer) /\ UNCHANGED faulted
  <2>1. /\ quality' \in [Exchange -> Quality \cup {NoRow}]
        /\ quality'[e] = [status |-> "skipped_gate", answer |-> NoAnswer, from |-> r, run |-> current]
        /\ quality'[e] # NoRow
        /\ \A f \in Exchange : f # e => quality'[f] = quality[f]
    BY <1>5, QualityPut, RowsAreRows
  <2>2. TypeOK'
    BY <1>2, <1>5, <2>1 DEF Inv, TypeOK, GateRejects, users, bounds
  <2>3. Settled'
    BY <1>2, <1>3, <1>5, <2>1 DEF Inv, Settled, Behind, GateRejects, bounds
  <2>4. \A f \in Exchange : Local(f)'
    <3>1. \A f \in Exchange : f # e => Local(f)'
      BY <1>5, <2>1, LocalSame DEF GateRejects
    <3>2. Local(e)'
      <4>1. r \notin {q \in Run : task[q][e].stage \in {"chunk", "sft"}}
        <5>1. e \notin InFlight(r)
          BY <1>2 DEF Inv, Contained
        <5> QED BY <5>1 DEF InFlight
      <4>2. Judged(e)' /\ Gap(e)'
        BY <2>1, <4>1 DEF Inv, Local, Judged, Gap, GateRejects, NoAnswer
      <4>3. FlagOfPair(e)'
        BY DEF Inv, Local, FlagOfPair, GateRejects
      <4> QED BY <4>2, <4>3 DEF Local
    <3> QED BY <3>1, <3>2
  <2> QED BY <1>4, <2>2, <2>3, <2>4 DEF Inv
<1>6. CASE faulted' = faulted \cup {e} /\ UNCHANGED quality
  <2>1. TypeOK'
    BY <1>2, <1>6 DEF Inv, TypeOK, GateRejects, users, bounds
  <2>2. Settled'
    BY <1>2, <1>3, <1>6 DEF Inv, Settled, Behind, GateRejects, bounds
  <2>3. \A f \in Exchange : Local(f)'
    BY <1>6, LocalSame DEF GateRejects
  <2> QED BY <1>4, <2>1, <2>2, <2>3 DEF Inv
<1> QED BY <1>5, <1>6 DEF GateRejects

\* A place in the semaphore was free, and no goroutine of the run is at e.
LEMMA SpawnInv ==
    ASSUME Inv, NEW r \in Run, NEW e \in Exchange, Spawn(r, e)
    PROVE  Inv'
<1> DEFINE t == [task[r][e] EXCEPT !.stage = "started"]
<1>1. NextRow(r, e)
  BY DEF Spawn
<1>2. /\ e \in run[r].todo /\ run[r].pc = "looping"
      /\ run' \in [Run -> [pc : Place, rows : SUBSET Exchange, todo : SUBSET Exchange]]
      /\ run'[r].pc = "looping" /\ run'[r].rows = run[r].rows
      /\ run'[r].todo = run[r].todo \ {e}
      /\ \A q \in Run : q # r => run'[q] = run[q]
  BY <1>1, NextRowFacts
<1>3. t \in [stage : Stage, answer : Answer] /\ t.stage = "started"
  <2>1. task[r][e] \in [stage : Stage, answer : Answer]
    BY DEF Inv, TypeOK
  <2> QED BY <2>1 DEF Stage
<1>4. Puts(r, e, t)
  BY DEF Spawn, Inv, TypeOK, Puts
<1> HIDE DEF t
<1>5. /\ task' \in [Run -> [Exchange -> [stage : Stage, answer : Answer]]]
      /\ task'[r][e] = t
      /\ \A q \in Run, f \in Exchange : q # r \/ f # e => task'[q][f] = task[q][f]
      /\ \A q \in Run : q # r => InFlight(q)' = InFlight(q)
      /\ InFlight(r)' = InFlight(r) \cup {e}
  <2>1. t.stage \notin {"none", "done"}
    BY <1>3
  <2>2. /\ task' \in [Run -> [Exchange -> [stage : Stage, answer : Answer]]]
        /\ task'[r][e] = t
        /\ \A q \in Run, f \in Exchange : q # r \/ f # e => task'[q][f] = task[q][f]
    BY <1>3, <1>4, TaskPut
  <2>3. /\ \A q \in Run : q # r => InFlight(q)' = InFlight(q)
        /\ InFlight(r)' = IF t.stage \in {"none", "done"} THEN InFlight(r) \ {e}
                          ELSE InFlight(r) \cup {e}
    BY <1>3, <1>4, TaskMoves
  <2> QED BY <2>1, <2>2, <2>3
<1>6. TypeOK'
  BY <1>2, <1>5 DEF Inv, TypeOK, Spawn, tables, users, bounds, history
<1>7. e \notin InFlight(r)
  BY <1>2 DEF Inv, Contained
<1>8. \A q \in Run : RunOK(q)' /\ Contained(q)'
  <2>1. Cardinality(InFlight(r)') <= Workers
    <3>1. Cardinality(InFlight(r)') = Cardinality(InFlight(r)) + 1
      BY <1>5, <1>7, InFlightFinite, FS_AddElement
    <3>2. Cardinality(InFlight(r)) < Workers
      BY DEF Spawn
    <3> QED BY <3>1, <3>2, InFlightFinite, Constants
  <2>2. RunOK(r)' /\ Contained(r)'
    BY <1>2, <1>5, <2>1 DEF Inv, RunOK, Contained
  <2>3. ASSUME NEW q \in Run, q # r PROVE RunOK(q)' /\ Contained(q)'
    BY <1>2, <1>5, <2>3, ContainedSame
  <2> QED BY <2>2, <2>3
<1>9. Settled'
  BY <1>2, <1>5 DEF Inv, Settled, Behind, Spawn, tables, bounds, history
<1>10. \A f \in Exchange : Local(f)'
  <2>1. \A f \in Exchange : f # e => Local(f)'
    BY <1>5, LocalSame DEF Spawn, tables, history
  <2>2. Local(e)'
    <3>1. task[r][e].stage \notin {"chunk", "sft"} \cup Stage2
      BY <1>7 DEF InFlight, Stage2
    <3>2. Judged(e)' /\ FlagOfPair(e)'
      BY <1>3, <1>5 DEF Inv, Local, Judged, FlagOfPair, Spawn, tables, history, Stage2
    <3>3. quality[e] # NoRow => quality[e].from \in Run
      BY DEF Inv, TypeOK, Quality
    <3>4. e \notin faulted' => Gap(e)'
      BY <1>3, <1>5, <3>1, <3>3 DEF Inv, Local, Gap, Spawn, tables, history
    <3> QED BY <3>2, <3>4 DEF Local
  <2> QED BY <2>1, <2>2
<1> QED BY <1>6, <1>8, <1>9, <1>10 DEF Inv

----------------------------------------------------------------------------
(* The goroutine of a run for an exchange. *)

LEMMA Advanced ==
    ASSUME Inv, NEW r \in Run, NEW e \in Exchange, NEW s \in Stage, Advance(r, e, s)
    PROVE  \E t \in [stage : Stage, answer : Answer] :
              /\ Puts(r, e, t)
              /\ t.stage = s
              /\ s = "sft" => t.answer = task[r][e].answer
<1> DEFINE t == [stage |-> s, answer |-> IF s = "sft" THEN task[r][e].answer ELSE NoAnswer]
<1>1. task[r][e].answer \in Answer /\ NoAnswer \in Answer
  <2>1. task[r][e] \in [stage : Stage, answer : Answer]
    BY DEF Inv, TypeOK
  <2> QED BY <2>1, RowsAreRows DEF Verdict
<1>2. t \in [stage : Stage, answer : Answer]
  BY <1>1
<1> QED BY <1>2 DEF Advance, Puts

\* A conclusion without an answer: Discard and ModelFails.
LEMMA ConclusionInv ==
    ASSUME Inv, NEW r \in Run, NEW e \in Exchange,
           NEW status \in {"ok", "failed", "skipped_gate"},
           task[r][e].stage = "started",
           PutQuality(r, e, status, NoAnswer),
           Advance(r, e, "done"),
           UNCHANGED <<facts, chunk, sft, users, cursor, current, run, history, bounds>>
    PROVE  Inv'
<1>1. /\ quality' \in [Exchange -> Quality \cup {NoRow}]
      /\ quality'[e] = [status |-> status, answer |-> NoAnswer, from |-> r, run |-> current]
      /\ quality'[e] # NoRow
      /\ \A f \in Exchange : f # e => quality'[f] = quality[f]
  BY QualityPut, RowsAreRows
<1>2. PICK t \in [stage : Stage, answer : Answer] :
         Puts(r, e, t) /\ t.stage = "done"
  BY Advanced DEF Stage
<1>3. e \in InFlight(r)
  BY DEF InFlight
<1>4. /\ task' \in [Run -> [Exchange -> [stage : Stage, answer : Answer]]]
      /\ task'[r][e] = t
      /\ \A q \in Run, f \in Exchange : q # r \/ f # e => task'[q][f] = task[q][f]
  BY <1>2, TaskPut
<1>5. TypeOK'
  BY <1>1, <1>4 DEF Inv, TypeOK, users, bounds, history
<1>6. Settled' /\ \A q \in Run : RunOK(q)' /\ Contained(q)'
  <2>1. \A f \in Exchange : quality[f] # NoRow => quality'[f] # NoRow
    BY <1>1
  <2> QED BY <1>1, <1>2, <1>3, <2>1, GoroutineStep DEF bounds, history
<1>7. \A f \in Exchange : Local(f)'
  <2>1. \A f \in Exchange : f # e => Local(f)'
    BY <1>1, <1>4, LocalSame DEF history
  <2>2. Judged(e)' /\ Gap(e)'
    BY <1>1, <1>2, <1>4 DEF Inv, Local, Judged, Gap, NoAnswer
  <2>3. FlagOfPair(e)'
    BY DEF Inv, Local, FlagOfPair
  <2> QED BY <2>1, <2>2, <2>3 DEF Local
<1> QED BY <1>5, <1>6, <1>7 DEF Inv

LEMMA JudgeInv ==
    ASSUME Inv, NEW r \in Run, NEW e \in Exchange, Judge(r, e)
    PROVE  Inv'
<1>1. PICK raw \in Answers :
         LET a == [raw EXCEPT !.tier = NormalizeTier(@)]
         IN  /\ PutQuality(r, e, "ok", a)
             /\ task' = [task EXCEPT ![r][e] =
                           IF a.tier = "A" THEN [stage |-> "chunk", answer |-> a]
                                           ELSE [NoTask EXCEPT !.stage = "done"]]
  BY DEF Judge
<1> DEFINE a == [raw EXCEPT !.tier = NormalizeTier(@)]
           t == IF a.tier = "A" THEN [stage |-> "chunk", answer |-> a]
                ELSE [NoTask EXCEPT !.stage = "done"]
<1>2. a \in Verdict /\ a \in Answer
  <2>1. raw \in Answer
    BY AnswersAssumption
  <2> QED BY <2>1 DEF Answer, Verdict, NormalizeTier
<1>3. /\ t \in [stage : Stage, answer : Answer]
      /\ a.tier = "A" => t.stage = "chunk" /\ t.answer = a
      /\ a.tier # "A" => t.stage = "done"
  BY <1>2, RowsAreRows DEF NoTask, Stage
<1>4. PutQuality(r, e, "ok", a) /\ Puts(r, e, t)
  BY <1>1 DEF Puts
<1> HIDE DEF a, t
<1>5. /\ quality' \in [Exchange -> Quality \cup {NoRow}]
      /\ quality'[e] = [status |-> "ok", answer |-> a, from |-> r, run |-> current]
      /\ quality'[e] # NoRow
      /\ \A f \in Exchange : f # e => quality'[f] = quality[f]
  BY <1>2, <1>4, QualityPut
<1>6. e \in InFlight(r)
  BY DEF InFlight, Judge
<1>7. /\ task' \in [Run -> [Exchange -> [stage : Stage, answer : Answer]]]
      /\ task'[r][e] = t
      /\ \A q \in Run, f \in Exchange : q # r \/ f # e => task'[q][f] = task[q][f]
  BY <1>3, <1>4, TaskPut
<1>8. TypeOK'
  BY <1>5, <1>7 DEF Inv, TypeOK, Judge, users, bounds, history
<1>9. Settled' /\ \A q \in Run : RunOK(q)' /\ Contained(q)'
  <2>1. \A f \in Exchange : quality[f] # NoRow => quality'[f] # NoRow
    BY <1>5
  <2> QED BY <1>3, <1>4, <1>5, <1>6, <2>1, GoroutineStep DEF bounds, Judge, history
<1>10. \A f \in Exchange : Local(f)'
  <2>1. \A f \in Exchange : f # e => Local(f)'
    BY <1>5, <1>7, LocalSame DEF Judge, history
  <2>2. Judged(e)'
    BY <1>3, <1>5, <1>7 DEF Inv, Local, Judged
  <2>3. Gap(e)'
    BY <1>3, <1>5, <1>7 DEF Gap
  <2>4. FlagOfPair(e)'
    BY DEF Inv, Local, FlagOfPair, Judge
  <2> QED BY <2>1, <2>2, <2>3, <2>4 DEF Local
<1> QED BY <1>8, <1>9, <1>10 DEF Inv

LEMMA TaskFailsInv ==
    ASSUME Inv, NEW r \in Run, NEW e \in Exchange, TaskFails(r, e)
    PROVE  Inv'
<1>1. PICK t \in [stage : Stage, answer : Answer] :
         Puts(r, e, t) /\ t.stage = "done"
  BY Advanced DEF Stage, TaskFails
<1>2. e \in InFlight(r) /\ faulted' = faulted \cup {e}
  BY DEF InFlight, TaskFails
<1>3. /\ task' \in [Run -> [Exchange -> [stage : Stage, answer : Answer]]]
      /\ task'[r][e] = t
      /\ \A q \in Run, f \in Exchange : q # r \/ f # e => task'[q][f] = task[q][f]
  BY <1>1, TaskPut
<1>4. TypeOK'
  BY <1>2, <1>3 DEF Inv, TypeOK, TaskFails, tables, users, bounds
<1>5. Settled' /\ \A q \in Run : RunOK(q)' /\ Contained(q)'
  BY <1>1, <1>2, GoroutineStep DEF TaskFails, tables, bounds
<1>6. \A f \in Exchange : Local(f)'
  <2>1. \A f \in Exchange : f # e => Local(f)'
    BY <1>2, <1>3, LocalSame DEF TaskFails, tables
  <2>2. Judged(e)'
    BY <1>1, <1>3 DEF Inv, Local, Judged, TaskFails, tables, history, Stage2
  <2>3. FlagOfPair(e)'
    BY DEF Inv, Local, FlagOfPair, TaskFails, tables
  <2> QED BY <1>2, <2>1, <2>2, <2>3 DEF Local
<1> QED BY <1>4, <1>5, <1>6 DEF Inv

LEMMA InsertChunkInv ==
    ASSUME Inv, NEW r \in Run, NEW e \in Exchange, InsertChunk(r, e)
    PROVE  Inv'
<1> DEFINE a == task[r][e].answer
           new == [status |-> "present", rag |-> a.rag, from |-> r, run |-> current]
<1>1. PICK t \in [stage : Stage, answer : Answer] :
         Puts(r, e, t) /\ t.stage = "sft" /\ t.answer = a
  BY Advanced DEF Stage, InsertChunk
<1>2. /\ task' \in [Run -> [Exchange -> [stage : Stage, answer : Answer]]]
      /\ task'[r][e] = t
      /\ \A q \in Run, f \in Exchange : q # r \/ f # e => task'[q][f] = task[q][f]
  BY <1>1, TaskPut
<1>3. /\ task[r][e].stage = "chunk" /\ e \in InFlight(r)
      /\ UNCHANGED <<facts, quality, sft, users, cursor, current, run, beside, bounds>>
  BY DEF InFlight, InsertChunk
<1>4. new \in Chunk
  <2>1. task[r][e] \in [stage : Stage, answer : Answer] /\ current \in Run \cup {NoRun}
    BY DEF Inv, TypeOK
  <2>2. a.rag \in BOOLEAN
    BY <2>1 DEF Answer
  <2> QED BY <2>1, <2>2 DEF Chunk
<1>5. \/ a.chunk /\ chunk' = [chunk EXCEPT ![e] = new] /\ UNCHANGED faulted
      \/ faulted' = faulted \cup {e} /\ UNCHANGED chunk
      \/ ~a.chunk /\ UNCHANGED <<chunk, faulted>>
  BY DEF InsertChunk
<1> HIDE DEF a, new
<1>6. /\ chunk' \in [Exchange -> Chunk \cup {NoRow}]
      /\ \A f \in Exchange : f # e => chunk'[f] = chunk[f]
      /\ chunk[e] # NoRow => chunk'[e] # NoRow
      /\ a.chunk => chunk'[e] # NoRow \/ e \in faulted'
      /\ faulted' \in {faulted, faulted \cup {e}}
  <2>1. chunk \in [Exchange -> Chunk \cup {NoRow}]
    BY DEF Inv, TypeOK
  <2>2. CASE a.chunk /\ chunk' = [chunk EXCEPT ![e] = new] /\ UNCHANGED faulted
    <3>1. new \in Chunk /\ new # NoRow
      BY <1>4, RowsAreRows
    <3> QED BY <2>1, <2>2, <3>1
  <2>3. CASE faulted' = faulted \cup {e} /\ UNCHANGED chunk
    BY <2>1, <2>3
  <2>4. CASE ~a.chunk /\ UNCHANGED <<chunk, faulted>>
    BY <2>1, <2>4
  <2> QED BY <1>5, <2>2, <2>3, <2>4
<1>7. TypeOK'
  BY <1>2, <1>3, <1>6 DEF Inv, TypeOK, users, bounds, history
<1>8. quality[e] # NoRow
  BY <1>3 DEF Inv, Local, Judged
<1>9. Settled' /\ \A q \in Run : RunOK(q)' /\ Contained(q)'
  BY <1>1, <1>3, <1>6, GoroutineStep DEF bounds
<1>10. \A f \in Exchange : Local(f)'
  <2>1. \A f \in Exchange : f # e => Local(f)'
    BY <1>2, <1>3, <1>6, LocalSame
  <2>2. Judged(e)'
    <3>1. quality[e].from = r => t.answer = quality[e].answer
      BY <1>1, <1>3 DEF a, Inv, Local, Judged
    <3>2. ASSUME NEW q \in Run, q # r
          PROVE  task[q][e].stage \in {"chunk", "sft"} /\ quality[e].from = q =>
                    task[q][e].answer = quality[e].answer
      BY DEF Inv, Local, Judged
    <3> QED BY <1>1, <1>2, <1>3, <1>8, <3>1, <3>2 DEF Judged
  <2>3. FlagOfPair(e)'
    BY <1>3 DEF Inv, Local, FlagOfPair
  <2>4. quality[e].from \in Run /\ quality'[e] = quality[e] /\ sft'[e] = sft[e]
    BY <1>3, <1>8 DEF Inv, TypeOK, Quality
  <2>5. ASSUME e \notin faulted' PROVE Gap(e)'
    <3>1. Gap(e)
      BY <1>6, <2>5 DEF Inv, Local
    <3>2. CASE quality[e].from = r
      <4>1. quality[e].answer = a
        BY <1>3, <3>2 DEF a, Inv, Local, Judged
      <4>2. task'[r][e].stage = "sft"
        BY <1>1, <1>2
      <4> QED BY <1>6, <2>4, <2>5, <3>2, <4>1, <4>2 DEF Gap
    <3>3. CASE quality[e].from # r
      <4>1. task'[quality[e].from][e] = task[quality[e].from][e]
        BY <1>2, <2>4, <3>3
      <4> QED BY <1>6, <2>4, <3>1, <4>1 DEF Gap
    <3> QED BY <3>2, <3>3
  <2> QED BY <2>1, <2>2, <2>3, <2>5 DEF Local
<1> QED BY <1>7, <1>9, <1>10 DEF Inv

LEMMA InsertSFTInv ==
    ASSUME Inv, NEW r \in Run, NEW e \in Exchange, InsertSFT(r, e)
    PROVE  Inv'
<1> DEFINE a == task[r][e].answer
           new == [status |-> "present", pair |-> a.sft, eligible |-> a.sft = "eligible",
                   from |-> r, run |-> current]
<1>1. PICK t \in [stage : Stage, answer : Answer] :
         Puts(r, e, t) /\ t.stage = "check"
  BY Advanced DEF Stage, InsertSFT
<1>2. /\ task' \in [Run -> [Exchange -> [stage : Stage, answer : Answer]]]
      /\ task'[r][e] = t
      /\ \A q \in Run, f \in Exchange : q # r \/ f # e => task'[q][f] = task[q][f]
  BY <1>1, TaskPut
<1>3. /\ task[r][e].stage = "sft" /\ e \in InFlight(r)
      /\ UNCHANGED <<facts, quality, chunk, users, cursor, current, run, beside, bounds>>
  BY DEF InFlight, InsertSFT
<1>4. a.sft # "none" => new \in SFT /\ (new.eligible <=> new.pair = "eligible")
  <2>1. task[r][e] \in [stage : Stage, answer : Answer] /\ current \in Run \cup {NoRun}
    BY DEF Inv, TypeOK
  <2>2. a.sft \in {"none", "ineligible", "eligible"}
    BY <2>1 DEF Answer
  <2> QED BY <2>1, <2>2 DEF SFT
<1>5. \/ a.sft # "none" /\ sft' = [sft EXCEPT ![e] = new] /\ UNCHANGED faulted
      \/ faulted' = faulted \cup {e} /\ UNCHANGED sft
      \/ a.sft = "none" /\ UNCHANGED <<sft, faulted>>
  BY DEF InsertSFT
<1> HIDE DEF a, new
<1>6. /\ sft' \in [Exchange -> SFT \cup {NoRow}]
      /\ \A f \in Exchange : f # e => sft'[f] = sft[f]
      /\ sft[e] # NoRow => sft'[e] # NoRow
      /\ a.sft # "none" => sft'[e] # NoRow \/ e \in faulted'
      /\ faulted' \in {faulted, faulted \cup {e}}
  <2>1. sft \in [Exchange -> SFT \cup {NoRow}]
    BY DEF Inv, TypeOK
  <2>2. CASE a.sft # "none" /\ sft' = [sft EXCEPT ![e] = new] /\ UNCHANGED faulted
    <3>1. new \in SFT /\ new # NoRow
      BY <1>4, <2>2, RowsAreRows
    <3> QED BY <2>1, <2>2, <3>1
  <2>3. CASE faulted' = faulted \cup {e} /\ UNCHANGED sft
    BY <2>1, <2>3
  <2>4. CASE a.sft = "none" /\ UNCHANGED <<sft, faulted>>
    BY <2>1, <2>4
  <2> QED BY <1>5, <2>2, <2>3, <2>4
<1>7. TypeOK'
  BY <1>2, <1>3, <1>6 DEF Inv, TypeOK, users, bounds, history
<1>8. quality[e] # NoRow
  BY <1>3 DEF Inv, Local, Judged
<1>9. Settled' /\ \A q \in Run : RunOK(q)' /\ Contained(q)'
  BY <1>1, <1>3, <1>6, <1>8, GoroutineStep DEF bounds
<1>10. \A f \in Exchange : Local(f)'
  <2>1. \A f \in Exchange : f # e => Local(f)'
    BY <1>2, <1>3, <1>6, LocalSame
  <2>2. Judged(e)'
    BY <1>1, <1>2, <1>3, <1>8 DEF Inv, Local, Judged
  <2>3. FlagOfPair(e)'
    <3>1. sft \in [Exchange -> SFT \cup {NoRow}] /\ FlagOfPair(e)
      BY DEF Inv, TypeOK, Local
    <3> QED BY <1>4, <1>5, <3>1 DEF FlagOfPair
  <2>4. quality[e].from \in Run /\ quality'[e] = quality[e] /\ chunk'[e] = chunk[e]
    BY <1>3, <1>8 DEF Inv, TypeOK, Quality
  <2>5. ASSUME e \notin faulted' PROVE Gap(e)'
    <3>1. Gap(e)
      BY <1>6, <2>5 DEF Inv, Local
    <3>2. CASE quality[e].from = r
      <4>1. quality[e].answer = a
        BY <1>3, <3>2 DEF a, Inv, Local, Judged
      <4> QED BY <1>3, <1>6, <2>4, <2>5, <3>1, <3>2, <4>1 DEF Gap
    <3>3. CASE quality[e].from # r
      <4>1. task'[quality[e].from][e] = task[quality[e].from][e]
        BY <1>2, <2>4, <3>3
      <4> QED BY <1>6, <2>4, <3>1, <4>1 DEF Gap
    <3> QED BY <3>2, <3>3
  <2> QED BY <2>1, <2>2, <2>3, <2>5 DEF Local
<1> QED BY <1>7, <1>9, <1>10 DEF Inv

\* A goroutine goes on in Stage 2, or returns from it.
LEMMA StageTwoInv ==
    ASSUME Inv, NEW r \in Run, NEW e \in Exchange, NEW s \in Stage2 \cup {"done"},
           task[r][e].stage \in Stage2,
           Advance(r, e, s),
           stage2' = stage2 \/ \E how \in {"call_failed", "returned"} :
                                  stage2' = [stage2 EXCEPT ![Owner[e]] = how],
           profiled' \subseteq profiled \cup {Owner[e]},
           UNCHANGED <<facts, tables, cursor, current, run, history, bounds>>
    PROVE  Inv'
<1>1. PICK t \in [stage : Stage, answer : Answer] : Puts(r, e, t) /\ t.stage = s
  BY Advanced DEF Stage, Stage2
<1>2. /\ task' \in [Run -> [Exchange -> [stage : Stage, answer : Answer]]]
      /\ task'[r][e] = t
      /\ \A q \in Run, f \in Exchange : q # r \/ f # e => task'[q][f] = task[q][f]
  BY <1>1, TaskPut
<1>3. /\ e \in InFlight(r)
      /\ UNCHANGED <<facts, quality, chunk, sft, cursor, current, run, faulted, beside, bounds>>
  BY DEF InFlight, Stage2, tables, history
<1>4. TypeOK'
  <2>1. Owner[e] \in User
    BY OwnerAssumption
  <2>2. profiled' \subseteq User /\ stage2' \in [User -> {"not_run", "call_failed", "returned"}]
    <3>1. profiled \subseteq User /\ stage2 \in [User -> {"not_run", "call_failed", "returned"}]
      BY DEF Inv, TypeOK
    <3> QED BY <2>1, <3>1
  <2> QED BY <1>2, <1>3, <2>2 DEF Inv, TypeOK, bounds
<1>5. quality[e] # NoRow
  BY DEF Inv, Local, Judged
<1>6. Settled' /\ \A q \in Run : RunOK(q)' /\ Contained(q)'
  BY <1>1, <1>3, <1>5, GoroutineStep DEF bounds
<1>7. \A f \in Exchange : Local(f)'
  <2>1. \A f \in Exchange : f # e => Local(f)'
    BY <1>2, <1>3, LocalSame
  <2>2. Judged(e)'
    BY <1>1, <1>2, <1>3, <1>5 DEF Inv, Local, Judged, Stage2
  <2>3. FlagOfPair(e)'
    BY <1>3 DEF Inv, Local, FlagOfPair
  <2>4. quality[e].from \in Run
    BY <1>5 DEF Inv, TypeOK, Quality
  <2>5. ASSUME e \notin faulted' PROVE Gap(e)'
    <3>1. Gap(e)
      BY <1>3, <2>5 DEF Inv, Local
    <3>2. \A q \in Run : task[q][e].stage \in {"chunk", "sft"} => task'[q][e] = task[q][e]
      BY <1>2 DEF Stage2
    <3> QED BY <1>3, <2>4, <3>1, <3>2 DEF Gap
  <2> QED BY <2>1, <2>2, <2>3, <2>5 DEF Local
<1> QED BY <1>4, <1>6, <1>7 DEF Inv

LEMMA UserProfilingInv ==
    ASSUME Inv, NEW r \in Run, NEW e \in Exchange,
           \/ CallFails(r, e) \/ CheckUser(r, e) \/ ReadRecent(r, e)
           \/ AskProfile(r, e) \/ UpsertProfile(r, e)
    PROVE  Inv'
<1>1. CASE CallFails(r, e)
  BY <1>1, StageTwoInv DEF CallFails, Returns, Stage2
<1>2. CASE CheckUser(r, e)
  BY <1>2, StageTwoInv DEF CheckUser, users, Stage2
<1>3. CASE ReadRecent(r, e)
  BY <1>3, StageTwoInv DEF ReadRecent, Returns, Stage2
<1>4. CASE AskProfile(r, e)
  BY <1>4, StageTwoInv DEF AskProfile, users, Stage2
<1>5. CASE UpsertProfile(r, e)
  BY <1>5, StageTwoInv DEF UpsertProfile, Returns, Stage2
<1> QED BY <1>1, <1>2, <1>3, <1>4, <1>5

----------------------------------------------------------------------------
(* The process, the operator and corpus-tap. *)

LEMMA ExitInv ==
    ASSUME Inv, Exit
    PROVE  Inv'
<1>1. \A r \in Run, e \in Exchange : task'[r][e] = NoTask
  BY DEF Exit
<1>2. \A r \in Run : InFlight(r)' = {}
  BY <1>1 DEF InFlight, NoTask
<1>3. /\ run' \in [Run -> [pc : Place, rows : SUBSET Exchange, todo : SUBSET Exchange]]
      /\ \A r \in Run : \/ run'[r] = run[r] /\ r \notin Active
                        \/ run'[r] = [run[r] EXCEPT !.pc = "lost"] /\ r \in Active
  <2>1. run \in [Run -> [pc : Place, rows : SUBSET Exchange, todo : SUBSET Exchange]]
    BY DEF Inv, TypeOK
  <2> QED BY <2>1 DEF Exit, Place
<1>4. TypeOK'
  <2>1. faulted' \subseteq Exchange
    BY DEF Exit, Inv, TypeOK, InFlight
  <2>2. exits' \in 0 .. MaxExits
    BY Constants DEF Exit, Inv, TypeOK
  <2>3. task' \in [Run -> [Exchange -> [stage : Stage, answer : Answer]]]
    BY RowsAreRows DEF Exit
  <2> QED BY <1>3, <2>1, <2>2, <2>3 DEF Exit, Inv, TypeOK, tables, users
<1>5. ASSUME NEW r \in Run PROVE RunOK(r)' /\ Contained(r)'
  <2>1. run[r] \in [pc : Place, rows : SUBSET Exchange, todo : SUBSET Exchange] /\ RunOK(r)
    BY DEF Inv, TypeOK
  <2>2. RunOK(r)'
    BY <1>3, <2>1 DEF RunOK
  <2>3. Contained(r)'
    BY <1>2, NothingInFlight
  <2> QED BY <2>2, <2>3
<1>6. Settled'
  <2> SUFFICES ASSUME redos = 0, NEW r \in Run PROVE Behind(r)'
    BY DEF Settled, Exit
  <2>1. run[r] \in [pc : Place, rows : SUBSET Exchange, todo : SUBSET Exchange]
    BY DEF Inv, TypeOK
  <2>2. CASE r \in Active
    BY <1>3, <2>1, <2>2 DEF Behind
  <2>3. CASE r \notin Active
    <3>1. InFlight(r) = {} \/ run[r].pc # "finished"
      BY DEF Inv, Contained
    <3>2. Behind(r) /\ run'[r] = run[r]
      BY <1>3, <2>3 DEF Inv, Settled
    <3> QED BY <2>3, <3>1, <3>2 DEF Behind, Active, Exit, tables
  <2> QED BY <2>2, <2>3
<1>7. ASSUME NEW e \in Exchange PROVE Local(e)'
  <2>1. Judged(e)' /\ FlagOfPair(e)'
    BY <1>1 DEF Inv, Local, Judged, FlagOfPair, Exit, tables, NoTask, history, Stage2
  <2>2. ASSUME e \notin faulted' PROVE Gap(e)'
    <3>1. Gap(e) /\ \A r \in Run : e \notin InFlight(r)
      BY <2>2 DEF Inv, Local, Exit
    <3>2. quality[e] # NoRow => quality[e].from \in Run
      BY DEF Inv, TypeOK, Quality
    <3>3. \A r \in Run : task[r][e].stage \notin {"chunk", "sft"}
      BY <3>1 DEF InFlight
    <3> QED BY <3>1, <3>2, <3>3 DEF Gap, Exit, tables
  <2> QED BY <2>1, <2>2 DEF Local
<1> QED BY <1>4, <1>5, <1>6, <1>7 DEF Inv

\* A conclusion is deleted while no run is under way.
LEMMA RedoInv ==
    ASSUME Inv, NEW e \in Exchange, Redo(e)
    PROVE  Inv'
<1>1. \A r \in Run : InFlight(r) = {} /\ InFlight(r)' = InFlight(r) /\ run'[r] = run[r]
  BY DEF Redo, Inv, Contained, Active, InFlight
<1>2. TypeOK'
  BY Constants DEF Redo, Inv, TypeOK, users, history
<1>3. \A r \in Run : RunOK(r)' /\ Contained(r)'
  BY <1>1, ContainedSame
<1>4. Settled'
  <2>1. redos' # 0
    BY DEF Redo, Inv, TypeOK
  <2> QED BY <2>1 DEF Settled
<1>5. ASSUME NEW f \in Exchange PROVE Local(f)'
  <2>1. \A r \in Run : task'[r][f] = task[r][f] /\ task[r][f].stage \in {"none", "done"}
    BY <1>1 DEF InFlight, Redo
  <2>2. CASE f # e
    BY <2>1, <2>2, LocalSame DEF Redo, Inv, TypeOK, history
  <2>3. CASE f = e
    <3>1. quality'[f] = NoRow /\ sft'[f] = NoRow
      BY <2>3 DEF Redo, Inv, TypeOK
    <3> QED BY <2>1, <3>1 DEF Local, Judged, Gap, FlagOfPair, history, Stage2
  <2> QED BY <2>2, <2>3
<1> QED BY <1>2, <1>3, <1>4, <1>5 DEF Inv

\* Nothing but http_exchange, or nothing at all.
LEMMA ArriveInv ==
    ASSUME Inv, facts' \subseteq Exchange,
           UNCHANGED <<tables, users, cursor, current, run, task, history, bounds>>
    PROVE  Inv'
<1>1. TypeOK'
  BY DEF Inv, TypeOK, tables, users, bounds, history
<1>2. \A r \in Run : InFlight(r)' = InFlight(r) /\ run'[r] = run[r]
  BY DEF InFlight
<1>3. \A r \in Run : RunOK(r)' /\ Contained(r)'
  BY <1>2, ContainedSame
<1>4. Settled'
  BY <1>2 DEF Inv, Settled, Behind, tables, bounds, history
<1>5. \A e \in Exchange : Local(e)'
  BY LocalSame DEF tables, history
<1> QED BY <1>1, <1>3, <1>4, <1>5 DEF Inv

LEMMA NextInv == Inv /\ [Next]_vars => Inv'
<1> SUFFICES ASSUME Inv, [Next]_vars PROVE Inv'
  OBVIOUS
<1>1. ASSUME NEW e \in Exchange, Arrive(e) PROVE Inv'
  BY <1>1, ArriveInv DEF Arrive, Inv, TypeOK
<1>2. ASSUME NEW e \in Exchange, Redo(e) PROVE Inv'
  BY <1>2, RedoInv
<1>3. ASSUME NEW r \in Run, Start(r) \/ RunStep(r) PROVE Inv'
  BY <1>3, StartInv, ListPendingInv, ListFailsInv, GateRejectsInv, SpawnInv, ConcludeInv
     DEF RunStep
<1>4. ASSUME NEW r \in Run, NEW e \in Exchange, Discard(r, e) \/ ModelFails(r, e) PROVE Inv'
  BY <1>4, ConclusionInv DEF Discard, ModelFails
<1>5. ASSUME NEW r \in Run, NEW e \in Exchange, TaskStep(r, e) PROVE Inv'
  BY <1>4, <1>5, JudgeInv, TaskFailsInv, InsertChunkInv, InsertSFTInv, UserProfilingInv, ExitInv
     DEF TaskStep, Panic
<1>6. CASE UNCHANGED vars
  BY <1>6, ArriveInv DEF vars, Inv, TypeOK
<1> QED
  BY <1>1, <1>2, <1>3, <1>5, <1>6, ExitInv DEF Next

----------------------------------------------------------------------------
(***************************************************************************)
(* Inv holds of every behaviour, whatever runs overlap, statements fail    *)
(* and processes exit.                                                     *)
(***************************************************************************)
THEOREM Invariance == Spec => []Inv
  BY InitInv, NextInv, PTL DEF Spec

\* The tables, the runs and their goroutines have their types.
THEOREM TypeCorrect == Spec => []TypeOK
<1>1. Inv => TypeOK
  BY DEF Inv
<1> QED BY <1>1, Invariance, PTL

\* The semaphore and the WaitGroup of RunOnce do what they are for.
THEOREM GoroutinesAreContained == Spec => []GoroutinesContained
<1>1. Inv => GoroutinesContained
  BY DEF Inv, Contained, GoroutinesContained
<1> QED BY <1>1, Invariance, PTL

(***************************************************************************)
(* A finished run has settled what it listed, as long as nobody has        *)
(* deleted a conclusion for a rerun.                                       *)
(***************************************************************************)
THEOREM FinishedRunsSettle == Spec => []FinishedRunSettles
<1>1. Inv => FinishedRunSettles
  BY DEF Inv, Settled, Behind, RunOK, Contained, FinishedRunSettles
<1> QED BY <1>1, Invariance, PTL

\* An asset the tables lack is on its way, or a failure explains it.
THEOREM AssetGapsAreExplained == Spec => []AssetGapsExplained
<1>1. Inv => AssetGapsExplained
  BY DEF Inv, Local, Gap, AssetGapsExplained
<1> QED BY <1>1, Invariance, PTL

\* The view exports pairs that their own answer called eligible.
THEOREM ExportedPairsEligible == Spec => []ExportedPairEligible
<1>1. Inv => ExportedPairEligible
  BY DEF Inv, Local, FlagOfPair, SFTExport, ExportedPairEligible
<1> QED BY <1>1, Invariance, PTL

----------------------------------------------------------------------------
(***************************************************************************)
(* Where the rows come from, whatever runs overlap.  Two runs under way    *)
(* are beside each other, and so are a run and the one the Worker names.   *)
(* The rows of an exchange a run has still to judge come from runs beside  *)
(* it, because there was no row when it listed the exchange; past Judge    *)
(* they may be its own.                                                    *)
(***************************************************************************)
Rows(e) == {quality[e], chunk[e], sft[e]} \ {NoRow}

ToJudge(r, e) == (run[r].pc = "looping" /\ e \in run[r].todo) \/ task[r][e].stage = "started"
ToStore(r, e) == task[r][e].stage \in {"chunk", "sft"}

Known(e) ==
    \A r \in Run, row \in Rows(e) :
        /\ ToJudge(r, e) => <<r, row.from>> \in beside
        /\ ToStore(r, e) => SameOrBeside(r, row.from)

Attributed(e) == \A row \in Rows(e) : SameOrBeside(row.from, row.run)

Matched(e) ==
    \A row \in {chunk[e], sft[e]} \ {NoRow} :
        quality[e] # NoRow /\ SameOrBeside(quality[e].from, row.from)

Origin(e) == Known(e) /\ Attributed(e) /\ Matched(e)

Meetings ==
    /\ \A p, q \in Run : <<p, q>> \in beside => <<q, p>> \in beside
    /\ \A p, q \in Active : SameOrBeside(p, q)
    /\ \A p \in Active : SameOrBeside(p, current)

OverlapInv == Inv /\ Meetings /\ \A e \in Exchange : Origin(e)

\* A run that has an exchange to judge or to store is under way.
LEMMA WriterActive ==
    ASSUME Inv, NEW r \in Run, NEW e \in Exchange, ToJudge(r, e) \/ ToStore(r, e)
    PROVE  r \in Active
<1>1. e \in InFlight(r) \/ run[r].pc = "looping"
  BY DEF ToJudge, ToStore, InFlight
<1> QED BY <1>1 DEF Inv, Contained, Active

\* A row names a run as its origin.
LEMMA RowTypes ==
    ASSUME Inv, NEW e \in Exchange
    PROVE  \A row \in Rows(e) : row.from \in Run
  BY DEF Inv, TypeOK, Rows, Quality, Chunk, SFT

\* A step that writes no row of e, and gives no run e to judge or to store
\* unless it has no rows.
LEMMA OriginKept ==
    ASSUME OverlapInv, NEW e \in Exchange,
           beside \subseteq beside', Rows(e)' = Rows(e), Matched(e)',
           \A r \in Run : ToJudge(r, e)' => ToJudge(r, e) \/ Rows(e) = {},
           \A r \in Run : ToStore(r, e)' => ToStore(r, e)
    PROVE  Origin(e)'
<1>1. Known(e)' /\ Attributed(e)'
  BY DEF OverlapInv, Origin, Known, Attributed, SameOrBeside
<1> QED BY <1>1 DEF Origin

(***************************************************************************)
(* A step of q about e: a row of e it writes is its own, and carries the   *)
(* id the Worker has.                                                      *)
(***************************************************************************)
LEMMA OriginStep ==
    ASSUME OverlapInv, Inv', NEW q \in Active, NEW e \in Exchange,
           UNCHANGED <<current, beside>>,
           \A r \in Run : run'[r].pc = run[r].pc /\ run'[r].todo \subseteq run[r].todo,
           \A r \in Run, f \in Exchange : r # q \/ f # e => task'[r][f] = task[r][f],
           \A f \in Exchange : f # e => /\ quality'[f] = quality[f]
                                        /\ chunk'[f] = chunk[f] /\ sft'[f] = sft[f],
           \A row \in Rows(e)' : row \in Rows(e) \/ (row.from = q /\ row.run = current),
           ToJudge(q, e)' => ToJudge(q, e) /\ Rows(e)' = Rows(e),
           ToStore(q, e)' => ToJudge(q, e) \/ ToStore(q, e),
           Matched(e)'
    PROVE  OverlapInv'
<1>1. q \in Run /\ Active' = Active
  BY DEF Active
<1>2. Meetings'
  BY <1>1 DEF OverlapInv, Meetings, SameOrBeside
<1>3. ASSUME NEW f \in Exchange, f # e PROVE Origin(f)'
  <2>1. Rows(f)' = Rows(f) /\ Matched(f)'
    BY <1>3 DEF Rows, OverlapInv, Origin, Matched, SameOrBeside
  <2>2. \A r \in Run : (ToJudge(r, f)' => ToJudge(r, f)) /\ (ToStore(r, f)' => ToStore(r, f))
    BY <1>3 DEF ToJudge, ToStore
  <2> QED BY <2>1, <2>2, OriginKept
<1>4. Attributed(e)'
  <2>1. SameOrBeside(q, current)
    BY DEF OverlapInv, Meetings
  <2> QED BY <2>1 DEF OverlapInv, Origin, Attributed, SameOrBeside
<1>5. ASSUME NEW r \in Run, NEW row \in Rows(e)'
      PROVE  /\ ToJudge(r, e)' => <<r, row.from>> \in beside'
             /\ ToStore(r, e)' => SameOrBeside(r, row.from)'
  <2>1. CASE r # q
    <3>1. (ToJudge(r, e)' => ToJudge(r, e)) /\ (ToStore(r, e)' => ToStore(r, e))
      BY <2>1 DEF ToJudge, ToStore
    <3>2. ToJudge(r, e) \/ ToStore(r, e) => <<r, q>> \in beside
      BY <1>1, <2>1, WriterActive DEF OverlapInv, Meetings, SameOrBeside
    <3> QED BY <3>1, <3>2 DEF OverlapInv, Origin, Known, SameOrBeside
  <2>2. CASE r = q
    BY <2>2 DEF OverlapInv, Origin, Known, SameOrBeside
  <2> QED BY <2>1, <2>2
<1>6. Origin(e)'
  BY <1>4, <1>5 DEF Origin, Known
<1> QED BY <1>2, <1>3, <1>6 DEF OverlapInv

\* A verdict of r about an exchange it has to judge.
LEMMA VerdictRows ==
    ASSUME OverlapInv, NEW r \in Run, NEW e \in Exchange, ToJudge(r, e),
           NEW status, NEW a, PutQuality(r, e, status, a),
           UNCHANGED <<chunk, sft, beside>>
    PROVE  /\ Matched(e)'
           /\ \A row \in Rows(e)' : row \in Rows(e) \/ (row.from = r /\ row.run = current)
           /\ \A f \in Exchange : f # e => quality'[f] = quality[f]
<1>1. /\ quality'[e] = [status |-> status, answer |-> a, from |-> r, run |-> current]
      /\ \A f \in Exchange : f # e => quality'[f] = quality[f]
  BY DEF PutQuality, OverlapInv, Inv, TypeOK
<1>2. quality'[e] # NoRow /\ quality'[e].from = r /\ quality'[e].run = current
  BY <1>1 DEF NoRow
<1>3. \A row \in {chunk[e], sft[e]} \ {NoRow} : <<r, row.from>> \in beside
  BY DEF OverlapInv, Origin, Known, Rows
<1> QED BY <1>1, <1>2, <1>3 DEF Rows, Matched, SameOrBeside

LEMMA GateRejectsOrigin ==
    ASSUME OverlapInv, Inv', NEW r \in Run, NEW e \in Exchange, GateRejects(r, e)
    PROVE  OverlapInv'
<1>1. /\ e \in run[r].todo /\ run[r].pc = "looping"
      /\ run'[r].pc = "looping" /\ run'[r].todo = run[r].todo \ {e}
      /\ \A q \in Run : q # r => run'[q] = run[q]
  BY NextRowFacts DEF GateRejects, OverlapInv
<1>2. e \notin InFlight(r)
  BY <1>1 DEF OverlapInv, Inv, Contained
<1>3. /\ ToJudge(r, e) /\ ~ToJudge(r, e)' /\ ~ToStore(r, e)' /\ r \in Active
      /\ UNCHANGED <<chunk, sft, current, task, beside>>
  BY <1>1, <1>2 DEF ToJudge, ToStore, InFlight, Active, GateRejects
<1>4. \A q \in Run : run'[q].pc = run[q].pc /\ run'[q].todo \subseteq run[q].todo
  BY <1>1
<1>5. CASE PutQuality(r, e, "skipped_gate", NoAnswer)
  BY <1>3, <1>4, <1>5, VerdictRows, OriginStep
<1>6. CASE UNCHANGED quality
  <2>1. Rows(e)' = Rows(e) /\ Matched(e)'
    BY <1>3, <1>6 DEF Rows, OverlapInv, Origin, Matched, SameOrBeside
  <2> QED BY <1>3, <1>4, <1>6, <2>1, OriginStep
<1> QED BY <1>5, <1>6 DEF GateRejects

LEMMA SpawnOrigin ==
    ASSUME OverlapInv, Inv', NEW r \in Run, NEW e \in Exchange, Spawn(r, e)
    PROVE  OverlapInv'
<1>1. /\ e \in run[r].todo /\ run[r].pc = "looping"
      /\ run'[r].pc = "looping" /\ run'[r].todo = run[r].todo \ {e}
      /\ \A q \in Run : q # r => run'[q] = run[q]
  BY NextRowFacts DEF Spawn, OverlapInv
<1>2. /\ task'[r][e].stage = "started"
      /\ \A q \in Run, f \in Exchange : q # r \/ f # e => task'[q][f] = task[q][f]
  BY DEF Spawn, OverlapInv, Inv, TypeOK
<1>3. /\ ToJudge(r, e) /\ ~ToStore(r, e)' /\ r \in Active
      /\ UNCHANGED <<quality, chunk, sft, current, beside>>
  BY <1>1, <1>2 DEF ToJudge, ToStore, Active, Spawn, tables, history
<1>4. \A q \in Run : run'[q].pc = run[q].pc /\ run'[q].todo \subseteq run[q].todo
  BY <1>1
<1>5. Rows(e)' = Rows(e) /\ Matched(e)'
  BY <1>3 DEF Rows, OverlapInv, Origin, Matched, SameOrBeside
<1> QED BY <1>2, <1>3, <1>4, <1>5, OriginStep

\* What a goroutine does to its task, and that it belongs to a run under way.
LEMMA TaskOrigin ==
    ASSUME OverlapInv, NEW r \in Run, NEW e \in Exchange, e \in InFlight(r),
           NEW t \in [stage : Stage, answer : Answer], Puts(r, e, t)
    PROVE  /\ r \in Active /\ e \notin run[r].todo
           /\ \A q \in Run, f \in Exchange : q # r \/ f # e => task'[q][f] = task[q][f]
           /\ UNCHANGED run /\ t.stage # "started" => ~ToJudge(r, e)'
           /\ ToStore(r, e)' <=> t.stage \in {"chunk", "sft"}
<1>1. task'[r][e] = t
      /\ \A q \in Run, f \in Exchange : q # r \/ f # e => task'[q][f] = task[q][f]
  BY TaskPut DEF OverlapInv
<1>2. run[r].pc = "looping" /\ e \notin run[r].todo
  BY DEF OverlapInv, Inv, Contained
<1> QED BY <1>1, <1>2 DEF Active, ToJudge, ToStore

LEMMA VerdictOrigin ==
    ASSUME OverlapInv, Inv', NEW r \in Run, NEW e \in Exchange,
           Discard(r, e) \/ ModelFails(r, e) \/ Judge(r, e)
    PROVE  OverlapInv'
<1>1. \E status, a : PutQuality(r, e, status, a)
  BY DEF Discard, ModelFails, Judge
<1>2. /\ task[r][e].stage = "started"
      /\ UNCHANGED <<chunk, sft, current, run, beside>>
  BY DEF Discard, ModelFails, Judge, history
<1>3. PICK t \in [stage : Stage, answer : Answer] : Puts(r, e, t) /\ t.stage # "started"
  <2>1. CASE Discard(r, e) \/ ModelFails(r, e)
    BY <2>1, Advanced DEF Discard, ModelFails, Stage, OverlapInv
  <2>2. CASE Judge(r, e)
    <3>1. PICK raw \in Answers :
             LET a == [raw EXCEPT !.tier = NormalizeTier(@)]
             IN  task' = [task EXCEPT ![r][e] =
                             IF a.tier = "A" THEN [stage |-> "chunk", answer |-> a]
                                             ELSE [NoTask EXCEPT !.stage = "done"]]
      BY <2>2 DEF Judge
    <3> DEFINE a == [raw EXCEPT !.tier = NormalizeTier(@)]
               t == IF a.tier = "A" THEN [stage |-> "chunk", answer |-> a]
                    ELSE [NoTask EXCEPT !.stage = "done"]
    <3>2. raw \in Answer
      BY AnswersAssumption
    <3>3. a \in Answer
      BY <3>2 DEF Answer, NormalizeTier
    <3>4. t \in [stage : Stage, answer : Answer] /\ t.stage # "started"
      BY <3>3, RowsAreRows DEF NoTask, Stage
    <3>5. Puts(r, e, t)
      BY <3>1 DEF Puts
    <3> QED BY <3>4, <3>5
  <2> QED BY <2>1, <2>2
<1>4. ToJudge(r, e) /\ e \in InFlight(r)
  BY <1>2 DEF ToJudge, InFlight
<1>5. /\ r \in Active /\ ~ToJudge(r, e)'
      /\ \A q \in Run, f \in Exchange : q # r \/ f # e => task'[q][f] = task[q][f]
  BY <1>2, <1>3, <1>4, TaskOrigin
<1>6. /\ Matched(e)'
      /\ \A row \in Rows(e)' : row \in Rows(e) \/ (row.from = r /\ row.run = current)
      /\ \A f \in Exchange : f # e => quality'[f] = quality[f]
  BY <1>1, <1>2, <1>4, VerdictRows
<1> QED BY <1>2, <1>4, <1>5, <1>6, OriginStep

\* A goroutine that leaves the tables as they are.
LEMMA QuietOrigin ==
    ASSUME OverlapInv, Inv', NEW r \in Run, NEW e \in Exchange,
           \/ TaskFails(r, e) \/ CallFails(r, e) \/ CheckUser(r, e)
           \/ ReadRecent(r, e) \/ AskProfile(r, e) \/ UpsertProfile(r, e)
    PROVE  OverlapInv'
<1>1. \E s \in Stage2 \cup {"done"} : Advance(r, e, s)
  BY DEF TaskFails, CallFails, CheckUser, ReadRecent, AskProfile, UpsertProfile, Returns, Stage2
<1>2. PICK t \in [stage : Stage, answer : Answer] :
         Puts(r, e, t) /\ t.stage \in Stage2 \cup {"done"}
  BY <1>1, Advanced DEF Stage, Stage2, OverlapInv
<1>3. UNCHANGED <<quality, chunk, sft, current, run, beside>>
  BY DEF TaskFails, CallFails, CheckUser, ReadRecent, AskProfile, UpsertProfile, tables, history
<1>4. e \in InFlight(r)
  BY DEF TaskFails, CallFails, CheckUser, ReadRecent, AskProfile, UpsertProfile, InFlight
<1>5. t.stage \notin {"started", "chunk", "sft"}
  BY <1>2 DEF Stage2
<1>6. /\ r \in Active /\ ~ToJudge(r, e)' /\ ~ToStore(r, e)'
      /\ \A q \in Run, f \in Exchange : q # r \/ f # e => task'[q][f] = task[q][f]
  BY <1>2, <1>3, <1>4, <1>5, TaskOrigin
<1>7. Rows(e)' = Rows(e) /\ Matched(e)'
  BY <1>3 DEF Rows, OverlapInv, Origin, Matched, SameOrBeside
<1> QED BY <1>3, <1>6, <1>7, OriginStep

\* An asset joins a quality row of its own run, or of one beside it.
LEMMA InsertChunkOrigin ==
    ASSUME OverlapInv, Inv', NEW r \in Run, NEW e \in Exchange, InsertChunk(r, e)
    PROVE  OverlapInv'
<1>1. PICK t \in [stage : Stage, answer : Answer] : Puts(r, e, t) /\ t.stage = "sft"
  BY Advanced DEF Stage, OverlapInv, InsertChunk
<1>2. /\ e \in InFlight(r) /\ ToStore(r, e) /\ task[r][e].stage = "chunk"
      /\ UNCHANGED <<quality, sft, current, run, beside>>
  BY DEF InsertChunk, InFlight, ToStore
<1>3. /\ r \in Active /\ ~ToJudge(r, e)'
      /\ \A q \in Run, f \in Exchange : q # r \/ f # e => task'[q][f] = task[q][f]
  BY <1>1, <1>2, TaskOrigin
<1>4. quality[e] # NoRow /\ quality[e].from \in Run /\ SameOrBeside(quality[e].from, r)
  <2>1. quality[e] # NoRow
    BY <1>2 DEF OverlapInv, Inv, Local, Judged
  <2>2. quality[e] \in Rows(e) /\ quality[e].from \in Run
    BY <2>1, RowTypes DEF Rows, OverlapInv
  <2>3. SameOrBeside(r, quality[e].from)
    BY <1>2, <2>2 DEF OverlapInv, Origin, Known
  <2> QED BY <2>1, <2>2, <2>3 DEF OverlapInv, Meetings, SameOrBeside
<1>5. /\ \A f \in Exchange : f # e => chunk'[f] = chunk[f]
      /\ chunk'[e] = chunk[e] \/ (chunk'[e].from = r /\ chunk'[e].run = current)
  BY DEF InsertChunk, OverlapInv, Inv, TypeOK
<1>6. Matched(e)'
  BY <1>2, <1>4, <1>5 DEF OverlapInv, Origin, Matched, SameOrBeside
<1>7. \A row \in Rows(e)' : row \in Rows(e) \/ (row.from = r /\ row.run = current)
  BY <1>2, <1>5 DEF Rows
<1> QED BY <1>2, <1>3, <1>5, <1>6, <1>7, OriginStep

LEMMA InsertSFTOrigin ==
    ASSUME OverlapInv, Inv', NEW r \in Run, NEW e \in Exchange, InsertSFT(r, e)
    PROVE  OverlapInv'
<1>1. PICK t \in [stage : Stage, answer : Answer] : Puts(r, e, t) /\ t.stage = "check"
  BY Advanced DEF Stage, OverlapInv, InsertSFT
<1>2. /\ e \in InFlight(r) /\ ToStore(r, e) /\ task[r][e].stage = "sft"
      /\ UNCHANGED <<quality, chunk, current, run, beside>>
  BY DEF InsertSFT, InFlight, ToStore
<1>3. /\ r \in Active /\ ~ToJudge(r, e)'
      /\ \A q \in Run, f \in Exchange : q # r \/ f # e => task'[q][f] = task[q][f]
  BY <1>1, <1>2, TaskOrigin
<1>4. quality[e] # NoRow /\ quality[e].from \in Run /\ SameOrBeside(quality[e].from, r)
  <2>1. quality[e] # NoRow
    BY <1>2 DEF OverlapInv, Inv, Local, Judged
  <2>2. quality[e] \in Rows(e) /\ quality[e].from \in Run
    BY <2>1, RowTypes DEF Rows, OverlapInv
  <2>3. SameOrBeside(r, quality[e].from)
    BY <1>2, <2>2 DEF OverlapInv, Origin, Known
  <2> QED BY <2>1, <2>2, <2>3 DEF OverlapInv, Meetings, SameOrBeside
<1>5. /\ \A f \in Exchange : f # e => sft'[f] = sft[f]
      /\ sft'[e] = sft[e] \/ (sft'[e].from = r /\ sft'[e].run = current)
  BY DEF InsertSFT, OverlapInv, Inv, TypeOK
<1>6. Matched(e)'
  BY <1>2, <1>4, <1>5 DEF OverlapInv, Origin, Matched, SameOrBeside
<1>7. \A row \in Rows(e)' : row \in Rows(e) \/ (row.from = r /\ row.run = current)
  BY <1>2, <1>5 DEF Rows
<1> QED BY <1>2, <1>3, <1>5, <1>6, <1>7, OriginStep

\* A step that leaves tables and goroutines alone, and lists exchanges
\* without a row at most.
LEMMA OriginStays ==
    ASSUME OverlapInv, Inv', beside \subseteq beside', Meetings',
           UNCHANGED <<quality, chunk, sft>>,
           \A r \in Run, e \in Exchange : ToJudge(r, e)' => ToJudge(r, e) \/ Rows(e) = {},
           \A r \in Run, e \in Exchange : ToStore(r, e)' => ToStore(r, e)
    PROVE  OverlapInv'
<1>1. ASSUME NEW e \in Exchange PROVE Origin(e)'
  <2>1. Rows(e)' = Rows(e) /\ Matched(e)'
    BY DEF Rows, OverlapInv, Origin, Matched, SameOrBeside
  <2> QED BY <2>1, OriginKept
<1> QED BY <1>1 DEF OverlapInv

LEMMA StartOrigin ==
    ASSUME OverlapInv, Inv', NEW r \in Run, Start(r)
    PROVE  OverlapInv'
<1>1. /\ run[r].pc = "idle" /\ run'[r].pc = "started"
      /\ \A q \in Run : q # r => run'[q] = run[q]
  BY DEF Start, OverlapInv, Inv, TypeOK
<1>2. /\ r \notin Active /\ Active' = Active \cup {r}
      /\ current' = r
      /\ beside' = beside \cup ({r} \X Active) \cup (Active \X {r})
  BY <1>1 DEF Active, Start, MeetsActive
<1>3. Meetings'
  BY <1>2 DEF OverlapInv, Meetings, SameOrBeside
<1>4. UNCHANGED <<quality, chunk, sft, task>>
  BY DEF Start, tables
<1> QED BY <1>1, <1>2, <1>3, <1>4, OriginStays DEF ToJudge, ToStore

\* A run that lists, or ends.
LEMMA LoopOrigin ==
    ASSUME OverlapInv, Inv', NEW r \in Run, ListPending(r) \/ ListFails(r) \/ Conclude(r)
    PROVE  OverlapInv'
<1>1. UNCHANGED <<quality, chunk, sft, current, task, beside>>
  BY DEF ListPending, ListFails, Conclude, tables, history
<1>2. \A q \in Run : q # r => run'[q] = run[q]
  BY DEF ListPending, ListFails, Conclude, OverlapInv, Inv, TypeOK
<1>3. r \in Active
  BY DEF ListPending, ListFails, Conclude, Active
<1>4. Meetings'
  BY <1>1, <1>2, <1>3 DEF OverlapInv, Meetings, SameOrBeside, Active
<1>5. ASSUME NEW e \in Exchange, run'[r].pc = "looping" /\ e \in run'[r].todo
      PROVE  Rows(e) = {}
  <2>1. ListPending(r)
    BY <1>5 DEF ListFails, Conclude, OverlapInv, Inv, TypeOK
  <2>2. e \in Pending
    BY <1>5, <2>1 DEF ListPending, Oldest, OverlapInv, Inv, TypeOK
  <2> QED BY <2>2 DEF Pending, Rows, OverlapInv, Origin, Matched
<1> QED BY <1>1, <1>2, <1>4, <1>5, OriginStays DEF ToJudge, ToStore

LEMMA ExitOrigin ==
    ASSUME OverlapInv, Inv', Exit
    PROVE  OverlapInv'
<1>1. \A r \in Run : run'[r].pc \notin {"started", "looping"}
  BY DEF Exit, Active, OverlapInv, Inv, TypeOK
<1>2. \A r \in Run, e \in Exchange : ~ToJudge(r, e)' /\ ~ToStore(r, e)'
  BY <1>1 DEF Exit, ToJudge, ToStore, NoTask
<1>3. UNCHANGED <<quality, chunk, sft, beside>>
  BY DEF Exit, tables
<1>4. Meetings'
  BY <1>1, <1>3 DEF OverlapInv, Meetings, Active
<1> QED BY <1>2, <1>3, <1>4, OriginStays

LEMMA RedoOrigin ==
    ASSUME OverlapInv, Inv', NEW e \in Exchange, Redo(e)
    PROVE  OverlapInv'
<1>1. UNCHANGED <<current, run, task, beside>> /\ Active = {}
  BY DEF Redo, history
<1>2. Meetings'
  BY <1>1 DEF OverlapInv, Meetings, Active
<1>3. ASSUME NEW f \in Exchange PROVE Origin(f)'
  <2>1. CASE f = e
    <3>1. Rows(f)' = {} /\ quality'[f] = NoRow /\ chunk'[f] = NoRow /\ sft'[f] = NoRow
      BY <2>1 DEF Redo, Rows, OverlapInv, Inv, TypeOK
    <3> QED BY <3>1 DEF Origin, Known, Attributed, Matched
  <2>2. CASE f # e
    <3>1. quality'[f] = quality[f] /\ chunk'[f] = chunk[f] /\ sft'[f] = sft[f]
      BY <2>2 DEF Redo, OverlapInv, Inv, TypeOK
    <3>2. Rows(f)' = Rows(f) /\ Matched(f)'
      BY <1>1, <3>1 DEF Rows, OverlapInv, Origin, Matched, SameOrBeside
    <3>3. \A r \in Run : (ToJudge(r, f)' => ToJudge(r, f)) /\ (ToStore(r, f)' => ToStore(r, f))
      BY <1>1 DEF ToJudge, ToStore
    <3> QED BY <1>1, <3>2, <3>3, OriginKept
  <2> QED BY <2>1, <2>2
<1> QED BY <1>2, <1>3 DEF OverlapInv

\* A step that is about other things.
LEMMA OtherOrigin ==
    ASSUME OverlapInv, Inv', UNCHANGED <<tables, current, run, task, history>>
    PROVE  OverlapInv'
<1>1. Meetings'
  BY DEF OverlapInv, Meetings, SameOrBeside, Active, history
<1> QED BY <1>1, OriginStays DEF ToJudge, ToStore, tables, history

LEMMA InitOrigin == Init => OverlapInv
<1> SUFFICES ASSUME Init PROVE OverlapInv
  OBVIOUS
<1>1. Meetings
  BY DEF Init, Meetings, Active
<1>2. \A e \in Exchange : Origin(e)
  BY DEF Init, Origin, Known, Attributed, Matched, Rows
<1> QED BY <1>1, <1>2, InitInv DEF OverlapInv

LEMMA NextOrigin == OverlapInv /\ [Next]_vars => OverlapInv'
<1> SUFFICES ASSUME OverlapInv, [Next]_vars PROVE OverlapInv'
  OBVIOUS
<1>0. Inv'
  BY NextInv DEF OverlapInv
<1>1. ASSUME NEW e \in Exchange, Arrive(e) \/ Redo(e) PROVE OverlapInv'
  BY <1>0, <1>1, OtherOrigin, RedoOrigin DEF Arrive
<1>2. ASSUME NEW r \in Run, Start(r) \/ RunStep(r) PROVE OverlapInv'
  BY <1>0, <1>2, StartOrigin, LoopOrigin, GateRejectsOrigin, SpawnOrigin DEF RunStep
<1>3. ASSUME NEW r \in Run, NEW e \in Exchange, TaskStep(r, e) PROVE OverlapInv'
  BY <1>0, <1>3, VerdictOrigin, QuietOrigin, InsertChunkOrigin, InsertSFTOrigin, ExitOrigin
     DEF TaskStep, Panic
<1>4. CASE UNCHANGED vars
  BY <1>0, <1>4, OtherOrigin DEF vars
<1> QED
  BY <1>0, <1>1, <1>2, <1>3, <1>4, ExitOrigin DEF Next

----------------------------------------------------------------------------
(***************************************************************************)
(* OverlapInv holds of every behaviour, for any number of runs under way   *)
(* at the same time.                                                       *)
(***************************************************************************)
THEOREM OverlapInvariance == Spec => []OverlapInv
  BY InitOrigin, NextOrigin, PTL DEF Spec

\* profile_run_id names the run that produced a row, or one beside it.
THEOREM RowsAreAttributed == Spec => []AttributedToItsRun
<1>1. OverlapInv => AttributedToItsRun
  BY DEF OverlapInv, Origin, Attributed, Rows, AttributedToItsRun
<1> QED BY <1>1, OverlapInvariance, PTL

\* The assets of an exchange and its verdict come from one answer, or from
\* the answers of two runs beside each other.
THEOREM AssetsMatch == Spec => []AssetsMatchQuality
<1>1. OverlapInv => AssetsMatchQuality
  BY DEF OverlapInv, Origin, Matched, AssetsMatchQuality
<1> QED BY <1>1, OverlapInvariance, PTL

(***************************************************************************)
(* A verdict is replaced only by that of a run beside the one that gave    *)
(* it; a later run judges an exchange again only when the operator has     *)
(* deleted its conclusion.                                                 *)
(***************************************************************************)
THEOREM JudgedOnce ==
    Spec => [][\A e \in Exchange :
                  quality[e] # NoRow /\ quality'[e] # quality[e] /\ redos' = redos =>
                      <<quality'[e].from, quality[e].from>> \in beside]_vars
<1> DEFINE Kept(e) == quality[e] # NoRow /\ quality'[e] # quality[e] /\ redos' = redos =>
                          <<quality'[e].from, quality[e].from>> \in beside
           AllKept == \A e \in Exchange : Kept(e)
<1>1. OverlapInv /\ [Next]_vars => [AllKept]_vars
  <2> SUFFICES ASSUME OverlapInv, Next PROVE AllKept
    OBVIOUS
  <2>1. ASSUME NEW r \in Run, NEW e \in Exchange, ToJudge(r, e),
               NEW status, NEW a, PutQuality(r, e, status, a)
        PROVE  AllKept
    <3>1. /\ quality'[e] = [status |-> status, answer |-> a, from |-> r, run |-> current]
          /\ \A f \in Exchange : f # e => quality'[f] = quality[f]
      BY <2>1 DEF PutQuality, OverlapInv, Inv, TypeOK
    <3>2. quality[e] # NoRow => <<r, quality[e].from>> \in beside
      BY <2>1 DEF OverlapInv, Origin, Known, Rows
    <3> QED BY <3>1, <3>2
  <2>2. ASSUME UNCHANGED quality PROVE AllKept
    BY <2>2
  <2>3. ASSUME NEW r \in Run, NEW e \in Exchange, GateRejects(r, e) PROVE AllKept
    <3>1. ToJudge(r, e)
      BY <2>3, NextRowFacts DEF GateRejects, OverlapInv, ToJudge
    <3> QED BY <2>1, <2>2, <2>3, <3>1 DEF GateRejects
  <2>4. ASSUME NEW r \in Run, NEW e \in Exchange, TaskStep(r, e) PROVE AllKept
    <3>1. CASE Discard(r, e) \/ ModelFails(r, e) \/ Judge(r, e)
      BY <2>1, <3>1 DEF Discard, ModelFails, Judge, ToJudge
    <3>2. CASE ~(Discard(r, e) \/ ModelFails(r, e) \/ Judge(r, e))
      BY <2>2, <2>4, <3>2 DEF TaskStep, TaskFails, InsertChunk, InsertSFT, CallFails, CheckUser,
         ReadRecent, AskProfile, UpsertProfile, Panic, Exit, tables
    <3> QED BY <3>1, <3>2
  <2>5. ASSUME NEW r \in Run, Start(r) \/ RunStep(r) PROVE AllKept
    BY <2>2, <2>3, <2>5 DEF Start, RunStep, ListPending, ListFails, Spawn, Conclude, tables
  <2>6. ASSUME NEW e \in Exchange, Arrive(e) PROVE AllKept
    BY <2>2, <2>6 DEF Arrive, tables
  <2>7. ASSUME NEW e \in Exchange, Redo(e) PROVE AllKept
    BY <2>7 DEF Redo, OverlapInv, Inv, TypeOK
  <2>8. CASE Exit
    BY <2>2, <2>8 DEF Exit, tables
  <2> QED BY <2>3, <2>4, <2>5, <2>6, <2>7, <2>8 DEF Next
<1> HIDE DEF AllKept
<1>2. Spec => [][AllKept]_vars
  BY <1>1, OverlapInvariance, PTL DEF Spec
<1> QED BY <1>2 DEF AllKept
=============================================================================
