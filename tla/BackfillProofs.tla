--------------------------- MODULE BackfillProofs ---------------------------
(***************************************************************************)
(* Backfill proved for any number of rows and logs and any limits: whose   *)
(* log an enrichment is made from, and that no call takes one away.        *)
(***************************************************************************)
EXTENDS Backfill, WellFoundedInduction, TLAPS

(***************************************************************************)
(* What makes EnrichedByOwnLog inductive: between the lookup and the       *)
(* update, the log in hand is one of the row the loop is at.               *)
(***************************************************************************)
InHand(c) ==
    /\ call[c].todo \subseteq linked
    /\ call[c].found # NoLog =>
          /\ call[c].found.of = Newest(call[c].todo)
          /\ call[c].found.of \in Rows
          /\ call[c].found.id \in 1 .. log[call[c].found.of]

Inv == TypeOK /\ EnrichedByOwnLog /\ \A c \in Callers : InHand(c)

----------------------------------------------------------------------------
\* A batch that is not empty has a newest row.
LEMMA NewestIn ==
    ASSUME NEW todo \in SUBSET Rows, todo # {}
    PROVE  Newest(todo) \in todo
<1> DEFINE left == {n \in Nat : \E r \in todo : n = MaxRow - r}
<1>1. \A r \in todo : r \in Nat /\ MaxRow \in Nat /\ MaxRow - r \in Nat
  BY SizeAssumption DEF Rows
<1>2. left \subseteq Nat /\ left # {}
  BY <1>1
<1>3. PICK n \in left : \A m \in left : ~ (<<m, n>> \in OpToRel(<, Nat))
  BY <1>2, WFMin, NatLessThanWellFounded
<1>4. PICK r \in todo : n = MaxRow - r
  OBVIOUS
<1>5. \A q \in todo : r >= q
  <2> SUFFICES ASSUME NEW q \in todo PROVE r >= q
    OBVIOUS
  <2>1. MaxRow - q \in left
    BY <1>1
  <2>2. ~ (<<MaxRow - q, n>> \in OpToRel(<, Nat))
    BY <1>3, <2>1
  <2>3. ~ (MaxRow - q < n)
    BY <1>1, <1>2, <2>2 DEF OpToRel
  <2> QED BY <1>1, <1>4, <2>3
<1> HIDE DEF left
<1> QED BY <1>5 DEF Newest, Max
\* Rows, logs and their order are naturals.
LEMMA Bounds == Rows \subseteq Nat /\ MaxLogs \in Nat /\ MaxErrors \in Nat /\ MaxRequests \in Nat
  BY SizeAssumption DEF Rows

\* The null values, and that nothing is in hand in a call that is idle.
LEMMA NullTypes ==
    /\ NoLog \in Log
    /\ Idle \in Call /\ Idle.todo = {} /\ Idle.found = NoLog
  BY Bounds DEF NoLog, Log, Idle, Call

LEMMA InitInv == Init => Inv
<1> SUFFICES ASSUME Init PROVE Inv
  OBVIOUS
<1>1. TypeOK
  BY NullTypes, Bounds DEF Init, TypeOK
<1> QED
  BY <1>1, NullTypes DEF Init, Inv, EnrichedByOwnLog, InHand

\* The world moves on: a row is linked, or a log is added.
LEMMA InsertInv ==
    ASSUME Inv, NEW r \in Rows, Insert(r)
    PROVE  Inv'
<1>1. linked \subseteq linked' /\ linked' \subseteq present'
  BY DEF Inv, TypeOK, Insert
<1> QED
  BY <1>1 DEF Inv, TypeOK, EnrichedByOwnLog, InHand, Insert

LEMMA LogAppearsInv ==
    ASSUME Inv, NEW r \in Rows, LogAppears(r)
    PROVE  Inv'
<1>1. log' \in [Rows -> 0 .. MaxLogs] /\ \A q \in Rows : 1 .. log[q] \subseteq 1 .. log'[q]
  BY Bounds DEF Inv, TypeOK, LogAppears
<1> QED
  BY <1>1 DEF Inv, TypeOK, EnrichedByOwnLog, InHand, LogAppears

\* A call is dropped, whatever it held.
LEMMA IdleInv ==
    ASSUME Inv, NEW c \in Callers,
           call' = [call EXCEPT ![c] = Idle],
           UNCHANGED <<present, linked, log, enrich, requests>>,
           errors' \in 0 .. MaxErrors
    PROVE  Inv'
<1>1. Idle \in Call /\ Idle.todo = {} /\ Idle.found = NoLog
  BY NullTypes
<1>2. TypeOK'
  BY <1>1 DEF Inv, TypeOK
<1>3. \A d \in Callers : InHand(d)'
  BY <1>1 DEF Inv, TypeOK, InHand
<1> QED
  BY <1>2, <1>3 DEF Inv, EnrichedByOwnLog

\* A call goes on to its next row.
LEMMA NextRowInv ==
    ASSUME Inv, NEW c \in Callers, NextRow(c),
           UNCHANGED <<present, linked, log, requests>>,
           enrich' \in [Rows -> Log], EnrichedByOwnLog',
           errors' \in 0 .. MaxErrors
    PROVE  Inv'
<1> DEFINE e == [call[c] EXCEPT !.todo = call[c].todo \ {Newest(call[c].todo)},
                                !.found = NoLog]
<1>1. call' = [call EXCEPT ![c] = e]
  BY DEF NextRow, Inv, TypeOK
<1>2. e \in Call /\ e.todo \subseteq call[c].todo /\ e.found = NoLog
  <2>1. call[c] \in Call
    BY DEF Inv, TypeOK
  <2> QED BY <2>1, NullTypes DEF Call
<1> HIDE DEF e
<1>3. TypeOK'
  BY <1>1, <1>2 DEF Inv, TypeOK
<1>4. \A d \in Callers : InHand(d)'
  BY <1>1, <1>2 DEF Inv, TypeOK, InHand
<1> QED
  BY <1>3, <1>4 DEF Inv

LEMMA StartInv ==
    ASSUME Inv, NEW c \in Callers, Start(c)
    PROVE  Inv'
<1> DEFINE e == [Idle EXCEPT !.active = TRUE, !.todo = Batch(Limit[c])]
<1>1. Batch(Limit[c]) \subseteq linked
  BY DEF Batch, Pending
<1>2. e \in Call /\ e.todo \subseteq linked /\ e.found = NoLog
  <2>1. Batch(Limit[c]) \in SUBSET Rows
    BY <1>1 DEF Inv, TypeOK
  <2> QED BY <1>1, <2>1, NullTypes DEF Call, Idle
<1>3. call' = [call EXCEPT ![c] = e]
  BY DEF Start
<1>4. requests' \in 0 .. MaxRequests
  BY Bounds DEF Start, Begins, Inv, TypeOK
<1> HIDE DEF e
<1>5. TypeOK'
  BY <1>2, <1>3, <1>4 DEF Start, Inv, TypeOK
<1>6. \A d \in Callers : InHand(d)'
  BY <1>2, <1>3 DEF Start, Inv, TypeOK, InHand
<1> QED
  BY <1>5, <1>6 DEF Start, Inv, EnrichedByOwnLog

LEMMA FindInv ==
    ASSUME Inv, NEW c \in Callers, Find(c)
    PROVE  Inv'
<1> DEFINE r == Newest(call[c].todo)
           e == [call[c] EXCEPT !.found = [of |-> r, id |-> log[r]]]
<1>1. call[c] \in Call /\ call[c].todo # {} /\ call[c].todo \in SUBSET Rows
  BY DEF Find, Looking, Inv, TypeOK, Call
<1>2. r \in Rows
  BY <1>1, NewestIn
<1>3. log[r] \in 0 .. MaxLogs /\ log[r] > 0 /\ log[r] \in 1 .. log[r]
  BY <1>2, Bounds DEF Find, Inv, TypeOK
<1>4. e \in Call /\ e.todo = call[c].todo /\ e.found = [of |-> r, id |-> log[r]]
  BY <1>1, <1>2, <1>3 DEF Call, Log
<1>5. call' = [call EXCEPT ![c] = e]
  BY DEF Find, Inv, TypeOK
<1> HIDE DEF e, r
<1>6. TypeOK'
  BY <1>1, <1>4, <1>5 DEF Find, Inv, TypeOK
<1>7. \A d \in Callers : InHand(d)'
  <2> SUFFICES ASSUME NEW d \in Callers PROVE InHand(d)'
    OBVIOUS
  <2>1. CASE d = c
    <3>1. call'[d] = e /\ UNCHANGED <<linked, log>>
      BY <1>5, <2>1 DEF Find, Inv, TypeOK
    <3>2. Newest(call[c].todo) = r
      BY DEF r
    <3> QED
      BY <1>2, <1>3, <1>4, <2>1, <3>1, <3>2 DEF Inv, InHand
  <2>2. CASE d # c
    BY <1>5, <2>2 DEF Find, Inv, TypeOK, InHand
  <2> QED BY <2>1, <2>2
<1> QED
  BY <1>6, <1>7 DEF Find, Inv, EnrichedByOwnLog

LEMMA UpdateInv ==
    ASSUME Inv, NEW c \in Callers, Update(c)
    PROVE  Inv' /\ \A r \in Rows : enrich[r] # NoLog => enrich'[r] # NoLog
<1> DEFINE f == call[c].found
           r == Newest(call[c].todo)
<1>1. /\ f # NoLog /\ call[c].todo # {} /\ call[c].todo \in SUBSET Rows
      /\ f \in Log /\ f.of = r /\ f.id \in 1 .. log[r]
  BY DEF Update, Inv, TypeOK, Call, InHand
<1>2. r \in call[c].todo /\ r \in Rows /\ r \in linked
  BY <1>1, NewestIn DEF Inv, InHand
<1>3. enrich' = [enrich EXCEPT ![r] = f] /\ NextRow(c)
      /\ UNCHANGED <<present, linked, log, requests, errors>>
  BY DEF Update
<1> HIDE DEF f, r
<1>4. enrich' \in [Rows -> Log]
  BY <1>1, <1>2, <1>3 DEF Inv, TypeOK
<1>5. EnrichedByOwnLog'
  BY <1>1, <1>2, <1>3 DEF Inv, TypeOK, EnrichedByOwnLog
<1>6. errors' \in 0 .. MaxErrors
  BY <1>3 DEF Inv, TypeOK
<1>7. Inv'
  BY <1>3, <1>4, <1>5, <1>6, NextRowInv
<1>8. \A q \in Rows : enrich[q] # NoLog => enrich'[q] # NoLog
  BY <1>1, <1>2, <1>3 DEF Inv, TypeOK
<1> QED BY <1>7, <1>8

(***************************************************************************)
(* One case per action; only Update touches enrich_json.                   *)
(***************************************************************************)
LEMMA NextInv ==
    Inv /\ [Next]_vars =>
        Inv' /\ \A r \in Rows : enrich[r] # NoLog => enrich'[r] # NoLog
<1> SUFFICES ASSUME Inv, [Next]_vars
             PROVE  Inv' /\ \A r \in Rows : enrich[r] # NoLog => enrich'[r] # NoLog
  OBVIOUS
<1> DEFINE Stays == \A r \in Rows : enrich[r] # NoLog => enrich'[r] # NoLog
<1>1. errors < MaxErrors /\ errors' = errors + 1 => errors' \in 0 .. MaxErrors
  BY Bounds DEF Inv, TypeOK
<1>2. ASSUME NEW r \in Rows, Insert(r) PROVE Inv' /\ Stays
  BY <1>2, InsertInv DEF Insert
<1>3. ASSUME NEW r \in Rows, LogAppears(r) PROVE Inv' /\ Stays
  BY <1>3, LogAppearsInv DEF LogAppears
<1>4. ASSUME NEW c \in Callers, Start(c) PROVE Inv' /\ Stays
  BY <1>4, StartInv DEF Start
<1>5. ASSUME NEW c \in Callers, Find(c) PROVE Inv' /\ Stays
  BY <1>5, FindInv DEF Find
<1>6. ASSUME NEW c \in Callers, Miss(c) PROVE Inv' /\ Stays
  BY <1>6, NextRowInv DEF Miss, Inv, TypeOK, EnrichedByOwnLog
<1>7. ASSUME NEW c \in Callers, Update(c) PROVE Inv' /\ Stays
  BY <1>7, UpdateInv
<1>8. ASSUME NEW c \in Callers, Finish(c) PROVE Inv' /\ Stays
  BY <1>8, IdleInv DEF Finish, Inv, TypeOK
<1>9. ASSUME NEW c \in Callers, ListFails(c) PROVE Inv' /\ Stays
  <2>1. errors' \in 0 .. MaxErrors /\ requests' \in 0 .. MaxRequests
    BY <1>1, <1>9, Bounds DEF ListFails, Begins, Inv, TypeOK
  <2> QED
    BY <1>9, <2>1 DEF ListFails, Inv, TypeOK, EnrichedByOwnLog, InHand
<1>10. ASSUME NEW c \in Callers, FindFails(c) \/ UpdateFails(c) PROVE Inv' /\ Stays
  BY <1>1, <1>10, NextRowInv DEF FindFails, UpdateFails, Inv, TypeOK, EnrichedByOwnLog
<1>11. ASSUME NEW c \in Callers, Cancel(c) PROVE Inv' /\ Stays
  BY <1>1, <1>11, IdleInv DEF Cancel
<1>12. ASSUME Restart PROVE Inv' /\ Stays
  <2>1. Idle \in Call /\ Idle.todo = {} /\ Idle.found = NoLog
    BY NullTypes
  <2>2. call' \in [Callers -> Call] /\ \A c \in Callers : call'[c] = Idle
    BY <1>12, <2>1 DEF Restart
  <2> QED
    BY <1>1, <1>12, <2>1, <2>2 DEF Restart, Inv, TypeOK, EnrichedByOwnLog, InHand
<1>13. ASSUME UNCHANGED vars PROVE Inv' /\ Stays
  BY <1>13 DEF vars, Inv, TypeOK, EnrichedByOwnLog, InHand
<1> QED
  BY <1>2, <1>3, <1>4, <1>5, <1>6, <1>7, <1>8, <1>9, <1>10, <1>11, <1>12, <1>13
     DEF Next, RunOnce

THEOREM Invariance == Spec => []Inv
<1>1. Inv /\ [Next]_vars => Inv'
  BY NextInv
<1> QED BY <1>1, InitInv, PTL DEF Spec

\* Type correctness, and that a log is in hand only while its row is.
THEOREM TypeCorrect == Spec => []TypeOK
<1>1. Inv => TypeOK
  BY DEF Inv
<1> QED BY <1>1, Invariance, PTL

\* enrich_json of a row was made from a log of the row's own request.
THEOREM OwnLog == Spec => []EnrichedByOwnLog
<1>1. Inv => EnrichedByOwnLog
  BY DEF Inv
<1> QED BY <1>1, Invariance, PTL

\* No call takes an enrichment away, whatever fails in it.
THEOREM EnrichmentIsKept == Spec => EnrichmentStays
<1> DEFINE Stays == \A r \in Rows : enrich[r] # NoLog => enrich'[r] # NoLog
<1>1. Inv /\ [Next]_vars => [Stays]_vars
  BY NextInv
<1> HIDE DEF Stays
<1>2. Spec => [][Stays]_vars
  BY <1>1, Invariance, PTL DEF Spec
<1> QED BY <1>2 DEF Stays, EnrichmentStays
============================================================================
