------------------------- MODULE TapPipelineProofs -------------------------
(***************************************************************************)
(* TapPipeline proved for any number of exchanges, workers, places in the  *)
(* channel and process exits: who persists, what rows refer to and what    *)
(* they hide, which spool files stay, and that it implements the ledger.   *)
(***************************************************************************)
EXTENDS TapPipeline, SequenceTheorems, TLAPS

NoBlobs(e) == \A r \in Role : <<e, r>> \notin blobs

(***************************************************************************)
(* What the record of e is at each place of its way.  Before LoadBodies    *)
(* nothing is stored, until insertMeta there is no row, and after it the   *)
(* record does not change any more.                                        *)
(***************************************************************************)
Unwritten == {"idle", "queued", "persist", "dropped"} \cup InHandler

RecordAtPlace(e) ==
    /\ phase[e] = "idle" => rec[e] = NoRecord
    /\ phase[e] = "relaying" => rec[e].skip = ""
    /\ phase[e] \notin {"idle", "dropped"} /\ rec[e].skip = "" => rec[e].user
    /\ phase[e] = "insert" => rec[e].user
    /\ phase[e] \in Role => ~MetaOnly(e)

StoredAtPlace(e) ==
    /\ phase[e] \in Unwritten => NoBlobs(e) /\ uris[e] = {}
    /\ phase[e] \notin {"unlink", "done", "lost"} => rows[e] = NoRow
    /\ phase[e] \in {"persist", "insert"} /\ MetaOnly(e) => uris[e] = {}
    /\ \A r \in uris[e] : <<e, r>> \in blobs
    /\ rows[e] # NoRow => \A r \in rows[e].uris : <<e, r>> \in blobs
    /\ rec[e].skip # "" => NoBlobs(e)
    /\ rows[e] # NoRow => rec[e].user

\* The indexed roles that Persist has dealt with when it is at p.
Before(p) == {r \in Indexed : \/ p \in {"upstream_sse_raw", "insert"}
                              \/ r = "client_request" /\ p # "client_request"}

Unread(e) == IF rec[e].spooled THEN {"response"} \ rec[e].body ELSE {}

GapsAtPlace(e) ==
    /\ phase[e] \in Role \cup {"insert"} /\ ~MetaOnly(e) =>
          /\ (rec[e].payload \cap Indexed) \ rec[e].body \subseteq Unread(e)
          /\ rec[e].storeError = "" => rec[e].body \cap Before(phase[e]) \subseteq uris[e]
    /\ rows[e] # NoRow /\ rows[e].skip = "" /\ rows[e].storeError = "" =>
          (rec[e].payload \cap Indexed) \ rows[e].uris \subseteq Unread(e)

SpoolAtPlace(e) ==
    e \in spool =>
        /\ phase[e] \notin {"idle", "passing", "dropped"}
        /\ phase[e] = "done" => rec[e].storeError = "queue_full"
        /\ rec[e].skip = ""
        /\ phase[e] \in {"answered", "queued"} \cup Persisting => rec[e].spooled

Local(e) == RecordAtPlace(e) /\ StoredAtPlace(e) /\ GapsAtPlace(e) /\ SpoolAtPlace(e)

Inv == TypeOK /\ PersistedByOne /\ \A e \in Exchange : Local(e)

----------------------------------------------------------------------------
\* Inv holds before the first request.
LEMMA InitInv == Init => Inv
<1> SUFFICES ASSUME Init PROVE Inv
  OBVIOUS
<1>1. TypeOK
  <2>1. queue \in Seq(Exchange) /\ Len(queue) <= QueueSize
    BY QueueAssumption, EmptySeq DEF Init
  <2>2. NoRecord \in Record
    BY DEF NoRecord, Record, SkipReason, StoreError
  <2>3. rec \in [Exchange -> Record]
    BY <2>2 DEF Init
  <2>4. phase \in [Exchange -> Phase] /\ exits \in 0 .. MaxExits
    BY ExitAssumption DEF Init, Phase
  <2> QED
    BY <2>1, <2>3, <2>4 DEF Init, TypeOK
<1>2. PersistedByOne
  BY GoroutineAssumption, EmptySeq DEF Init, PersistedByOne, Persisting, Role
<1>3. ASSUME NEW e \in Exchange PROVE Local(e)
  <2>1. /\ phase[e] = "idle" /\ rec[e] = NoRecord /\ uris[e] = {} /\ blobs = {}
        /\ rows[e] = NoRow /\ spool = {}
    BY DEF Init
  <2> QED
    BY <2>1 DEF Local, RecordAtPlace, StoredAtPlace, GapsAtPlace, SpoolAtPlace,
                NoBlobs, NoRecord, Role, Persisting
<1> QED
  BY <1>1, <1>2, <1>3 DEF Inv

----------------------------------------------------------------------------
(* What the actions do to one record. *)

\* The fields of a record have their types.
LEMMA RecordFields ==
    ASSUME TypeOK, NEW e \in Exchange
    PROVE  /\ rec[e] \in Record
           /\ rec[e].user \in BOOLEAN /\ rec[e].spooled \in BOOLEAN
           /\ rec[e].skip \in SkipReason /\ rec[e].storeError \in StoreError
           /\ rec[e].payload \subseteq Role /\ rec[e].body \subseteq Role
<1>1. rec[e] \in Record
  BY DEF TypeOK
<1> QED
  BY <1>1 DEF Record

\* Only the record of e changes, and it stays a record.
OnlyRecord(e) ==
    /\ rec' \in [Exchange -> Record]
    /\ \A f \in Exchange \ {e} : rec'[f] = rec[f]

\* Replacing the record of e by another record.
LEMMA RecordUpdate ==
    ASSUME TypeOK, NEW e \in Exchange, NEW r \in Record, rec' = [rec EXCEPT ![e] = r]
    PROVE  OnlyRecord(e) /\ rec'[e] = r
  BY DEF OnlyRecord, TypeOK

\* A bypassed exchange gets a skip reason and keeps its spool and error fields.
LEMMA BypassRecord ==
    ASSUME TypeOK, NEW e \in Exchange, Bypass(e)
    PROVE  /\ OnlyRecord(e)
           /\ rec'[e].skip # ""
           /\ rec'[e].spooled = rec[e].spooled /\ rec'[e].storeError = rec[e].storeError
<1>1. rec[e] \in Record
  BY DEF TypeOK
<1>2. ASSUME NEW why \in {"denied", "enrich_failed"}, rec' = [rec EXCEPT ![e].skip = why]
      PROVE  OnlyRecord(e) /\ rec'[e] = [rec[e] EXCEPT !.skip = why]
  <2>1. [rec[e] EXCEPT !.skip = why] \in Record
    BY <1>1 DEF Record, SkipReason
  <2>2. rec' = [rec EXCEPT ![e] = [rec[e] EXCEPT !.skip = why]]
    BY <1>2 DEF TypeOK
  <2> QED
    BY <2>1, <2>2, RecordUpdate
<1>3. ASSUME NEW p \in Payloads,
             rec' = [rec EXCEPT ![e].skip = "oversize", ![e].user = TRUE,
                                ![e].payload = p \cap {"request_headers"}]
      PROVE  /\ OnlyRecord(e)
             /\ rec'[e] = [rec[e] EXCEPT !.skip = "oversize", !.user = TRUE,
                                         !.payload = p \cap {"request_headers"}]
  <2> DEFINE r == [rec[e] EXCEPT !.skip = "oversize", !.user = TRUE,
                                 !.payload = p \cap {"request_headers"}]
  <2>1. r \in Record
    BY <1>1, PayloadAssumption DEF Record, SkipReason, Role
  <2>2. rec' = [rec EXCEPT ![e] = r]
    BY <1>3 DEF TypeOK
  <2> QED
    BY <2>1, <2>2, RecordUpdate
<1>4. CASE \E why \in {"denied", "enrich_failed"} : rec' = [rec EXCEPT ![e].skip = why]
  BY <1>1, <1>2, <1>4 DEF Record
<1>5. CASE \E p \in Payloads :
             rec' = [rec EXCEPT ![e].skip = "oversize", ![e].user = TRUE,
                                ![e].payload = p \cap {"request_headers"}]
  BY <1>1, <1>3, <1>5 DEF Record
<1> QED
  BY <1>4, <1>5 DEF Bypass

\* Accept only sets the user.
LEMMA AcceptRecord ==
    ASSUME TypeOK, NEW e \in Exchange, Accept(e)
    PROVE  OnlyRecord(e) /\ rec'[e] = [rec[e] EXCEPT !.user = TRUE]
<1>1. [rec[e] EXCEPT !.user = TRUE] \in Record
  BY RecordFields DEF Record
<1>2. rec' = [rec EXCEPT ![e] = [rec[e] EXCEPT !.user = TRUE]]
  BY DEF TypeOK, Accept
<1> QED
  BY <1>1, <1>2, RecordUpdate

\* UpstreamDown only sets the skip reason and the payload.
LEMMA UpstreamDownRecord ==
    ASSUME TypeOK, NEW e \in Exchange, UpstreamDown(e)
    PROVE  /\ OnlyRecord(e)
           /\ rec'[e].skip = "upstream_error"
           /\ rec'[e].user = rec[e].user
<1>1. PICK p \in Payloads :
        rec' = [rec EXCEPT ![e].skip = "upstream_error", ![e].payload = p \cap FromRequest]
  BY DEF UpstreamDown
<1> DEFINE r == [rec[e] EXCEPT !.skip = "upstream_error", !.payload = p \cap FromRequest]
<1>2. r \in Record /\ r.skip = "upstream_error" /\ r.user = rec[e].user
  BY RecordFields, PayloadAssumption DEF Record, SkipReason
<1>3. rec' = [rec EXCEPT ![e] = r]
  BY <1>1 DEF TypeOK
<1> QED
  BY <1>2, <1>3, RecordUpdate

\* RelayDone sets the payload, and spooled when there is a spool file.
LEMMA RelayDoneRecord ==
    ASSUME TypeOK, NEW e \in Exchange, RelayDone(e)
    PROVE  /\ OnlyRecord(e)
           /\ rec'[e].skip = rec[e].skip /\ rec'[e].user = rec[e].user
           /\ e \in spool => rec'[e].spooled
<1>1. PICK p \in Payloads :
        rec' = [rec EXCEPT ![e].payload = p, ![e].spooled = (e \in spool)]
  BY DEF RelayDone
<1>2. PICK b \in BOOLEAN : b = (e \in spool)
  <2>1. CASE e \in spool
    <3>1. TRUE = (e \in spool)
      BY <2>1
    <3> QED
      BY <3>1, Zenon
  <2>2. CASE e \notin spool
    <3>1. FALSE = (e \in spool)
      BY <2>2
    <3> QED
      BY <3>1, Zenon
  <2> QED
    BY <2>1, <2>2
<1> DEFINE r == [rec[e] EXCEPT !.payload = p, !.spooled = b]
<1>3. r \in Record /\ r.skip = rec[e].skip /\ r.user = rec[e].user /\ r.spooled = b
  BY RecordFields, PayloadAssumption DEF Record
<1>4. rec' = [rec EXCEPT ![e].payload = p, ![e].spooled = b]
  BY <1>1, <1>2, Zenon
<1>5. rec' = [rec EXCEPT ![e] = r]
  BY <1>4 DEF TypeOK
<1> QED
  BY <1>2, <1>3, <1>5, RecordUpdate

\* QueueFull only notes the store error.
LEMMA QueueFullRecord ==
    ASSUME TypeOK, NEW e \in Exchange, QueueFull(e)
    PROVE  OnlyRecord(e) /\ rec'[e] = [rec[e] EXCEPT !.storeError = "queue_full"]
<1>1. [rec[e] EXCEPT !.storeError = "queue_full"] \in Record
  BY RecordFields DEF Record, StoreError
<1>2. rec' = [rec EXCEPT ![e] = [rec[e] EXCEPT !.storeError = "queue_full"]]
  BY DEF TypeOK, QueueFull
<1> QED
  BY <1>1, <1>2, RecordUpdate

\* LoadBodies loads the whole payload, or all but a spooled response.
LEMMA LoadBodiesRecord ==
    ASSUME TypeOK, NEW e \in Exchange, LoadBodies(e)
    PROVE  /\ OnlyRecord(e)
           /\ rec'[e] = [rec[e] EXCEPT !.body = rec'[e].body]
           /\ rec[e].payload \cap Indexed \subseteq
                 rec'[e].body \cup (IF rec[e].spooled THEN {"response"} ELSE {})
<1>1. PICK body \in {rec[e].payload} \cup
                    (IF rec[e].spooled
                     THEN {rec[e].payload \ {"response", "upstream_sse_raw"}}
                     ELSE {}) :
        rec' = [rec EXCEPT ![e].body = body]
  BY DEF LoadBodies
<1> DEFINE r == [rec[e] EXCEPT !.body = body]
<1>2. body \subseteq Role
  BY RecordFields
<1>3. r \in Record /\ r.body = body
  BY <1>2, RecordFields DEF Record
<1>4. rec' = [rec EXCEPT ![e] = r]
  BY <1>1 DEF TypeOK
<1>5. OnlyRecord(e) /\ rec'[e] = r
  BY <1>3, <1>4, RecordUpdate
<1>6. rec[e].payload \cap Indexed \subseteq
        body \cup (IF rec[e].spooled THEN {"response"} ELSE {})
  BY DEF Indexed
<1> QED
  BY <1>3, <1>5, <1>6

\* BlobFails only notes a store error, and only for a role that has a URI.
LEMMA BlobFailsRecord ==
    ASSUME TypeOK, NEW e \in Exchange, BlobFails(e)
    PROVE  /\ OnlyRecord(e)
           /\ rec'[e] = [rec[e] EXCEPT !.storeError = rec'[e].storeError]
           /\ rec'[e].storeError =
                 IF phase[e] \in Indexed THEN "blob_error" ELSE rec[e].storeError
<1> DEFINE err == IF phase[e] \in Indexed THEN "blob_error" ELSE rec[e].storeError
           r == [rec[e] EXCEPT !.storeError = err]
<1>1. err \in StoreError
  BY RecordFields DEF StoreError
<1>2. r \in Record /\ r.storeError = err
  BY <1>1, RecordFields DEF Record
<1>3. rec' = [rec EXCEPT ![e] = r]
  BY DEF TypeOK, BlobFails
<1>4. OnlyRecord(e) /\ rec'[e] = r
  BY <1>2, <1>3, RecordUpdate
<1> QED
  BY <1>2, <1>4

----------------------------------------------------------------------------
(* Type correctness. *)

\* Goto changes the phase of one exchange.
LEMMA GotoType ==
    ASSUME TypeOK, NEW e \in Exchange, NEW p \in Phase, Goto(e, p)
    PROVE  /\ phase' \in [Exchange -> Phase]
           /\ phase'[e] = p
           /\ \A f \in Exchange \ {e} : phase'[f] = phase[f]
  BY DEF Goto, TypeOK

\* The steps of the handler keep the types.
LEMMA HandlerType ==
    ASSUME TypeOK, NEW e \in Exchange, HandlerStep(e)
    PROVE  TypeOK'
<1>1. CASE Bypass(e)
  <2>1. Goto(e, "passing")
    BY <1>1 DEF Bypass
  <2> QED
    BY <1>1, <2>1, BypassRecord, GotoType
       DEF Bypass, TypeOK, OnlyRecord, storeVars, Phase, InHandler
<1>2. CASE PassThrough(e)
  <2>1. \E p \in {"answered", "dropped"} : Goto(e, p)
    BY <1>2 DEF PassThrough
  <2>2. phase' \in [Exchange -> Phase]
    BY <2>1, GotoType DEF Phase, InHandler, Terminal
  <2> QED
    BY <1>2, <2>2 DEF PassThrough, TypeOK, storeVars
<1>3. CASE BadBody(e)
  BY <1>3, GotoType DEF BadBody, TypeOK, storeVars, Phase, Terminal
<1>4. CASE Accept(e)
  BY <1>4, AcceptRecord, GotoType
     DEF Accept, TypeOK, OnlyRecord, storeVars, Phase, InHandler
<1>5. CASE UpstreamDown(e)
  BY <1>5, UpstreamDownRecord, GotoType
     DEF UpstreamDown, TypeOK, OnlyRecord, storeVars, Phase, InHandler
<1>6. CASE Spill(e)
  BY <1>6 DEF Spill, TypeOK, storeVars
<1>7. CASE RelayFails(e)
  BY <1>7, GotoType DEF RelayFails, TypeOK, storeVars, Phase, Terminal
<1>8. CASE RelayDone(e)
  BY <1>8, RelayDoneRecord, GotoType
     DEF RelayDone, TypeOK, OnlyRecord, storeVars, Phase, InHandler
<1> QED
  BY <1>1, <1>2, <1>3, <1>4, <1>5, <1>6, <1>7, <1>8 DEF HandlerStep

\* Submitting keeps the types: the guard of Submit bounds the channel.
LEMMA EnqueueType ==
    ASSUME TypeOK, NEW e \in Exchange, Enqueue(e)
    PROVE  TypeOK'
<1>1. CASE Submit(e)
  <2>1. queue' \in Seq(Exchange) /\ Len(queue') <= QueueSize
    BY <1>1, QueueAssumption DEF Submit, TypeOK
  <2> QED
    BY <1>1, <2>1, GotoType DEF Submit, TypeOK, storeVars, Phase
<1>2. CASE QueueFull(e)
  <2>1. runner' \in [Exchange -> Worker \cup {Handler, Nobody}]
    BY <1>2 DEF QueueFull, TypeOK
  <2> QED
    BY <1>2, <2>1, QueueFullRecord, GotoType
       DEF QueueFull, TypeOK, OnlyRecord, storeVars, Phase, Persisting
<1> QED
  BY <1>1, <1>2 DEF Enqueue

\* The stage after a role is a phase.
LEMMA NextStagePhase == \A r \in Role : NextStage[r] \in Phase
  BY DEF NextStage, Role, Phase, Persisting

\* Returning from insertMeta keeps the types.
LEMMA ReturnType ==
    ASSUME TypeOK, NEW e \in Exchange, Return(e)
    PROVE  /\ phase' \in [Exchange -> Phase]
           /\ runner' \in [Exchange -> Worker \cup {Handler, Nobody}]
<1>1. CASE MetaOnly(e)
  BY <1>1, GotoType DEF Return, TypeOK, Phase, Terminal
<1>2. CASE ~MetaOnly(e)
  BY <1>2, GotoType DEF Return, TypeOK, Phase, Persisting
<1> QED
  BY <1>1, <1>2

\* The steps of Persist keep the types.
LEMMA PersistType ==
    ASSUME TypeOK, NEW e \in Exchange, PersistStep(e)
    PROVE  TypeOK'
<1>1. CASE LogOnly(e)
  BY <1>1, GotoType DEF LogOnly, TypeOK, storeVars, Phase, Terminal
<1>2. CASE PersistMeta(e)
  BY <1>2, GotoType DEF PersistMeta, TypeOK, storeVars, Phase, Persisting
<1>3. CASE LoadBodies(e)
  BY <1>3, LoadBodiesRecord, GotoType
     DEF LoadBodies, TypeOK, OnlyRecord, storeVars, Phase, Persisting, Role
<1>4. CASE NoBlob(e)
  BY <1>4, NextStagePhase, GotoType DEF NoBlob, TypeOK, storeVars
<1>5. CASE WriteBlob(e)
  <2>1. phase[e] \in Role /\ Goto(e, NextStage[phase[e]])
    BY <1>5 DEF WriteBlob
  <2>2. uris' \in [Exchange -> SUBSET Indexed] /\ blobs' \subseteq Exchange \X Role
    BY <1>5 DEF WriteBlob, TypeOK
  <2> QED
    BY <1>5, <2>1, <2>2, NextStagePhase, GotoType DEF WriteBlob, TypeOK
<1>6. CASE BlobFails(e)
  BY <1>6, BlobFailsRecord, NextStagePhase, GotoType
     DEF BlobFails, TypeOK, OnlyRecord, storeVars
<1>7. CASE InsertRow(e)
  <2>1. [uris |-> uris[e], skip |-> rec[e].skip, storeError |-> rec[e].storeError] \in Row
    BY RecordFields DEF Row, TypeOK
  <2>2. rows' \in [Exchange -> Row \cup {NoRow}]
    BY <1>7, <2>1 DEF InsertRow, TypeOK
  <2> QED
    BY <1>7, <2>2, ReturnType DEF InsertRow, TypeOK
<1>8. CASE InsertFails(e)
  BY <1>8, ReturnType DEF InsertFails, TypeOK, storeVars
<1>9. CASE Unlink(e)
  BY <1>9, GotoType DEF Unlink, TypeOK, storeVars, Phase, Terminal
<1> QED
  BY <1>1, <1>2, <1>3, <1>4, <1>5, <1>6, <1>7, <1>8, <1>9 DEF PersistStep

\* Receiving from the channel keeps the types.
LEMMA TakeType ==
    ASSUME TypeOK, NEW w \in Worker, Take(w)
    PROVE  TypeOK'
<1>1. /\ Head(queue) \in Exchange /\ Tail(queue) \in Seq(Exchange)
      /\ Len(Tail(queue)) <= QueueSize
  BY HeadTailProperties, QueueAssumption DEF Take, TypeOK
<1>2. Goto(Head(queue), "persist") /\ runner' = [runner EXCEPT ![Head(queue)] = w]
  BY DEF Take
<1>3. phase' \in [Exchange -> Phase]
  BY <1>1, <1>2, GotoType DEF Phase, Persisting
<1> QED
  BY <1>1, <1>2, <1>3 DEF Take, TypeOK, storeVars

\* A process exit keeps the types.
LEMMA ExitType ==
    ASSUME TypeOK, Exit
    PROVE  TypeOK'
<1>1. phase' \in [Exchange -> Phase]
  BY DEF Exit, TypeOK, Phase, Terminal
<1>2. exits' \in 0 .. MaxExits
  BY ExitAssumption DEF Exit, TypeOK
<1>3. queue' \in Seq(Exchange) /\ Len(queue') <= QueueSize
  BY QueueAssumption, EmptySeq DEF Exit
<1> QED
  BY <1>1, <1>2, <1>3 DEF Exit, TypeOK, storeVars

\* Every step keeps the types.
LEMMA TypeStep == TypeOK /\ [Next]_vars => TypeOK'
<1> SUFFICES ASSUME TypeOK, [Next]_vars PROVE TypeOK'
  OBVIOUS
<1>1. CASE UNCHANGED vars
  BY <1>1 DEF vars, TypeOK
<1> QED
  BY <1>1, HandlerType, EnqueueType, PersistType, TakeType, ExitType DEF Next

----------------------------------------------------------------------------
(* Who persists. *)

\* A step that leaves the channel and the goroutines alone, and moves e
\* neither into nor out of the channel or Persist.
LEMMA SamePlace ==
    ASSUME TypeOK, PersistedByOne, NEW e \in Exchange, NEW p \in Phase, Goto(e, p),
           UNCHANGED <<queue, runner>>,
           phase[e] # "queued", p # "queued",
           phase[e] \in Persisting <=> p \in Persisting
    PROVE  PersistedByOne'
<1>1. /\ phase'[e] = p
      /\ \A f \in Exchange \ {e} : phase'[f] = phase[f]
  BY GotoType
<1> QED
  BY <1>1 DEF PersistedByOne

\* Persist returns.
LEMMA Released ==
    ASSUME TypeOK, PersistedByOne, NEW e \in Exchange, Goto(e, "done"),
           UNCHANGED queue, runner' = [runner EXCEPT ![e] = Nobody],
           phase[e] \in Persisting
    PROVE  PersistedByOne'
<1>1. /\ phase'[e] = "done" /\ "done" \notin Persisting /\ phase[e] # "queued"
      /\ \A f \in Exchange \ {e} : phase'[f] = phase[f]
  BY GotoType DEF Phase, Terminal, Persisting, Role
<1>2. /\ runner'[e] = Nobody
      /\ \A f \in Exchange \ {e} : runner'[f] = runner[f]
  BY DEF TypeOK
<1> QED
  BY <1>1, <1>2, GoroutineAssumption DEF PersistedByOne

\* The handler works before the channel and before Persist.
LEMMA HandlerOne ==
    ASSUME TypeOK, PersistedByOne, NEW e \in Exchange, HandlerStep(e)
    PROVE  PersistedByOne'
<1>1. CASE Spill(e)
  BY <1>1 DEF Spill, PersistedByOne
<1>2. CASE ~Spill(e)
  <2>1. \E p \in InHandler \cup Terminal : Goto(e, p)
    BY <1>2 DEF HandlerStep, Bypass, PassThrough, BadBody, Accept, UpstreamDown,
                RelayFails, RelayDone, InHandler, Terminal
  <2>2. phase[e] \in {"idle"} \cup InHandler /\ UNCHANGED <<queue, runner>>
    BY <1>2 DEF HandlerStep, Bypass, PassThrough, BadBody, Accept, UpstreamDown,
                RelayFails, RelayDone, InHandler
  <2> QED
    BY <2>1, <2>2, SamePlace DEF Phase, InHandler, Terminal, Persisting, Role
<1> QED
  BY <1>1, <1>2

\* Submit puts a record in the channel that was not in it.
LEMMA SubmitOne ==
    ASSUME TypeOK, PersistedByOne, NEW e \in Exchange, Submit(e)
    PROVE  PersistedByOne'
<1>1. /\ phase[e] = "answered" /\ phase'[e] = "queued"
      /\ \A f \in Exchange \ {e} : phase'[f] = phase[f]
  BY GotoType DEF Submit, Phase
<1>2. /\ queue \in Seq(Exchange) /\ Len(queue) \in Nat
      /\ Len(queue') = Len(queue) + 1 /\ queue'[Len(queue) + 1] = e
      /\ \A i \in 1 .. Len(queue) : queue'[i] = queue[i]
      /\ DOMAIN queue = 1 .. Len(queue) /\ DOMAIN queue' = 1 .. (Len(queue) + 1)
  BY DEF Submit, TypeOK
<1>3. \A i \in DOMAIN queue : queue[i] # e
  BY <1>1 DEF PersistedByOne
<1>4. \A i, j \in DOMAIN queue' : queue'[i] = queue'[j] => i = j
  BY <1>2, <1>3 DEF PersistedByOne
<1>5. ASSUME NEW f \in Exchange
      PROVE  phase'[f] = "queued" <=> \E i \in DOMAIN queue' : queue'[i] = f
  BY <1>1, <1>2 DEF PersistedByOne
<1> QED
  BY <1>1, <1>4, <1>5 DEF PersistedByOne, Submit, Persisting, Role

\* With a full channel, Persist runs on the handler and on nothing else.
LEMMA QueueFullOne ==
    ASSUME TypeOK, PersistedByOne, NEW e \in Exchange, QueueFull(e)
    PROVE  PersistedByOne'
<1>1. /\ phase[e] = "answered" /\ phase'[e] = "persist"
      /\ \A f \in Exchange \ {e} : phase'[f] = phase[f]
  BY GotoType DEF QueueFull, Phase, Persisting
<1>2. /\ runner'[e] = Handler
      /\ \A f \in Exchange \ {e} : runner'[f] = runner[f]
  BY DEF QueueFull, TypeOK
<1> QED
  BY <1>1, <1>2, GoroutineAssumption DEF PersistedByOne, QueueFull, Persisting

\* The end of insertMeta: Persist is over, or goes on to remove the spool file.
LEMMA ReturnOne ==
    ASSUME TypeOK, PersistedByOne, NEW e \in Exchange, Return(e),
           phase[e] \in Persisting, UNCHANGED queue
    PROVE  PersistedByOne'
<1>1. CASE MetaOnly(e)
  BY <1>1, Released DEF Return
<1>2. CASE ~MetaOnly(e)
  BY <1>2, SamePlace DEF Return, Phase, Persisting, Role
<1> QED
  BY <1>1, <1>2

\* Persist stays on its goroutine until it returns.
LEMMA PersistOne ==
    ASSUME TypeOK, PersistedByOne, NEW e \in Exchange, PersistStep(e)
    PROVE  PersistedByOne'
<1>1. CASE LogOnly(e)
  BY <1>1, Released DEF LogOnly, Persisting
<1>2. CASE PersistMeta(e) \/ LoadBodies(e)
  <2>1. /\ phase[e] = "persist" /\ UNCHANGED <<queue, runner>>
        /\ Goto(e, "insert") \/ Goto(e, "client_request")
    BY <1>2 DEF PersistMeta, LoadBodies
  <2> QED
    BY <2>1, SamePlace DEF Phase, Persisting, Role
<1>3. CASE NoBlob(e) \/ WriteBlob(e) \/ BlobFails(e)
  <2>1. phase[e] \in Role /\ UNCHANGED <<queue, runner>> /\ Goto(e, NextStage[phase[e]])
    BY <1>3 DEF NoBlob, WriteBlob, BlobFails
  <2>2. NextStage[phase[e]] \in Persisting /\ phase[e] # "queued"
    BY <2>1 DEF NextStage, Role, Persisting
  <2> QED
    BY <2>1, <2>2, SamePlace DEF Phase, Persisting, Role
<1>4. CASE InsertRow(e) \/ InsertFails(e)
  BY <1>4, ReturnOne DEF InsertRow, InsertFails, Persisting
<1>5. CASE Unlink(e)
  BY <1>5, Released DEF Unlink, Persisting
<1> QED
  BY <1>1, <1>2, <1>3, <1>4, <1>5 DEF PersistStep

\* A free worker takes the first record, which leaves the channel.
LEMMA TakeOne ==
    ASSUME TypeOK, PersistedByOne, NEW w \in Worker, Take(w)
    PROVE  PersistedByOne'
<1> DEFINE e == Head(queue)
           n == Len(queue)
<1>1. /\ n \in Nat /\ n > 0 /\ e = queue[1] /\ e \in Exchange
      /\ DOMAIN queue = 1 .. n
      /\ queue' = Tail(queue) /\ Len(queue') = n - 1 /\ DOMAIN queue' = 1 .. (n - 1)
      /\ \A i \in 1 .. (n - 1) : queue'[i] = queue[i + 1]
  BY HeadTailProperties DEF Take, TypeOK
<1>2. phase[e] = "queued" /\ phase[e] \notin Persisting
  BY <1>1 DEF PersistedByOne, Persisting, Role
<1>3. /\ phase'[e] = "persist"
      /\ \A f \in Exchange \ {e} : phase'[f] = phase[f]
  BY <1>1, GotoType DEF Take, Phase, Persisting
<1>4. /\ runner'[e] = w /\ \A f \in Exchange : runner[f] # w
      /\ \A f \in Exchange \ {e} : runner'[f] = runner[f]
  BY <1>1 DEF Take, Free, TypeOK
<1>5. \A i, j \in DOMAIN queue' : queue'[i] = queue'[j] => i = j
  BY <1>1 DEF PersistedByOne
<1>6. ASSUME NEW f \in Exchange
      PROVE  phase'[f] = "queued" <=> \E i \in DOMAIN queue' : queue'[i] = f
  <2>1. CASE f = e
    BY <2>1, <1>1, <1>3 DEF PersistedByOne
  <2>2. CASE f # e
    <3>1. ASSUME NEW i \in DOMAIN queue, queue[i] = f
          PROVE  \E j \in DOMAIN queue' : queue'[j] = f
      <4>1. i - 1 \in DOMAIN queue' /\ queue'[i - 1] = f
        BY <2>2, <3>1, <1>1
      <4> QED
        BY <4>1
    <3> QED
      BY <2>2, <3>1, <1>1, <1>3 DEF PersistedByOne
  <2> QED
    BY <2>1, <2>2
<1>7. \A f \in Exchange : phase'[f] \in Persisting <=> runner'[f] # Nobody
  BY <1>1, <1>2, <1>3, <1>4, GoroutineAssumption DEF PersistedByOne, Persisting
<1>8. \A f, g \in Exchange : runner'[f] = runner'[g] /\ runner'[f] \in Worker => f = g
  BY <1>1, <1>4 DEF PersistedByOne
<1> QED
  BY <1>5, <1>6, <1>7, <1>8 DEF PersistedByOne

\* After an exit the channel is empty and nothing is persisted.
LEMMA ExitOne ==
    ASSUME TypeOK, PersistedByOne, Exit
    PROVE  PersistedByOne'
<1>1. DOMAIN queue' = {}
  BY EmptySeq DEF Exit
<1>2. \A e \in Exchange : phase'[e] \notin {"queued"} \cup Persisting /\ runner'[e] = Nobody
  BY DEF Exit, TypeOK, Terminal, Persisting, Role
<1> QED
  BY <1>1, <1>2, GoroutineAssumption DEF PersistedByOne

\* Every step keeps PersistedByOne.
LEMMA OneStep == TypeOK /\ PersistedByOne /\ [Next]_vars => PersistedByOne'
<1> SUFFICES ASSUME TypeOK, PersistedByOne, [Next]_vars PROVE PersistedByOne'
  OBVIOUS
<1>1. CASE UNCHANGED vars
  BY <1>1 DEF vars, PersistedByOne
<1> QED
  BY <1>1, HandlerOne, SubmitOne, QueueFullOne, PersistOne, TakeOne, ExitOne
     DEF Next, Enqueue

----------------------------------------------------------------------------
(* What a step of one exchange leaves alone. *)

Same(e) ==
    /\ phase'[e] = phase[e] /\ rec'[e] = rec[e]
    /\ uris'[e] = uris[e] /\ rows'[e] = rows[e]
    /\ e \in spool' <=> e \in spool
    /\ \A r \in Role : <<e, r>> \in blobs' <=> <<e, r>> \in blobs

\* URIs are those of indexed roles.
LEMMA RowType ==
    ASSUME TypeOK, NEW e \in Exchange
    PROVE  /\ uris[e] \subseteq Indexed /\ uris[e] \subseteq Role
           /\ rows[e] # NoRow => rows[e].uris \subseteq Indexed /\ rows[e].uris \subseteq Role
<1>1. uris[e] \subseteq Indexed
  BY DEF TypeOK
<1>2. rows[e] \in Row \cup {NoRow}
  BY DEF TypeOK
<1>3. rows[e] # NoRow => rows[e].uris \subseteq Indexed
  BY <1>2 DEF Row
<1> QED
  BY <1>1, <1>3 DEF Indexed, Role

\* What leaves everything about e alone leaves Local(e) alone.
LEMMA SameLocal ==
    ASSUME TypeOK, NEW e \in Exchange, Local(e), Same(e)
    PROVE  Local(e)'
<1>1. MetaOnly(e)' <=> MetaOnly(e)
  BY DEF Same, MetaOnly
<1>2. NoBlobs(e)' <=> NoBlobs(e)
  BY DEF Same, NoBlobs
<1>3. RecordAtPlace(e)'
  BY <1>1 DEF Same, Local, RecordAtPlace
<1>4. StoredAtPlace(e)'
  BY <1>1, <1>2, RowType DEF Same, Local, StoredAtPlace
<1>5. GapsAtPlace(e)'
  <2>1. Unread(e)' = Unread(e)
    BY DEF Same, Unread
  <2> QED
    BY <1>1, <2>1 DEF Same, Local, GapsAtPlace
<1>6. SpoolAtPlace(e)'
  BY DEF Same, Local, SpoolAtPlace
<1> QED
  BY <1>3, <1>4, <1>5, <1>6 DEF Local

\* A step of one handler does not touch another exchange.
LEMMA HandlerSame ==
    ASSUME TypeOK, NEW e \in Exchange, HandlerStep(e) \/ Enqueue(e), NEW f \in Exchange \ {e}
    PROVE  Same(f)
<1>1. UNCHANGED storeVars
  BY DEF HandlerStep, Enqueue, Bypass, PassThrough, BadBody, Accept, UpstreamDown, Spill,
         RelayFails, RelayDone, Submit, QueueFull, storeVars
<1>2. phase'[f] = phase[f]
  BY DEF HandlerStep, Enqueue, Bypass, PassThrough, BadBody, Accept, UpstreamDown, Spill,
         RelayFails, RelayDone, Submit, QueueFull, Goto, TypeOK
<1>3. rec'[f] = rec[f]
  <2>1. CASE Bypass(e) \/ Accept(e) \/ UpstreamDown(e) \/ RelayDone(e) \/ QueueFull(e)
    BY <2>1, BypassRecord, AcceptRecord, UpstreamDownRecord, RelayDoneRecord,
       QueueFullRecord DEF OnlyRecord
  <2>2. CASE PassThrough(e) \/ BadBody(e) \/ Spill(e) \/ RelayFails(e) \/ Submit(e)
    BY <2>2 DEF PassThrough, BadBody, Spill, RelayFails, Submit
  <2> QED
    BY <2>1, <2>2 DEF HandlerStep, Enqueue
<1>4. f \in spool' <=> f \in spool
  BY DEF HandlerStep, Enqueue, Bypass, PassThrough, BadBody, Accept, UpstreamDown, Spill,
         RelayFails, RelayDone, Submit, QueueFull
<1> QED
  BY <1>1, <1>2, <1>3, <1>4 DEF Same, storeVars

\* A step of one Persist does not touch another exchange.
LEMMA PersistSame ==
    ASSUME TypeOK, NEW e \in Exchange, PersistStep(e), NEW f \in Exchange \ {e}
    PROVE  Same(f)
<1>1. phase'[f] = phase[f]
  BY DEF PersistStep, LogOnly, PersistMeta, LoadBodies, NoBlob, WriteBlob, BlobFails,
         InsertRow, InsertFails, Return, Unlink, Goto, TypeOK
<1>2. rec'[f] = rec[f]
  <2>1. CASE LoadBodies(e) \/ BlobFails(e)
    BY <2>1, LoadBodiesRecord, BlobFailsRecord DEF OnlyRecord
  <2> QED
    BY <2>1 DEF PersistStep, LogOnly, PersistMeta, NoBlob, WriteBlob, InsertRow,
                InsertFails, Unlink
<1>3. f \in spool' <=> f \in spool
  BY DEF PersistStep, LogOnly, PersistMeta, LoadBodies, NoBlob, WriteBlob, BlobFails,
         InsertRow, InsertFails, Unlink
<1>4. /\ uris'[f] = uris[f] /\ rows'[f] = rows[f]
      /\ \A r \in Role : <<f, r>> \in blobs' <=> <<f, r>> \in blobs
  <2>1. CASE WriteBlob(e)
    BY <2>1 DEF WriteBlob, TypeOK
  <2>2. CASE InsertRow(e)
    BY <2>2 DEF InsertRow, TypeOK
  <2> QED
    BY <2>1, <2>2 DEF PersistStep, LogOnly, PersistMeta, LoadBodies, NoBlob, BlobFails,
                      InsertFails, Unlink, storeVars
<1> QED
  BY <1>1, <1>2, <1>3, <1>4 DEF Same

----------------------------------------------------------------------------
(* What a step does to the exchange it is about. *)

\* A step of the handler: nothing is stored yet and no row exists.
LEMMA HandlerLocal ==
    ASSUME TypeOK, NEW e \in Exchange, Local(e), HandlerStep(e) \/ Enqueue(e)
    PROVE  Local(e)'
<1>1. /\ uris[e] = {} /\ rows[e] = NoRow /\ NoBlobs(e)
      /\ phase[e] \in {"idle"} \cup InHandler
      /\ UNCHANGED storeVars
  <2>1. phase[e] \in {"idle"} \cup InHandler /\ UNCHANGED storeVars
    BY DEF HandlerStep, Enqueue, Bypass, PassThrough, BadBody, Accept, UpstreamDown, Spill,
           RelayFails, RelayDone, Submit, QueueFull, storeVars, InHandler
  <2> QED
    BY <2>1 DEF Local, StoredAtPlace, Unwritten, InHandler
<1>2. phase'[e] \in Unwritten
  BY <1>1 DEF HandlerStep, Enqueue, Bypass, PassThrough, BadBody, Accept, UpstreamDown, Spill,
         RelayFails, RelayDone, Submit, QueueFull, Goto, TypeOK, InHandler, Unwritten
<1>3. StoredAtPlace(e)'
  BY <1>1, <1>2 DEF StoredAtPlace, storeVars, NoBlobs, Unwritten, InHandler
<1>4. GapsAtPlace(e)'
  BY <1>1, <1>2 DEF GapsAtPlace, storeVars, Unwritten, InHandler, Role
<1>5. RecordAtPlace(e)' /\ SpoolAtPlace(e)'
  <2> USE DEF Local, RecordAtPlace, SpoolAtPlace
  <2>1. CASE Bypass(e)
    <3>1. phase[e] = "idle" /\ phase'[e] = "passing" /\ spool' = spool
      BY <2>1, GotoType DEF Bypass, Phase, InHandler
    <3> QED
      BY <2>1, <3>1, BypassRecord DEF Role
  <2>2. CASE PassThrough(e)
    <3>1. phase[e] = "passing" /\ phase'[e] \in {"answered", "dropped"}
          /\ spool' = spool /\ rec' = rec
      BY <2>2 DEF PassThrough, Goto, TypeOK
    <3> QED
      BY <3>1 DEF Role
  <2>3. CASE BadBody(e)
    <3>1. phase[e] = "idle" /\ phase'[e] = "dropped" /\ spool' = spool /\ rec' = rec
      BY <2>3, GotoType DEF BadBody, Phase, Terminal
    <3> QED
      BY <3>1 DEF Role
  <2>4. CASE Accept(e)
    <3>1. phase[e] = "idle" /\ phase'[e] = "relaying" /\ spool' = spool
      BY <2>4, GotoType DEF Accept, Phase, InHandler
    <3>2. rec[e] = NoRecord /\ NoRecord.skip = ""
      BY <3>1 DEF NoRecord
    <3>3. rec'[e].user /\ rec'[e].skip = rec[e].skip
      BY <2>4, AcceptRecord, RecordFields DEF Record
    <3> QED
      BY <3>1, <3>2, <3>3 DEF Role, Persisting
  <2>5. CASE UpstreamDown(e)
    <3>1. phase[e] = "relaying" /\ phase'[e] = "answered" /\ spool' = spool /\ e \notin spool
      BY <2>5, GotoType DEF UpstreamDown, Phase, InHandler
    <3> QED
      BY <2>5, <3>1, UpstreamDownRecord DEF Role
  <2>6. CASE Spill(e)
    <3>1. phase[e] = "relaying" /\ phase' = phase /\ rec' = rec
      BY <2>6 DEF Spill
    <3> QED
      BY <3>1 DEF Role, Persisting
  <2>7. CASE RelayFails(e)
    <3>1. phase'[e] = "dropped" /\ e \notin spool' /\ rec' = rec
      BY <2>7, GotoType DEF RelayFails, Phase, Terminal
    <3> QED
      BY <3>1 DEF Role
  <2>8. CASE RelayDone(e)
    <3>1. phase[e] = "relaying" /\ phase'[e] = "answered" /\ spool' = spool
      BY <2>8, GotoType DEF RelayDone, Phase, InHandler
    <3> QED
      BY <2>8, <3>1, RelayDoneRecord DEF Role
  <2>9. CASE Submit(e)
    <3>1. phase[e] = "answered" /\ phase'[e] = "queued" /\ spool' = spool /\ rec' = rec
      BY <2>9, GotoType DEF Submit, Phase
    <3> QED
      BY <3>1 DEF Role
  <2>10. CASE QueueFull(e)
    <3>1. phase[e] = "answered" /\ phase'[e] = "persist" /\ spool' = spool
      BY <2>10, GotoType DEF QueueFull, Phase, Persisting
    <3>2. /\ rec'[e].user = rec[e].user /\ rec'[e].skip = rec[e].skip
          /\ rec'[e].spooled = rec[e].spooled
      BY <2>10, QueueFullRecord, RecordFields DEF Record
    <3> QED
      BY <3>1, <3>2 DEF Role
  <2> QED
    BY <2>1, <2>2, <2>3, <2>4, <2>5, <2>6, <2>7, <2>8, <2>9, <2>10 DEF HandlerStep, Enqueue
<1> QED
  BY <1>3, <1>4, <1>5 DEF Local

\* A record is the same after the channel as before.
LEMMA TakeLocal ==
    ASSUME TypeOK, PersistedByOne, NEW w \in Worker, Take(w), NEW e \in Exchange, Local(e)
    PROVE  Local(e)'
<1>1. Head(queue) = queue[1] /\ 1 \in DOMAIN queue /\ Head(queue) \in Exchange
  BY HeadTailProperties DEF Take, TypeOK
<1>2. UNCHANGED <<rec, uris, blobs, rows, spool>>
  BY DEF Take, storeVars
<1>3. CASE e = Head(queue)
  <2>1. phase[e] = "queued" /\ phase'[e] = "persist"
    BY <1>1, <1>3, GotoType DEF Take, PersistedByOne, Phase, Persisting
  <2> QED
    BY <1>2, <2>1 DEF Local, RecordAtPlace, StoredAtPlace, GapsAtPlace, SpoolAtPlace,
                      NoBlobs, MetaOnly, Unread, Unwritten, InHandler, Role, Persisting
<1>4. CASE e # Head(queue)
  <2>1. Same(e)
    BY <1>1, <1>2, <1>4 DEF Take, Goto, TypeOK, Same
  <2> QED
    BY <2>1, SameLocal
<1> QED
  BY <1>3, <1>4

\* An exit takes the exchange away and leaves what was stored of it.
LEMMA ExitLocal ==
    ASSUME TypeOK, Exit, NEW e \in Exchange, Local(e)
    PROVE  Local(e)'
<1>1. /\ UNCHANGED <<rec, uris, blobs, rows, spool>>
      /\ phase'[e] = IF phase[e] \in {"idle"} \cup Terminal THEN phase[e] ELSE "lost"
  BY DEF Exit, storeVars
<1>2. CASE phase'[e] = phase[e]
  BY <1>1, <1>2, SameLocal DEF Same
<1>3. CASE phase'[e] = "lost" /\ phase[e] \notin {"idle"} \cup Terminal
  BY <1>1, <1>3 DEF Local, RecordAtPlace, StoredAtPlace, GapsAtPlace, SpoolAtPlace,
                    NoBlobs, MetaOnly, Unread, Unwritten, InHandler, Role, Persisting, Terminal
<1> QED
  BY <1>1, <1>2, <1>3

\* Persist before the first blob.
LEMMA BeginLocal ==
    ASSUME TypeOK, NEW e \in Exchange, Local(e),
           LogOnly(e) \/ PersistMeta(e) \/ LoadBodies(e)
    PROVE  Local(e)'
<1>1. /\ phase[e] = "persist" /\ uris[e] = {} /\ rows[e] = NoRow /\ NoBlobs(e)
      /\ rec[e].skip = "" => rec[e].user
      /\ e \in spool => rec[e].spooled /\ rec[e].skip = ""
      /\ UNCHANGED <<uris, blobs, rows, spool>>
  BY DEF Local, RecordAtPlace, StoredAtPlace, SpoolAtPlace, Unwritten, Persisting,
         LogOnly, PersistMeta, LoadBodies, storeVars
<1>2. CASE LogOnly(e)
  <2>1. phase'[e] = "done" /\ rec' = rec /\ rec[e].skip # ""
    BY <1>2, GotoType DEF LogOnly, Phase, Terminal
  <2> QED
    BY <1>1, <2>1 DEF Local, RecordAtPlace, StoredAtPlace, GapsAtPlace, SpoolAtPlace,
                      NoBlobs, Unwritten, InHandler, Role
<1>3. CASE PersistMeta(e)
  <2>1. phase'[e] = "insert" /\ rec' = rec /\ MetaOnly(e) /\ rec[e].user
    BY <1>1, <1>3, GotoType DEF PersistMeta, Phase, Persisting
  <2>2. MetaOnly(e)'
    BY <2>1 DEF MetaOnly
  <2> QED
    BY <1>1, <2>1, <2>2 DEF Local, RecordAtPlace, StoredAtPlace, GapsAtPlace, SpoolAtPlace,
                            NoBlobs, Unwritten, InHandler, Role, Persisting
<1>4. CASE LoadBodies(e)
  <2>1. phase'[e] = "client_request" /\ ~MetaOnly(e)
    BY <1>4, GotoType DEF LoadBodies, Phase, Persisting, Role
  <2>2. /\ rec'[e].user = rec[e].user /\ rec'[e].skip = rec[e].skip
        /\ rec'[e].storeError = rec[e].storeError
        /\ rec'[e].spooled = rec[e].spooled /\ rec'[e].payload = rec[e].payload
    BY <1>4, LoadBodiesRecord, RecordFields DEF Record
  <2>3. ~MetaOnly(e)' /\ rec'[e].skip = ""
    BY <2>1, <2>2 DEF MetaOnly
  <2>4. (rec'[e].payload \cap Indexed) \ rec'[e].body \subseteq Unread(e)'
    BY <1>4, <2>2, LoadBodiesRecord DEF Unread
  <2>5. RecordAtPlace(e)' /\ StoredAtPlace(e)' /\ SpoolAtPlace(e)'
    BY <1>1, <2>1, <2>2, <2>3 DEF RecordAtPlace, StoredAtPlace, SpoolAtPlace,
                                  Unwritten, InHandler, Role, Persisting
  <2>6. GapsAtPlace(e)'
    BY <1>1, <2>1, <2>4 DEF GapsAtPlace, Before
  <2> QED
    BY <2>5, <2>6 DEF Local
<1> QED
  BY <1>2, <1>3, <1>4

\* A stage of Persist: no later stage forgets what an earlier one stored.
LEMMA StageLocal ==
    ASSUME TypeOK, NEW e \in Exchange, Local(e), NoBlob(e) \/ WriteBlob(e) \/ BlobFails(e)
    PROVE  Local(e)'
<1> DEFINE p == phase[e]
           q == NextStage[phase[e]]
<1>1. /\ p \in Role /\ phase'[e] = q
      /\ UNCHANGED <<rows, spool>>
  <2>1. p \in Role /\ Goto(e, q) /\ UNCHANGED <<rows, spool>>
    BY DEF NoBlob, WriteBlob, BlobFails, storeVars
  <2> QED
    BY <2>1, NextStagePhase, GotoType
<1>2. /\ q \in (Role \ {"client_request"}) \cup {"insert"}
      /\ Before(q) = Before(p) \cup ({p} \cap Indexed)
  <2>1. CASE p = "client_request"
    BY <2>1 DEF NextStage, Role, Before, Indexed
  <2>2. CASE p = "request_headers"
    BY <2>2 DEF NextStage, Role, Before, Indexed
  <2>3. CASE p = "response"
    BY <2>3 DEF NextStage, Role, Before, Indexed
  <2>4. CASE p = "upstream_sse_raw"
    BY <2>4 DEF NextStage, Role, Before, Indexed
  <2> QED
    BY <1>1, <2>1, <2>2, <2>3, <2>4 DEF Role
<1>3. /\ ~MetaOnly(e) /\ rec[e].skip = "" /\ rec[e].user /\ rows[e] = NoRow
      /\ e \in spool => rec[e].spooled
      /\ \A r \in uris[e] : <<e, r>> \in blobs
      /\ (rec[e].payload \cap Indexed) \ rec[e].body \subseteq Unread(e)
      /\ rec[e].storeError = "" => rec[e].body \cap Before(p) \subseteq uris[e]
  BY <1>1 DEF Local, RecordAtPlace, StoredAtPlace, GapsAtPlace, SpoolAtPlace, MetaOnly,
              Role, Persisting
<1>4. /\ rec'[e].user = rec[e].user /\ rec'[e].skip = rec[e].skip
      /\ rec'[e].spooled = rec[e].spooled /\ rec'[e].payload = rec[e].payload
      /\ rec'[e].body = rec[e].body
      /\ rec'[e].storeError \in {rec[e].storeError, "blob_error"}
  <2>1. CASE BlobFails(e)
    BY <2>1, BlobFailsRecord, RecordFields DEF Record
  <2> QED
    BY <2>1 DEF NoBlob, WriteBlob
<1>5. ~MetaOnly(e)'
  BY <1>3, <1>4 DEF MetaOnly
<1>6. \A r \in uris'[e] : <<e, r>> \in blobs'
  <2>1. CASE WriteBlob(e)
    <3>1. uris'[e] = uris[e] \cup ({p} \cap Indexed) /\ blobs' = blobs \cup {<<e, p>>}
      BY <2>1 DEF WriteBlob, TypeOK
    <3> QED
      BY <1>3, <3>1
  <2> QED
    BY <1>3, <2>1 DEF NoBlob, BlobFails, storeVars
<1>7. rec'[e].storeError = "" => rec'[e].body \cap Before(q) \subseteq uris'[e]
  <2>1. CASE NoBlob(e)
    <3>1. p \notin rec[e].body /\ uris' = uris /\ rec' = rec
      BY <2>1 DEF NoBlob, storeVars
    <3> QED
      BY <1>2, <1>3, <3>1
  <2>2. CASE WriteBlob(e)
    <3>1. uris'[e] = uris[e] \cup ({p} \cap Indexed) /\ rec' = rec
      BY <2>2 DEF WriteBlob, TypeOK
    <3> QED
      BY <1>2, <1>3, <3>1
  <2>3. CASE BlobFails(e)
    <3>1. uris' = uris
      BY <2>3 DEF BlobFails, storeVars
    <3>2. rec'[e].storeError = "" => p \notin Indexed /\ rec[e].storeError = ""
      BY <2>3, BlobFailsRecord
    <3> QED
      BY <1>2, <1>3, <1>4, <3>1, <3>2
  <2> QED
    BY <2>1, <2>2, <2>3
<1>8. RecordAtPlace(e)' /\ SpoolAtPlace(e)'
  BY <1>1, <1>2, <1>3, <1>4, <1>5 DEF RecordAtPlace, SpoolAtPlace, Role, Persisting
<1>9. StoredAtPlace(e)'
  BY <1>1, <1>2, <1>3, <1>4, <1>5, <1>6
     DEF StoredAtPlace, Unwritten, InHandler, Role
<1>10. GapsAtPlace(e)'
  <2>1. Unread(e)' = Unread(e)
    BY <1>4 DEF Unread
  <2> QED
    BY <1>1, <1>2, <1>3, <1>4, <1>7, <2>1 DEF GapsAtPlace
<1> QED
  BY <1>8, <1>9, <1>10 DEF Local

\* insertMeta and the end of Persist.
LEMMA InsertLocal ==
    ASSUME TypeOK, NEW e \in Exchange, Local(e), InsertRow(e) \/ InsertFails(e)
    PROVE  Local(e)'
<1>1. phase[e] = "insert" /\ UNCHANGED <<rec, uris, blobs, spool>> /\ Return(e)
  BY DEF InsertRow, InsertFails, storeVars
<1>2. /\ MetaOnly(e) => phase'[e] = "done"
      /\ ~MetaOnly(e) => phase'[e] = "unlink"
  BY <1>1, GotoType DEF Return, Phase, Terminal, Persisting
<1>3. /\ rec[e].user /\ rows[e] = NoRow
      /\ e \in spool => rec[e].spooled /\ rec[e].skip = ""
      /\ \A r \in uris[e] : <<e, r>> \in blobs
      /\ rec[e].skip # "" => NoBlobs(e)
  BY <1>1 DEF Local, RecordAtPlace, StoredAtPlace, SpoolAtPlace, Persisting
<1>4. rows'[e] # NoRow =>
        /\ rows'[e].uris = uris[e] /\ rows'[e].skip = rec[e].skip
        /\ rows'[e].storeError = rec[e].storeError
  <2>1. CASE InsertRow(e)
    <3>1. rows'[e] = [uris |-> uris[e], skip |-> rec[e].skip,
                      storeError |-> rec[e].storeError]
      BY <2>1 DEF InsertRow, TypeOK
    <3> QED
      BY <3>1
  <2>2. CASE InsertFails(e)
    BY <1>3, <2>2 DEF InsertFails, storeVars
  <2> QED
    BY <2>1, <2>2
<1>5. RecordAtPlace(e)' /\ SpoolAtPlace(e)'
  BY <1>1, <1>2, <1>3 DEF RecordAtPlace, SpoolAtPlace, MetaOnly, Role
<1>6. StoredAtPlace(e)'
  BY <1>1, <1>2, <1>3, <1>4 DEF StoredAtPlace, NoBlobs, Unwritten, InHandler
<1>7. GapsAtPlace(e)'
  <2>1. CASE MetaOnly(e)
    BY <1>1, <1>2, <1>4, <2>1 DEF GapsAtPlace, MetaOnly, Role
  <2>2. CASE ~MetaOnly(e)
    <3>1. /\ (rec[e].payload \cap Indexed) \ rec[e].body \subseteq Unread(e)
          /\ rec[e].storeError = "" => rec[e].body \cap Indexed \subseteq uris[e]
      BY <1>1, <2>2 DEF Local, GapsAtPlace, Before
    <3>2. Unread(e)' = Unread(e)
      BY <1>1 DEF Unread
    <3> QED
      BY <1>1, <1>2, <1>4, <2>2, <3>1, <3>2 DEF GapsAtPlace, Role
  <2> QED
    BY <2>1, <2>2
<1> QED
  BY <1>5, <1>6, <1>7 DEF Local

\* The end of Persist: the spool file is gone.
LEMMA UnlinkLocal ==
    ASSUME TypeOK, NEW e \in Exchange, Local(e), Unlink(e)
    PROVE  Local(e)'
<1>1. phase[e] = "unlink" /\ phase'[e] = "done" /\ UNCHANGED <<rec, uris, blobs, rows>>
  BY GotoType DEF Unlink, storeVars, Phase, Terminal
<1>2. e \notin spool'
  BY <1>1 DEF Unlink, Local, SpoolAtPlace, Persisting
<1>3. RecordAtPlace(e)' /\ StoredAtPlace(e)' /\ SpoolAtPlace(e)'
  BY <1>1, <1>2 DEF Local, RecordAtPlace, StoredAtPlace, SpoolAtPlace, NoBlobs, MetaOnly,
                    Unwritten, InHandler, Role
<1>4. GapsAtPlace(e)'
  BY <1>1 DEF Local, GapsAtPlace, Unread, Role
<1> QED
  BY <1>3, <1>4 DEF Local

\* Every step keeps Local for every exchange.
LEMMA LocalStep == Inv /\ [Next]_vars => \A e \in Exchange : Local(e)'
<1> SUFFICES ASSUME Inv, [Next]_vars, NEW f \in Exchange PROVE Local(f)'
  OBVIOUS
<1>1. TypeOK /\ PersistedByOne /\ Local(f)
  BY DEF Inv
<1>2. ASSUME NEW e \in Exchange, HandlerStep(e) \/ Enqueue(e) PROVE Local(f)'
  <2>1. CASE f = e
    BY <1>1, <1>2, <2>1, HandlerLocal
  <2>2. CASE f # e
    BY <1>1, <1>2, <2>2, HandlerSame, SameLocal
  <2> QED
    BY <2>1, <2>2
<1>3. ASSUME NEW e \in Exchange, PersistStep(e) PROVE Local(f)'
  <2>1. CASE f = e
    BY <1>1, <1>3, <2>1, BeginLocal, StageLocal, InsertLocal, UnlinkLocal DEF PersistStep
  <2>2. CASE f # e
    BY <1>1, <1>3, <2>2, PersistSame, SameLocal
  <2> QED
    BY <2>1, <2>2
<1>4. ASSUME NEW w \in Worker, Take(w) PROVE Local(f)'
  BY <1>1, <1>4, TakeLocal
<1>5. CASE Exit
  BY <1>1, <1>5, ExitLocal
<1>6. CASE UNCHANGED vars
  BY <1>1, <1>6, SameLocal DEF vars, storeVars, Same
<1> QED
  BY <1>2, <1>3, <1>4, <1>5, <1>6 DEF Next

----------------------------------------------------------------------------
(***************************************************************************)
(* Inv holds in every state: no interleaving of handlers, workers, storage *)
(* failures and process exits leaves it.                                   *)
(***************************************************************************)
THEOREM Invariance == Spec => []Inv
<1>1. Inv /\ [Next]_vars => Inv'
  BY TypeStep, OneStep, LocalStep DEF Inv
<1> QED
  BY InitInv, <1>1, PTL DEF Spec

\* Every variable keeps its type; in particular the channel never holds more
\* than QueueSize records.
THEOREM TypeCorrect == Spec => []TypeOK
<1>1. Inv => TypeOK
  BY DEF Inv
<1> QED
  BY Invariance, <1>1, PTL

\* A record is persisted by one goroutine and at most once, a worker persists
\* one record at a time.
THEOREM OnePersister == Spec => []PersistedByOne
<1>1. Inv => PersistedByOne
  BY DEF Inv
<1> QED
  BY Invariance, <1>1, PTL

\* No row, and no row about to be written, refers to a blob that is missing.
THEOREM NoDanglingReference == Spec => []RowsReferenceBlobs
<1>1. Inv => RowsReferenceBlobs
  BY DEF Inv, Local, StoredAtPlace, RowsReferenceBlobs
<1> QED
  BY Invariance, <1>1, PTL

\* Of a skipped exchange no body is stored, without a user there is no row.
THEOREM SkippedHasNoBody == Spec => []SkippedStoresNoBody
<1>1. Inv => SkippedStoresNoBody
  BY DEF Inv, Local, StoredAtPlace, NoBlobs, SkippedStoresNoBody
<1> QED
  BY Invariance, <1>1, PTL

\* A row without skip reason and store error refers to every relayed body,
\* but for a response whose spool file could not be read.
THEOREM RowsAccountForGaps == Spec => []GapsExplained
<1>1. Inv => GapsExplained
  BY DEF Inv, Local, GapsAtPlace, Unread, GapsExplained
<1> QED
  BY Invariance, <1>1, PTL

\* A spool file outlives its exchange only through a process exit or a full
\* queue.
THEOREM SpoolIsAccounted == Spec => []SpoolAccounted
<1>1. Inv => SpoolAccounted
  BY DEF Inv, TypeOK, Phase, InHandler, Terminal, Local, SpoolAtPlace, SpoolAccounted
<1> QED
  BY Invariance, <1>1, PTL

----------------------------------------------------------------------------
(* The pipeline implements the ledger. *)

\* What leaves rows and blobs alone can only finish exchanges.
LEMMA CloseStep ==
    ASSUME UNCHANGED <<rows, blobs>>,
           \A e \in Exchange : phase[e] \in Terminal => phase'[e] \in Terminal
    PROVE  Ledger!Next
<1>1. \A e \in Exchange : LedgerRow(e)' = LedgerRow(e)
  BY DEF LedgerRow
<1>2. PICK S \in SUBSET Exchange : S = {e \in Exchange : phase'[e] \in Terminal}
  OBVIOUS
<1>3. {e \in Exchange : phase'[e] \in Terminal} = {e \in Exchange : phase[e] \in Terminal} \cup S
  BY <1>2
<1>4. Ledger!Close(S)
  BY <1>1, <1>3 DEF Ledger!Close
<1> QED
  BY <1>4, Zenon DEF Ledger!Next

\* WriteBlob is StoreBlob: there is no row yet.
LEMMA WriteBlobStores ==
    ASSUME Inv, NEW e \in Exchange, WriteBlob(e)
    PROVE  Ledger!Next
<1>1. /\ phase[e] \in Role /\ phase[e] \notin Terminal /\ rows[e] = NoRow
      /\ blobs' = blobs \cup {<<e, phase[e]>>} /\ rows' = rows
  BY DEF WriteBlob, Inv, Local, StoredAtPlace, Role, Terminal
<1>2. \A f \in Exchange : phase'[f] \in Terminal <=> phase[f] \in Terminal
  <2>1. NextStage[phase[e]] \notin Terminal
    BY <1>1 DEF NextStage, Role, Terminal
  <2>2. phase'[e] \notin Terminal /\ \A f \in Exchange \ {e} : phase'[f] = phase[f]
    BY <1>1, <2>1, NextStagePhase, GotoType DEF WriteBlob, Inv
  <2> QED
    BY <1>1, <2>2
<1>3. {f \in Exchange : phase'[f] \in Terminal} = {f \in Exchange : phase[f] \in Terminal}
  BY <1>2
<1>4. \A f \in Exchange : LedgerRow(f)' = LedgerRow(f)
  BY <1>1 DEF LedgerRow
<1>5. LedgerRow(e) = NoRow
  BY <1>1 DEF LedgerRow
<1>6. Ledger!StoreBlob(e, phase[e])
  BY <1>1, <1>3, <1>4, <1>5 DEF Ledger!StoreBlob
<1> QED
  BY <1>1, <1>6 DEF Ledger!Next

\* InsertRow is StoreRow: what the row refers to is stored.
LEMMA InsertRowStores ==
    ASSUME Inv, NEW e \in Exchange, InsertRow(e)
    PROVE  Ledger!Next
<1> DEFINE row == [uris |-> uris[e], skip |-> rec[e].skip, storeError |-> rec[e].storeError]
           closed == {f \in Exchange : phase[f] \in Terminal}
<1>1. /\ phase[e] = "insert" /\ rows[e] = NoRow /\ uris[e] \subseteq Indexed
      /\ \A r \in uris[e] : <<e, r>> \in blobs
      /\ rec[e].skip # "" => \A r \in Role : <<e, r>> \notin blobs
  BY RowType DEF InsertRow, Inv, Local, StoredAtPlace, NoBlobs
<1>2. rows' = [rows EXCEPT ![e] = row] /\ blobs' = blobs /\ Return(e)
  BY DEF InsertRow
<1>3. \A f \in Exchange \ {e} : phase'[f] = phase[f] /\ rows'[f] = rows[f]
  BY <1>2 DEF Return, Goto, Inv, TypeOK
<1>4. e \notin closed /\ \A f \in Exchange : phase[f] \in Terminal => phase'[f] \in Terminal
  BY <1>1, <1>3 DEF Terminal
<1>5. CASE row = NoRow
  <2>1. rows' = rows
    BY <1>1, <1>2, <1>5 DEF Inv, TypeOK
  <2> QED
    BY <1>2, <1>4, <2>1, CloseStep
<1>6. CASE row # NoRow
  <2>1. PICK skipped \in BOOLEAN, failed \in BOOLEAN :
          skipped = (row.skip # "") /\ failed = (row.storeError # "")
    BY Zenon
  <2>2. rows'[e] = row
    BY <1>2 DEF Inv, TypeOK
  <2>3. PICK entry \in Ledger!Row :
          /\ LedgerRow(e)' = entry
          /\ entry.uris = uris[e] /\ entry.skipped = skipped
    <3>1. LedgerRow(e)' = [uris    |-> row.uris,
                           skipped |-> row.skip # "",
                           failed  |-> row.storeError # ""]
      BY <1>6, <2>2, Zenon DEF LedgerRow
    <3>2. row.uris = uris[e]
      OBVIOUS
    <3> DEFINE r == [uris |-> uris[e], skipped |-> skipped, failed |-> failed]
    <3>3. LedgerRow(e)' = r
      BY <2>1, <3>1, <3>2, Zenon
    <3>4. r \in Ledger!Row /\ r.uris = uris[e] /\ r.skipped = skipped
      BY <1>1 DEF Ledger!Row
    <3> QED
      BY <3>3, <3>4
  <2>4. \A f \in Exchange \ {e} : LedgerRow(f)' = LedgerRow(f)
    BY <1>3 DEF LedgerRow
  <2>5. [f \in Exchange |-> LedgerRow(f)'] =
          [[f \in Exchange |-> LedgerRow(f)] EXCEPT ![e] = entry]
    BY <2>3, <2>4
  <2>6. {f \in Exchange : phase'[f] \in Terminal} \in {closed, closed \cup {e}}
    <3>1. CASE phase'[e] \in Terminal
      <4>1. {f \in Exchange : phase'[f] \in Terminal} = closed \cup {e}
        BY <1>3, <3>1
      <4> QED
        BY <4>1
    <3>2. CASE phase'[e] \notin Terminal
      <4>1. {f \in Exchange : phase'[f] \in Terminal} = closed
        BY <1>3, <1>4, <3>2
      <4> QED
        BY <4>1
    <3> QED
      BY <3>1, <3>2
  <2>7. skipped => rec[e].skip # ""
    BY <2>1
  <2>8. LedgerRow(e) = NoRow
    BY <1>1 DEF LedgerRow
  <2>9. Ledger!StoreRow(e, entry)
    BY <1>1, <1>2, <1>4, <2>3, <2>5, <2>6, <2>7, <2>8 DEF Ledger!StoreRow
  <2>10. \E f \in Exchange, r \in Ledger!Row : Ledger!StoreRow(f, r)
    BY <2>3, <2>9, Zenon
  <2> QED
    BY <2>10, Zenon DEF Ledger!Next
<1> QED
  BY <1>5, <1>6

\* Every step of the pipeline is a step of the ledger or a stutter.
LEMMA LedgerStep ==
    ASSUME Inv, [Next]_vars
    PROVE  Ledger!Next \/ UNCHANGED <<[e \in Exchange |-> LedgerRow(e)], blobs,
                                      {e \in Exchange : phase[e] \in Terminal}>>
<1>1. CASE UNCHANGED vars
  <2>1. \A e \in Exchange : LedgerRow(e)' = LedgerRow(e)
    BY <1>1 DEF vars, storeVars, LedgerRow
  <2> QED
    BY <1>1, <2>1 DEF vars, storeVars
<1>2. ASSUME NEW e \in Exchange, WriteBlob(e) \/ InsertRow(e) PROVE Ledger!Next
  BY <1>2, WriteBlobStores, InsertRowStores
<1>3. ASSUME NEW e \in Exchange,
             HandlerStep(e) \/ Enqueue(e) \/ (PersistStep(e) /\ ~WriteBlob(e) /\ ~InsertRow(e))
      PROVE  Ledger!Next
  <2>1. UNCHANGED <<rows, blobs>>
    BY <1>3 DEF HandlerStep, Enqueue, Bypass, PassThrough, BadBody, Accept, UpstreamDown,
                Spill, RelayFails, RelayDone, Submit, QueueFull, PersistStep, LogOnly,
                PersistMeta, LoadBodies, NoBlob, BlobFails, InsertFails, Unlink, storeVars
  <2>2. \A f \in Exchange \ {e} : phase'[f] = phase[f]
    BY <1>3, HandlerSame, PersistSame DEF Inv, Same
  <2>3. phase[e] \notin Terminal \/ phase' = phase
    BY <1>3 DEF HandlerStep, Enqueue, Bypass, PassThrough, BadBody, Accept, UpstreamDown,
                Spill, RelayFails, RelayDone, Submit, QueueFull, PersistStep, LogOnly,
                PersistMeta, LoadBodies, NoBlob, BlobFails, InsertFails, Unlink,
                Terminal, Role
  <2> QED
    BY <2>1, <2>2, <2>3, CloseStep
<1>4. ASSUME NEW w \in Worker, Take(w) PROVE Ledger!Next
  <2>1. Head(queue) = queue[1] /\ 1 \in DOMAIN queue /\ Head(queue) \in Exchange
    BY <1>4, HeadTailProperties DEF Take, Inv, TypeOK
  <2>2. phase[Head(queue)] \notin Terminal
    BY <2>1 DEF Inv, PersistedByOne, Terminal
  <2>3. \A e \in Exchange : phase[e] \in Terminal => phase'[e] \in Terminal
    BY <1>4, <2>2 DEF Take, Goto, Inv, TypeOK
  <2> QED
    BY <1>4, <2>3, CloseStep DEF Take, storeVars
<1>5. CASE Exit
  <2>1. \A e \in Exchange : phase[e] \in Terminal => phase'[e] \in Terminal
    BY <1>5 DEF Exit
  <2> QED
    BY <1>5, <2>1, CloseStep DEF Exit, storeVars
<1> QED
  BY <1>1, <1>2, <1>3, <1>4, <1>5 DEF Next, PersistStep

\* Blobs before the row, one row that never changes, and nothing written for
\* an exchange that is finished, whatever fails and whenever the process exits.
THEOREM PipelineImplementsLedger == Spec => ImplementsLedger
<1>1. Init => Ledger!Init
  BY DEF Init, Ledger!Init, LedgerRow, Terminal
<1>2. Inv /\ [Next]_vars =>
        [Ledger!Next]_<<[e \in Exchange |-> LedgerRow(e)], blobs,
                        {e \in Exchange : phase[e] \in Terminal}>>
  BY LedgerStep
<1> QED
  BY <1>1, <1>2, Invariance, PTL DEF Spec, ImplementsLedger, Ledger!Spec
\* A blob stays; a row, once there, is neither replaced nor followed by
\* another blob of its exchange, so what it says of the bodies stays true.
THEOREM RowsAreFinal ==
    Spec => [][/\ blobs \subseteq blobs'
               /\ \A e \in Exchange : rows[e] # NoRow =>
                     /\ rows'[e] = rows[e]
                     /\ \A r \in Role : <<e, r>> \in blobs' => <<e, r>> \in blobs]_vars
<1> DEFINE Final == /\ blobs \subseteq blobs'
                    /\ \A e \in Exchange : rows[e] # NoRow =>
                          /\ rows'[e] = rows[e]
                          /\ \A r \in Role : <<e, r>> \in blobs' => <<e, r>> \in blobs
<1>1. Inv /\ [Next]_vars => [Final]_vars
  <2> SUFFICES ASSUME Inv, Next PROVE Final
    OBVIOUS
  <2>1. ASSUME NEW e \in Exchange, WriteBlob(e) PROVE Final
    <3>1. rows[e] = NoRow /\ rows' = rows /\ blobs' = blobs \cup {<<e, phase[e]>>}
      BY <2>1 DEF WriteBlob, Inv, Local, StoredAtPlace, Role, Terminal
    <3> QED BY <3>1
  <2>2. ASSUME NEW e \in Exchange, InsertRow(e) PROVE Final
    <3>1. rows[e] = NoRow /\ blobs' = blobs
      BY <2>2 DEF InsertRow, Inv, Local, StoredAtPlace
    <3>2. \A f \in Exchange \ {e} : rows'[f] = rows[f]
      BY <2>2 DEF InsertRow, Inv, TypeOK
    <3> QED BY <3>1, <3>2
  <2>3. ASSUME NEW e \in Exchange,
               HandlerStep(e) \/ Enqueue(e)
                  \/ (PersistStep(e) /\ ~WriteBlob(e) /\ ~InsertRow(e))
        PROVE  Final
    BY <2>3 DEF HandlerStep, Enqueue, Bypass, PassThrough, BadBody, Accept, UpstreamDown,
                Spill, RelayFails, RelayDone, Submit, QueueFull, PersistStep, LogOnly,
                PersistMeta, LoadBodies, NoBlob, BlobFails, InsertFails, Unlink, storeVars
  <2>4. ASSUME NEW w \in Worker, Take(w) PROVE Final
    BY <2>4 DEF Take, storeVars
  <2>5. CASE Exit
    BY <2>5 DEF Exit, storeVars
  <2> QED BY <2>1, <2>2, <2>3, <2>4, <2>5 DEF Next
<1> HIDE DEF Final
<1>2. Spec => [][Final]_vars
  BY <1>1, Invariance, PTL DEF Spec
<1> QED BY <1>2 DEF Final
============================================================================
