---------------------------- MODULE TapPipeline ----------------------------
(***************************************************************************)
(* From a captured request to its row: the corpus-tap data path.           *)
(*                                                                         *)
(*   handleCapture / forwardAndEnqueue / enqueue   internal/proxy/server.go*)
(*   Queue, its workers and Submit                 internal/capture/queue.go*)
(*   Recorder.Persist and insertMeta               internal/capture/record.go*)
(*                                                                         *)
(* Every exchange has its own HTTP handler goroutine.  The handler answers *)
(* the client and submits a record to a bounded channel; a worker takes it *)
(* and persists it, blobs first and the database row last.  When the       *)
(* channel is full the handler persists the record itself.  Nothing is     *)
(* written ahead: what is in the channel or half persisted when the        *)
(* process exits is gone (cmd/corpus-tap/main.go).                         *)
(***************************************************************************)
EXTENDS Naturals, Sequences

CONSTANTS
    Exchange,  \* the captured requests
    Worker,    \* the goroutines NewQueue starts
    QueueSize, \* capacity of Queue.ch
    Payloads,  \* the sets of roles a relayed exchange may have content for
    MaxExits,  \* bound on the number of process exits
    Handler,   \* stands for the exchange's own HTTP handler goroutine
    Nobody,    \* no goroutine
    NoRow      \* no row in http_exchange

(***************************************************************************)
(* The blobs Persist writes, in this order.  Only two of them get a URI    *)
(* in the row: the URIs of the request headers and of the raw SSE copy are *)
(* dropped, as are the errors of writing them.  "response" stands for      *)
(* assembled_stream or upstream_response, which exclude each other.        *)
(***************************************************************************)
Role == {"client_request", "request_headers", "response", "upstream_sse_raw"}
Indexed == {"client_request", "response"}
FromRequest == {"client_request", "request_headers"}

NextStage == [client_request   |-> "request_headers",
              request_headers  |-> "response",
              response         |-> "upstream_sse_raw",
              upstream_sse_raw |-> "insert"]

ASSUME QueueAssumption == QueueSize \in Nat \ {0}
ASSUME ExitAssumption == MaxExits \in Nat
ASSUME PayloadAssumption == Payloads \subseteq SUBSET Role
ASSUME GoroutineAssumption ==
    /\ Handler \notin Worker
    /\ Nobody \notin Worker \cup {Handler}

VARIABLES
    phase,   \* where each exchange is, see Phase
    rec,     \* its capture.Record
    runner,  \* the goroutine inside Persist for it, or Nobody
    queue,   \* Queue.ch
    uris,    \* Persist's local reqURI, respURI and asmURI, as a set of roles
    blobs,   \* the blob store
    rows,    \* http_exchange
    spool,   \* the exchanges that have a file in CORPUS_TAP_SSE_SPOOL_DIR
    exits    \* process exits so far

vars == <<phase, rec, runner, queue, uris, blobs, rows, spool, exits>>

(***************************************************************************)
(* In the handler: "passing" is the reverse proxy of a request that is not *)
(* to be stored, "relaying" the captured one, "answered" a handler about   *)
(* to submit.  In Persist: a role is the blob being written.  "dropped" is *)
(* a request the handler gave no record, "lost" one a process exit took.   *)
(***************************************************************************)
Terminal == {"done", "dropped", "lost"}
Persisting == {"persist", "insert", "unlink"} \cup Role
InHandler == {"relaying", "passing", "answered"}
Phase == {"idle", "queued"} \cup InHandler \cup Persisting \cup Terminal

SkipReason == {"", "denied", "enrich_failed", "oversize", "upstream_error"}
StoreError == {"", "queue_full", "blob_error"}

\* payload is what the handler recorded, body what Persist has in hand; user says
\* whether UserID was set, spooled whether ResponseSpoolPath is.
Record == [user : BOOLEAN, skip : SkipReason, storeError : StoreError,
           payload : SUBSET Role, body : SUBSET Role, spooled : BOOLEAN]

NoRecord == [user |-> FALSE, skip |-> "", storeError |-> "",
             payload |-> {}, body |-> {}, spooled |-> FALSE]

Row == [uris : SUBSET Indexed, skip : SkipReason, storeError : StoreError]

Init ==
    /\ phase = [e \in Exchange |-> "idle"]
    /\ rec = [e \in Exchange |-> NoRecord]
    /\ runner = [e \in Exchange |-> Nobody]
    /\ queue = <<>>
    /\ uris = [e \in Exchange |-> {}]
    /\ blobs = {}
    /\ rows = [e \in Exchange |-> NoRow]
    /\ spool = {}
    /\ exits = 0

Goto(e, p) == phase' = [phase EXCEPT ![e] = p]

storeVars == <<uris, blobs, rows>>

----------------------------------------------------------------------------
(* The HTTP handler. *)

\* Denied or unresolved: UserID is not yet set in the record.  Oversize:
\* it is, and the headers may be.  The reverse proxy forwards all three.
Bypass(e) ==
    /\ phase[e] = "idle"
    /\ \/ \E why \in {"denied", "enrich_failed"} :
             rec' = [rec EXCEPT ![e].skip = why]
       \/ \E p \in Payloads :
             rec' = [rec EXCEPT ![e].skip = "oversize", ![e].user = TRUE,
                                ![e].payload = p \cap {"request_headers"}]
    /\ Goto(e, "passing")
    /\ UNCHANGED <<runner, queue, storeVars, spool, exits>>

\* forwardAndEnqueue: ServeHTTP returns, or panics with ErrAbortHandler
\* when copying the response fails, and then nothing is enqueued.
PassThrough(e) ==
    /\ phase[e] = "passing"
    /\ \E p \in {"answered", "dropped"} : Goto(e, p)
    /\ UNCHANGED <<rec, runner, queue, storeVars, spool, exits>>

\* consumeRequestBody fails: 400 and no record.
BadBody(e) ==
    /\ phase[e] = "idle"
    /\ Goto(e, "dropped")
    /\ UNCHANGED <<rec, runner, queue, storeVars, spool, exits>>

Accept(e) ==
    /\ phase[e] = "idle"
    /\ rec' = [rec EXCEPT ![e].user = TRUE]
    /\ Goto(e, "relaying")
    /\ UNCHANGED <<runner, queue, storeVars, spool, exits>>

\* client.Do fails: 502, and a record that still holds the request.
UpstreamDown(e) ==
    /\ phase[e] = "relaying"
    /\ e \notin spool
    /\ \E p \in Payloads :
          rec' = [rec EXCEPT ![e].skip = "upstream_error",
                             ![e].payload = p \cap FromRequest]
    /\ Goto(e, "answered")
    /\ UNCHANGED <<runner, queue, storeVars, spool, exits>>

\* The capture outgrows its memory limit (ResponseCapture!SpillToSpool).
Spill(e) ==
    /\ phase[e] = "relaying"
    /\ e \notin spool
    /\ spool' = spool \cup {e}
    /\ UNCHANGED <<phase, rec, runner, queue, storeVars, exits>>

\* Fault: the spool file is not removed.
RelayFailsLeaksSpool(e) ==
    /\ phase[e] = "relaying"
    /\ Goto(e, "dropped")
    /\ UNCHANGED <<rec, runner, queue, storeVars, spool, exits>>

\* relayResponse returns an error: its spool file is removed and the
\* handler returns without a record.
RelayFails(e) ==
    /\ phase[e] = "relaying"
    /\ spool' = spool \ {e}
    /\ Goto(e, "dropped")
    /\ UNCHANGED <<rec, runner, queue, storeVars, exits>>

RelayDone(e) ==
    /\ phase[e] = "relaying"
    /\ \E p \in Payloads :
          /\ e \in spool => "response" \in p
          /\ rec' = [rec EXCEPT ![e].payload = p, ![e].spooled = (e \in spool)]
    /\ Goto(e, "answered")
    /\ UNCHANGED <<runner, queue, storeVars, spool, exits>>

\* Fault: the channel has no capacity.
SubmitUnbounded(e) ==
    /\ phase[e] = "answered"
    /\ queue' = Append(queue, e)
    /\ Goto(e, "queued")
    /\ UNCHANGED <<rec, runner, storeVars, spool, exits>>

\* Fault: the handler persists what it has also submitted.
SubmitAndPersist(e) ==
    /\ phase[e] = "answered"
    /\ Len(queue) < QueueSize
    /\ queue' = Append(queue, e)
    /\ runner' = [runner EXCEPT ![e] = Handler]
    /\ Goto(e, "persist")
    /\ UNCHANGED <<rec, storeVars, spool, exits>>

\* enqueue: Submit succeeds.
Submit(e) ==
    /\ phase[e] = "answered"
    /\ Len(queue) < QueueSize
    /\ queue' = Append(queue, e)
    /\ Goto(e, "queued")
    /\ UNCHANGED <<rec, runner, storeVars, spool, exits>>

\* Fault: a record that meets a full channel is taken for a queued one.
QueueFullDrops(e) ==
    /\ phase[e] = "answered"
    /\ Len(queue) >= QueueSize
    /\ Goto(e, "queued")
    /\ UNCHANGED <<rec, runner, queue, storeVars, spool, exits>>

\* enqueue: the channel is full, and the handler calls Persist itself.
QueueFull(e) ==
    /\ phase[e] = "answered"
    /\ Len(queue) >= QueueSize
    /\ rec' = [rec EXCEPT ![e].storeError = "queue_full"]
    /\ runner' = [runner EXCEPT ![e] = Handler]
    /\ Goto(e, "persist")
    /\ UNCHANGED <<queue, storeVars, spool, exits>>

----------------------------------------------------------------------------
(* Persist, on the goroutine runner[e]. *)

Free(w) == \A e \in Exchange : runner[e] # w

\* A worker's range loop receives the next record.
Take(w) ==
    /\ Free(w)
    /\ queue # <<>>
    /\ LET e == Head(queue)
       IN  /\ runner' = [runner EXCEPT ![e] = w]
           /\ Goto(e, "persist")
    /\ queue' = Tail(queue)
    /\ UNCHANGED <<rec, storeVars, spool, exits>>

\* Fault: the skip reason is not looked at.
MetaOnlyQueueFull(e) == rec[e].storeError = "queue_full"

MetaOnly(e) == rec[e].skip # "" \/ rec[e].storeError = "queue_full"

\* A skipped exchange without user_id is only logged.
LogOnly(e) ==
    /\ phase[e] = "persist"
    /\ rec[e].skip # ""
    /\ ~rec[e].user
    /\ runner' = [runner EXCEPT ![e] = Nobody]
    /\ Goto(e, "done")
    /\ UNCHANGED <<rec, queue, storeVars, spool, exits>>

\* Fault: a skipped exchange gets a row whoever sent it.
PersistMetaAnyUser(e) ==
    /\ phase[e] = "persist"
    /\ MetaOnly(e)
    /\ Goto(e, "insert")
    /\ UNCHANGED <<rec, runner, queue, storeVars, spool, exits>>

\* A skipped exchange of a known user, and any that met a full queue:
\* insertMeta without URIs.
PersistMeta(e) ==
    /\ phase[e] = "persist"
    /\ MetaOnly(e)
    /\ rec[e].skip # "" => rec[e].user
    /\ Goto(e, "insert")
    /\ UNCHANGED <<rec, runner, queue, storeVars, spool, exits>>

\* Everything else: load the bodies.  When the spool file cannot be read
\* the response stays empty and no error is noted.  main ends when there is
\* no blob backend, so Persist always has one.
LoadBodies(e) ==
    /\ phase[e] = "persist"
    /\ ~MetaOnly(e)
    /\ \E body \in {rec[e].payload} \cup
                   (IF rec[e].spooled
                    THEN {rec[e].payload \ {"response", "upstream_sse_raw"}}
                    ELSE {}) :
          rec' = [rec EXCEPT ![e].body = body]
    /\ Goto(e, "client_request")
    /\ UNCHANGED <<runner, queue, storeVars, spool, exits>>

\* One stage of Persist: nothing to write, written, or a write error.
NoBlob(e) ==
    /\ phase[e] \in Role \ rec[e].body
    /\ Goto(e, NextStage[phase[e]])
    /\ UNCHANGED <<rec, runner, queue, storeVars, spool, exits>>

WriteBlob(e) ==
    /\ phase[e] \in Role \cap rec[e].body
    /\ blobs' = blobs \cup {<<e, phase[e]>>}
    /\ uris' = [uris EXCEPT ![e] = @ \cup ({phase[e]} \cap Indexed)]
    /\ Goto(e, NextStage[phase[e]])
    /\ UNCHANGED <<rec, runner, queue, rows, spool, exits>>

\* Fault: the URI is kept although the write failed.
BlobFailsKeepsURI(e) ==
    /\ phase[e] \in Role \cap rec[e].body
    /\ uris' = [uris EXCEPT ![e] = @ \cup ({phase[e]} \cap Indexed)]
    /\ Goto(e, NextStage[phase[e]])
    /\ UNCHANGED <<rec, runner, queue, blobs, rows, spool, exits>>

\* Fault: a failed write is not noted in the row.
BlobFailsSilently(e) ==
    /\ phase[e] \in Role \cap rec[e].body
    /\ Goto(e, NextStage[phase[e]])
    /\ UNCHANGED <<rec, runner, queue, storeVars, spool, exits>>

BlobFails(e) ==
    /\ phase[e] \in Role \cap rec[e].body
    /\ rec' = [rec EXCEPT ![e].storeError =
                  IF phase[e] \in Indexed THEN "blob_error" ELSE @]
    /\ Goto(e, NextStage[phase[e]])
    /\ UNCHANGED <<runner, queue, storeVars, spool, exits>>

\* Fault: a record with a blob error is persisted once more.
ReturnRetries(e) ==
    /\ Goto(e, IF rec[e].storeError = "blob_error" THEN "client_request" ELSE "done")
    /\ UNCHANGED runner

\* Persist returns: at once after a metadata row, otherwise through the
\* deferred removal of the spool file.
Return(e) ==
    IF MetaOnly(e)
    THEN /\ runner' = [runner EXCEPT ![e] = Nobody]
         /\ Goto(e, "done")
    ELSE /\ Goto(e, "unlink")
         /\ UNCHANGED runner

\* insertMeta: the row is inserted, or the insert fails (or there is no
\* database) and only a log line remains.
InsertRow(e) ==
    /\ phase[e] = "insert"
    /\ rows' = [rows EXCEPT ![e] = [uris       |-> uris[e],
                                    skip       |-> rec[e].skip,
                                    storeError |-> rec[e].storeError]]
    /\ Return(e)
    /\ UNCHANGED <<rec, queue, uris, blobs, spool, exits>>

InsertFails(e) ==
    /\ phase[e] = "insert"
    /\ Return(e)
    /\ UNCHANGED <<rec, queue, storeVars, spool, exits>>

Unlink(e) ==
    /\ phase[e] = "unlink"
    /\ spool' = spool \ (IF rec[e].spooled THEN {e} ELSE {})
    /\ runner' = [runner EXCEPT ![e] = Nobody]
    /\ Goto(e, "done")
    /\ UNCHANGED <<rec, queue, storeVars, exits>>

----------------------------------------------------------------------------
(***************************************************************************)
(* The process exits, by SIGTERM or a crash, and is started again.  main   *)
(* waits at most 15 s for the handlers and never for the queue or its      *)
(* workers, so any exchange that is under way may be lost.  Files stay.    *)
(***************************************************************************)
Exit ==
    /\ exits < MaxExits
    /\ exits' = exits + 1
    /\ phase' = [e \in Exchange |->
                    IF phase[e] \in {"idle"} \cup Terminal
                    THEN phase[e] ELSE "lost"]
    /\ runner' = [e \in Exchange |-> Nobody]
    /\ queue' = <<>>
    /\ UNCHANGED <<rec, storeVars, spool>>

HandlerStep(e) ==
    \/ Bypass(e)
    \/ PassThrough(e)
    \/ BadBody(e)
    \/ Accept(e)
    \/ UpstreamDown(e)
    \/ Spill(e)
    \/ RelayFails(e)
    \/ RelayDone(e)

Enqueue(e) == Submit(e) \/ QueueFull(e)

PersistStep(e) ==
    \/ LogOnly(e)
    \/ PersistMeta(e)
    \/ LoadBodies(e)
    \/ NoBlob(e)
    \/ WriteBlob(e)
    \/ BlobFails(e)
    \/ InsertRow(e)
    \/ InsertFails(e)
    \/ Unlink(e)

Next ==
    \/ \E e \in Exchange : HandlerStep(e) \/ Enqueue(e) \/ PersistStep(e)
    \/ \E w \in Worker : Take(w)
    \/ Exit

Spec == Init /\ [][Next]_vars

(***************************************************************************)
(* Goroutines that can run do run: a handler that has answered submits, an *)
(* idle worker receives, and Persist goes on.  The last one supposes that  *)
(* each storage call returns: InsertExchange has a 30 s timeout, the blob  *)
(* writes rely on their backend.  Nothing is assumed of clients, upstream, *)
(* or of the success of any call.                                          *)
(***************************************************************************)
Fairness ==
    /\ \A e \in Exchange : WF_vars(Enqueue(e)) /\ WF_vars(PersistStep(e))
    /\ WF_vars(\E w \in Worker : Take(w))

FairSpec == Spec /\ Fairness

----------------------------------------------------------------------------
TypeOK ==
    /\ phase \in [Exchange -> Phase]
    /\ rec \in [Exchange -> Record]
    /\ runner \in [Exchange -> Worker \cup {Handler, Nobody}]
    /\ queue \in Seq(Exchange)
    /\ Len(queue) <= QueueSize
    /\ uris \in [Exchange -> SUBSET Indexed]
    /\ blobs \subseteq Exchange \X Role
    /\ rows \in [Exchange -> Row \cup {NoRow}]
    /\ spool \subseteq Exchange
    /\ exits \in 0 .. MaxExits

(***************************************************************************)
(* A record is persisted by one goroutine and at most once: the channel    *)
(* holds an exchange once and only while it waits, Persist runs on exactly *)
(* one goroutine, and a worker runs one Persist at a time (queue.go 17-23, *)
(* enqueue 246-261: a record that went to the queue is not also persisted  *)
(* by the handler).                                                        *)
(***************************************************************************)
PersistedByOne ==
    /\ \A i, j \in DOMAIN queue : queue[i] = queue[j] => i = j
    /\ \A e \in Exchange :
          /\ phase[e] = "queued" <=> \E i \in DOMAIN queue : queue[i] = e
          /\ phase[e] \in Persisting <=> runner[e] # Nobody
    /\ \A e, f \in Exchange :
          runner[e] = runner[f] /\ runner[e] \in Worker => e = f

(***************************************************************************)
(* The store never holds a dangling reference: every URI in a row, and     *)
(* every URI Persist is about to put in one, names a blob that has been    *)
(* written, whatever calls fail and whenever the process exits             *)
(* (record.go 110-167).                                                    *)
(***************************************************************************)
RowsReferenceBlobs ==
    \A e \in Exchange :
        /\ \A r \in uris[e] : <<e, r>> \in blobs
        /\ rows[e] # NoRow => \A r \in rows[e].uris : <<e, r>> \in blobs

(***************************************************************************)
(* Rules R2, R3 and R5 of DESIGN.md section 6: of a skipped exchange no    *)
(* body reaches the blob store although the record may hold it, on whichever*)
(* goroutine and with whichever store error it is persisted; without a     *)
(* user there is not even a row.                                           *)
(***************************************************************************)
SkippedStoresNoBody ==
    \A e \in Exchange :
        /\ rec[e].skip # "" => \A r \in Role : <<e, r>> \notin blobs
        /\ ~rec[e].user => rows[e] = NoRow

(***************************************************************************)
(* A row accounts for what is missing: without a skip reason and without a *)
(* store error it refers to every body that was relayed, except a response *)
(* whose spool file could not be read (record.go 91-95, 167).          *)
(***************************************************************************)
GapsExplained ==
    \A e \in Exchange :
        rows[e] # NoRow /\ rows[e].skip = "" /\ rows[e].storeError = "" =>
            (rec[e].payload \cap Indexed) \ rows[e].uris \subseteq
                (IF rec[e].spooled THEN {"response"} \ rec[e].body ELSE {})

(***************************************************************************)
(* A spool file is only ever left to an exchange that is still under way,  *)
(* that a process exit took, or whose record met a full queue; a skipped   *)
(* exchange never had one (record.go 97-101, stream.go 140-143).           *)
(***************************************************************************)
SpoolAccounted ==
    \A e \in spool :
        \/ phase[e] \in {"relaying", "answered", "queued", "lost"} \cup Persisting
        \/ rec[e].storeError = "queue_full"

(***************************************************************************)
(* The pipeline implements the ledger: blobs before the row, one row that  *)
(* never changes, nothing written after an exchange is finished.           *)
(***************************************************************************)
LedgerRow(e) ==
    IF rows[e] = NoRow THEN NoRow
    ELSE [uris    |-> rows[e].uris,
          skipped |-> rows[e].skip # "",
          failed  |-> rows[e].storeError # ""]

Ledger == INSTANCE CaptureLedger
    WITH rows   <- [e \in Exchange |-> LedgerRow(e)],
         closed <- {e \in Exchange : phase[e] \in Terminal}

ImplementsLedger == Ledger!Spec

(***************************************************************************)
(* Every exchange whose client was answered is settled: its record is      *)
(* persisted or logged, unless the process exits first.  No combination of *)
(* a full queue, busy workers and failing stores leaves one stuck.         *)
(***************************************************************************)
AnsweredIsSettled ==
    \A e \in Exchange : phase[e] = "answered" ~> phase[e] \in {"done", "lost"}

----------------------------------------------------------------------------
(***************************************************************************)
(* stream.go 179: the temporary spool file is deleted after persist.       *)
(***************************************************************************)
SpoolReleased == \A e \in Exchange : phase[e] = "done" => e \notin spool
============================================================================
