------------------------------ MODULE Backfill ------------------------------
(***************************************************************************)
(* The enrichment of corpus-tap (internal/enrich/backfill.go): RunOnce     *)
(* lists the newest rows of http_exchange without enrich_json, looks each  *)
(* one up in New API's table logs and stores what it finds.  A ticker      *)
(* calls it (StartBackfillLoop), and so does /internal/reload-enrich,      *)
(* beside each other and beside the arrival of rows and logs.              *)
(*                                                                         *)
(* Rows are numbered by created_at, the order of ListPendingEnrich.        *)
(***************************************************************************)
EXTENDS Naturals, FiniteSets, FiniteSetsExt

CONSTANTS
    MaxRow,     \* bound on the rows of http_exchange
    Limit,      \* the limit of each caller: 200 for the loop, 500 for the admin
    MaxLogs,    \* bound on the logs New API writes for one request
    MaxRequests,\* bound on admin requests
    MaxErrors   \* bound on failing statements and cancelled calls

Rows == 1 .. MaxRow
Callers == {"loop", "admin"}

ASSUME SizeAssumption == {MaxRow, MaxLogs, MaxRequests, MaxErrors} \subseteq Nat
ASSUME LimitAssumption == Limit \in [Callers -> Nat \ {0}]

VARIABLES
    present,  \* rows inserted so far
    linked,   \* those with a newapi_request_id that were not skipped
    log,      \* how many logs New API has of each row's request
    enrich,   \* enrich_json: the log it was made from, or NoLog
    call,     \* each caller's run: rows still to do, and the log in hand
    requests, \* admin requests so far
    errors    \* failures so far

vars == <<present, linked, log, enrich, call, requests, errors>>

NoLog == [of |-> 0, id |-> 0]
Log == [of : {0} \cup Rows, id : 0 .. MaxLogs]
Idle == [active |-> FALSE, todo |-> {}, found |-> NoLog]
Call == [active : BOOLEAN, todo : SUBSET Rows, found : Log]

Init ==
    /\ present = {}
    /\ linked = {}
    /\ log = [r \in Rows |-> 0]
    /\ enrich = [r \in Rows |-> NoLog]
    /\ call = [c \in Callers |-> Idle]
    /\ requests = 0
    /\ errors = 0

----------------------------------------------------------------------------
(***************************************************************************)
(* The world around it.  A row is inserted when Persist is done with it,   *)
(* in any order; New API writes a log before or after, more than one when  *)
(* it retries, or none.                                                    *)
(***************************************************************************)
Insert(r) ==
    /\ r \notin present
    /\ present' = present \cup {r}
    /\ \/ linked' = linked \cup {r}
       \/ UNCHANGED linked
    /\ UNCHANGED <<log, enrich, call, requests, errors>>

LogAppears(r) ==
    /\ log[r] < MaxLogs
    /\ log' = [log EXCEPT ![r] = log[r] + 1]
    /\ UNCHANGED <<present, linked, enrich, call, requests, errors>>

\* The process ends and is started again; its tables stay.
Restart ==
    /\ errors < MaxErrors
    /\ errors' = errors + 1
    /\ call' = [c \in Callers |-> Idle]
    /\ UNCHANGED <<present, linked, log, enrich, requests>>

----------------------------------------------------------------------------
Pending == {r \in linked : enrich[r] = NoLog}

\* Fault: oldest first.
BatchOldest(limit) == {r \in Pending : Cardinality({q \in Pending : q < r}) < limit}

\* ListPendingEnrich: newest first, at most limit of them.
Batch(limit) == {r \in Pending : Cardinality({q \in Pending : q > r}) < limit}

Newest(todo) == Max(todo)

\* Only the admin's calls are counted, the ticker goes on for ever.
Begins(c) ==
    /\ ~call[c].active
    /\ IF c = "admin"
       THEN requests < MaxRequests /\ requests' = requests + 1
       ELSE UNCHANGED requests

Start(c) ==
    /\ Begins(c)
    /\ call' = [call EXCEPT ![c] = [Idle EXCEPT !.active = TRUE, !.todo = Batch(Limit[c])]]
    /\ UNCHANGED <<present, linked, log, enrich, errors>>

\* The listing fails: the loop waits for the next tick, the admin gets 500.
ListFails(c) ==
    /\ Begins(c)
    /\ errors < MaxErrors
    /\ errors' = errors + 1
    /\ UNCHANGED <<present, linked, log, enrich, call>>

\* The loop of RunOnce is about to look up a row.
Looking(c) == call[c].active /\ call[c].todo # {} /\ call[c].found = NoLog

\* Fault: the newest log of any request.
FindAny(c) ==
    /\ Looking(c)
    /\ \E r \in Rows :
          /\ log[r] > 0
          /\ call' = [call EXCEPT ![c].found = [of |-> r, id |-> log[r]]]
    /\ UNCHANGED <<present, linked, log, enrich, requests, errors>>

\* fetchLog: the log with the highest id of this request.
Find(c) ==
    /\ Looking(c)
    /\ LET r == Newest(call[c].todo)
       IN  /\ log[r] > 0
           /\ call' = [call EXCEPT ![c].found = [of |-> r, id |-> log[r]]]
    /\ UNCHANGED <<present, linked, log, enrich, requests, errors>>

\* Fault: what was found for one row is still in hand for the next.
NextRowKeepsFound(c) ==
    call' = [call EXCEPT ![c].todo = call[c].todo \ {Newest(call[c].todo)}]

\* RunOnce goes on to the next row.
NextRow(c) ==
    call' = [call EXCEPT ![c].todo = call[c].todo \ {Newest(call[c].todo)},
                         ![c].found = NoLog]

\* fetchLog finds no log (or, FindFails, no database): the row is passed over.
Miss(c) ==
    /\ Looking(c)
    /\ log[Newest(call[c].todo)] = 0
    /\ NextRow(c)
    /\ UNCHANGED <<present, linked, log, enrich, requests, errors>>

\* Fault: the error is ignored and the empty result stored.
FindFailsStoresNull(c) ==
    /\ Looking(c)
    /\ errors < MaxErrors
    /\ errors' = errors + 1
    /\ enrich' = [enrich EXCEPT ![Newest(call[c].todo)] = NoLog]
    /\ NextRow(c)
    /\ UNCHANGED <<present, linked, log, requests>>

FindFails(c) ==
    /\ Looking(c)
    /\ errors < MaxErrors
    /\ errors' = errors + 1
    /\ NextRow(c)
    /\ UNCHANGED <<present, linked, log, enrich, requests>>

\* UpdateEnrichJSON, whatever enrich_json holds by now.
Update(c) ==
    /\ call[c].found # NoLog
    /\ enrich' = [enrich EXCEPT ![Newest(call[c].todo)] = call[c].found]
    /\ NextRow(c)
    /\ UNCHANGED <<present, linked, log, requests, errors>>

UpdateFails(c) ==
    /\ call[c].found # NoLog
    /\ errors < MaxErrors
    /\ errors' = errors + 1
    /\ NextRow(c)
    /\ UNCHANGED <<present, linked, log, enrich, requests>>

\* The context ends (2 minutes, or the admin's client is gone): every
\* statement from here on fails, and RunOnce runs through the rest.
Cancel(c) ==
    /\ call[c].active
    /\ errors < MaxErrors
    /\ errors' = errors + 1
    /\ call' = [call EXCEPT ![c] = Idle]
    /\ UNCHANGED <<present, linked, log, enrich, requests>>

Finish(c) ==
    /\ call[c].active
    /\ call[c].todo = {}
    /\ call' = [call EXCEPT ![c] = Idle]
    /\ UNCHANGED <<present, linked, log, enrich, requests, errors>>

\* RunOnce once it has its rows.
RunOnce(c) == Find(c) \/ Miss(c) \/ Update(c) \/ Finish(c)

Next ==
    \/ \E r \in Rows : Insert(r) \/ LogAppears(r)
    \/ \E c \in Callers :
          \/ Start(c) \/ RunOnce(c)
          \/ ListFails(c) \/ FindFails(c) \/ UpdateFails(c) \/ Cancel(c)
    \/ Restart

Spec == Init /\ [][Next]_vars

(***************************************************************************)
(* The ticker ticks for ever (CORPUS_TAP_ENRICH_INTERVAL_SEC is set), and  *)
(* a run goes on: its context has a timeout.  Nothing makes rows or logs   *)
(* appear or an admin ask.                                                 *)
(***************************************************************************)
FairSpec ==
    /\ Spec
    /\ WF_vars(Start("loop"))
    /\ \A c \in Callers : WF_vars(RunOnce(c))

----------------------------------------------------------------------------
TypeOK ==
    /\ present \in SUBSET Rows
    /\ linked \in SUBSET present
    /\ log \in [Rows -> 0 .. MaxLogs]
    /\ enrich \in [Rows -> Log]
    /\ call \in [Callers -> Call]
    /\ \A c \in Callers : call[c].found # NoLog => call[c].todo # {}
    /\ requests \in 0 .. MaxRequests
    /\ errors \in 0 .. MaxErrors

(***************************************************************************)
(* An enrichment belongs to its row: it was made from a log of the row's   *)
(* own request, of an exchange that was not skipped, although the rows of  *)
(* two callers, inserts and logs are interleaved (RunOnce 42-55).          *)
(***************************************************************************)
EnrichedByOwnLog ==
    \A r \in Rows : enrich[r] # NoLog =>
        /\ r \in linked
        /\ enrich[r].of = r
        /\ enrich[r].id \in 1 .. log[r]

(***************************************************************************)
(* What one caller has stored, no failure of the other takes away: an      *)
(* enriched row stays enriched (the continue statements of RunOnce).       *)
(***************************************************************************)
EnrichmentStays ==
    [][\A r \in Rows : enrich[r] # NoLog => enrich'[r] # NoLog]_vars

(***************************************************************************)
(* Who may be starved: newest first with a limit means that a row whose    *)
(* log is there is enriched in the end, unless Limit["loop"] newer rows    *)
(* keep waiting for logs that do not come (ListPendingEnrich).             *)
(***************************************************************************)
CrowdedOut(r) ==
    Cardinality({q \in Pending : q > r /\ log[q] = 0}) >= Limit["loop"]

OnlyCrowdedOutWait ==
    \A r \in Rows : <>[](r \in linked /\ log[r] > 0 => enrich[r] # NoLog \/ CrowdedOut(r))
============================================================================
