--------------------------- MODULE CaptureLedger ---------------------------
(***************************************************************************)
(* What corpus-tap promises the analysis layer about the store             *)
(* (DESIGN.md 5.1): blobs are written before the http_exchange row that    *)
(* refers to them, an exchange has at most one row, a row never changes,   *)
(* a skipped exchange has no body, and nothing is written for an exchange  *)
(* once the tap has finished with it.                                      *)
(***************************************************************************)
CONSTANTS Exchange, Role, Indexed, NoRow

VARIABLES
    rows,   \* http_exchange: the row of an exchange, or NoRow
    blobs,  \* the objects in the blob store, pairs <<exchange, role>>
    closed  \* the exchanges the tap has finished with

\* What a row says about the bodies: the roles it holds a URI for, whether
\* the exchange was skipped, and whether a store error is noted.
Row == [uris : SUBSET Indexed, skipped : BOOLEAN, failed : BOOLEAN]

Init ==
    /\ rows = [e \in Exchange |-> NoRow]
    /\ blobs = {}
    /\ closed = {}

StoreBlob(e, r) ==
    /\ e \notin closed
    /\ rows[e] = NoRow
    /\ blobs' = blobs \cup {<<e, r>>}
    /\ UNCHANGED <<rows, closed>>

StoreRow(e, row) ==
    /\ e \notin closed
    /\ rows[e] = NoRow
    /\ \A r \in row.uris : <<e, r>> \in blobs
    /\ row.skipped => \A r \in Role : <<e, r>> \notin blobs
    /\ rows' = [rows EXCEPT ![e] = row]
    /\ closed' \in {closed, closed \cup {e}}
    /\ UNCHANGED blobs

Close(S) ==
    /\ closed' = closed \cup S
    /\ UNCHANGED <<rows, blobs>>

Next ==
    \/ \E e \in Exchange, r \in Role : StoreBlob(e, r)
    \/ \E e \in Exchange, row \in Row : StoreRow(e, row)
    \/ \E S \in SUBSET Exchange : Close(S)

Spec == Init /\ [][Next]_<<rows, blobs, closed>>
============================================================================
