------------------------------ MODULE Exchange ------------------------------
(***************************************************************************)
(* One captured exchange of corpus-tap, both ways: the request body that   *)
(* handleCapture reads and forwards under the body limit                   *)
(* (internal/proxy/body.go), then the response of ResponseCapture, then    *)
(* the record made of the two (internal/proxy/server.go).                  *)
(*                                                                         *)
(* Byte k of the request body is the number k, as in ResponseCapture.      *)
(***************************************************************************)
EXTENDS ResponseCapture

CONSTANTS
    BodyLimits, \* values of CORPUS_TAP_MAX_BODY_BYTES, kept positive by Load
    MaxRequest  \* bound on the length of a request body

ASSUME LimitAssumption == BodyLimits \subseteq Nat \ {0}
ASSUME RequestAssumption == MaxRequest \in Nat

VARIABLES
    req,       \* the request, and the settings it meets
    stage,     \* where handleCapture is
    forward,   \* the body sent upstream
    announced, \* the Content-Length sent upstream, or Unknown
    rec        \* the record of the exchange

requestVars == <<req, stage, forward, announced, rec>>
exchangeVars == <<vars, requestVars>>

Unknown == -1
Policies == {"truncate", "skip"}
Request ==
    [len : 0 .. MaxRequest, declared : BOOLEAN, policy : Policies,
     limit : BodyLimits]

\* The part of Record that depends on the two bodies.
NoRecord == [body |-> <<>>, truncated |-> FALSE, response |-> <<>>, skip |-> "pending"]

\* Bypassed and refused requests are over; the other ends are those of relays.
Stages == {"body", "accepted", "relaying", "refused", "recorded"}

ExchangeInit ==
    /\ Init
    /\ req \in Request
    /\ stage = "body"
    /\ forward = <<>>
    /\ announced = Unknown
    /\ rec = NoRecord

----------------------------------------------------------------------------
Oversize == req.len > req.limit

\* The body goes upstream and into the record.
Accept(body, cut) ==
    /\ stage' = "accepted"
    /\ forward' = body
    /\ announced' = Len(body)
    /\ rec' = [rec EXCEPT !.body = body, !.truncated = cut]
    /\ UNCHANGED <<vars, req>>

\* probeBodySkip and readBodyAll find the end within limit + 1 bytes.
ReadWhole ==
    /\ stage = "body"
    /\ ~Oversize
    /\ Accept(FirstBytes(req.len), FALSE)

\* Fault: the copy stops at the limit and cannot tell that there was more.
ReadPrefixUnmarked ==
    /\ stage = "body"
    /\ Oversize
    /\ req.policy = "truncate"
    /\ Accept(FirstBytes(req.limit), FALSE)

\* readBodyAll cuts the body to the limit; upstream gets the cut body.
ReadPrefix ==
    /\ stage = "body"
    /\ Oversize
    /\ req.policy = "truncate"
    /\ Accept(FirstBytes(req.limit), TRUE)

\* Fault: what the probe has read is not put in front of the rest.
PassOversizeLosesProbe ==
    /\ stage = "body"
    /\ Oversize
    /\ req.policy = "skip"
    /\ stage' = "recorded"
    /\ forward' = IF req.declared THEN FirstBytes(req.len)
                  ELSE Bytes(req.limit + 2, req.len)
    /\ announced' = IF req.declared THEN req.len ELSE Unknown
    /\ rec' = [rec EXCEPT !.skip = "oversize"]
    /\ UNCHANGED <<vars, req>>

(***************************************************************************)
(* An oversize body under "skip": forwarded untouched when its length was  *)
(* declared, else as the limit + 1 bytes of the probe and the rest; the    *)
(* exchange is recorded without bodies (forwardAndEnqueue).                *)
(***************************************************************************)
PassOversize ==
    /\ stage = "body"
    /\ Oversize
    /\ req.policy = "skip"
    /\ stage' = "recorded"
    /\ forward' = IF req.declared THEN FirstBytes(req.len)
                  ELSE FirstBytes(req.limit + 1) \o Bytes(req.limit + 2, req.len)
    /\ announced' = IF req.declared THEN req.len ELSE Unknown
    /\ rec' = [rec EXCEPT !.skip = "oversize"]
    /\ UNCHANGED <<vars, req>>

\* The client's body breaks off while it is read: 400, and no record.
ReadFails ==
    /\ stage = "body"
    /\ ~(Oversize /\ req.policy = "skip" /\ req.declared)
    /\ req.declared => req.len > 0
    /\ stage' = "refused"
    /\ UNCHANGED <<vars, req, forward, announced, rec>>

\* client.Do fails: 502, and a record whose bodies Persist leaves out.
UpstreamFails ==
    /\ stage = "accepted"
    /\ stage' = "recorded"
    /\ rec' = [rec EXCEPT !.skip = "upstream_error"]
    /\ UNCHANGED <<vars, req, forward, announced>>

UpstreamAnswers ==
    /\ stage = "accepted"
    /\ stage' = "relaying"
    /\ UNCHANGED <<vars, req, forward, announced, rec>>

\* relayResponse; a failure of it is the end of handleCapture.
Relay ==
    /\ stage = "relaying"
    /\ Next
    /\ UNCHANGED requestVars

\* The end of handleCapture: the record is complete and goes to enqueue.
BuildRecord ==
    /\ stage = "relaying"
    /\ outcome = "captured"
    /\ stage' = "recorded"
    /\ rec' = [rec EXCEPT !.response = Captured,
                          !.truncated = rec.truncated \/ truncated,
                          !.skip = "none"]
    /\ UNCHANGED <<vars, req, forward, announced>>

ExchangeNext ==
    \/ ReadWhole \/ ReadPrefix \/ PassOversize \/ ReadFails
    \/ UpstreamFails \/ UpstreamAnswers
    \/ Relay
    \/ BuildRecord

ExchangeSpec == ExchangeInit /\ [][ExchangeNext]_exchangeVars

----------------------------------------------------------------------------
ExchangeTypeOK ==
    /\ TypeOK
    /\ req \in Request
    /\ stage \in Stages
    /\ forward \in Seq(Nat)
    /\ announced \in Nat \cup {Unknown}
    /\ rec \in [body : Seq(Nat), truncated : BOOLEAN, response : Seq(Nat),
                skip : {"pending", "none", "oversize", "upstream_error"}]

(***************************************************************************)
(* What upstream is sent is what it is told to expect, and it is the       *)
(* client's body: whole under "skip", whatever the length and whether it   *)
(* was declared, and cut at the limit under "truncate" (consumeRequestBody,*)
(* DESIGN.md 15.1 on oversize and skip).                                   *)
(***************************************************************************)
UpstreamGetsBody ==
    stage \notin {"body", "refused"} =>
        /\ announced \in {Unknown, Len(forward)}
        /\ forward = FirstBytes(IF Oversize /\ req.policy = "truncate"
                                THEN req.limit ELSE req.len)

(***************************************************************************)
(* A record is honest about both bodies: it holds the request that         *)
(* upstream answered and the whole response, and it is marked truncated    *)
(* exactly if the client had sent more than that request (rec.Truncated in *)
(* handleCapture).  A record that says it was skipped as oversize holds no *)
(* body.                                                                   *)
(***************************************************************************)
RecordIsHonest ==
    stage = "recorded" =>
        /\ rec.skip = "none" =>
              /\ rec.body = forward
              /\ rec.response = FirstBytes(size)
              /\ rec.truncated <=> Len(rec.body) < req.len
        /\ rec.skip = "oversize" => rec.body = <<>> /\ Oversize
============================================================================
