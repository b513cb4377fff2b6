--------------------------- MODULE ExchangeProofs ---------------------------
(***************************************************************************)
(* Exchange proved for every limit, policy and body: a captured exchange   *)
(* contains a behaviour of ResponseCapture, upstream gets what it is told  *)
(* to expect, and the record is honest about both bodies.                  *)
(***************************************************************************)
EXTENDS Exchange, ResponseCaptureProofs

\* How much of the body upstream gets.
Cut == IF Oversize /\ req.policy = "truncate" THEN req.limit ELSE req.len

(***************************************************************************)
(* UpstreamGetsBody and RecordIsHonest speak of the end.  Between reading  *)
(* the request and recording it, the record already holds what was         *)
(* forwarded, and its flag is final, because a captured response is never  *)
(* truncated.                                                              *)
(***************************************************************************)
Held ==
    stage \in {"accepted", "relaying"} =>
        /\ rec.body = forward
        /\ rec.skip = "pending"
        /\ rec.truncated <=> Cut < req.len

Fresh == stage = "body" => rec = NoRecord

XInv == Inv /\ ExchangeTypeOK /\ Fresh /\ Held /\ UpstreamGetsBody /\ RecordIsHonest

----------------------------------------------------------------------------
\* Every step of an exchange is a step of its response or leaves it alone.
THEOREM ExchangeContainsCapture == ExchangeSpec => Spec
<1>1. ExchangeInit => Init
  BY DEF ExchangeInit
<1>2. [ExchangeNext]_exchangeVars => [Next]_vars
  BY DEF ExchangeNext, exchangeVars, ReadWhole, ReadPrefix, Accept, PassOversize,
         ReadFails, UpstreamFails, UpstreamAnswers, Relay, BuildRecord
<1> QED
  BY <1>1, <1>2, PTL DEF ExchangeSpec, Spec

\* The request and how its body is cut.
LEMMA RequestType ==
    ASSUME ExchangeTypeOK
    PROVE  /\ req.len \in Nat /\ req.limit \in Nat \ {0}
           /\ Cut \in Nat /\ (Cut < req.len <=> Oversize /\ req.policy = "truncate")
<1>1. req.len \in 0 .. MaxRequest /\ req.limit \in BodyLimits
  BY DEF ExchangeTypeOK, Request
<1>2. req.len \in Nat /\ req.limit \in Nat \ {0}
  <2>1. req.len \in Nat
    BY <1>1, RequestAssumption
  <2>2. req.limit \in Nat \ {0}
    BY <1>1, LimitAssumption
  <2> QED BY <2>1, <2>2
<1>3. CASE Oversize /\ req.policy = "truncate"
  BY <1>2, <1>3 DEF Cut, Oversize
<1>4. CASE ~(Oversize /\ req.policy = "truncate")
  <2>1. Cut = req.len /\ ~(req.len < req.len)
    BY <1>2, <1>4 DEF Cut
  <2> QED BY <1>2, <1>4, <2>1
<1> QED BY <1>3, <1>4

\* The probe and the rest are the whole body.
LEMMA ProbeAndRest ==
    ASSUME NEW a \in Nat, NEW b \in Nat, a < b
    PROVE  FirstBytes(a + 1) \o Bytes(a + 2, b) = FirstBytes(b)
<1>1. PICK n \in Nat : b = (a + 1) + n
  <2>1. b - (a + 1) \in Nat /\ b = (a + 1) + (b - (a + 1))
    OBVIOUS
  <2> QED BY <2>1
<1>2. FirstBytes(a + 1) \o Bytes((a + 1) + 1, (a + 1) + n) = FirstBytes((a + 1) + n)
  <2>1. a + 1 \in Nat
    OBVIOUS
  <2> QED BY <2>1, AppendChunk
<1>3. (a + 1) + 1 = a + 2
  OBVIOUS
<1> QED BY <1>1, <1>2, <1>3

LEMMA InitX == ExchangeInit => XInv
<1> SUFFICES ASSUME ExchangeInit PROVE XInv
  OBVIOUS
<1>1. Inv
  BY InitInv DEF ExchangeInit
<1>2. ExchangeTypeOK
  BY <1>1, EmptySeq DEF ExchangeInit, ExchangeTypeOK, Inv, Stages, NoRecord
<1> QED
  BY <1>1, <1>2 DEF ExchangeInit, XInv, Fresh, Held, UpstreamGetsBody, RecordIsHonest

\* A step that leaves the response alone preserves its invariant.
LEMMA ResponseSame ==
    ASSUME Inv, UNCHANGED vars
    PROVE  Inv'
  BY NextInv

\* The body is accepted, whole or cut.
LEMMA AcceptX ==
    ASSUME XInv, stage = "body", Accept(FirstBytes(Cut), Cut < req.len)
    PROVE  XInv'
<1> DEFINE body == FirstBytes(Cut)
           cut == Cut < req.len
<1>1. Inv'
  BY ResponseSame DEF XInv, Accept
<1>2. req' = req /\ stage' = "accepted" /\ forward' = body /\ announced' = Len(body)
  BY DEF Accept
<1>3. body \in Seq(Nat) /\ Len(body) \in Nat
  BY RequestType, FirstBytesSeq DEF XInv
<1>4. rec' = [NoRecord EXCEPT !.body = body, !.truncated = cut]
  BY DEF XInv, Fresh, Accept
<1>5. /\ rec'.body = body /\ rec'.skip = "pending" /\ rec'.response = <<>>
      /\ rec'.truncated = cut
  BY <1>4 DEF NoRecord
<1>6. rec' \in [body : Seq(Nat), truncated : BOOLEAN, response : Seq(Nat),
                skip : {"pending", "none", "oversize", "upstream_error"}]
  <2>1. cut \in BOOLEAN
    OBVIOUS
  <2> QED
    BY <1>3, <1>4, <2>1, EmptySeq DEF NoRecord
<1>7. ExchangeTypeOK'
  BY <1>1, <1>2, <1>3, <1>6 DEF Inv, XInv, ExchangeTypeOK, Stages
<1>8. Cut' = Cut
  BY <1>2 DEF Cut, Oversize
<1> QED
  BY <1>1, <1>2, <1>5, <1>7, <1>8
     DEF XInv, Fresh, Held, UpstreamGetsBody, RecordIsHonest, Cut, Oversize

LEMMA PassOversizeX ==
    ASSUME XInv, PassOversize
    PROVE  XInv'
<1>1. Inv'
  BY ResponseSame DEF XInv, PassOversize
<1>2. req.len \in Nat /\ req.limit \in Nat /\ req.limit < req.len
  BY RequestType DEF XInv, PassOversize, Oversize
<1>3. forward' = FirstBytes(req.len)
  BY <1>2, ProbeAndRest DEF PassOversize
<1>4. forward' \in Seq(Nat) /\ Len(forward') = req.len
  BY <1>2, <1>3, FirstBytesSeq
<1>5. announced' \in {Unknown, req.len} /\ announced' \in Nat \cup {Unknown}
  BY <1>2 DEF PassOversize
<1>6. rec' = [NoRecord EXCEPT !.skip = "oversize"]
  BY DEF XInv, Fresh, PassOversize
<1>7. ExchangeTypeOK'
  BY <1>1, <1>4, <1>5, <1>6, EmptySeq
     DEF Inv, XInv, ExchangeTypeOK, Stages, NoRecord, PassOversize
<1> QED
  BY <1>1, <1>3, <1>4, <1>5, <1>6, <1>7
     DEF XInv, Fresh, Held, UpstreamGetsBody, RecordIsHonest, PassOversize, NoRecord,
         Oversize

\* The relay only touches the response.
LEMMA RelayX ==
    ASSUME XInv, Relay
    PROVE  XInv'
<1>1. Inv'
  BY NextInv DEF XInv, Relay
<1>2. UNCHANGED requestVars /\ stage = "relaying"
  BY DEF Relay
<1>3. ExchangeTypeOK'
  BY <1>1, <1>2 DEF Inv, XInv, ExchangeTypeOK, requestVars
<1> QED
  BY <1>1, <1>2, <1>3
     DEF XInv, Fresh, Held, Cut, Oversize, UpstreamGetsBody, RecordIsHonest, requestVars

LEMMA BuildRecordX ==
    ASSUME XInv, BuildRecord
    PROVE  XInv'
<1>1. Inv'
  BY ResponseSame DEF XInv, BuildRecord
<1>2. Captured = FirstBytes(size) /\ Captured \in Seq(Nat) /\ truncated = FALSE
  BY FirstBytesSeq, ConcatEmptySeq, SizeAssumption
     DEF BuildRecord, XInv, Inv, TypeOK, Handed, Captured
<1>3. UNCHANGED <<req, forward, announced, size>> /\ stage' = "recorded"
  BY DEF BuildRecord, vars
<1>4. rec' = [rec EXCEPT !.response = Captured, !.truncated = rec.truncated \/ truncated,
                         !.skip = "none"]
  BY DEF BuildRecord
<1>5. rec \in [body : Seq(Nat), truncated : BOOLEAN, response : Seq(Nat),
               skip : {"pending", "none", "oversize", "upstream_error"}]
  BY DEF XInv, ExchangeTypeOK
<1>6. (rec.truncated \/ truncated) = rec.truncated
  BY <1>2, <1>5
<1>7. /\ rec'.body = rec.body /\ rec'.response = Captured /\ rec'.skip = "none"
      /\ rec'.truncated = rec.truncated
  BY <1>4, <1>5, <1>6
<1>8. ExchangeTypeOK'
  BY <1>1, <1>2, <1>3, <1>4, <1>5, <1>6 DEF Inv, XInv, ExchangeTypeOK, Stages
<1>9. /\ rec.body = forward
      /\ rec.truncated <=> Cut < req.len
      /\ forward = FirstBytes(Cut)
  BY DEF XInv, Held, UpstreamGetsBody, BuildRecord, Cut
<1>10. Len(forward) = Cut
  BY <1>9, RequestType, FirstBytesSeq DEF XInv
<1>11. RecordIsHonest'
  BY <1>2, <1>3, <1>7, <1>9, <1>10 DEF RecordIsHonest
<1>12. UpstreamGetsBody'
  BY <1>3 DEF XInv, UpstreamGetsBody, BuildRecord, Oversize
<1> QED
  BY <1>1, <1>3, <1>8, <1>11, <1>12 DEF XInv, Fresh, Held

LEMMA NextX == XInv /\ [ExchangeNext]_exchangeVars => XInv'
<1> SUFFICES ASSUME XInv, [ExchangeNext]_exchangeVars PROVE XInv'
  OBVIOUS
<1>1. ASSUME ReadWhole PROVE XInv'
  <2>1. Cut = req.len /\ (Cut < req.len) = FALSE
    BY <1>1, RequestType DEF ReadWhole, Cut, XInv
  <2> QED BY <1>1, <2>1, AcceptX DEF ReadWhole
<1>2. ASSUME ReadPrefix PROVE XInv'
  <2>1. Cut = req.limit /\ (Cut < req.len) = TRUE
    BY <1>2, RequestType DEF ReadPrefix, Cut, XInv
  <2> QED BY <1>2, <2>1, AcceptX DEF ReadPrefix
<1>3. ASSUME PassOversize PROVE XInv'
  BY <1>3, PassOversizeX
<1>4. ASSUME ReadFails PROVE XInv'
  <2>1. Inv'
    BY <1>4, ResponseSame DEF XInv, ReadFails
  <2> QED
    BY <1>4, <2>1
       DEF ReadFails, XInv, Inv, ExchangeTypeOK, Stages, Fresh, Held, UpstreamGetsBody,
           RecordIsHonest
<1>5. ASSUME UpstreamFails PROVE XInv'
  <2>1. Inv'
    BY <1>5, ResponseSame DEF XInv, UpstreamFails
  <2>2. ExchangeTypeOK'
    BY <1>5, <2>1 DEF UpstreamFails, XInv, Inv, ExchangeTypeOK, Stages
  <2>3. rec'.skip = "upstream_error"
    BY <1>5 DEF UpstreamFails, XInv, ExchangeTypeOK
  <2> QED
    BY <1>5, <2>1, <2>2, <2>3
       DEF UpstreamFails, XInv, Fresh, Held, UpstreamGetsBody, RecordIsHonest, Oversize
<1>6. ASSUME UpstreamAnswers PROVE XInv'
  <2>1. Inv'
    BY <1>6, ResponseSame DEF XInv, UpstreamAnswers
  <2> QED
    BY <1>6, <2>1
       DEF UpstreamAnswers, XInv, Inv, ExchangeTypeOK, Stages, Fresh, Held, Cut, Oversize,
           UpstreamGetsBody, RecordIsHonest
<1>7. ASSUME Relay PROVE XInv'
  BY <1>7, RelayX
<1>8. ASSUME BuildRecord PROVE XInv'
  BY <1>8, BuildRecordX
<1>9. ASSUME UNCHANGED exchangeVars PROVE XInv'
  <2>1. UNCHANGED vars /\ UNCHANGED requestVars
    BY <1>9 DEF exchangeVars
  <2>2. Inv'
    BY <2>1, ResponseSame DEF XInv
  <2> QED
    BY <2>1, <2>2
       DEF requestVars, vars, XInv, Inv, ExchangeTypeOK, Fresh, Held, Cut, Oversize,
           UpstreamGetsBody, RecordIsHonest
<1> QED
  BY <1>1, <1>2, <1>3, <1>4, <1>5, <1>6, <1>7, <1>8, <1>9 DEF ExchangeNext

THEOREM ExchangeInvariance == ExchangeSpec => []XInv
  BY InitX, NextX, PTL DEF ExchangeSpec

\* Type correctness of the exchange, both ways.
THEOREM ExchangeTypeCorrect == ExchangeSpec => []ExchangeTypeOK
<1>1. XInv => ExchangeTypeOK
  BY DEF XInv
<1> QED BY <1>1, ExchangeInvariance, PTL

\* Upstream is sent the client's body, cut at most as the policy says, and
\* the length it is told (consumeRequestBody).
THEOREM UpstreamSeesBody == ExchangeSpec => []UpstreamGetsBody
<1>1. XInv => UpstreamGetsBody
  BY DEF XInv
<1> QED BY <1>1, ExchangeInvariance, PTL

\* The record holds what was asked and what was answered, and says so when
\* the request was cut (handleCapture).
THEOREM HonestRecord == ExchangeSpec => []RecordIsHonest
<1>1. XInv => RecordIsHonest
  BY DEF XInv
<1> QED BY <1>1, ExchangeInvariance, PTL
============================================================================
