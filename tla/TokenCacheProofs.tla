-------------------------- MODULE TokenCacheProofs --------------------------
(***************************************************************************)
(* TokenCache proved for any tokens, users, number of connections,         *)
(* lifetime and delay: who a request is attributed to, and why a token is  *)
(* passed over.                                                            *)
(***************************************************************************)
EXTENDS TokenCache, TLAPS

\* What the database said of k at time t was u.
Supported(k, u, t) ==
    \/ <<k, u, t>> \in past
    \/ u = NoUser /\ <<k, t>> \in errors

\* There was a reason to pass over candidate j, not too long before the call.
PassedOver(l, j, b) ==
    \E t \in Time :
        /\ Supported(Candidates[l][j], NoUser, t)
        /\ lookup[l].started < t + Age
        /\ t <= b

Attributed(l) ==
    \E t \in Time :
        /\ <<KeyOf(l), lookup[l].user, t>> \in past
        /\ lookup[l].ended < t + Age
        /\ t <= lookup[l].ended

(***************************************************************************)
(* The history knows the present; an entry, and an answer on its way to    *)
(* the cache, is what the database said, not too long ago; every call has  *)
(* had a reason to pass over the candidates before the one in hand.        *)
(***************************************************************************)
Recorded == \A k \in Key : <<k, tokens[k], now>> \in past

EntryOK(k) ==
    cache[k].expires # 0 =>
        /\ Supported(k, cache[k].user, cache[k].asOf)
        /\ cache[k].asOf <= now
        /\ cache[k].expires <= cache[k].asOf + Age

CallOK(l) ==
    /\ lookup[l].started <= now
    /\ lookup[l].pc = "fill" =>
          /\ Supported(KeyOf(l), lookup[l].user, lookup[l].asOf)
          /\ lookup[l].started <= lookup[l].asOf
          /\ lookup[l].asOf <= now
          /\ now <= lookup[l].asOf + MaxDelay
    /\ lookup[l].pc \in {"check", "query", "fill"} =>
          \A j \in 1 .. Len(Candidates[l]) : j < lookup[l].i => PassedOver(l, j, now)
    /\ lookup[l].pc = "done" =>
          /\ lookup[l].user # NoUser => Attributed(l)
          /\ \A j \in 1 .. Len(Candidates[l]) :
                \/ lookup[l].user # NoUser /\ j >= lookup[l].i
                \/ PassedOver(l, j, lookup[l].ended)

Inv ==
    /\ TypeOK
    /\ Recorded
    /\ \A k \in Key : EntryOK(k)
    /\ \A l \in Lookup : CallOK(l)

----------------------------------------------------------------------------
\* The bounds are numbers, and every call has a first candidate.
LEMMA Constants ==
    /\ TTL \in Nat /\ TTL > 0 /\ MaxDelay \in Nat /\ MaxTime \in Nat
    /\ Age \in Nat /\ Age > MaxDelay
    /\ NoUser \notin User
    /\ \A l \in Lookup : Candidates[l] \in Seq(Key) /\ Len(Candidates[l]) \in Nat \ {0}
<1>1. ASSUME NEW l \in Lookup
      PROVE  Candidates[l] \in Seq(Key) /\ Len(Candidates[l]) \in Nat \ {0}
  <2>1. Candidates[l] \in Seq(Key) /\ Candidates[l] # <<>>
    BY CandidatesAssumption
  <2> QED
    BY <2>1
<1> QED
  BY <1>1, TimeAssumption, UserAssumption DEF Age

\* Inv holds when the process starts with an empty cache.
LEMMA InitInv == Init => Inv
<1> SUFFICES ASSUME Init PROVE Inv
  OBVIOUS
<1>1. FirstOf("idle", 0) \in Call /\ NoEntry \in Entry
  BY Constants DEF FirstOf, NoEntry, Call, Entry, Place, Answer, Time
<1>2. \A l \in Lookup : lookup[l] = FirstOf("idle", 0)
  BY DEF Init
<1>3. \A l \in Lookup : lookup[l].i \in DOMAIN Candidates[l]
  BY <1>2, Constants DEF FirstOf
<1>4. TypeOK
  BY <1>1, <1>3, Constants, BoundsAssumption DEF Init, TypeOK, Answer, Time
<1>5. Recorded
  BY DEF Init, Recorded
<1>6. \A k \in Key : EntryOK(k)
  BY DEF Init, EntryOK, NoEntry
<1>7. \A l \in Lookup : CallOK(l)
  BY <1>2 DEF Init, CallOK, FirstOf
<1> QED
  BY <1>4, <1>5, <1>6, <1>7 DEF Inv

\* The fields of a call and of an entry have their types.
LEMMA Fields ==
    ASSUME TypeOK
    PROVE  /\ now \in Nat
           /\ \A l \in Lookup :
                /\ lookup[l] \in Call
                /\ lookup[l].pc \in Place /\ lookup[l].i \in Nat \ {0}
                /\ lookup[l].user \in Answer
                /\ lookup[l].asOf \in Time /\ lookup[l].asOf \in Nat
                /\ lookup[l].started \in Time /\ lookup[l].started \in Nat
                /\ lookup[l].ended \in Time /\ lookup[l].ended \in Nat
                /\ lookup[l].i \in 1 .. Len(Candidates[l])
                /\ KeyOf(l) \in Key
           /\ \A k \in Key :
                /\ cache[k] \in Entry /\ cache[k].user \in Answer
                /\ cache[k].expires \in Nat
                /\ cache[k].asOf \in Time /\ cache[k].asOf \in Nat
<1>1. now \in Nat
  BY Constants DEF TypeOK, Time
<1>2. ASSUME NEW l \in Lookup
      PROVE  /\ lookup[l] \in Call
             /\ lookup[l].pc \in Place /\ lookup[l].i \in Nat \ {0}
             /\ lookup[l].user \in Answer
             /\ lookup[l].asOf \in Time /\ lookup[l].asOf \in Nat
             /\ lookup[l].started \in Time /\ lookup[l].started \in Nat
             /\ lookup[l].ended \in Time /\ lookup[l].ended \in Nat
             /\ lookup[l].i \in 1 .. Len(Candidates[l])
             /\ KeyOf(l) \in Key
  <2>1. lookup[l] \in Call
    BY DEF TypeOK
  <2>2. lookup[l].i \in 1 .. Len(Candidates[l]) /\ KeyOf(l) \in Key
    BY Constants DEF TypeOK, KeyOf
  <2> QED
    BY <2>1, <2>2, Constants DEF Call, Time
<1>3. ASSUME NEW k \in Key
      PROVE  /\ cache[k] \in Entry /\ cache[k].user \in Answer
             /\ cache[k].expires \in Nat
             /\ cache[k].asOf \in Time /\ cache[k].asOf \in Nat
  <2>1. cache[k] \in Entry
    BY DEF TypeOK
  <2> QED
    BY <2>1, Constants DEF Entry, Time
<1> QED
  BY <1>1, <1>2, <1>3

\* History is never taken back, so what it says of a call that does not move
\* stays true, and the clock may go on.
LEMMA Unmoved ==
    ASSUME TypeOK, NEW l \in Lookup, CallOK(l), lookup'[l] = lookup[l],
           past \subseteq past', errors \subseteq errors',
           now' \in Nat, now <= now',
           lookup[l].pc = "fill" => now' <= lookup[l].asOf + MaxDelay
    PROVE  CallOK(l)'
<1>1. \A k \in Key, u \in Answer, t \in Time : Supported(k, u, t) => Supported(k, u, t)'
  BY DEF Supported
<1>2. KeyOf(l)' = KeyOf(l) /\ KeyOf(l) \in Key
  BY Fields DEF KeyOf
<1>3. ASSUME NEW j \in 1 .. Len(Candidates[l]), NEW b \in Nat, NEW c \in Nat, b <= c,
             PassedOver(l, j, b)
      PROVE  \E t \in Time : /\ Supported(Candidates[l][j], NoUser, t)'
                             /\ lookup[l].started < t + Age
                             /\ t <= c
  <2>1. PICK t \in Time : /\ Supported(Candidates[l][j], NoUser, t)
                          /\ lookup[l].started < t + Age
                          /\ t <= b
    BY <1>3 DEF PassedOver
  <2>2. Candidates[l][j] \in Key /\ NoUser \in Answer /\ t \in Nat
    BY Constants DEF Answer, Time
  <2>3. Supported(Candidates[l][j], NoUser, t)'
    BY <1>1, <2>1, <2>2
  <2>4. t <= c
    BY <1>3, <2>1, <2>2
  <2> QED
    BY <2>1, <2>3, <2>4
<1>4. Attributed(l) => Attributed(l)'
  BY <1>2 DEF Attributed
<1>5. lookup[l].pc = "fill" => Supported(KeyOf(l), lookup[l].user, lookup[l].asOf)'
  BY <1>1, <1>2, Fields DEF CallOK
<1>6. \A j \in 1 .. Len(Candidates[l]) :
        /\ PassedOver(l, j, now) => PassedOver(l, j, now)'
        /\ PassedOver(l, j, lookup[l].ended) => PassedOver(l, j, lookup[l].ended)'
  <2>1. ASSUME NEW j \in 1 .. Len(Candidates[l]), PassedOver(l, j, now)
        PROVE  PassedOver(l, j, now)'
    <3>1. \E t \in Time : /\ Supported(Candidates[l][j], NoUser, t)'
                          /\ lookup[l].started < t + Age
                          /\ t <= now'
      BY <1>3, <2>1, Fields
    <3> QED
      BY <3>1 DEF PassedOver
  <2>2. ASSUME NEW j \in 1 .. Len(Candidates[l]), PassedOver(l, j, lookup[l].ended)
        PROVE  PassedOver(l, j, lookup[l].ended)'
    <3>1. \E t \in Time : /\ Supported(Candidates[l][j], NoUser, t)'
                          /\ lookup[l].started < t + Age
                          /\ t <= lookup[l].ended
      BY <1>3, <2>2, Fields
    <3> QED
      BY <3>1 DEF PassedOver
  <2> QED
    BY <2>1, <2>2
<1> QED
  BY <1>2, <1>4, <1>5, <1>6, Fields DEF CallOK

----------------------------------------------------------------------------
\* Return ends the call or goes on with the next candidate.
LEMMA ReturnEffect ==
    ASSUME TypeOK, NEW l \in Lookup, NEW u \in Answer, Return(l, u)
    PROVE  /\ lookup' \in [Lookup -> Call]
           /\ \A m \in Lookup \ {l} : lookup'[m] = lookup[m]
           /\ lookup'[l].i \in 1 .. Len(Candidates[l])
           /\ lookup'[l].started = lookup[l].started
           /\ \/ /\ u # NoUser \/ lookup[l].i = Len(Candidates[l])
                 /\ lookup'[l].pc = "done" /\ lookup'[l].user = u
                 /\ lookup'[l].i = lookup[l].i /\ lookup'[l].ended = now
              \/ /\ u = NoUser /\ lookup[l].i < Len(Candidates[l])
                 /\ lookup'[l].pc = "check" /\ lookup'[l].i = lookup[l].i + 1
<1> DEFINE done == [lookup[l] EXCEPT !.pc = "done", !.user = u, !.asOf = 0, !.ended = now]
           next == [lookup[l] EXCEPT !.pc = "check", !.asOf = 0, !.i = lookup[l].i + 1]
<1>1. /\ done \in Call /\ next \in Call
      /\ done.pc = "done" /\ done.user = u /\ done.i = lookup[l].i /\ done.ended = now
      /\ done.started = lookup[l].started
      /\ next.pc = "check" /\ next.i = lookup[l].i + 1 /\ next.started = lookup[l].started
  <2>1. /\ lookup[l] \in Call /\ 0 \in Time /\ now \in Time
        /\ lookup[l].i \in Nat \ {0} /\ lookup[l].i + 1 \in Nat \ {0}
    BY Fields, Constants DEF TypeOK, Time
  <2> QED
    BY <2>1 DEF Call, Place
<1>2. CASE u # NoUser \/ lookup[l].i = Len(Candidates[l])
  <2>1. lookup' = [lookup EXCEPT ![l] = done]
    BY <1>2 DEF Return, Done, NextCandidate, TypeOK
  <2>2. lookup'[l] = done /\ \A m \in Lookup \ {l} : lookup'[m] = lookup[m]
    BY <2>1 DEF TypeOK
  <2>3. lookup' \in [Lookup -> Call]
    BY <1>1, <2>1 DEF TypeOK
  <2> QED
    BY <1>1, <1>2, <2>2, <2>3, Fields
<1>3. CASE ~(u # NoUser \/ lookup[l].i = Len(Candidates[l]))
  <2>1. lookup' = [lookup EXCEPT ![l] = next]
    BY <1>3 DEF Return, Done, NextCandidate, TypeOK
  <2>2. lookup'[l] = next /\ \A m \in Lookup \ {l} : lookup'[m] = lookup[m]
    BY <2>1 DEF TypeOK
  <2>3. lookup' \in [Lookup -> Call]
    BY <1>1, <2>1 DEF TypeOK
  <2>4. lookup[l].i < Len(Candidates[l]) /\ lookup[l].i + 1 \in 1 .. Len(Candidates[l])
    BY <1>3, Fields, Constants
  <2> QED
    BY <1>1, <1>3, <2>2, <2>3, <2>4
<1> QED
  BY <1>2, <1>3

\* An answer that the database gave recently justifies what Return makes of it.
LEMMA ReturnOK ==
    ASSUME TypeOK, NEW l \in Lookup, CallOK(l), NEW u \in Answer, Return(l, u),
           lookup[l].pc \in {"check", "fill"},
           NEW t \in Time, Supported(KeyOf(l), u, t), now < t + Age, t <= now,
           UNCHANGED <<now, past, errors>>
    PROVE  CallOK(l)'
<1> DEFINE i == lookup[l].i
           n == Len(Candidates[l])
<1>1. \A j \in 1 .. n : j < i => PassedOver(l, j, now)
  BY DEF CallOK
<1>2. u = NoUser => PassedOver(l, i, now)
  BY Fields, Constants DEF PassedOver, KeyOf, CallOK, Time
<1>3. \A j \in 1 .. n : PassedOver(l, j, now) => PassedOver(l, j, now)'
  BY ReturnEffect DEF PassedOver, Supported
<1>4. lookup'[l].started <= now'
  BY ReturnEffect DEF CallOK
<1>5. CASE lookup'[l].pc = "done"
  <2>1. /\ lookup'[l].user = u /\ lookup'[l].i = i /\ lookup'[l].ended = now
        /\ u # NoUser \/ i = n
    BY <1>5, ReturnEffect
  <2>2. u # NoUser => Attributed(l)'
    <3>1. KeyOf(l)' = KeyOf(l)
      BY <2>1 DEF KeyOf
    <3> QED
      BY <2>1, <3>1 DEF Attributed, Supported
  <2>3. ASSUME NEW j \in 1 .. n, ~(u # NoUser /\ j >= i)
        PROVE  PassedOver(l, j, lookup[l].ended)'
    <3>1. PassedOver(l, j, now)
      BY <1>1, <1>2, <2>1, <2>3, Fields, Constants
    <3>2. PassedOver(l, j, now)'
      BY <1>3, <3>1
    <3> QED
      BY <2>1, <3>2 DEF PassedOver
  <2> QED
    BY <1>4, <1>5, <2>1, <2>2, <2>3 DEF CallOK
<1>6. CASE lookup'[l].pc = "check"
  <2>1. u = NoUser /\ lookup'[l].i = i + 1
    BY <1>6, ReturnEffect
  <2>2. \A j \in 1 .. n : j < i + 1 => PassedOver(l, j, now)'
    BY <1>1, <1>2, <1>3, <2>1, Fields
  <2> QED
    BY <1>4, <1>6, <2>1, <2>2 DEF CallOK
<1> QED
  BY <1>5, <1>6, ReturnEffect

\* Support in the history is never lost.
LEMMA EntryKept ==
    ASSUME TypeOK, NEW k \in Key, EntryOK(k), cache'[k] = cache[k],
           past \subseteq past', errors \subseteq errors', now' \in Nat, now <= now'
    PROVE  EntryOK(k)'
  BY Fields DEF EntryOK, Supported

\* A step of one call keeps the type of all others.
LEMMA LookupType ==
    ASSUME TypeOK, NEW l \in Lookup, lookup' \in [Lookup -> Call],
           \A m \in Lookup \ {l} : lookup'[m] = lookup[m],
           lookup'[l].i \in 1 .. Len(Candidates[l])
    PROVE  \A m \in Lookup : lookup'[m].i \in DOMAIN Candidates[m]
  BY Constants DEF TypeOK

----------------------------------------------------------------------------
\* Tokens change and time passes.
LEMMA ChangeInv ==
    ASSUME Inv, NEW k \in Key, NEW u \in Answer, ChangeToken(k, u)
    PROVE  Inv'
<1>1. TypeOK /\ now \in Nat
  BY Fields DEF Inv
<1>2. UNCHANGED <<now, cache, lookup, errors>> /\ past \subseteq past'
  BY DEF ChangeToken
<1>3. TypeOK'
  <2>1. changes' \in 0 .. MaxChanges
    BY <1>1, BoundsAssumption DEF ChangeToken, TypeOK
  <2>2. past' \subseteq Key \X Answer \X Time
    BY <1>1 DEF ChangeToken, TypeOK
  <2>3. tokens' \in [Key -> Answer]
    BY <1>1 DEF ChangeToken, TypeOK
  <2> QED
    BY <1>1, <1>2, <2>1, <2>2, <2>3 DEF TypeOK
<1>4. Recorded'
  BY <1>1, <1>2 DEF ChangeToken, Inv, Recorded, TypeOK
<1>5. \A q \in Key : EntryOK(q)'
  BY <1>1, <1>2, EntryKept DEF Inv
<1>6. \A l \in Lookup : CallOK(l)'
  <2>1. \A l \in Lookup : lookup[l].pc = "fill" => now' <= lookup[l].asOf + MaxDelay
    BY <1>2 DEF Inv, CallOK
  <2> QED
    BY <1>1, <1>2, <2>1, Unmoved DEF Inv
<1> QED
  BY <1>3, <1>4, <1>5, <1>6 DEF Inv

\* The clock waits for answers that have taken MaxDelay.
LEMMA TickInv ==
    ASSUME Inv, Tick
    PROVE  Inv'
<1>1. TypeOK /\ now \in Nat
  BY Fields DEF Inv
<1>2. /\ UNCHANGED <<tokens, changes, cache, lookup, errors>> /\ past \subseteq past'
      /\ now' = now + 1 /\ now' \in Time
  BY <1>1, Constants DEF Tick, Time, TypeOK
<1>3. TypeOK'
  <2>1. past' \subseteq Key \X Answer \X Time
    BY <1>1, <1>2 DEF Tick, TypeOK
  <2> QED
    BY <1>1, <1>2, <2>1 DEF TypeOK
<1>4. Recorded'
  BY <1>2 DEF Tick, Recorded
<1>5. \A k \in Key : EntryOK(k)'
  BY <1>1, <1>2, EntryKept DEF Inv
<1>6. \A l \in Lookup : CallOK(l)'
  <2>1. \A l \in Lookup : lookup[l].pc = "fill" => now' <= lookup[l].asOf + MaxDelay
    BY <1>1, <1>2, Fields, Constants DEF Tick
  <2> QED
    BY <1>1, <1>2, <2>1, Unmoved DEF Inv
<1> QED
  BY <1>3, <1>4, <1>5, <1>6 DEF Inv

\* What is common to the steps of a call that leave the history of the
\* tokens alone: only l is left to look at.
LEMMA CallStep ==
    ASSUME Inv, NEW l \in Lookup,
           UNCHANGED <<now, tokens, changes, past>>,
           errors \subseteq errors', errors' \subseteq Key \X Time,
           lookup' \in [Lookup -> Call],
           \A m \in Lookup \ {l} : lookup'[m] = lookup[m],
           lookup'[l].i \in 1 .. Len(Candidates[l]),
           cache' \in [Key -> Entry],
           \A k \in Key : cache'[k] = cache[k] \/ EntryOK(k)',
           CallOK(l)'
    PROVE  Inv'
<1>1. TypeOK /\ now \in Nat /\ now' = now
  BY Fields DEF Inv
<1>2. TypeOK'
  BY <1>1, LookupType DEF TypeOK
<1>3. Recorded'
  BY DEF Inv, Recorded
<1>4. \A k \in Key : EntryOK(k)'
  BY <1>1, EntryKept DEF Inv
<1>5. \A m \in Lookup \ {l} : CallOK(m)'
  <2>1. \A m \in Lookup : lookup[m].pc = "fill" => now' <= lookup[m].asOf + MaxDelay
    BY <1>1 DEF Inv, CallOK
  <2> QED
    BY <1>1, <2>1, Unmoved DEF Inv
<1> QED
  BY <1>2, <1>3, <1>4, <1>5 DEF Inv

\* A call begins with the first candidate.
LEMMA BeginInv ==
    ASSUME Inv, NEW l \in Lookup, Begin(l)
    PROVE  Inv'
<1>1. TypeOK /\ now \in Time /\ now \in Nat
  BY Fields DEF Inv, TypeOK
<1> DEFINE r == FirstOf("check", now)
<1>2. r \in Call /\ r.pc = "check" /\ r.started = now /\ r.i = 1
  BY <1>1, Constants DEF FirstOf, Call, Place, Answer, Time
<1>3. lookup' = [lookup EXCEPT ![l] = r]
  BY DEF Begin
<1>4. /\ lookup' \in [Lookup -> Call] /\ lookup'[l] = r
      /\ \A m \in Lookup \ {l} : lookup'[m] = lookup[m]
  BY <1>1, <1>2, <1>3 DEF TypeOK
<1>5. CallOK(l)'
  BY <1>1, <1>2, <1>4, Constants DEF Begin, CallOK
<1>6. /\ UNCHANGED <<now, tokens, changes, past, errors, cache>>
      /\ errors \subseteq Key \X Time /\ cache \in [Key -> Entry]
  BY <1>1 DEF Begin, TypeOK
<1>7. lookup'[l].i \in 1 .. Len(Candidates[l])
  BY <1>2, <1>4, Constants
<1> QED
  BY <1>4, <1>5, <1>6, <1>7, CallStep

\* An entry that has not expired is recent.
LEMMA HitInv ==
    ASSUME Inv, NEW l \in Lookup, Hit(l)
    PROVE  Inv'
<1> DEFINE k == KeyOf(l)
<1>1. TypeOK /\ CallOK(l) /\ EntryOK(k) /\ k \in Key /\ cache[k].user \in Answer
  BY Fields DEF Inv
<1>2. /\ lookup[l].pc = "check" /\ now < cache[k].expires /\ Return(l, cache[k].user)
      /\ UNCHANGED <<now, tokens, changes, cache, past, errors>>
  BY DEF Hit, Valid
<1>3. /\ cache[k].asOf \in Time /\ Supported(k, cache[k].user, cache[k].asOf)
      /\ now < cache[k].asOf + Age /\ cache[k].asOf <= now
  BY <1>1, <1>2, Fields, Constants DEF EntryOK
<1>4. CallOK(l)'
  BY <1>1, <1>2, <1>3, ReturnOK
<1>5. errors \subseteq Key \X Time /\ cache \in [Key -> Entry]
  BY <1>1 DEF TypeOK
<1> QED
  BY <1>1, <1>2, <1>4, <1>5, ReturnEffect, CallStep

\* A change of place that is not an answer.
LEMMA MissInv ==
    ASSUME Inv, NEW l \in Lookup, Miss(l)
    PROVE  Inv'
<1> DEFINE r == [lookup[l] EXCEPT !.pc = "query"]
<1>1. TypeOK /\ CallOK(l)
  BY DEF Inv
<1>2. /\ r \in Call /\ r.pc = "query" /\ r.started = lookup[l].started
      /\ r.i = lookup[l].i
  BY <1>1, Fields DEF Call, Place
<1>3. lookup[l].pc = "check" /\ lookup' = [lookup EXCEPT ![l] = r]
  BY <1>1 DEF Miss, TypeOK
<1>4. /\ lookup' \in [Lookup -> Call] /\ lookup'[l] = r
      /\ \A m \in Lookup \ {l} : lookup'[m] = lookup[m]
  BY <1>1, <1>2, <1>3 DEF TypeOK
<1>5. UNCHANGED <<now, tokens, changes, past, errors, cache>>
  BY DEF Miss
<1>6. \A j \in 1 .. Len(Candidates[l]) : PassedOver(l, j, now) => PassedOver(l, j, now)'
  BY <1>2, <1>4, <1>5 DEF PassedOver, Supported
<1>7. CallOK(l)'
  BY <1>1, <1>2, <1>3, <1>4, <1>5, <1>6 DEF CallOK
<1>8. errors \subseteq Key \X Time /\ cache \in [Key -> Entry]
  BY <1>1 DEF TypeOK
<1> QED
  BY <1>1, <1>2, <1>4, <1>5, <1>7, <1>8, Fields, CallStep

\* The database answers: what it says is recorded.
LEMMA AskInv ==
    ASSUME Inv, NEW l \in Lookup, Query(l) \/ QueryFails(l)
    PROVE  Inv'
<1>1. TypeOK /\ CallOK(l) /\ now \in Time /\ now \in Nat /\ KeyOf(l) \in Key
  BY Fields DEF Inv, TypeOK
<1>2. PICK u \in Answer : Ask(l, u) /\ Supported(KeyOf(l), u, now)'
  <2>1. CASE Query(l)
    <3>1. tokens[KeyOf(l)] \in Answer /\ Ask(l, tokens[KeyOf(l)])
      BY <1>1, <2>1 DEF Query, TypeOK
    <3>2. <<KeyOf(l), tokens[KeyOf(l)], now>> \in past' /\ KeyOf(l)' = KeyOf(l)
      BY <1>1, <3>1 DEF Inv, Recorded, Ask, KeyOf, TypeOK
    <3> QED
      BY <3>1, <3>2 DEF Supported, Ask
  <2>2. CASE QueryFails(l)
    <3>1. NoUser \in Answer /\ Ask(l, NoUser) /\ <<KeyOf(l), now>> \in errors'
      BY <2>2 DEF QueryFails, Answer
    <3>2. KeyOf(l)' = KeyOf(l)
      BY <1>1, <3>1 DEF Ask, KeyOf, TypeOK
    <3> QED
      BY <3>1, <3>2 DEF Supported, Ask
  <2> QED
    BY <2>1, <2>2
<1> DEFINE r == [lookup[l] EXCEPT !.pc = "fill", !.user = u, !.asOf = now]
<1>3. /\ r \in Call /\ r.pc = "fill" /\ r.started = lookup[l].started
      /\ r.i = lookup[l].i /\ r.user = u /\ r.asOf = now
  BY <1>1, Fields DEF Call, Place
<1>4. lookup[l].pc = "query" /\ lookup' = [lookup EXCEPT ![l] = r]
  BY <1>1, <1>2 DEF Ask, TypeOK
<1>5. /\ lookup' \in [Lookup -> Call] /\ lookup'[l] = r
      /\ \A m \in Lookup \ {l} : lookup'[m] = lookup[m]
  BY <1>1, <1>3, <1>4 DEF TypeOK
<1>6. UNCHANGED <<now, tokens, changes, past, cache>> /\ errors \subseteq errors'
  BY <1>2 DEF Ask, Query, QueryFails
<1>7. \A j \in 1 .. Len(Candidates[l]) : PassedOver(l, j, now) => PassedOver(l, j, now)'
  BY <1>3, <1>5, <1>6 DEF PassedOver, Supported
<1>8. CallOK(l)'
  BY <1>1, <1>2, <1>3, <1>4, <1>5, <1>6, <1>7, Constants DEF CallOK
<1>9. errors' \subseteq Key \X Time /\ cache \in [Key -> Entry]
  BY <1>1 DEF TypeOK, Query, QueryFails
<1> QED
  BY <1>1, <1>3, <1>5, <1>6, <1>8, <1>9, Fields, CallStep

\* The answer reaches the cache while it is younger than MaxDelay.
LEMMA FillInv ==
    ASSUME Inv, NEW l \in Lookup, Fill(l)
    PROVE  Inv'
<1> DEFINE k == KeyOf(l)
           u == lookup[l].user
           t == lookup[l].asOf
           entry == [user |-> u, expires |-> now + TTL, asOf |-> t]
<1>1. /\ TypeOK /\ CallOK(l) /\ k \in Key /\ u \in Answer /\ t \in Time /\ t \in Nat
      /\ now \in Nat
  BY Fields DEF Inv
<1>2. /\ lookup[l].pc = "fill" /\ Return(l, u) /\ cache' = [cache EXCEPT ![k] = entry]
      /\ UNCHANGED <<now, tokens, changes, past, errors>>
  BY DEF Fill
<1>3. Supported(k, u, t) /\ t <= now /\ now <= t + MaxDelay
  BY <1>1, <1>2 DEF CallOK
<1>4. now < t + Age /\ now + TTL <= t + Age
  BY <1>1, <1>3, Constants DEF Age
<1>5. CallOK(l)'
  BY <1>1, <1>2, <1>3, <1>4, ReturnOK
<1>6. /\ entry \in Entry /\ entry.user = u /\ entry.expires = now + TTL /\ entry.asOf = t
  BY <1>1, Constants DEF Entry
<1>7. /\ cache' \in [Key -> Entry] /\ cache'[k] = entry
      /\ \A q \in Key \ {k} : cache'[q] = cache[q]
  BY <1>1, <1>2, <1>6 DEF TypeOK
<1>8. \A q \in Key : cache'[q] = cache[q] \/ EntryOK(q)'
  BY <1>2, <1>3, <1>4, <1>6, <1>7 DEF EntryOK, Supported
<1>9. errors \subseteq Key \X Time
  BY <1>1 DEF TypeOK
<1> QED
  BY <1>1, <1>2, <1>5, <1>7, <1>8, <1>9, ReturnEffect, CallStep

----------------------------------------------------------------------------
(***************************************************************************)
(* Inv holds in every state, however lookups that share an entry overtake  *)
(* each other and whenever tokens change or queries fail.                  *)
(***************************************************************************)
THEOREM Invariance == Spec => []Inv
<1>1. Inv /\ UNCHANGED vars => Inv'
  <2> SUFFICES ASSUME Inv, UNCHANGED vars PROVE Inv'
    OBVIOUS
  <2>1. TypeOK /\ TypeOK' /\ Recorded' /\ now \in Nat
    BY Fields DEF vars, Inv, TypeOK, Recorded
  <2>2. \A k \in Key : EntryOK(k)'
    BY <2>1, EntryKept DEF vars, Inv
  <2>3. \A l \in Lookup : lookup[l].pc = "fill" => now' <= lookup[l].asOf + MaxDelay
    BY DEF vars, Inv, CallOK
  <2>4. \A l \in Lookup : CallOK(l)'
    BY <2>1, <2>3, Unmoved DEF vars, Inv
  <2> QED
    BY <2>1, <2>2, <2>4 DEF Inv
<1>2. Inv /\ [Next]_vars => Inv'
  BY <1>1, ChangeInv, TickInv, BeginInv, HitInv, MissInv, AskInv, FillInv DEF Next, Step
<1> QED
  BY InitInv, <1>2, PTL DEF Spec

\* Every variable keeps its type; in particular a call never runs past its
\* last candidate.
THEOREM TypeCorrect == Spec => []TypeOK
<1>1. Inv => TypeOK
  BY DEF Inv
<1> QED
  BY Invariance, <1>1, PTL

\* A request is only attributed to a user who owned its token less than one
\* lifetime and one database answer ago.
THEOREM RecentAttribution == Spec => []AttributionIsRecent
<1>1. Inv => AttributionIsRecent
  BY DEF Inv, CallOK, Attributed, AttributionIsRecent
<1> QED
  BY Invariance, <1>1, PTL

\* A token is only refused if it was not valid, or the database failed, in
\* that time.
THEOREM ExplainedRefusal == Spec => []RefusalExplained
<1>1. Inv => RefusalExplained
  BY DEF Inv, CallOK, PassedOver, Supported, RefusalExplained
<1> QED
  BY Invariance, <1>1, PTL
============================================================================
