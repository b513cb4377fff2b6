----------------------------- MODULE TokenCache -----------------------------
(***************************************************************************)
(* Who sent a request: the token cache of corpus-tap                       *)
(* (internal/enrich/token.go).  Every HTTP handler looks its bearer token  *)
(* up under two spellings, with and without "sk-".  lookupOne reads the    *)
(* cache under a read lock, asks New API's tokens table with no lock held, *)
(* and writes what it was told under the write lock, whatever the entry    *)
(* has become meanwhile.  Answers of any kind, errors included, are kept   *)
(* for one lifetime.                                                       *)
(***************************************************************************)
EXTENDS Naturals, Sequences, FiniteSets

CONSTANTS
    Key,        \* spellings of tokens
    User,
    NoUser,     \* stands for ok = false
    Lookup,     \* connections, whose requests call Lookup one after the other
    Candidates, \* normalizeTokenKeys of the token each sends, never empty
    TTL,        \* mysqlLookup.ttl
    MaxDelay,   \* bound on the time from the database's answer to the fill
    MaxTime,    \* bound on the clock
    MaxChanges, \* bound on the changes of the tokens table
    MaxErrors   \* bound on the failures of queries

ASSUME UserAssumption == NoUser \notin User
ASSUME CandidatesAssumption == Candidates \in [Lookup -> Seq(Key) \ {<<>>}]
ASSUME TimeAssumption == TTL \in Nat \ {0} /\ MaxDelay \in Nat /\ MaxTime \in Nat
ASSUME BoundsAssumption == MaxChanges \in Nat /\ MaxErrors \in Nat

VARIABLES
    now,     \* the clock
    tokens,  \* the user of the enabled, unexpired row of a key, or NoUser
    changes, \* how often the table was changed
    cache,   \* mysqlLookup.cache: what each entry holds and until when
    lookup,  \* the present or last call of each, see Call
    past,    \* history: <<k, u, t>> when k belonged to u at time t
    errors   \* history: <<k, t>> when a query for k failed at time t

vars == <<now, tokens, changes, cache, lookup, past, errors>>

Answer == User \cup {NoUser}
Time == 0 .. MaxTime

\* expires = 0 is the zero time of a key that is not in the map.  asOf is a
\* history field: when the database gave the answer.
Entry == [user : Answer, expires : Nat, asOf : Time]
NoEntry == [user |-> NoUser, expires |-> 0, asOf |-> 0]

(***************************************************************************)
(* i is the candidate in hand.  "query" is lookupOne with no lock held     *)
(* before the database looks at the table, "fill" after it, with user and  *)
(* asOf the answer.  started and ended are history.                        *)
(***************************************************************************)
Place == {"idle", "check", "query", "fill", "done"}
Call == [pc : Place, i : Nat \ {0}, user : Answer, asOf : Time,
         started : Time, ended : Time]
FirstOf(p, t) == [pc |-> p, i |-> 1, user |-> NoUser, asOf |-> 0, started |-> t, ended |-> 0]

Init ==
    /\ now = 0
    /\ tokens \in [Key -> Answer]
    /\ changes = 0
    /\ cache = [k \in Key |-> NoEntry]
    /\ lookup = [l \in Lookup |-> FirstOf("idle", 0)]
    /\ past = {<<k, tokens[k], 0>> : k \in Key}
    /\ errors = {}

----------------------------------------------------------------------------
(* The tokens table and the clock. *)

\* New API issues, disables or reassigns a token, or it expires.
ChangeToken(k, u) ==
    /\ changes < MaxChanges
    /\ tokens[k] # u
    /\ tokens' = [tokens EXCEPT ![k] = u]
    /\ changes' = changes + 1
    /\ past' = past \cup {<<k, u, now>>}
    /\ UNCHANGED <<now, cache, lookup, errors>>

Tick ==
    /\ now < MaxTime
    /\ \A l \in Lookup : lookup[l].pc = "fill" => now < lookup[l].asOf + MaxDelay
    /\ now' = now + 1
    /\ past' = past \cup {<<k, tokens[k], now + 1>> : k \in Key}
    /\ UNCHANGED <<tokens, changes, cache, lookup, errors>>

----------------------------------------------------------------------------
(* Lookup and lookupOne. *)

KeyOf(l) == Candidates[l][lookup[l].i]

Begin(l) ==
    /\ lookup[l].pc \in {"idle", "done"}
    /\ lookup' = [lookup EXCEPT ![l] = FirstOf("check", now)]
    /\ UNCHANGED <<now, tokens, changes, cache, past, errors>>

Done(l, u) ==
    lookup' = [lookup EXCEPT ![l].pc = "done", ![l].user = u, ![l].asOf = 0, ![l].ended = now]
NextCandidate(l) ==
    lookup' = [lookup EXCEPT ![l].pc = "check", ![l].asOf = 0, ![l].i = @ + 1]

\* Fault: the answer for the first spelling is final.
ReturnFirst(l, u) == Done(l, u)

\* Fault: the end of the candidates is not noticed.
ReturnRunsOn(l, u) == IF u # NoUser THEN Done(l, u) ELSE NextCandidate(l)

\* lookupOne returns u.  Lookup is finished if that is a user or there is no
\* other candidate.
Return(l, u) ==
    IF u # NoUser \/ lookup[l].i = Len(Candidates[l]) THEN Done(l, u) ELSE NextCandidate(l)

Valid(k) == now < cache[k].expires

Hit(l) ==
    /\ lookup[l].pc = "check"
    /\ Valid(KeyOf(l))
    /\ Return(l, cache[KeyOf(l)].user)
    /\ UNCHANGED <<now, tokens, changes, cache, past, errors>>

Miss(l) ==
    /\ lookup[l].pc = "check"
    /\ ~Valid(KeyOf(l))
    /\ lookup' = [lookup EXCEPT ![l].pc = "query"]
    /\ UNCHANGED <<now, tokens, changes, cache, past, errors>>

Ask(l, u) ==
    /\ lookup[l].pc = "query"
    /\ lookup' = [lookup EXCEPT ![l].pc = "fill", ![l].user = u, ![l].asOf = now]
    /\ UNCHANGED <<now, tokens, changes, cache, past>>

Query(l) ==
    /\ Ask(l, tokens[KeyOf(l)])
    /\ UNCHANGED errors

\* No row and a failed query are one branch of the code.
QueryFails(l) ==
    /\ Cardinality(errors) < MaxErrors
    /\ Ask(l, NoUser)
    /\ errors' = errors \cup {<<KeyOf(l), now>>}

\* Fault: an answer that did not name a user leaves the old one in place, and
\* prolongs it.
FillKeepsUser(l) ==
    /\ lookup[l].pc = "fill"
    /\ cache' = [cache EXCEPT ![KeyOf(l)] =
                    [user    |-> IF lookup[l].user = NoUser THEN @.user ELSE lookup[l].user,
                     expires |-> now + TTL,
                     asOf    |-> lookup[l].asOf]]
    /\ Return(l, lookup[l].user)
    /\ UNCHANGED <<now, tokens, changes, past, errors>>

Fill(l) ==
    /\ lookup[l].pc = "fill"
    /\ cache' = [cache EXCEPT ![KeyOf(l)] = [user    |-> lookup[l].user,
                                             expires |-> now + TTL,
                                             asOf    |-> lookup[l].asOf]]
    /\ Return(l, lookup[l].user)
    /\ UNCHANGED <<now, tokens, changes, past, errors>>

Step(l) == Hit(l) \/ Miss(l) \/ Query(l) \/ QueryFails(l) \/ Fill(l)

Next ==
    \/ \E k \in Key, u \in Answer : ChangeToken(k, u)
    \/ Tick
    \/ \E l \in Lookup : Begin(l) \/ Step(l)

Spec == Init /\ [][Next]_vars

----------------------------------------------------------------------------
TypeOK ==
    /\ now \in Time
    /\ tokens \in [Key -> Answer]
    /\ changes \in 0 .. MaxChanges
    /\ cache \in [Key -> Entry]
    /\ lookup \in [Lookup -> Call]
    /\ \A l \in Lookup : lookup[l].i \in DOMAIN Candidates[l]
    /\ past \subseteq Key \X Answer \X Time
    /\ errors \subseteq Key \X Time

\* An answer may be older than the call by this much, and no more: the time
\* it took to reach the cache and the lifetime it had there.
Age == TTL + MaxDelay

(***************************************************************************)
(* A request is only attributed to a user who owned one of the two         *)
(* spellings less than one lifetime and one database answer ago, however   *)
(* the lookups that share an entry overwrite each other (lookupOne 66-89). *)
(* So a token that was revoked or reassigned longer ago never decides      *)
(* whose corpus an exchange becomes.                                       *)
(***************************************************************************)
AttributionIsRecent ==
    \A l \in Lookup :
        lookup[l].pc = "done" /\ lookup[l].user # NoUser =>
            \E t \in Time :
                /\ <<KeyOf(l), lookup[l].user, t>> \in past
                /\ lookup[l].ended < t + Age
                /\ t <= lookup[l].ended

(***************************************************************************)
(* A spelling is only passed over for a reason: it had no enabled row, or  *)
(* a query for it failed, less than one lifetime and one database answer   *)
(* before the call began, or during it (Lookup 57-64).  A request whose    *)
(* token was valid all that time is captured unless the database failed.   *)
(***************************************************************************)
RefusalExplained ==
    \A l \in Lookup :
        lookup[l].pc = "done" =>
            \A i \in 1 .. Len(Candidates[l]) :
                \/ lookup[l].user # NoUser /\ i >= lookup[l].i
                \/ \E t \in Time :
                      /\ \/ <<Candidates[l][i], NoUser, t>> \in past
                         \/ <<Candidates[l][i], t>> \in errors
                      /\ lookup[l].started < t + Age
                      /\ t <= lookup[l].ended
============================================================================
