----------------------------- MODULE ProfileRun -----------------------------
(***************************************************************************)
(* The L1 analysis of corpus-profile: RunOnce and its goroutines.          *)
(*                                                                         *)
(*   RunOnce, processExchange        internal/analysis/profile/worker/worker.go  *)
(*   runStage1, runUserProfiling     internal/analysis/profile/worker/pipeline.go*)
(*   the statements they execute     internal/store/analysis_profile.go    *)
(*                                                                         *)
(* A run lists the exchanges that have no exchange_quality row, asks a     *)
(* model about each, and stores its answer in several statements, each a   *)
(* transaction of its own: the quality row, then, for tier A, a curated    *)
(* chunk and an SFT candidate.  POST /internal/run and the hourly ticker   *)
(* (cmd/corpus-profile/main.go) each start a run on the same Worker and    *)
(* nothing keeps two runs apart.                                           *)
(***************************************************************************)
EXTENDS Naturals, FiniteSets, FiniteSetsExt

CONSTANTS
    N,          \* number of exchanges, numbered in the order of created_at
    User,
    Owner,      \* the user of each exchange
    ResponseOf, \* the URI column insertMeta fills for its response, if any
    Rejected,   \* the exchanges RuleGate rejects
    Run,        \* the calls of RunOnce, each of which happens at most once
    NoRun,
    Answers,    \* what the Stage 1 model may answer, see Answer
    Workers,    \* CORPUS_PROFILE_WORKERS
    Limit,      \* the limit RunOnce passes to ListPendingProfile
    MaxActive,  \* bound on the runs under way at the same time
    MaxExits,   \* bound on the number of process exits
    MaxRedos    \* bound on the number of conclusions deleted for a rerun

Exchange == 1 .. N
ResponseColumn == {"upstream_response_uri", "assembled_stream_uri"}

(***************************************************************************)
(* chunk says whether the answer holds a curated_chunk; sft is "none", or  *)
(* says whether its sft_candidate is eligible.                             *)
(***************************************************************************)
Answer == [tier : {"A", "B", "C", "other"}, rag : BOOLEAN, chunk : BOOLEAN,
           sft : {"none", "ineligible", "eligible"}]

ASSUME SizeAssumption == N \in Nat /\ Limit \in Nat \ {0} /\ Workers \in Nat \ {0}
ASSUME BoundAssumption == {MaxActive, MaxExits, MaxRedos} \subseteq Nat
ASSUME OwnerAssumption == Owner \in [Exchange -> User]
ASSUME ColumnAssumption == ResponseOf \in [Exchange -> ResponseColumn \cup {"none"}]
ASSUME RejectedAssumption == Rejected \subseteq Exchange
ASSUME RunAssumption == NoRun \notin Run
ASSUME AnswersAssumption == Answers \subseteq Answer

VARIABLES
    facts,    \* the exchanges whose row is in http_exchange
    quality,  \* exchange_quality
    chunk,    \* curated_chunk
    sft,      \* sft_candidate
    profiled, \* the users with a user_profile row
    stage2,   \* how Stage 2 last went for a user
    cursor,   \* analysis_fact_cursor
    current,  \* Worker.runID
    run,      \* each RunOnce: where it is, the rows it listed, those to do
    task,     \* the goroutine of a run for an exchange, and its answer
    faulted,  \* history: the exchanges for which a statement failed
    beside,   \* history: the pairs of runs that were under way together
    exits,
    redos

tables == <<quality, chunk, sft>>
users == <<profiled, stage2>>
bounds == <<exits, redos>>
history == <<faulted, beside>>
vars == <<facts, tables, users, cursor, current, run, task, history, bounds>>

(***************************************************************************)
(* from is the run whose parser or model produced the content of a row,    *)
(* run its profile_run_id column.  answer stands for llm1_json and the     *)
(* columns taken from it: tier, rag_indexable and, when the SFT candidate  *)
(* is eligible, trainable_as_sft.  pair is what the stored pair_json says  *)
(* of itself, eligible the sft_eligible column.                            *)
(***************************************************************************)
NoRow == [status |-> "absent"]
Verdict == {a \in Answer : a.tier # "other"}
Quality == [status : {"ok", "failed", "skipped_gate"}, answer : Verdict,
            from : Run, run : Run \cup {NoRun}]
Chunk == [status : {"present"}, rag : BOOLEAN, from : Run, run : Run \cup {NoRun}]
SFT == [status : {"present"}, pair : {"eligible", "ineligible"},
        eligible : BOOLEAN, from : Run, run : Run \cup {NoRun}]

NoAnswer == [tier |-> "C", rag |-> FALSE, chunk |-> FALSE, sft |-> "none"]
NoTask == [stage |-> "none", answer |-> NoAnswer]
Stage == {"none", "started", "chunk", "sft", "check", "recent", "ask", "upsert", "done"}
Place == {"idle", "started", "looping", "finished", "failed", "lost"}
Ended == {"finished", "failed", "lost"}

Init ==
    /\ facts = {}
    /\ quality = [e \in Exchange |-> NoRow]
    /\ chunk = [e \in Exchange |-> NoRow]
    /\ sft = [e \in Exchange |-> NoRow]
    /\ profiled = {}
    /\ stage2 = [u \in User |-> "not_run"]
    /\ cursor = [at |-> 0, id |-> 0]
    /\ current = NoRun
    /\ run = [r \in Run |-> [pc |-> "idle", rows |-> {}, todo |-> {}]]
    /\ task = [r \in Run |-> [e \in Exchange |-> NoTask]]
    /\ faulted = {}
    /\ beside = {}
    /\ exits = 0
    /\ redos = 0

----------------------------------------------------------------------------
(***************************************************************************)
(* corpus-tap inserts a row.  created_at is the time the request came in,  *)
(* so rows arrive in any order.  Only rows ListPendingProfile may return   *)
(* are modelled: not skipped, no store error, a client_request_uri.        *)
(***************************************************************************)
Arrive(e) ==
    /\ e \notin facts
    /\ facts' = facts \cup {e}
    /\ UNCHANGED <<tables, users, cursor, current, run, task, history, bounds>>

Active == {r \in Run : run[r].pc \in {"started", "looping"}}

\* The runs r finds under way have it beside them, and it has them.
MeetsActive(r) == beside' = beside \cup ({r} \X Active) \cup (Active \X {r})

\* Fault: the Worker keeps the id of its first run.
StartKeepsRunID(r) ==
    /\ run[r].pc = "idle"
    /\ Cardinality(Active) < MaxActive
    /\ run' = [run EXCEPT ![r].pc = "started"]
    /\ current' = IF current = NoRun THEN r ELSE current
    /\ MeetsActive(r)
    /\ UNCHANGED <<facts, tables, users, cursor, task, faulted, bounds>>

\* StartProfileRun, and the run's id becomes the one of the Worker.
Start(r) ==
    /\ run[r].pc = "idle"
    /\ Cardinality(Active) < MaxActive
    /\ run' = [run EXCEPT ![r].pc = "started"]
    /\ current' = r
    /\ MeetsActive(r)
    /\ UNCHANGED <<facts, tables, users, cursor, task, faulted, bounds>>

\* Fault: exchanges that have a quality row are listed again.
PendingForever == facts

\* ListPendingProfile: no quality row, oldest first, at most Limit.
Pending == {e \in facts : quality[e] = NoRow}
Oldest(S) == {e \in S : Cardinality({f \in S : f < e}) < Limit}

ListPending(r) ==
    /\ run[r].pc = "started"
    /\ run' = [run EXCEPT ![r] = [pc |-> "looping", rows |-> Oldest(Pending),
                                  todo |-> Oldest(Pending)]]
    /\ UNCHANGED <<facts, tables, users, cursor, current, task, history, bounds>>

\* RunOnce returns the error and the profile_run row is never finished.
ListFails(r) ==
    /\ run[r].pc = "started"
    /\ run' = [run EXCEPT ![r].pc = "failed"]
    /\ UNCHANGED <<facts, tables, users, cursor, current, task, history, bounds>>

\* Fault: the place in the semaphore is not given back.
InFlightForever(r) == {e \in Exchange : task[r][e].stage # "none"}

InFlight(r) == {e \in Exchange : task[r][e].stage \notin {"none", "done"}}

\* The next turn of the loop is about e.
NextRow(r, e) ==
    /\ run[r].pc = "looping"
    /\ run[r].todo # {}
    /\ e = Min(run[r].todo)
    /\ run' = [run EXCEPT ![r].todo = @ \ {e}]

PutQuality(r, e, status, a) ==
    quality' = [quality EXCEPT ![e] =
                  [status |-> status, answer |-> a, from |-> r, run |-> current]]

\* RuleGate rejects e: a row of tier C, and an error is not looked at.
GateRejects(r, e) ==
    /\ NextRow(r, e)
    /\ e \in Rejected
    /\ \/ PutQuality(r, e, "skipped_gate", NoAnswer) /\ UNCHANGED faulted
       \/ faulted' = faulted \cup {e} /\ UNCHANGED quality
    /\ UNCHANGED <<facts, chunk, sft, users, cursor, current, task, beside, bounds>>

\* Fault: no semaphore.
SpawnUnbounded(r, e) ==
    /\ NextRow(r, e)
    /\ e \notin Rejected
    /\ task' = [task EXCEPT ![r][e].stage = "started"]
    /\ UNCHANGED <<facts, tables, users, cursor, current, history, bounds>>

\* The loop takes a place in the semaphore and starts a goroutine.
Spawn(r, e) ==
    /\ NextRow(r, e)
    /\ e \notin Rejected
    /\ Cardinality(InFlight(r)) < Workers
    /\ task' = [task EXCEPT ![r][e].stage = "started"]
    /\ UNCHANGED <<facts, tables, users, cursor, current, history, bounds>>

\* Fault: the run does not wait for its goroutines.
ConcludeEarly(r) ==
    /\ run[r].pc = "looping"
    /\ run[r].todo = {}
    /\ run' = [run EXCEPT ![r].pc = "finished"]
    /\ UNCHANGED <<facts, tables, users, cursor, current, task, history, bounds>>

\* UpdateAnalysisFactCursor: the id is replaced in any case.
MoveCursor(last) == cursor' = [at |-> Max({cursor.at, last}), id |-> last]

(***************************************************************************)
(* All goroutines have returned: the fact cursor is moved (an error is not *)
(* looked at) and the profile_run row finished.                            *)
(***************************************************************************)
Conclude(r) ==
    /\ run[r].pc = "looping"
    /\ run[r].todo = {}
    /\ InFlight(r) = {}
    /\ \/ run[r].rows # {} /\ MoveCursor(Max(run[r].rows))
       \/ UNCHANGED cursor
    /\ run' = [run EXCEPT ![r].pc = "finished"]
    /\ UNCHANGED <<facts, tables, users, current, task, history, bounds>>

----------------------------------------------------------------------------
(* processExchange, on the goroutine of r for e. *)

\* The answer is of use until the last asset is stored.
Advance(r, e, s) ==
    task' = [task EXCEPT ![r][e] =
                [stage  |-> s,
                 answer |-> IF s = "sft" THEN task[r][e].answer ELSE NoAnswer]]

\* The bodies cannot be read or parsed, or the user said too little.
Discard(r, e) ==
    /\ task[r][e].stage = "started"
    /\ PutQuality(r, e, "skipped_gate", NoAnswer)
    /\ Advance(r, e, "done")
    /\ UNCHANGED <<facts, chunk, sft, users, cursor, current, run, history, bounds>>

\* The model cannot be asked, or its answer is not the JSON asked for.
ModelFails(r, e) ==
    /\ task[r][e].stage = "started"
    /\ PutQuality(r, e, "failed", NoAnswer)
    /\ Advance(r, e, "done")
    /\ UNCHANGED <<facts, chunk, sft, users, cursor, current, run, history, bounds>>

\* Fault: the tier is stored as the model spelled it.
KeepTier(t) == t

NormalizeTier(t) == IF t \in {"A", "B", "C"} THEN t ELSE "C"

\* Fault: assets are only looked at when the answer is RAG indexable.
JudgeIndexableOnly(r, e) ==
    /\ task[r][e].stage = "started"
    /\ \E a \in Answers :
          /\ PutQuality(r, e, "ok", [a EXCEPT !.tier = NormalizeTier(@)])
          /\ task' = [task EXCEPT ![r][e] =
                        [stage  |-> IF a.tier = "A" /\ a.rag THEN "chunk" ELSE "done",
                         answer |-> a]]
    /\ UNCHANGED <<facts, chunk, sft, users, cursor, current, run, history, bounds>>

\* The quality row is stored; only tier A goes on.
Judge(r, e) ==
    /\ task[r][e].stage = "started"
    /\ \E raw \in Answers :
          LET a == [raw EXCEPT !.tier = NormalizeTier(@)]
          IN  /\ PutQuality(r, e, "ok", a)
              /\ task' = [task EXCEPT ![r][e] =
                            IF a.tier = "A" THEN [stage |-> "chunk", answer |-> a]
                                            ELSE [NoTask EXCEPT !.stage = "done"]]
    /\ UNCHANGED <<facts, chunk, sft, users, cursor, current, run, history, bounds>>

\* The prompt cannot be read, or the quality row not be stored: e stays
\* pending.
TaskFails(r, e) ==
    /\ task[r][e].stage = "started"
    /\ faulted' = faulted \cup {e}
    /\ Advance(r, e, "done")
    /\ UNCHANGED <<facts, tables, users, cursor, current, run, beside, bounds>>

\* Each asset is one statement whose error is not looked at.
InsertChunk(r, e) ==
    /\ task[r][e].stage = "chunk"
    /\ LET a == task[r][e].answer
       IN  \/ /\ a.chunk
              /\ chunk' = [chunk EXCEPT ![e] = [status |-> "present", rag |-> a.rag,
                                                from |-> r, run |-> current]]
              /\ UNCHANGED faulted
           \/ a.chunk /\ faulted' = faulted \cup {e} /\ UNCHANGED chunk
           \/ ~a.chunk /\ UNCHANGED <<chunk, faulted>>
    /\ Advance(r, e, "sft")
    /\ UNCHANGED <<facts, quality, sft, users, cursor, current, run, beside, bounds>>

\* Fault: ON CONFLICT replaces the pair and not the sft_eligible column.
InsertSFTKeepsFlag(r, e) ==
    /\ task[r][e].stage = "sft"
    /\ LET a == task[r][e].answer
       IN  /\ a.sft # "none"
           /\ sft' = [sft EXCEPT ![e] =
                        [status |-> "present", pair |-> a.sft,
                         eligible |-> IF sft[e] = NoRow THEN a.sft = "eligible"
                                                        ELSE sft[e].eligible,
                         from |-> r, run |-> current]]
    /\ Advance(r, e, "check")
    /\ UNCHANGED <<facts, quality, chunk, users, cursor, current, run, history, bounds>>

InsertSFT(r, e) ==
    /\ task[r][e].stage = "sft"
    /\ LET a == task[r][e].answer
       IN  \/ /\ a.sft # "none"
              /\ sft' = [sft EXCEPT ![e] = [status |-> "present", pair |-> a.sft,
                                            eligible |-> a.sft = "eligible",
                                            from |-> r, run |-> current]]
              /\ UNCHANGED faulted
           \/ a.sft # "none" /\ faulted' = faulted \cup {e} /\ UNCHANGED sft
           \/ a.sft = "none" /\ UNCHANGED <<sft, faulted>>
    /\ Advance(r, e, "check")
    /\ UNCHANGED <<facts, quality, chunk, users, cursor, current, run, beside, bounds>>

(* Stage 2, checkAndRunUserProfiling and runUserProfiling, for the user of e. *)

\* It is over for u, and how it went.
Returns(r, e, how) ==
    /\ stage2' = [stage2 EXCEPT ![Owner[e]] = how]
    /\ Advance(r, e, "done")

\* A call of Stage 2 fails: its error is logged and no more.
CallFails(r, e) ==
    /\ task[r][e].stage \in {"check", "recent", "ask", "upsert"}
    /\ Returns(r, e, "call_failed")
    /\ UNCHANGED <<facts, tables, profiled, cursor, current, run, history, bounds>>

TierA(u) == {e \in facts : Owner[e] = u /\ quality[e] # NoRow /\ quality[e].answer.tier = "A"}

(***************************************************************************)
(* GetUserTierACountSinceLastProfile, GetUserLastProfileTime and what they *)
(* decide.  Without a user_profile row one exchange of tier A suffices;    *)
(* with one, it depends on numbers and times that are not modelled.        *)
(***************************************************************************)
CheckUser(r, e) ==
    /\ task[r][e].stage = "check"
    /\ \/ /\ TierA(Owner[e]) = {} \/ Owner[e] \in profiled
          /\ Advance(r, e, "done")
       \/ /\ TierA(Owner[e]) # {}
          /\ Advance(r, e, "recent")
    /\ UNCHANGED <<facts, tables, users, cursor, current, run, history, bounds>>

(***************************************************************************)
(* GetUserRecentTierA scans the columns below into Go strings, which fails *)
(* on NULL, and insertMeta leaves the column of the response that was not  *)
(* stored NULL.                                                            *)
(***************************************************************************)
ScannedColumns == {"client_request_uri"} \cup ResponseColumn
Columns(e) == {"client_request_uri", ResponseOf[e]}
Scannable(u) == \A e \in TierA(u) : ScannedColumns \subseteq Columns(e)

ReadRecent(r, e) ==
    /\ task[r][e].stage = "recent"
    /\ IF Scannable(Owner[e])
       THEN Advance(r, e, "ask") /\ UNCHANGED stage2
       ELSE Returns(r, e, "returned")
    /\ UNCHANGED <<facts, tables, profiled, cursor, current, run, history, bounds>>

\* The model of Stage 2 answers with a profile.
AskProfile(r, e) ==
    /\ task[r][e].stage = "ask"
    /\ Advance(r, e, "upsert")
    /\ UNCHANGED <<facts, tables, users, cursor, current, run, history, bounds>>

UpsertProfile(r, e) ==
    /\ task[r][e].stage = "upsert"
    /\ profiled' = profiled \cup {Owner[e]}
    /\ Returns(r, e, "returned")
    /\ UNCHANGED <<facts, tables, cursor, current, run, history, bounds>>

----------------------------------------------------------------------------
\* Runs under way end with the process; what they had in hand is lost.
Exit ==
    /\ exits < MaxExits
    /\ exits' = exits + 1
    /\ faulted' = faulted \cup UNION {InFlight(r) : r \in Run}
    /\ run' = [r \in Run |-> IF r \in Active THEN [run[r] EXCEPT !.pc = "lost"]
                                             ELSE run[r]]
    /\ task' = [r \in Run |-> [e \in Exchange |-> NoTask]]
    /\ current' = NoRun
    /\ UNCHANGED <<facts, tables, users, cursor, beside, redos>>

\* A model answers without choices: resp.Choices[0] panics, in either stage.
Panic(r, e) == task[r][e].stage \in {"started", "ask"} /\ Exit

\* The operator deletes a conclusion, its assets first, to have it redone.
Redo(e) ==
    /\ redos < MaxRedos
    /\ Active = {}
    /\ quality[e] # NoRow
    /\ chunk' = [chunk EXCEPT ![e] = NoRow]
    /\ sft' = [sft EXCEPT ![e] = NoRow]
    /\ quality' = [quality EXCEPT ![e] = NoRow]
    /\ redos' = redos + 1
    /\ UNCHANGED <<facts, users, cursor, current, run, task, history, exits>>

RunStep(r) ==
    \/ ListPending(r)
    \/ ListFails(r)
    \/ \E e \in Exchange : GateRejects(r, e) \/ Spawn(r, e)
    \/ Conclude(r)

TaskStep(r, e) ==
    \/ Discard(r, e)
    \/ ModelFails(r, e)
    \/ Judge(r, e)
    \/ TaskFails(r, e)
    \/ InsertChunk(r, e)
    \/ InsertSFT(r, e)
    \/ CallFails(r, e)
    \/ CheckUser(r, e)
    \/ ReadRecent(r, e)
    \/ AskProfile(r, e)
    \/ UpsertProfile(r, e)
    \/ Panic(r, e)

Next ==
    \/ \E e \in Exchange : Arrive(e) \/ Redo(e)
    \/ \E r \in Run : Start(r) \/ RunStep(r)
    \/ \E r \in Run, e \in Exchange : TaskStep(r, e)
    \/ Exit

Spec == Init /\ [][Next]_vars

(***************************************************************************)
(* While the loop of a run or one of its goroutines can go on, one of them *)
(* does: the model client has a timeout of 120 s, and statements are       *)
(* supposed to return, with or without an error.  Nothing makes a run      *)
(* start.                                                                  *)
(***************************************************************************)
Fairness ==
    \A r \in Run : WF_vars(RunStep(r) \/ \E e \in Exchange : TaskStep(r, e))

FairSpec == Spec /\ Fairness

----------------------------------------------------------------------------
TypeOK ==
    /\ facts \subseteq Exchange
    /\ quality \in [Exchange -> Quality \cup {NoRow}]
    /\ chunk \in [Exchange -> Chunk \cup {NoRow}]
    /\ sft \in [Exchange -> SFT \cup {NoRow}]
    /\ profiled \subseteq User
    /\ stage2 \in [User -> {"not_run", "call_failed", "returned"}]
    /\ cursor \in [at : 0 .. N, id : 0 .. N]
    /\ current \in Run \cup {NoRun}
    /\ run \in [Run -> [pc : Place, rows : SUBSET Exchange, todo : SUBSET Exchange]]
    /\ task \in [Run -> [Exchange -> [stage : Stage, answer : Answer]]]
    /\ faulted \subseteq Exchange
    /\ beside \subseteq Run \X Run
    /\ exits \in 0 .. MaxExits
    /\ redos \in 0 .. MaxRedos

(***************************************************************************)
(* A run works on what it listed and nothing else, on no more than Workers *)
(* exchanges at a time, and none of its goroutines outlives it (the        *)
(* semaphore and the WaitGroup of RunOnce).                                *)
(***************************************************************************)
GoroutinesContained ==
    \A r \in Run :
        /\ Cardinality(InFlight(r)) <= Workers
        /\ InFlight(r) \subseteq run[r].rows \ run[r].todo
        /\ InFlight(r) # {} => run[r].pc = "looping"

(***************************************************************************)
(* A run that has finished has left nothing behind: every exchange it      *)
(* listed has a conclusion, its own or that of a run beside it, unless a   *)
(* statement failed for it, as long as the operator has deleted none.      *)
(***************************************************************************)
FinishedRunSettles ==
    redos = 0 =>
        \A r \in Run : run[r].pc = "finished" =>
            \A e \in run[r].rows : quality[e] # NoRow \/ e \in faulted

(***************************************************************************)
(* The quality row is the commit point of Stage 1: it takes the exchange   *)
(* off the queue, so an asset its answer holds and the tables lack is      *)
(* never made up for.  That happens only while the goroutine is on its way *)
(* to store it, when a statement failed, or when the process exited in     *)
(* between, also when two runs judge the same exchange.                    *)
(***************************************************************************)
AssetGapsExplained ==
    \A e \in Exchange \ faulted : quality[e] # NoRow =>
        LET a     == quality[e].answer
            stage == task[quality[e].from][e].stage
        IN  a.tier = "A" =>
              /\ a.chunk /\ chunk[e] = NoRow => stage = "chunk"
              /\ a.sft # "none" /\ sft[e] = NoRow => stage \in {"chunk", "sft"}

(***************************************************************************)
(* What v_gold_sft_candidates lets through, the cohort aside, is a pair    *)
(* that its own answer called eligible, also when two runs disagree about  *)
(* the exchange (the view asks both tables).                               *)
(***************************************************************************)
SFTExport ==
    {e \in Exchange : /\ quality[e] # NoRow
                      /\ quality[e].status = "ok"
                      /\ quality[e].answer.tier = "A"
                      /\ quality[e].answer.sft = "eligible"
                      /\ sft[e] # NoRow
                      /\ sft[e].eligible}

ExportedPairEligible == \A e \in SFTExport : sft[e].pair = "eligible"

(***************************************************************************)
(* Every goroutine reads Worker.runID when it stores a row, whichever run  *)
(* wrote it last.  So the profile_run_id of a row need not name the run    *)
(* that produced it; but it never names one that had ended before that run *)
(* started, or started after it had ended.                                 *)
(***************************************************************************)
SameOrBeside(p, q) == p = q \/ <<p, q>> \in beside

AttributedToItsRun ==
    \A e \in Exchange :
        \A row \in {quality[e], chunk[e], sft[e]} \ {NoRow} : SameOrBeside(row.from, row.run)

(***************************************************************************)
(* The assets of an exchange and its quality row come from one answer, or  *)
(* from the answers of two runs that were under way together: an export    *)
(* never pairs a verdict with what an earlier analysis left, also after    *)
(* exits and after the documented rerun.                                   *)
(***************************************************************************)
AssetsMatchQuality ==
    \A e \in Exchange :
        \A row \in {chunk[e], sft[e]} \ {NoRow} :
            quality[e] # NoRow /\ SameOrBeside(quality[e].from, row.from)

(***************************************************************************)
(* A run that has been started ends, also when its loop comes to the next  *)
(* exchange while its goroutines hold every place in the semaphore.        *)
(***************************************************************************)
RunEnds == \A r \in Run : run[r].pc = "started" ~> run[r].pc \in Ended

----------------------------------------------------------------------------
(***************************************************************************)
(* analysis/profile/DESIGN.md section 2: Stage 2 produces user_profile.    *)
(* Once it has returned for a user and no call failed, there is a row.     *)
(***************************************************************************)
StageTwoYieldsProfile ==
    \A u \in User : stage2[u] = "returned" => u \in profiled
============================================================================
