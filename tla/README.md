# Verification of api_compatible

TLA+ models, TLC runs and TLAPS proofs for the two programs of this repository:

* **corpus-tap** (`src/experiment/corpus-tap`, Go): a reverse proxy in front of
  New API that captures exchanges (L0, process `corpus-tap`) and an analysis
  worker that turns them into a library of good material (L1, process
  `corpus-profile`).
* **user-side** (`src/experiment/user-side`, Python and shell): the tool that
  assesses model gateways by driving agents through them.

Paths below are relative to those directories. `PROJECT.json` maps every
definition to the lines it models.

## 1. Inventory

### corpus-tap, the capture process

| Component | State | Operations | Hard part |
|---|---|---|---|
| Relay and capture, `internal/proxy/stream.go` | `responseCapture`: memory, spool file, truncation flag | `Write`, `writeChunk`, `openSpool`, `finish`, `relayResponse` | limits crossed in the middle of a chunk; every way a relay can fail; the spool file |
| Handler, `internal/proxy/server.go` | the `Record` of one request | `handleCapture`, `forwardAndEnqueue`, `enqueue` | the full queue: the handler persists by itself |
| Queue, `internal/capture/queue.go` | bounded channel, worker goroutines | `Submit`, the workers' loop | concurrency, backpressure, exit without draining |
| Recorder, `internal/capture/record.go` | locals of `Persist` | `Persist`, `insertMeta` | five storage calls that each may fail; order of blobs and row; early returns |
| Fact store, `internal/store` | table `http_exchange`, blob objects | inserts, export and pending queries | no transaction spans blobs and row |
| Token cache, `internal/enrich/token.go` | map of entries that expire | `Lookup`, `lookupOne` | fill outside the lock; negative entries |
| Backfill, `internal/enrich/backfill.go` | `enrich_json` column | `RunOnce` from a ticker and from `/internal/reload-enrich` | newest first with a limit |
| Request body, `internal/proxy/body.go` | none | `consumeRequestBody`, `upstreamBodyReader` | boundaries of the limit, skip and truncate |
| Redaction, rules, readiness, export | none | | pure or read-only |

A request goes handler → relay → queue → worker → blob store → database. The
handler and the workers share the channel; the capture hands the spool file to
the record, and the record to `Persist`.

### corpus-profile, the analysis process

| Component | State | Operations | Hard part |
|---|---|---|---|
| Profile worker, `internal/analysis/profile/worker` | tables `profile_run`, `exchange_quality`, `curated_chunk`, `sft_candidate`, `user_profile`, `analysis_fact_cursor`; `Worker.runID` | `RunOnce`, `processExchange`, `runStage1`, `runUserProfiling` | runs that overlap on one `Worker`; several statements without a transaction; ignored errors; a panic ends the process |
| Gate, parser, model client | none | `RuleGate`, `Parse`, `ChatCompletion` | formats; timeouts |
| Exports | none | views `v_gold_*` | what a reader sees between two statements |

It reads what the capture process writes: its queue is the set of `http_exchange`
rows without an `exchange_quality` row.

### user-side

| Component | State | Operations | Hard part |
|---|---|---|---|
| LiteLLM proxy, `scripts/litellm-proxy.sh`, `lib/maas.sh` | pid file, port, generated configuration, processes | `start`, `stop`, `write-config`, `maas_ensure_litellm` | scripts side by side, orphans, a port shared by the sites, reused pids |
| Family and target planning, `lib/maas.py` | none | `plan_site_entry`, `resolve_assess_family`, `expand_assess_targets`, ... | order of fallbacks |
| Assessment and smoke runs, `lib/maas.py` | evidence files | `run_layer1` to `run_layer3_smoke`, `cmd_assess_source` | partial results, gating of layers |
| Report rendering | none | | formatting only |

What makes each correct: a capture is the exact bytes or nothing; a record is
persisted by one goroutine, once; it is the request that upstream answered, marked
where it is not all of it; the store never refers to what is not there and
never hides a gap; a row is enriched by its own log, and in the end if it can be; an analysis conclusion is complete unless a failure explains
it, and its parts come from one answer; a token is attributed to its present
owner; a run of the user-side tool talks to the proxy it configured.

## 2. Modules

| Module | Models | Depends on |
|---|---|---|
| `ResponseCapture` | `stream.go`: one upstream response, tee, memory limit, spool | |
| `ResponseCaptureProofs` | its theorems | `ResponseCapture`, TLAPS |
| `Exchange` | `body.go` and the ends of `handleCapture`: the request body, then the response, then the record | composes with `ResponseCapture` |
| `ExchangeProofs` | its theorems; the invariant of `ResponseCapture` is carried over | `Exchange`, `ResponseCaptureProofs` |
| `CaptureLedger` | abstract: what the tap promises the analysis about the store | |
| `TapPipeline` | handler, queue, workers, `Persist`, process exit | refines `CaptureLedger` |
| `TapPipelineProofs` | its theorems, the refinement included | `TapPipeline`, TLAPS |
| `Backfill` | `backfill.go`: loop and admin call on the rows and New API's logs | |
| `BackfillProofs` | its theorems | `Backfill`, TLAPS |
| `ProfileRun` | `RunOnce`, its goroutines, the tables of the analysis | |
| `ProfileRunProofs` | its theorems, runs that overlap included | `ProfileRun`, TLAPS |
| `TokenCache` | `token.go`: concurrent lookups over one cache, the tokens table and the clock | |
| `TokenCacheProofs` | its theorems | `TokenCache`, TLAPS |
| `FamilyPlan` | operators of `lib/maas.py`: families, agents in scope, targets, the request of Layer 3, the proxy's model list | |
| `AnswerJudge` | operators of `lib/maas.py`: what is made of the catalog, of the answer of a probe, of the output of a scenario | `FamilyPlan` |
| `AssessSource` | one run of `assess-source`, its layers, smoke scenarios and exits | `AnswerJudge` |
| `AssessSourceProofs` | its theorems | `AssessSource`, TLAPS |
| `LiteLLMProxy` | commands in several terminals on the pid files, configurations, port and processes of the proxies | |
| `LiteLLMProxyProofs` | its theorems | `LiteLLMProxy`, TLAPS |
| `MC...` | constants of each for TLC | |

Operators commented `Fault:` are not part of any specification. Each is a
definition as a plausible slip in the code would make it; `PROJECT.json` names,
for every property, the fault it detects.

### ResponseCapture

State: `mem`, `open`/`disk` (the spool file), `truncated` are the fields of
`responseCapture`; `sent` is what the client has received, `size` the length of
the upstream body, `outcome` how `relayResponse` returned, `conf` the settings.
Byte *k* of the body is the number *k*, so loss, repetition and reordering are
visible. One action is one turn of `io.Copy`: read, write to the client, then
`responseCapture.Write`; the actions are the paths through `writeChunk`
(`KeepInMemory`, `SpillToSpool`, `AppendToSpool`), the errors (`SpoolFails`,
`Overflow`, `ConnectionFails`) and `finish`. The branch of `writeChunk` for a full
memory without spool directory cannot be taken: `handleCapture` then makes the
memory limit equal to the capture limit.

### Exchange

`stage` is where `handleCapture` is. The request, its length, whether it was declared,
the policy and the limit are chosen at the start (`req`); `forward` and `announced` are
what `http.NewRequest` is given, `rec` the fields of the record that depend on the two
bodies. The paths of `consumeRequestBody` are actions: read whole, read to the limit
("truncate"), pass untouched or behind the probe's bytes ("skip"), and a body that
breaks off (400). Then the response runs as the whole of `ResponseCapture` (`Relay`), and
its end makes the record or none.

Under "truncate" it is the cut body that upstream gets; `UpstreamGetsBody` says so, and
`RecordIsHonest` that the record is marked. In the pipeline's terms this is one
exchange on its way to "answered"; the rules that choose whether a request is captured
have no state and only choose the limit.

### TapPipeline and CaptureLedger

An exchange moves through `phase`: in its handler (`passing`, `relaying`,
`answered`), in the channel (`queued`), in `Persist` (`persist`, a blob role,
`insert`, `unlink`), and ends `done`, `dropped` or `lost`. `runner` is the
goroutine inside `Persist` for it. Every storage call is a step with a failing
alternative. `Exit` models SIGTERM and crashes alike: `main` waits up to 15 s for
handlers and for nothing else, so anything under way may be lost; files, blobs and
rows stay. The body of a relay is left to `ResponseCapture`; here `Spill` says that
it went to disk, and `payload` which parts of the exchange the record carries.
`main` ends when no blob backend can be made, so the `no_blob_backend` branch of
`Persist` is dead and not modelled.

`CaptureLedger` has rows, blobs and the set of exchanges the tap is finished with;
its steps store a blob of an exchange that has no row yet, store its only row,
which may refer to stored blobs only, or close exchanges.

### Backfill

Rows are numbered by `created_at`. `linked` are the rows that the query of
`ListPendingEnrich` can find, `log` how many logs New API has of each one's request, and
`enrich` the log that `enrich_json` was made from. `call[c]` is the present `RunOnce` of
the loop or of the admin endpoint: the batch it has listed and the log it holds between
`fetchLog` and `UpdateEnrichJSON`. The two are not kept apart, and rows and logs arrive
between any two steps. A context that ends is one step, since what is left of the batch
then fails statement by statement and changes nothing.

What the properties do not say, because it does not hold: when loop and admin overlap the
older of two logs may be stored last; and a log that arrives after the row was enriched is
never picked up. `OnlyCrowdedOutWait` gives the exact exception to liveness: the
newest `Limit["loop"]` rows being without a log blocks every older one.

### ProfileRun

Exchanges are numbered by `created_at`. `run[r]` is a call of `RunOnce` (rows
listed, rows still to do), `task[r][e]` its goroutine for an exchange, whose steps
are the statements of `runStage1`: quality row, chunk, SFT candidate, Stage 2. The
model is asked and the quality row written in one step: between the two the
goroutine neither reads nor writes shared state, and the answer does not depend on
any. Moving the cursor and finishing the `profile_run` row are one step, since
nothing reads that row. Content is identified by the run that produced it (`from`)
and compared with the `profile_run_id` column (`run`), which is read from the
shared `Worker.runID`. Stage 2 is one step per call that may fail: the count and the
last profile (`CheckUser`), the recent exchanges (`ReadRecent`), the model
(`AskProfile`), the upsert (`UpsertProfile`); `CallFails` ends it in any of them. `Redo` is
the rerun procedure of `analysis/profile/DESIGN.md` section 7, done while no run is active.

History: `faulted` are the exchanges for which a statement failed, `beside` the pairs of
runs that were under way together. With `beside`, `AttributedToItsRun` and
`AssetsMatchQuality` can be stated for runs that overlap, as the ticker and
`POST /internal/run` make them. Without an overlap they say that a row names the run that
produced it, and that assets and verdict are of one answer. With one, the code does not give
that: a row may carry the id of the other run, and a chunk of one may be exported with
the verdict of the other. What it still gives is that nothing older or later is mixed in.

### TokenCache

`cache` is `mysqlLookup.cache`; `tokens` is New API's table as the query of
`lookupOne` sees it (the user of the enabled, unexpired row of a key, or none);
`lookup[l]` is the present or last call of `Lookup` on a connection. Because the
locks are held for one map access each, a call is four steps per candidate: read
the cache (`Hit` or `Miss`), ask the database (`Query` or `QueryFails`), write the
entry (`Fill`). In between anything may happen, in particular another `Fill` of the
same key. The token id goes with the user and is left out; the deny lists of
`Resolve` only look at the answer.

`past` and `errors` are history: who owned a key when, and when a query failed.
`MaxDelay` is an assumption about the database and the scheduler, written in the
guard of `Tick`: the code sets no timeout between the answer and the fill, and
without a bound an answer could be of any age when it is stored. The properties
are therefore stated with `Age`, one lifetime plus that delay. Within it, they
forbid less than one might think: an older answer may overwrite a newer one, so a
token that was already refused after a revocation may be accepted once more. No
document says otherwise.

### FamilyPlan and AssessSource

`FamilyPlan` has no state: every function of `lib/maas.py` reads `sites.json` and
`assess-plan.json` again, so a site is a record of what they say of it. An absent key
and an empty list are the same thing there (the code tests with `or`). Operators named
`...Fails` say where the code raises SystemExit. A target that has no wire left, which
`expand_assess_targets` drops, stays in the list without wires: it is neither probed nor
found by `relay_target_for_agent`.

An assessment asks for its plan in several places and not always in the same way:
with the family it has resolved (Layer 2, proxy configuration, Layer 3) or without one
(the default targets, `load_smoke_scenarios`, `run_smoke_scenario_relay`). The model
passes what the code passes at each place, and the properties are about whether the
answers agree. `pc` is the next part of `cmd_assess_source`; `todo` and `rows` are the
loop of `run_layer2`, one `Probe` per model and wire, each answered as the environment
likes; the wires of one target are taken in any order, which changes no result. `proxy` is
the model list LiteLLM was started with, and a request for another name is refused
(`Served`, external). The proxy does not know which agent asks, but each entry was made
for one (`ServedFor`), with a bridge or without. `smoke` holds the counters of `run_layer3_smoke`. `reason` is
history and names the place of a SystemExit. A time-out is a bad answer; another
network error (`http_json`) ends the run anywhere it may occur, without evidence.

Left out: the `default_models` of the plan and the providers of OpenCode, families other than
the built-in three, the commands for one layer, and the batch scripts. The proxy is one that was
started by this run: `maas_ensure_litellm` would take over one that is already there,
which is in `LiteLLMProxy`.

`AnswerJudge` says how an answer becomes a verdict: an answer is the set of places of
its payload that hold something, an output the checks it does not meet and the two names
of models it may carry, a name what it has in common with others once normalised.
`AssessSource` lets source, proxy and agent answer with any of them. `ModelIsVouched` is
stated for what the envelopes named (`heard`, history). It has limits that come from the
code: a model probe without JSON keys is never compared, an answer without a model
neither, and with no expected model the check is off. An answer that counts in Layers 2 and 3
(`ShapeOk`) may have no text for a smoke scenario, for instance a tool call.
Two exceptions that nobody catches end the scenarios without evidence (`Aborts`): a
200 answer of the proxy that is not JSON, and a time-out of an agent that has printed
something, whether its model is served or not, because `TimeoutExpired.output` is bytes even with `text=True`
(`lib/maas.py` 2438).

### LiteLLMProxy

`term[t]` is the command of a terminal and the line of the script it is at; between two
lines anything may happen in another terminal. `proxy[p]` is the process of pid *p*:
loading until it has read its configuration (`Load`) and bound the port (`Bind`),
dying between SIGTERM and the end. What `start` does about the port is `KillListeners` and
`Slept` with `lsof`, and `NoLsof` without it, chosen at each start. `Crash`, `Interrupt` and `PidReused` are the faults.
The health check is answered by whoever holds the port, one that is ending included.

Two history variables carry the conditions of the properties. `alone` are the starts that
may be believed when they report ready: no other command has rewritten the configuration, no
other process has taken the port since it was cleared, and it was cleared, because `lsof` is
there and the listeners ended within `sleep 1`, or because there were none. A start without
`lsof` over an old listener, or over one that is slow to end, does report
that one as its own; `ReadyIsOurs` says that these are the only exceptions, whatever old
proxies, orphans without pid file and pid files of dead processes there were before. `clean`
are the sites whose commands neither overlapped nor were interrupted; `NoOrphans` is about
these, so it leaves out a script that is interrupted between the start of the process and
the write of its pid file, which does leave an orphan.

What the model shows without a property against it: a launcher takes any live
pid in the file for its proxy, of another family, or a stranger's if the pid was reused; `stop`
then kills the stranger; a start of one site kills the listener of another on a shared port,
and a slow starter of that site may still take the port back.

## 3. Runs

| Run | Question | Bounds |
|---|---|---|
| `response_capture` | Is a capture exact, whole or absent, and within its limits? What does upstream get, and is the record honest? | request bodies 0..4, limits 1, 2, both policies, declared or not; responses 0..8, chunks 1..4, capture limits 1, 4, 6, 9, thresholds 1, 2, 3, 7, spool set or not |
| `relay_transparency` (violated) | Does the client always get the whole body? | the same |
| `tap_pipeline` | Who persists, what do rows refer to, what do they hide, which spool files stay? Does the pipeline implement the ledger, is everything answered settled? | 2 exchanges, 2 workers, queue of 1, 1 exit, records with request only or all blob roles |
| `spool_leak` (violated) | Is the spool file gone once a record is persisted? | 2 exchanges, 1 worker, queue of 1, no exit |
| `backfill` | Whose log enriches a row, and who waits for ever? | 3 rows, the loop takes 1 and the admin 2, 2 logs per request, 1 admin call, 1 failure or restart |
| `profile_overlap` | What do rows say of the runs that wrote them, and what survives two that overlap? | 2 exchanges, 2 runs, 1 place each, 1 exit, 1 rerun, 4 answers, symmetric |
| `profile_ends` | Does a run end when its loop meets a full semaphore? | 3 exchanges in one listing, the second rejected by the gate, 1 place, 2 runs one after the other, 1 exit |
| `stage_two` (violated) | Does Stage 2 write a profile? | 1 exchange, 1 run |
| `token_cache` | How old may an attribution be, what explains a refusal? | 1 token in 2 spellings, 2 connections that ask for them in different orders, lifetime 2, delay 1, clock to 3, 1 change, 1 failed query |
| `assess_source` | Do the layers agree on models, wires and names? What do verdicts and exit codes stand for? | 207 sites: 3 protocols, no, one or two families in 7 forms, with and without targets, some naming other models outside of the families; 2 models with 4 names, 3 scenarios |
| `smoke_family` (violated) | Does a smoke test of a named family run? | the same |
| `litellm_proxy` | When may a start that reports ready be believed, which proxies does a stop reach? | 2 terminals, with `lsof` or without, 2 sites on one port, 2 families, 3 processes, 3 commands, 1 fault, symmetric |

Why these bounds are enough to meet the interesting cases: a body of 8 bytes with
chunks up to 4 crosses a threshold of 1, 2 or 3 and a limit of 4 or 6 inside, at and
between chunks, and the limit 9 is never reached. A request body of 0 to 4
bytes is below, at, one over and well over a limit of 1 or 2. With a queue of one, one
exchange waits in the channel or is persisted while the other meets a full channel or
the second worker; two workers persist side by side. One exit leaves exchanges that the
restarted process serves with the rest of the state in place. Three rows and a batch of
one or two are what it takes for a newer row to crowd out an older one, and for the admin
to overtake the loop. Three commands are a start, another start or launcher beside it,
and a stop after both, each of which finds the remains of the first; with three
processes each of them may start one.
Two runs over two exchanges list the same rows, or one row more, and finish in
either order, or one after the other with a conclusion deleted in between; three listed
exchanges and one place make the loop wait for a place with one more to come; the four answers differ in tier, unknown tier, and which assets they
hold. A clock to 3 passes the end of an entry filled with the latest answer
(lifetime 2, delay 1) and of one filled at once; two connections are what one fill
overtaking another takes. The seven forms of a family are
the one of the shipped plan and one for each thing a family may override (wires, agents,
models of its own, or no list of models); two models tell apart whether a wire, an agent
and the proxy mean the same one. The four names are two models, one of them with a date, as
envelopes have it, and a name any model gives itself. The three scenarios are a required one that probes the
identity of the model and wants JSON, a required one that only an agent can run, and an optional one.
The counters `MaxChanges`, `MaxErrors`, `MaxExits`, `MaxRedos`, `MaxRequests`,
`MaxCommands` and `MaxFaults` only bound how often something is done.

Deadlock is checked in `backfill`, whose ticker never stops. CHECK_DEADLOCK is off in
the others: a body has an end, exchanges are finite in number, runs happen once, the
clock and the commands are bounded and an assessment ends, so these models may stop.

Fairness. `TapPipeline`: weak fairness of the handler that has answered, of
`Persist`, and of the workers' receive, because the Go scheduler runs goroutines
that can run; it supposes that storage calls return, with or without success.
Nothing is assumed of clients or upstream, so a relay may last for ever.
`ProfileRun`: weak fairness of each run as a whole, which supposes that its loop or one of
its goroutines goes on if any can, and rests on the 120 s timeout of the model client; that
no goroutine waits for ever behind the others is not needed, since they are finite in number
and do not loop. Nothing makes a run start.
`Backfill`: weak fairness of the loop's start, because a ticker with
`CORPUS_TAP_ENRICH_INTERVAL_SEC` above 0 (the default is off) calls it for ever, and
of the steps of a run, whose context has a timeout; failures are finite in
number (`MaxErrors`), and nothing makes rows or logs arrive or an admin ask. In the other
specifications there is none and no liveness property.

### Findings

* **A long response is cut off for the client** (`relay_transparency`): DESIGN.md
  line 121 promises the client the same body as without the tap. A chunk that passes
  the capture limit makes `Write` return a short count, and `io.MultiWriter` turns
  that into `io.ErrShortWrite`. No record is written either, so `truncated` is
  never true for a response.
* **A spool file outlives its record** (`spool_leak`): `stream.go` line 179; the
  early return for `queue_full` precedes the deferred removal.
* **Stage 2 never writes a profile** (`stage_two`): the query that reads a user's
  exchanges of tier A scans NULL into Go strings. `user_profile`, and the two gold
  views that join it, stay empty. For that reason properties about exports leave the
  cohort aside.
* **A smoke test of a site with two families never starts** (`smoke_family`):
  CONFIG.md line 70 shows the command for one. `load_smoke_scenarios` (`lib/maas.py`
  line 2120) looks the site up without the family, which is an error where it has
  several and no targets outside of them. In relay mode the scenarios would also be sent to the model of
  the site, not of the family; `ModelIsVouched` holds because the envelope is compared
  with the family's.

More facts, seen while modelling and not counted as findings:

* When the queue is full the handler persists the metadata itself, with its storage calls,
  and its client waits (`server.go` 260); DESIGN.md line 158 only speaks of dropping bodies.
* DESIGN.md line 413 calls the admin's backfill asynchronous; the handler runs it and
  answers afterwards.
* `run-smoke` without `--family`, which `user-side/README.md` line 190 shows, uses a name
  that is not defined there (`site`, `lib/maas.py` 2577).
* `assess-platform` exits with 0 whatever Layer 1 says.
* Claude and OpenCode with one model get two entries of the same name in the proxy's list.

A further disagreement is part of a property. `litellm_relay_model_name` calls its result the
"LiteLLM model_name exposed to Agent; disambiguate Codex bridge when id collides"
(`lib/maas.py` 440), and `user-side/README.md` line 44 says that Codex is bridged to Chat at
sources without Responses. Where Codex has OpenCode's model, the launcher and Layer 3 ask for the
plain name all the same (`lib/maas.py` 1816-1870). `ProbeIsServed` says what comes of it: the
bridged entry `<model>-codex-relay` is there and is not the one asked for; OpenCode's
entry, which has no bridge, answers, and if OpenCode is not in the scope of the family none
does. In that case Layer 3 says nothing of Codex's bridge. Every other agent with a model of its
own gets to an entry that was made for it. The property leaves out an agent without a model for
Layer 3, which falls back to one of Layer 2 that the proxy need not list.

Other limits of what is checked: a failed asset statement is final, because the quality row
takes the exchange off the queue; a family none of whose agents fits the protocol is
assessed with every agent that does.

## 4. Theorems

TLAPS proves the following for all constants that satisfy the named assumptions of
the module; no other assumption is made.

`ResponseCapture` (any set of configurations, chunk sizes and any `MaxSize`; they
rest on `ConfigsAssumption`, `ChunkAssumption`, `SizeAssumption`): `Invariance`
establishes `Inv`, and `TypeCorrect`, `CaptureExact`, `CaptureWhole`,
`BoundedMemory`, `SpoolOwnership` follow. `Inv` is the conjunction of the properties,
stated so that it is inductive: `CaptureIsExact` alone is not, because appending a
chunk to `disk` only yields the next prefix if `mem` is empty whenever the spool is
open, and `MemoryBounded` needs that `disk` is empty while it is closed, which is
`SpoolOwned`. The step cases rest on one lemma about sequences: the first *n* bytes
followed by the next chunk of *m* are the first *n + m* (`AppendChunk`).

`Exchange` (any limits and lengths of the two bodies, in addition to the constants of
`ResponseCapture`): `ExchangeContainsCapture` shows that an exchange takes no step on
the response that `ResponseCapture` does not allow, so that its theorems hold of an
exchange as well; `ExchangeInvariance` adds the invariant of the request side, and
`ExchangeTypeCorrect`, `UpstreamSeesBody` and `HonestRecord` follow. `HonestRecord` joins the
two halves: that the recorded response is whole and not truncated is
`CapturedIsWhole`, and `Held` says that from reading the request to
recording it the record holds what was forwarded, with its flag already final.

`TapPipeline` (any number of exchanges, workers and exits, any queue size, any
`Payloads`; the four named assumptions of the module): `Invariance` establishes
`Inv`, from which `TypeCorrect`, `OnePersister`, `NoDanglingReference`,
`SkippedHasNoBody`, `RowsAccountForGaps`, `SpoolIsAccounted`, `RowsAreFinal` (about
steps: blobs stay, a row never changes, and no blob of its exchange follows it) and
`PipelineImplementsLedger` follow. Next to `TypeOK` and `PersistedByOne`, `Inv` has one
predicate per exchange, `Local`, which says what its record, the store and the spool
directory hold at each place of its way. The properties alone are not inductive:

* `RowsReferenceBlobs` and `SkippedStoresNoBody` need that nothing is stored before
  `LoadBodies` and that only records that are not `MetaOnly` reach the blob stages;
* `GapsExplained` speaks of the finished row; before it, by induction over the stages,
  every indexed role that Persist has passed is in the URIs or a store error is noted
  (`Before`, `GapsAtPlace`);
* `SpoolAccounted` needs that a skipped record has no spool file and that every other
  one knows about its own (`SpoolAtPlace`).

A step of one exchange leaves the predicate of every other one alone (`HandlerSame`,
`PersistSame`, `SameLocal`), so each action is considered for one exchange only. For
the refinement, `WriteBlob` and `InsertRow` are `StoreBlob` and `StoreRow` of the ledger,
a step that changes neither rows nor blobs closes what it finishes (`CloseStep`), and
no terminal phase is ever left.

`ProfileRun` (any exchanges, users, answers, limits, any number of runs, overlapping or
not, of exits and of reruns; its named assumptions): `Invariance` establishes `Inv`, and
`TypeCorrect`, `GoroutinesAreContained`, `FinishedRunsSettle`, `AssetGapsAreExplained`
and `ExportedPairsEligible` follow. What has to be added to the properties:

* `FinishedRunSettles` speaks of finished runs; `Behind` says of a run that still loops that
  each exchange it has passed is in flight, has a row or has failed. Deleting a
  conclusion for a rerun breaks this, on purpose, so the theorem is about the time before
  the first deletion (`redos = 0`); the run that checks it allows none.
* `AssetGapsExplained` reads the answer of the quality row and the stage of the run that
  wrote it. With two runs on one exchange it needs to be known that the goroutine that is
  to fill a gap holds the very answer the row holds, unless the other run has replaced the row
  (`Judged`). A goroutine ends without its assets only if a statement failed
  (`faulted`) or the answer holds none.
* `ExportedPairEligible` holds because the flag and the pair of a candidate are always
  written together (`FlagOfPair`), so the view's two tests cannot be satisfied by the
  pair of one answer and the flag of another.

`OverlapInvariance` adds what relates the rows of an exchange to the runs, however they overlap,
and `RowsAreAttributed`, `AssetsMatch` and `JudgedOnce` follow. `OverlapInv` adds to `Inv` that
runs under way together are recorded as such (`Meetings`, with `Worker.runID` among them), and of each exchange
(`Origin`) that the rows it has, if a run has still to judge it, come from runs beside that run, and
if a run has still to store its assets, from that run or runs beside it (`Known`). `Known` is the
key: a listing only returns exchanges without a row, so what a run finds there when it stores
its answer was written while it was under way. That is also `JudgedOnce`: a quality row is only replaced
by that of a run beside the one that stored it, or deleted for a rerun.

`TokenCache` (any keys, users, connections and candidates, any lifetime and delay;
its four named assumptions): `Invariance` establishes `Inv`, and `TypeCorrect`,
`RecentAttribution` and `ExplainedRefusal` follow. `Inv` adds to `TypeOK` that the
history is recorded up to the present (`Recorded`), that every entry and every answer
on its way to the cache is supported by the history at its `asOf`, that an entry
expires at most `Age` after it, and that each candidate already passed over has its
reason (`EntryOK`, `CallOK`). The last is what makes it inductive: a call that is
finished says nothing about the entries it used, which may be overwritten by then.

`Backfill` (any numbers of rows, logs, requests and failures, any limits):
`Invariance` establishes `Inv`; `TypeCorrect`, `OwnLog` and `EnrichmentIsKept`
follow. `EnrichedByOwnLog` needs that the log in a caller's hand is one of the newest row of
its batch (`InHand`), and that the newest row of a batch is in it (`NewestIn`,
by well-foundedness of the numbers).

`AssessSource` (any sites, models and scenarios; `ModelAssumption`,
`SitesAssumption`, `ScenariosAssumption`): `Invariance` establishes `Inv`, and
`ProbedModelIsServed`, `CleanExitMeansPassed`, `SmokeTestComplete`,
`VouchedModel` and `BestRow` follow. `Inv` says
of each place of the run what the layers behind it have left: the agent is in the scope of a plan
that resolves, the proxy has the list of that plan, and nothing having failed means
that each verdict so far is a pass (`VerdictsOK`); without a required failure so far every required
scenario before the next one has passed (`SmokeOK`). `TypeCorrect` and
`InferredFamilyFits` have an invariant of their own, `TypeInv`: what is still to be probed are
wires of targets, which needs that the default targets are a sequence of targets (`SetToSeqLists`), and the
counters never exceed the scenarios passed. `ExitCodeMatchesEvidence` says that
at the end the exit code is 0 just when no layer is recorded
as failed, and that a run that stops early leaves 1 and a reason; `CleanExitMeansPassed` uses it for
the direction from the exit code 1. It rests on `ReportOK`: a layer has
no result before its turn, so no verdict is ever replaced. `ProbedModelIsServed` rests on a
lemma about plans, `ModelListEntries`, which says of every entry of the list under which names
it was made and for which agent.

`LiteLLMProxy` (any terminals, sites, families and assignment of ports, any number of
processes, commands and faults; its two named assumptions): `Invariance` establishes
`Inv`, and `TypeCorrect`, `ReadyProxyIsOurs`, `NoProxyIsOrphaned` and
`NoPidFileMeansDown` follow. `ReadyIsOurs` speaks of the end of a start; `StartOK` says what holds on the
way there to a start in `alone`: from writing the configuration it is still its
own, after `lsof` and the sleep, or without a need for them, nothing holds the port but the process it will
spawn (`OwnPort`), and this process has read no other configuration (`OwnProcess`). That the port
is free at that point is what makes the health check trustworthy, and it is not assumed of a start: one that
finds it held leaves `alone`.
`NoOrphans` needs that a site whose commands never overlapped has one command at most
(`Exclusive`), and that between the kill and the next pid file nothing is up but the process
about to be recorded (`Accounted`); a proxy is only forgotten by a command that has
killed it. `NoPidFileMeansDown` is what a user takes from it: after `stop` nothing is up.

Every invariant that a passing run checks is also proved, and so are the properties about
steps (`EnrichmentStays` and the refinement `ImplementsLedger`). Only model-checked is
liveness: `AnsweredIsSettled`, `RunEnds` and `OnlyCrowdedOutWait`, because the prover
has no rules for fairness and ENABLED.

## 5. Plan

In this order; what is done is marked.

1. `ResponseCapture` and its proofs. Done.
2. `CaptureLedger`, `TapPipeline` and their proofs, the refinement included. Done.
3. `ProfileRun` and its proofs, overlapping runs included. Done.
4. `TokenCache` and its proofs. Done, without the deny lists of `Resolve`.
5. `Backfill` and its proofs. Done.
6. The request body: done as `Exchange`, composed with `ResponseCapture`, and proved.
7. `LiteLLMProxy` and its proofs. Done.
8. `FamilyPlan`, `AnswerJudge`, `AssessSource` and its proofs. Done, without what section 6 lists.

## 6. Not modelled

* Commands for single layers (`assess-platform`, `assess-protocol`, `probe-relay`,
  `run-smoke`), which are the steps of `assess-source` one at a time, and the batch scripts
  around them (`set -e`: the first agent or layer that fails ends the batch).
* The evidence files: named by site and day, so a later run of the day replaces an
  earlier one of another family or agent. No document says otherwise.
* The soft facets of a probe (usage, streaming), which change no verdict.
* Report rendering, redaction, message formats in `Parse`, the clauses of the rule gate,
  readiness and export queries, the mock server, deployment files, and the I/O of the
  blob backends, which have no state or order worth a model.

## 7. Running

    tlc -workers 2 -config TapPipeline.cfg MCTapPipeline
    tlapm ResponseCaptureProofs.tla
