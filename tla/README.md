# A verification development for oh-paa

oh-paa is a price-action analysis platform. A Rust server (`pa-app`) stores market
bars in PostgreSQL, takes analysis requests over HTTP, turns each of them into a
task in a durable queue, and runs a background worker that sends the tasks to a
language model and records what came back. A React page shows the live stream of
the server's debug events.

This directory holds TLA+ modules that model the parts of that program in which
order, concurrency and failure matter, TLC configurations that check them on small
instances, and theorems that the TLA+ proof system (tlapm) checks for instances of
any size. `PROJECT.json` lists the runs, the source lines behind every definition,
the mutants that show that each property can fail, the hazards and the findings.

    tlc -workers 2 -config workers_faults.cfg MCAnalysisWorkers    # a run
    tlapm AnalysisWorkersProofs.tla                                # the proofs

## 1. Inventory of the system

| part | source | state | operations | module |
|---|---|---|---|---|
| PostgreSQL orchestration store | `pa-orchestrator/src/repository.rs`, `migrations/002`, `004` | tables of tasks, snapshots, attempts, results, dead letters | insert, claim, release, five ways to persist an outcome, startup recovery | `PgOrchestration`, abstractly `TaskLedger` |
| worker loop | `pa-orchestrator/src/worker.rs`, `retry.rs`, `pa-app/src/main.rs` | the claim it holds, as it was when claimed | run_single_task, with_claim_recovery, start, poll | `AnalysisWorkers` |
| configuration, prompt registry, executor, LLM client | `pa-core/src/config.rs`, `pa-app/src/replay_config.rs`, `pa-orchestrator/src/prompt_registry.rs`, `executor.rs`, `llm.rs`, `openai_client.rs` | none that changes | load, validate, build the registry, execute_json, read JSON out of an answer | `StepExecution`; four outcomes of a step of `AnalysisWorkers` |
| task submission | `repository.rs` (insert_task_with_snapshot), `dedupe.rs`, both `task_factory.rs`, `pa-api` handlers | the dedupe index | look up, insert, settle a lost race | `TaskIntake`, abstractly `TaskRegistry` |
| input resolution | `pa-api/src/analysis_runtime.rs`, both `task_factory.rs` | what a handler has read so far | resolve_* for the four kinds of task | `AnalysisPipeline` |
| trading calendar | `pa-market/src/session.rs` | none | buckets, sessions, expected children | `MarketSession` |
| canonical bars | `pa-market/src/service.rs`, `normalize.rs`, `repository.rs` | the kline table | backfill, aggregate, derive the open bar | `MarketBars` |
| debug stream | `pa-api/src/ws.rs`, `web/src/ws/*` | broadcast channel, handler tasks, the page's socket, timer, store, indicator | emit, subscribe, forward, lag, connect, reconnect, disconnect | `DebugStream` |
| closed-bar resolution | `pa-api/src/analysis_runtime.rs` (resolve_closed_bar_json) | none | which stored bar a request names | `BarResolution` |
| gateway, provider routing, policies | `pa-market/src/gateway.rs`, `provider.rs`, `pa-instrument/src` | calls in flight | look up policy and symbols, primary, fallback, events | `MarketGateway` |
| providers | `pa-market/src/providers` | none | what a response becomes | `MarketProviders` |
| live and fixture replay | `pa-app/src/replay*.rs` | progress of a replay, its report | validate, fetch, warm up, call, retry, score | `LiveReplay`, `ReplayReport` |
| prompt specifications | `prompt_specs.rs` of `pa-analysis`, `pa-user` | none | required fields | the key sets of `ReplayReport` |
| in-memory orchestration store | `repository.rs:106-629` | maps under one mutex | the same trait, for tests | not modelled |
| probe, bootstrap data, older services, web pages | `replay_probe.rs`, `bootstrap.rs`, `pa-analysis/src/service.rs`, `web/src/pages` | none or constant | I/O, seeding, rendering | not modelled |

How they interact. An API handler resolves the input of a task by reading the kline
table and the results table at several awaits (`AnalysisPipeline`, `MarketBars`) and
submits the task (`TaskIntake`); any number of handlers run at a time. The worker loop
of each server process claims tasks from the same table and writes attempts and
results (`AnalysisWorkers`); what it writes is what later handlers read. Backfills are
requests too and write the kline table while others read it; what they store and what an
open bar is made of comes through the market gateway, which asks the providers the
instrument's policy names (`MarketGateway`, `MarketProviders`) and
emits debug events into a broadcast channel, from which one task per WebSocket feeds a
page (`DebugStream`). The replay is a program of its own: it uses the
providers and the executor of the worker, but neither the queue nor the tables (`LiveReplay`). Everything shared lives in PostgreSQL or in that channel; no
component locks anything across an await.

What makes each part correct, and what makes it hard:

* **Store and workers.** Each task is decided once, within its budget of attempts, and
  what the four tables say of it agrees. No statement that writes an outcome looks at
  the task's status; claims can be duplicated (startup recovery of another process,
  a release by a superseded worker), commits can succeed while the caller sees an
  error, and a process can die between any two statements. Every enqueued task has to
  end although the queue is ordered by an age that retries do not renew.
* **Submission.** One task per dedupe key, and a response that names a row that exists,
  although look-up and insert are separate statements, an insert waits for another
  transaction to end, and any call may fail.
* **Input resolution.** What a handler collects over several awaits fits together
  although results are being added.
* **Calendar and bars.** A bar shown as complete is over, an open bar uses nothing of
  the future, a failed backfill leaves no hole; over lunch breaks, weekends, stale ticks
  and backfills that run while bars close.
* **Gateway.** Who answers is who the policy names, a fallback only when the primary did
  not deliver, and events that say so, while calls of the same instrument overlap; a
  failure must not be taken for a bad request, which stops the fallback.
* **Closed-bar resolution.** The bar analysed is the one the request names, through two lists with
  a limit, one ascending and one descending, over a table that grows.
* **Replay.** No call sees the future of its bar or a bar twice, and what it sees of the past has no
  hole, whatever a provider answers; scores that are rates over what was executed still tell when a
  chain stopped early; and it ends.
* **Debug stream.** Order, no silent loss, a true indicator, a disconnect that stays,
  and a reconnect that always comes, with events that arrive from a socket no longer
  in use.

The full list of hazards, each at its line and with the properties about it, is
`hazards` in `PROJECT.json`.

## 2. Modules

    TaskLedger <--refines-- AnalysisWorkers --extends--> PgOrchestration
    TaskRegistry <--refines-- TaskIntake, AnalysisPipeline
    AnalysisPipeline      uses TaskIntake as the atomic registry it implements and a
                          worker as the ledger it implements
    BarResolution --extends--> MarketBars --extends--> MarketSession
    MarketGateway --extends--> MarketProviders
    LiveReplay --extends--> ReplayReport --extends--> StepExecution
    DebugStream

Each `X` with theorems has a module `XProofs`; `MCX` gives names to the constant values
and the symmetry that TLC needs.

### PgOrchestration and AnalysisWorkers

`PgOrchestration` has the tables as functions of the task (`status`, `attempt_count`,
`started_at`, `finished_at`, `last_error`) and sets of rows (`attempts`, `results`,
`dead_letters`). One operator per statement or transaction of
`PgOrchestrationRepository`: `ClaimRow`, `ReleaseRow`, `RecoverStale`, and
`PersistSuccess`, `PersistSchemaFailure`, `PersistRetry`, `PersistTerminal`,
`PersistDeadLetter`. A persist has the guards the tables have (UNIQUE (task_id, attempt_no),
the CHECK on the count, UNIQUE task_id of results and dead letters) and no others:
in particular no guard on the status, since the UPDATE has none. `started_at` keeps the
first claim (the COALESCE of the claim) and knows only whether that was more than
five minutes ago; `Tick` makes it old.

`AnalysisWorkers` adds a worker per process. `phase` is where it is in
`run_single_task`, `held` and `held_count` are what its claim returned, never refreshed,
and `call` is the persist its outcome leads to. The five kinds of fault are a constant,
so that a run chooses them. The claim is the only store call outside
`with_claim_recovery`, which is why `ClaimLost` leaves a row with no owner. Tasks are
numbered in the order of `scheduled_at`, and a claim skips a row that another
transaction may have locked (SKIP LOCKED).

`TaskLedger` is what this promises: a task is open, spends attempts one by one, and gets
one verdict with its last attempt.

### TaskIntake

`insert_task_with_snapshot` statement by statement: look-up by key, INSERT of the task,
INSERT of the snapshot, commit, and after a refused INSERT the look-up that finds the
winner. READ COMMITTED and the unique index are in the guards: an INSERT of a
key that an open transaction has inserted waits. Failing calls, lost
acknowledgements included, are switched on by `CallsFail`. `TaskRegistry` is the
promise: one registration after the other.

### AnalysisPipeline

The four kinds of request (`pa`, `bar`, `daily`, `advice`) for one instrument, timeframe
and user. A handler goes from read to read (`After`); each action ends at an await. Results are
named after the request that made them, and `created` orders them by creation. Submission is
atomic, as `TaskIntake` shows, and a task ends in a result or in none, as
`AnalysisWorkers` shows. A bar is open until the clock passes it and closed once a
backfill has stored it; a handler asked about an open bar may have a stale tick.
With `ClientSupplies` a request may pass inputs itself, as the API allows, unchecked.

### MarketSession and MarketBars

`MarketSession` translates `MarketSessionProfile` (three kinds of market) into operators on
minutes. `MarketBars` has the table of M15 rows, the moment `now`, and per request the
backfill or the derivation it is in the middle of. A backfill stores bar by bar,
deciding at each bar's turn, by the clock of that moment, whether it has
closed; `partial` remembers the rows whose prices were read earlier than that.
Aggregation reads the table once, so it is an operator (`Complete`); the open bar is derived
in two reads and has two actions.

### BarResolution

One read of `MarketBars`' table per request, so operators only: `ResolveRow` for a quarter of an
hour, `ResolveAggregated` for the larger bars, with the list each of them
searches. A request names a bar by its open time, its close time, both or neither.
For a larger bar without times the code takes the *oldest* complete bar of the list, for a quarter of an
hour the *newest* row. No document says which is meant, so nothing is claimed of the former.

### MarketProviders and MarketGateway

`MarketProviders` is what the two providers make of a response: bars cut to the limit or to
the end of a window, a tick with the time that counts (Peking time for one of them), or an error, and of
which kind. `MarketGateway` is one action per await of a call: the look-up of the policy and
of all symbols, the primary, the fallback, and one action per event, so that other calls
come between. `asked` and `heard` are a history of the requests sent, for the properties. `KlineIngested` is
told before anything is stored and also for an answer without bars, as in the code. Events
carry no identity of their call, so two calls of the same instrument can only be counted;
`FallbackIsTold` counts those that ended with bars, `EveryFallbackIsObservable` is what the design
asks for.

### StepExecution, ReplayReport and LiveReplay

`StepExecution` has the three shapes of configuration file, the checks made when it is loaded and
when the registry is built, and `execute_json` down to the JSON found in an
answer (whole, in a fence, the first object or array). `ReplayReport` computes the scores and the summary
from the runs of the report; a valid output has the fields its schema requires, which are
written out in both places as in the code. `LiveReplay` is the replay: `Start` (validation), `FetchRows` per
sample, `Call` per model call, with its retries; warm-up bars make the history, the target
makes the report. Bars are numbered in quarters of an hour. An answer of the provider is a
sequence of them, in any order, with bars missing, repeated, before or after the window; as in the code the
rows that end too late are dropped, the rest is sorted and *counted* (`Suffices`), and the
target is where it occurs first (`Position`). A bar that is repeated is met only where larger bars are made
(`Repeats`): of the input of the first and third steps, which have the rows up to their bar
(`Visible`). The second and third are shown the outputs of the warm-up and of their own bar, the
fourth only those of its own.

### DebugStream

The broadcast channel (the last `Capacity` events), a handler per socket and the module
`client.ts`, whose variables (`ws`, `retryTimer`, `manualClose`, `connected`) are
variables here under their names. `timers` are the reconnects actually pending, which may differ
from the one the module remembers. `onclose` acts for whichever socket closes, as in
the code. `StrictMode` adds what React does with an effect in development: run, clean
up, run again, in one task.

## 3. Runs

| run | question | bounds |
|---|---|---|
| `workers_faults` | do history, count, budget, verdict and fence hold under every fault, is the ledger implemented, and do restarts take up what was abandoned, does every other task end? | 2 tasks, one of an unregistered step, 2 processes, 2 attempts |
| `intake` | one task per key, right answers, no waiting forever, and is the registry implemented? | 3 requests, 2 keys or none |
| `pipeline_server` | does what a handler collects fit together? | 7 requests, 1 bar that closes |
| `pipeline_client` | is a past bar analysed without later states, also when clients supply inputs? | 4 requests, 2 bars on 2 dates |
| `market_bars` | are complete bars over, open bars open, holes absent, and is the bar found that a request names? | 2 requests at a time, 3 markets, 3 to 5 moments and 6 to 9 bars each, lists of 2 |
| `gateway` | who answers, and what does the debug stream hear of it? | 2 calls at a time, 7 sets of reference data, 5 and 7 responses |
| `replay` | does each call see its past, without a hole or a repetition, does the gate mean whole chains, does a replay end? | 2 samples, 2 warm-up bars, 8 files, 1548 answers of the provider, 12 of a model, fixtures of 2 samples |
| `debug_stream` | order, no silent loss, indicator, disconnect, reconnect | 2 sockets, channel of 1, store of 2, 4 events |
| `doc_duplicate`, `doc_nonretryable`, `market_partial`, `doc_fallback` | disagreements, see section 5 | the smallest that show them |

Why the bounds are enough. Two workers and two attempts give every relation of a claim to
its row (current, superseded, decided) and a retry as well as an exhausted budget; the
second task gives the order of the queue something to be unfair about. Three requests give
a winner, a loser and one that comes after both; a transaction that fails while
another waits is among them. One bar that closes has everything
that can change between two awaits; asking twice for each input is what a race needs
(the bar analysis is asked for once, since its key makes a second one a
duplicate). The markets are looked at around an end of a session, where a bucket
is shorter than its name says: lunch at 11:30, the week's end on Friday 22:00, and two plain hours for
the market that never closes, which give two complete bars and so a limit that
matters. The provider also knows bars at 11:30 and at 22:00 on
Friday, which belong to no bucket. The lists of closed bars are limited to 2 instead of 64, so that
rows fall outside. Two calls of the gateway give every order of their events; the reference
data have each combination of own and market policy, missing symbol and unknown provider. The replay's least
warm-up (`MIN_WARMUP_BAR_COUNT`) is 1 instead of 8, so that a sample has two warm-up bars, the
fewest that make a history with an order; the answers of the provider are all sequences of up to five bars, with
missing and repeated ones, in ascending or descending order, from before the first window (17 to 20) to
after the second target (21); two samples whose windows overlap are what a
history must not mix. Two sockets suffice for the page because at most one is in use, which
`DebugStreamProofs` proves; the other slot is a socket whose end the server has
not noticed. A channel of one and a store of two overflow at once. What the theorems of
section 4 state holds beyond these bounds.

Every action of a model fires in some passing run. Deadlock is checked wherever the system cannot
stop (the workers poll forever); requests, the stretch of market time and the events are
finite in the other models, which may therefore end.

Symmetry is used only in runs without liveness, on handlers and requests of one
kind, which the modules never order.

**Fairness** and why the code justifies it:

* `AnalysisWorkers`: the loop of `run_analysis_worker` never ends and sleeps 250 ms when it
  found nothing, so each stage that stays possible is taken (weak fairness), and a dead
  process is started again. Claims, loads and persists get strong fairness: a failing
  call is made again and goes through sometimes. No fairness on enqueuing, on crashes
  or on failures. `EveryTaskSettles` is checked with every fault: its premise is that crashes, lost
  claims and failed releases cease (failing loads and persists and lost acknowledgements need
  not), and it excuses a row they have left running with nobody to finish it, which
  `AbandonedByAccidentOnly` proves nothing else does. It is claimed of tasks before the first one of an
  unregistered step: that one is claimed and released for ever, and what comes after it in the
  queue may starve (`doc_nonretryable`). `AbandonedRecoveredByRestarts` is about the rows so
  excused, under the explicit premise that restarts go on happening, because only a restart
  runs the recovery.
* `TaskIntake`: each statement returns in the end, with an answer or an error.
* `LiveReplay`: the program goes on by itself and a model call ends, by its timeout if not with an
  answer; the client of the market data provider has no timeout, so no fairness on the fetch,
  and `EndsUnlessFetchHangs` says what is left.
* `DebugStream`: tokio polls every ready task, the browser delivers every queued event,
  a connection attempt ends. `Reconnects` has the premise that server and
  network have become stable, which nothing forces to happen.

## 4. Theorems

All of them hold for every value of the constants that the named assumptions allow: any
number of tasks, workers, attempts, requests, keys, bars, calls, samples, sockets.

* **AnalysisWorkersProofs.** The inductive invariant `IInv` is `StoreInv` (types, attempts
  numbered 1..count, budget left, one verdict, the last attempt decides) together with
  `ClaimsInv` (the fence). The properties of the store alone are not inductive: a persist
  does not look at the status, so without the claims nothing would stop a late outcome from being
  written onto a decided row. The fence is what stops it: a claim's count never exceeds the
  row's, an attempt number below the row's count is taken already, and if the counts
  agree the row is undecided. So UNIQUE (task_id, attempt_no) is enough. The proof shows
  that every step either moves rows between undecided states (`Shifted`) or
  records one outcome of a current claim (`Outcome`). From it follow `TerminalIsFinal`,
  `SupersededWritesNothing` and the refinement of `TaskLedger`.
  About tasks nobody works on: `IdleHoldsNothing` (a worker that is between tasks
  holds none) gives that a row is left running without a worker only in a step that is a crash,
  a lost claim or a failed release (`AbandonedByAccidentOnly`). `ClaimSteps` sorts the
  steps by what they do to claims: keep them, make one, give one back, or strand one.
* **TaskIntakeProofs.** No open transaction and no committed row share a key, and a request that
  was refused finds a committed row of its key; from this the four
  properties, including the refinement of `TaskRegistry`. `SubmissionsMoveOneWay`: each
  step of a handler raises its rank, at most five, so a lost race is never a loop.
* **AnalysisPipelineProofs.** `IInv` says what each step of a handler has resolved by then
  (`Sound`: citations are results of the right kind, bar and bar state, and none older
  than the analysis rests on) and that keys are unique. Two facts carry the rest: a result never changes,
  and a key belongs to one task for good. `DailyIsShared` covers the dates of several bars that
  `pipeline_server` does not. `RequestsMoveOneWay`: the kinds of step (`StepKinds`) all
  raise the rank of one request, at most eight, and what is submitted is never rewritten.
* **`PipelineImplementsRegistry`** (same module): the pipeline as a whole refines
  `TaskRegistry`, the specification `TaskIntake` refines from below, so the
  simplification of submission to one step is sound from both sides. The mapping: a submission is
  the request's; its identity is the key made of the input (`KeyOf`, the analogue of
  the dedupe keys) or none; tasks are the requests that created one; the answer of a duplicate is *the*
  task of its key, by CHOOSE, which is well defined because keys are unique (`HolderIsTheOne`)
  and stays what it is because inputs do not change and tasks do not go away
  (`DuplicatesKeep`). A run cannot have it as a property: TLC enumerates every possible key for
  the bound variable of the registry's step.
* **MarketBarsProofs.** Laws of the calendar for every market, timeframe and time: a tick is in its
  bucket; the last expected child closes when the bucket does; a quarter of an hour is accepted exactly
  if it is expected in its bucket (`AcceptedIsExpected`, `ExpectedIsAccepted`); a bar between
  the ends of a bucket is of that bucket (`IntervalIsBucket`). Then the invariant: stored rows
  have closed, backfills skip nothing storable and open bars are made of what had closed at their
  tick. `WholeBucketsAreListed` is a counting argument. Every row has a place among the children its
  bucket expects (`ChildIsNth`), so row |-> (bucket, place) is an injection, and the rows
  from bucket b on are at most (later buckets + 1) times the children of a bucket
  (`RowsOfBuckets`): no row of b falls off the end of the list. No induction is needed, since an
  injection into a product bounds the cardinality at once.
* **BarResolutionProofs.** A resolved bar is over and has all the request names
  (`ResolvedIsOver`, from the law of the last child), although nothing there compares it with the
  clock; and a request finds the bar it is about (`BarsResolveAsAsked`). For a quarter of an
  hour, between the row and the end of its bar opens at most one other, so a limit of two is
  enough; for a larger bar, whole buckets are listed, and two buckets with the same end are
  the same (`CloseNamesBucket`).
  Both modules assume that the bars a provider knows begin on a quarter of an hour
  (`QuartersAssumption`, in `MarketBars`; the continuous market of the code would accept any minute, and
  the count of rows per bucket would then be wrong).
* **MarketGatewayProofs.** `IInv` has, for each call, `Progress`: what it asked and heard so far is
  a prefix of what the policy prescribes, won or lost; and `Reported`, which is `FallbackIsTold` for
  the stages between the two events too. Calls share only the list of events, and an event of one
  disturbs no other but for the count (the frame lemmas): an event that is sent adds one to
  its kind just when its call joins those that are counted (`CallersAssumption`: finitely
  many). The proof needs that no provider reports an error of the kind that
  stops the fallback (`TranslateBlamesProvider`), and `WorldsAssumption`: at most one policy per
  instrument and market, from the unique keys of the tables.
* **LiveReplayProofs.** `IInv` says per phase what is known of the dataset and configuration, of the
  rows (sorted, as many as the window has, none after the target, which is taken where it occurs first; and
  from the second step of a bar on, none repeated up to that bar), of the
  history (one output per warm-up row so far) and of the report (`RunsInv`: in step order, and
  every finished sample has a run of each step or an invalid one). From it `HistoryIsThePast`,
  `StartedReplayResolves` and `GateMeansWholeChains`. The answers are any sequences
  of integers (`AnswersAssumption`). That there is no hole is a counting argument: as many rows as the window
  has, strictly ascending and inside it, are all of it (`AscendingFills`). It needs `~Padded`; the
  rest does not. `WholeChainsPassGate`, the converse, needs every
  rate of the report to be one, for reports of any length: the sets that are counted and
  divided are shown equal, and that a sample has a last run (`LastExists`) comes from the
  finiteness of its runs, so again no induction. `EveryStepGetsFurther`: a step ends the replay,
  goes to the next sample, phase, bar or step, or is a retry within the bound of the profile.
* **DebugStreamProofs.** For the production page (`~StrictMode`): `PageInv`, one socket in
  use or one reconnect pending and never both; `OrderInv`, what is on its way
  is newer than what is shown; `LossInv`, what was skipped was reported. Without the first the
  close of an old socket could hit a new one, which is what happens in strict mode.
  `MountedPageNeverStuck` is the other half: never neither.

So every invariant that a passing run checks, and every action property and refinement, is
also a theorem. What only TLC checks is the five liveness properties, since tlapm handles
neither fairness nor ENABLED, and the page in strict mode. What of them is a matter of
safety is proved, and TLC supplies the fairness:

| Liveness, by TLC | Its safety part, proved |
|---|---|
| `AbandonedRecoveredByRestarts`, `EveryTaskSettles` | `AbandonedByAccidentOnly`: ordinary work leaves no task behind; `BudgetNeverExceeded`: the attempts are bounded |
| `EveryRequestEnds` | `SubmissionsMoveOneWay`: no loop, at most five steps |
| `EndsUnlessFetchHangs` | `EveryStepGetsFurther`: no loop, bounded retries |
| `Reconnects` | `MountedPageNeverStuck`: no way to end up with neither socket nor timer |

The theorems of the right column and `PipelineImplementsRegistry` are not properties of a run;
TLC finds no violation of them on the constants of the runs of their modules (of
the refinement, with five requests).

## 5. Where code and documents disagree

Four runs expect a violation and find it:

* `doc_duplicate`: two live workers can hold a claim on one task, because startup recovery
  takes every row that has been running for five minutes since its *first* claim. The design
  of 2026-04-23 (line 149) excludes duplicate claims. `SupersededWritesNothing` and
  `OneVerdict` show that the tables survive it; the language model is called twice.
* `doc_nonretryable`: an error of the executor itself calls `mark_task_failed`, which
  the PostgreSQL repository does not implement, so the task goes round forever at the head of the queue. The
  phase 2 design (line 393) says that it terminates.
* `market_partial`: a bar can be stored as closed with the prices it had while forming. The design
  of 2026-04-24 (line 85) says only closed bars are persisted.
* `doc_fallback`: a fallback for a tick, and one that fails too, send no event. The server design
  of 2026-04-21 (308-309): "all fallback events must be logged and observable".

Met while modelling, without a run: a schema failure fails a task at once
(`repository.rs:1146`), where the 2026-04-23 design (176-183) retries it; a process that
restarts within five minutes of its crash leaves the row running, where the same design
(line 43) speaks of recovery; a second execution under an attempt number already taken leaves no
trace, where the phase 2 design (line 368) records every attempt; after a reconnect
nothing fetches the missed events, where the debug client design (68, 330) does.
Further:

* The prompt of a closed bar carries the latest tick, the newest rows, incomplete larger bars and the
  open bar (`build_structure_context_json`, `analysis_runtime.rs:597-696`). The design of 2026-04-24
  (320-325): "Closed-bar analysis must never consume [...] incomplete aggregated bars, latest tick
  snapshots, derived open bars".
* A live replay whose fetch or warm-up fails ends with an error and without a report
  (`LiveReplay.Fail`, `replay_live.rs:404-499`). The live replay design (358, 371) has
  failures as first-class output and a report that does not hide them.
* A live replay counts the rows of an answer (`replay_live.rs:771`) and does not compare them with the
  window. With a bar missing and the target repeated, or a bar from before the window, the
  chain runs on a history with a hole and is reported like any other. The live replay design
  (355-368) lists missing historical bars among the failures and adds: "Reports must not hide these
  states." `HistoryIsThePast` excepts exactly these answers (`Padded`); without the
  exception the run finds the case.
* `KlineIngested` is sent when the gateway has an answer, before any row is stored; for an
  empty answer with an open time in 1970 (`gateway.rs:76-85`).
* In the development build (`main.tsx` uses React's StrictMode) the close of the first socket
  arrives after the second was opened and acts on it: the indicator says Disconnected over a live stream
  (debug client design, 81) and the page ends up with two sockets. `debug_stream.cfg` with
  `StrictMode = TRUE` finds it (`DisconnectIsFinal` and `IndicatorTells` fail).
* A request for a closed H1 or D1 bar without times is about the oldest complete bar of the last 64,
  for M15 about the newest (`analysis_runtime.rs:506-557`).

## 6. What is not modelled

* Contents: prompts, JSON schemas, prices, event texts. The models keep what
  decides control: which outcome, which row, whether prices are final.
* Half a crash: a panic of the detached worker task while the API lives on.
  `Crash` takes the whole process; what is left behind is the same, but nothing restarts.
* What the prompts hold besides the bar and the cited results (section 5), and the date of a
  daily context that is asked for without one.
* The parameters of the requests to providers and models, the look-up of numbers in their answers,
  and the providers' health check, which nothing calls.
* The probe, command-line arguments, bootstrap data, pages of the client: I/O, printing, constants.
* The in-memory orchestration store, the older in-memory analysis services and `OpenBarBook`, which
  only tests use; the registration of steps without an execution profile, likewise.
* Filling gaps of the debug stream after a reconnect: the program has nothing of the kind.
* Scheduled user analyses: `pa-user` can build such a task, no handler does.

Assumptions about the environment: PostgreSQL at READ COMMITTED does what its documentation says of row locks,
unique indexes and SKIP LOCKED; the clock of a process does not go back; a WebSocket
delivers in order.

## 7. Plan

Done, in the order of importance: store and workers, submission, the
input pipeline, calendar and bars, the debug stream, the replay with the execution of a step, the gateway
and its providers, the resolution of closed bars; each with its abstract
specification where it has one, and its safety proofs.

What could follow:

1. The composition of `MarketGateway` with `MarketBars` (which now takes any answer a provider may give) and
   with the emitter of `DebugStream` (which now sends any event at any time).
2. `StepExecution.ExecuteJson` in place of the four outcomes of `AnalysisWorkers.Execute`, and the
   steps of `TaskIntake` in place of the atomic submission of `AnalysisPipeline`. Both are safe
   abstractions today, the second one because of the refinement that is checked and proved.
3. A variant of `Crash` that only the worker task dies of, and the market context of a prompt,
   once a document says what should hold of either.
