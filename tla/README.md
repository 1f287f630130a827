# Formal models of the PredArb framework

PredArb watches prediction markets and crypto venues, looks for arbitrage, and
executes what it finds on a *paper* account (live execution is switched off by
configuration). This directory holds TLA+ models of the parts of `src/backend/app`
whose correctness depends on order, concurrency or failures, the TLC
configurations that check them, and machine-checked proofs (TLAPS) of their most
important invariants. Paths below are relative to `src/backend/app` unless they
start with `src/`.

## 1. The system and its parts

One process: an asyncio event loop (FastAPI handlers, the application lifecycle
in `core/application.py`), APScheduler's threads (`scheduler/`), worker threads
started with `asyncio.to_thread`, and, when enabled, the threads of the
execution worker. Singletons at module level are shared by all of them.
Persistence is JSON files replaced with `os.replace` (`paper/`), one append-only
JSONL file (shadow execution) and a SQL database for the routers.

| component | state it keeps | operations | talks to | what is hard | what makes it correct |
|---|---|---|---|---|---|
| **order book synchronisation** `crypto_arbitrage/market_data/{local_book,stream_manager,synchronizer}.py` | price levels, last update id, ready/resync flags; state BUFFERING/SYNCED/FAILED, the buffer, the first buffered id | `observe`, `apply_rest_snapshot`, `restart`; `apply_snapshot`, `apply_update` | the venue's stream and REST side, through the adapters; whoever prices reads the book | a snapshot and a stream that race; lost, repeated, overlapping messages; a full buffer; a late REST answer | a book that may be priced is exactly a book the venue had; the two flags agree; it gets back in step |
| **venue stream adapters** `crypto_arbitrage/connectors/*/spot_adapter.py` | none | parse a message | stream manager | the id each venue gives its deltas | the mode (`SequenceMode`) fits the ids |
| **pacing and freshness** `market_data/{backoff,rate_limiter,freshness}.py` | attempt counter; tokens and last refill; last timestamps | next delay, acquire, record | adapters | limits, zero, clock | never more than the budget; delays bounded |
| **paper account** `paper/paper_{account,wallet,position_manager,trade_history,models,repository,runtime}.py` | cash, positions, trades, processed order ids, dirty flag; the file | `commit_execution`, `settle`, `mark_to_market`, `reset`, `save`, `load`, startup, shutdown | the pipeline's account stage, `/paper` handlers, lifecycle | three kinds of thread; rollback of half an execution; save that releases the lock; crash | all or nothing; no order twice; the books balance; what was saved comes back |
| **paper session** `paper/paper_session{,_runtime}.py` | task, running flag, stop event; report and counters | start, stop, run once, one cycle | pipeline, risk guard, account | a stop that waits, times out and cancels while `to_thread` goes on; start during stop; overlapping cycles | one loop; what is reported running runs |
| **paper risk guard** `paper/paper_risk.py`, `pipeline/stages/paper_risk_stage.py` | last decision | judge a session, judge an opportunity | account snapshot | a batch judged against one snapshot | limits hold after the batch |
| **capture runtimes** `paper/*_runtime.py` (readiness, incidents, certification, assurance, validation histories) | cycle lock, task, counters | start, stop, capture once | journals | cancellation while the worker thread writes | one capture at a time |
| **journals and histories** `paper/*incidents.py`, `*history.py`, `*evidence.py` | a JSON document | capture, acknowledge, load, reset | files | load-modify-save without a lock | no update lost |
| **shadow execution and its audit chain** `paper/shadow_execution_*.py` | hash chain in a JSONL file, cycle lock | append, read, verify, run a cycle | scheduler, economic engine | torn last line, restart | the chain is a prefix of what was appended |
| **order lifecycle** `orders/{order_state_machine,order_lifecycle,order_repository}.py` | status and quantities of an order | transitions, fills | order manager | a fill written before its transition is refused | status and quantities agree |
| **execution worker and queue** `orders/{execution_worker,execution_queue,retry_engine}.py` | heap, keys, unfinished count; accepting/running flags, tasks, threads | submit, stop (drain or not), start, loop | lifecycle | submit racing stop; cancel racing pop; exit of the last thread | accepted tasks end, once |
| **scheduled opportunity scan** `real_markets/{opportunity_scan_service,opportunity_background_collector,opportunity_monitor}.py` | cache with TTL, in-flight futures, generation, cooldown stamps | scan (cached or forced), latest snapshot | scheduler thread, handlers in the event loop | one scan shared by threads and loops; cancellation; TTL | one upstream scan per configuration; a forced answer is newer than its request |
| **crypto scanner and book source** `crypto_arbitrage/services/` | single-flight lock, last result | scan | REST adapters | overlapping calls | one scan at a time |
| **crypto opportunity arithmetic** `crypto_arbitrage/engine`, `.../models` | none | depth walking, fees | scanner | decimal rounding | agrees with a reference walk |
| **trading layer** `trading/` | metrics, trades, last report | execute with retries, slippage guard, rollback | connector | retry after an execution that raised late; live execution disabled | no attempt after rollback, at most `max_retries` repeats |
| **pipeline** `pipeline/` | a context per run | stages in sequence | engine, account | errors of a stage | stop on error |
| **order routing, matching, statistics** rest of `orders/` | repositories, counters behind locks | scoring | order manager | floats | - |
| **execution planning** `execution/` | plans, statistics | validate, plan, report | trading | - | - |
| **lifecycle, kernel, scheduler** `core/application.py`, `kernel/`, `scheduler/` | registries, scheduler | startup and cleanup in order | everything | cleanup order, jobs still running after shutdown(wait=False) | the account is saved last |
| **events and realtime** `events/`, `realtime/`, `services/market_listener.py` | listeners, websocket connections | publish, subscribe, broadcast | dashboard | a list that changes under `await` | every connection gets the message |
| **connectors** `connectors/`, `clients/`, `exchanges/`, `providers/` | connector registry | connect all, health, update markets | network | partial failure of a gather | one failure does not hide the others |
| **real markets: matching, economics** rest of `real_markets/` | registries | match, evaluate | scan service | text similarity | - |
| **readiness, stability and certification gates** `paper/*gate*.py`, `*certification*.py`, `*assurance*.py` | none | score a snapshot | histories | - | - |
| **authentication** `auth/` | caches of clients | verify tokens, sessions, MFA by HTTP | Supabase | - | - |
| **backtesting, statistics, strategies, portfolio, AI** | none shared, or one lock | numeric analysis, models | - | - | - |
| **API routers, dashboard, database** | caches | handlers, rendering, SQL | everything | - | - |

`PROJECT.json` lists the same components with their status and, under
`hazards`, what in this code is hard to test, line by line, with the property
that would catch it.

How the parts meet: adapters hand parsed messages to the synchroniser, whose
book is read by whoever prices. The session's loop runs a pipeline cycle in a
worker thread; its account stage commits to the paper account and saves it,
while `/paper` handlers in the event loop settle, mark, reset and save the same
account. The lifecycle starts the account first and closes it last. The
scheduler's thread runs the collector, which calls the scan service from an
event loop of its own while handlers call it from the server's loop. Capture
runtimes read the account and write journals that handlers also write.

## 2. Plan

In order of what would hurt most. Written, and described below:

1. `BookMirror`, `BookSync`: a wrong book means wrong prices.
2. `PaperTrades`, `PaperLedger`, `PaperAccount`: money and restarts.
3. `ScanService`: one collection for threads and loops.
4. `PaperSession`: start, stop, manual cycles and the loop, whose worker threads
   survive the cancellation of the task that waits for them, with the risk stage
   as the step that judges a batch against one account.
5. `EvidenceArchive`, `IncidentJournal`, `EvidenceIncidents`: a capture runtime, the
   hash chain it watches and the journal it writes. It stands for the other
   capture runtimes, whose start, stop, cycle and save have the same shape.
6. `ExecutionPool`: submit, start, drain and stop of a pool of threads.

Not written yet, in this order:

7. An audit chain for shadow execution: an append-only file whose last line a
   crash may tear, or leave without its end of line, so that the next append
   glues two records together. (The settings refuse to persist it automatically,
   `core/settings.py` 636; explicit calls do.) Abstract specification: a log of
   which the file shows a prefix.
8. The order lifecycle: the transition table and fills under concurrent callers.
9. Pacing functions (token bucket, backoff) against reference definitions over
   bounded inputs.

How they compose: `EvidenceIncidents` extends `IncidentJournal`, which extends
`EvidenceArchive` (the two files as values); `PaperAccount` extends `PaperTrades` and
implements `PaperLedger`; `BookSync` implements `BookMirror`. `PaperSession` sees the
account as the risk guard sees it, and its cycles are the workers of `PaperAccount`;
the two are checked apart, because their product is too large and meets in one step,
the commit, which both have. `FoldFacts` holds what the proofs about the account and the
session need of folds (section 9). Each `MC*` module instantiates its component for TLC; each
`*Proofs` module holds the theorems about it.

## 3. The order book: `BookSync`, `BookMirror`, `MCBookSync`, `BookSyncProofs`

| code | model |
|---|---|
| `LocalOrderBook` fields | `book`: `ready`, `resync`, `last`, `levels` (and `anchored`, a history field) |
| `VenueBookSnapshot`, `apply_snapshot` | `Snapshot`, `UpdateId`, `SnapshotBook` |
| `is_ready` / `snapshot_for_pricing` | `IsReady` |
| `_check_sequence`, `apply_update` | `Unchecked`, `Continues`, `Misnumbered`, `Verdict`, `Updated`, `LastAfter` |
| `_assert_not_crossed` | `CrossedOutcomes`, `SnapshotBook` |
| `BookStreamManager._apply_delta`, `_apply_snapshot` | `ResyncRequired`, `ObserveSnapshot` |
| `BookSynchronizer` fields | `state`, `buffer`, `firstBuffered` |
| `observe`, `_buffer_message` | `ObserveDelta` (`LiveDelta`, `BufferDelta`), `ObserveSnapshot` |
| `apply_rest_snapshot`, `is_snapshot_usable`, `_replay` | `SnapshotReachesBuffer`, `ApplyRestSnapshot`, `ReplayNext`, `ReplayEnd` |
| `restart` | `Restart` |
| the venue, its stream, its REST side (external) | `Publish`, `cursor`, `StreamDisturbed`, `RequestSnapshot`, `rest` |

*Data.* A price level holds the number of the venue update that wrote it last;
this stands for its quantity. Two books are equal exactly when each level was
written by the same update, so "the book is right" needs no prices or amounts. A
delta is the interval of updates it covers. `venue` keeps all past books: it is a
history variable for the properties.

*Snapshots without an id.* The adapters take `update_id` from the message and it may be
`None` (`connectors/venue_adapter.py` 40-48), so a snapshot is `numbered` or, with
`OmitsSnapshotIds`, not. After one that is not, `_check_sequence` has nothing to compare
the next delta with and accepts it (`local_book.py` 304-307), over a hole if there is one;
and a synchroniser with buffered deltas refuses to align such a snapshot
(`synchronizer.py` 313). The model does both. Until the next
numbered snapshot such a book is ready and may lack what its first delta jumped over: nothing
holds of its levels, and the properties claim nothing of them. `anchored` remembers which kind of
snapshot the book stands on; every property that compares the book with the venue speaks of
anchored books, in runs and theorems where id-less snapshots come in between, and so also
says that a numbered snapshot makes a book that was filled unchecked right again. The two
flags agree whether or not the snapshot had an id.

*Steps.* All handlers run in one event loop without an `await` inside, so each is
one action. `_replay` is cut into one action per message although nothing can run
between them: its loop would otherwise have to be a recursive operator, and the
`replaying` flag disables every other handler until `ReplayEnd`.

*Runs.* `book_range` (Binance: REST snapshot, ranges, two levels, 3 updates of which the
second is crossed, one fault, a buffer that never fills, id-less snapshots) and `book_pushed`
(OKX: pushed snapshots, previous id, two levels, 4 updates, two faults, a buffer of 2,
id-less and crossed snapshots) check that an anchored ready book is a book the venue had,
that the two flags agree, and that a crossed book is never shown. `book_range` checks
besides that the whole implements `BookMirror`, that no observed delta is missing from a
synchronised book, and that after its fault - a lost or repeated message, or a dropped
connection with a restart while a REST answer is in flight - it ends up synchronised for
good, and at the venue's head if its snapshot is numbered (`EventuallyCurrent`). Two
levels let one level be current while the other is stale; three updates allow snapshot,
missed delta and the delta that reveals it; a buffer of 2 overflows. In `book_range` a REST
answer shows at least what the stream had delivered when it was asked for (`RestLags`
FALSE); answers that lag are what `book_late_snapshot` is about, and the theorems allow
them. One level with two faults was tried aside and holds too.

*Fairness.* Weak fairness for handlers (the event loop runs what is ready, and
messages that are not lost arrive), strong fairness for a numbered REST answer at the
venue's head: the caller repeats the request while the book is not synchronised, the REST
side is not for ever behind its stream, and does not omit the id for ever.
`EventuallyCurrent` assumes that faults stop and that the venue publishes once more after
the last of them (`CalmSince`): nothing else would reveal a message lost at the end.

*Findings.* `book_late_snapshot`: once a buffer that overflowed was emptied, the
id to compare a snapshot with is forgotten too, so a snapshot older than the
dropped deltas is accepted and the book declared synchronised with a hole (until
the next delta reveals it). `book_missing_id`: a delta without the id its mode
checks is refused without marking the book, which goes on saying it is ready.

*Proved, for every venue, number of levels, buffer size and fault pattern, and any mix of
numbered and id-less, current and lagging snapshots:* `TypeCorrect`; `Agreement` (assuming
deltas carry their ids, `~OmitsIds`, which is exactly what `book_missing_id` violates);
`MirrorCorrect`, `NeverPricesCrossed` and `Refinement` (also for the gap-detecting modes: in
`MONOTONIC` and `NONE` the ids do not reveal a loss), of anchored books. The inductive invariant is `TypeOK /\ History /\ Control /\
ReadyAgreesWithSynced /\ Mirror /\ ReadyIsNotCrossed`. `Mirror` alone is not
inductive: that applying a delta to the venue's book `last` gives the book `final`
needs `History` (a level not touched in the interval has the same writer at both
ends), and the replay and the REST answer need `Control` (a replay runs on a ready
book, an answer is awaited only while unsynchronised).

`NothingMissed` proves `SyncedMissesNothing` for behaviours in which, until the first fault,
a delta that is still to come finds room in the buffer (`Room`; without that the code drops
deltas and says nothing until the next one), and assumes numbered deltas and snapshots, no
crossed book, and a mode in which deltas may overlap a snapshot (`ToleratesOverlap`).
`NothingMissedOfShortHistory` replaces `Room` by a venue that publishes no more than the
buffer holds. Inductive is `Complete`: buffer and rest of the replay are without holes up to
the cursor, and begin no later than the update after the snapshot. From the same invariant,
`MirrorWithoutFaults`: until the first fault a ready book is the venue's in `MONOTONIC` mode
too. Here the snapshots have to be numbered: an id-less one needs no fault to leave a hole.

## 4. The paper account: `PaperTrades`, `PaperLedger`, `PaperAccount`, `MCPaperAccount`, `PaperAccountProofs`

| code | model |
|---|---|
| `PaperTrade`, wallet, positions, `apply_trade` | `PaperTrades`: `Trades`, `Bookable`, `Booked` |
| `PaperAccount` fields | `account`, `dirty` |
| `commit_execution`: check, backup, trades one by one, restore or end, save | `Commit`, `CommitBegin`, `ApplyTrade`, `Rollback`, `CommitEnd`, then `Export` |
| `settle`, `mark_to_market`, `reset` | `Settle`, `SettleBook`, `Mark`, `Reset` |
| `save`, `PaperAccountRepository.save` | `Save`, `Export`, `Write`, `Clear` |
| `PaperAccountRuntime`, the process | `Shutdown`, `Exit`, `Startup`, `Crash`, `phase` |

*Steps.* One action per critical section of the account's lock, because the lock
is re-entrant and nothing else touches the account, with one exception: `settle`
reads a position through `PaperPositionManager`, which has a lock of its own, so it
can see the middle of a commit. A commit is therefore cut after every trade, and
`LockFree` keeps every other section out meanwhile. `save` releases the lock
between exporting, writing and clearing the dirty flag: three actions. The event
loop's thread runs one handler at a time (commit with or without save, settle,
mark, reset, save, shutdown); the session's workers commit and save.

*Data.* Amounts are ticks; a trade is a record with an order id, a key, a side, a
quantity, a price and a fee. The history is the sequence of trades. Average price,
PnL, equity curve and rounding are left out: they are computed from these and
decide nothing. `reserve`/`release` of the wallet have no caller.

*Runs.* `paper_account`: the event loop and one worker, a purchase of two legs, a
sale whose second half may fail, a purchase competing for cash, writes that may
fail, one settlement, any number of crashes and restarts: types, no order booked
twice, books that balance, and the refinement of `PaperLedger` (the ledger moves by
whole executions, and the file holds only ledgers the account had). One worker and
the loop already give every pair of overlapping sections; a third thread repeats
them. Two keys are needed for half-applied executions.

*Findings.* `paper_lost_save`: a commit between the export and the clearing of the
flag, or two saves that write in the other order, leave an account that calls
itself clean and whose trades are not in the file after an orderly stop.
`paper_stale_settle`: the quantity settled is read before the lock is taken.

*Proved, for every set of threads, executions, amounts:* `TypeCorrect` (no
negative wallet or position), `NoOrderTwice`, `MoneyIsConserved` (`BooksBalance`) and
`ImplementsPromise` (the refinement of `PaperLedger`). For `NoOrderTwice` the inductive invariant `OnceInv` is
`TypeOK /\ Control /\ Sound /\ Remaining`: at most one commit holds the lock
(`Control`); what a commit may have to restore is as sound as what is stored, and no
ledger knows a settlement that was not issued, so a new settlement id is new (`Sound`);
and what remains of a batch is disjoint from what is processed (`Remaining`), which is
what the check at the beginning gave and every booked trade keeps. Assumptions:
`TradesAssumption`, `AccountAssumption` (amounts are naturals, sides are two, the loop is
not a worker).

For `BooksBalance` every ledger must balance that may come back, also the one a commit would
restore (`Balances`). `LedgersMove` says once how a step moves the ledgers: what is there
after it was there before, or is fresh, or is the account after one trade or with other
marks; a trade then adds its cash flow and its quantity to the sums over the history
(`CashAppend`, `HeldAppend`).

For the refinement, the ledger the others will find is the backup while a commit holds the
lock (`Committed`), so all steps of a commit but its last stutter. That the last is a whole
execution is `Underway`: the account is the fold of the first trades of an admitted
execution over the backup, and the rest of it is still to be booked. `BegunFirst`, `BegunNext`
and `BegunLast` take that from the check to the end; `OrdersCount` turns distinct ids into
the cardinality `PaperLedger` speaks of; `BookSettles` shows that a settlement which is booked
sells what it had read, though the account may have moved since, and never more than is held.

## 5. The scan service: `ScanService`, `MCScanService`, `ScanServiceProofs`

| code | model |
|---|---|
| `_cache`, `_latest_entry`, `_cache_generation`, `_inflight`, `_last_forced_at` | `cache`, `latest`, `generation`, `inflight`, `forcedAt` |
| a call of `scan` and its locals | a request: `stage`, `key`, `force`, `since`, `completed`, `joined` |
| the `Future` of a collection | `future[owner]` |
| `scan` up to the coroutine | `Call` (policy: cached, forced, forced by the collector) |
| the locked part of `_execute_scan` | `ServeCached`, `Join`, `Own` |
| `monitor.scan`, the clock, the publication, the `except BaseException` | `Collected`, `Publish`, `Abandon` |
| `asyncio.wrap_future` | `Resume`, `Cancel` |
| `latest_snapshot`, `clear_cache` | `Snapshot`, `ClearCache` |

*Steps.* One action per critical section of `_state_lock` or per resumption after an
`await`; a request may live in any thread or loop, so all interleave. `Cancel` shows
what `wrap_future` does: cancelling one that waits cancels the shared future, hence
the others that wait for it. A payload is the configuration it was collected for
and its generation; `asked` remembers, for the properties, the generation when
`scan` was called.

*Run.* `scan_service`: three requests, two configurations, two ticks of a clock with
a lifetime of 1 and a cooldown of 2, so that entries expire, cooldowns hold and end,
one request collects, one waits and one comes late. It checks that a configuration is
collected by its registered request only; that an answer is for the configuration
asked for and, when forced, was published after the call; that readers of the snapshot
never go back; that every request ends. Requests are calls, each made once: when all
have ended nothing is left to do, so deadlock is not an error there.

*Fairness.* Weak fairness of what the loops have ready (entering, publishing,
resuming) and of the monitor, whose network calls have timeouts: it returns or raises.
Nothing is assumed of cancellation, expiry or the clock.

*Proved, for any number of requests and configurations:* `TypeCorrect`,
`SingleFlight`, `ForcedAnswersAreNewer`, `ReadersNeverGoBack`. `SingleFlight` is inductive with
the types. The answers need three facts more: `Versions` (the latest entry carries the
last generation, no entry a later one), `CalledMayUse` (an entry that a forced request may
still take is newer than its call: the remembered generation is that of the entry seen, or
0 if there was none, and only a publication can exceed it), and `WaitsForItsOwn` (who waits,
waits for a collection of its configuration that had not ended when it joined). The snapshot
property follows from `Versions`: an entry that is dropped uncovers the latest one, which is
never older. Only model-checked: `RequestsEnd`.

## 6. The paper session: `PaperSession`, `MCPaperSession`, `PaperSessionProofs`

| code | model |
|---|---|
| `PaperSessionRuntime`: `running`, `task`, `_stop_event` | `running`, `task`, `started` and `stopped` |
| `start`; `_loop` and its `finally` | `Start`; `Wake`, `CycleDone`, `Cancelled`, `End` |
| `stop`: the event, the wait, the cancellation, the return | `Stop`, `StopTimeout`, `StopReturn` |
| `run_once` and cycles with given opportunities | `RunOnce`, `Answer` |
| `PaperSessionManager.run_cycle`, `_record` | `Guard`, `Source`, `Judge`, `Judged`, `Commit` (`Purchases`), `Record`, `RecordFails` |
| `PaperRiskGuard.session_status`, `evaluate` | `halted`, `WithinLimits` |
| `PaperAccountManager.settle`, `reset` as the guard sees them; prices and days | `Settle`, `Reset`, `Revalue` |

*Steps.* A coroutine's step ends at its next `await`; a cycle runs in a thread of its
own and is cut where it reads or writes what others write: the guard's look at the
account, every single judgement, the commit, the saving of the report. A loop that a
stop cancels after its timeout leaves its cycle running (`"cancelling"`, then the stage
goes on by itself), and the `finally` of a loop clears `running` and `task` whichever loop
they are about. All loops ever started are numbered; `_stop_event` is the newest one's,
and `_loop` reads the attribute anew at each iteration, so every loop heeds the newest.

*Data.* The account is what each open position has cost, one position per market and leg, in
units of the smallest stake; the market and total exposure are sums of it. Each judgement
picks a stake up to `MaxTradeNotional`. What the orders of the opportunities approved then
cost is chosen at the commit: nothing, if the order or paper stage refuses them or the
account lacks the cash; less or more than their stakes, because stages skip some and slippage
and fees come on top; up to `MaxCost` for each, which is the only bound. What else the guard
weighs - cash, trades of the day, positions worth more than they cost, return, confidence,
risk - is a refusal that may always happen; its limits of a session are one flag that may
flip at any time. `settle` closes one position, and leaves what was bought of it since it
looked (`paper_stale_settle` of section 4); `reset` closes all.

*Run.* `paper_session`: two loops, one stop handler, one manual cycle, batches of two, one
market with one leg, opportunities that cost up to two, stakes up to two, limits of two in
all, one in the market and four positions, saves that may fail. That is three cycles at once, of which one
belongs to a cancelled loop, and limits smaller than what three cycles can approve together.
It checks that a session reported as running has its newest loop alive (`RunningIsLive`; the
converse fails: a stop that returns after a new start clears the flag, and the loop goes on
unseen); that purchases exceed a limit by less than the cost of all that is judged at once
(`CapitalBounded`, which is reached: with `Slack` smaller by one it fails); that every stop
returns; and that a stop nobody follows with a start ends every loop, also those the runtime
has lost, unless its source never answers. Two legs with batches of one were tried aside
(767 thousand states) and hold.

*Fairness.* Weak fairness of loops and stops (the event loop runs what is ready, timers
fire) and of the threads - but none for the source, which calls out to the markets.

*Proved, for any number of loops, handlers, markets and any limits:* `TypeCorrect`,
`RunningMeansLive`, `CapitalIsBounded`. With the types `RunningIsLive` is inductive: whatever
clears the flag clears the task, only `Start` sets either, and it names the newest loop.
`CapitalBounded` needs `Cycles`: a caller holds opportunities only between its source and its
commit, what it has still to judge and what it has approved are a batch at most, and a loop
begins no cycle before its last one is over. A judgement then finds the booked costs below the
limit by at least one, its own approval adds `MaxCost`, and what the other callers have
approved is at most a batch for each of them, each at `MaxCost`; a commit books no more than
it takes off the approved, a settlement and a reset only lower the sums. The proof
adds up over callers and over markets, so `SessionAssumption` says that requests and markets are
finitely many (the markets are a cycle's opportunities, the requests those the server
handles), and that there is at least one loop.

*Limits.* Executions that a user posts to `/paper` (`api/routers/paper.py` 80) are judged by
no guard and are not the session's, so the bound does not speak of them. The account starts
empty, although startup may have restored one.

## 7. Evidence incidents: `EvidenceArchive`, `IncidentJournal`, `EvidenceIncidents`, `MCEvidenceIncidents`, `EvidenceIncidentsProofs`

| code | model |
|---|---|
| `PaperCertificationEvidence`: `capture`, `verify_state` | `EvidenceArchive`: `Capture`, `Linked`, `Broken` |
| `PaperCertificationEvidenceMonitor.snapshot` | `CountAlerts`, `ChainAlerts`, `LatestAlerts` |
| `...IncidentJournal`: `capture`, `acknowledge` | `IncidentJournal`: `Captured`, `Acknowledged`, `Known` |
| `PaperEvidenceIncidentRuntime`: `start`, `_run_loop`, `stop` | `Start`, `Wake`, `Cancelled`; `Stop`, `StopTimeout`, `StopReturn` |
| `capture_once`, the cycle lock, `_capture_sync` in a thread | `Cycle`, `Acquire`, `Release`; `Summary`, `Verify`, `Latest`, `Load`, `Save`, `Fail`, `Finish` |
| the routers' handlers of archive and journal | `CaptureEvidence`, `CaptureIncidents`, `Acknowledge` (`Handle`) |

*Steps.* The monitor loads the archive three times, and `journal.capture` loads, works
and saves: four places at which another writer may come in between. The handlers of the
journal are ordinary functions in the event loop: while one runs (`LoopIsFree` fails) no
coroutine moves and nobody captures evidence, but threads do. Neither file has a lock.

*Data.* A hash is a number nobody used before: the chain's shape is what verification
looks at. A journal is the status of each alert code, who is acknowledged, and the
counts of its newest snapshot. There are fewer codes than the incidents a journal
keeps, so incidents are never trimmed; evidence is.

*Run.* `evidence_incidents`: an archive at its limit of one entry and one more capture, so
that it goes from whole to trimmed under a cycle's hands; two loops, a manual cycle, a
stop, the two handlers, one failing save. Checked: one loop at most, the one the runtime
knows; cycles overlap only with those of cancelled loops; in every journal, on disk or about to be written, the active incidents are those
counted; nobody is alarmed about a chain that is whole, although alerts are put together
from three loads; a save loses incidents or acknowledgements only if somebody saved since
its load; every stop returns; and a broken chain that a running loop watches is reported
for good once the handlers rest. Several statuses, stale evidence and a larger limit
were tried aside (13.6 million states) without a violation; they only multiply the states.

*Finding.* `evidence_trimmed`: `capture` keeps the newest `history_limit` entries
(`paper/paper_certification_evidence.py` 378-380), while `verify_state` starts from the
genesis hash. Once the first entry is trimmed, an archive that nobody but `capture` has
written is reported BROKEN, for good, and the monitor raises the alert that the chain was
altered. The run's property, `UnalteredIsNotAccused`, is what the documentation, the alert's
text and the test of tampering say BROKEN means; it fails in four states.

*Fairness.* Weak fairness of the threads. Strong fairness of coroutines and stops: between
two handlers the event loop runs what is ready in the order it became ready, and
`asyncio.Lock` serves in order, so a coroutine that is again and again able to move, moves,
although handlers keep taking the loop away from it.

*Proved, for any limit, any number of loops, requests and stops:* `TypeCorrect`,
`OneLoopAtMost`, `CyclesKeepApart`, `JournalsAreCoherent`, `AlarmsAreTrue`,
`LossesAreRaces`. The runtime's part of the invariant says whom a stop waits for
(`TargetsAreStopped`), which threads may be at work (`WorkIsAccounted`) and that one
coroutine holds the lock (`LockIsHeldOnce`). The archive's says that its entries are
consecutive hashes ending in the head, from which follows that it is whole exactly while
its first entry is hash 1. Alarms are true because a broken archive stays broken.

## 8. The execution pool: `ExecutionPool`, `MCExecutionPool`, `ExecutionPoolProofs`

| code | model |
|---|---|
| `ExecutionWorker`: `running`, `accepting`, `_drain_on_stop`, `_stop_event`, `threads` | `running`, `accepting`, `drain`, `stopEvent`, `gen` |
| `submit`, `ExecutionQueue.push` | `Submit`, `Push` |
| `_loop`, `_process`, `RetryEngine.run`; `pop`, `task_done` | `Test`, `Pop`, `PopTimeout`, `Begin`, `Retry`, `Conclude`, `Complete`, `Raise`, `Catch`, `TaskDone`, `Exit`, `Die` |
| `start` | `Start`, `StartThread` |
| `stop` | `Stop`, `StopStopped`; `List`, `Clear`, `Mark`, `Cancel`, `Declare`, `Marked`; `Join`, `Look`, `Answer` |
| the lifecycle (`core/application.py`), which calls them | `control` |

*Steps.* One per section of the worker's or the queue's lock and one per write another
thread can see: `submit` tests `accepting` under the lock and pushes after it; `stop`
lists the heap, clears it and marks what it listed, status first, event second. The loop's
three reads (event, drain flag, heap) are one step, the last one: the event stays set while
a thread loops. `_process` gives a verdict, sets the task's event
(`execution_worker.py` 189) and only then logs the task (190): a logger that raises there, like
an option or a callback that raises during the attempts, ends in the `except`, which declares the task FAILED and sets the event, again
if need be. A `submit` that is refused raises and changes nothing, so it is a guard. A `join` with a timeout may end at any time, which is to go straight to
`Look`. Start and stop are called by one controller, as the lifecycle does; the model says
nothing of two calls of them at once. `submit` has no caller in the repository yet; every
task has a caller of its own.

*Run.* `execution_pool`: two tasks of different priority, two workers, two attempts, two
starts, any number of stops, draining or not, waiting or not. Two tasks and two workers give
every race of one pop with another, with a push and with a clearing; two starts, that of old
threads with new ones. Checked: the count of unfinished tasks is the heap and the hands, so
`task_done` never raises (`UnfinishedAddsUp`); no task runs twice, none is lost but one whose
push the stop overtook (`Whereabouts`); what a draining stop leaves in the heap was overtaken
by it (`LeftBehindIsLate`); what a caller was told of a task stays once its thread has put the task
down and the stop is not marking it; before that a SUCCESS may become FAILED under the caller's
eyes, by the logger, and nothing else changes, except of a task popped between the
listing and the clearing, which is cancelled and runs (`VerdictsAreFinal`); threads of two
starts never work together (`OnePool`); again and again, every pushed task has ended, was dropped,
or lies in the heap of a pool without threads (`TasksEnd`), and start and stop have returned
(`StopReturns`): both are written `[]<>`. `OnePool` is the safe direction only: two
threads that leave together see each other alive and leave `running` set, and `start` then
refuses until the next stop.

*Fairness.* Weak fairness of each thread, each push and the controller: the operating
system schedules threads, and the functions submitted return. Nobody has to submit, start
or stop.

*Proved, for any finite set of tasks, any number of workers, attempts and starts, and any
priorities:* `TypeCorrect`, `PoolsAreApart`, `DrainsWhatItAccepted`, `TasksAreSomewhere`,
`VerdictsStand`, `CountIsTrue`. The invariant has three parts. `PoolInv`: threads of older
starts are past their loop, a thread leaves only when told to, and a stop that saw no thread
alive saw all. `LeftInv`: if a thread has left, the heap was empty then, or the stop does not
drain and clears it, and what came since is late. `TaskInv`: a task is in one place and not done
there, what is listed is in the heap or has slipped, and after the clearing only the stop can
end what did not slip. `VerdictsStand` adds `GivenInv`: while a
thread declares a task done and logs it, the task has a verdict, unless it slipped. `CountIsTrue` adds the cardinalities.

## 9. What is not proved, and what is not modelled

*Only model-checked.* All liveness (`EventuallyCurrent`, `RequestsEnd`, `StopReturns`,
`StopEndsEveryLoop`, `BrokenStaysReported`, `TasksEnd`): proofs about fairness are out of the
prover's reach. Every invariant, action property and refinement of the passing runs is the
subject of a theorem. Those about the order book have premises, which section 3 names: deltas
that carry their ids, gap-detecting modes, and for `SyncedMissesNothing` numbered snapshots, no
crossed book, and a buffer with room until the first fault.

*Folds.* Sums over trades, markets and callers and the account after a batch are folds, that is
recursive functions over subsets. The induction theorems of the library take a predicate as a
parameter, which the provers cannot instantiate, so `FoldFacts` does without: `SetInduction`
is about a set of numbers, from the well-foundedness of `<`; the step, the values and the order
in which a fold takes elements are functions, so that the lemmas (a fold exists and is unique,
its value has the step's type, an element more at the end is a step more, sums grow by what an
element grows) are proved once and cited for every fold of the models.

*Not modelled.* Most of the repository's lines have no state that two actors share: numeric
analysis (real markets, statistics, backtesting, strategies, AI), reports and gates computed
from a snapshot, HTML, routers that pass a call on, HTTP and SQL access. A model of them would
restate their arithmetic. The histories and runtimes under `paper/` repeat the shape of one
another; one is modelled, and its properties are those of the others. What has state and is
left out - audit chain, order lifecycle, pacing - is at the end of section 2.

Inside the modelled components: metrics and counters and their reset, depth limits of queries,
freshness of timestamps, demultiplexing by instrument, contents of payloads, wording of
errors; in the pool also `remove`, `close` and `join` of the queue, `clear_completed`, and
exceptions that leave the loop (a `BaseException`, which line 213 does not catch, or a logger that
raises inside the `except`): they end the thread with its task not done; in the
journal the history of snapshots but its newest entry. The settings are the defaults (account
enabled, loaded and saved automatically; guard and runtime enabled).

## 10. Running it

    tlc -config paper_account.cfg MCPaperAccount.tla     # any run of PROJECT.json
    tlapm PaperAccountProofs.tla                         # the proofs

`PROJECT.json` lists, for each run, its properties; for each property, a mutated
definition (a `\* Mutant:` operator beside the one it replaces) that breaks it; for each
definition, the source lines it models.
