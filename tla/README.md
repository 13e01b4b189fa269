# A verification project for fpro_v2

fpro_v2 collects quotes from QMT (through an agent on a Windows machine) and market data from
Tushare, keeps both in a Parquet store, cleans and cross-checks them, and runs backtests on them.
This directory holds TLA+ models of these parts, the TLC runs that check them, and proofs about the
quote sequence, the subscriptions in front of it, its delivery to the platform, the store, both
synchronisations, and the backtest.

## The system

| Component | State it keeps | Operations | Talks to |
| --- | --- | --- | --- |
| `qmt_agent/quote_sequence.py` | a ring of numbered quotes, `_next_seq`, `_size`, one lock with a condition | `append`, `read` (long poll), `status` | callbacks append, HTTP worker threads read |
| `qmt_agent/subscription_callback.py` | per subscription: pending, active or closed, and the pushes held back | `__call__`, `activate`, `suspend`, `close` | XtData's threads call it, the service drives it |
| `qmt_agent/service.py` | subscriptions, latest-value caches, two operation locks, two cache locks | subscribe, unsubscribe, close, status, reads | gateway, gates, sequence |
| `qmt_agent/gateway.py` | one call lock round xtquant | subscribe, unsubscribe, downloads, queries | xtquant |
| `qmt_agent/api.py`, `windows_launcher.py` | none | HTTP routes, start and stop | the service |
| `qmt_protocol` | none | checked message classes | agent and receiver |
| `qmt_receiver/receiver.py`, `client.py` | `_next_seq` | `receive`, probing after 416 | the agent over HTTP, the storage |
| `qmt_receiver/storage.py`, `sync.py` | two stores, completion marks per code | realtime appends, history synchronisation | the Parquet store, the agent |
| `parquet_store/store.py` | per partition: buffer, lock, manifest, files; per table: its configuration | `append`, `flush`, `read`, `replace_partition`, `compact_*`, `update_schema`, `close` | file system |
| `tushare_data` | completion ranges per data set, rate and slot limits | full, selected and incremental synchronisation | Tushare, the Parquet store |
| `data_cleaning` | a repair's journal and its backups | `detect`, `repair`, `rollback` | the store's files, the synchronisation |
| `data_crosscheck` | none | comparison of two sources | the stores |
| `market_data` | a catalog of manifests | point-in-time reads for strategies | the stores' files |
| `backtest` | portfolio, orders, corporate actions, the event queue | a session-by-session simulation | market data, a strategy |
| `strategies`, `models`, `fpro_common` | none | formulas, data classes, time | everyone |

What is hard about it:

* **Threads.** XtData's callbacks, HTTP workers, and the thread pool of a synchronisation share
  the ring, the caches and the store's buffers. Locks are fine-grained and nested, and several
  operations release one between reading and acting.
* **Failure in the middle.** xtquant refuses the third of five subscriptions; a manifest cannot be
  written; a queue refuses an event after its batch was stored; the machine stops.
* **Order.** Quotes pushed before their subscription is confirmed or after it was cancelled;
  duplicates in a store where the later commit wins and the clock may stand still.
* **Overrun and restart.** The ring overwrites what a slow receiver has not read, and a restarted
  agent numbers from 1 again.
* **Time in the data.** A reader may only know what was known at an instant, although rows are revised,
  announced late, and dated before they were published; a checkpoint vouches for days that were
  fetched while they were still under way.
* **Long legal sequences.** A backtest's position goes through fills, the T+1 rule, entitlements,
  stock dividends and delisting.

What makes each part correct is listed with its module below; `PROJECT.json` lists the hazards with
their lines and the properties that watch them.

## The modules

```
QuoteWindow  <-- implemented by --  QuoteSequence      (QuoteProofs: for every constant)
     ^
     |  the agent inside
QuoteDelivery                                          (QuoteProofs; QuoteBounds has the constants of both)

MarketService    (the callbacks in front of the sequence)  (MarketProofs)

PartitionTable  <-- implemented by --  ParquetStore    (ParquetStoreProofs, OperatorProofs)

TushareSync  -- uses -->  DateRanges                      (TushareSyncProofs, OperatorProofs)

Portfolio  <-- extended by --  Broker  <-- extended by --  Backtest      (BacktestProofs)

SecurityCodes  <-- extended by --  PointInTime  <-- extended by --  MarketReader  (MarketProofs)
                                        ^     the same queries, as instances
                    DateRanges  <--  QmtSync               (QmtSyncProofs, OperatorProofs)
                    DateRanges  <--  Repair  -- extends -->  Detector      (RepairProofs, OperatorProofs)
```

### QuoteWindow and QuoteSequence: the numbered quotes

`QuoteWindow` says what the agent promises: consecutive numbers, the last `Capacity` quotes kept,
and for a request a run of consecutive quotes, an empty answer, or the bounds (HTTP 416), all as of
one instant. `QuoteSequence` is the code: `records` with the slot `(seq - 1) % Capacity`, `ringSeq` (the code's
`_next_seq`, a name that the receiver has, too), `size`, and for each reader the place in `read` where it is. Whatever is done under the lock is one
step; a reader gives the lock up in `Condition.wait`, so `Wait`, the wake-up by `AppendBatch`
(`notify_all`), `TimeOut` and `ReturnRead` are steps of their own. `Tick` is the deadline passing.

* `RingCurrent`: each number within the bounds is in its slot, so the `RuntimeError` of `read` is
  never raised. `NoLostWakeup`: nobody sleeps on a number that has come. `EveryReadReturns`: each
  read ends, also if pushes or their bursts never stop. `ImplementsWindow`: refinement.

### MarketService: subscriptions, callbacks, caches

Two kinds of thread. Requests (`worker`) go through the operation lock, the gate, the gateway's call
lock and the caches one name after the other, and may fail at the gateway at each. XtData's threads
(`caller`) carry one push each and stop at the gate's lock, which is held through the append to the
sequence and the later change of the cache. Pushes come while the subscribe call has not returned
and after the unsubscribe call was accepted. `tape` is, for each gate, what it has put on the sequence,
in order; what other gates put in between is of no matter to a property and kept apart.

* `QuotesAgree`: of one subscription, pushes reach the sequence in the order they took the gate's
  lock, whether held back or not (`ArrivalOrder`), and the cache shows what the sequence has last for
  the subscription (`CacheIsLatest`). `NothingAfterClose`: no step of a push adds to the sequence or
  the caches once its gate is closed. `SettledWhenUnlocked`: with no request under way the
  subscriptions listed, the active gates and XtData's feed agree, after any failure, and the feed
  itself stays within the limit (`WithinStockLimit`).

### QuoteDelivery: the receiver

The agent is `QuoteWindow` itself, so that everything the receiver sees is what the ring has been
shown to give. `receive` is the actions from `Receive` to `Return`: a request, a 416, probing with
growing offsets, storing ticks and then bars, queueing, `_next_seq`. The agent pushes and overwrites
in between, restarts with an empty window (a request under way then fails, an answer already received stays), calls fail, the platform stops in good order or dies.

* `DeliveredOnce`: a quote is given to the platform once and in order (`ReturnedOnceInOrder`), and what
  is given has been appended to the store first (`ReturnedIsStored`). `NothingPassedOver`: all
  that lies below `next_seq`, and only that, has been returned or reported as skipped, as long as the agent
  has not restarted.
  `CatchesUp`: probing ends.
* What happens after an agent's restart is not the subject of `NothingPassedOver`: `receive` does not
  compare instance ids, and quotes of the new incarnation that lie below the old `next_seq` are
  passed over without a report. The documents do not promise otherwise.
* Two sentences of `docs/qmt_receiver.md` are stronger than the code, and the properties say only what
  the code does: `next_seq` advances when rows are in the store's buffer, not on disk (line 40, against
  `receiver.py:98`), and probing starts one above the oldest quote, so the oldest that is still kept may
  be skipped (line 30, against `receiver.py:128`).

### PartitionTable and ParquetStore: the store

`PartitionTable`: a partition's visible rows and its buffered rows; a commit appends the sorted
buffer, a replacement or a compaction changes the visible rows at once, a crash loses buffers.
`ParquetStore` is one table of the code with its threads: a call is a list of tasks, each of which
takes one partition's lock at most, and a commit is `WriteFiles`, `ReplaceManifest`, `Cleanup`,
`Finish`, with `CommitFails`, `CleanupFails` and `Crash` possible at each. `time_ns()` is any value
of `Clock`, in any order. `CallWrite` is `TushareDataStore.write`. `Arrangement` is `sorted()` with a key, as
the arrangement of a finite set in an order, which both modules sort by.

* `DiskIsReadable`: each file that a manifest names is there (`ManifestFilesExist`), and a compaction may
  be skipped because of a signature only where nothing is left to do (`SignedHasUniqueKeys`).
  `WrittenIsCommitted` is what the synchronisation's completion marks rely on; `ImplementsTable` is
  the refinement.
* An append between the two halves of `update_schema` leaves rows of the old schema in the buffer, which
  the comment at `store.py:168` excludes only for the rows that were there before; the model takes
  that step and claims nothing against it.

### DateRanges and TushareSync: backfills and checkpoints

`DateRanges` is the arithmetic of closed date ranges: merging, what is missing of a request, splitting
into chunks, joining days. `TushareSync` is the process that runs `sync_all`, `sync_datasets` or
`sync_inc` any number of times. Upstream has a version for every cell (a day, and a part of the market
that one request covers); a dataset's kind says which requests its function makes and what it writes
when. A call is a list of stages (the calendar first), a stage is a set of threads (`job`), a thread
makes calls of its function, each a sequence of rounds: requests (`Fetch`), then `AppendRows`,
`FlushPartition` once per partition, `Wrote`. `Mark` replaces the checkpoint file. A thread of a traded
dataset first fetches the calendar days it finds missing, so several threads may append to and flush
the same table; its requests are the open days it then reads from the store. Any request, commit or
mark may fail (the thread's error is raised when the pool has ended), the process may die, and a
process that failed may close its store, flushing what is buffered, or start another call with the
buffers as they are.

* `MarkedIsStored`: what upstream had of a marked day when the call began is on disk (the ghost
  `pledged`). It depends on the calendar: a day that is not known to be open is marked without a
  request, and rightly so only while upstream publishes a day's calendar before its data (`Publish`).
* `RangesExact`: the checkpoint file means exactly the days ever marked (the ghost `covered`), in
  canonical form, and the algorithm for what is missing returns the complement for every request.
* `AsksOnlyForMissing`, `SuccessMeansFetched` (an error in any thread is an error of the call; `force`
  and the windows of `sync_inc` really fetch anew), `Completes`.

The store's own atomicity is `ParquetStore`'s subject; here a commit is one step and a compaction, which
changes no version, none. A request with its retries is one step. Data published after a day was marked
are not looked for again without `force` or `sync_inc`, as `docs/tushare_data.md` says.

### Portfolio, Broker and Backtest: the simulation

`Portfolio` is the account: cash, and per symbol all shares, those that may be sold and those of a
stock dividend that are not listed yet; per corporate action the shares entitled, the dividend owed
and the shares pending. Each method is an action; the errors it raises are predicates (`FillRefused`,
`ListedTooMany`, `Unpriced`), and an error ends the run, as nothing in the engine catches one.
`Broker` is the simulated broker and what `orders.py` and `trading_rules.py` compute for it.
`match_bar` is `TakeOrders`, a `TryOrder` for each order (sells first) with the running cash and
sellable shares, and `EndMatching`; afterwards the engine applies the fills one by one (`Fill`).
`Backtest` is the engine: `StartSession`, the morning's agenda of corporate actions (captures from
before the run, ex days, pay days, listing days, in the code's order), `CheckLifecycles`,
`MarketEvent` to `Mark` for each auction or bar, the strategy's calls in between, the evening's
captures, and the end. The program is sequential; what varies are the bars that exist, the corporate
actions and their dates, the delistings and everything a strategy may do and when.

* `AccountNeverRefuses`: the account, which checks again, agrees with every fill of the broker, and
  no dividend or listing is booked twice or beyond what is pending. `SoldOut`: a target of 0 takes a
  whole sellable position, through order sizes, splitting and the odd-lot rule. `PlannedAreAcceptable`:
  what `create_orders` makes, `submit` takes. `OneOutcome`: an order waits or has one outcome.
  `NoFillAcrossExDay`: no order outlives an ex day of its symbol.
* `Accounted`: `SharesAccounted`, `ListingAccounted` and `CashAccounted` explain the account from outside: from the
  broker's fills and, for each corporate action, the shares held at the close of its record day (the
  ghost `closes`, or of the last session before a holiday). Whatever happened in between (a sale, a
  delisting, a second action, a listing after the run), an entitlement counts once, on that number.
* `TPlusOne` says it exactly: what may be sold is what is held without this session's purchases (the
  ghost `bought`) and without unlisted dividend shares.

A fee is one amount, a share of the notional with a minimum, for both sides; money is in whole units,
so the code's `1e-9` tolerances have no counterpart. The board, hence the quantity rule, is one for
all symbols of an instance. An action whose record day is outside the run is not loaded by the code
and not in the model; its ex day inside the run therefore cancels no order.

### SecurityCodes, PointInTime and MarketReader: reading as of an instant

`SecurityCodes` is `identity.py`: which codes a security has been traded under, and from when to when.
`PointInTime` has the views of the catalog (`Views`: every row under the first code of its security), the request as
the connection maps it (`Mapping`), and every query of both adapters as an operator of the views, the instant and the
request. A query is gated (`Fetch`: a table is unavailable, or two codes of one security contradict each other), chooses rows by what
was known at the instant, and computes. A contradiction is raised by the check inside the view (`QUALIFY`,
`catalog.py:190`), and only over the rows that the query reaches (`Conflict`). A condition on columns of the key the check groups by,
which are the dates and the adjustment, is applied below it; one on other columns, a comparison with a session that
is looked up, and the choice of symbols are applied above it, so that a conflict of another
stock is raised too. That is how the optimizer of DuckDB treats a filter above a window;
`src/tests/backtest/integration/test_security_identity.py:431` relies on it for the dates, and no property here relies on the symbols
being above. Instants are a day and one of eight times, so that the code's boundaries (09:25, 09:30, 15:00,
16:05, 17:05, the next session's 09:25) fall between different ones; a price is a fraction, so that a quotient
of factors and a product of divisors can be compared exactly. `MarketReader` is the view a strategy
gets: each reader method checks its range, maps the symbols, asks one source, and shows each row
under the code in force (`Result`), at most `MaxRows` of them. Its one action, `Store`, is a row that arrives or
is revised, followed by `DataCatalog.refresh`.

* `AnswersStand`: a row that becomes visible after an instant changes no answer as of that instant, for
  every query; what is visible when is written down once more and independently of the queries, from the
  table in the documents (`VisibleAt`). This is the absence of look-ahead, and the reason why a
  backtest can be repeated when the data have grown. It includes rows that contradict those of another code of the
  security: a later conflict must not break an earlier query (`test_future_alias_conflicts_do_not_break_earlier_pit_queries`,
  `docs/backtest_issues.md:282`). Two things are excepted. A query that looks up sessions is `unavailable` while the calendar has no next
  one. And three queries check more than they show (`ChecksAhead`, each needed in run `market_read`): `stocks` checks all
  rows of the master data, `moneyflow` those whose session is still to come, and
  `current` in the course of the day the daily rows, in which the close is already there; a conflict that a later row brings is
  raised by these although the answer does not depend on it. The two views of the account, which may see
  the future, are excepted. One entry of `VisibleAt` is not what the documents say: `docs/market_data.md:72` makes a
  QMT tick visible from its `received_at`, but of two ticks of one event time compaction keeps the one received last
  (`TABLE_DEDUPLICATE_PREFER_BY`, `qmt_receiver/schemas.py:199`), so `current` as of an instant between them has
  the first tick before the compaction and not after it. `VisibleAt` takes the earlier time of the two.
* `NothingForgotten`: what a view has shown, a later one shows in the same or a later version, for requests of a
  whole range (`lasting`; the last three bars are other ones tomorrow). A dividend shows all its versions, so the date of
  an announcement identifies one.
* `SourcesAgree`: forward-adjusted bars of Tushare and of QMT give the same returns, and the same prices if
  anchored on the same day, although one divides cumulative factors and the other multiplies single ones.
* `AliasesAgree`: which code of a security is named by the request or by the rows changes no answer, not even one that
  is refused because two aliases contradict each other; and what is shown is a code of that day.
* `NotTradingWhileSuspended`: through overlapping suspensions and resumptions of one day, and only when something is
  known of the day.

### QmtSync: the history of QMT

One process that calls `sync_all` or one of its parts: `NextDataset` reads the clock and the checkpoints
once and makes the batches (`PendingBatches`, on `DateRanges`), then for each batch `Download`, a query,
`Flush` day by day, `Compact` day by day, and `MarkCode` code by code. Between any two of them it may turn
midnight (`NextDay`); a request may fail or the process may die.

What a call notes as complete is what the response names, not what it contains. XtData may leave out codes, which are then not
noted; but it may also name a code and leave out some or all of its bars, and the code is noted all the same
(`sync.py:131`, `:180`). Of factors all codes of the batch are noted (`sync.py:231`), also those the agent drops because XtData
has no table for them (`gateway.py:379`). The documents say so of bars: "成功响应不是逐根完整性证明" (`docs/qmt_receiver.md:124`; AUD-005 in
`docs/unverified_assumptions.md:90`). Rows lost in this way stay lost until a forced call asks for them again. The model
has all of it: `QueryHistory` and `QueryFactors` may find any part of what there is, and the ghost `missed` has the keys that were
noted by an answer without their rows. The properties say that this is the only way in which anything is missing under a note.

* `MarkedIsFinal`: a day that is noted as complete is over, its bar is there unless the answer it was noted for did not
  have it, and what is read of it is final; a snapshot of the running day is never taken for it, also if midnight
  passes during the call.
* `MarkedOnce`: what is noted is there once. A forced call that breaks off while it writes rows anew leaves
  duplicates under the older note until it is repeated (the ghost `forced`); and calls that break off one after the other
  leave duplicates that nothing compacts if the answer that is noted in the end lacks the row (`missed`).
* `AdjustedIsComplete` composes it with `PointInTime`: bars that the reader serves as adjusted, on the
  strength of the noted ranges, lack no factor but those that answers did not have. It holds as long as factors are asked for up to today only
  (`AsksAhead = FALSE`); run `qmt_factors` shows what happens otherwise (see `PROJECT.json`, findings).
* `CatchesUp`: a range asked for again and again is noted as complete once its days are over, and its bars are there but
  those that the answers did not have; a range that is asked for by a forced call again and again has all its bars in the end.

### Detector and Repair: cleaning, and what it lets through

`Detector` is what `detect` reports: flaws of manifests and files, the checks of a table's rows, and the checks
across partitions and tables (the days of the calendar, bars on closed days and open days without bars,
bars without factors). Six tables stand for all: the calendar, bars, factors, suspensions, the income statement
and the indicators, one at least of each way the checks and the refetches treat a table. `Repair`
is the operator's commands on a lake of partitions: `Detect` records a report and the quality status; `Begin` is
`repair`, which then takes its steps (`Backup`, `Patch`, `Round`, `BackUpRange`, `RemoveTree`, `Fetch`,
`Write`, `Mark`, `Redetect`, `Settle`) and restores its backups on an error (`Raise`); `Rollback`; `Crash` at
any step leaves the journal `PREPARED`. A repair writes through a `TushareDataStore` that is closed when it ends
(`__main__.py:70`): `Raise` and `Write` leave in `store` the rows of a failed flush, which the store's buffers keep
(`store.py:371`), and once the repair is undone `Close` flushes them partition by partition (`storage.py:140`,
`store.py:284`), without compacting, up to the first flush that fails. A row that is flushed on top of one with its key is
a `Copy` of it, which a detection counts as a duplicate and the next write of the partition compacts. `Sync` is the
ordinary synchronisation between the commands. A reader
that refreshes its catalog loads what `Available` lets it; that is a function of the state, so the
reader has no action.

* `NothingLost`: of each path a repair has changed, the journal has the content from before it, over all
  rounds. `RestoresItsOwn`: when the command of an undone repair has ended, its paths are as they were, or
  have rows more where the store flushed late, and a rollback begins only
  where nothing has changed since. Both leave out the calendar days that a refetch of a market table
  completes on its way (`sync.py:981`), which the repair does not back up; and `RestoresItsOwn` leaves out
  what `Readded` names, and lets `late` paths have more rows (see below).
* `ServedWasChecked`: once the status is there, what is served is free of errors that a detection of everything
  would find, whatever is under way. `UsableAnswers` composes it with `PointInTime`: served bars have a
  positive adjusted price, no report is seen before its period has ended, and a suspended stock does
  not trade.
* Run `quality_gate`: a detection of everything up to an earlier day opens the gate for later days, too.

What the model shows of the code, and no property forbids: a crash between deleting a broken partition of
suspensions and fetching it again leaves its checkpoint complete, and the reader says "trading"
(`repair.py:506`; `UsableAnswers` excepts journals that are still `PREPARED`); a manifest without a list of files makes
`detect` itself fail (`DetectFails`); one calendar manifest that is no JSON switches the check for missing days
off (`detector.py:1721`); an issue to be patched in a table with a broken manifest makes every repair
fail (`unlisted` in `PatchSteps`), as does a row that is to be both deleted and changed, and a broken calendar
partition beside an issue of a market table on the same day. And an undone repair need not leave
the data as they were: when a flush fails (an error of the file system, or of a partition whose manifest cannot be read),
the rows that were to be written are flushed by the store's `close` after `restore`, on top of the restored
partitions, while the journal says `ROLLED_BACK`, for which `docs/data_cleaning.md:68` and `:105` promise the state before the
repair. What stood there is still there (`AsBefore` requires it), the flushed rows are upstream's own, and
the fingerprint has changed, so readers are served nothing of it before the next detection of everything
(`ServedWasChecked`). Without the clause for `late` paths, run `repair` violates `RestoresItsOwn` by exactly this.

Two things the proofs brought up, of which the instances have none:

* *A rollback may leave a partition that was not there before.* A refetch of a table that is backed up as a whole
  (`FullSnapshot`) adds a partition. If the detection after it finds in that partition a row that can be patched,
  the patches at the end of `repair` back the partition up as one that exists (`repair.py:302`, `:385`), because
  it has no entry yet. `restore` then removes it, as it is not in `_dataset_partitions_before`, and puts it back
  from that entry (`repair.py:347`), with the refetched rows. The docstrings promise to restore what was there
  (`repair.py:107`, `:174`). The rows put back are upstream's, so the quality gate does not open for an error by this;
  what is wrong is that the repair is not undone. `Readded` is exactly these paths; everything else is restored.
* *A calendar row outside its partition.* `_market_open_dates` (`sync.py:999`) takes the days from the rows, not from the partitions.
  Were a row of another day in a partition of the calendar, a refetch would write that day's partition of the
  market table, which is in no range and has no backup. The store files each row by its own day (`storage.py:53`), so
  `WorldsAssumption` has calendars in place (`InPlace`), and the proof shows that no step, no patch among them,
  moves a row out.

## The runs

| Run | Bounds | Why they are enough |
| --- | --- | --- |
| `quote_sequence` | 2 readers, 2 slots, batches of up to 3, numbers to 5, requests to 6 | a batch overruns the ring, wraps inside a batch, both readers wait for one number, requests lie below, in, at the end of and above the window |
| `market_service` | 1 market, 2 stocks, limit 1, 2 periods, 2 requests, 2 pushes, 2 gates | two requests compete for the limit and for the lock, one name is cancelled and subscribed anew, two pushes of one subscription race |
| `quote_delivery` | ring of 2, batches of 2, pushes of up to 3, numbers to 5, 2 incarnations, 1 fault | each candidate can be overtaken at least once, a batch has both kinds, the fault can be at any step |
| `parquet_store` | 2 partitions, 2 threads, 3 rows (two with one key), 3 calls, 1 fault, 2 schemas | two calls compete for a partition while a third is prepared; flush, replacement and compaction meet in each order |
| `tushare_sync` | 3 days, 2 exchanges, 1 or 2 datasets beside the calendar in 4 combinations, chunks of 2 or 3 days, 2 publications, 1 fault | two threads fetch the missing calendar of one exchange at the same time; a dataset has two chunks, so that a fault leaves one marked; a marked day in the middle leaves two missing ranges; windows of one and two open days |
| `backtest_actions` | 1 symbol, 2 actions of 8 kinds, sessions 2, 4, 5, 6 of 6 days, one bar a day, 2 calls of the strategy | two actions overlap, agree, or conflict; record days are holidays or precede the first session; no ex day, or one on or before the record day; listing after the run; delisting in between; buying before and selling after the record day, the ex day or the listing |
| `backtest_trading` | 2 symbols, 2 sessions of an auction and two bars, 4 kinds of bar, 2 calls, 3 target portfolios, rule 2/2/4 | orders of both sides compete for the cash of one batch, sales release cash, a purchase is partly filled by cash or by capacity and leaves an odd lot, a position is above the maximum of one order |
| `market_read` | 5 days with a holiday, 8 times a day, 14 instants, 7 worlds of up to 11 changes and 9 requests, `MaxRows` 3 | each world has the tables that interact, rows on both sides of a holiday, corrections and revisions of each kind, answers over the limit, a renamed security with rows under both codes that agree or contradict each other (a bar, before and after its day is ready; the flow of a day before and after the next session; the listing), and one dataset that is not available |
| `qmt_sync` | 2 codes, 3 days of which the last two pass, 4 calls, 1 fault | a day is running, over, or not traded; two ranges are missing with different codes; one call follows another, forced or not; a factor is announced on its day; an answer that leaves out rows of a code it names counts as a fault, so one call has one, and a later call, forced or not, meets what it left |
| `repair` | 3 days with a holiday, 4 damaged lakes, 2 scopes, 2 rounds, 2 repairs, 1 synchronisation, 1 fault | each flaw and each way of repairing occurs; a second repair follows one that is committed, undone or broken off; one round's fetch brings a new error for the next; a failed flush leaves rows that are flushed late, with and without a row of their key below them |
| `qmt_factors`, `quality_gate` | the instances of `qmt_sync` and `repair`, with a range that ends after today, and a scope that ends before the last day | the violation needs one call, or one detection |

Constants named `Max...` only bound the instance, except `MaxRows` and the limit on stocks, which are the
code's. Threads
are symmetric in `market_service` and `parquet_store`, which check no liveness. Deadlock is checked
in every passing run but `market_read`, where all rows may have come; the models stop only where a bound is
reached, by an explicit `Stopped` step or by pushes and calls that are always possible; a backtest stops
when it has finished or failed (`Ended`).

Fairness. `QuoteSequence`: a reader that can go on does (the lock is free between any two steps and
the code holds it for a bounded time), and a deadline passes; pushes need not come. `QuoteDelivery`:
the platform keeps calling `receive` (its loop), and the agent answers a request it has got; pushes
need not come and faults need not stop but are bounded. `TushareSync`: a call in progress goes on (every
request returns or times out, see `_REQUEST_TIMEOUT_SECONDS`, and threads take finitely many steps), and
the operator repeats the whole backfill (strongly fair, for other calls may come between); faults are
bounded, the other calls need not come. `QmtSync`: the days go on, a call in progress goes on (its requests
time out, its loops are finite), each call is made again and again (the operator's schedule, strongly fair
because other calls come between), and XtData does not leave codes or rows out of each answer to the same call for ever. Nothing else is assumed fair; the backtest is a loop over a finite
list and has no liveness property.

## What is proved

`QuoteProofs` proves of the ring, for every capacity, every set of readers, any batches and any requests:

1. `RingInvariance`: `RingSpec => []RingInv`. `RingCurrent` alone is not inductive: one needs that `size` is the
   smaller of `Capacity` and the numbers given out, and that a slot within the bounds is the only one
   with its number (lemmas on `(seq - 1) % Capacity`).
2. `RingTypeCorrect`, `RingIsCurrent`, `NoWakeupLost` follow from it.
3. `WindowRefinement`: `RingSpec => Window!Spec`, with the ring's content by number as the window. Each step
   that changes a slot, a request or a reply maps to a step of the window; waiting maps to nothing.

The assumptions are the constants' types, as the code's own argument checks give them.

It proves of the delivery, for every capacity, batch size and `start_seq`, and for any number of failed
calls, restarts of the agent and crashes of the platform:

1. `Invariance`: `Spec => []IndInv`. What has been returned says nothing of the request and the answer under
   way, so each gets a part of its own. `AgentInv`: the window has each quote under its number, and what is
   being stored is an answer with records or none. `AnswerInv`: an answer is right about the incarnation it
   came from, also after a restart. `OrderInv`, which is the heart of it: once something of an incarnation is
   known, every request to it and every answer from it lies at or above `next_seq`; a probe does so because
   a bounds answer with `next_seq <= next` puts the oldest quote above `next_seq`. `PassedInv`: an empty
   answer only comes to the first request, whose number `next_seq` keeps. `StoredInv`: the rows of an
   answer are in the store table by table as the call proceeds. One lemma per action; `AnswerToIsGood` is
   what all of them need of the agent.
2. `QuotesDeliveredOnce` (`DeliveredOnce`, the types with it) and `NoQuotePassedOver` follow.

The assumptions are `CapacityAssumption` and `BoundsAssumption`: positive bounds and a `start_seq` within them.

`MarketProofs` proves of `MarketService`, for any markets and stocks, any periods and limit, and any number of
HTTP workers, callback threads, pushes and subscriptions:

1. `Invariance`: `Spec => []IndInv`. None of the three properties is inductive: what a client reads
   depends on where each thread is between two locks. The invariant says it for each thread.
   `OpLocks` and `WorkerOps`: which operation lock a worker holds at its step and what it has still to
   do. `WorkedGates`: the gate a worker is busy with is its own by the operation lock of the gate's kind,
   pending, and registered and fed as far as the call has come. `SettledGates`: a gate nobody works on is
   registered, fed and active, or closed. `CachingGates`: a callback thread between the sequence and the
   cache keeps its gate locked and open, so nobody can suspend or close it. `CacheFollows`: the cache
   is behind the sequence only while such a thread is on its way. `LimitKept`: the stocks that are fed and
   those a subscribe call has still to ask for are together within the limit, which is what the check
   before the first of them must ensure for all that follow. One lemma per action; the lemmas
   `OffGate`, `OnGate` and `GateChange` say what a step of one worker leaves alone.
2. `Agreement` (`QuotesAgree`), `Settlement` (`SettledWhenUnlocked`) and the action property
   `NothingLate` (`NothingAfterClose`) follow from it.

The assumptions are that names sort (`NamesAssumption`), that stocks are finitely many, that the limit is
positive (the configuration's check), and that threads and `None` can be told apart.

`MarketProofs` proves of `MarketReader`, for any tables, histories of codes, requests and instants:

1. What the lookups of `SecurityCodes` return in a history that the constructor accepts: all codes of a security have its
   one sid (`SidIs`: no code has two) and its one first code (`CanonicalIs`), mapping twice is mapping once
   (`CanonicalTwice`), and `CodeAt` is in force (`CodeAtIs`).
2. `TradingIsKnown`: `ReaderSpec => []NotTradingWhileSuspended`. `TradingIs` says it of `SuspensionStatus` for any rows of a
   day: an interval under way decides before the order of events is looked at, and of the events that began last not one may say
   suspended. `SuspensionsAre`, `StatusIs` and `ResultIs` take it through the query, the join of three tables
   and the codes of the day; `SuspendedOnIs` says that the rows a view has of a stock are the stored ones of all its codes.
3. `CodesDoNotMatter`: `ReaderSpec => []AliasesAgree`. A view and a mapped request are all that an answer depends on,
   and they do not know by which of its codes a security was named (`RelabelledIs`, `RenamedIs`), conflicts included. Every
   answer but those on the calendar and for the account is made by `Result` (`ReadIsResult`), so its rows are under a code of the day.
4. `NothingFromTheFuture`: `ReaderSpec => AnswersStand`, the action property, in three steps that know nothing of each other.
   What a query looks at: `Shows` says for each table which of its rows an instant lets through (the bar of a day that is ready, a
   statement announced before the last session), and `Known` what is left of one (a class without its end, a plan without its
   payment). If two sets of views are `Alike`, that is what they show is the same and so are the opens of days,
   every query answers the same, or one of the answers is withheld for one of the query's reasons, `unavailable` or a conflict it
   checks ahead (`ReadStands`, one lemma per query). The first is real, too: a query of statements is refused as long as the calendar has
   no session after an announcement, and the calendar may grow. What storing does: a row that is hidden until later, and has replaced a hidden
   one or one of which the same is known, leaves what a table shows as it was (`StoreAlike`, with `HidesChange`). That a row replaces
   one at most is not obvious from the action: it needs the invariant that no key is stored twice (`StoredOnce`).
   What `VisibleAt` means: until then a row is hidden in that sense, for each table by the rule of that
   table (`HiddenUntil`). The views put rows of aliases under one code and can have two rows of one key, so nothing in the proof
   takes a row of a view to be the only one of its key; the rows a check reaches are a function of what the instant lets
   through, for every query but those of `ChecksAhead`.
5. `NothingIsForgotten`: `ReaderSpec => [](~Tied(db) => NothingForgotten)`. The views of rows that are stored once are `Orderly`
   (`OrderlyViews`): rows are under the first code of their security, no two versions tie, and without aliases a bar is there once
   for its day; with aliases the check of the view has seen to that when an answer is given (`CheckedOnce`). In
   such views what a query chooses from only grows from one instant to a later one (`Grows`, one lemma per query): a bar or a metric that was
   ready stays ready, a session that has come after an announcement has come for good (`SessionsInOrder`). Where the newest
   version is chosen (`NewestGrow`), the rank is a total order that begins with the date of the announcement (`BeforeOrders`,
   `HighestRank`), so more versions have a newest one too, and it was announced no earlier; a filter on the kind of company is
   harmless because it is part of the group, which is what the mutant of the property takes away. `ResultRemembers` says that the codes
   of different days do not hide that a row is the same. `Tied` is the premise that two rows differ in something that versions are
   ordered by: without it `row_number()` may take either, and the code's choice is not determined. Rows of two aliases
   can tie, and of one code two plans of a dividend that differ only in the announcement of an implementation, which is not
   shown of a plan. No state of `market_read` has such rows, so there the premise always holds.

The assumptions are `InstantsAssumption`, `MissingAssumption` (NULL comes after every date and flag in a descending order) and
`WorldsAssumption`: instants and the days and times in histories and rows are numbers,
the history is one that the constructor accepts, a row has the fields of its key and those it is chosen by, and the tables that a run
starts with are finite and hold no key twice.

`BacktestProofs` proves, for every calendar, every set of symbols and corporate actions, any bars,
orders, target portfolios, fees, and every quantity rule whose minimum and maximum are multiples of its step:

1. `Invariance`: `Spec => []IndInv`, in three parts. `Account` adds to the types that `TPlusOne`
   holds and that nothing has been bought in the morning, which is what makes `unlock_t1` right.
   `Books` adds that waiting orders and those that are being tried are disjoint, that the latter are
   only there during matching, and that the fills made are well formed. `Engine` adds that the gaps of
   a target portfolio are typed. One lemma per action.
2. `TypeCorrect` (what `assert_valid` checks at run time never fails), `TPlusOneHolds`,
   `OrdersEndOnce`, and `PlannedAccepted`, which rests on `RoundedDown`: rounding a quantity down is
   idempotent and stays within the rule.

The assumptions are the named ASSUMEs of the three modules: types, a non-empty calendar, and the
shape of the quantity rule, as each of the four rules in `trading_rules.py` has it.

Its second half adds what the broker and the account owe each other, again for any calendar,
actions, bars, orders and fees:

1. `FillInvariance`: `Spec => []JointInv`, in four more parts.
   `OrdersInv`: an order that waits on or after an ex day was made on or after it, unless the agenda of
   this morning still has its cancellation; of actions that agree only one is loaded, and the cancellation
   of that one stands for all. `DividendsInv`: a dividend is unconfirmed until its own item of the
   agenda confirms it, so no item is done twice. `ListingInv`: the shares of the dividends that are not listed
   yet can be laid side by side within `listing`, which says that their sum fits without a sum.
   `RunningInv`: from the account's cash and shares one can go fill by fill through the fills
   not yet applied, never below zero, and end at the running cash and shares `match_bar` counts with.
2. `ExDaysSeparateOrders` (`NoFillAcrossExDay`) and `NeverRefused` (`AccountNeverRefuses`) follow.

Its third part is the account as a whole, again for any calendar, actions, delistings and orders:

1. `KnownThroughout`: `Spec => []AccountedInv`, in five more parts. `Accounted` speaks of the moments when a
   strategy can look, with nothing on the agenda and no fill on its way; `Known` says the same of every step. There
   shares and cash are the fills applied so far (`Applied`; `FillsLeft` says that the others are the last of all fills)
   and the dividends that are due and not on the agenda any more (`StockGiven`, `Unlisted`, `CashGiven`,
   `CashPaid`). A receivable is there exactly between being owed and paid, and so are dividend shares that
   wait for their listing (`Owed`, `Coming`). `InOrder`: the agenda is an end of the morning in its order, so an
   action is confirmed before it is paid or listed, also where both are on one day. `Captured`: once an
   action's record day has been looked at, its entitlement is what was held at the close of that day, or of the last session
   before, and if that is not zero the action is valid (`Noted`); until then there is none, and before the
   first session nothing is held.
   `Gone`: after the lifecycles are checked a delisted symbol is not held and trades no more, so its
   share of the sums may be dropped.
2. The sums are folds over finite sets, taken in an order that is left open. `SumAdds` shows that every order
   gives the same: by induction over the subsets of a finite set (`SubsetInduction`, a smallest
   counterexample by `Cardinality`) there is a function that adds up one element after another
   (`SumsExist`), and the fold is that function. `SumSame` and `SumChanges` are what the steps use.
3. `EverythingAccounted` (`Accounted`) follows.

The proof corrected the property. A dividend used to count as confirmed from its ex day on, also where the
record day comes later; the code (`corporate_actions.py:274`) then has no entitlement yet. `Since` now asks that
the record day be over, and the run has an action of that kind.

Beyond the assumptions above these need that `None` is not a number, an error or a record of dividend shares
(`NoneAssumption`), that the corporate actions of a run are finitely many and that a delisting is a day
(`ActionsAssumption`).

Its fourth part is a position that the strategy gives up, for any quantity rule, bars, fees and other orders:

1. `LeavingThroughout`: `Spec => []SoldInv`, where `SoldInv` adds `LeavingInv` to the parts of
   `FillInvariance`. For a symbol whose target is 0, with all of it sellable and no order waiting, `Asked` holds
   until the market event: the sizes of the orders that wait and what is still to order add up to what is held. Each
   of these orders is of the maximum size but the last, after which nothing is left to order (`SellsIn`). While
   the broker matches the bar, the running number of shares is the sum over the orders still in the batch. The lowest id
   comes first, so an order is either of the maximum, which the rule allows because it is a multiple of the
   step (`MaximumValid`), or for all that is left, which `ValidQuantity` takes as a liquidation however odd it is.
   A sale pays for its fee if one share does (`FeePaid`). So each fills in full (`SoldInFull`), and `Leaves`
   follows the account fill by fill to 0.
2. `GivenUpIsSoldOut` (`SoldOut`) follows.

This is the only proof that needs the maximum to be a multiple of the step:
with another maximum, `RoundDown` would make `match_bar` fill less than a first order asks for, and the last would neither be
for all that is left nor of an allowed size.

`ParquetStoreProofs` proves, for any partitions and threads, any rows with any keys and preferences, every
buffer limit and file size, any clock (standing still or going back), any schemas, and any number of calls,
errors of the file system and crashes:

1. What the operators return. `OperatorProofs` shows that a finite set with a total order has exactly one
   arrangement, which is a permutation; so sorting and deduplicating keep what they must, each key survives
   deduplication once, the files of a plan hold the rows of its sequence, and reading a manifest to which
   one later file was added reads that file last (`ContentAppend`). `FlattenSeq` is unfolded along its last
   element only.
2. `Invariance`: `Spec => []StoreInv`. That a manifest's files are there does not survive a step by itself: a commit
   replaces the manifest by what its thread planned and wrote several steps before. `PlanInv` says
   what a thread that holds a lock is about to commit: the buffer as it is now, its task's rows, or what is
   now visible without repetitions. `WrittenFiles`: the files it has written hold that plan, and no manifest names
   them. `CommitInv`: a signature is only kept by a commit that brings nothing. `LockInv`, `ThreadInv`: a lock
   is held by exactly the thread that works on its partition. `NewInv`, `FreshInv`: no row is
   brought twice, so what is visible has a key twice only if the calls say so. `WriteInv`: each row that a write
   has left in memory still has a flush of its partition on that thread's list, also when another
   thread commits in between or a commit fails. One lemma per action; the lemmas before them say what a step under
   one lock leaves to the other threads.
3. `DiskAlwaysReadable` (`DiskIsReadable`) and `WritesCommitted` (`WrittenIsCommitted`) follow.
4. `StoreImplementsTable`: `Spec => Table!Spec`. The commit point is `ReplaceManifest`; from there until
   `Finish` drops it the buffer counts as empty (`Superseded`). Every other step but an append and a crash
   leaves what readers see as it was.

The assumptions are the three named ASSUMEs of `ParquetStore`: numbers are numbers and limits positive (as
the constructor checks), every row has a key, a preference and a partition, and `None` can be told
apart.

`OperatorProofs` also proves what the arithmetic of ranges returns, for any ranges of any days: `MergeIs`
(merging neither adds nor drops a day, and leaves ranges in order with a gap between any two) and
`MissingIs` (what is missing of a request is exactly the days of it in no range, once each); and that the
chunks of a range cover it without a gap (`SplitIs`), and joining days into ranges loses none (`ContiguousIs`). The
algorithms are loops, here recursive functions. The induction is a smallest counterexample among
the natural numbers (`CountingUp`), and that a recursive function has the values its definition says
follows from `IterationExists`, as it counts up to the length of a sequence.

`QmtSyncProofs` proves, for any codes, bars, factors and reports of the vendor, any calls (datasets twice,
ranges that overlap, lie ahead or are empty, forced or not), any failures, gaps, crashes and midnights:

1. `Invariance`: `Spec => []SyncInv`. That a noted day is final cannot be seen from the files: a call reads the
   clock once, and writes and notes many steps and perhaps days later. `CallOK`: every batch of a dataset of bars ends
   before today, which stays true as days pass. `CacheOK`, `RowsOK`: therefore what is cached and read of a batch is
   final, whenever it was downloaded. `NotedOK`: a code that will be noted has all its traded days among the
   rows, or they are among what the answer lacks (`short`, which becomes `missed`). `Progress`: writing and compacting have come as far as the list of days says. `NothingTwice`:
   a call that is not forced writes nothing noted, as its batches are what `MissingIs` says is missing
   and no two have a day of one code in common; noting a batch leaves the others as they are (`MergeIs`).
2. `MarkedAlwaysFinal` (`MarkedIsFinal`) and `MarkedAlwaysOnce` (`MarkedOnce`) follow.
3. `FactorsThroughout`: `ASSUME ~AsksAhead PROVE Spec => [](SyncInv /\ FactorInv)`. `InForce`: a batch of factors ends
   on a day that has come. As a factor is announced by its ex day, what is about to be noted then has all
   factors of the batch but those the answer lacks (`Complete`), and so every factor whose ex day is noted is stored or
   `missed` (`FactorsStored`).
4. `AdjustedAlwaysComplete` (`AdjustedIsComplete`) joins this with the reader, again for `~AsksAhead`: when
   `_forward_bars` serves a bar, one noted range covers the days from the next one to `factor_end_date`
   (`ServedComplete`), so the factors it applies are those of the vendor but the missed ones, and equal factors give equal
   bars (`SameAdjusted`). Without that hypothesis the property is false, as run `qmt_factors` shows.

The assumptions are `VendorAssumption` (types; a factor is announced on its ex day or before) and
`CallsAssumption` (the types of a call's arguments).

`TushareSyncProofs` proves, for any datasets of any kind, any parts of the market, calendar, chunks and batches, any
publications at any moment, any calls one after the other, and any number of failures and crashes:

1. `Invariance`: `Spec => []SyncInv`. A checkpoint is written many steps after the request it stands for, and other
   threads write the same calendar meanwhile, so each step of the way has a part. `OwnOnTheWay`: each cell that
   the current call of a thread is to bring is in the store as it was when the run began, or in a round to come, in a
   request still to be made, among what this round has fetched, or buffered and about to be flushed by this thread.
   The last is where threads meet: a partition that another thread commits first is no longer buffered, but
   then it is stored. `CalendarOnTheWay` says the same of the calendar days a traded dataset needs, and
   `RoundsOK` that their rounds come first; so the open days it then reads from the store are all for which upstream
   had data, because upstream has a day's calendar before its data (`Upstream`). `Pledges`: what is buffered
   is never older than what a mark vouches for, so that neither a later call nor closing the store after a failure takes
   anything back. `Checkpoints`: the ranges of a file are apart and mean `covered`. `NothingTwice`: the calls a
   thread has left are disjoint, in order, and without a marked day. `Settled`, with `CalendarFirst`
   for `sync_inc`: whatever a run was asked for is done, or among the calls left, or its stage is still to come, or a thread
   has failed, in which case the run cannot end well. One lemma per action.
2. `PledgesAreKept` (`MarkedIsStored`), `CheckpointsAreExact` (`RangesExact`), `NothingCompleteIsAsked`
   (`AsksOnlyForMissing`) and `SuccessIsEarned` (`SuccessMeansFetched`) follow.

The assumptions are `DatasetsAssumption` (types; the calendar is one of the datasets; the batches of an audited dataset
are its stocks), `CalendarAssumption` (of what is there at first, too, the calendar comes before the data), and
`CallsAssumption`: a call's dates are in order (`sync.py:598` refuses others), and
the datasets of the weekly refresh are not market data (`sync.py:826`).

`RepairProofs` proves, for any tables with any flaws and rows, any upstream, any decisions of the operator, any number
of rounds, repairs, rollbacks, synchronisations, errors and crashes:

1. `Invariance`: `Spec => [](IInv /\ BufferInv)`, `IInv` in four parts. `NothingLost` is not inductive: whether a change is backed up depends on
   what an earlier step has done for it. `RepairsInv` therefore says of each journal (`JournalInv`) that an entry has the content from
   before the repair, or is of a path that the repair had added or the calendar that it had completed by then; that what is backed up as a
   whole is exactly what was there; and that a changed path has an entry or was added to such a table. It says of the steps to come
   (`ToolInv`) that each may change its path: a patch has its backup behind it or before it in the list (`Ordered`,
   `Comes`), a write lies in a range that is backed up (`RangeBacked`, which needs that an issue of a market table asks for the day of its own
   partition, `GoodIssue`, and that the calendar is in place, `DiskInv`). `Untouched`: what no step has changed is as it was, so that a late first
   backup is right too. For a repair that is being undone, each path is as it was, or will be removed and
   put back, in this order (`Puts`, `Removes`); nothing is written until all is done. `FreshInv`: the
   repair commits only after a last detection of the data as they are, so `output` is the fingerprint of what it left.
   `BufferInv` is about what failed flushes leave in the buffers: rows of partitions that the repair may change, kept while it is
   undone, and flushed on top of paths that are as they were (`AllBefore`). One lemma per action.
2. `TypeCorrect` (`TypeOK`), `NothingIsLost` (`NothingLost`) and the action property `UndoneIsAsBefore` (`RestoresItsOwn`) follow.
3. `ServedIsChecked`: `ASSUME WholeIsWhole PROVE Spec => []ServedWasChecked`. `GateInv`: the errors in the status are those a
   detection of everything finds in the tables whose fingerprint the status has. A reader is only served if that is
   the fingerprint of the tables as they are, so what changed since does not matter. The
   hypothesis says that a detection of all tables without a first day goes through the last day. The code does not ensure it:
   run `quality_gate` is the counterexample without it.

The assumptions are `BoundsAssumption` (types), `WorldsAssumption` (rows are dated, the calendar is in place, nothing can be decided
about a table without rows, and the values an operator gives for a patch do not move a row to another day) and `ScopesAssumption` (a detection is of
known tables and days).

Only model-checked: liveness; `SourcesAgree` of `MarketReader`, which compares a product over a set of factors with a quotient
of two, and so would need an induction over the set; and `UsableAnswers`, which composes the queries with the checks of `Detector`.

## What is not modelled

* Values: quotes are model values or table names, rows are numbers with a key and a preference.
* More than one process on one store; the code's locks are per process and its documents say so.
* Exceptions that arrive between any two bytecodes (an interrupt inside `os.replace`'s `try`).
* The agent's remaining queries, the HTTP layer's validation, the protocol's classes.
* The request limiter of `tushare_data/client.py` with its retries and pages: a request is one step that may
  fail.
* Of the market data: which columns are asked for, units, the order of rows, filters on constant columns,
  adapters of users' own; rows of two aliases that tie in a table of versions.
* Of cleaning: the row checks of the tables that are alike (limits, statements, forecasts, and so on), the
  journal's own file format, and directories without a date. One operator runs one command at a time, and no
  synchronisation runs beside it: that is an assumption about how the tools are used, as nothing in the code excludes a second
  command. A detection and a refresh of the catalog are one step each, so the window between
  reading the status and listing the files (`catalog.py:86`) and the one between the checks and the fingerprint
  (`detector.py:357`) are not seen. The flush and the compaction of a partition are one step of a repair, the compaction keeps the
  row written last, whatever its `update_flag` (`deduplicate_prefer_by`), and an error within `restore` is that of a
  crash. Two rows of one partition that are equal in all columns occur only as the `Copy` of a late
  flush; a Parquet file without rows, which the store never writes but for which a check of the partition's value would report
  `partition_value_v1` (`detector.py:609`), does not occur.
* Of the market service: a handler of a subscriber that raises, which `subscription_callback.py:64` logs and passes over.
* Of the corporate actions: the conflict of two actions over their report period and announcement
  (`corporate_actions.py:98`), beside the one over their record day.
* Of the backtest: the identities and aliases of a symbol that changes its code, stale-price marks,
  equity snapshots and statistics, reasons in order updates, the choice of a universe, contradictory
  master data (each ends the run), and the data error of a run without any bar.
* The cross-check, strategies and the common helpers, which compute from their arguments.

## Plan

1. *Proofs*: with what the queries return and the detection finds, `UsableAnswers`.
2. *Backtest, continued*: a symbol's code changes (`market_data/identity.py`) in orders and positions.
3. *Reading while writing*: the catalog's refresh in its steps against a compaction and a detection.
4. *The request limiter* of `client.py`.
