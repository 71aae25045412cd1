# SlagAlpha: TLA+ specifications, model checking and proofs

SlagAlpha is a deterministic research and backtest system for Binance USD-M
futures. It collects market data into content-addressed files, detects setups and
triggers on closed candles, and replays every accepted signal over one-minute
candles under several cost scenarios. Nothing trades; what matters is that a
result is what the rules say, that it can be reproduced, and that an interrupted
or repeated run neither loses nor invents one.

Paths below are relative to `src/slagalpha/` of the repository unless they start
with `docs/` or `scripts/`.

## 1. Inventory

| Component | State it keeps | Operations | What makes it correct |
|---|---|---|---|
| Event replay of one signal (`backtest/replay.py`, `costs.py`) | armed state, entry, position, open fraction, breakeven, event log, ordering counters | `replay_armed`, `replay_trade`, `replay_with_costs` | fills add up to the position; adverse order where OHLC is ambiguous; breakeven only from the next minute; exit by the deadline, never at a better price than its open |
| Late entries (`backtest/replay.py`) | the result's log | `apply_late_entry_event` | idempotent; the terminal state stays |
| Event log reduction (`backtest/event_log.py`) | `ReducedReplayState` | `reduce_event_log` | rebuilds the result; duplicates harmless; resumable |
| Funding and R ledger (`backtest/analytics.py`, `summary.py`) | none | ledger of fills, `apply_funding`, canonical summary | each settlement charges what was held; missing data is never zero |
| Case scheduler (`backtest/runner.py`) | last trade of each symbol | `replay_cases` | at most one open trade per symbol |
| Historical rule gate (`backtest/historical.py`, `domain/universe.py`) | none | gate of a day and of a signal, `replay_historical_cases` | rules in force at the confirmation; the report forecasts the day |
| Batch replay (`research/batch_replay.py`) | checkpoint file, result files | `run_replay_batch` | a COMPLETE entry is backed by a valid file of this version and scope; resuming equals running through |
| Binance transport (`data/binance_usdm_transport.py`, `download_cache.py`) | plan, checkpoint, receipts, blobs, staging | `run_binance_transport`, `finalize_binance_transport` | bounded attempts; settled tasks never repeated; a plan is finalized only when everything is there |
| Zones, pivots, indicators (`strategy/pivots.py`, `indicators.py`) | zone list | confirm pivots, merge zones | no look-ahead; incremental = batch |
| Setup, trigger, plan (`strategy/setup.py`, `triggers.py`, `plans.py`) | none | evaluate, price | both directions alike; rounding on the safe side; an episode keeps its name |
| Source scan (`research/dev_source_scan.py`, `scan_*.py`) | per-symbol checkpoints, sink | scan a window of slots of all symbols | restart = uninterrupted scan; windows decide what the whole history does |
| Stage A and trigger ledger (`research/rescan_stage_a.py`, `scripts/p9_*confirmed_trigger_ledger.py`) | artifacts, ledgers, reconciliations | run the scan, compare, publish | a gate opens only on its own baseline; one ledger, one reconciliation |
| Archive cache and klines (`data/archive*.py`, `klines.py`, `normalization_batch.py`) | archives, receipts, tables, manifests | download, verify, normalise | a checksum before use; no gap unnoticed; every record stands on served archives, whatever changes between two steps |
| Universe (`data/universe.py`, `universe_batch.py`, `domain/universe.py`) | progress files, results | rank a day, run a batch of days | ranked by that day's volume; one version, one result |
| Splits and rule gaps (`research/splits.py`, `rule_gaps.py`) | frozen split | audit, gap windows | the gap report explains the audit |
| Replay preparation (`research/replay_*.py`, `market_data_requirements.py`) | hashed artifacts, checkpoint | merge windows, finalize, join, resume | ready inputs suffice for the replay; a plan followed completes |
| Funding mark supplement (`research/funding_mark_supplement.py`) | supplement files | fetch, reuse | repairs only what is missing |
| Lifecycle remediation (`research/lifecycle_*.py`) | staging directory, derivatives, receipt, lineage | audit, plan, execute, overlay | one contract per derivative; evidence refers to what is on disk |
| Run manifests (`reporting/run_manifest.py`) | result and manifest files | `write_dev_run`, `read_dev_run` | result first, manifest last, immutable |
| Registry and evidence documents, inventory, environment checks, execution inputs, design documents, sensitivity | hashed documents | build, validate | shapes and identities |
| Command line and scripts (`cli.py`, `scripts/`) | none | wire the above | - |

Interactions. Archives are downloaded and **normalised** into tables; the
**universe** of each day is ranked from the tables, and the **rule audit** walks
its days through the **gate**. Symbols that were relisted go through the
**remediation** first. The **source scan** walks the slots of every symbol and
turns confirmed triggers into priced signals; **Stage A** and the **ledger** judge
its reports. Accepted signals become windows of minute data, which the
**transport** downloads, its **finalization** turns into artifacts and the
**preparation** joins into ready inputs. The **batch replay** hands each group of
cases to the **scheduler**, which replays each signal with the **event replay**;
its log is what the **reducer**, **late entries** and the **funding ledger** read,
and the result is **published** with its manifest. The parts communicate through
immutable files named by hashes and through a few mutable checkpoints.

What is hard here.

1. The order of events inside one minute, where only OHLC may be known.
2. Decisions that take effect later than they are made: breakeven, deadline,
   blocked signals, rules that change between the morning and the confirmation.
3. Runs that are killed between two files and repeated with other arguments.
4. No component starts a thread, but several processes of one program may share a
   directory: scan checkpoints, the archive store, the staging directory of the
   remediation, the supplements, a published run.
5. Values computed once and used later: cached setups, incremental zones, an archive
   looked for before a download and replaced after it, hashed and then opened again
   for its rows, a table written and then hashed.
6. Retries and idempotence; rounding and comparison at boundaries.

`PROJECT.json` lists each hazard at its line with the properties aimed at it.

## 2. Modules

### Replaying

| Module | Models | State and actions |
|---|---|---|
| `ReplayEvents` | `ReplayEvent` of `backtest/replay.py` | event records, identity, halves of a position |
| `EventReplay` | `replay_armed`, `replay_trade` as `replay_with_costs` calls them | one action per branch of the two loops: read a candle; skip, expire, miss, enter, invalidate or pass it while ARMED; start the trade or reject its breakeven; activate the breakeven, exit at the deadline, close, take profit or hold |
| `SignalLifecycle` | abstract: sections 11 and 12 of `docs/decision-tables-v0.1.md` | signal state, open halves, protection, exit reason; `EventReplay` implements it (`ImplementsLifecycle`) |
| `EventLog` | `reduce_event_log` | pure: `Apply` folded over a slice of a log |
| `ReplayRecovery`, `LateEntry`, `FundingLedger` | consumers of a log: the reducer resumed from checkpoints, `apply_late_entry_event`, ledger, funding and summary | each extends `EventReplay` and `EventLog`; `MCLogConsumers` runs them over one result (`ConsumersNext`) |
| `ReplayScheduler` | `replay_cases` | one action per way a case is handled: skipped, replayed without a trade, replayed with one, or raising |
| `RuleGate`, `HistoricalReplay` | the gate of `backtest/historical.py`; the gate in front of the scheduler | pure; `HistoricalReplay` extends `ReplayScheduler` |
| `BatchReplay` | `run_replay_batch` | start a run, replay or fail a group, publish a result, record it, record a failure, return, be killed; outside: a file is lost or damaged |

### Deciding

| Module | Models | State and actions |
|---|---|---|
| `Indicators`, `PivotZones`, `SetupContext`, `TriggerRules`, `PricePlan` | `strategy/*.py`, `research/scan_trade_plan.py` | pure, each extends the one before: frames of indicators, confirmed pivots and zones (at once and incrementally), the setup of the three timeframes, triggers A and B, entry, stop and targets on the tick grid |
| `SlotScan` | the slot loop of `build_dev_source_scan_report` and `compute_source_bound_scan_slot` | walks one symbol slot by slot; one action per outcome of the setup, a refusal included, which ends the scan of the symbol; every slot is decided twice, from windows and caches and from the whole history |
| `SourceScan` | the scan of all symbols | processes that load, scan, checkpoint and report, bound or unbound; sources change, reads and the sink fail, processes are killed |
| `ScanConsumers` | `execute_stage_a`, the ledger scripts | start Stage A or a ledger, publish the artifact, write the ledger, look for its reconciliation, create and fill that file in place |

### Data and study

| Module | Models | State and actions |
|---|---|---|
| `KlineArchives` | `normalize_klines`, `build_daily_universe` | pure: gaps, duplicates, unsound rows; ranking of a day |
| `ArchiveStore` | downloads and normalisation on one directory | a download picks, asks for the checksum, looks, fetches into a file of its own, places it over whatever is there, measures, and hashes again for the receipt; a normalisation picks, hashes, reads, looks for the table, writes it, hashes it and keeps a manifest; outside: an archive is republished or removed, a table harmed |
| `UniverseBatch` | `run_universe_batch` | begin, reuse or build a day, record progress, finish, be killed; `PipelineSpec` runs it over a store that is filled in stages |
| `RuleAudit` | `splits.py`, `rule_gaps.py` | a day per step, audit first, then gaps |
| `MarketDataPlan` | `replay_inputs.py`, `market_data_requirements.py`, the transport's plan | pure: windows, merged and cut, pages |
| `BinanceTransport` | `run_binance_transport`, `commit_staged_download`, the authentication of `finalize_binance_transport` | start, adopt a receipt, refuse a spent task, begin, receive, retry, give up, commit, publish the receipt, record, finish, finalize, be killed; outside: a file is lost |
| `ReplayPrep` | finalization, funding mark supplement, `prepare_dev_replay` | download, publish a schedule or artifact, return, be killed; a helper fetches or writes a supplement |
| `ReplayCheckpoint` | `build_resume_plan`, `update_replay_checkpoint` | ask for a plan, report an outcome, stop, prepare again |
| `LifecycleCutoff`, `LifecycleExecution` | the boundary audit and the cutoff; the execution on disk and the overlay | the second extends the first: authorize, read, stage, publish, clean up, publish the receipt, be killed, overlay |
| `RunPublication` | `write_dev_run`, `read_dev_run` | one action per file operation of a publisher and of a reader |

`*_proofs` hold the theorems and the lemmas they rest on, `FoldTheorems` those on sums
and folds that several of them need (section 6). `MC*`
hold the instances for TLC; `MCLogConsumers`, `MCRepeatedRuns`, `MCDataPipeline` and
`MCResearchChain` also compose the modules they extend. In the last three the
variable `part` names the part of the instance that runs: the parts share no
state, so their interleavings would add nothing.

`PROJECT.json` maps every definition to the lines it stands for. A definition
whose name ends in `Faulty` is a plausible mistake in the code it precedes: with
it in place of the real definition the named property is violated. None is
used by the models.

How the parts fit: `ReplayScheduler` takes from a replay only whether there is a
trade and when it is entered and left, and allows every such outcome `EventReplay`
has (entry not before the confirmation, exit not before the entry or never).
`BatchReplay` takes from a group's replay only each case's status; its `Blocks`
are the pairs of signals of which the first, when executed, blocks the second.
`SourceScan` takes from `SlotScan` only the kind of decision a slot ends in.
`LifecycleExecution` publishes an immutable file in one step; `RunPublication`
has the steps of that protocol. `ReplayPrep` takes a download as one step;
`BinanceTransport` has its steps.

### Abstractions

- *Time* is counted in ticks: in the replay `Minute` of them in a candle and `Bar` in
  a fifteen-minute bar, in the scan one per 15m slot, in the universe one per
  ranking candle, in the market-data plan one per minute. *Prices* are integers;
  rates are fractions of `RateUnit`, ATR multiples are counted in twentieths, so that
  all comparisons of `Decimal` products are exact. Floating-point indicators are
  integers.
- *Windows* of the strategy (30, 60, 90, 180 bars; 14; 3; 20) are constants, which the
  instance scales down together.
- *Quantities* are halves (`Full = 2`, `Half = 1`): the code uses no other fractions.
- *Market data of a replay*: any sequence of candles from a set, without missing
  minutes (`validate_replay_candles` refuses them); incomplete trade batches are taken
  for absent ones, as the code does. Every complete batch reproduces its candle,
  which `replay_trade` checks.
- *Identifiers* keep what makes them differ: of an event, type, time and source
  reference (a late entry's is its time); of an artifact, request, role and run.
- *Hashes* are the identity of what they are taken of, and a file name that holds a
  hash is a function from it.
- *Archives*: a table is its rows, its writer and whether it is whole; a writer that makes
  the same table twice makes the same file. The look, the size and the hash with which
  `_valid_existing_receipt`, `_download_receipt` and `_existing_normalization` decide whether
  to reuse are one step of `ArchiveStore`; every later look, hash, read and write is a
  step of its own, so that anything may happen between them.
- *Setups*: a non-positive ATR (`SetupInputError`) is the status `RAISES`. Of zones at one
  distance the code prefers the smaller hash of their identifier, in the model a `CHOOSE`:
  some one of them, in both evaluations the same.
- *Checkpoints*: a damaged scan checkpoint is a failing read, which refuses a bound run and
  an unbound one alike.
- *Errors*: a raised exception ends the behaviour of that function or process
  or, where a caller catches it, is the action that handles it.
- *Files*: publishing is one step (a link or a rename of a complete temporary file);
  where the code writes in place, as the ledger's reconciliation, a kill leaves it
  truncated. A damaged body is treated as a lost one in the transport.
- *Worlds*: in `LifecycleCutoff` a world says when the old contract stopped and when the
  new one was listed; the audit sees its archives only. In `ReplayPrep` a view says
  what the exchange answers a run.
- *Clock*: the transport's clock is assumed to be UTC, as its check requires.

## 3. Runs

| Run | Instance | Shows |
|---|---|---|
| `event_replay_long` | four minutes of LONG, every OHLC shape over eight prices, every batch of up to three trades over five prices and of two trades over the prices around entry and breakeven; data ending before or after the deadline; 367,459 states | the log, quantities, breakeven, deadline, adverse order and labelling, and the life cycle refinement |
| `event_replay_short` | SHORT, the targets one tick from the entry, so that the breakeven may lie beyond them; 11,851 states | a breakeven pays its costs or raises; every held trade is closed |
| `log_consumers` | fourteen candles, every slice of every log, up to three late entries at five times, two settlements with missing observations; 28,681 states | what is done with a log afterwards agrees with the result |
| `late_entry_order` (violation) | the same | finding 1 |
| `scheduler` | three signals, two symbols, four times, every outcome; three registries whose rules change before, at and after the morning; 22,458 states | one open trade per symbol; the morning's report forecasts the gate |
| `scheduler_doc` (violation) | three signals, two symbols, three times, without the gate | finding 2 |
| `repeated_runs` | part `batch`: three cases in two groups, one blocking another, two versions, two kills, one harmed file; part `transport`: two tasks, two bodies, two attempts, two kills, one lost file; 132,276 states | checkpoint, files and receipts agree; resumed runs equal uninterrupted ones; progress survives; the budget holds and what is settled is final; a run ends |
| `signal_decision` | 2,314 markets of a few candle shapes and their mirror images, slots 4 to 7; 39,472 states | a slot decides from windows and caches what the history decides; episodes, zones, prices |
| `source_scan` | two processes, baseline and candidate, two symbols of two slots, two versions of the sources, three runs, two failing calls; processes are symmetric; 377,926 states | reports, checkpoints, sinks and reconciliations agree, and a gate opens on its own baseline |
| `data_pipeline` | part `store`: two workers, one archive, one republication, three batches, one harm; part `universe`: five symbols, three days crossing a month, target three, two fixed symbols, three runs; 469,626 states | datasets are backed whatever happens between two steps of a worker, snapshots rank their day, results agree |
| `raw_files_kept` (violation) | the same | finding 3 |
| `research_chain` | parts `audit` (eight days, two symbols, four registries), `cutoff` (2,907 worlds, of which 488 are confirmed relistings), `execute` (two executors, two builds, one swapped archive, one crash), `prep` (two runs, two stores, two helpers, seven answers of the exchange, one fault), `resume` (every manifest over three requests and two inputs, two preparations), `publish` (two publishers, a reader, a kill, a harmed file); 313,382 states | the steps of a study around its replays |

### Why the bounds are enough

- *Event replay.* A candle acts through its order relative to six levels (stop,
  invalidation, entry, gap limit, targets, breakeven); the prices hold one value at
  or beyond each. A path has at most two fills, so three trades in a batch put
  every pair of fills in both orders, with a trade before the entry. Four minutes
  and a holding limit of one bar hold every combination of entry minute, TP1
  minute, activation minute and deadline minute; `DataEnds` ends the data before
  and after the deadline. Two ticks in a minute tell a minute's start from its
  inside, which is all that entry, expiry and activation compare.
- *Consumers.* Every log shape of the replay occurs in the fourteen candles; a late
  entry can be out of order with the last event or with another late entry; of two
  settlements one may lie before the entry, inside the trade, at a fill or after it.
- *Scheduler.* A violation needs two open trades of one symbol and a third signal
  that replaced one of them; the times order confirmation, entry, exit and the
  moments at which rules change.
- *Batch.* Two cases that block one another and an independent one, in two groups,
  are enough for a group finished in pieces; the second kill interrupts the
  recovery from the first.
- *Transport.* The second task is what a failed first one blocks, the second
  attempt what a retry is, the second kill what interrupts a recovery.
- *Signal decision.* The windows keep their order of size, so that each can be too
  short for what another needs; a market is long
  enough for an episode to begin and to be cut by a window, and for pivots to be
  confirmed between two slots and to merge. The mirror image
  of each market is decided in the same run.
- *Source scan.* Two processes put one checkpoint between another's read and write;
  the second symbol is scanned or fails after the first; two versions make a
  checkpoint foreign; the third run follows a resumed one.
- *Data.* One archive is enough, since files of different archives never share a name;
  the second content is the republished one. Three days that cross a month read two
  tables of a symbol; a third symbol competes for the place that a fixed one takes.
- *Research chain.* Eight days are the shortest split with at least two days in each part; the
  cutoff worlds put halt, settlement, listing and registered start before, at and
  after the boundaries of the intervals within a day; a second executor, publisher or run is
  what can come between two steps of the first.
- `MaxKills`, `MaxCrashes`, `MaxHarm`, `MaxHarms`, `MaxLost`, `MaxLate`, `MaxFaults`,
  `MaxRuns`, `MaxBatches`, `MaxSwaps`, `MaxPublications` and `MaxManifests` only bound
  how often the environment acts; `MaxAttempts` is the program's own limit. The
  theorems of section 6 hold for every value of those that their modules have.

### Deadlock

The batch and the transport can always be run again and are checked for deadlock.
`CHECK_DEADLOCK FALSE` is set in the other runs, where the modelled functions
return: the replay when the data or the trade ends, the scheduler when all cases are
handled, the scan after the last slot, the audit after the last day, and the
processes of the other runs when the bounded number of them is used up.

### Fairness

Weak fairness is assumed of the steps of a running loop only: `Next` of one replay
(`FairSpec` of `EventReplay`), `BatchStep` of the batch and `RunStep` of the transport. They
are single-threaded loops that wait for nothing; a request ends with an answer or
a transport error because the client has a time limit
(`scripts/p9_market_data_transport.py:67`). Starting a run, being
killed and losing files carry no fairness. The liveness properties therefore speak
of a run that is not killed.

## 4. Properties

*Event replay.* `FillsBalance`, `ProtectedOnTime`, `EventsAreTimely`, `OrderingHonest`,
`BreakevenCovers` (invariants), `AmbiguityIsAdverse` (steps),
`ImplementsLifecycle` (refinement), `TradesClose` (liveness). They relate the log to the
result and each fill to an earlier event or minute. `RejectBreakeven` is why
`TradesClose` speaks of trades that are held: a breakeven at or beyond stop or second
target makes `replay_trade` raise after the entry was found.

*Consumers of a log.* `ResumeEqualsUninterrupted` (any overlapping slices end in the state
of the whole log), `RebuildsResult` (which is the result's), `FundingChargesThePosition`
(at each settlement strictly inside the trade, what the log's reducer has open is
charged; missing coverage is never zero). That late entries reported in exchange-time
order leave the terminal state as it was (`LateKeepsTerminal`) is proved for every
value of the constants (`LateEntriesChangeNothing`) and no run of its own checks it.

*Scheduler and gate.* `OneActiveTrade`; `GateForecasts`: for a symbol whose rules stay what
they were since the morning, the gate report of the day says whether its signals
are replayed; an approximate rule never gets a trade, and no signal is lost.

*Batch.* `CompleteHasResult`, `ResumeEqualsUninterrupted`, `ProgressKept`, `RunReturns`.
Behaviour worth knowing that the model shows: a damaged result file makes its case
FAILED in every later run until somebody removes the file; a run with a narrower
scope drops the entries of the cases it excludes (their files stay and are adopted
when they are replayed); a group with one pending case is replayed as a whole, which
is what keeps the blocking of its later cases right.

*Transport.* `CompleteIsBacked`, `BudgetOverRuns`, `SettledStaysSettled`, `RunEnds`. The
attempt that a kill interrupts is not on disk, so the budget over all runs is
`MaxAttempts` plus the kills. A FAILED or EXHAUSTED task raises in every later run
before the tasks after it: the plan cannot complete.

*Signal decision.* `ScanDecidesAsTheSource` (windows, cached setup and incremental zones
lose and invent nothing), `IncrementalZonesAreMerged`, `EpisodeKeepsItsIdentity` (a
pullback keeps the hour that names it from slot to slot), `PlanIsConservative` (every
rounding makes a plan look worse, never better), `DirectionsAreTreatedAlike` (the mirror
image of a market gives the mirror image of the decision).

*Source scan.* `ReportsAgree` (runs that share one binding return one report),
`ReportCountsThePlanOnce`, `SinkIsComplete` (each confirmed trigger reaches the sink exactly
once when every symbol was scanned), `GateOpensOnTheBaseline` (an open gate has its
baseline, and a candidate counts its own plan), `ReconciliationsAgree` (all runs that make
one ledger make one reconciliation of it: a run is refused over a torn file only). What
a verdict of PASS means is not a property here. The script compares the report and the
number of records, by symbol and by status; an unbound run reads its sources after it
hashed their inventory. Sources that change in between to a version in which a rejected
trigger of a symbol sits in another slot pass with other records: the code does not
promise that a passed ledger is the frozen scan's.

*Data.* `DatasetIsBacked` (the archive that a record names was served under its checksum and
has a receipt; the rows are the unbroken and unambiguous part of the month of an
archive of this item that was served; the manifest of these rows is on the disk). It
holds whatever is placed, removed or killed between two steps, which is as much as the
code promises: `normalize_archive_to_parquet` opens the archive again after it hashed it
(`data/klines.py:474`, 478), and finding 3 lets another download replace it in between, so
a record may name one served content and hold the rows of another. Where nothing is
downloaded while something is normalised this cannot happen
(`StagedRecordsNameTheirRows`). `SnapshotsRankTheirDay`, `ResultsAgree` (one version, one result, and the
progress files agree with it).

*Study.* `GapsExplainTheAudit` (gap windows are the longest runs of days blocked for one
reason), `OneContractIsRetained` (a planned cutoff keeps trades of the new contract
only and loses none of its full buckets), `OverlayIsBacked`, `ReadyMeansReplayable` (a ready
input has every minute and settlement any entry of its request may need),
`FollowingThePlanCompletes`, `ManifestComesLast`.

## 5. Findings

1. `late_entry_order`: `apply_late_entry_event` compares a late entry with the first
   event only (`backtest/replay.py:674`) and appends it. Two late entries reported
   against their exchange-time order leave a log that is not in ascending
   `exchange_time`, as `docs/p7-event-replay-contract.md:24` says it is, and that
   `reduce_event_log` rejects.
2. `scheduler_doc`: `replay_cases` skips a signal for any trade of its symbol that exits
   after its confirmation (`backtest/runner.py:84`), also one entered only later.
   `docs/decision-tables-v0.1.md:165` gives ACTIVE_TRADE_EXISTS as the symbol already
   having an active trade.
3. `raw_files_kept`: `fetch_archive` looks for the archive before it asks for the bytes
   (`data/archive.py:219`) and then renames its file over whatever is there by that time
   (line 243). Of two downloads around a republication, the slower one replaces the
   newer archive by the older one. The function says that it preserves "conflicting local
   bytes" (line 202), and `docs/p8-historical-universe-contract.md:19` says that raw files
   are never silently overwritten and that changed content makes a new version.

## 6. Proofs

TLAPS checks every theorem for all values of the constants that satisfy the named
assumptions of the modules: ordered prices, times on minute boundaries, rates below
one and well-formed candles (`EventReplay`); natural times of late reports
(`LateEntry`); finite numbered cases with blocking inside a group and forward
(`BatchReplay`); positive budgets (`BinanceTransport`); finite registries, splits and
manifests (`HistoricalReplay`, `RuleAudit`, `ReplayCheckpoint`); finite plans of a scan
and a `None` that is no payload (`SourceScan`); windows, steps and multiples in the
order of the code's, the 96 rows of 15m structure a target looks at among the 97 rows a
slot keeps, and markets whose streams are sequences of candles and of indicator rows
(the modules of the signal decision); one universe range
(`UniverseBatch`); publishers that are not readers (`RunPublication`); reports of at least
one request, no two of them with one hash, and answers at natural times (`ReplayPrep`:
`build_binance_transport_plan` refuses a report without requests). Three of them say
something about the world rather than the instance:

- `WorldAssumption` of `LifecycleCutoff`: no outage before a halt hides a whole quarter of
  an hour of the old contract. The boundary audit knows the last candle it was given and
  nothing of one that is missing; without the assumption the cutoff may fall early.
- `BreakevenIsPriced`, a hypothesis of `BreakevenPaysItsCosts` alone: the targets of a SHORT
  are at least two ticks and its exit costs below half of its price. Below that the
  breakeven of a SHORT rounds down to zero, and `replay_trade` falls back to the entry
  price, which does not pay the costs. No traded symbol is near the bound.
- The stages of `PipelineSpec`, for `SnapshotsAreRanked` and `StagedRecordsNameTheirRows`: no
  archive is downloaded while a worker normalises (`DownloadedFirst`), and no table or
  manifest is written once a universe batch has begun (`NormalisedFirst`). They are
  commands of `cli.py` given one after the other; nothing in the code enforces it.
  `DatasetsAreBacked` and `ResultsAlwaysAgree` do without.

| Module | Theorems | Argument |
|---|---|---|
| `EventReplay_proofs` | `TypeCorrect` | `TypeOK` is inductive by itself; the lemma on paths says that the fills of a candle are at most two well-formed events that end in at most one terminal fill |
| | `StoryHolds`, `OrderKept`, `FillsAddUp`, `NoEarlyBreakeven`, `HalfIsProtected`, `ClosedInTime`, `HalfIsProtectedOnTime`, `TimesAreKept`, `LifecycleImplemented` | the invariant `Story`: log and result have one of four shapes (untraded; full position with an entry fill; half position with entry, TP1 and perhaps an activation; closed, with the last two events the terminal fill and CLOSED). None of the properties is inductive alone: the order of a log needs that its last event is not after the current minute, the quantities need the shape. The refinement uses `Story` for the step that closes a half |
| | `OrderingIsHonest` | the invariant `Counted`: whoever took a path from OHLC has counted the fallback of its phase; paths of complete candles contain nothing guessed |
| | `SharedMinuteStopsOut`, `DeadlineIsNeverBetter`, `DecidedAgainstTheTrade` | step properties: both exits of a deadline pay the same costs, so what is worse after costs is worse before |
| | `BreakevenPaysItsCosts` | the invariant `Paid`: the breakeven of an open trade pays entry and exit costs, and a half that was stopped out was so exactly there. That a price pays survives rounding to the tick in the trade's direction only, which is a lemma about floor and ceiling; `BreakevenIsPriced` keeps the rounded price above zero |
| | `CheckpointIsInTheLog`, `ResumingChangesNothing`, `LogRebuildsTheResult`, `LateEntriesChangeNothing` | the consumers, modules `LateEntry` and `ReplayRecovery`. The reducer is a fold over a slice; `FoldSteps` turns it into steps, and a second induction, over places, into `Told(events, k)`, what the first k events say. `RecoveryInv`: a checkpoint is `Told` at some place of the log, or stuck at the first event that is out of order, which the log of a replay never has (`Story`) and a log with late entries may have. Every event of a log that is still in order is new and can follow the one before (`Tells`); so a slice that overlaps the checkpoint skips what is known and continues |
| | `FundingIsCharged` | module `FundingLedger`, from `RecoveryInv`: what a reader of the log up to a settlement has open is `Full` or, after the first of two exits, `Half`, and so is what the fills leave (`HeldIsOpen`, `OpenFractionIsOpen`); the funding of the settlements, summed one by one, is that of the legs, summed leg by leg (`FundingIsCarried`) |
| `ReplayScheduler_proofs` | `TypeCorrect`, `NeverTwoTrades`, `SkippedForUnfinished`, `NeverTwoTradesOfADay` | strengthened by: trades are made in the order of confirmations and entered after them; `active` is the last trade of its symbol; trades of a symbol follow one another. The gate adds results that are no trades, so the same invariant serves `HistoricalSpec` |
| | `MorningForecastsTheDay` | `GateApplied`: a signal is BLOCKED exactly when the gate gives a reason, and an unhandled one has no result; no rule of a steady symbol starts or ends between morning and confirmation, so both see one set of rules, of at most one member |
| `BatchReplay_proofs` | `TypeCorrect`, `CompleteHasFile`, `ResumedIsWhole`, `ProgressSurvives` | strengthened by: nothing is remembered of a group between groups; the checkpoint file is the memory of a running run; a group is replayed as a whole or failed; what is published but not recorded has its file. The recursive function `Replayed` is shown to have a solution, by induction over the numbers of the cases |
| `SourceScan_proofs` | `ScanIsSound`, `ReportsAlwaysAgree`, `SinkIsAlwaysComplete`, `ReportsCountThePlanOnce` | the invariant `ScanInv`: a checkpoint is the whole scan of its symbol at one version of the sources or the failure of an unbound run (`DiskOk`) and is never replaced; what a run has merged is what the checkpoints hold (`Merged`); its sink holds the confirmed triggers of what it merged and of the symbol it scans, each once (`SinkOk`); a report is the sum of its binding's checkpoints. That a report counts the plan once is arithmetic on top of it: the counters of a payload add up to the slots of its symbol, and sums over symbols of sums over counters may be exchanged |
| | `GateAlwaysOpensOnTheBaseline` | `GateInv`: whoever is through with a scan that needs a gate holds a compatible open artifact; an open artifact has the counts of a whole scan because the errors of bound scans raise |
| | `ReconciliationsAlwaysAgree` | `LedgerInv`: a run at its ledger has returned its report, and every reconciliation is none, torn, or the verdict on a returned report of the ledger's own version; by `ReportsAgree` there is only one such report |
| `DataPipeline_proofs` | `DatasetsAreBacked` | the memory of a worker: every item of its batch is to do, failed or recorded, what it saw of its item was served, the rows it read are the sound month of something that was served, and a record has receipt and manifest (`JobOk`), which no other worker takes away. Nothing is assumed of the archive between two steps except that whatever lies there was served, for only bytes with an official checksum are placed |
| | `StagedRecordsNameTheirRows` | `Staged`: while a worker normalises nobody downloads, so an archive it has hashed is the one it reads or is gone, and tables, manifests and records hold the rows of the content they name. Its hypothesis is the discipline of `PipelineSpec` |
| | `SnapshotsAreRanked` | `RankingInv`: once a batch has begun the index stands, the input a run holds was read through it (`InputOk`), and an input lacks a table only when one was harmed (`Healthy`). What the code sorts is then the finite set of symbols that count, and the list of such a set by rank is strictly ordered; the places of the fixed symbols are taken from its end |
| | `ResultsAlwaysAgree` | what a batch or a result says of its days is what the progress files of its version say (`Stand`), and neither a progress file nor a snapshot that is there changes |
| | `TypeCorrect`, `CompleteBacked`, `BudgetKept`, `NothingRepeated`, `FailureIsFinal`, `SettledOnce` | about `BinanceTransport`, strengthened by: requests of a task never exceed the attempts on disk plus the kills, plus one in flight; a spent task has no receipt; passed tasks are complete; memory and disk agree between requests |
| `SlotScan_proofs` | `ScanInvHolds`, `PlansAreAlwaysConservative` | the invariant `ScanInv`: the streams and what was computed from them are typed (`Inputs`); the zones are those of the runs of the first `next` pivots (`Grown`); that the true ranges and the joined pivots are typed needs solutions of recursive functions (`RecursionExists`); every cached setup is `WindowedSetup` of its ends (`Remembered`). A plan is conservative because of lemmas on floor and ceiling to a tick: a price rounded against the trade moves by less than a tick, the stop by less than a tick beyond its buffer, and what is at least a multiple of the risk away stays so |
| | `GrownZonesAreMerged` | one more pivot extends the last zone of its kind or opens a new one, in both ways of building them: `merge_pivot_zones` folds over the pivots of a kind (`Runs`), and a fold over one more element is one more step (`FoldSteps`) |
| | `EpisodesKeepTheirIdentity` | an episode begins at the first row of the unbroken run of pullback rows that ends at its hour; a window that the run reaches the edge of is doubled, so the window never decides where it begins; two runs that end at consecutive hours begin together |
| | `ScanAgreesWithTheSource` | four steps, each about histories of any length. Nothing looks ahead: the indicator frame of what has closed is the start of the whole frame, Wilder's recursion included (`FramesAgree`), and so are its pivots, because a pivot is confirmed by rows that have closed and candles ascend (`SlotPivots`). The setup of the windows is that of the history (`SetupsAgree`). The zones that reach into the window are all that trigger or target may choose, for a zone ends before it is confirmed and only later rows destroy it (`DestroyedAlike`, `CandidatesAgree`), and the pivots of the episode suffice for trigger A (`RecentPivotsSuffice`). With the cache right and the zones grown to the visible pivots (`ScanInv`), `Decide` is given what it cannot tell apart (`DecisionsAgree`) |
| `ResearchChain_proofs` | `GapsAlwaysExplain` | about `RuleAudit`: `Traced`: up to the current day the windows of a symbol are in order, cover exactly the days that lack a rule, each for one reason, and two of one reason never touch. `Counted`: the counters of a role add up over its days so far |
| | `OneContractStays` | about `LifecycleCutoff`: confirmed evidence has one gap per intraday interval, which ends where the registered start lies; so there is a quarter without a candle before the first row that is kept, and by `WorldAssumption` the old contract was halted before it |
| | `OverlayStaysBacked` | about `LifecycleExecution`: nothing exists before a plan (`Quiet`); what is to be published was read from an audited archive (`Audited`); a receipt only when all is published (`Settled`); the staging directory belongs to a busy executor or to a kill (`Owned`) |
| | `PlanCompletes` | about `ReplayCheckpoint`. `Followed`: what `build_resume_plan` would count as complete now is what the plan counted and what was reported since; `Reported`: after a report the checkpoint speaks of the current manifest only, so as many complete entries as requests are all of them |
| | `ManifestIsLast` | about `RunPublication`: what a process has seen stays whole as long as nothing was harmed since it began (`Reliable`); while nothing is harmed at all no file is damaged, a manifest has its result and no publisher is refused (`Unharmed`) |
| | `ReadyIsReplayable` | about `MarketDataPlan` and `ReplayPrep`. Of the plan, for any requests: the merged windows of a symbol are apart, hold each request whole and no minute that nobody asked for (`WindowsOfReport`, an invariant of the fold that merges them); their segments and pages never share a minute, lie inside every request they serve and cover it (`PagesFit`, `PagesApart`, `PagesCover`); so no plan is refused. A run that was not cut off then has every settlement of a request, whether asked for through the schedule or through its own pages (`FundingIsWhole`). `PrepInv`: what lies in a store was written by the finalization of such a run, which has written all that comes before the output it is at, and has raised only when an answer was missing |
| `FoldTheorems` | lemmas | smallest members; induction over numbers and over finite sets, stated for the set of those that have a property, because a theorem that takes an operator cannot be used; sums over sets (`SumSplits`, `SumOfSums`, ...), the values a fold goes through (`FoldSteps`), and the list of a finite set by rank (`RanksList`) |

Only model-checked:

- liveness (`TradesClose`, `RunReturns`, `RunEnds`): out of the prover's reach;
- `DirectionsAreTreatedAlike`: not true of all integers, since the mean of a window is rounded
  down on both sides of the mirror; on the markets of the instance the means are exact
  enough for it to hold.

## 7. Not modelled

The components marked `not_modelled` in `PROJECT.json`, each with its reason: daily
scan records, registry and rule evidence, inventory and coverage, environment
checks, execution inputs, lifecycle design documents, sensitivity and audits, command
line and scripts. They validate and print documents, or compare declared with
recomputed hashes; no state of theirs outlives a call. Of the components marked
`partly`, the parts left out are: the excursions (MFE, MAE) of a trade; the planning of
batch cases; two runs of one transport plan at once; the finalizer of a ledger that was
interrupted before its report; the capacity report; column parsing; the retries
of one supplement request; the documents between the steps of a remediation.

Out of reach or without protocol state: indicator arithmetic in floating point,
parsing and validation of document shapes, report layout, command-line parsing,
network and file-system failures other than those named above.

## 8. What remains

In this order:

1. Two runs of one transport plan, the staging file as state
   (`data/binance_usdm_transport.py:626`), with the steps of `commit_staged_download`
   between hashing and copying, which are one step now (the archive store has such
   steps apart); the same for the staging files of the supplement,
   with its retries (`research/funding_mark_supplement.py:495`).
2. The excursions of a trade, and the finalizer of a ledger.
