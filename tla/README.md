# A verification project for mlai-trade

TLA+ models of the parts of mlai-trade that are concurrent, survive crashes,
handle money or keep data that later steps trust: the update lock, the daemon,
the daily maintenance, the auto-trade cycle and what it rests on (history sync,
exit counters, wash sales, day trades), the tax computations, the API servers,
the ML pipeline's tables, trainings and predictions, and the market data that all
of it reads. Each module is translated from the Rust code; comments cite the
function or line. `PROJECT.json` maps every definition to its lines, lists the
runs and theorems, and lists the hazards the properties are aimed at.

    tlc -workers 2 -config MCDaemon.cfg MCDaemon     # a run
    tlapm Daemon_proofs.tla                          # the proofs of a module

## 1. The system

mlai-trade is one binary. A person runs commands (`auto run`, `data daily`,
`ml refresh`, `daemon start`, ...); a daemon runs trading cycles and the daily
maintenance; an API server runs commands for the web UI by starting the binary.
All of them share a SQLite database, a few files under the runtime home, and the
account at the broker. Nothing but those files and rows survives a process, and
nothing but file locks and pids keeps processes apart.

| Component (source) | State | Operations | Interacts through |
| --- | --- | --- | --- |
| Update lock (`update_lock.rs`, `process.rs`) | the lock file: pid, operation; a guard; a signal watcher thread | `acquire`, `finish`, `drop`, signal watcher, stale removal | called by long commands and by daily maintenance; an environment variable tells a child that its parent holds it |
| Daemon (`daemon.rs`) | flock, pid file, status file, `TERMINATE`, `RELOAD` | `cmd_run`; `start`, `stop`, `reload`, `restart`, `status` | signals, files, spawned processes |
| Daily maintenance (`daemon.rs`, `main.rs`, `pipeline_resume.rs`) | stamp file, checkpoint file, update lock | due date, child `ml refresh`, steps, stamp; manual runs | lock, checkpoint, stamp, exit status of the child |
| Auto-trade cycle (`auto.rs`) | `auto_positions`, copies of the broker's orders and fills, overrides | sync, reconcile, recover, exits, buys; `track`, `untrack` | HTTP to the broker; database |
| Exit confirmation (`auto.rs`) | counters per position | evaluate, store | called by the exit loop |
| Provider history (`auto.rs`) | orders, fills, account references | paged sync, upsert, rename | the cycle, `auto sync-orders`, tax |
| Wash sales, day trades (`auto.rs`, `main.rs`, `compliance.rs`) | replacement windows, day-trade rows | rebuild from fills, record, guards before buys and exits | fills, rows, the configured country |
| Tax estimates (`tax.rs`) | none of its own | share matching, months with carried losses, brackets | fills, closed rows |
| API requests (`api.rs`) | counters, rate window, kept answers | admission, `run_cli`, timeout | starts commands; clients that leave |
| API servers (`api.rs`, `main.rs`) | pid files, socket, port, `TERMINATE` | `cmd_run`, `cmd_ssl_run`, start, stop, restart; of all services in order | files, signals, configuration |
| TLS connections (`api.rs`) | counters of connections and streams | accept loops, requests, event streams | shared counters |
| Daily bars (`main.rs`) | bars, coverage, universe, benchmark dates | scan in waves, universe and FRED sync | the provider; ML tables |
| Bar cache (`main.rs`) | `market_bar_cache` | `market bars`, `market warm-bars` | the provider; the daemon and the web UI |
| Feeds (`main.rs`) | subscriptions, articles, co-mentions, correlations | add, remove, reconcile, sync, correlate | pipeline, sources |
| ML tables (`ml.rs`) | labels, features, ranks, predictions | incremental computation, prediction, ensemble | bars; the cycle's candidates |
| Trainings (`ml.rs`, `main.rs`, `lstm.rs`) | dataset files, models, reports | pipeline steps, fallback engines, children | files under fixed paths |
| Core ML artifact (`lstm.rs`, `coreml.rs`) | package, compiled model, metadata | export, judge, use | a script and the saved model |
| Configuration, paths, logging | files | load, write, rotate | all |

What is hard here, and what makes each part correct:

* **Update lock.** Staleness is judged by reading a file and a pid, and acted
  upon by unlinking a path. Correct means: one owner at a time, no lock left
  behind by a process that lives on, no dead lock that blocks for ever.
* **Daemon.** Commands act on files they read a moment ago; signals meet any
  point of the loop. Correct means: one daemon, files that name it, no signal
  lost, nothing left after an orderly end.
* **Daily maintenance.** Runs fail in the middle, resume with other parameters
  or on another date, and outlive the daemon that started them. Correct means:
  a checkpoint says what was done, a stamp is backed by a whole pipeline over
  the bars of its date, and each date is stamped in the end.
* **Auto-trade cycle.** A cycle acts on rows, a copy of the orders, an account
  reading and a position snapshot taken at four different moments, while orders
  fill, expire or lose their reply and the owner acts by hand. Correct means: a
  sell is covered by shares, a symbol is bought once, within cash and slots,
  shares never stay without a row, and rows never without shares.
* **What the cycle rests on.** Counters that are carried from cycle to cycle,
  copies of the broker's lists that grow page by page, windows and counts
  derived from fills that arrive account by account. Correct means: what is
  carried or derived says what the whole history says.
* **Taxes.** Quantities and losses move between lots and months. Correct means:
  each share and each loss counts once, in the order of the law, whatever the
  period of the report.
* **API.** Requests, connections and streams end in many ways, at once, and so
  do servers. Correct means: no place is lost or given back twice, limits hold,
  answers are not too old, and the server that serves is the one that is found.
* **Market data and ML.** Incremental computations trust what earlier runs left
  (coverage, fingerprints, the dates of a table, model files), although those
  were broken off, ran at once or were of another kind. Correct means: what is
  skipped need not be done, and what is used is what it is taken for.

## 2. The modules

| Module | Models | Checked by | Proved in |
| --- | --- | --- | --- |
| `UpdateSlot` | the promise: one slot, until the file of an owner is deleted | (refined) | |
| `UpdateLock` | `update_lock.rs`, file access by file access | `MCUpdateLock` | `UpdateLock_proofs` |
| `Daemon` | `cmd_run` and the commands | `MCDaemon` | `Daemon_proofs` |
| `DailyRefresh` | maintenance, checkpoint, stamp | `MCDailyRefresh` | `DailyRefresh_proofs` |
| `Broker` | the broker as `auto.rs` uses it (external) | with `AutoTrade` | `AutoTrade_proofs` |
| `AutoTrade` | cycle, track, untrack, over `Broker` | `MCAutoTrade` | `AutoTrade_proofs` |
| `ProviderSync` | paged sync of a broker's list, renames | `MCTradingApi`, part `sync` | `Records_proofs` |
| `ExitConfirmation` | counters of the exit rules | part `exit` | `Records_proofs` |
| `WashSales` | replacement windows and the guards that read them | part `wash` | `Records_proofs` |
| `DayTrades` | day-trade rows and their count | part `days` | `Records_proofs` |
| `ShareMatching` | sales matched with purchases | part `matching` | `Records_proofs` |
| `TaxYear` | months with carried losses; brackets | part `tax`, an ASSUME | `Records_proofs` |
| `ApiRequests` | admission, children, kept answers | part `api` | `Api_proofs` |
| `ApiServer` | the two servers and the service commands | part `servers` | `Api_proofs` |
| `SslConnections` | accept loops, connections, streams | part `links` | `Api_proofs` |
| `BarScan` | catch-up of daily bars | `MCMarketMl`, part `scan` | `MarketMl_proofs` |
| `BarCache` | chart bars and their warming | part `bars` | |
| `FeedUniverse` | subscriptions and correlations | part `universe` | `MarketMl_proofs` |
| `FeedArticles` | articles and co-mentions | part `articles` | `MarketMl_proofs` |
| `FeedRecords` | the two feeds together: `FeedsAreTrue` | the invariant of both parts | `MarketMl_proofs` |
| `MlDatasets` | labels, features, ranks | part `datasets` | |
| `MlPredictions` | predictions and the ensemble | part `predictions` | `MarketMl_proofs` |
| `ModelTraining` | dataset files, models, folds | part `models` | |
| `LstmTraining` | engines, epochs, model and report | part `training` | `MarketMl_proofs` |
| `NeuralArtifact` | export and use of the Core ML model | part `neural` | `MarketMl_proofs` |

`MCTradingApi` (`ProviderSync` to `SslConnections`) and `MCMarketMl` (`BarScan` to
`NeuralArtifact`) instantiate components that share no state. Their variable
`part` says which of them a behaviour is of: only that one steps, the others
keep one initial state. The state spaces so add up instead of multiplying, and
each invariant is about its own part.

In each module an action is one access to something shared (a file, a row, a
request) together with what the code does before the next one. Variables marked
*history* in a module are not in the program; properties use them. Definitions
whose comment begins with "Mutant of" are the code with a plausible bug; no
specification uses them.

**UpdateLock.** `file` is what the path names, `pc` where a process stands in
`acquire` or `release`, `seen` the content it read, `watcher` its signal thread.
`acquire` is `Begin`, `Exists`, `ReadStale`, `Judge`, `RemoveStale`, `Create`,
`WriteOk` or `WriteFail`; `finish`, `release` and `drop` are `Finish`, `ReadOwn`,
`RemoveOwn`. `Die` can happen anywhere, `Reuse` gives the pid to a new process,
and the daemon's child may outlive it (`orphans`). `misremoved` records that a
file was deleted while another process used it. `ImplementsSlot` maps owners and
`misremoved` to `UpdateSlot`: the deletion is named in the promise because the
code permits it (section 4), and everything else is excluded.

**Daemon.** `dpc` follows `cmd_run`; the pid file is truncated and written in
two steps; the config is on, off or invalid and may change at any time. The
commands are chains of accesses: `Read`, `Check`, `Reread`, `Recheck`,
`RemoveDead`, `Spawn`, `Kill`, `Poll`. `restart` is a stop followed by a start.
The cleanup's read and unlink of the pid file is one step; a trading cycle is
one step, which may never end.

**DailyRefresh.** A date goes from open to closed to due. `Due` decides,
`DaemonAcquire` takes the slot, `DaemonSpawn` starts the child, whose exit
`DaemonReap` sees; the child and the commands go through `Open` (load or discard
the checkpoint), `NextStep`, `Execute`, `Record`, `Finish` and, for a command,
`Mark`. `data` gives for each step the date its results are built from: a step
takes over the date of the one before it, and the first that of the latest
completed bars. The fourteen steps are `1..Last`; quick and skip-train runs are
other profiles. The checkpoint is written by rename, in one step. A dead
holder's lock counts as free (UpdateLock has the details). A failure of the
daemon's other commands (order sync, feeds, tax) is `DaemonFault`. After a crash
a new daemon starts a child of its own beside the orphan (`DaemonSpawn`; `Children`
are the names of processes at work at once), whose exit nobody awaits (`Orphan`). The
orphan may overlap with that child, with the daemon's stamp and with commands, which
`overlapped` records.

**AutoTrade.** The cycle is `Begin` (the clock is read), `Sync`,
`FetchAccount` (cash), `Load` (positions; then reconcile, recover, cash guard),
then for each row `Hold` or `Sell` and `RecordSell`, then `FindCandidates`, and
for each candidate `Buy` and `RecordBuy`; after each order `Resync` may fail.
`Reconciled` and `Recovered` are the two repair passes over the rows. Failures:
`LoseReply` (the order is placed, the program does not learn it), `Unnamed` (the
reply has no id: `RecordSell` and `RecordBuy` store an empty one) and `Abort` (a
crash or a failed request). Abstractions: one share costs one unit of cash and
prices do not change; whether an exit or a buy is wanted (prices, scores,
confirmation, market windows, wash sales, day trades) is open at every step;
orders fill one share at a time; time is told by the number of shares sold
before a moment; orders and fills are synchronized in one step, and so are the
sync and update of track and untrack; one account; one process trades; the owner
sells by hand but does not buy by hand; `backfill_execution_origins`
(auto.rs:460), which labels old rows at start, is left out.

**ProviderSync.** `recs` is the broker's list (orders or fills, which are read in
the same way), `rows` the local copy, `sync` the running sync. `ReadAccount` may
fail to learn the broker's id, `ReadPage` upserts a page and moves the cursor,
`SyncFails` breaks off between pages; `Renamed` changes the configured name and
the next sync with an id moves the old rows. `HistoryIsKept` excepts good-till-
cancelled orders and records of equal times that a page cuts apart.

**ExitConfirmation.** `Cycle(rule, price, found)` is `evaluate_confirmed_exit`, the
update of the counters in `row`, and the reasons to sell that no counter is kept for:
`found` in the tables of assets and predictions, and `TimeStop` by the clock; `Decided`
puts them in the code's order. `seen` keeps all evaluations of the row, and
`DecidedByHistory` computes from them what the rule calls for. A price is the
profit it means; `Reentered` closes the row and opens the next.

**WashSales, DayTrades.** One symbol, several accounts of two universes:
`CycleSync` goes account by account, stores the fills and rebuilds the windows
of the universe; `CycleSells`, `CycleRecords`, `CycleBuys`, `CliBuys` and
`CliSells` are the guards with the records that they leave; `Moves` changes the
configured country. `told` keeps which losses a rebuild could know.
In `DayTrades` a cycle takes its time (`Begins`), synchronizes the history
(`Syncs`), and some requests later reads the positions and repairs the rows
(`Reconciles`): a row without shares is closed, one with fewer is cut, and the
latest sale since the entry that the sync knew makes a row of `day_trades`, if
there is one. Sales come of exits (`FillsExit`, share by share) and of the owner;
buys fill at once, and midnight (UTC) falls between cycles.

**ShareMatching, TaxYear.** `Traded` adds a fill to `trades`; the matches of the
United Kingdom (same day, thirty days, pool) and the first-in-first-out lots are
functions of it, compared with the order of the law and, for each period, with
the whole history. A matching keeps what is `left` of each fill, the `pool`, and in `out` how
much of each sale went to each purchase and to the pool; the code's list of matches is the
entries of `out` that are not 0. Each loop of the code is a function of the number of fills
or days done. `MonthCloses` is a Brazilian month with its carried losses,
trades and day trades apart. Netting, brackets and the estimates of the United
States, Singapore and Great Britain are functions; the assumption
`EstimatesAreByTheBracket` of `MCTradingApi` compares them, for incomes up to 7
and net terms from -5 to 5, with a tax computed unit by unit. Losses are carried
within the period of the report only, and a Brazilian resident's foreign net is
not modelled.

**ApiRequests.** A slot is a request under way; its steps are the atomic
operations of `acquire_api_request_guard`, the child, its timeout, and the drops
of the guard. A client may leave at any step, which drops the future. Kept
answers carry the age of their data. Timers are served before the clock moves on.

**ApiServer.** A server goes through `BeginsRun`, `ClearsSocket`, `BindsAddress`,
`NamesItself`, looks at signal and configuration until it drains, and then
`Unnames` itself and removes its socket. Commands are chains of judging a pid,
spawning, `SIGTERM`, waiting and removing files; `start`, `stop` and `restart` of
all services are sequences of them. `overlapped` records that a command met a
server that was coming or going.

**SslConnections.** `up` are the accept loops, one for each address and
transport, `opened` and `streaming` the shared counters, `link` the connections and
`work` the requests. A loop raises the counter, then refuses or leaves the connection to
a task of its own, whose handshake may fail (`Handshakes`), and accepts the next; only
the refusal of a connection is awaited by the loop. A connection over TCP has one
request and ends with it; one over HTTP/3 has many at once, and their tasks outlive it.
A panic of a task, after which nothing gives its place back, is left out.

**BarScan.** `scan` holds what a scan expects and the ranges it has to ask for;
`StoreWave` stores bars and coverage in one transaction, `ScanFails` ends it
between waves; bars, universe and benchmark change while it runs. Two facts of
the data are kept: which bars the provider had (`had`), and which were asked for
too early (`early`).

**BarCache.** A row is the moment of the provider's answer that it is of: a bar
of that moment still moves, an earlier one is final. `ChartChecks` looks for the
newest `fetched_at` in the window, `LoadsChart` answers from the cache, otherwise
`FeedGives` and `PairGives` ask, `StoresChart` replaces the rows, and `FallsBack`
answers from rows of any age. `market bars` ends at the first error, `warm-bars`
goes on. Timeouts of a feed are failures; all feeds have the same bars.

**FeedUniverse, FeedArticles.** The reconciliation reads the managed list, then
deletes and inserts statement by statement while the owner adds and removes;
computations of correlations take a fingerprint, read prices, and replace all in
one transaction. A sync asks in waves whose width follows timeouts; `Stores`
inserts an article unless its URL is known, `CountsPair` counts its pairs.

**MlDatasets.** A behaviour follows one of the two jobs: `Label` in one
transaction, features in `FeaturesBegin`, `StoreBatch`, `Rank`. `BarsCome`
brings bars of a new date or behind it. Histories record what was filled in
behind, which runs were broken off, and which rows came too late for their date.

**MlPredictions.** Every command is one transaction on the rows of
`predictions`; a score is the set of models it is of. Training, skipped models,
new dates and symbols without enough history vary. The ensemble is chosen by one of two
searches, `SelectsDefault` and `SweepsRobustly`, which differ in the models they need;
which combination is the best is open.

**ModelTraining.** `sets` are the dataset files, `models` the model files with
the set they were trained on, `worker` the pipeline and a command by hand, each
with what it remembers in `lgb_dataset_cache`. Steps fail, resume and are
skipped; folds and production share the XGBoost path. On the GPU a child trains, which a
kill of its process leaves behind (`ChildLeft`, `orphans`): it reads its files and saves
its model whenever it comes to, perhaps in the middle of a later attempt. A step that is done may still
fail, or its process die, before the checkpoint names it (`StepDone`), and the end of
the pipeline, which removes the checkpoint, is a step of its own (`Ends`), also for a
pipeline that skips all steps. Without the training step nothing is predicted unless an
earlier attempt completed it.

**LstmTraining, NeuralArtifact.** An attempt is one engine, in a child unless on
the CPU; `ModelTruncated` and `ModelWritten` save in place, `ReportWritten` is
last, and a crash of a child makes backend auto fall back. The exporter loads,
clears, packs, compiles, hashes the file again and names the artifact; `Examines`
loads the metadata, whoever wrote them, `Judges` runs the artifact that is there then, and
`Records` accepts it or not. An inference is two steps as well: `ArtifactIsChecked`, and
`ArtifactIsRun` some time later; `vetted` is the model found validated in between.

## 3. The runs

| Run | Instance | Checks |
| --- | --- | --- |
| `update_lock` | a daemon, two commands, each pid may have two lives | `StaleVerdictSound`, `NoLeakedLock`, `ImplementsSlot`, `StaleLockReclaimed` |
| `update_lock_race` | the same | `OneUpdateAtATime` (fails) |
| `daemon_lifecycle` | two daemon processes, two commands | `OneDaemon`, `FilesNameTheDaemon`, `CleanStopLeavesNoFiles`, `UnnamedOnlyByLateCommand`, `TermStops`, `ReloadIsTaken` |
| `daemon_reload_spin` | the same | `InvalidConfigPauses` (fails) |
| `daily_refresh` | three dates, two steps, a command, two children, two profiles, two faults | `RefreshIsTrue` (types, `StampWasDue`, `CheckpointIsTrue`), `StampBacksWholePipeline`, `StampIsFreshUnlessResumed`, `LastDateGetsStamped` |
| `daily_refresh_stale` | the same with three steps and one fault | `DaemonStampHasItsBars` (fails) |
| `auto_trade` | two symbols, cash 5, lots of 2, three orders, one fault or one act of the owner, two positions allowed | `TradesAreCovered` (types, `OrdersAreNamed`, `SellsAreCovered`), `NoDoubleBuy`, `CashOnly` |
| `auto_trade_live` | the same with one position, fair cycles | `PositionLimit`, `SharesAreWatched`, `RowsWithoutSharesGo` |
| `auto_trade_short` | no fault, no act of the owner, a broker that accepts short sales | `ExitsMatchSnapshot` (fails) |
| `auto_trade_twice` | no fault, no act of the owner, four orders of one share | `NoSecondBuy` (fails) |
| `trading_and_api` | nine components one at a time, 2.8 million states | `TypesOK` and the properties below |
| `market_and_ml` | nine components one at a time, 1.9 million states | `TypesOK` and the properties below; those of `universe` and `articles` are together `FeedsAreTrue` |

The types of `UpdateLock` and `Daemon` are proved and not checked by a run.

| Part | Property | It says |
| --- | --- | --- |
| `sync` | `HistoryIsKept` | a sync that ended well leaves every record, the last state of each day order, and nothing twice |
| `exit` | `DecidedByHistory` | each decision is what all prices of the row call for under the rule in force, or one of the reasons without a counter in its turn |
| `wash` | `NoReplacementBuy` | no buy within the law's window after a loss that a rebuild had before it |
| `days` | `TripsAreCounted` | a round trip counts for the day of its sale once its row is closed or cut, unless no reconciliation meets it as the latest known sale |
| `matching` | `SharesAreIdentified` | sales find their purchases in the order of the law, in reports of any period |
| `tax` | `LossesOffsetOnce` | each loss offsets later gains of its class once and whole |
| `api` | `CountersAreExact`, `AnswersAreRecent` | no place leaks and no limit is passed; an answer's data are no older than timeout and reuse together |
| `servers` | `ServersAreFound` | a server that serves is the one its pid file names and its address leads to |
| `links` | `PlacesAreExact` | every counter is the number of those who hold a place |
| `scan` | `ExpectedAreFetched` | a scan that ended well has each expected bar the provider had |
| `bars` | `ChartsAreCurrent` | an answer from the cache is complete and current as of the fetch it rests on |
| `universe` | `UniverseIsTrue` | the owner's subscriptions stay; correlations are of the bars of their fingerprint |
| `articles` | `ArticlesCountOnce` | each stored article counts once for every pair it mentions |
| `datasets` | `RowsAreInTime` | incremental runs leave no row behind that a full run would have |
| `predictions` | `RankMatchesQuintile` | score and quintile of a candidate rank the same scores |
| `models` | `FoldsDoNotPredict` | the pipeline's scores are of models of all years, never of a fold |
| `training` | `ReportTellsOfModel` | model and report are whole and of one attempt, and of its best epoch |
| `neural` | `NeuralEngineRunsTheModel` | the Neural Engine runs the model that the inference found validated, or nothing |

Why these bounds. *Update lock*: its races need a dead owner and two processes
that find its file; two lives make a pid come back while somebody still acts on
its old file. *Daemon*: two processes are an old and a new daemon, two commands
can both hold a pid they read earlier. *Daily refresh*: three dates leave one
before and one after the date at which a run is interrupted; two steps are the one
with bars and the last, which reads what the first has left; two faults interrupt a run
and its retry, or the daemon twice, and two children are an orphan and its successor (a
third orphan would need a third fault, and a second one waits for a free name). *Auto-trade*: a lot of two makes partial fills, three orders are a buy,
its exit and a buy or exit in a later cycle; cash for two lots and a half shows the
cash guard at the third; two positions leave a slot for the symbol that must not be
bought twice, one makes the second symbol the one that must not be bought;
`MaxTroubles` allows a fault or an act of the owner, at any point. `MayShort` is FALSE where
the broker refuses sells of shares that are not free, as it does for accounts
without margin, and TRUE in the run about what the program sends.

*Components* (`MCTradingApi.cfg`, `MCMarketMl.cfg`). `sync`: two records and pages of one give a
page in the middle, one rename and one failure meet at every point. `exit`: five
prices beyond, at and between the levels, three rules, four evaluations, longer
than the longest confirmation, and a position that is due at the last minute of the clock. `wash`: two real accounts and one for paper, three fills
(a buy, a loss, a replacement), a country that blocks and one that does not.
`days`: two symbols, three sessions, two buys of two shares, a count over two, a limit of one. `matching`: four fills over four days, one day for the
thirty. `tax`: six months, so that a loss passes an exempt month and is used
up in two. `api`: three requests for two places, one of them for long ones, a
window of two ticks, reuse for a tick; the first free slot is taken, as slots
have no names. `servers`: three processes and two shells, one kill, one edit, a
start of one server beside a restart of both. `links`: three
connections for two places, so that one is refused beside two that are at work, two
requests for one stream, each transport with no loop, one or two (HTTP/3 one at least), a
stream of one event. `scan`: two tickers, three dates, one late bar, one
broken scan. `bars`: three moments, three commands of five kinds (all bars,
a batch that is cut to the last one, one that is refused, a warming, one without symbols), two
processes, one feed and the pair, one trouble. `universe`: two companies, two
computations at once, three changes. `articles`: two URLs, two processes, three
symbols, articles of two and of too many symbols, one mishap. `datasets`: four
dates for labels (a horizon of one and of two, two labelled again) and three for
features, one mishap. `predictions`: two symbols, two dates. `models`: one fold,
two attempts, one command by hand, four sets of skipped steps (none, the training, the
baselines, the walk). `training`: two
commands, two epochs, two losses, two attempts. `neural`: two exporters, two
models, three exports.

**Fairness.** Update lock: a process in `acquire` goes on, and the daemon comes
back to its loop (`run_daily_maintenance` is tried again while the refresh is
due). Daemon: a daemon that is not killed takes its next step, except out of a
cycle, which may last for ever since the client of `auto.rs` has no timeout
(`auto.rs:1632`) and a child is waited for without one: `TermStops` and
`ReloadIsTaken` say that nothing else delays a signal. Commands and the operator
are not fair.
Daily refresh: the clock runs, the daemon loops and retries after an hour, a run
that is not killed goes on and an orphan ends; faults are bounded and not fair.
Auto-trade: the daemon's cycles never stop, which takes a network where every
request is answered or refused; stated as "a step of the cycle occurs
again and again", which is weak fairness here since some step of a cycle is always
possible. Nothing is assumed of the broker or the owner. The
parts of `MCTradingApi` and `MCMarketMl` have safety properties only and no fairness.

The runs of the first three subjects and of the components switch the deadlock
check off: without a running daemon and with all commands done, at the last
date, or when a part has used up its bounds, the system may rest. In AutoTrade the next cycle is always possible and deadlock is checked.

Some properties are weaker than one would write down first, because the code
keeps no more; each exception is a name in the module:

* `SellsAreCovered`, a part of `TradesAreCovered`, excepts a symbol that was sold
  at the broker since the snapshot, one with two rows, one whose exit went
  unrecorded or was recorded without an id, and a row the snapshot shows no shares of (finding 4). `NoDoubleBuy`
  and `PositionLimit` except a symbol whose buy came *adrift*: its reply was lost or had no id,
  its row was closed by an earlier sell, or the owner untracked it in the same cycle
  that had seen no shares of it, before it looked for candidates. The last one was
  found by the proof of `NoDoubleBuy`: a run with a single position hides it.
* `HistoryIsKept` excepts the end of good-till-cancelled orders, and lists with two
  records of one time, which a page may cut apart.
* `ExpectedAreFetched` excepts bars that a scan asked for before the provider had
  them (`early`): those are covered for good. `RowsAreInTime` excepts rows that could
  not be computed when their date got its first features (`passed`), dates of a
  run that was broken off or was for one stock (`partial`), and labellings
  further apart than the dates that are labelled again (`sizes.apart`).
* `FoldsDoNotPredict` excepts pipelines that never trained, whose baselines were skipped or
  had no XGBoost (`excused`), whose files or models a command by hand wrote (`spoiled`),
  whose XGBoost model a kill left in part, or was `replaced` by an orphan's: a child
  that trains a fold goes on when the pipeline is killed, and when it saves after the
  baselines of the resumed attempt, a fold's model does predict.
* `TripsAreCounted` excepts trips whose row is not repaired yet, and those `overlooked`:
  the sale came after the sync that the repair rests on, or a part was sold on a later
  day before any cycle found the first (section 4). `NoReplacementBuy` excepts
  losses that no reconciliation had seen (`told`).
* `ServersAreFound` excepts a start that met a server coming or going, or files that
  were removed under a newer server (`overlapped`); `ReportTellsOfModel` a training
  that was not `alone`; `ArticlesCountOnce` pairs whose statement failed (`missed`)
  or is still to come.
* `NeuralEngineRunsTheModel` excepts an artifact that an export has named after a model
  was saved under it, until a later export begins (`overtaken`), and an inference whose
  model is saved anew between its check and its run: it may run the new model's artifact.
* `ChartsAreCurrent` holds an answer to the fetch it rests on only where that fetch
  asked for all of the window, and lets an overlapping fetch that was answered
  earlier and is stored later take a bar back.

## 4. Where code and documentation disagree

1. **Two updates at a time** (`update_lock_race`). `README.md:271`: "Only one
   long update can run at a time." Two processes that find the same stale file
   can both get a guard: the second unlinks the file the first has created.
2. **A pause that does not pause** (`daemon_reload_spin`).
   `docs/DEBUGGING.md:41`: invalid config "pauses ... safely". A reload with an
   invalid config leaves `RELOAD` set, and each sleep ends at once.
3. **A stamp without its bars** (`daily_refresh_stale`).
   `docs/CONFIGURATION.md:229`: the maintenance refreshes bars and then stamps. A
   checkpoint from an earlier date skips the bars step on the later one.
4. **An exit without a position** (`auto_trade_short`). `README.md:60`: rows are
   reconciled so that they "do not submit invalid short sells". A row kept
   because its buy may still fill is given to the exit loop all the same.
5. **A second buy** (`auto_trade_twice`). The comment at `auto.rs:6913`
   promises no buy of a symbol with an open or pending position. The entry time
   of a new row is the time the cycle began; an exit that filled after that time
   closes the new row.

Each run ends with the trace.

Further disagreements, met while modelling and without a run of their own; the
modules follow the code:

* `docs/USAGE.md:460` and `README.md:258-260` say that a lagging benchmark does
  not cap the catch-up of bars. With the benchmark two or more dates behind, the
  dates after the last local bar are not expected when any bar of them is there
  (`main.rs:7962`).
* `docs/USAGE.md:396` says "Overwrite the latest local bar date"; dates that
  are covered are not asked for again.
* `docs/USAGE.md:677-681` reconciles paper fills "as one paper
  simulation universe", blocked "by tax universe and symbol, not by account"; `stock buy` looks at the selling account only (`main.rs:5148`).
* `docs/API.md:225-226` says "There is no response cache yet"; GET answers are
  kept for a few seconds (`api.rs:7102`).
* `compliance.rs:22-26` speaks of avoiding the day-trade trigger; all exits of a
  cycle are judged before any is counted, and five calendar days are looked back.
* "Records day trade for audit and compliance", the comment of `record_day_trade`
  (`auto.rs:6085`) says; it is called for the latest sale that the sync of the cycle knew
  (`auto.rs:4832`, `4911`). An exit that fills between the sync (`auto.rs:7201`) and
  `GET /positions` (`auto.rs:6362`) has its row closed without a day trade, and closed
  rows are not visited again; so do parts sold on two days before a cycle runs.
* `docs/CONFIGURATION.md:148-168` speaks of consecutive cycles; a cycle that finds
  no price neither counts nor resets.
* `docs/CONFIGURATION.md:565` says that manual subscriptions are kept; `feeds add`
  of a managed symbol answers "already subscribed" and leaves it managed.
* `docs/USAGE.md:561` and `docs/CONFIGURATION.md:519` let waves with a timeout or
  an error narrow a source; the sources answer a refusal with no articles, so
  that only timeouts and errors of the database are seen.
* "Legacy RSS symbol lists mixed a requested base ticker with noisy free-text guesses",
  says the comment at `main.rs:4499`: the migration of old articles counts those of
  Yahoo and Google for the requested symbol only, so for no pair (`main.rs:4500`, `4551`).
  `detect_co_mentions` (`main.rs:11175`) still counts new ones for every pair that such a
  list mentions. Strengths from before and after the migration follow two rules;
  `ArticlesCountOnce` is about the second and leaves the migration out.
* `docs/CONFIGURATION.md:199` says that the warming uses the charts' intervals and
  that "One-minute bars use that cadence"; the warmed timeframes begin at five
  minutes (`main.rs:6806`), all with a freshness of at least 300 seconds, so the
  configured 30-300 seconds change nothing there (`main.rs:6922`).
* `docs/API.md:652-653` lets the cache counters tell whether requests "require provider
  fetches"; an answer from old rows after the provider gave nothing counts as a
  cache hit (`api.rs:6905`), and rows that a warming stores are not counted.
* `best_epoch` of the report names the best epoch; on the CPU without early
  stopping the saved weights are the last epoch's (`lstm.rs:1518`).
* The comment at `ml.rs:7394` says "Load LGB predictions for target date"; the column
  it reads holds the earlier ensemble when `ml ensemble` is run again for a date
  without `ml predict` in between, so that an ensemble enters an ensemble.
* `ml walk-forward` by hand leaves the last fold's XGBoost model under the
  production path (`ml.rs:4360`) until the next training.


## 5. The proofs

They hold for every value of the constants that satisfies the named assumption of the
module (*Assumptions*, below).

**UpdateLock_proofs.** `TypeOK` is inductive by itself. For the refinement,
`IInv` adds `WatcherInv` (a watcher is at work only for a command that has a
guard or had it) and `Exclusive` (while nothing was misremoved, the path
names the file of every process that uses one). `Exclusive` is what makes
`Create` a `Take`: `create_new` fails while the path is named, hence while anybody
uses it. Then `LockImplementsSlot` maps `WriteOk` to `Take`, the removals and
deaths to `Leave` or `Break`, and all else to a stutter. `VerdictIsSound` and
`LockNeverLeaks` follow from `FileInv`, which adds what verdicts and files say of
lives: a file never names a life to come (`LivesInv`), a verdict names one that
has ended (`VerdictInv`), and a working process has a complete file (`TextInv`).

**Daemon_proofs.** `IInv` is the conjunction of `TypeOK`, `Locked` (whoever is
past the lock holds the flock), `PidFile` (what the pid file can be at each point),
`OwnStatus`, `Started` (commands hold pids of daemons that were started),
`LateUnlink` (a command about to unlink has seen its pid dead) and `Cleaned` (what
is left if nobody was killed). `Locked` alone gives `OneDaemonAtATime`; the others
are needed since a command may delete the file between any two steps of a daemon.

**DailyRefresh_proofs.** `IInv` has two halves. `Always` holds whatever happens:
`LocksHeld` (a command at work, or a daemon with a child, holds the lock),
`ChildRuns` (a child never marks, and ends well with every step done),
`DateHasPassed` (the daemon works for a date that was due) and `StampWasDue` (so is the
date of the stamp). `Alone` holds until somebody
overlapped with an orphan of a crash, at work or after its end and before the stamp: `OneOpened` (one run at a time has opened the
checkpoint), `OwnCheckpoint` (the file is what that run holds in memory), `OwnStep`,
`EndedWhole`, `DoneIsFresh` (what a checkpoint has as done was done since the last
stamp, by runs of its profile) and `ChildHasBars` (a child that resumed nothing works
with the bars of the daemon's date). `OneOpened` is the heart: with it every write
of the checkpoint is by its only owner. The chain of dates in `ChildHasBars` rests on
`LatestIsLatest` (no completed date is later than the one a step begins with) and
`NextIsFirst` (the step to do is the least not done), both by `DataLemmas`. From
`IInv`: `RefreshIsTrue`, and of each step `StampBacksWholePipeline` and
`StampIsFreshUnlessResumed`.

**Api_proofs.** *Requests.* For any number of slots and any limits. The counters are
not set but raised and lowered by atomic operations, one by one; `ApiInv` ties each
to the cardinality of the set of requests that are past its compare-exchange and not
past its decrement, with the place from which the counter of long requests is lowered
held by long requests only. `OneSlot` and `GoesTo` say how a step of a request
changes these sets, so that a client that leaves at any step gives back what it holds,
once (`CountersAreExact`). `RecentInv` adds clocks: a child does not outlast its
timeout, and an answer that is kept was read within a timeout of being stored;
`AnswersAreRecent` follows. *Connections.* `LinkInv` counts in the same way the open
connections of each transport and the streams, where a connection that ends takes
with it its requests or not (`PlacesAreExact`). `RequestsStand` says what a request may
rely on: over TCP its connection is still counted and has no other; one over HTTP/3 may
have outlived its connection. *Servers.* `ServerInv` has `KnownServers` (pid files and
commands name servers that were started), `ShellsOK` (a command that removes files
has seen its server gone) and, while no command met a server that comes or goes,
`OneServer`: one of a kind lives, its pid file names it and its address is its own,
each from the step that makes it so. `ServersAreFound` is the part of it that a
client relies on.

The run's other parts are in `Records_proofs`. `PartsKeepTheirSpecs` says that a behaviour
of `MCTradingApi` is one of each part, so that every theorem about a part is one about
the run; `TypesStayCorrect` is `TypesOK` put together from the types of the parts.

**MarketMl_proofs.** *Feeds.* `UniverseInv`: what the owner added stays a manual
subscription, through a reconciliation with an old list; a fingerprint is behind
the prices it is stored with (`UniverseIsTrue`). `FeedInv`: the strength of a pair, the
sightings of it lost to a kill and those that syncers have stored but not counted yet
add up to the stored articles that hold it; only a syncer that counts has any.
`Sums` puts `ArticlesCountOnce` in terms of these finite sets.
`FeedsAreTrue` is both. *Neural engine.* `NeuralInv`: `ReadsOK` (what an export has
read is the model, unless a training saved in between), `NamesOK` (no metadata
name a model that is not saved yet), `ArtifactOK` (what is packed and compiled is
the model whenever it is named, by the metadata or by an export that has loaded them) and
`VettedOK` (so it is for the model that an inference has checked, until it is run), hence
`NeuralEngineRunsTheModel`. *Training.*
`TrainInv`: `LoopOK` (the best loss of the loop is within `MinDelta` of the least
one, from the first epoch on) and `Leaves` (what a training that is alone has
left in the files at each point), hence `ReportTellsOfModel`. *Predictions.* `Ranked` of every
row is kept by each rewrite, for any sets of models and rows
(`RankMatchesQuintile`). *Scan.* `ScanInv`: every date within a recorded coverage is known,
and what a scan expects of that which the provider had is known or still to be asked for;
`CollapsedCovers` and `ExpectedInRange` are the arithmetic of gaps and ranges
(`ExpectedAreFetched`). *Rows.* `RowsInv` has a half for each job. `LabelsInv`: the far
label of a row whose bars came in time is set if the last labelling could know it; the
step is a count. A row that the last labelling could not have labelled is, while two
labellings are not too far apart, followed by fewer than `Recent + Horizon` dates
(`DatesSince`), so it is among the dates labelled again (`NewestOfEligible`), and its label
is the bar `LongHorizon` dates later since no bar between is missing (`FarthestLabel`).
`FeaturesInv`: a date that has features has all that it owes, in ranks, but for a run that
is at it, which has stored those of the stocks behind it (`RowsAreInTime`). *Folds.*
`ModelsInv` has `ProcessesOK` (the place of a process fits its step, its
set and the steps still to do), `FilesAreOwn` (the pipeline's file of all years is
written by itself, and whole when it remembers it), `BaselinesInTime` (the baselines are done
after the folds that write to the same path, and before anything is predicted; the
order of the steps is in lemmas of its own) and `ModelsAreOwn` (what the completed steps left
in the models, until an orphan replaces the XGBoost one), hence `FoldsDoNotPredict`. The proof found that a pipeline that skips its
training must be an exception, and that the end of a pipeline is not the end of its last step.
*Charts.* `ChartsInv` has `RowsAgree` (every bar of the fetch that stored a row is still
there, and some row of it was of that answer or a later one: stores replace rows and never
remove any) and `Trusts` (so it is for the rows that a command found fresh, and one in
its window was fetched no earlier). `ProcessStays` says that newer rows keep both,
whoever stored them; `CacheOwes` that an answer then owes nothing, where `LastOfMany`
counts the last bars of a window that the limit leaves (`ChartsAreCurrent`). *Types.* Those of
a part need its bounds: no attempt has more runs than the counters allow, no training
more epochs (`RunBounded`, `TrainBounded`); the stored rows are finite sets of what a date can
have (`CellsAreFinite`). `PartsKeepTheirSpecs` and `TypesStayCorrect` are as in `Api_proofs`,
for `MCMarketMl`.

**Records_proofs.** *Sync.* For any lists, page sizes, renames and failed calls.
`SyncInv` has, besides types, `ListTrue` and `BeganTrue` (what the broker's list is and how
it grows), `NamesTrue` (an account has rows under one name with the broker's id),
`NoHoles` (no record below a row is missing), `OpenAreLate` (no cursor steps over a
row that may be out of date: it is less than the lookback of a day order behind) and
`ReadUpTo` (while pages are read, everything up to the cursor is stored and up to
date). `FirstPage` is what a page of an ordered list is; `HistoryIsKept` is what is left
when a sync has ended well. *Exits.* `ExitInv` is that the counters of a row
`Tell` what its whole history of evaluations does: one lemma, `CountingTells`, for an
evaluation, one, `DecisionAgrees`, for the decision (`DecidedByHistory`); the reasons
without a counter change neither. *Day trades.*
`DayInv` adds `SalesOfRow` to `TripsAreCounted`: what a cycle knows of the history is of before,
shares have an open row, and a row that counts more than there are lost them to a sale
since its entry. `ReconcilesCount` and `SoldIsLatest` are its two steps. *Taxes.* `YearInv` says of either class that the taxable amount is the
highest of the running sums of the nets that counted, and the carried loss what the
present sum lies below it; `MonthKeepsClass` is the step for a class
(`LossesOffsetOnce`). *Windows.* The lots of a reconciliation are a fold over the fills;
`LossSalesByFill` says what the lots are after each fill, and `LotsAreShares` that there are
as many as the accounts of the universe have shares, each at the price of a known
purchase. The second is where no account may sell more than it has, as far as is known:
`WashInv` carries `Covered` (so it is of all fills) and `Closed` (a sync stores
everything an account did up to then), and `KnownIsCovered` puts them together. So a sale
below every earlier price takes only lots above its own (`LossesAreFound`), and
`WashInv` has `LossesHaveWindows` for the fills that a reconciliation had before it, besides
`WindowsTrue`; neither the age of a window nor a change of the country takes one away too soon
(`NoReplacementBuy`). *Matching.* `MatchingInv`, the types and the fills in the
order of their days, is all that the steps keep; the rest is about what the loops make of any such
fills. Each loop is met step by step (`LoopExists`, `MatchAllByStep`, `IsPoolRun`,
`IsHmrcRun`), and each step `Follows` the one before: what a fill or the pool loses is what some
match gains. So quantities balance, and `Books` says after every day what holds of
the days before it: a sale with shares left has found the purchases of its own day empty,
then its replacements, and the pool has given no more than the earlier purchases put in. A
rule is served greedily (`RuleServed`): after the loop a sale it names is filled or the
purchase is used up. For the periods, the run over the fills up to the end and the
window and the run over all of them `Agree` on the fills that the first has loaded, from
loop to loop, since no sale up to the end reaches beyond them; first-in-first-out needs
that fills are in order besides. `SharesIdentified` puts both together.

**AutoTrade_proofs.** *Orders.* The broker counts: what its live orders have left is a
sum over the finite set of symbols and orders (`UnfilledIsSum`), and `UnfilledMoves` says
how it changes with one order. `PlaceKeeps`, `FillKeeps`, `ExpireKeeps` and `ByHandKeeps`
follow: with a broker that refuses uncovered sells, live sells never exceed the shares
(`NothingShort`). *Rows.* `LoadedRows` is what reconcile and recover together make of the
rows: no row gets another symbol, no closed row opens, a row that is open afterwards has
its exit as before, and at most the shares that the snapshot shows if it shows any.
*Types.* `TypeInv` is inductive for any number of processes (`AutoTypeCorrect`); besides
`TypeOK` it says at which places a process holds a row or an order in memory.
*Covered exits.* `SellsAreCovered` speaks of the moment of a decision only, and rests on
what four things of different age say of each other. `CoverInv` adds: the copy of the
orders is of a moment before the broker's (`SnapIsPast`: an order that has ended never
lives again, so that an exit the copy has as live may have ended but not the other way
round); rows name orders that exist (`ExitsExist`); a live sell is the exit of an open
row, unless it is about to be recorded or was lost (`ExitsKnown`); the exits of the rows that
a cycle works on are in the copy (`ExitsSynced`); and what the cycle has in memory is true of rows
and shares as far as an exit needs it (`MemoryTrue`). The heart is `ExitsKnown` through
`Load`: a row whose exit is live cannot be closed, for its shares are still there
(`NothingShort`) and the snapshot shows them. `OneRow` then reads off `SellsAreCovered`: a
live sell of the symbol would be the exit of its only row, which the copy shows as live
and `ExitActive` excludes. `TradesStayCovered` is for a single process and `~MayShort`, like the
run: a second process's sell is not in the memory of the first, and a short sale
leaves a live sell behind a row that the next reconciliation closes (finding 4). *Named
orders.* `OrdersAreNamed`, the other half of `TradesAreCovered`, holds for any number of
processes (`OrdersStayNamed`): `NamedInv` adds that what a process has `InHand` (its copy
of the rows, the order it has just placed) names orders of their own symbol and side, and
every row that reconcile and recover write `Descends` from one that was read.
*Buys.* For one process. `BuyInv`: a live buy is that of an open row, or about to be
recorded, or of a symbol adrift (`BuysKnown`); what the cycle takes for free has no shares
and no row (`FreeAreFree`); the copy of the orders is of a moment before, when no live order
was filled (`CopyIsPast`). Without `adrift` it is not inductive: an owner may untrack a row
between the snapshot that showed no shares and the search for candidates.
`BuysAreOnce` follows, for a second buy would be of a symbol that is free. *Room.* `RoomInv`
adds that the symbols held or being bought leave the slots that the cycle has counted
(`RoomIsLeft`); `AccountedBy` says that such symbols grow by new buys only, so fills,
expiries and the owner's sells leave room (`PositionsAreLimited`). *Cash.* `CashInv` adds
`CashIsLeft`: a cycle reads the orders, then the account, then the positions, so that a buy
that fills between two reads is deducted twice rather than not at all, and what remains is
at most the cash less all live buys (`Unspent`). `GuardBounds` is the arithmetic of
`cash_only_guard` (`BuysArePaid`).

**DataLemmas.** A set of naturals has a least element, and one with a bound a greatest;
what `Min` and `Max` choose is that element. The sum of a function over a finite set, which
`MapThenSumSet` takes by choosing an order, is the same in every order, and changes by an
element's own value when the element is added (`SumsAgree`, `SumOf`). It grows with the
function and moves with one of its values (`SumGrows`, `SumMoves`); `SumsOfSymbols` and
`WorthIsSum` put the sums of `Broker` and `AutoTrade` in these terms, and a sum over two parts is that of the parts
(`SumOfParts`). A fold over a list has a value
for every beginning of it, each from the one before (`FoldExists`), and so has a recursive
function over the numbers up to a bound (`LoopExists`): that is how a proof speaks of a loop of
the code. Where a proof needs induction over data, it takes the least
counterexample.

**Assumptions.** What the constants are must be said where a proof relies on it: model
values that differ (`NamesAssumption`, `PidsAssumption`); finite
sets of slots, clients, addresses, syncers and accounts (they are counted) and of symbols (orders are
summed over them); levels with the stop
below the target (`ExitAssumption`, as the configuration gives them); losses below
the initial `f32::INFINITY` by more than `MinDelta` (`TrainingAssumption`); a pipeline with a
step and market days among the days (`DailyAssumption`); years that are not named like the
other dataset files (`ModelsAssumption`); labels that reach beyond the nearest horizon by
fewer dates than are labelled again (`DatasetsAssumption`: 20 - 5 < 20); windows and limits
that are numbers (`ChartAssumption`); commands that name a
server's tasks (`ServersAssumption`). The bounds of the runs (`Max...`) are naturals, no
more. TLC evaluates each of them.

**Model-checked only.** Every safety property and every type invariant of the passing runs is
stated by a theorem. Liveness rests on fairness and ENABLED and stays with the runs, and so
does `EstimatesAreByTheBracket`, which compares estimates with a tax computed unit by
unit for bounded incomes.

## 6. Not modelled

Without state that the properties concern: logging, origin labels and progress
bars; parsing of the configuration; routing of the API, sessions and login; TLS,
certificates and DNS checks; the launch-at-login agent; quotes, screens,
suggestions, movers and news queries; reports (`tax wash-sales`, `pdt`); build
files and the web UI. Numeric: training as such, indicators, metrics, tables of
tax rates. The HTTP client and the test broker (`fake_alpaca.rs`) are I/O;
`Broker` is what `auto.rs` relies on.

Left out of modelled parts: saved tax estimates and the foreign net of a Brazilian
resident; the counters of bar results that `api status` shows; the time trigger of
the daily refresh; `replaced` orders, fractional shares, several accounts, buys of
the owner and two traders at once in `AutoTrade` (`auto run` beside the daemon,
`auto.rs:7143`, the hazard without a property).

## 7. Plan

Done, in this order, the riskiest first where they build on each other:
`UpdateSlot` and `UpdateLock`; `Daemon`; `DailyRefresh` (which uses the slot as
promised); `Broker` and `AutoTrade`; what the cycle rests on (`ProviderSync`,
`ExitConfirmation`, `WashSales`, `DayTrades`); taxes (`ShareMatching`, `TaxYear`); the
API (`ApiRequests`, `ApiServer`, `SslConnections`); market data (`BarScan`,
`BarCache`, `FeedUniverse`, `FeedArticles`); the ML pipeline (`MlDatasets`,
`MlPredictions`, `ModelTraining`, `LstmTraining`, `NeuralArtifact`).

Next:

1. Two traders in `AutoTrade`, on one symbol without faults.
2. An abstract account ("what was bought, once, is watched until it is sold")
   that `AutoTrade` implements.
3. `ExitConfirmation` used for `Sell`, so that a cycle's wish to exit is the one
   the counters give.
4. Saved tax estimates, and their refresh beside a sync.
5. The test broker against `Broker`: which of its answers a real broker gives.

Theorems to prove next: what holds of two auto-trade processes at once, with the exceptions
it needs.
