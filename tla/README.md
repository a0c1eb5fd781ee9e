# Verification of the trading project

TLA+ models of the automatic stock trading system in `src/`, TLC runs that check them on small
instances, and TLAPS proofs of what matters most for every instance. Paths below are relative to
the repository (`src/...` is the Python package `src/src/...`).

1. The system · 2. The modules · 3. The runs · 4. Divergences and observations · 5. The proofs ·
6. What is only model-checked · 7. What is not modelled

## 1. The system

A day of the system runs three programs in sequence, and others beside and after them:

| program | when | what it does |
|---|---|---|
| screening (`entrypoints/run_screening.py`) | evening before | ranks stocks, writes the screening result |
| filtering (`entrypoints/run_filtering.py`) | 9:30 | reads boards, writes the filter result of the day |
| midday filtering (`entrypoints/run_midday_filtering.py`) | 12:00 | the same measurement again, for verification only |
| trading (`entrypoints/run_trading.py`) | session | watches the filter result, orders, liquidates from 15:20, ends at 15:30 |
| ingestion, analysis, diary, review, backtest, backfill | after close | J-Quants data, statistics, texts, simulations, minute bars |

Trading runs in *paper* mode (an account simulated by `PaperOrderClient`) or in *live* mode
(orders to the kabu Station API). Screening, filtering and trading exclude each other by one file
lock; they are connected only by the files they write.

### Inventory

The status and what is left out of each component are in `PROJECT.json` under `components`; every
hazard found while reading, with its line and the properties that cover it, under `hazards`.
"partly" in that file means that something of the component that changes state, or a variant of
it, is left to inputs; the note says what.

| component | state it keeps | what is hard | what makes it correct | module |
|---|---|---|---|---|
| trading loop `application/trading_usecase.py` | order history, account view, capital of the day, save streaks, kill switch flags | crash between two files, failing saves, restarts of one day, time and stop file changing under a pass | no duplicate buy, position and order limits over restarts, flat at the end, one capital a day | `TradingLoop`, `DailyLedger` |
| order rules `domain/rules.py`, decision of a symbol | highest prices, lots, refusals | order of the gates, restart forgets | a due stop is carried out and no other, each refusal told | `SymbolDecision` |
| paper client `infrastructure/paper/paper_order_client.py` | cash, holdings, costs, profit of the day, prices, state file | restart without prices, day change of the profit | money is conserved, cash never negative | `PaperAccount` |
| storage `infrastructure/persistence/storage.py` | files | failure of one step | a file is old or new, never a mixture | in every module with files |
| token provider, request handler | token, last attempt, cooldown, failed flag | late 401 of an old token, retries, threads | token calls are spaced, the newest token is kept | `TokenProvider` |
| board cache `infrastructure/kabu/registration_aware_board_cache.py` | cache, requests in flight, registrations since the last clearing | waiters, failed clearing | one fetch per symbol and round, at most `batch_size` registrations, no clearing under a fetch | `BoardCache` |
| J-Quants raw store, canonical store, ingestion | ledger (SQLite), staging, generations, pointers | crash between files, ledger and pointer; two processes | the pointers name complete, confirmed generations | `RawStore`, `SingleDayIngestion`, `MirroredPublication` |
| J-Quants client | rate limiter, page keys | several clients, repeated keys | requests keep their distance, pages are consecutive | `JQuantsClient` |
| decision journal | pending counts, table | failed flush | every record counted once | `DecisionJournal` |
| filter decisions | events: observing, finalized | two judgements, days without a run, failing calls | judged once, by the right prices | `FilterDecisions` |
| shadow positions | tracked lots, checkpoints | restart | checkpoint and settlement once | `ShadowPositions` |
| process lock, result files | lock file, results of the days | order of the programs, repetition, dates by hand | trading uses only what was selected for today | `MarketDay` |
| screening | results, answers of the day | batches, failing calls, repetition | only confirmed stocks, asked once | `Screening` |
| filtering | retry rounds, deadline | deadline against retry | each candidate decided once | `Filtering` |
| midday filtering | rows | deadline | whole results only | `MiddayFiltering` |
| market regime | answers, assessment | stale or unfinished bars | judged on the session before | `MarketRegime` |
| minute bars, backfill | bar files, quality report | three writers without a lock | no bar is lost | `MinuteBars`, `MinuteBackfill` |
| backtest | book, snapshot | order of exits, what may be known | the books balance, a replay repeats | `Backtest`, `BacktestSnapshot`, `ReplayedDays` |
| reports, analysis | reports, status files, rows, site | death between file and row, repetition | what is told is what was | `SessionReports`, `DailyAnalysis`, `DayErrors` |
| strategy review | hypotheses, feedback | answers of a language model | judged on data, nothing lost | `HypothesisReview` |
| maintenance and analysis scripts | corrected reports, tables | death between files | first content kept, sums agree | `ReportRecompute`, `UnsoldDiagnosis`, `BandComparison` |
| notification, live orders | none | – | – | not modelled (section 7) |

How they interact. The loop calls the paper client, the journal, the events and the tracker in one
thread; they share the process and its deaths, not state. Filtering reads boards through the board
cache by a pool of threads, every board request goes through the request handler, and that through
the token provider. Screening, filtering and trading meet in the result files, the reports read
the files of the loop, and the scripts read the reports. So the modules compose along four lines:
`TradingLoop` under the promise `DailyLedger`; raw and canonical store in one module under
`MirroredPublication`; the records that survive the loop's process in `MCPaperDay`; and the
programs that meet only in files, each with its files as its inputs.

## 2. The modules

| module | what it is |
|---|---|
| `DailyLedger` | abstract specification: what the duplicate check and the daily order cap promise |
| `TradingLoop`, `MCTradingLoop` | the paper trading process with its files, crashes and restarts |
| `TokenProvider`, `BoardCache`, `MCBoardCache`, `BoardCache_proofs` | the threads of the kabu API |
| `MirroredPublication` | abstract specification: what two stores of a dataset promise together |
| `RawStore`, `SingleDayIngestion`, `MCIngestion`, `SingleDayIngestion_proofs` | the J-Quants stores and the run of a day |
| `TradingDays` | business days and the process of the loop, for the next modules |
| `PaperAccount` | the money |
| `DecisionJournal`, `ShadowPositions`, `FilterDecisions` | the records of the loop |
| `MCPaperDay` | account, shadow positions and events, one machine a behaviour |
| `TradingProcess_proofs` | theorems of `TokenProvider`, `PaperAccount`, the records and the composition `MCPaperDay` |
| `MarketDay` | programs and result files |
| `Filtering`, `Screening`, `MiddayFiltering` | the three selections |
| `SymbolDecision`, `MarketRegime`, `Backtest`, `BacktestSnapshot` | decisions, in the loop and simulated |
| `MinuteBars`, `JQuantsClient` | market data |
| `DayPrograms_proofs` | theorems of `MinuteBars`, `JQuantsClient`, `MarketRegime`, `SymbolDecision`, `BacktestSnapshot`, `Backtest` |
| `MCDay` | the ten machines of a day, one a behaviour |
| `DaySelections_proofs` | theorems of `MarketDay`, the three selections and the composition `MCDay` |
| `SessionReports`, `DailyAnalysis`, `DayErrors`, `HypothesisReview`, `ReportRecompute`, `UnsoldDiagnosis`, `ReplayedDays`, `BandComparison`, `MinuteBackfill` | what is told of the days |
| `MCEvening` | the trading loop and these nine machines, one a behaviour |
| `EveningPrograms_proofs` | theorems of `TradingLoop`, `SessionReports`, `MinuteBackfill`, `ReplayedDays`, `HypothesisReview`, `UnsoldDiagnosis` |
| `EveningReports_proofs` | theorems of `DayErrors`, `DailyAnalysis`, `ReportRecompute`, `BandComparison` and the composition `MCEvening` |
| `ListComprehension` | Python's `[f(x) for x in xs if p(x)]`, the nested `for` and `sum`, by the folds of the community modules |
| `FoldLemmas` | lemmas about sums over finite sets, folds over sequences and the comprehensions, for the `_proofs` modules |

`MCDay`, `MCEvening` and `MCPaperDay` put machines side by side that share no variable. A behaviour
chooses one `machine` at the start and runs it; the variables of the others keep their initial
value, of which there is then one. So a run explores the sum of their state spaces, not the
product, and a property of the composition is the conjunction of `machine = "..." => P`: it says of
each machine exactly what a run of its own would. Nothing is lost, because the machines do not
interact; where components do interact, they are one machine.

### TradingLoop

One process, its files and its world. How the state corresponds to the code:

| variables | code |
|---|---|
| `day`, `clock`, `stopFile` | the calendar, the three phases of the session the code compares with, `EMERGENCY_STOP_FILE` |
| `accountFile`, `historyFile`, `baselineFile` | `paper_account_state.json`, `order_history.json`, `kill_switch_baseline.json` |
| `stage`, `now`, `todo` | where `run` is, `_current_now`, the symbols a `for` loop has left |
| `order` | an order `place_market_order` accepted and `_register_order` has not yet recorded |
| `holdings`, `history`, `baseline`, `baselineUnsaved` | `PaperOrderClient.holdings`, `order_history`, `daily_starting_capital`, `_kill_switch_baseline_unsaved` |
| `failures`, `notified` | `_state_save_failure_counts`, `_save_failure_notified_sources` |
| `killed`, `emergency`, `unresolved` | kill switch flags, the list `unresolved` of the liquidation |
| `run`, `bought`, `lost` | history variables: starts, BUYs accepted today, BUYs of today forgotten |

Actions: `Start` is `main` and `run` up to the loop. `EmergencyStop`, `BeginPass`, `EndPass` are
the top and the end of the `while` loop. For one symbol of a pass, `PassOver` is every path that
ends without state change, `ApiLimitUnavailable` and `BuyTripsKillSwitch` trip the kill switch,
`BuyRefusedAfterRetry` is a BUY refused after `_is_new_buy_halted_by_save_failure` retried the
saves, `PlaceBuy` and `PlaceSell` are accepted orders. `RegisterOrder` is `_register_order`: a
separate step, because a crash can come between the account file and the history file.
`LiquidatePosition`, `LiquidationFails`, `EndLiquidation` are `_liquidate_all_positions`; `Report`
is `_send_end_of_day_report` with its reload of the history. `Crash`, `Tick`, `NextDay` and
`ToggleStopFile` are the world. Every save takes a Boolean: it replaces the file or fails.

Abstractions: SELL always sells the whole holding (the code passes the held quantity), so a
holding is a symbol; what prices, indicators, the regime, the wallet and the budget decide is a
free choice of the action, so the model has every outcome the data could produce; an entry of a
past day plays no part in any gate but the 60-second lock, which the duplicate check of the same
day implies. Corrupt state files stop the start and change nothing. Where the code computes the
capital of the day, the model keeps which run computed it.

### DailyLedger

A ledger remembers the symbols bought today; `Buy` needs a symbol it does not remember and a free
place below the cap, `Forget` loses entries and counts them, `NewDay` empties it. `TradingLoop`
implements it with `remembered <- OnRecord`: the history in memory and the order in flight while
the process runs, the history file while it does not.

### TokenProvider

`infrastructure/kabu/token_provider.py` with the retry of `api/request_handler.py`.

| variables | code |
|---|---|
| `startToken` | the token `run_trading`/`run_filtering` got once and every caller puts in its headers |
| `token`, `sinceAttempt`, `cooldown`, `recoveryFailed`, `lock` | `_token`, `_last_attempt_at`, `_cooldown_until`, `_recovery_failed`, `_lock` while it is held over the call to `/token` |
| `pc`, `carried`, `resends` | where the request of a thread is, `new_token` of its retry, `retry_count` of the 429 loop |
| `disturbances`, `quiet`, `sinceFailure`, `newest` | bound and history variables |

The three branches of `recover_from_unauthorized` are three actions (`RecoverRefused`,
`RecoverReused`, `RecoverFetch`). A call to `/token` has two steps, because the station makes the
old token invalid (`Issue`) before the answer comes (`FetchSucceeds`) or is lost (`FetchFails`).
A token is known by what the station thinks of it: valid, or stale since another was issued.
Absolute times are kept as time passed and time left, so the clock needs no bound. The callers
keep the superseded start token in their headers, so after the first renewal each of their requests
gets a 401 first and is served by its retry, and the token is renewed again in every interval;
the model has that behaviour because the code does.

### BoardCache

`infrastructure/kabu/registration_aware_board_cache.py`.

| variables | code |
|---|---|
| `cache`, `rounds`, `inflight` | `_cache`, `_retry_round_results`, the keys of `_inflight` |
| `sinceClear`, `blocked` | `_requests_since_clear`, whether `_blocked_error` is set |
| `pc`, `request`, `sent` | where a worker is in `_fetch_current_board`, its arguments, a bound |
| `registered` | the registrations at the kabu Station |
| `fetches` | history: fetches of a symbol in a round |

What runs with `_condition` held is one action; the waits are not: `wait_for` releases it, so a
thread is `asleep` until `notify_all` makes it `woken`, and then looks at its predicate again. A
follower waits for the future of the thread that fetches its symbol. `Clear` covers the three
ends of a clearing: it fails (the station may have done it all the same), it succeeds and the
thread leaves, or it succeeds and the loop goes on to the fetch, all without releasing the
condition. `Refuse` is `should_start` or a set `_blocked_error`, both before a fetch.
The filtering gives each batch unique symbols, so two workers ask for one symbol only through the
class's interface, which promises to handle it and is modelled with it.

### RawStore, SingleDayIngestion, MirroredPublication

`RawStore` is `jquants_raw_store.py` for one dataset: a publication is spread over the directory of
an immutable generation, the row and the pending publication in SQLite (`row`, `pending`), and the
file `CURRENT` (`pointer`); every transaction, rename and read of one of them is a step, and a
process can die or a call fail before each. `Capture` claims, records pages, publishes the
generation, prepares, switches the pointer, confirms; `Recover` finds what a death left and goes
forward or back; `Resolve` is the reader that takes no lock and looks twice; `Open` is the
constructor, which adopts what older versions published. A generation is named by its content, as in
the code by its hash. `SingleDayIngestion` adds the run of a day in its modes and the canonical
store, named by the raw generation it was made from. `Damage` and `StoreDamage` destroy a file.
`MirroredPublication` says what both promise: one publication is confirmed after the other, rows
never make way for an empty answer, what is served is what is confirmed at that moment. The stores
implement it with `confirmed <- row.published`, `served <- canonical.current`.

### PaperAccount and TradingDays

`account` is the client's memory, `saved` its file, `prices` what `set_price` gave it, `market` the
truth it does not see; `capital` and `baseline` are the loop's. `profits` is a history variable: what
was realized on each day by the orders this account knows. `StartTrading` loads the file and warms
the prices of some boards; `InitializeCapital` and `RetryBaselineSave` are the capital of the day;
an order is executed and saved, or executed and not saved. Which symbol is bought when is left
open: the gates that do not read money are in `TradingLoop`. Rates are in basis points, prices such
that no product is rounded.

### DecisionJournal, ShadowPositions, FilterDecisions

The journal counts records by key in memory (`pending`) and adds them to the `table` in one
transaction that may fail; the snapshots of the account are written at the start and the end.
`ShadowPositions` extends it with the tracked lots (`tracked`), what is done of each (`done`), and
the restoration at the start, which may not be able to read the journal (`blind` days).
`FilterDecisions` has the rows of an event: the price range while it is observed, of its own day and
of all days, the judgement of the same day, that of a later start, and the final one. A call that
fails leaves the row; a run may end at any point.

### MarketDay

`holder` is `market_workflow_lock`, `screened` and `filtered` the result files by day, `basis`,
`preflight` and `watched` what a program has loaded. A program begins only if nobody holds the lock,
for today or a date given by hand; a file is written in place, so it can be `Torn`. The trading
loads the selection twice, by two rules (`LoadPreflight`, `LoadWatched`).

### Filtering, Screening, MiddayFiltering

`Filtering` is one thread that goes through the bands: read ahead, decide candidate after candidate,
read again in rounds what has no turnover until the cutoff, save unless the deadline passed. A board
is what the code tells apart of it; the cache is `BoardCache` as the waiting thread sees it. `wasted`
is a history variable. `Screening` registers in batches and asks the station for market and
regulation; answers are kept in a file for other bands and other runs of the day; any call may fail
and the run may die. A run with `--date` (`dated`) screens the primary band alone: the market comes
from the station and the regulation from a file of the past, no answer is kept (`JudgeDated`), and the
result goes into the file of the date given, which may be that of this day; `recomputed` is a history
variable that says so. `MiddayFiltering` fetches minute bars one candidate after the other until the
deadline, then evaluates the bands, the one the day is traded by before those that are compared
with it.

### SymbolDecision and MarketRegime

`Judge(s, in)` is one symbol in one pass: signal of the band, trailing stop, then the gates of a
purchase in the order of the code, and what is noted of a refusal; `in` is everything read from
outside (price, indicators, silent board, limits). `Restart` forgets the highest prices; the
liquidation sells or leaves each lot. Prices are in units of the average true range. `MarketRegime`
fetches two series with attempts, takes the most complete fresh answer, fills the end from minute
bars and judges; what cannot be judged is DANGER. An answer reaches further back (`OLDER`) than the
sessions asked for (`HISTORY`), and volatility (`WINDOW + 1` bars) and trend (`TREND` bars) are computed
from whatever bars it has: gaps matter for the choice of the answer only.

### Backtest, BacktestSnapshot

`Backtest` has both simulations: the replay, minute by minute for all symbols, and the fixed one,
day by day for one symbol after the other; a signal is an input limited by how many prices it needs.
`terms` are the parameters of a run: order type, delay, overnight positions, sizing by
`target_positions` or by the fixed `qty_per_trade`, signals from the bars of the minutes or from the
closes of the days before, and `stop_loss_ratio`, which is looked at together with the ATR stop.
The three passes over the symbols of a minute (stops, SELLs, BUYs) and the sale of what is left at
the end of a day are folds over `Replayed`, which names each symbol once, as the files of the
selections do.
`BacktestSnapshot` is the life of kept inputs: obtain, checkpoint, write, seal, simulate; and a later
run from a snapshot, while sources change and files are damaged.

### MinuteBars, JQuantsClient

`MinuteBars` is the file of one symbol and day and its three writers, each of which fetches, reads the
file, and replaces it by its own rule of merging; no lock is shared, and a writer may die in between.
`JQuantsClient` is several clients over one limiter: wait for the slot, request, answer, pause,
next page; the server answers anything, the same key over and over included.

### What is told of the days

`SessionReports`: reports at fixed times, notices of failing boards and login, the report of the end
with its reason, over restarts. `DailyAnalysis`: refresh of the cache, checks, one judgement per band
and pending day with a database row and a status file, publication with retry and probe.
`DayErrors`: log lines and request ids of timeouts, what the filtering says became of them, four forms
of the report. `HypothesisReview`: propose, plan, data, code, judge, feedback, where a language model
may answer anything. `ReportRecompute`: copies put aside, daily reports replaced, sums of weekly and
monthly reports following. `UnsoldDiagnosis`: the loop that did not sell and the diagnosis that looks
back, by minute bars or log lines. `ReplayedDays`: the loop replayed over past days with a clock that
jumps. `BandComparison`: the tables of bands, stage by stage. `MinuteBackfill`: three tiers of symbols
against the time. History variables are marked `(ghost)` in the modules.

What the proofs brought to light in these models, and what they say since:
- *The end of the session.* A report of the end whose last flush fails is written all the same, and the
  records that were pending go with the process (`EndReport`).
- *Unsold position.* That a sale which came late is classified as a failure holds when there are minute
  bars and the rules are met with the highest price since the purchase as well. The loop may remember
  less than that, and since either exit multiplier may be the larger one (the defaults of
  `config.py` widen the stop from the trigger on) its own stop can be the nearer one. `SaleMissedSeen`
  says so, and `ExitPairs` has a pair of each kind.
- *Review.* What the language model was asked is remembered as the run and the hypothesis, not its title:
  two hypotheses may have one title.

Their constants have named assumptions of what the configuration checks at a start and the programs
rely on: `THRESHOLD # 0` (`startup_validation.py`), positive exit multipliers, an order history in the
order of the days, at least one attempt to refresh and to probe, files that name each symbol once. The
lists of the models are comprehensions of `ListComprehension`, which can be reasoned about where
`SelectSeq`, a recursive operator of the standard modules, cannot.

## 3. The runs

Every property has a mutant in `PROJECT.json`: a plausible bug in the code it talks about, under
which its run finds it violated.

| run | machines and properties |
|---|---|
| `MCEvening` | the trading loop: `TypeOK`, `OrderLimits`, `CrashLossBounded`, `SavedOrReported`, `FlatAfterNormalEnd`, `BaselineKept`, `NoBuyOnceStopping`, `ImplementsLedger`; what is told of the days: `EveningTypeOK`, `EveningSound` |
| `MCTradingLoopLive` | the trading loop with overnight holding allowed, under fairness: `RunEnds`, `EmergencyStopFlattens` |
| `TokenProvider` | `TypeOK`, `OwnTokenNewest`, `TokenCallsSpaced`; under fairness `RequestsEnd`, `Recovers` |
| `MCBoardCache` | `TypeOK`, `RegistrationLimit`, `NoRepeatedFetch`, `NoClearUnderFetch`, `BoardKept`; under fairness `RequestsEnd` |
| `MCIngestion` | `TypeOK`, `Recoverable`, `ImplementsMirror`, `CompleteIsTrue`; under fairness `StoresConverge` |
| `MCPaperDay` | account, shadow positions, events: `PaperDayTypeOK`, `MoneyAccounted`, `JournalTrue`, `JudgedFairly`, `SettledForGood`; under fairness `RecordsSaved` |
| `MCDay` | ten machines: `DayTypeOK`, `SelectionsSound`, `SelectionTrusted`, `DecisionsSound`, `BarsKept`; under fairness `ProgramsEnd` |
| `DuplicateAfterRestart`, `KillSwitchKeepsHoldings`, `SelfInflictedCooldown`, `LossLimitSeesMarket`, `TrackedWhileHeld` | violations, section 4 |

`OrderLimits` is `DuplicateOnlyIfLost`, `PositionLimit` and `DailyOrderCap` together;
`SelectionsSound`, `DecisionsSound` and `EveningSound` are the `...Sound` properties of their
machines, each of which is a conjunction of named properties commented in its module.

`CHECK_DEADLOCK FALSE` is set where the model really stops: the last day is over, the last start is
used, every request is made, the program has ended. `TokenProvider` has no such end, and deadlock
is checked.

### Bounds, and why they are enough

*Trading loop.* Three symbols (symmetric) and two slots: the position limit refuses a third BUY; two
orders a day: the order cap refuses a BUY although a slot is free after a SELL. Threshold 1 and
`MaxFailures` 2 give streaks below, at and above the threshold; a failing save at the bound can only
succeed, which removes longer streaks and no shorter one. Two starts give a restart on the same day
and one on the next day; the second day is needed for yesterday's baseline, for holdings carried
overnight and for the reset of the counts. The loop makes any number of passes. For liveness two
symbols and one start are enough: a second start is a new run with the same obligations.

*Token provider.* Two threads: one fetches while the other waits for the lock or has an older answer
on its way. Interval 2 and backoff 3 differ, so that each is seen to end before the other; one resend
of a 429; two disturbances allow a token taken away while its answer is lost. *Board cache.* Three
threads, three symbols, one retry round and the limit 1: a fetch reaches the limit while two threads
wait at it; three requests are one for each thread, or all for one. Not symmetric, since liveness is
checked.

*Ingestion.* `StoresConverge` is about whatever runs there are: every run ends, and after one that has
its lock when nothing goes wrong any more nothing is pending and the canonical store follows the
confirmed publication, whatever the runs before it left behind. Two processes, contents `x` (good
rows), `y` (rows unfit for conversion) and `empty`, two runs, `MAX_TRIES` 2 for the reader that looks
again, and one disturbance (death, failing call, damage) at any step. The theorems have any number of
each.

*Paper day.* Two symbols, prices 100 and 200, cash 300, so that a second purchase is refused by money;
fee, slippage and loss limit of 10 % make each visible in whole numbers; two days with restarts, one
crash or failed save, three orders; two checkpoints; one day of observation after the event's own.

*Day.* Filtering: two bands with shared candidates, one retry round, a clock with the hours the code
compares. Screening: batches of one, two candidates wanted, two runs of the day, each with or without a
date. Market: two days, three written files. Midday: three bands, one of them compared only. Bars: two replacements by three
writers. Decision: two stocks, quotes 2 to 4 around the bands 2 and 3, cash and limit 4, one slot.
Backtest: two sessions of three instants, four courses of prices, six climates, two terms: one with
sizing by positions, signals from minutes and the ATR stop, one with a fixed quantity, signals from
days and both stops. Regime: three sessions asked for and one older, two bars for a volatility and
three for a trend, so that an answer with a gap still has a trend; two attempts. Snapshot: one change
of a source, two runs. Client: two clients, two keys,
two attempts, interval 1, backoff 2.

*Evening.* Session: four minutes, threshold 2, two starts. Analysis: two days, two analyses, one
mishap, two refreshes and two probes. Review: two reviews. Recompute: three recomputations, one death.
Unsold: closing at minute 5, a stop of 1 that widens to 3 and one
of 2 that narrows to 1. Replay: three days. Comparison: a family of studies chosen so that the
bands disagree, a price is missing, a signal has no market. Errors: two days, two lines, one listed.
Backfill: three days of files, one day fetched.

### Fairness

`TradingLoop`: weak, of the loop's next step (the code never waits for anything but network calls,
which have timeouts, and `sleep`) and of the clock. Nothing is assumed of crashes, of the operator, of
starts or of saves succeeding. `TokenProvider`: weak for the clock, for sending and for answers;
strong for the steps that take `_lock`, since another thread can have it whenever one looks, yet it is
free for most of every interval; nothing of failing calls. `BoardCache`: weak for every thread.
`SingleDayIngestion`: weak for the next step of a run, which waits for nothing but files, SQLite and
requests with a timeout; whether it succeeds is open. No run is assumed to start: an operator starts
each by hand with its date, and nothing in the code repeats one that failed.
`ShadowPositions`: weak for the flush that succeeds at the end of a round, since failures are bounded.
`MCDay`: weak for the steps of filtering, midday and each client, and for the client's time.

## 4. Divergences and observations

Runs whose property is what a document, comment or test says, and which TLC finds violated by what the
code does:

1. `DuplicateAfterRestart`: `README.md:135` says the state files prevent duplicate orders over
   restarts. The history is written after the account; a crash between them, or after a failed
   save, lets the next run buy the symbol again. `DuplicateOnlyIfLost` and `CrashLossBounded` say
   what does hold.
2. `KillSwitchKeepsHoldings`: `docs/detail_design/03-trading-loop-design.md:75` says everything is
   sold from 15:20 on. After an automatic kill switch the loop has ended before that time.
3. `SelfInflictedCooldown`: `src/config/config.py` (line 127) says the cooldown is for 401s that
   continue after the token was renewed, and is there because of other processes. With several
   workers a retry that carries the previous token gets a 401 because another worker renewed it,
   and its report starts the cooldown although the provider holds a valid token and no other
   process took part. With one thread this cannot happen (`SingleThread`, proved).
4. `LossLimitSeesMarket`: `docs/detail_design/03-trading-loop-design.md:224` and the docstring at
   `trading_usecase.py:1460` say that unrealized losses count for the daily limit. Prices of the paper
   account are set at the start and by orders only, so a falling market is not seen until the next
   order of the symbol.
5. `TrackedWhileHeld`: the restoration of the shadow positions goes over all held symbols
   (`trading_usecase.py:480`), and the `return` at line 532 ends it after the first.

Observed while modelling; the models have these behaviours, and no property forbids them:

- *Loop.* The end-of-day report loads the history file over the memory that a failed save kept
  (`trading_usecase.py:1156`, `:1870`). An additional purchase resets the held high; a symbol sold and
  bought again on one day cannot be stopped out on that day; an unknown API limit also stops sales; a
  wider profit-lock multiplier lowers the stop once the trigger is reached (ADR-0006). The reason that
  names the ATR stop is also recorded of purchases of more of what is held (`StopExitsAreSales`).
- *Board cache.* The limit is tested before `wait_for` only: a second waiter clears again after the
  first fetch of the first one. Registrations stay within the limit all the same (proved).
- *Filtering.* In a band that times out, records put aside for a retry are skipped but not counted;
  answers after a symbol that was not started in the same retry round are dropped
  (`filtering_usecase.py:256-260`). A filtering for a future date makes the trading of today refuse to
  start.
- *Screening.* A failed market or regulation check is kept for the whole day. A run with `--date` of
  this day writes the same primary result as the run of the afternoon
  (`src/entrypoints/run_screening.py:107-113`), with regulations that the station was not asked for,
  although the comment there says that they are not used in production (`本番の規制判定には使わない`);
  the filtering reads it like any other. `ConfirmedOnly` therefore holds of a result
  that was not made with a date.
- *Market regime.* A history with gaps is judged, with a warning, and a trend is found in it if 29 bars
  of any age are there (`market_regime_usecase.py:199-203`, `:217-238`): neither the volatility nor the
  relief of a level needs the sessions asked for to be complete.
- *Backtests.* The market regime is known before the bars it is computed from (documented in ADR-0007);
  the fixed simulation's stop uses the bar of the day; a replay may buy again on the day what the live
  duplicate check refuses; `TARGET_POSITIONS_LIMIT_SKIP` is never recorded
  (`docs/detail_design/05-backtest-design.md:141`). With `close_at_eod` the stop and SELL branches of
  `simulate_backtest` never run. The single-day check script ends with a `NameError`
  (`backtest_v2_single_day_check.py:243`).
- *Reports.* A second run of the day replaces the report with its own flags; a progress report that
  cannot be delivered is not repeated; the daily summary's count of unrecorded errors is always 0
  because the records are normalized twice; after a death between a daily and its weekly report a
  repeated recomputation does not correct the sums; the pending days of the standard band are not in
  the update of the cache. The diagnosis of an unsold position can raise false alarms when the loop
  was hindered, as ADR-0002 says.
- *Review.* A plan without internal data whose indices all fail is judged all the same; two equal
  hypothesis numbers end the run without feedback.
- *Minute bars.* The writers share no lock; `BarsKept` therefore says "unless two overlap".

## 5. The proofs

Eight modules hold theorems; each holds for every value of the constants its module's assumptions
allow. `PROJECT.json` lists the results under `theorems`. Every inductive invariant below was first
checked by TLC as an invariant of its machine (that of `ReportRecompute` with the reports which
`Coming` asks for computed from the plan, because TLC does not look for them among all integers). No
module of the project declares a `RECURSIVE` operator. Every safety invariant and action property of a
passing run is proved; section 6 has what is not.

The shape is the same everywhere. The initial state satisfies the inductive invariant; one lemma per
action says that the action keeps it, with one step per part the action can disturb; a lemma for
the actions that disturb none; one step or theorem joins them; and the properties follow, the action
properties from the invariant before the step.

### Trading loop

The first part of `EveningPrograms_proofs` proves, for every finite set of symbols, all the invariants,
action properties and the refinement of `DailyLedger` that `MCEvening` checks of the loop. The inductive
invariant (`LoopKeepsInvariant`):

    IInv == TypeOK /\ InFlightInv /\ StoppingInv /\ FlatInv /\ LedgerInv /\ DailyOrderCap
            /\ StreakInv /\ PositionLimit /\ HistoryInv /\ AccountInv /\ BaselineInv /\ NotifiedInv

- `InFlightInv` and `StoppingInv` tie `order`, `todo` and the flags to `stage`: an order in
  flight exists only in a pass or in the liquidation, and a tripped switch has left the pass.
- `LedgerInv` counts: BUYs of a symbol today are at most one if it is on record, plus the times it
  was forgotten. It gives `DuplicateOnlyIfLost` and, with `DailyOrderCap`, the refinement.
- `StreakInv` bounds what is accepted and not on disk by the failure streak of the history file,
  and the streak by the threshold as long as a BUY can be in flight. It gives `CrashLossBounded`;
  without it the property is not inductive, since a state with many unsaved entries and a streak
  of zero would satisfy the property's neighbours.
- `HistoryInv`, `AccountInv`, `BaselineInv`, `NotifiedInv` are the parts of `SavedOrReported`, with
  the order in flight taken into account.
- `FlatInv` follows the liquidation: what is held and not noted as unresolved is still to do.

`QuietFrame` covers the actions that disturb none of these.

### Token provider

The first part of `TradingProcess_proofs` proves, for every number of threads and all intervals, `TokenCallsSpaced`
and `OwnTokenNewest` from three parts. `LockInv`: who is between `RecoverFetch` and
the end of the call holds `_lock`, so there is one. `TimesInv`: the time since the last call is the
provider's own `sinceAttempt`, and the cooldown and the time since a failure add up, so that the
gates of `recover_from_unauthorized` really measure what the property counts from. `NewestInv`:
the token on its way is the newest, and the one held is not stale when no call is under way.
`SingleThread` proves `RejectionMeansNoToken` and `CooldownFlagged` under the assumption of one
thread; with two, run `SelfInflictedCooldown` refutes the former.

### Board cache

`BoardCache_proofs` proves `RegistrationLimit`, `NoRepeatedFetch`, `NoClearUnderFetch` and `BoardKept`
for any finite set of symbols, any threads, rounds and limit. `FlightInv` says that `_inflight` holds
exactly the symbols that threads fetch, one thread each; hence an empty `_inflight` means that
nobody reads a board. `CountInv` bounds registrations and requests under way together by
`_requests_since_clear`: `RegistrationLimit` alone is not inductive, since it says nothing of the
count. `ServedInv`: a fetch that was made is under way or remembered. `PristineInv`: the first
fetch of a symbol is of an unknown one until its answer comes, so its answer displaces no board.
The assumption that round 0 is no retry round is the model's own naming: `retry_round` counts from 1.

### Ingestion

`SingleDayIngestion_proofs` proves for any processes, datasets' contents, runs and disturbances, deaths
at every step included: `Typed`, `AlwaysRecoverable` (a publication under way can be finished),
`Mirrors` (the two stores implement `MirroredPublication`, step by step) and `CompleteTrue` (what is
called complete has been published). `Recoverable` ties pointer, ledger row and pending publication:
`CURRENT` names the confirmed generation or the pending one. It is not inductive by itself, because a
process acts on what it read earlier. So for each process the invariant says what of that is still so:
`Excluded` (who is in a section under the lock of the dataset is alone in it), `Relied` (what it read
there is still the row, the pointer, the file), `Adopting` (the constructor's migration sees a row
nobody else changes) and `Current` (what the conversion read is what the pointer named). `LedgerTrue`
says of the row what the ledger's states mean. A refinement step is then a change of `row.published`
or `canonical.current` under these facts; all other steps stutter.

### Paper account

The second part of `TradingProcess_proofs` proves `MoneyAccounted` (cash, cost and profit add up to the
first capital, in memory and in the file), `NothingOnCredit` and `OneCapitalADay`. The invariant has
the types, `Dated` (the profit of the day belongs to the account's day) and `Balanced` for the account
in memory, the file and the account at rest. `CapitalIsFiled` is an inductive invariant of its own
for `OneCapitalADay`.

Sums over symbols and days, and folds over a sequence, are recursive functions of the community modules.
`FoldLemmas` has what the proofs need of them: a sum exists, is a number, and changes by what one
summand changes (`SumDiffers`); a fold carries along whatever its step keeps (`FoldKeeps`). These are
inductions over a size or a length, carried out as a least counterexample (`WFMin`), since the
induction theorems of the library take an operator.

### The records of the loop

Three more parts of `TradingProcess_proofs`:
- *Events.* `FilterRest`, `CaughtInv`, `RowSound` and `RowTimed` say what a row of an event may hold at
  which time; from them `AlwaysJudgedFairly` and `OneJudgement` (a final judgement stays).
- *Shadow positions and journal.* `CountsExact` (what is pending, in the table and lost are together
  what was recorded), `MemoryOfProcess`, `NothingEarly`, `CheckpointOnce`, `NotedAsDone`,
  `OneSettlement`; from them `AlwaysJournalTrue` and `AlwaysMorningKept`.
- *The composed paper day.* The invariants of the machines, each under its `machine = "..."`, are one of
  `MCPaperDay`; from it `PaperDayTyped`, `PaperDayTrue` and `DaySettledForGood`, the properties of the
  run as they stand in its configuration.

### The programs of a day

`DaySelections_proofs`:
- *Programs and files* (`AlwaysTrusted`): the trading uses only a selection made for its day by a
  filtering that read the screening for it. `LockInv` (one program at a time), `TargetInv`, `PlacedInv`,
  `BasisInv` (a file names the basis it was made from), `OriginInv` and `LoadedInv` (what was loaded is
  what the file still says, because the lock is held).
- *Screening* (`AlwaysScreenedSoundly`), with or without a date. `AskedInv` counts: what the station
  was asked is at most what it answered and what was lost. `PlaceInv` says where in the ranking each
  stage stands, `VerdictInv` that each verdict of a run without a date rests on answers that were
  given and that whoever is before the place has one, `ListedInv` that the registrations are one batch
  and none are left between bands. That the number of free places is taken by rank uses that a set of
  numbers of some size has a prefix of any smaller one.
- *Filtering* (`AlwaysFilteredSoundly`). `RecordInv` (a candidate has a score if and only if it was
  evaluated, and at most one skip), `FutureInv` (a band not yet reached has no status), `DecidedInv`
  (before the candidate under way all are concluded or pending, behind it none), `SavedInv` (what is
  saved is concluded, in the order of the bands), `BoardInv` (who is pending has a board without
  turnover or price) and `RetryInv` (each round before the present one has read whoever still waits).
- *Midday filtering* (`AlwaysMiddaySound`): `ProductionFirst`, `SummedInv` (a summed band has the
  statuses of its tickers' outcomes), `KeptInv` (a result is kept only of a band all of whose tickers
  were fetched).
- *The composition*: the machines' invariants, each under its `machine = "..."`, make `RunningInv`, and
  `SelectionsSound`, `DecisionsSound` and `DayTypeOK` follow as they stand in the configuration of the
  run (`DaySelectionsSound`, `DayDecisionsSound`, `DayTyped`). For the types of the market programs
  `MarketRest` is needed besides: whoever is about to write has not reached the bound of writes, and
  by `LockInv` is the only one.

`DayPrograms_proofs`:
- *Minute bars* (`AlwaysBarsKept`): what a writer read and nobody replaced since is the file.
- *J-Quants client* (`AlwaysFetchedSoundly`): `FetcherInv`, `SlotInv` (slots are an interval apart,
  whoever waits for one), `RequestInv`, `PageInv` (pages follow each other's keys).
- *Market regime* (`AlwaysRegimeSound`): `SettledInv`, `FilledInv`, `BestInv` (no answer so far is more
  complete than the one kept), `ToldInv`; that a newest bar exists is `Newest`, again by `WFMin`.
- *Decision of a symbol* (`AlwaysDecidedSoundly`): `LotInv` (the peak of a lot is the remembered high
  or its cost) and `ClosingInv`; `Division` is the one fact of integer division needed.
- *Kept inputs of a simulation* (`AlwaysReplayedSoundly`): a replay of an undamaged snapshot has the
  inputs of the run that made it, unless it warned. `ObtainedInv` (what was asked for and is not still
  unread is there), `FilesInv` (the files of the days read are those of now, unless they shifted),
  `DirectoryInv` and `SealedInv` (what is checkpointed, then sealed, is what was obtained, under its
  digest), `KeptSound` (a sealed snapshot stays so until it is damaged, and then its result is still the
  one of its digest) and `ReplayInv` (what a replay has loaded so far is what was kept).
- *Backtest* (`AlwaysBacktestedSoundly`), both simulations. `Sound` (the books balance, and what is not
  held has cost nothing) is kept by every sale and purchase, whatever the price, fee and delay.
  `OnlySold` says of a book that it is another one after sales: it is transitive, so `FoldKeeps` gives it
  for the stops, the SELLs and the end of a day from one symbol. For the BUYs the fold carries
  `BookSound` together with the position it has come to, because a symbol not yet reached must not have
  been told of. `HeldBy` (what is held was bought at a bar of this day, on enough earlier ones) gives
  `NoLookAhead`, with the count of bars in `MinuteInv`, and `FlatOvernight`, since such a symbol has a
  last bar to be sold at. `DayLotInv` is `FlatOvernight` of the fixed simulation for every day, and
  `ToldOnce` is `TradesTold` with the reasons compared in pairs.

### What is told of the days

The other parts of `EveningPrograms_proofs` and `EveningReports_proofs` prove for each of the nine
programs its types and all its `...Sound` properties. The inductive invariants, whose `...Rest` part has
types and ranges:
- *Session* (`AlwaysReportedSoundly`). `ReportsInMind`: a time that was reported has passed, and a run
  whose start it follows has it in mind; `RefusalsRecorded`: a refused signal left a code or an event,
  unless its record was lost; `ReportTrue` says of the file what its reason means.
- *Backfill* (`AlwaysBackfilledSoundly`). `TiersInTurn`: each symbol of the tiers reached so far was tried,
  was left out or is next, and only one of these; `AttemptsTold`: the failures noted are what the
  attempts came to.
- *Replay* (`AlwaysReplayedInOrder`). `MoneyKept`: within a day the book computed from the orders
  `Agrees` with the account, symbol by symbol, between the days the profit is the money gained; this is
  what makes the check at the end of a day accuse nobody. `HeldQuoted` (what is held has a bar of today)
  gives `NoFutureQuote` for the sale at the close.
- *Review* (`AlwaysReviewedSoundly`). `AskedOf` and `CaseAsked` say what of the language model's work
  belongs to this run, `FindingsWell` what a finding rests on, `TitlesKept` that results, queue and what
  is set aside are together the report; `FeedbackOfRuns` dates the files, for `PreviousOpen`.
- *Unsold position* (`AlwaysDiagnosedSoundly`). `LogOf` is the order and the truth of the lines.
  `Unhindered`: a loop that was not hindered has sold at the first minute the rules were met, with the
  highest price since the purchase in mind. The diagnosis computes that minute again, from bars or from
  lines, as a fold whose state `FoldKeeps` compares with `HighIn`.
- *Errors* (`AlwaysToldErrorsSoundly`). `FateOf`: the outcomes in the log are those of the requests, one of
  each; so the three classes of timeouts, counted over a list, are disjoint and exhaust it. `DaysTold`
  ties each day's report in its form to what happened.
- *Analysis* (`AlwaysAnalysedSoundly`). `AllTold` is what the selections alone make of each band and day.
  `AnalysisRows`: rows and status files say that and nothing else, and agree unless a save failed or is
  due. `AnalysisQueue`: what is still to be judged was not settled and has its bars (`DueSound`), and what
  has files is judged, queued or excused (`Caught`), which holds because the update of the cache left
  nothing out (`UpToDate`).
- *Recomputation* (`AlwaysRecomputedSoundly`). While files are written their reports disagree, so
  `Settled` is not inductive. `Coming` says that the entries not yet written lead to reports that are
  settled; `AllSafe` and `AllSaved` that whatever the plan will replace keeps its first content aside.
  `Whole` restricts it to sums that added up at first: others are not touched. The replay of the orders
  is balanced because the history is in the order of its days (`ReplayTold`).
- *Comparison* (`AlwaysComparedSoundly`). `RowsOK`: every row is a true one of its symbol and nothing in it
  depends on bars after its signal, but the outcome; `StageOK` accounts for every file and task, with
  `NoonAccount` for the second stage. The sums of the tables are a lemma about counting a list by kinds
  that exclude each other (`CountsByKind`), without induction over the table.

`EveningIInv` has them each under its `machine = "..."`. `OneMachineMoves`: a step of the composition is
one of the machine that runs. From both, `EveningTypesHold` and `EveningAlwaysSound` are `EveningTypeOK` and
`EveningSound` as they stand in the configuration of the run.

## 6. What is only model-checked

- Liveness: `RunEnds`, `EmergencyStopFlattens`, `RequestsEnd` (twice), `Recovers`, `StoresConverge`,
  `RecordsSaved`, `ProgramsEnd`. Fairness and ENABLED are out of the prover's reach.
- The five violations.

## 7. What is not modelled, and what remains

- Notification: formatting a message and one POST, whose result nothing depends on.
- Live orders: the broker is outside the repository, and the code that talks to it keeps no state of
  its own; the live branch of the loop follows the answers of that broker.
- Chart scripts and git commands of the publication scripts; the texts of reports, diaries and
  prompts; the contents of corrupt files (a program that finds one stops, or takes it as absent; the
  models have both as outcomes).
- Numbers of indicators, prices and turnovers, except where a property is about them.
- Screening: the ranking of a past date and the file of past regulations, whose answers are inputs.
- Backtest: in the replay, a symbol without minute bars that is replayed with the close of its day as
  its only tick, at 15:30 (`backtest_usecase.py:1002-1006`), while others have minutes; an
  `api_soft_limit` beside the cap of an order; the ratios that widen the bands, which are in the choice
  of the signal.

What remains to be proved: nothing but liveness, for which the prover has no rules. What a state may be,
what a step may do and the two refinements are proved as far as the runs check them.
