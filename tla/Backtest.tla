------------------------------- MODULE Backtest -------------------------------
(* The simulations of application/backtest_usecase.py. The replay                *)
(* (simulate_timeseries_backtest) goes through the minutes of one day after the   *)
(* other for all symbols together; its signals come from the bars of the minutes   *)
(* or from the closes of the days before, and its quantities from the free          *)
(* positions or from a fixed number. The fixed one (simulate_backtest) goes through *)
(* all days of one symbol after the other, with one cash for all of them.         *)
(*                                                                             *)
(* A signal is an input, limited by what the evaluation of the bands needs. Prices *)
(* are multiples of 100, so that costs in per cent are whole numbers.              *)
EXTENDS Integers, Sequences, FiniteSets, SequencesExt

CONSTANTS
    Replayed,        \* the symbols, in their order, each once, as the selection files name them
    Instants,        \* minutes of a day; for the fixed simulation the days
    Tape,            \* the courses of prices of a symbol on a day, by minute; 0: no bar
    Climates,        \* [regime, level, active] of a day: what the index says, the
                     \* volatility, and the symbols that were selected
    Sessions,        \* days
    Terms,           \* [order, delay, overnight, targeted, daily, stop]: order_type,
                     \* execution_delay_bars, ~close_at_eod, whether target_positions is given,
                     \* indicator_source, and stop_loss_ratio in per cent
    FEE, SLIPPAGE,   \* fee_rate and market_slippage_bps, in per cent
    ATR,
    ExitDistance,    \* the multipliers of the stop, by level; TRUE: of the lock of profits
    LOCK,            \* the rise that locks
    StartingCash,
    CAP,             \* max_order_amount_per_trade
    TARGET,          \* target_positions
    FIXED_QTY,       \* qty_per_trade
    MIN_CLOSES       \* RSI_MINIMUM_CLOSES

Climate == {"NORMAL", "CAUTION", "DANGER"}

Replays == ToSet(Replayed)

ASSUME BacktestAssumption ==
    /\ Replayed \in Seq(Replays) /\ IsInjective(Replayed)
    /\ {Instants, Sessions, TARGET, FIXED_QTY} \subseteq Nat \ {0}
    /\ Tape \subseteq [1..Instants -> Nat]
    /\ \A course \in Tape : \A i \in 1..Instants : course[i] % 100 = 0
    /\ Climates \subseteq [regime : Climate, level : Climate \cup {"unknown"}, active : SUBSET Replays]
    /\ Terms \subseteq [order : {"market", "limit"}, delay : Nat, overnight : BOOLEAN,
                        targeted : BOOLEAN, daily : BOOLEAN, stop : 0..100]
    /\ FEE \in 0..100 /\ SLIPPAGE \in 0..100
    /\ ExitDistance \in [Climate -> [BOOLEAN -> Nat \ {0}]]
    /\ {ATR, LOCK, StartingCash, CAP, MIN_CLOSES} \subseteq Nat

VARIABLES
    method,     \* replay or fixed
    terms,
    session,    \* the day; of the fixed simulation, the symbol it is at
    instant,    \* the minute; of the fixed simulation, the day
    series,     \* the prices of each symbol by minute; 0: no bar
    climate,    \* of the day
    seen,       \* the length of minute_prices_by_symbol
    book        \* cash, positions, results and events

backtestVars == <<method, terms, session, instant, series, climate, seen, book>>

Zero == [s \in Replays |-> 0]

Series == [Replays -> Tape]
Gapless == [Replays -> {course \in Tape : \A i \in 1..Instants : course[i] # 0}]

BacktestInit ==
    /\ method \in {"replay", "fixed"}
    /\ terms \in Terms
    /\ session = 1
    /\ instant = 1
    /\ series \in IF method = "replay" THEN Series ELSE Gapless
    /\ climate \in IF method = "replay" THEN Climates
                   ELSE {[regime |-> "NORMAL", level |-> "unknown", active |-> Replays]}
    /\ seen = Zero
    /\ book = [cash |-> StartingCash,
               qty |-> Zero,        \* holdings
               paid |-> Zero,       \* avg_cost, times the quantity
               entry |-> Zero,      \* entry_prices
               top |-> Zero,        \* holding_high_prices
               since |-> Zero,      \* buy_index, buy_times
               realized |-> 0,      \* of trade_results
               noted |-> {},        \* the events of filter decisions of this instant
               left |-> {}]         \* not in the program: symbols sold in this instant

-----------------------------------------------------------------------------
(* Execution *)

\* The bar of the signal is followed by as many as the delay says, or the last one.
Delayed(s, i) ==
    LET bars == {j \in i..Instants : series[s][j] # 0}
        near == {j \in bars : Cardinality({k \in bars : k < j}) <= terms.delay}
    IN  series[s][Max(near)]

\* _calculate_execution_price
Fill(side, s, i) ==
    IF terms.order = "limit" THEN series[s][i]
    ELSE (Delayed(s, i) * (IF side = "BUY" THEN 100 + SLIPPAGE ELSE 100 - SLIPPAGE)) \div 100

Fee(amount) == (amount * FEE) \div 100

\* A bug: the fee of the purchase is taken from the profit a second time.
ClosedChargingTwice(b, s, i) ==
    LET amount == Fill("SELL", s, i) * b.qty[s]
        entryFee == Fee(b.entry[s] * b.qty[s])
    IN  [b EXCEPT !.cash = @ + amount - Fee(amount),
                  !.realized = @ + amount - Fee(amount) - b.paid[s] - entryFee,
                  !.qty[s] = 0, !.paid[s] = 0, !.entry[s] = 0, !.top[s] = 0, !.since[s] = 0,
                  !.left = @ \cup {s}]

\* close_position, of what is held
Closed(b, s, i) ==
    LET amount == Fill("SELL", s, i) * b.qty[s]
    IN  [b EXCEPT !.cash = @ + amount - Fee(amount),
                  !.realized = @ + amount - Fee(amount) - b.paid[s],
                  !.qty[s] = 0, !.paid[s] = 0, !.entry[s] = 0, !.top[s] = 0, !.since[s] = 0,
                  !.left = @ \cup {s}]

\* A bug: the cash is compared with the price of the signal only.
AffordableAtSignal(b, s, i, quantity) == b.cash >= series[s][i] * quantity

\* The price of the signal is looked at first, by the replay, and then what the purchase
\* costs.
Payable(b, s, i, quantity) ==
    LET amount == Fill("BUY", s, i) * quantity
    IN  /\ method = "replay" => b.cash >= series[s][i] * quantity
        /\ b.cash >= amount + Fee(amount)

Acquired(b, s, i, quantity) ==
    LET amount == Fill("BUY", s, i) * quantity
    IN  IF quantity = 0 \/ ~Payable(b, s, i, quantity) THEN b
        ELSE [b EXCEPT !.cash = @ - amount - Fee(amount),
                       !.qty[s] = quantity,
                       !.paid[s] = amount + Fee(amount),
                       !.entry[s] = Fill("BUY", s, i),
                       !.top[s] = Fill("BUY", s, i),
                       !.since[s] = i]

\* holding_high_prices
Raised(b, s, i) ==
    IF b.qty[s] > 0 /\ series[s][i] > b.top[s] THEN [b EXCEPT !.top[s] = series[s][i]] ELSE b

\* is_atr_stop_loss_triggered, at the multiplier of resolve_atr_exit_multiplier
AtrStop(b, s, i, level) ==
    /\ level # "unknown"
    /\ series[s][i] <= b.top[s] - ATR * ExitDistance[level][b.top[s] - b.entry[s] >= LOCK]

\* regular_stop_triggered, from what the lot has cost
RegularStop(b, s, i) ==
    /\ terms.stop > 0
    /\ 100 * series[s][i] * b.qty[s] <= b.paid[s] * (100 - terms.stop)

StopReached(b, s, i, level) == b.qty[s] > 0 /\ (RegularStop(b, s, i) \/ AtrStop(b, s, i, level))

\* _adjust_backtest_quantity
Reduced(quantity, level) ==
    CASE level = "DANGER" -> 0
      [] level = "CAUTION" /\ quantity > 1 -> quantity \div 2
      [] OTHER -> quantity

-----------------------------------------------------------------------------
(* simulate_timeseries_backtest: a minute *)

OpenPositions(b) == {s \in Replays : b.qty[s] > 0}

\* The cash is shared among the free positions, up to the cap.
Shared(b, price) ==
    LET open == Cardinality(OpenPositions(b))
        slots == IF open < TARGET THEN TARGET - open ELSE 1
        budget == b.cash \div slots
    IN  (IF budget <= CAP THEN budget ELSE CAP) \div price

\* A bug: an order that the market forbids is noted with the quantity before the volatility.
SkipNotedBoth(b, s, base, quantity) ==
    (IF quantity = 0 /\ base > 0 /\ climate.level # "unknown" THEN {<<"ATR_DANGER_SKIP", s>>} ELSE {})
    \cup (IF climate.regime = "DANGER" /\ base > 0 THEN {<<"MARKET_REGIME_DANGER_SKIP", s>>} ELSE {})

\* The events of a purchase within the number of positions; an event with no quantity is
\* not recorded.
SkipNoted(b, s, base, quantity) ==
    (IF quantity = 0 /\ base > 0 /\ climate.level # "unknown" THEN {<<"ATR_DANGER_SKIP", s>>} ELSE {})
    \cup (IF climate.regime = "DANGER" /\ quantity > 0 THEN {<<"MARKET_REGIME_DANGER_SKIP", s>>} ELSE {})

\* A bug: the number of positions is counted once, before the purchases of the minute.
WithinTargetBefore(b) == terms.targeted => Cardinality(OpenPositions(book)) < TARGET

WithinTarget(b) == terms.targeted => Cardinality(OpenPositions(b)) < TARGET

\* A BUY. Beyond the number of positions it is passed over: its event has the quantity 0. Without
\* target_positions there is no such number, and the quantity is the fixed one.
BuySignal(b, s) ==
    IF b.qty[s] > 0 \/ ~WithinTarget(b) THEN b
    ELSE LET base == IF terms.targeted THEN Shared(b, series[s][instant]) ELSE FIXED_QTY
             quantity == Reduced(base, climate.level)
             told == [b EXCEPT !.noted = @ \cup SkipNoted(b, s, base, quantity)]
         IN  IF climate.regime = "DANGER" THEN told ELSE Acquired(told, s, instant, quantity)

\* The high is followed and the stop is looked at, for every symbol with a bar.
Stopped(b, s) ==
    LET raised == Raised(b, s, instant)
    IN  IF series[s][instant] # 0 /\ StopReached(raised, s, instant, climate.level)
        THEN Closed(raised, s, instant) ELSE raised

SellSignal(b, s) == IF b.qty[s] > 0 THEN Closed(b, s, instant) ELSE b

\* The symbols are gone through three times: all stops come before the signals, and the SELLs
\* before the BUYs.
StopsDone(b) == FoldLeft(Stopped, b, Replayed)
SalesDone(b, verdict) ==
    FoldLeft(LAMBDA c, s : IF verdict[s] = "SELL" THEN SellSignal(c, s) ELSE c, b, Replayed)
PurchasesDone(b, verdict) ==
    FoldLeft(LAMBDA c, s : IF verdict[s] = "BUY" THEN BuySignal(c, s) ELSE c, b, Replayed)

\* A bug: the price of the minute is among those that the signal is computed from.
KnownWithOwn(s) == terms.daily \/ seen[s] + 1 >= MIN_CLOSES

\* The prices of the minutes before are enough; the closes of the days before may be.
Known(s) == terms.daily \/ seen[s] >= MIN_CLOSES

\* A selected symbol that was not stopped out in this minute is evaluated, once there are
\* enough prices. weak: enough for an entry on normal days.
Verdicts(b) ==
    LET Evaluated(s) == /\ s \in climate.active /\ s \notin b.left
                        /\ series[s][instant] # 0 /\ Known(s)
    IN  {v \in [Replays -> {"none", "BUY", "SELL", "weak"}] :
            \A s \in Replays : v[s] # "none" => Evaluated(s) /\ (v[s] = "weak" => climate.regime = "CAUTION")}

PassMinute ==
    /\ method = "replay" /\ session <= Sessions /\ instant <= Instants
    /\ LET begun == [book EXCEPT !.noted = {}, !.left = {}]
           watched == StopsDone(begun)
       IN  \E verdict \in Verdicts(watched) :
              LET sold == SalesDone(watched, verdict)
                  filtered == {<<"MARKET_REGIME_CAUTION_RSI_FILTER", s>> : s \in {r \in Replays : verdict[r] = "weak"}}
                  told == [sold EXCEPT !.noted = @ \cup filtered]
              IN  book' = PurchasesDone(told, verdict)
    /\ seen' = [s \in Replays |-> seen[s] + (IF series[s][instant] # 0 THEN 1 ELSE 0)]
    /\ instant' = instant + 1
    /\ UNCHANGED <<method, terms, session, series, climate>>

\* What is held is sold at the last bar of the day, unless positions may stay overnight; a
\* symbol without a bar keeps its position.
LastBar(s) == Max({0} \cup {i \in 1..Instants : series[s][i] # 0})

LotSold(b, s) == IF b.qty[s] > 0 /\ LastBar(s) > 0 THEN Closed(b, s, LastBar(s)) ELSE b
LotsSold(b) == FoldLeft(LotSold, b, Replayed)

CloseSession ==
    /\ method = "replay" /\ session <= Sessions /\ instant > Instants
    /\ LET begun == [book EXCEPT !.noted = {}, !.left = {}]
       IN  book' = IF terms.overnight THEN begun ELSE LotsSold(begun)
    /\ session' = session + 1
    /\ IF session < Sessions
       THEN instant' = 1 /\ series' \in Series /\ climate' \in Climates
       ELSE UNCHANGED <<instant, series, climate>>
    /\ UNCHANGED <<method, terms, seen>>

-----------------------------------------------------------------------------
(* simulate_backtest: a day of a symbol *)

\* A bug: a lot is closed a day late.
EndOfDayDueLate(b, s) == ~terms.overnight /\ b.qty[s] > 0 /\ instant > b.since[s] + 1

\* close_at_eod: what was bought earlier is sold before anything else.
EndOfDayDue(b, s) == ~terms.overnight /\ b.qty[s] > 0 /\ instant > b.since[s]

PassDay ==
    LET s == Replayed[session]
        begun == [book EXCEPT !.left = {}]
        closed == IF EndOfDayDue(begun, s) THEN Closed(begun, s, instant) ELSE begun
        raised == Raised(closed, s, instant)
    IN  /\ method = "fixed" /\ session <= Len(Replayed) /\ instant <= Instants
        /\ \E level \in Climate \cup {"unknown"}, verdict \in {"none", "BUY", "SELL"} :
              /\ verdict # "none" => ~StopReached(raised, s, instant, level) /\ instant > MIN_CLOSES
              /\ book' =
                    CASE StopReached(raised, s, instant, level) -> Closed(raised, s, instant)
                      [] verdict = "SELL" -> SellSignal(raised, s)
                      [] verdict = "BUY" /\ raised.qty[s] = 0 ->
                             Acquired(raised, s, instant, Reduced(FIXED_QTY, level))
                      [] OTHER -> raised
        /\ IF instant < Instants THEN instant' = instant + 1 /\ UNCHANGED session
           ELSE instant' = 1 /\ session' = session + 1
        /\ UNCHANGED <<method, terms, series, climate, seen>>

BacktestNext == PassMinute \/ CloseSession \/ PassDay

BacktestSpec == BacktestInit /\ [][BacktestNext]_backtestVars

-----------------------------------------------------------------------------
(* Properties *)

BacktestTypeOK ==
    /\ session \in 1..(Sessions + Len(Replayed) + 1)
    /\ instant \in 1..(Instants + 1)
    /\ seen \in [Replays -> Nat]
    /\ {book.qty, book.paid, book.entry, book.top, book.since} \subseteq [Replays -> Nat]
    /\ book.cash \in Int /\ book.realized \in Int
    /\ book.left \subseteq Replays

SumOf(f) == MapThenSumSet(LAMBDA s : f[s], DOMAIN f)

\* The results add up: what there was, with all profits and losses, is the cash and what the
\* positions have cost, whatever the costs of the orders and the delay of their execution.
BooksBalance == book.cash + SumOf(book.paid) = StartingCash + book.realized

\* No purchase is made on credit, although its price is that of a later bar.
NeverOverdrawn == book.cash >= 0

\* Without overnight positions a lot is never carried into the next day; the fixed
\* simulation leaves one of the last day.
FlatOvernight ==
    ~terms.overnight =>
        /\ method = "replay" /\ instant = 1 => book.qty = Zero
        /\ method = "fixed" =>
               \A k \in DOMAIN Replayed :
                   book.qty[Replayed[k]] > 0 =>
                       book.since[Replayed[k]] = IF k < session THEN Instants ELSE instant - 1

\* Never more positions than the target, when there is one, also when several symbols signal in
\* one minute.
TargetRespected == method = "replay" /\ terms.targeted => Cardinality(OpenPositions(book)) <= TARGET

\* With the bars of the minutes as the source, a position was bought on at least as many earlier
\* prices as the signal needs: no bar takes part in the signal that trades on it.
NoLookAhead ==
    method = "replay" /\ session = 1 /\ ~terms.daily =>
        \A s \in OpenPositions(book) :
            Cardinality({i \in 1..(book.since[s] - 1) : series[s][i] # 0}) >= MIN_CLOSES

\* A skipped purchase is told once, by one reason; a purchase that was made is not told of
\* as skipped; and what was sold in a minute is not bought again in it.
TradesTold ==
    method = "replay" /\ instant > 1 =>
        \A s \in Replays :
            LET reasons == {n \in book.noted : n[2] = s}
                justBought == book.qty[s] > 0 /\ book.since[s] = instant - 1
            IN  /\ Cardinality(reasons) <= 1
                /\ justBought /\ ~terms.overnight => reasons = {}
                /\ s \in book.left => book.qty[s] = 0

BacktestSound ==
    BooksBalance /\ NeverOverdrawn /\ FlatOvernight /\ TargetRespected /\ NoLookAhead /\ TradesTold
=============================================================================
