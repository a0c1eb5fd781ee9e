----------------------------- MODULE PaperAccount -----------------------------
(* The money of the paper account (infrastructure/paper/paper_order_client.py)   *)
(* and the daily loss limit that reads it (application/trading_usecase.py), over *)
(* days, restarts, crashes and failed saves. The gates of the loop that do not   *)
(* read money are in TradingLoop: here any symbol may be bought or sold.         *)
(*                                                                             *)
(* Rates are in basis points; prices are such that no product is rounded.       *)
EXTENDS TradingDays, FiniteSetsExt

CONSTANTS
    unknown,                \* no price
    ORDER_UNIT,
    INITIAL_CASH,
    OPERATING_CAPITAL,      \* the capital when none can be computed
    FEE_RATE,
    SLIPPAGE,
    DAILY_LOSS_LIMIT_RATIO,
    MaxOrders, MaxCrashes   \* bounds

ASSUME PaperAccountAssumption ==
    /\ unknown \notin Price
    /\ IsFiniteSet(Symbol)
    /\ {ORDER_UNIT, INITIAL_CASH, OPERATING_CAPITAL, MaxOrders} \subseteq Nat \ {0}
    /\ {FEE_RATE, SLIPPAGE} \subseteq 0..10000
    /\ {DAILY_LOSS_LIMIT_RATIO, MaxCrashes} \subseteq Nat

VARIABLES
    market,    \* what the board of the kabu Station shows
    account,   \* PaperOrderClient
    prices,    \* its prices
    saved,     \* paper_account_state.json
    capital,   \* daily_starting_capital
    baseline,  \* kill_switch_baseline.json
    crashes

accountVars == <<market, account, prices, saved, capital, baseline, today, trading, crashes>>

\* cost is average_costs times the quantity. profits is not in the program: what
\* was realized on each day, by the orders that this account knows.
NewAccount ==
    [cash     |-> INITIAL_CASH,
     quantity |-> [s \in Symbol |-> 0],
     cost     |-> [s \in Symbol |-> 0],
     orders   |-> 0,
     realized |-> 0,
     day      |-> 1,
     profits  |-> [d \in 1..MaxDay |-> 0]]

AccountInit ==
    /\ market \in [Symbol -> Price]
    /\ account = NewAccount
    /\ saved = NewAccount
    /\ prices = [s \in Symbol |-> unknown]
    /\ capital = 0
    /\ baseline = [day |-> 0, capital |-> 0]
    /\ DaysInit
    /\ crashes = 0

-----------------------------------------------------------------------------
(* What the account is worth *)

Fee(amount) == (amount * FEE_RATE) \div 10000
BuyPrice(p) == (p * (10000 + SLIPPAGE)) \div 10000
SellPrice(p) == (p * (10000 - SLIPPAGE)) \div 10000

\* get_positions: a symbol without a price is valued at zero.
Known(s) == IF prices[s] = unknown THEN 0 ELSE prices[s]

Total(value) == MapThenSumSet(LAMBDA s : value[s], Symbol)

Unrealized(price) == Total([s \in Symbol |-> account.quantity[s] * price[s] - account.cost[s]])

KnownPrices == [s \in Symbol |-> Known(s)]

\* get_daily_realized_pnl, and the reset it shares with a sale.
ResetIfNeeded(a) == IF a.day = today THEN a ELSE [a EXCEPT !.day = today, !.realized = 0]

DailyPnl == ResetIfNeeded(account).realized + Unrealized(KnownPrices)

TotalEquity == account.cash + Total([s \in Symbol |-> account.quantity[s] * Known(s)])

\* check_kill_switch, without the count of orders
WithinLossLimit(pnl) ==
    capital > 0 => pnl * 10000 > - capital * DAILY_LOSS_LIMIT_RATIO

-----------------------------------------------------------------------------
(* Start of a process *)

\* A bug: the date of the profit is not read from the file.
LoadedAsToday(a) == [a EXCEPT !.day = today]

\* _apply_state: the profit counts for its own day only.
Loaded(a) == IF a.day = today THEN a ELSE [a EXCEPT !.realized = 0]

\* _initialize_paper_prices: those whose board answers.
WarmedPrices(answering) ==
    [s \in Symbol |-> IF saved.quantity[s] > 0 /\ s \in answering THEN market[s] ELSE unknown]

StartTrading ==
    /\ Begin
    /\ account' = Loaded(saved)
    /\ \E answering \in SUBSET Symbol : prices' = WarmedPrices(answering)
    /\ UNCHANGED <<market, saved, capital, baseline, crashes>>

\* A bug: every start computes the capital.
BaselineIgnored == FALSE

BaselineReusable == baseline.day = today

\* _initialize_daily_starting_capital, as the loop begins. The file may not be written.
InitializeCapital ==
    /\ trading
    /\ capital = 0
    /\ IF BaselineReusable
       THEN capital' = baseline.capital /\ UNCHANGED <<baseline, crashes>>
       ELSE /\ capital' = IF TotalEquity > 0 THEN TotalEquity ELSE OPERATING_CAPITAL
            /\ \/ baseline' = [day |-> today, capital |-> capital'] /\ UNCHANGED crashes
               \/ crashes < MaxCrashes /\ crashes' = crashes + 1 /\ UNCHANGED baseline
    /\ UNCHANGED <<market, account, prices, saved, today, trading>>

\* _retry_kill_switch_baseline_save, at the top of a pass
RetryBaselineSave ==
    /\ trading
    /\ capital > 0
    /\ baseline.day # today
    /\ baseline' = [day |-> today, capital |-> capital]
    /\ UNCHANGED <<market, account, prices, saved, capital, today, trading, crashes>>

-----------------------------------------------------------------------------
(* Orders *)

\* The order is executed at the price p, and the file written unless that fails.
Save(a) ==
    /\ account' = a
    /\ \/ saved' = a /\ UNCHANGED crashes
       \/ crashes < MaxCrashes /\ crashes' = crashes + 1 /\ UNCHANGED saved

Required(p) == BuyPrice(p) * ORDER_UNIT + Fee(BuyPrice(p) * ORDER_UNIT)

Bought(s, p) == [account EXCEPT !.cash = @ - Required(p),
                                !.quantity[s] = @ + ORDER_UNIT,
                                !.cost[s] = @ + Required(p),
                                !.orders = @ + 1]

\* A bug: the cash is compared with the price of the market.
AffordableBeforeCosts(p) == account.cash >= p * ORDER_UNIT

Affordable(p) == account.cash >= Required(p)

\* The kill switch looks at the account before the price of the order is set.
PlaceBuyOrder(s) ==
    /\ trading
    /\ capital > 0
    /\ account.orders < MaxOrders
    /\ WithinLossLimit(DailyPnl)
    /\ prices' = [prices EXCEPT ![s] = market[s]]
    /\ IF Affordable(market[s])
       THEN Save(Bought(s, market[s]))
       ELSE UNCHANGED <<account, saved, crashes>>
    /\ UNCHANGED <<market, capital, baseline, today, trading>>

\* retry_save_state, after failed saves
RetrySave ==
    /\ trading
    /\ saved # account
    /\ saved' = account
    /\ UNCHANGED <<market, account, prices, capital, baseline, today, trading, crashes>>

\* The memory of the process is gone.
ForgetMemory ==
    /\ End
    /\ account' = saved
    /\ prices' = [s \in Symbol |-> unknown]
    /\ capital' = 0
    /\ UNCHANGED <<market, saved, baseline, crashes>>

\* The loop ends, and nothing is sold.
TripKillSwitch ==
    /\ capital > 0
    /\ ~WithinLossLimit(DailyPnl)
    /\ ForgetMemory

Proceeds(s, p) == SellPrice(p) * account.quantity[s] - Fee(SellPrice(p) * account.quantity[s])

\* A bug: the fee is missing from the profit.
SoldBeforeFee(s, p) ==
    [ResetIfNeeded(account) EXCEPT !.cash = @ + Proceeds(s, p),
                                   !.quantity[s] = 0,
                                   !.cost[s] = 0,
                                   !.orders = @ + 1,
                                   !.realized = @ + SellPrice(p) * account.quantity[s] - account.cost[s],
                                   !.profits[today] = @ + SellPrice(p) * account.quantity[s] - account.cost[s]]

\* The loop sells all there is of a symbol.
Sold(s, p) ==
    [ResetIfNeeded(account) EXCEPT !.cash = @ + Proceeds(s, p),
                                   !.quantity[s] = 0,
                                   !.cost[s] = 0,
                                   !.orders = @ + 1,
                                   !.realized = @ + Proceeds(s, p) - account.cost[s],
                                   !.profits[today] = @ + Proceeds(s, p) - account.cost[s]]

PlaceSellOrder(s) ==
    /\ trading
    /\ capital > 0
    /\ account.quantity[s] > 0
    /\ account.orders < MaxOrders
    /\ prices' = [prices EXCEPT ![s] = market[s]]
    /\ Save(Sold(s, market[s]))
    /\ UNCHANGED <<market, capital, baseline, today, trading>>

-----------------------------------------------------------------------------
(* The surroundings *)

\* The process ends, or dies.
StopTrading == ForgetMemory

MovePrice(s, p) ==
    /\ p # market[s]
    /\ market' = [market EXCEPT ![s] = p]
    /\ UNCHANGED <<account, prices, saved, capital, baseline, today, trading, crashes>>

NextTradingDay ==
    /\ Tomorrow
    /\ UNCHANGED <<market, account, prices, saved, capital, baseline, crashes>>

AccountNext ==
    \/ StartTrading \/ InitializeCapital \/ RetryBaselineSave \/ RetrySave
    \/ TripKillSwitch \/ StopTrading \/ NextTradingDay
    \/ \E s \in Symbol : \/ PlaceBuyOrder(s) \/ PlaceSellOrder(s)
                         \/ \E p \in Price : MovePrice(s, p)

AccountSpec == AccountInit /\ [][AccountNext]_accountVars

-----------------------------------------------------------------------------
(* Properties *)

Account ==
    [cash     : Nat,
     quantity : [Symbol -> Nat],
     cost     : [Symbol -> Nat],
     orders   : 0..MaxOrders,
     realized : Int,
     day      : 1..MaxDay,
     profits  : [1..MaxDay -> Int]]

\* Every variable has its type; nothing is bought on credit.
AccountTypeOK ==
    /\ market \in [Symbol -> Price]
    /\ account \in Account
    /\ saved \in Account
    /\ prices \in [Symbol -> Price \cup {unknown}]
    /\ capital \in Nat
    /\ baseline \in [day : 0..MaxDay, capital : Nat]
    /\ today \in 1..MaxDay
    /\ trading \in BOOLEAN
    /\ crashes \in 0..MaxCrashes

\* Cash and costs add up to what the account began with and what was realized
\* since, in memory and in the file, through failed saves and restarts.
Balanced(a) ==
    a.cash + Total(a.cost) = INITIAL_CASH + MapThenSumSet(LAMBDA d : a.profits[d], 1..MaxDay)

MoneyKept == Balanced(account) /\ Balanced(saved)

\* The realized profit that the kill switch reads is that of today: nothing of an
\* earlier day, and all the account knows of today, whenever it was started.
RealizedIsToday == trading => ResetIfNeeded(account).realized = account.profits[today]

\* The money of the account and the profit it reports are those of its orders.
MoneyAccounted == MoneyKept /\ RealizedIsToday

\* A capital that is on file for today is the one the process measures its losses by,
\* and the file has none of a later day.
CapitalIsFiled ==
    /\ baseline.day <= today
    /\ baseline.day = today => baseline.capital > 0 /\ capital \in {0, baseline.capital}

\* The capital of the day stays the same through every restart of the day, once
\* it is on file.
CapitalStays ==
    [][baseline.day = today =>
          /\ baseline' = baseline
          /\ capital' \in {capital, 0, baseline.capital}]_accountVars

\* No BUY is accepted when the loss of the day, at the prices of the market, has
\* reached the limit.
LossLimitSeesMarket ==
    [][\A s \in Symbol :
          account'.quantity[s] > account.quantity[s] /\ trading
             => WithinLossLimit(account.profits[today] + Unrealized(market))
    ]_accountVars
=============================================================================
