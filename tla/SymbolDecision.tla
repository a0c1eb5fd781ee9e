---------------------------- MODULE SymbolDecision ----------------------------
(* What the loop of the trading decides about one symbol after the other           *)
(* (application/trading_usecase.py, TradingUseCase.run): the signal of the price    *)
(* bands and of the trailing stop, the gates of a purchase in their order, what is   *)
(* noted of a refusal, and the sale of everything at the end of the day, in paper     *)
(* mode. TradingLoop has the loop around it; there a symbol that is not ordered is    *)
(* passed over, here it is told why.                                              *)
(*                                                                             *)
(* Prices are counted in units of the average true range.                        *)
EXTENDS Integers, FiniteSets

CONSTANTS
    Stock,
    Quote,               \* prices
    LOWER_BAND, UPPER_BAND,
    StopMultiplier,      \* ATR_STOP_..._MULTIPLIER, by level
    LockMultiplier,      \* ATR_PROFIT_LOCK_..._MULTIPLIER, by level
    LOCK_TRIGGER,        \* ATR_PROFIT_LOCK_TRIGGER_ATR_MULTIPLE
    Funds,               \* the cash at the start
    Limit,               \* min(MAX_ORDER_AMOUNT_PER_TRADE, API_SOFT_LIMIT)
    Slots                \* TARGET_POSITIONS

Assessed == {"NORMAL", "CAUTION", "DANGER"}

ASSUME SymbolDecisionAssumption ==
    /\ Quote \subseteq Nat \ {0}
    /\ LOWER_BAND < UPPER_BAND
    /\ IsFiniteSet(Stock)
    /\ {StopMultiplier, LockMultiplier} \subseteq [Assessed -> Nat \ {0}]
    /\ LOCK_TRIGGER \in Nat /\ Funds \in Nat /\ Limit \in Nat /\ Slots \in Nat \ {0}

VARIABLES
    regime,        \* market_regime of the day
    part,          \* of the run
    lots,          \* quantity held
    cost,          \* average_costs
    funds,
    highs,         \* _holding_high_prices; 0: none
    boughtToday,   \* symbols with a BUY of today in the history
    soldToday,
    lastValid,     \* symbols in _last_valid_board_prices
    unheld,        \* _missing_holding_sell_signals
    unresolved,    \* of the sale of everything
    peak           \* not in the program: the highest price followed since the purchase or, of
                   \* what is held at the start, since then and its cost

decisionVars == <<regime, part, lots, cost, funds, highs, boughtToday, soldToday, lastValid,
                  unheld, unresolved, peak>>

\* weak: at most the threshold of exits; firm: at least that of entries; strong: also
\* at least that of cautious days; middle: none of these, or there is none.
Rsi == {"weak", "middle", "firm", "strong"}

\* What the evaluation meets besides: the limit of the API is unknown, the loss limit is
\* reached, new purchases are halted (see TradingLoop), the order is rejected.
Gate == {"open", "apiUnknown", "lossLimit", "halted", "rejected"}

\* A strength that makes no difference at a price is left out.
Input == {in \in [price : Quote, rsi : Rsi, level : Assessed \cup {"unknown"}, gate : Gate] :
             /\ in.rsi = "weak" => in.price <= LOWER_BAND
             /\ in.rsi \in {"firm", "strong"} => in.price >= UPPER_BAND}

Held(s) == lots[s] > 0
Positions == {s \in Stock : Held(s)}

DecisionInit ==
    /\ regime \in Assessed
    /\ part = "session"
    /\ \E overnight \in SUBSET Stock, price \in Quote :
          /\ lots = [s \in Stock |-> IF s \in overnight THEN 1 ELSE 0]
          /\ cost = [s \in Stock |-> IF s \in overnight THEN price ELSE 0]
    /\ funds = Funds
    /\ highs = [s \in Stock |-> 0]
    /\ peak = cost
    /\ boughtToday = {} /\ soldToday = {}
    /\ lastValid = {} /\ unheld = {} /\ unresolved = {}

-----------------------------------------------------------------------------
(* The signal *)

\* TradeSignal.evaluate, without a stop
RegularExit(in) == in.price <= LOWER_BAND /\ in.rsi = "weak"
Entry(in, strength) == in.price >= UPPER_BAND /\ in.rsi \in strength

\* resolve_rsi_entry_threshold
Strength == IF regime = "NORMAL" THEN {"firm", "strong"} ELSE {"strong"}

\* The trailing stop is looked at when a lot is held, its volatility is known, and the
\* bands do not say to sell already.
Watched(s, in) == Held(s) /\ in.level # "unknown" /\ ~RegularExit(in)

Greater(m, n) == IF m >= n THEN m ELSE n
Lesser(m, n) == IF m <= n THEN m ELSE n

\* held_high: the cost takes the place of a price that is not remembered.
High(s, in) == Greater(IF highs[s] = 0 THEN cost[s] ELSE highs[s], in.price)

\* resolve_atr_exit_multiplier
Multiplier(s, in) ==
    IF High(s, in) - cost[s] >= LOCK_TRIGGER THEN LockMultiplier[in.level] ELSE StopMultiplier[in.level]

\* A bug: the stop trails the cost, not the highest price.
StopAtCost(s, in) == Watched(s, in) /\ in.price <= cost[s] - Multiplier(s, in)

StopDue(s, in) == Watched(s, in) /\ in.price <= High(s, in) - Multiplier(s, in)

\* A bug: what would be bought is not sold.
EntryFirst(s, in) ==
    IF Entry(in, Strength) THEN "BUY"
    ELSE IF RegularExit(in) \/ StopDue(s, in) THEN "SELL"
    ELSE "none"

Signal(s, in) ==
    IF RegularExit(in) \/ StopDue(s, in) THEN "SELL"
    ELSE IF Entry(in, Strength) THEN "BUY"
    ELSE "none"

\* decision_reason names the stop whenever the evaluation with a stop says anything,
\* also when it says to buy more of what is held.
NamedStop(s, in) == Watched(s, in) /\ Signal(s, in) # "none"

-----------------------------------------------------------------------------
(* Quantity *)

\* The cash is shared among the free positions.
FreeSlots == Greater(Slots - Cardinality(Positions), 1)
Budget == Lesser(funds \div FreeSlots, Limit)

\* calculate_buy_quantity
BuyQuantity(price) == Budget \div price

\* A bug: danger is treated as caution.
ReducedOnly(quantity, level) ==
    IF level \in {"NORMAL", "unknown"} \/ quantity = 0 THEN quantity ELSE Greater(1, quantity \div 2)

\* adjust_quantity_for_volatility
Adjusted(quantity, level) ==
    CASE level \in {"NORMAL", "unknown"} -> quantity
      [] level = "DANGER" -> 0
      [] level = "CAUTION" -> IF quantity = 0 THEN 0 ELSE Greater(1, quantity \div 2)

Quantity(in) == Adjusted(BuyQuantity(in.price), in.level)

-----------------------------------------------------------------------------
(* What becomes of a signal *)

Full(s) == ~Held(s) /\ Cardinality(Positions) >= Slots

\* A bug: the regime is looked at before it is known to be a purchase.
SaleUnlessDanger(s) ==
    IF regime = "DANGER" THEN "regimeDanger"
    ELSE IF ~Held(s) THEN "notHeld"
    ELSE IF s \in soldToday THEN "unsafe"
    ELSE "sold"

\* is_safe_to_order of a sale
Sale(s) ==
    IF ~Held(s) THEN "notHeld"
    ELSE IF s \in soldToday THEN "unsafe"
    ELSE "sold"

\* The gates of a purchase, in their order
Purchase(s, in) ==
    LET quantity == Quantity(in)
    IN  IF Full(s) THEN "positionLimit"
        ELSE IF regime = "DANGER" THEN "regimeDanger"
        ELSE IF quantity = 0 THEN "quantityZero"
        ELSE IF in.gate = "lossLimit" THEN "killed"
        ELSE IF in.price * quantity > Limit THEN "amountLimit"
        ELSE IF in.gate = "halted" THEN "halted"
        ELSE IF in.price * quantity > funds \/ s \in boughtToday THEN "unsafe"
        ELSE IF in.gate = "rejected" THEN "rejected"
        ELSE "bought"

Outcome(s, in) ==
    LET signal == Signal(s, in)
    IN  IF signal = "none" THEN "noSignal"
        ELSE IF in.gate = "apiUnknown" THEN "killed"
        ELSE IF signal = "SELL" THEN Sale(s)
        ELSE Purchase(s, in)

\* What the decision journal is told of a signal that comes to nothing
Journaled(s, outcome) ==
    \/ outcome \in {"positionLimit", "regimeDanger", "quantityZero", "amountLimit",
                    "halted", "unsafe", "rejected"}
    \/ outcome = "notHeld" /\ s \notin unheld

\* The volatility of a purchase within the number of positions is too high.
SkippedForAtr(s, in) ==
    /\ Signal(s, in) = "BUY" /\ in.gate # "apiUnknown" /\ ~Full(s)
    /\ in.level = "DANGER" /\ BuyQuantity(in.price) > 0

\* A bug: the regime is blamed whatever the quantity is.
SkippedWhateverQuantity(s, in) == Outcome(s, in) = "regimeDanger"

\* The market is in danger, and the purchase had a quantity.
SkippedForRegime(s, in) == Outcome(s, in) = "regimeDanger" /\ Quantity(in) > 0

\* The strength is enough for an entry on other days.
SkippedForStrength(s, in) ==
    /\ regime = "CAUTION" /\ Entry(in, {"firm", "strong"})
    /\ Signal(s, in) = "none" /\ BuyQuantity(in.price) > 0

\* The events of a purchase that was skipped, for the judgement of what it would have
\* been worth
Skips(s, in) ==
    (IF SkippedForAtr(s, in) THEN {"ATR_DANGER_SKIP"} ELSE {})
    \cup (IF SkippedForRegime(s, in) THEN {"MARKET_REGIME_DANGER_SKIP"} ELSE {})
    \cup (IF SkippedForStrength(s, in) THEN {"MARKET_REGIME_CAUTION_RSI_FILTER"} ELSE {})

\* _record_atr_stop_exit
StopExitRecorded(s, in) == NamedStop(s, in) /\ Outcome(s, in) \in {"sold", "bought"}

-----------------------------------------------------------------------------
(* The loop. A symbol without the prices of the last days, or without a valid price   *)
(* of its board, changes nothing here.                                            *)

\* _observe_missing_holding_sell_signal
ObserveMissing(s, in) ==
    unheld' = IF Signal(s, in) = "SELL" /\ ~Held(s) THEN unheld \cup {s} ELSE unheld \ {s}

\* A bug: a sale leaves the highest price to the next purchase.
SellKeepingHigh(s, price) ==
    /\ funds' = funds + lots[s] * price
    /\ lots' = [lots EXCEPT ![s] = 0]
    /\ cost' = [cost EXCEPT ![s] = 0]
    /\ peak' = [peak EXCEPT ![s] = 0]
    /\ soldToday' = soldToday \cup {s}
    /\ UNCHANGED <<highs, boughtToday>>

\* place_market_order and _register_order
Sell(s, price) ==
    /\ funds' = funds + lots[s] * price
    /\ lots' = [lots EXCEPT ![s] = 0]
    /\ cost' = [cost EXCEPT ![s] = 0]
    /\ highs' = [highs EXCEPT ![s] = 0]
    /\ peak' = [peak EXCEPT ![s] = 0]
    /\ soldToday' = soldToday \cup {s}
    /\ UNCHANGED boughtToday

\* More of what is held changes its cost, and lets the stop begin anew.
Buy(s, price, quantity) ==
    /\ funds' = funds - price * quantity
    /\ lots' = [lots EXCEPT ![s] = @ + quantity]
    /\ cost' = [cost EXCEPT ![s] = (lots[s] * @ + price * quantity) \div (lots[s] + quantity)]
    /\ highs' = [highs EXCEPT ![s] = price]
    /\ peak' = [peak EXCEPT ![s] = price]
    /\ boughtToday' = boughtToday \cup {s}
    /\ UNCHANGED soldToday

Follow(s, in) ==
    /\ highs' = IF Watched(s, in) THEN [highs EXCEPT ![s] = High(s, in)] ELSE highs
    /\ peak' = IF Watched(s, in) THEN [peak EXCEPT ![s] = Greater(@, in.price)] ELSE peak
    /\ UNCHANGED <<lots, cost, funds, boughtToday, soldToday>>

\* One symbol of a pass, once its price is known
Judge(s, in) ==
    /\ part = "session"
    /\ in.gate = "open" \/ Outcome(s, in) # Outcome(s, [in EXCEPT !.gate = "open"])
    /\ lastValid' = lastValid \cup {s}
    /\ ObserveMissing(s, in)
    /\ LET outcome == Outcome(s, in)
       IN  /\ CASE outcome = "sold" -> Sell(s, in.price)
                [] outcome = "bought" -> Buy(s, in.price, Quantity(in))
                [] OTHER -> Follow(s, in)
           /\ part' = IF outcome = "killed" THEN "over" ELSE part
    /\ UNCHANGED <<regime, unresolved>>

\* The process ends and another begins on this day; the regime is determined again.
Restart ==
    /\ part \in {"session", "over"}
    /\ part' = "session"
    /\ regime' \in Assessed
    /\ highs' = [s \in Stock |-> 0]
    /\ peak' = cost
    /\ lastValid' = {} /\ unheld' = {} /\ unresolved' = {}
    /\ UNCHANGED <<lots, cost, funds, boughtToday, soldToday>>

-----------------------------------------------------------------------------
(* _liquidate_all_positions *)

\* At the end of the day ("closing"), or because of the emergency stop ("stopping").
BeginLiquidation ==
    /\ part = "session"
    /\ part' \in {"closing", "stopping"}
    /\ unresolved' = {}
    /\ UNCHANGED <<regime, lots, cost, funds, highs, boughtToday, soldToday, lastValid, unheld, peak>>

\* A bug: without a price of this run there is none.
PriceRemembered(s) == s \in lastValid

\* _last_valid_price_for_liquidation: the last valid price of the board, or else that of
\* the purchase
PriceKnown(s) == s \in lastValid \/ cost[s] > 0

\* With a fresh price of the board, or one that is known at the end of the day
SellLot(s) ==
    /\ part \in {"closing", "stopping"}
    /\ Held(s) /\ s \notin unresolved
    /\ \E fresh \in BOOLEAN, price \in Quote :
          /\ fresh \/ (part = "closing" /\ PriceKnown(s))
          /\ lastValid' = IF fresh /\ part = "closing" THEN lastValid \cup {s} ELSE lastValid
          /\ Sell(s, price)
    /\ UNCHANGED <<regime, part, unheld, unresolved>>

\* There is no price, or the order is refused for the price 0.
LeaveLot(s) ==
    /\ part \in {"closing", "stopping"}
    /\ Held(s) /\ s \notin unresolved
    /\ part = "stopping" \/ ~PriceKnown(s)
    /\ unresolved' = unresolved \cup {s}
    /\ UNCHANGED <<regime, part, lots, cost, funds, highs, boughtToday, soldToday, lastValid, unheld, peak>>

FinishLiquidation ==
    /\ part \in {"closing", "stopping"}
    /\ Positions \subseteq unresolved
    /\ part' = IF part = "closing" THEN "closed" ELSE "over"
    /\ UNCHANGED <<regime, lots, cost, funds, highs, boughtToday, soldToday, lastValid, unheld,
                   unresolved, peak>>

DecisionNext ==
    \/ \E s \in Stock, in \in Input : Judge(s, in)
    \/ Restart \/ BeginLiquidation \/ FinishLiquidation
    \/ \E s \in Stock : SellLot(s) \/ LeaveLot(s)

DecisionSpec == DecisionInit /\ [][DecisionNext]_decisionVars

-----------------------------------------------------------------------------
(* Properties *)

DecisionTypeOK ==
    /\ regime \in Assessed
    /\ part \in {"session", "closing", "stopping", "closed", "over"}
    /\ {lots, cost, highs, peak} \subseteq [Stock -> Nat]
    /\ funds \in Nat
    /\ boughtToday \cup soldToday \cup lastValid \cup unheld \cup unresolved \subseteq Stock

\* A lot that has fallen from its highest price by more than any distance of the stop is
\* sold at the next valid price, whatever keeps new purchases back, unless the symbol was
\* sold today already or the limit of the API cannot be asked for; and a stop that sells
\* is never nearer than the smaller distance.
StopsCarriedOut(s, in, outcome) ==
    LET far == Greater(StopMultiplier[in.level], LockMultiplier[in.level])
        near == Lesser(StopMultiplier[in.level], LockMultiplier[in.level])
        best == Greater(peak[s], in.price)
        sold == outcome = "sold"
    IN  Held(s) /\ in.level # "unknown" =>
            /\ in.price + far <= best /\ s \notin soldToday /\ in.gate # "apiUnknown" => sold
            /\ sold /\ ~RegularExit(in) => in.price + near <= best

\* A signal that is not carried out is in the decision journal, or ends the loop; and what
\* a skipped purchase would have been worth is asked for once, and never of a purchase
\* that was made. Neither gate about money stops what the sharing of the cash has sized.
RefusalsTold(s, in, outcome) ==
    LET skips == Skips(s, in)
    IN  /\ \/ outcome \in {"noSignal", "sold", "bought", "killed"}
           \/ Journaled(s, outcome)
           \/ s \in unheld
        /\ Cardinality(skips) <= 1
        /\ outcome = "bought" => skips = {}
        /\ outcome # "amountLimit"
        /\ in.price * Quantity(in) <= funds

\* A stop never follows the prices of an earlier lot.
HighsOfHeld == \A s \in Stock : highs[s] # 0 => Held(s)

\* At the end of a day in paper mode nothing is left unsold, although boards are silent
\* or the process has just begun.
NothingLeft == part = "closed" => Positions = {}

DecisionSound ==
    /\ part = "session" =>
           \A s \in Stock, in \in Input :
               LET outcome == Outcome(s, in)
               IN  StopsCarriedOut(s, in, outcome) /\ RefusalsTold(s, in, outcome)
    /\ HighsOfHeld
    /\ NothingLeft

\* Not so: an exit by the stop is recorded of sales only. The reason that names the stop is
\* given to the purchase of more of what is held, too.
StopExitsAreSales ==
    [][\A s \in Stock, in \in Input :
          Judge(s, in) /\ StopExitRecorded(s, in) => lots'[s] = 0]_decisionVars
=============================================================================
