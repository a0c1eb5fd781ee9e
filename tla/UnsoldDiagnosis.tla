---------------------------- MODULE UnsoldDiagnosis ----------------------------
(* The diagnosis of a symbol that was bought and not sold, beside the day it looks *)
(* back on. Minute by minute the trading loop follows the price and sells when the *)
(* trailing stop or the lower band says so, unless it is hindered: the order is    *)
(* blocked, the minute is missed, the process starts again and forgets the highest *)
(* price. It writes a line only when its judgement changes. The diagnosis replays  *)
(* the rules over the minute bars, or over the lines when there are no bars.       *)
(*                                                                             *)
(* Prices are counted in units of the average true range; the purchase is minute 0. *)
EXTENDS Integers, Sequences, SequencesExt, FiniteSetsExt, ListComprehension

CONSTANTS
    MinuteQuotes, BOUGHT_AT, LOWER_LINE,
    ExitPairs,           \* [stop, lock]: the multipliers of a level of volatility
    LOCK_AT,             \* gain from which the second is used
    TOLERANCE,           \* SELL_DELAY_TOLERANCE_LOOPS
    STALL,               \* LOOP_STALL_LOOPS
    LIQUIDATE_AT, CLOSE_AT \* minutes

\* The multipliers are positive, and either may be the larger: the defaults of the configuration
\* use a wider stop from LOCK_AT on.
ASSUME UnsoldAssumption ==
    /\ MinuteQuotes \subseteq Int /\ {BOUGHT_AT, LOWER_LINE, LOCK_AT} \subseteq Int
    /\ ExitPairs \subseteq [stop : Nat \ {0}, lock : Nat \ {0}]
    /\ {TOLERANCE, STALL, CLOSE_AT} \subseteq Nat /\ LIQUIDATE_AT \in Nat \ {0}

VARIABLES
    exitPair, weakAt,    \* of the day: multipliers, price from which on down the RSI is weak
    path,                \* the price of every minute since the purchase
    barsKept,            \* whether the minute bars of the day are stored
    followed,            \* the highest price the loop remembers
    lastJudged, lines,   \* its last judgement; the lines of the log: [at, price, weak, high]
    soldAt,              \* 0: not sold
    refusals,            \* lines about a sale that was blocked
    hindrances,          \* what hindered the loop (ghost)
    saidSell             \* minute of the first judgement to sell (ghost); 0: none

unsoldVars == <<exitPair, weakAt, path, barsKept, followed, lastJudged, lines, soldAt, refusals,
                hindrances, saidSell>>

HigherOf(m, n) == IF m >= n THEN m ELSE n
Now == Len(path)

\* resolve_atr_exit_multiplier, over the highest price held
ExitMultiplier(high) == IF high - BOUGHT_AT >= LOCK_AT THEN exitPair.lock ELSE exitPair.stop

\* TradeSignal.evaluate of what is held
ExitDue(price, high, weak) ==
    \/ price <= high - ExitMultiplier(high)
    \/ price <= LOWER_LINE /\ weak

-----------------------------------------------------------------------------
(* The day *)

UnsoldInit ==
    /\ exitPair \in ExitPairs /\ weakAt \in {LOWER_LINE - 1, LOWER_LINE, LOWER_LINE + 1}
    /\ path = <<>> /\ barsKept \in BOOLEAN
    /\ followed = BOUGHT_AT
    /\ lastJudged = "BUY" /\ lines = <<[at |-> 0, price |-> BOUGHT_AT, weak |-> FALSE, high |-> 0]>>
    /\ soldAt = 0 /\ refusals = 0 /\ hindrances = {} /\ saidSell = 0

\* A line only when the judgement is another than before.
Judgement(say, price, high) ==
    /\ lastJudged' = say
    /\ lines' = IF say = lastJudged THEN lines
                ELSE Append(lines, [at |-> Now + 1, price |-> price, weak |-> price <= weakAt, high |-> high])

LookAtMinute(price, blocked) ==
    /\ path' = Append(path, price)
    /\ followed' = HigherOf(followed, price)
    /\ IF ExitDue(price, followed', price <= weakAt)
       THEN /\ Judgement("SELL", price, followed')
            /\ saidSell' = IF saidSell = 0 THEN Now + 1 ELSE saidSell
            /\ soldAt' = IF blocked THEN 0 ELSE Now + 1
            /\ refusals' = IF blocked THEN refusals + 1 ELSE refusals
            /\ hindrances' = IF blocked THEN hindrances \cup {"blocked"} ELSE hindrances
       ELSE /\ ~blocked
            /\ Judgement("none", price, followed')
            /\ UNCHANGED <<saidSell, soldAt, refusals, hindrances>>
    /\ UNCHANGED <<exitPair, weakAt, barsKept>>

\* From the liquidation on the loop sells whatever the price is.
LiquidateAtEnd(price) ==
    /\ path' = Append(path, price)
    /\ soldAt' = Now + 1
    /\ UNCHANGED <<exitPair, weakAt, barsKept, followed, lastJudged, lines, refusals, hindrances,
                   saidSell>>

MissMinute(price) ==
    /\ path' = Append(path, price)
    /\ hindrances' = hindrances \cup {"missed"}
    /\ UNCHANGED <<exitPair, weakAt, barsKept, followed, lastJudged, lines, soldAt, refusals, saidSell>>

\* The price of the purchase takes the place of the forgotten one.
LoopRestarts ==
    /\ Now > 0 /\ "restarted" \notin hindrances /\ soldAt = 0
    /\ followed' = BOUGHT_AT /\ lastJudged' = "unknown"
    /\ hindrances' = hindrances \cup {"restarted"}
    /\ UNCHANGED <<exitPair, weakAt, path, barsKept, lines, soldAt, refusals, saidSell>>

UnsoldNext ==
    \/ LoopRestarts
    \/ /\ Now < CLOSE_AT /\ soldAt = 0
       /\ \E price \in MinuteQuotes :
              \/ Now + 1 < LIQUIDATE_AT /\ \E blocked \in BOOLEAN : LookAtMinute(price, blocked)
              \/ Now + 1 >= LIQUIDATE_AT /\ LiquidateAtEnd(price)
              \/ MissMinute(price)

UnsoldSpec == UnsoldInit /\ [][UnsoldNext]_unsoldVars

-----------------------------------------------------------------------------
(* The diagnosis *)

\* The lines since the purchase, its own included, until the sale.
Observed == Picked(lines, {line \in Range(lines) : soldAt = 0 \/ line.at <= soldAt})

\* The bars if there are any, else the lines.
ObservedPath ==
    LET end == IF soldAt = 0 THEN Now ELSE soldAt
    IN  IF barsKept /\ end > 0 THEN [i \in 1..end |-> [at |-> i, price |-> path[i]]]
        ELSE [i \in DOMAIN Observed |-> [at |-> Observed[i].at, price |-> Observed[i].price]]

\* The strength of the last line before; that of the purchase was not weak.
WeakAt(minute) ==
    LET known == {i \in DOMAIN Observed : Observed[i].at <= minute}
    IN  Observed[Max(known)].weak

\* Mutant: the highest price is not followed, as after a restart.
FollowFromPurchase(sim, ob) == [sim EXCEPT !.high = BOUGHT_AT]

\* simulate_exit_path: the highest price first, then the multiplier, then the conditions.
FollowHigh(sim, ob) == [sim EXCEPT !.high = HigherOf(@, ob.price)]

SimulateStep(sim, ob) ==
    LET next == FollowHigh(sim, ob)
    IN  IF sim.trigger = -1 /\ ExitDue(ob.price, next.high, WeakAt(ob.at))
        THEN [next EXCEPT !.trigger = ob.at] ELSE next

Simulated == FoldLeft(SimulateStep, [high |-> BOUGHT_AT, trigger |-> -1], ObservedPath)

\* Mutant: an exit is late only when it never came.
LateNever(minute) == soldAt = 0

Late(minute) == soldAt = 0 \/ soldAt - minute > TOLERANCE

\* A condition was met and no sale followed in time: of the rules, or of the end of the day.
Untimely ==
    LET end == IF soldAt = 0 THEN Now ELSE soldAt
    IN  \/ Simulated.trigger # -1 /\ Late(Simulated.trigger)
        \/ end - LIQUIDATE_AT > TOLERANCE /\ Late(LIQUIDATE_AT)

LoggedHighs == {Observed[i].high : i \in DOMAIN Observed} \ {0}

\* The highest price of the log lags behind the bars.
HighAnomaly ==
    /\ barsKept /\ LoggedHighs # {}
    /\ Max({ObservedPath[i].price : i \in DOMAIN ObservedPath}) > Max(LoggedHighs)

\* No line for a long time, while it is held and the market is open.
LooksStalled == soldAt = 0 /\ Now - Last(Observed).at > STALL /\ Now < CLOSE_AT

\* Range of the prices, that of the purchase included.
Moved ==
    LET prices == {ObservedPath[i].price : i \in DOMAIN ObservedPath} \cup {BOUGHT_AT}
    IN  Max(prices) # Min(prices)

\* classify: failures first, then whether the price moved at all.
Classification ==
    IF Untimely \/ HighAnomaly \/ LooksStalled \/ (refusals > 0 /\ soldAt = 0) THEN "failure"
    ELSE IF ~Moved THEN "stagnant"
    ELSE "held"

-----------------------------------------------------------------------------
(* Properties *)

UnsoldTypeOK ==
    /\ Now \in 0..CLOSE_AT /\ soldAt \in 0..CLOSE_AT /\ saidSell \in 0..CLOSE_AT
    /\ lastJudged \in {"BUY", "SELL", "none", "unknown"}
    /\ hindrances \subseteq {"blocked", "missed", "restarted"}

\* Unless the loop was hindered, no condition is said to have been met without a sale in time,
\* whether the diagnosis replays the bars or the few lines of the log.
NoFalseTrigger == hindrances = {} => ~Untimely

HighAt(m) == Max({path[i] : i \in 1..m} \cup {BOUGHT_AT})

\* When the loop judged to sell and no sale followed in time, the diagnosis says failure: always while
\* it is held, and of a late sale when there are bars and the rules say so of the highest price since
\* the purchase, too. What the loop remembers may be less, and its stop then the nearer one.
SaleMissedSeen ==
    /\ saidSell # 0 /\ Late(saidSell)
    /\ \/ soldAt = 0
       \/ barsKept /\ ExitDue(path[saidSell], HighAt(saidSell), path[saidSell] <= weakAt)
    => Classification = "failure"

\* A sale that was due by the highest price since the purchase, which a restart forgets, is seen
\* in the bars.
ForgottenStopSeen ==
    barsKept =>
        \A m \in 1..Now :
            path[m] <= HighAt(m) - ExitMultiplier(HighAt(m)) /\ Late(m) => Untimely

\* The three together.
DiagnosisSound == NoFalseTrigger /\ SaleMissedSeen /\ ForgottenStopSeen
=============================================================================
