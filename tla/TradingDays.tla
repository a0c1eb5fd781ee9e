------------------------------ MODULE TradingDays ------------------------------
(* The business days and the trading process, which runs at most once at a time *)
(* (infrastructure/persistence/execution_lock.py) and may be started again on    *)
(* the same day. The modules about what survives the process extend this one.   *)
EXTENDS Integers

CONSTANTS
    Symbol,
    Price,     \* prices of the market
    MaxDay     \* bound

ASSUME TradingDaysAssumption ==
    /\ Price \subseteq Nat \ {0}
    /\ MaxDay \in Nat \ {0}

VARIABLES
    today,
    trading    \* the process of run_trading.py runs

Day == 1..MaxDay

DaysInit == today = 1 /\ trading = FALSE

Begin == ~trading /\ trading' = TRUE /\ UNCHANGED today

\* The process ends, or dies.
End == trading /\ trading' = FALSE /\ UNCHANGED today

Tomorrow == ~trading /\ today < MaxDay /\ today' = today + 1 /\ UNCHANGED trading
=============================================================================
