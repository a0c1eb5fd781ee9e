---------------------------- MODULE TradingLoop ----------------------------
(***************************************************************************)
(* The trading process of src/src/application/trading_usecase.py in paper  *)
(* mode: TradingUseCase.run, the order path, the three state files it      *)
(* keeps (order history, paper account, kill-switch baseline), the manual  *)
(* emergency stop, the end-of-day liquidation, and crashes and restarts.   *)
(*                                                                         *)
(* Control is kept, data is abstracted: a holding is a symbol (SELL always *)
(* sells the whole holding), an order-history entry is a symbol and a side *)
(* dated today, a baseline capital is the run that computed it, and what   *)
(* prices, indicators, regime, budget and wallet decide is an input of the *)
(* step.  Module PaperAccount has the money.                               *)
(***************************************************************************)
EXTENDS Naturals, FiniteSets

CONSTANTS
    Symbol,                   \* the filter result of the day: symbols watched
    TARGET_POSITIONS,         \* slots for open positions
    MAX_ORDER_COUNT_PER_DAY,  \* BUY orders allowed per day
    SAVE_FAILURE_THRESHOLD,   \* STATE_SAVE_CONSECUTIVE_FAILURE_THRESHOLD
    ALLOW_OVERNIGHT_HOLDING,  \* TRUE: positions may be kept overnight
    MaxDay,                   \* bound: days explored
    MaxRun,                   \* bound: process starts explored
    MaxFailures               \* bound: consecutive failed saves of one file

ASSUME ConstantsAssumption ==
    /\ IsFiniteSet(Symbol)
    /\ TARGET_POSITIONS \in Nat \ {0}
    /\ MAX_ORDER_COUNT_PER_DAY \in Nat \ {0}
    /\ SAVE_FAILURE_THRESHOLD \in Nat \ {0}
    /\ ALLOW_OVERNIGHT_HOLDING \in BOOLEAN
    /\ MaxDay \in Nat \ {0}
    /\ MaxRun \in Nat
    /\ MaxFailures \in Nat

VARIABLES
    \* the world outside the process
    day, clock,      \* the date; before 15:20, from 15:20, from 15:30
    stopFile,        \* EMERGENCY_STOP_FILE exists
    \* the state files
    accountFile,     \* holdings in paper_account_state.json
    historyFile,     \* today's entries in order_history.json
    baselineFile,    \* kill_switch_baseline.json: date and origin of the capital
    \* the process
    stage,           \* where run() is
    now,             \* _current_now: the time this pass took at its top
    todo,            \* symbols left in this pass or in the liquidation
    order,           \* order accepted and not yet registered
    holdings,        \* PaperOrderClient.holdings
    history,         \* order_history, today's entries
    baseline,        \* daily_starting_capital: the run that computed it
    baselineUnsaved, \* _kill_switch_baseline_unsaved is not None
    failures,        \* consecutive failed saves per state file
    notified,        \* _save_failure_notified_sources
    killed,          \* kill_switch_triggered
    emergency,       \* emergency_stop_triggered
    unresolved,      \* holdings the liquidation could not sell, alerted at its end
    \* history variables
    run,             \* process starts so far
    bought, lost     \* BUY orders accepted today; those no longer on record

world    == <<day, clock, stopFile>>
files    == <<accountFile, historyFile, baselineFile>>
capital  == <<baseline, baselineUnsaved>>
switches == <<killed, emergency, unresolved>>
saving   == <<failures, notified>>
ghosts   == <<bought, lost>>
vars == <<world, files, stage, now, todo, order, holdings, history, capital,
          saving, switches, run, ghosts>>

-----------------------------------------------------------------------------
(* Vocabulary *)

Instant == {"session", "liquidation", "closed"}
Side    == {"BUY", "SELL"}
Source  == {"order_history", "kill_switch_baseline", "paper_state"}
Stage   == {"down", "start", "loop", "symbols", "liquidate", "report", "done"}

Entries == [BUY : SUBSET Symbol, SELL : SUBSET Symbol]  \* of today, by side
Capital == [day : 0..MaxDay, run : 0..MaxRun]           \* of a day, as a run computed it
Order   == [symbol : SUBSET Symbol, side : Side]

Stopped == stage \in {"down", "done"}
Running == ~Stopped

NoEntries == [BUY |-> {}, SELL |-> {}]
NoOrder == [symbol |-> {}, side |-> "BUY"]  \* no symbol: nothing in flight
Placed(s, side) == [symbol |-> {s}, side |-> side]
InFlight(side) == IF order.side = side THEN order.symbol ELSE {}

\* The BUYs of today that the process, or the file while it is down, knows of.
OnRecord == IF Running THEN history.BUY \cup InFlight("BUY") ELSE historyFile.BUY

Unsaved == (history.BUY \cup InFlight("BUY")) \ historyFile.BUY

-----------------------------------------------------------------------------
(* Saving a state file: write_json replaces the whole file or leaves it.   *)

\* Mutant: a successful save takes one failure off instead of all.
StreakDecremented(source, saved) == IF saved THEN failures[source] - 1
                                             ELSE failures[source] + 1

Streak(source, saved) == IF saved THEN 0 ELSE failures[source] + 1
MayEnd(source, saved) == saved \/ failures[source] < MaxFailures

\* Mutant: a file whose save works again is never taken off the list.
NotificationNeverReset ==
    notified' = notified \cup {source \in Source : failures'[source] > 0}

\* _check_state_save_failure_notification, run after the count is updated
CheckNotification == notified' = {source \in Source : failures'[source] > 0}

\* PaperOrderClient.place_market_order, accepted.  file and streak are the
\* account file and the failure counts at the time of the order.
PlaceMarketOrder(s, side, file, streak, saved) ==
    /\ saved \/ streak["paper_state"] < MaxFailures
    /\ holdings' = IF side = "BUY" THEN holdings \cup {s} ELSE holdings \ {s}
    /\ accountFile' = IF saved THEN holdings' ELSE file
    /\ failures' = [streak EXCEPT !["paper_state"] = IF saved THEN 0 ELSE @ + 1]
    /\ order' = Placed(s, side)

\* _retry_kill_switch_baseline_save
RetryBaselineSave(saved) ==
    IF baselineUnsaved
    THEN /\ MayEnd("kill_switch_baseline", saved)
         /\ baselineFile' = IF saved THEN [day |-> day, run |-> baseline]
                                     ELSE baselineFile
         /\ baselineUnsaved' = ~saved
         /\ failures' = [failures EXCEPT !["kill_switch_baseline"] =
                            Streak("kill_switch_baseline", saved)]
         /\ CheckNotification
    ELSE UNCHANGED <<baselineFile, baselineUnsaved, saving>>

-----------------------------------------------------------------------------
(* Start and stop of the process *)

Init ==
    /\ day = 1 /\ clock = "session" /\ stopFile = FALSE
    /\ accountFile = {}
    /\ historyFile = NoEntries
    /\ baselineFile = [day |-> 0, run |-> 0]
    /\ stage = "down" /\ now = "session" /\ todo = {} /\ order = NoOrder
    /\ holdings = {}
    /\ history = NoEntries
    /\ baseline = 0 /\ baselineUnsaved = FALSE
    /\ failures = [source \in Source |-> 0] /\ notified = {}
    /\ killed = FALSE /\ emergency = FALSE /\ unresolved = {}
    /\ run = 0
    /\ bought = [s \in Symbol |-> 0] /\ lost = [s \in Symbol |-> 0]

\* Mutant: every start computes the capital of the day again.
NeverReused == FALSE

\* _initialize_daily_starting_capital finds the capital of today in the file.
BaselineReusable == baselineFile.day = day

\* main() inside the session, then run() up to its loop: the account and the
\* history are read back, the capital of the day is reused or computed.
Start(saved) ==
    /\ Stopped /\ clock # "closed" /\ run < MaxRun
    /\ run' = run + 1
    /\ stage' = "start" /\ now' = clock /\ todo' = {} /\ order' = NoOrder
    /\ holdings' = accountFile
    /\ history' = historyFile
    /\ killed' = FALSE /\ emergency' = FALSE /\ unresolved' = {}
    /\ IF BaselineReusable
       THEN /\ saved
            /\ baseline' = baselineFile.run /\ baselineUnsaved' = FALSE
            /\ failures' = [source \in Source |-> 0]
            /\ UNCHANGED baselineFile
       ELSE /\ saved \/ MaxFailures > 0
            /\ baseline' = run' /\ baselineUnsaved' = ~saved
            /\ baselineFile' = IF saved THEN [day |-> day, run |-> run']
                                        ELSE baselineFile
            /\ failures' = [source \in Source |->
                   IF source = "kill_switch_baseline" /\ ~saved THEN 1 ELSE 0]
    /\ CheckNotification
    /\ UNCHANGED <<world, accountFile, historyFile, ghosts>>

\* BUY entries the process knew and the file does not have are gone.
LoseUnsaved == lost' = [s \in Symbol |-> IF s \in Unsaved THEN lost[s] + 1
                                                          ELSE lost[s]]

\* Memory of a process that is not there.
NoProcess ==
    /\ stage' = "down" /\ now' = "session" /\ todo' = {} /\ order' = NoOrder
    /\ baseline' = 0 /\ baselineUnsaved' = FALSE
    /\ failures' = [source \in Source |-> 0] /\ notified' = {}
    /\ killed' = FALSE /\ emergency' = FALSE /\ unresolved' = {}

\* The process dies between two steps, or an exception ends it.
Crash ==
    /\ Running
    /\ NoProcess
    /\ holdings' = accountFile /\ history' = historyFile
    /\ LoseUnsaved
    /\ UNCHANGED <<world, files, run, bought>>

\* _send_end_of_day_report reads the history file again, then run() returns.
Report ==
    /\ stage = "report"
    /\ stage' = "done"
    /\ history' = historyFile
    /\ LoseUnsaved
    /\ UNCHANGED <<world, files, now, todo, order, holdings, capital, saving,
                   switches, run, bought>>

-----------------------------------------------------------------------------
(* The top of the loop *)

\* Mutant: every pass uses the time run() began with.
PassTimeFrozen == now

\* The first pass uses the time run() began with.
PassTime == IF stage = "start" THEN now ELSE clock

\* Mutant: the liquidation skips what is_duplicate_order would refuse.
LiquidateUnsold == stage' = "liquidate" /\ todo' = holdings \ history.SELL

\* _liquidate_all_positions takes every position of the account.
Liquidate == stage' = "liquidate" /\ todo' = holdings

EmergencyStop ==
    /\ stage \in {"start", "loop"} /\ stopFile
    /\ killed' = TRUE /\ emergency' = TRUE
    /\ now' = clock
    /\ Liquidate
    /\ UNCHANGED <<world, files, order, holdings, history, capital, saving,
                   unresolved, run, ghosts>>

BeginPass(saved) ==
    /\ stage \in {"start", "loop"} /\ ~stopFile
    /\ now' = PassTime
    /\ RetryBaselineSave(saved)
    /\ \/ /\ PassTime # "session" /\ ~ALLOW_OVERNIGHT_HOLDING
          /\ Liquidate
       \/ /\ PassTime = "closed" /\ ALLOW_OVERNIGHT_HOLDING
          /\ stage' = "report" /\ UNCHANGED todo
       \/ /\ \/ PassTime = "session"
             \/ PassTime = "liquidation" /\ ALLOW_OVERNIGHT_HOLDING
          /\ stage' = "symbols" /\ todo' = Symbol
    /\ UNCHANGED <<world, accountFile, historyFile, order, holdings, history,
                   baseline, switches, run, ghosts>>

EndPass ==
    /\ stage = "symbols" /\ todo = {}
    /\ stage' = "loop"
    /\ UNCHANGED <<world, files, now, todo, order, holdings, history, capital,
                   saving, switches, run, ghosts>>

-----------------------------------------------------------------------------
(* One symbol of a pass *)

Evaluating(s) == stage = "symbols" /\ s \in todo /\ order = NoOrder

\* No signal, data missing, a gate of the BUY or SELL path that refuses without
\* touching state, a rejected order, or an exception: the next symbol.
PassOver(s) ==
    /\ Evaluating(s)
    /\ todo' = todo \ {s}
    /\ UNCHANGED <<world, files, stage, now, order, holdings, history, capital,
                   saving, switches, run, ghosts>>

\* Mutant: one position too many.
HasSlotAtLimit(s) == s \in holdings \/ Cardinality(holdings) <= TARGET_POSITIONS

HasSlot(s) == s \in holdings \/ Cardinality(holdings) < TARGET_POSITIONS

\* Mutant: the flag is set and the pass goes on to its end.
KillSwitchWithoutBreak ==
    /\ killed' = TRUE
    /\ todo # {} /\ UNCHANGED <<stage, todo>>
    /\ UNCHANGED <<world, files, now, order, holdings, history, capital, saving,
                   emergency, unresolved, run, ghosts>>

\* _trigger_kill_switch, the break out of the pass, and the end of the loop.
KillSwitch ==
    /\ killed' = TRUE
    /\ stage' = "report" /\ todo' = {}
    /\ UNCHANGED <<world, files, now, order, holdings, history, capital, saving,
                   emergency, unresolved, run, ghosts>>

\* A signal, and the soft limit of the API cannot be read.
ApiLimitUnavailable(s) == Evaluating(s) /\ KillSwitch

\* check_kill_switch refuses a BUY: too many BUYs today, or the loss limit.
BuyTripsKillSwitch(s) ==
    /\ Evaluating(s) /\ HasSlot(s)
    /\ \E lossLimitReached \in BOOLEAN :
          lossLimitReached \/ Cardinality(history.BUY) >= MAX_ORDER_COUNT_PER_DAY
    /\ KillSwitch

\* Mutants: one BUY too many; the positions counted instead of the BUYs.
AtKillSwitch == Cardinality(history.BUY) <= MAX_ORDER_COUNT_PER_DAY
FewPositions == Cardinality(holdings) < MAX_ORDER_COUNT_PER_DAY

BelowKillSwitch == Cardinality(history.BUY) < MAX_ORDER_COUNT_PER_DAY

\* _is_new_buy_halted_by_save_failure saves again what reached the threshold;
\* ok are the files whose save succeeds this time.
Blocking == {source \in Source : failures[source] >= SAVE_FAILURE_THRESHOLD}
Retried(ok) == [source \in Source |-> IF source \in Blocking
                                      THEN Streak(source, source \in ok)
                                      ELSE failures[source]]
AccountAfterRetry(ok) == IF "paper_state" \in ok THEN holdings ELSE accountFile
RetrySaves(ok) ==
    /\ ok \subseteq Blocking
    /\ \A source \in Blocking : MayEnd(source, source \in ok)
    /\ historyFile' = IF "order_history" \in ok THEN history ELSE historyFile
    /\ baselineFile' = IF "kill_switch_baseline" \in ok
                       THEN [day |-> day, run |-> baseline] ELSE baselineFile
    /\ baselineUnsaved' = (baselineUnsaved /\ "kill_switch_baseline" \notin ok)
    /\ UNCHANGED baseline

\* Mutant: the failures of the history file are not looked at.
HaltedByOthers(streak) == \E source \in {"kill_switch_baseline", "paper_state"} :
                              streak[source] >= SAVE_FAILURE_THRESHOLD

Halted(streak) == \E source \in Source : streak[source] >= SAVE_FAILURE_THRESHOLD

\* Mutant: only the orders not yet on disk count.
IsDuplicateUnsaved(s, side) == s \in history[side] \ historyFile[side]

\* is_duplicate_order: an order of this side for this symbol today.
IsDuplicateOrder(s, side) == s \in history[side]

\* BUY refused after the saves were retried: still halted, or not safe to order.
BuyRefusedAfterRetry(s, ok) ==
    /\ Evaluating(s) /\ HasSlot(s) /\ BelowKillSwitch
    /\ Blocking # {}
    /\ RetrySaves(ok)
    /\ accountFile' = AccountAfterRetry(ok)
    /\ failures' = Retried(ok)
    /\ CheckNotification
    /\ todo' = todo \ {s}
    /\ UNCHANGED <<world, stage, now, order, holdings, history, switches, run,
                   ghosts>>

\* BUY accepted: a free slot, no kill switch, no halt, no BUY of it today.
PlaceBuy(s, ok, saved) ==
    /\ Evaluating(s) /\ HasSlot(s) /\ BelowKillSwitch
    /\ RetrySaves(ok) /\ ~Halted(Retried(ok))
    /\ ~IsDuplicateOrder(s, "BUY")
    /\ PlaceMarketOrder(s, "BUY", AccountAfterRetry(ok), Retried(ok), saved)
    /\ notified' = IF Blocking = {} THEN notified
                   ELSE {source \in Source : Retried(ok)[source] > 0}
    /\ bought' = [bought EXCEPT ![s] = @ + 1]
    /\ UNCHANGED <<world, stage, now, todo, history, switches, run, lost>>

\* SELL accepted: held, and not sold today already.
PlaceSell(s, saved) ==
    /\ Evaluating(s)
    /\ s \in holdings /\ ~IsDuplicateOrder(s, "SELL")
    /\ PlaceMarketOrder(s, "SELL", accountFile, failures, saved)
    /\ UNCHANGED <<world, historyFile, baselineFile, stage, now, todo, history,
                   capital, notified, switches, run, ghosts>>

\* _register_order: append to the history and save all of it.
RegisterOrder(saved) ==
    /\ order # NoOrder
    /\ MayEnd("order_history", saved)
    /\ history' = [BUY  |-> history.BUY \cup InFlight("BUY"),
                   SELL |-> history.SELL \cup InFlight("SELL")]
    /\ historyFile' = IF saved THEN history' ELSE historyFile
    /\ failures' = [failures EXCEPT !["order_history"] = Streak("order_history", saved)]
    /\ CheckNotification
    /\ todo' = todo \ order.symbol
    /\ order' = NoOrder
    /\ UNCHANGED <<world, accountFile, baselineFile, stage, now, holdings, capital,
                   switches, run, ghosts>>

-----------------------------------------------------------------------------
(* Liquidation: _liquidate_all_positions *)

\* Every holding is sold at the board price or a fallback price; neither the
\* duplicate check nor the order lock applies.
LiquidatePosition(s, saved) ==
    /\ stage = "liquidate" /\ s \in todo /\ order = NoOrder
    /\ PlaceMarketOrder(s, "SELL", accountFile, failures, saved)
    /\ UNCHANGED <<world, historyFile, baselineFile, stage, now, todo, history,
                   capital, notified, switches, run, ghosts>>

\* Mutant: the next holding is taken before the failure is noted.
LiquidationFailsUnnoticed(s) ==
    /\ stage = "liquidate" /\ s \in todo /\ order = NoOrder
    /\ todo' = todo \ {s}
    /\ UNCHANGED <<world, files, stage, now, order, holdings, history, capital,
                   saving, switches, run, ghosts>>

\* An exception while one holding is sold: it is noted and the next one taken.
LiquidationFails(s) ==
    /\ stage = "liquidate" /\ s \in todo /\ order = NoOrder
    /\ todo' = todo \ {s}
    /\ unresolved' = unresolved \cup {s}
    /\ UNCHANGED <<world, files, stage, now, order, holdings, history, capital,
                   saving, killed, emergency, run, ghosts>>

EndLiquidation ==
    /\ stage = "liquidate" /\ todo = {}
    /\ stage' = "report"
    /\ UNCHANGED <<world, files, now, todo, order, holdings, history, capital,
                   saving, switches, run, ghosts>>

-----------------------------------------------------------------------------
(* The world *)

Tick ==
    /\ clock' = CASE clock = "session"     -> "liquidation"
                  [] clock = "liquidation" -> "closed"
                  [] OTHER                 -> clock
    /\ clock # "closed"
    /\ UNCHANGED <<day, stopFile, files, stage, now, todo, order, holdings, history,
                   capital, saving, switches, run, ghosts>>

\* Entries and counts of today become those of a past day.
NextDay ==
    /\ Stopped /\ clock = "closed" /\ day < MaxDay
    /\ day' = day + 1 /\ clock' = "session"
    /\ historyFile' = NoEntries /\ history' = NoEntries
    /\ holdings' = accountFile
    /\ NoProcess
    /\ bought' = [s \in Symbol |-> 0] /\ lost' = [s \in Symbol |-> 0]
    /\ UNCHANGED <<stopFile, accountFile, baselineFile, run>>

\* The operator creates the stop file at any time and removes it between runs.
ToggleStopFile ==
    /\ stopFile => Stopped
    /\ stopFile' = ~stopFile
    /\ UNCHANGED <<day, clock, files, stage, now, todo, order, holdings, history,
                   capital, saving, switches, run, ghosts>>

-----------------------------------------------------------------------------
Evaluate(s) ==
    \/ PassOver(s)
    \/ ApiLimitUnavailable(s)
    \/ BuyTripsKillSwitch(s)
    \/ \E ok \in SUBSET Source : BuyRefusedAfterRetry(s, ok)
    \/ \E ok \in SUBSET Source, saved \in BOOLEAN : PlaceBuy(s, ok, saved)
    \/ \E saved \in BOOLEAN : PlaceSell(s, saved)

LoopStep ==
    \/ EmergencyStop
    \/ \E saved \in BOOLEAN : BeginPass(saved)
    \/ EndPass
    \/ \E s \in Symbol : Evaluate(s)
    \/ \E saved \in BOOLEAN : RegisterOrder(saved)
    \/ \E s \in Symbol, saved \in BOOLEAN : LiquidatePosition(s, saved)
    \/ \E s \in Symbol : LiquidationFails(s)
    \/ EndLiquidation
    \/ Report

Next ==
    \/ \E saved \in BOOLEAN : Start(saved)
    \/ LoopStep
    \/ Crash
    \/ Tick \/ NextDay \/ ToggleStopFile

Spec == Init /\ [][Next]_vars

\* The process keeps running while it is up, and time passes.
FairSpec == Spec /\ WF_vars(LoopStep) /\ WF_vars(Tick)

-----------------------------------------------------------------------------
(* Properties *)

TypeOK ==
    /\ day \in 1..MaxDay /\ clock \in Instant /\ stopFile \in BOOLEAN
    /\ accountFile \subseteq Symbol
    /\ historyFile \in Entries
    /\ baselineFile \in Capital
    /\ stage \in Stage /\ now \in Instant
    /\ todo \subseteq Symbol
    /\ order \in Order
    /\ holdings \subseteq Symbol
    /\ history \in Entries
    /\ baseline \in 0..MaxRun /\ baselineUnsaved \in BOOLEAN
    /\ failures \in [Source -> Nat] /\ notified \subseteq Source
    /\ killed \in BOOLEAN /\ emergency \in BOOLEAN /\ unresolved \subseteq Symbol
    /\ run \in 0..MaxRun
    /\ bought \in [Symbol -> Nat] /\ lost \in [Symbol -> Nat]

\* is_duplicate_order over all the runs of a day: a symbol is bought a second
\* time only when the history entry of an earlier BUY was lost.
DuplicateOnlyIfLost == \A s \in Symbol : bought[s] <= 1 + lost[s]

\* TARGET_POSITIONS bounds the positions held in memory and, whatever saves
\* failed and whenever the process died, those the next start reads back.
PositionLimit ==
    /\ Cardinality(holdings) <= TARGET_POSITIONS
    /\ Cardinality(accountFile) <= TARGET_POSITIONS

\* MAX_ORDER_COUNT_PER_DAY bounds the BUY entries of a day over all its runs.
DailyOrderCap == Cardinality(OnRecord) <= MAX_ORDER_COUNT_PER_DAY

\* What bounds the orders of a day holds for all its runs together, although the
\* process reads it from three places that crashes and failed saves pull apart:
\* the account, the history in memory and the history on disk.
OrderLimits == DuplicateOnlyIfLost /\ PositionLimit /\ DailyOrderCap

\* NEW_BUY_HALTED_STATE_SAVE_FAILURE bounds what a crash can make the bot
\* forget: at most the threshold of BUYs is accepted and not on disk.
CrashLossBounded == Running => Cardinality(Unsaved) <= SAVE_FAILURE_THRESHOLD

\* Between two orders a save streak of zero means the file is the memory, and
\* a streak above zero has been reported to the operator.
SavedOrReported ==
    (Running /\ order = NoOrder) =>
        /\ failures["order_history"] = 0 => historyFile = history
        /\ failures["paper_state"] = 0 => accountFile = holdings
        /\ failures["kill_switch_baseline"] = 0 =>
               baselineFile = [day |-> day, run |-> baseline]
        /\ notified = {source \in Source : failures[source] > 0}

\* The capital of the daily loss limit is computed once a day: when the file
\* holds the capital of today, every run of today uses that one and keeps it.
BaselineKept ==
    [][baselineFile.day = day /\ day' = day =>
          /\ baselineFile' = baselineFile
          /\ stage' \notin {"down", "done"} => baseline' = baselineFile.run]_vars

\* After the kill switch trips, or once the liquidation has begun, the process
\* buys nothing more, whatever signals the rest of the pass would have given.
NoBuyOnceStopping ==
    [][killed \/ stage \in {"liquidate", "report"} => bought' = bought \/ day' # day]_vars

\* A run that ends without an automatic kill switch leaves nothing to carry
\* overnight when ALLOW_OVERNIGHT_HOLDING is false but what the operator was
\* alerted of, also for a symbol that was already sold once today.
FlatAfterNormalEnd ==
    stage = "done" /\ ~ALLOW_OVERNIGHT_HOLDING /\ (~killed \/ emergency) =>
        holdings \subseteq unresolved

\* The loop ends: a running process stops once the market has closed.
RunEnds == Running ~> Stopped

\* A stop file makes the process sell what it holds or alert the operator of the
\* rest, unless the process dies or the run is ending for another reason when
\* the file appears.
EmergencyStopFlattens ==
    (stopFile /\ Running) ~>
        \/ holdings \subseteq unresolved
        \/ stage = "down"
        \/ stage = "done" /\ ~emergency

\* The loop implements the daily ledger.
Ledger == INSTANCE DailyLedger WITH remembered <- OnRecord
ImplementsLedger == Ledger!LedgerSpec

-----------------------------------------------------------------------------
(* What the documentation says and the code does not do *)

\* src/README.md:135: the history file prevents duplicate orders and the state
\* is kept across restarts.
NoDuplicateBuy == \A s \in Symbol : bought[s] <= 1

\* src/docs/detail_design/03-trading-loop-design.md:75: without overnight
\* holding everything is sold from 15:20 on and the loop ends.
FlatAtClose == stage = "done" /\ ~ALLOW_OVERNIGHT_HOLDING => holdings = {}
=============================================================================
