----------------------- MODULE EveningPrograms_proofs -----------------------
(***************************************************************************)
(* Theorems about the trading loop (TradingLoop) and about five of the       *)
(* programs that tell of its days: what the operator hears of a trading day, *)
(* the backfill of minute bars, the replay of several days, the review of    *)
(* the strategy and the diagnosis of an unsold symbol. For every value of    *)
(* the constants.                                                            *)
(***************************************************************************)
EXTENDS MCEvening, FoldLemmas, FiniteSetTheorems, TLAPS

-----------------------------------------------------------------------------
(* The trading loop (TradingLoop). The inductive invariant, in named parts *)

\* At most one order is in flight, only in a pass or a liquidation, and its
\* symbol is still to be crossed off; a liquidation only sells.
InFlightInv ==
    \/ order = NoOrder
    \/ \E s \in todo :
          \/ stage = "symbols" /\ \E side \in Side : order = Placed(s, side)
          \/ stage = "liquidate" /\ order = Placed(s, "SELL")

\* Once the kill switch has tripped the passes are over.
StoppingInv ==
    /\ killed => stage \in {"liquidate", "report", "done"}
    /\ emergency => stage \in {"liquidate", "report", "done"}

\* What the liquidation has not sold yet is on its list or noted.
FlatInv ==
    /\ stage = "liquidate" => holdings \subseteq (todo \ order.symbol) \cup unresolved
    /\ stage \in {"report", "done"} /\ ~ALLOW_OVERNIGHT_HOLDING /\ (~killed \/ emergency)
          => holdings \subseteq unresolved

\* The books balance: a BUY of today is on record or counted as lost.
LedgerInv ==
    /\ historyFile.BUY \subseteq OnRecord
    /\ Running => history.BUY \cap InFlight("BUY") = {}
    /\ \A s \in Symbol : bought[s] = lost[s] + (IF s \in OnRecord THEN 1 ELSE 0)

\* The streak of failed saves bounds what the history file is missing.
Missing == history.BUY \ historyFile.BUY
StreakInv ==
    Running => /\ Cardinality(Missing) <= failures["order_history"]
               /\ Cardinality(Unsaved) <= SAVE_FAILURE_THRESHOLD

\* A streak of zero means the file is the memory.
HistoryInv ==
    Running => (failures["order_history"] = 0 => historyFile = history)
AccountInv ==
    Running => (failures["paper_state"] = 0 => accountFile = holdings)
BaselineInv ==
    Running =>
        /\ failures["kill_switch_baseline"] = 0 <=> ~baselineUnsaved
        /\ ~baselineUnsaved => baselineFile = [day |-> day, run |-> baseline]
        /\ baselineUnsaved => baselineFile.day # day

\* A streak above zero has been reported, but for the order in flight.
NotifiedInv ==
    (Running /\ order = NoOrder) =>
        notified = {source \in Source : failures[source] > 0}

IInv ==
    /\ TypeOK
    /\ InFlightInv /\ StoppingInv /\ FlatInv
    /\ LedgerInv /\ DailyOrderCap /\ StreakInv
    /\ PositionLimit
    /\ HistoryInv /\ AccountInv /\ BaselineInv /\ NotifiedInv

-----------------------------------------------------------------------------
(* Type correctness *)

USE DEF Source, Side

\* What the records of the model are made of.
LEMMA RecordTypes ==
    /\ NoEntries \in Entries /\ NoOrder \in Order
    /\ \A s \in Symbol, side \in Side : Placed(s, side) \in Order
    /\ \A d \in 0..MaxDay, r \in 0..MaxRun : [day |-> d, run |-> r] \in Capital
    /\ \A B, S \in SUBSET Symbol : [BUY |-> B, SELL |-> S] \in Entries
    /\ \A h \in Entries : h.BUY \subseteq Symbol /\ h.SELL \subseteq Symbol
    /\ \A o \in Order : o.symbol \subseteq Symbol /\ o.side \in Side
    /\ \A c \in Capital : c.day \in 0..MaxDay /\ c.run \in 0..MaxRun
  BY DEF NoEntries, NoOrder, Entries, Order, Capital, Placed

LEMMA InitType == Init => TypeOK
<1> SUFFICES ASSUME Init PROVE TypeOK
    OBVIOUS
<1>1. baselineFile \in Capital
  BY ConstantsAssumption, RecordTypes DEF Init
<1>2. day \in 1..MaxDay /\ run \in 0..MaxRun /\ baseline \in 0..MaxRun
  BY ConstantsAssumption DEF Init
<1>3. failures \in [Source -> Nat] /\ bought \in [Symbol -> Nat] /\ lost \in [Symbol -> Nat]
  BY SMTT(30) DEF Init
<1>4. QED
  BY <1>1, <1>2, <1>3, RecordTypes DEF Init, TypeOK, Instant, Stage

\* Every step of the process, of the world and of a crash keeps the types.
LEMMA NextType == TypeOK /\ [Next]_vars => TypeOK'
<1> SUFFICES ASSUME TypeOK, [Next]_vars PROVE TypeOK'
    OBVIOUS
<1> USE ConstantsAssumption, RecordTypes DEF TypeOK
<1>1. ASSUME NEW saved \in BOOLEAN, Start(saved) PROVE TypeOK'
  <2>1. run' \in 0..MaxRun
    BY <1>1 DEF Start
  <2>2. /\ baselineFile' \in Capital
        /\ baseline' \in 0..MaxRun /\ baselineUnsaved' \in BOOLEAN
        /\ failures' \in [Source -> Nat]
    <3>1. CASE BaselineReusable
      <4>1. baselineFile' \in Capital /\ baseline' \in 0..MaxRun /\ baselineUnsaved' \in BOOLEAN
        BY <1>1, <3>1 DEF Start
      <4>2. failures' \in [Source -> Nat]
        BY <1>1, <3>1 DEF Start
      <4>3. QED
        BY <4>1, <4>2
    <3>2. CASE ~BaselineReusable
      <4>1. baselineFile' \in Capital /\ baseline' \in 0..MaxRun /\ baselineUnsaved' \in BOOLEAN
        BY <1>1, <2>1, <3>2 DEF Start
      <4>2. failures' \in [Source -> Nat]
        BY <1>1, <3>2 DEF Start
      <4>3. QED
        BY <4>1, <4>2
    <3>3. QED
      BY <3>1, <3>2
  <2>3. notified' \subseteq Source
    BY <1>1 DEF Start, CheckNotification
  <2>4. QED
    BY <1>1, <2>1, <2>2, <2>3 DEF Start, Stage, world, ghosts
<1>2. CASE EmergencyStop
  BY <1>2 DEF EmergencyStop, Liquidate, Stage, world, files, capital, saving, ghosts
<1>3. ASSUME NEW saved \in BOOLEAN, BeginPass(saved) PROVE TypeOK'
  <2>1. /\ baselineFile' \in Capital
        /\ baselineUnsaved' \in BOOLEAN
        /\ failures' \in [Source -> Nat]
        /\ notified' \subseteq Source
    <3>1. CASE baselineUnsaved
      BY <1>3, <3>1 DEF BeginPass, RetryBaselineSave, CheckNotification, Streak
    <3>2. CASE ~baselineUnsaved
      BY <1>3, <3>2 DEF BeginPass, RetryBaselineSave, saving
    <3>3. QED
      BY <3>1, <3>2
  <2>2. now' \in Instant /\ stage' \in Stage /\ todo' \subseteq Symbol
    BY <1>3 DEF BeginPass, Liquidate, PassTime, Stage
  <2>3. QED
    BY <1>3, <2>1, <2>2 DEF BeginPass, world, switches, ghosts
<1>4. CASE EndPass
  BY <1>4 DEF EndPass, Stage, world, files, capital, saving, switches, ghosts
<1>5. ASSUME NEW s \in Symbol, Evaluate(s) PROVE TypeOK'
  <2>1. CASE PassOver(s)
    BY <2>1 DEF PassOver, world, files, capital, saving, switches, ghosts
  <2>2. CASE ApiLimitUnavailable(s) \/ BuyTripsKillSwitch(s)
    BY <2>2 DEF ApiLimitUnavailable, BuyTripsKillSwitch, KillSwitch, Stage, world, files,
       capital, saving, ghosts
  <2>3. ASSUME NEW ok \in SUBSET Source
        PROVE  /\ Retried(ok) \in [Source -> Nat]
               /\ AccountAfterRetry(ok) \subseteq Symbol
               /\ RetrySaves(ok) => /\ historyFile' \in Entries
                                    /\ baselineFile' \in Capital
                                    /\ baselineUnsaved' \in BOOLEAN
                                    /\ baseline' \in 0..MaxRun
    <3>1. Retried(ok) \in [Source -> Nat]
      BY DEF Retried, Streak
    <3>2. AccountAfterRetry(ok) \subseteq Symbol
      BY DEF AccountAfterRetry
    <3>3. RetrySaves(ok) => /\ historyFile' \in Entries
                            /\ baselineFile' \in Capital
                            /\ baselineUnsaved' \in BOOLEAN
                            /\ baseline' \in 0..MaxRun
      BY DEF RetrySaves
    <3>4. QED
      BY <3>1, <3>2, <3>3
  <2>4. ASSUME NEW ok \in SUBSET Source, BuyRefusedAfterRetry(s, ok) PROVE TypeOK'
    BY <2>3, <2>4 DEF BuyRefusedAfterRetry, CheckNotification, world, switches, ghosts
  <2>5. ASSUME NEW ok \in SUBSET Source, NEW saved \in BOOLEAN, PlaceBuy(s, ok, saved)
        PROVE TypeOK'
    <3>1. failures' \in [Source -> Nat]
      BY <2>3, <2>5 DEF PlaceBuy, PlaceMarketOrder
    <3>2. holdings' \subseteq Symbol /\ accountFile' \subseteq Symbol /\ order' \in Order
      BY <2>3, <2>5 DEF PlaceBuy, PlaceMarketOrder
    <3>3. notified' \subseteq Source
      BY <2>5 DEF PlaceBuy
    <3>4. bought' \in [Symbol -> Nat]
      BY <2>5 DEF PlaceBuy
    <3>5. QED
      <4>1. /\ historyFile' \in Entries /\ baselineFile' \in Capital
            /\ baselineUnsaved' \in BOOLEAN /\ baseline' \in 0..MaxRun
        BY <2>3, <2>5 DEF PlaceBuy
      <4>2. QED
        BY <2>5, <3>1, <3>2, <3>3, <3>4, <4>1 DEF PlaceBuy, world, switches
  <2>6. ASSUME NEW saved \in BOOLEAN, PlaceSell(s, saved) PROVE TypeOK'
    BY <2>6 DEF PlaceSell, PlaceMarketOrder, world, capital, switches, ghosts
  <2>7. QED
    BY <1>5, <2>1, <2>2, <2>4, <2>5, <2>6 DEF Evaluate
<1>6. ASSUME NEW saved \in BOOLEAN, RegisterOrder(saved) PROVE TypeOK'
  <2>1. history' \in Entries
    BY <1>6 DEF RegisterOrder, InFlight
  <2>2. failures' \in [Source -> Nat] /\ notified' \subseteq Source
    BY <1>6 DEF RegisterOrder, Streak, CheckNotification
  <2>3. QED
    BY <1>6, <2>1, <2>2 DEF RegisterOrder, world, capital, switches, ghosts
<1>7. ASSUME NEW s \in Symbol, NEW saved \in BOOLEAN, LiquidatePosition(s, saved)
      PROVE TypeOK'
  BY <1>7 DEF LiquidatePosition, PlaceMarketOrder, world, capital, switches, ghosts
<1>8. ASSUME NEW s \in Symbol, LiquidationFails(s) PROVE TypeOK'
  BY <1>8 DEF LiquidationFails, world, files, capital, saving, ghosts
<1>9. CASE EndLiquidation
  BY <1>9 DEF EndLiquidation, Stage, world, files, capital, saving, switches, ghosts
<1>10. CASE Report
  <2>1. lost' \in [Symbol -> Nat]
    BY <1>10 DEF Report, LoseUnsaved
  <2>2. QED
    BY <1>10, <2>1 DEF Report, Stage, world, files, capital, saving, switches
<1>11. NoProcess => /\ stage' \in Stage /\ now' \in Instant /\ todo' \subseteq Symbol
                    /\ order' \in Order /\ baseline' \in 0..MaxRun
                    /\ baselineUnsaved' \in BOOLEAN
                    /\ failures' \in [Source -> Nat] /\ notified' \subseteq Source
                    /\ killed' \in BOOLEAN /\ emergency' \in BOOLEAN
                    /\ unresolved' \subseteq Symbol
  <2>1. NoProcess => failures' \in [Source -> Nat]
    BY DEF NoProcess
  <2>2. NoProcess => /\ stage' \in Stage /\ now' \in Instant /\ todo' \subseteq Symbol
                     /\ order' \in Order
    BY DEF NoProcess, Stage, Instant
  <2>3. NoProcess => /\ notified' \subseteq Source /\ unresolved' \subseteq Symbol
    BY DEF NoProcess
  <2>4. NoProcess => baselineUnsaved' \in BOOLEAN /\ killed' \in BOOLEAN
                     /\ emergency' \in BOOLEAN
    BY DEF NoProcess
  <2>5. NoProcess => baseline' \in 0..MaxRun
    BY DEF NoProcess
  <2>6. QED
    BY <2>1, <2>2, <2>3, <2>4, <2>5
<1>12. CASE Crash
  <2>1. lost' \in [Symbol -> Nat]
    BY <1>12 DEF Crash, LoseUnsaved
  <2>2. QED
    BY <1>11, <1>12, <2>1 DEF Crash, world, files
<1>13. CASE Tick
  BY <1>13 DEF Tick, Instant, files, capital, saving, switches, ghosts
<1>14. CASE NextDay
  <2>1. /\ day' \in 1..MaxDay /\ clock' \in Instant /\ stopFile' \in BOOLEAN
        /\ run' \in 0..MaxRun
    BY <1>14 DEF NextDay, Instant
  <2>2. /\ accountFile' \subseteq Symbol /\ historyFile' \in Entries
        /\ baselineFile' \in Capital
        /\ holdings' \subseteq Symbol /\ history' \in Entries
    BY <1>14 DEF NextDay
  <2>3. bought' \in [Symbol -> Nat] /\ lost' \in [Symbol -> Nat]
    BY <1>14 DEF NextDay
  <2>4. NoProcess
    BY <1>14 DEF NextDay
  <2>5. QED
    BY <1>11, <2>1, <2>2, <2>3, <2>4
<1>15. CASE ToggleStopFile
  BY <1>15 DEF ToggleStopFile, files, capital, saving, switches, ghosts
<1>16. CASE UNCHANGED vars
  BY <1>16 DEF vars, world, files, capital, saving, switches, ghosts
<1>17. QED
  BY <1>1, <1>2, <1>3, <1>4, <1>5, <1>6, <1>7, <1>8, <1>9, <1>10, <1>12, <1>13,
     <1>14, <1>15, <1>16 DEF Next, LoopStep

-----------------------------------------------------------------------------
(* Lemmas the invariants share *)

LEMMA Sizes ==
    /\ Cardinality({}) = 0
    /\ \A S \in SUBSET Symbol : IsFiniteSet(S) /\ Cardinality(S) \in Nat
    /\ \A S, U \in SUBSET Symbol : S \subseteq U => Cardinality(S) <= Cardinality(U)
    /\ \A S \in SUBSET Symbol, s \in Symbol :
          /\ Cardinality(S \cup {s}) \in Nat
          /\ Cardinality(S \cup {s}) <= Cardinality(S) + 1
<1>1. \A S \in SUBSET Symbol : IsFiniteSet(S) /\ Cardinality(S) \in Nat
  BY ConstantsAssumption, FS_Subset, FS_CardinalityType DEF ConstantsAssumption
<1>2. ASSUME NEW S \in SUBSET Symbol, NEW U \in SUBSET Symbol, S \subseteq U
      PROVE  Cardinality(S) <= Cardinality(U)
  BY <1>1, <1>2, FS_Subset
<1>3. ASSUME NEW S \in SUBSET Symbol, NEW s \in Symbol
      PROVE  /\ Cardinality(S \cup {s}) \in Nat
             /\ Cardinality(S \cup {s}) <= Cardinality(S) + 1
  BY <1>1, FS_AddElement
<1>4. QED
  BY <1>1, <1>2, <1>3, FS_EmptySet

\* Steps that touch no order, no holding and no history.
Inert ==
    \/ EmergencyStop
    \/ \E saved \in BOOLEAN : BeginPass(saved)
    \/ EndPass
    \/ \E s \in Symbol : \/ PassOver(s) \/ ApiLimitUnavailable(s)
                         \/ BuyTripsKillSwitch(s) \/ LiquidationFails(s)
    \/ EndLiquidation
    \/ Tick \/ ToggleStopFile
    \/ UNCHANGED vars

\* The steps as the invariants below tell them apart.
LEMMA NextCases ==
    ASSUME [Next]_vars
    PROVE  \/ Inert
           \/ \E saved \in BOOLEAN : Start(saved)
           \/ \E s \in Symbol, ok \in SUBSET Source : BuyRefusedAfterRetry(s, ok)
           \/ \E s \in Symbol, ok \in SUBSET Source, saved \in BOOLEAN : PlaceBuy(s, ok, saved)
           \/ \E s \in Symbol, saved \in BOOLEAN :
                 PlaceSell(s, saved) \/ LiquidatePosition(s, saved)
           \/ \E saved \in BOOLEAN : RegisterOrder(saved)
           \/ Report \/ Crash \/ NextDay
  BY DEF Next, LoopStep, Evaluate, Inert

\* What a quiet step leaves alone.
LEMMA QuietFrame ==
    ASSUME TypeOK, Inert
    PROVE  /\ UNCHANGED <<day, accountFile, historyFile, order, holdings, history, run,
                          bought, lost>>
           /\ Running' = Running
           /\ failures'["order_history"] = failures["order_history"]
           /\ failures'["paper_state"] = failures["paper_state"]
<1> USE DEF world, files, capital, saving, switches, ghosts, Running, Stopped
<1>1. CASE EmergencyStop \/ EndPass \/ EndLiquidation
  BY <1>1 DEF EmergencyStop, Liquidate, EndPass, EndLiquidation
<1>2. ASSUME NEW saved \in BOOLEAN, BeginPass(saved)
      PROVE  /\ UNCHANGED <<day, accountFile, historyFile, order, holdings, history, run,
                            bought, lost>>
             /\ Running' = Running
             /\ failures'["order_history"] = failures["order_history"]
             /\ failures'["paper_state"] = failures["paper_state"]
  <2>1. /\ failures'["order_history"] = failures["order_history"]
        /\ failures'["paper_state"] = failures["paper_state"]
    BY <1>2 DEF BeginPass, RetryBaselineSave, TypeOK
  <2>2. QED
    BY <1>2, <2>1 DEF BeginPass, Liquidate
<1>3. ASSUME NEW s \in Symbol,
             PassOver(s) \/ ApiLimitUnavailable(s) \/ BuyTripsKillSwitch(s)
             \/ LiquidationFails(s)
      PROVE  /\ UNCHANGED <<day, accountFile, historyFile, order, holdings, history, run,
                            bought, lost>>
             /\ Running' = Running
             /\ failures' = failures
  BY <1>3 DEF PassOver, ApiLimitUnavailable, BuyTripsKillSwitch, KillSwitch, Evaluating,
     LiquidationFails
<1>4. CASE Tick \/ ToggleStopFile \/ UNCHANGED vars
  BY <1>4 DEF Tick, ToggleStopFile, vars
<1>5. QED
  BY <1>1, <1>2, <1>3, <1>4 DEF Inert

\* What the retry of the blocking saves does to the streaks.
LEMMA RetriedValues ==
    ASSUME TypeOK, NEW ok \in SUBSET Source
    PROVE  \A source \in Source :
              Retried(ok)[source] = IF failures[source] >= SAVE_FAILURE_THRESHOLD
                                    THEN IF source \in ok THEN 0 ELSE failures[source] + 1
                                    ELSE failures[source]
  BY DEF Retried, Blocking, Streak, TypeOK

-----------------------------------------------------------------------------
(* Each part of the invariant is preserved *)

LEMMA PlacedIsAnOrder ==
    \A s, side : /\ Placed(s, side) # NoOrder
                 /\ Placed(s, side).symbol = {s} /\ Placed(s, side).side = side
                 /\ NoOrder.symbol = {} /\ NoOrder.side = "BUY"
  BY DEF Placed, NoOrder

LEMMA InFlightStep ==
    ASSUME IInv, [Next]_vars
    PROVE  InFlightInv'
<1> USE DEF InFlightInv, world, files, capital, saving, switches, ghosts
<1>1. CASE EmergencyStop \/ EndLiquidation \/ EndPass
  BY <1>1 DEF EmergencyStop, Liquidate, EndLiquidation, EndPass, IInv
<1>2. ASSUME NEW saved \in BOOLEAN, Start(saved) \/ BeginPass(saved)
      PROVE  InFlightInv'
  BY <1>2 DEF Start, BeginPass, IInv
<1>3. ASSUME NEW s \in Symbol,
             PassOver(s) \/ ApiLimitUnavailable(s) \/ BuyTripsKillSwitch(s)
      PROVE  InFlightInv'
  BY <1>3 DEF PassOver, ApiLimitUnavailable, BuyTripsKillSwitch, KillSwitch, Evaluating
<1>4. ASSUME NEW s \in Symbol, NEW ok \in SUBSET Source, BuyRefusedAfterRetry(s, ok)
      PROVE  InFlightInv'
  BY <1>4 DEF BuyRefusedAfterRetry, Evaluating
<1>5. ASSUME NEW s \in Symbol, NEW ok \in SUBSET Source, NEW saved \in BOOLEAN,
             PlaceBuy(s, ok, saved)
      PROVE  InFlightInv'
  BY <1>5 DEF PlaceBuy, PlaceMarketOrder, Evaluating
<1>6. ASSUME NEW s \in Symbol, NEW saved \in BOOLEAN, PlaceSell(s, saved)
      PROVE  InFlightInv'
  BY <1>6 DEF PlaceSell, PlaceMarketOrder, Evaluating
<1>7. ASSUME NEW s \in Symbol, NEW saved \in BOOLEAN, LiquidatePosition(s, saved)
      PROVE  InFlightInv'
  BY <1>7 DEF LiquidatePosition, PlaceMarketOrder
<1>8. ASSUME NEW s \in Symbol, LiquidationFails(s) PROVE InFlightInv'
  BY <1>8 DEF LiquidationFails
<1>9. ASSUME NEW saved \in BOOLEAN, RegisterOrder(saved) PROVE InFlightInv'
  BY <1>9 DEF RegisterOrder
<1>10. CASE Report \/ Crash \/ NextDay
  BY <1>10 DEF Report, Crash, NextDay, NoProcess, IInv
<1>11. CASE Tick \/ ToggleStopFile \/ UNCHANGED vars
  BY <1>11 DEF Tick, ToggleStopFile, vars, IInv
<1>12. QED
  BY <1>1, <1>2, <1>3, <1>4, <1>5, <1>6, <1>7, <1>8, <1>9, <1>10, <1>11
     DEF Next, LoopStep, Evaluate

LEMMA StoppingStep ==
    ASSUME IInv, [Next]_vars
    PROVE  StoppingInv'
<1> USE DEF StoppingInv, IInv, world, files, capital, saving, switches, ghosts
<1>1. CASE EmergencyStop \/ EndLiquidation \/ EndPass
  BY <1>1 DEF EmergencyStop, Liquidate, EndLiquidation, EndPass
<1>2. ASSUME NEW saved \in BOOLEAN, Start(saved) \/ BeginPass(saved)
      PROVE  StoppingInv'
  BY <1>2 DEF Start, BeginPass
<1>3. ASSUME NEW s \in Symbol,
             PassOver(s) \/ ApiLimitUnavailable(s) \/ BuyTripsKillSwitch(s)
      PROVE  StoppingInv'
  BY <1>3 DEF PassOver, ApiLimitUnavailable, BuyTripsKillSwitch, KillSwitch, Evaluating
<1>4. ASSUME NEW s \in Symbol, NEW ok \in SUBSET Source, BuyRefusedAfterRetry(s, ok)
      PROVE  StoppingInv'
  BY <1>4 DEF BuyRefusedAfterRetry
<1>5. ASSUME NEW s \in Symbol, NEW ok \in SUBSET Source, NEW saved \in BOOLEAN,
             PlaceBuy(s, ok, saved)
      PROVE  StoppingInv'
  BY <1>5 DEF PlaceBuy
<1>6. ASSUME NEW s \in Symbol, NEW saved \in BOOLEAN,
             PlaceSell(s, saved) \/ LiquidatePosition(s, saved)
      PROVE  StoppingInv'
  BY <1>6 DEF PlaceSell, LiquidatePosition
<1>7. ASSUME NEW s \in Symbol, LiquidationFails(s) PROVE StoppingInv'
  BY <1>7 DEF LiquidationFails
<1>8. ASSUME NEW saved \in BOOLEAN, RegisterOrder(saved) PROVE StoppingInv'
  BY <1>8 DEF RegisterOrder
<1>9. CASE Report \/ Crash \/ NextDay
  BY <1>9 DEF Report, Crash, NextDay, NoProcess
<1>10. CASE Tick \/ ToggleStopFile \/ UNCHANGED vars
  BY <1>10 DEF Tick, ToggleStopFile, vars
<1>11. QED
  BY <1>1, <1>2, <1>3, <1>4, <1>5, <1>6, <1>7, <1>8, <1>9, <1>10
     DEF Next, LoopStep, Evaluate

LEMMA FlatStep ==
    ASSUME IInv, [Next]_vars
    PROVE  FlatInv'
<1> USE PlacedIsAnOrder
    DEF FlatInv, StoppingInv, InFlightInv, IInv, world, files, capital, saving,
        switches, ghosts
<1>1. CASE EmergencyStop \/ EndLiquidation \/ EndPass
  BY <1>1 DEF EmergencyStop, Liquidate, EndLiquidation, EndPass
<1>2. ASSUME NEW saved \in BOOLEAN, Start(saved) \/ BeginPass(saved)
      PROVE  FlatInv'
  BY <1>2 DEF Start, BeginPass, Liquidate
<1>3. ASSUME NEW s \in Symbol,
             PassOver(s) \/ ApiLimitUnavailable(s) \/ BuyTripsKillSwitch(s)
      PROVE  FlatInv'
  BY <1>3 DEF PassOver, ApiLimitUnavailable, BuyTripsKillSwitch, KillSwitch, Evaluating
<1>4. ASSUME NEW s \in Symbol, NEW ok \in SUBSET Source, BuyRefusedAfterRetry(s, ok)
      PROVE  FlatInv'
  BY <1>4 DEF BuyRefusedAfterRetry, Evaluating
<1>5. ASSUME NEW s \in Symbol, NEW ok \in SUBSET Source, NEW saved \in BOOLEAN,
             PlaceBuy(s, ok, saved)
      PROVE  FlatInv'
  BY <1>5 DEF PlaceBuy, Evaluating
<1>6. ASSUME NEW s \in Symbol, NEW saved \in BOOLEAN, PlaceSell(s, saved)
      PROVE  FlatInv'
  BY <1>6 DEF PlaceSell, Evaluating
<1>7. ASSUME NEW s \in Symbol, NEW saved \in BOOLEAN, LiquidatePosition(s, saved)
      PROVE  FlatInv'
  BY <1>7 DEF LiquidatePosition, PlaceMarketOrder
<1>8. ASSUME NEW s \in Symbol, LiquidationFails(s) PROVE FlatInv'
  BY <1>8 DEF LiquidationFails
<1>9. ASSUME NEW saved \in BOOLEAN, RegisterOrder(saved) PROVE FlatInv'
  BY <1>9 DEF RegisterOrder
<1>10. CASE Report \/ Crash \/ NextDay
  BY <1>10 DEF Report, Crash, NextDay, NoProcess
<1>11. CASE Tick \/ ToggleStopFile \/ UNCHANGED vars
  BY <1>11 DEF Tick, ToggleStopFile, vars
<1>12. QED
  BY <1>1, <1>2, <1>3, <1>4, <1>5, <1>6, <1>7, <1>8, <1>9, <1>10, <1>11
     DEF Next, LoopStep, Evaluate

\* Which BUYs are in flight after each kind of step.
LEMMA InFlightValues ==
    /\ NoOrder.symbol = {} /\ NoOrder.side = "BUY"
    /\ order = NoOrder => InFlight("BUY") = {} /\ InFlight("SELL") = {}
    /\ order' = NoOrder => InFlight("BUY")' = {}
    /\ \A s : order' = Placed(s, "BUY") => InFlight("BUY")' = {s}
    /\ \A s : order' = Placed(s, "SELL") => InFlight("BUY")' = {}
    /\ order' = order => InFlight("BUY")' = InFlight("BUY")
  BY DEF InFlight, NoOrder, Placed

\* What a step other than a quiet one does to the record of the BUYs of today.
LEMMA RecordSteps ==
    ASSUME IInv
    PROVE  /\ \A saved \in BOOLEAN : Start(saved) =>
                 /\ Stopped /\ Running' /\ order' = NoOrder
                 /\ history' = historyFile /\ historyFile' = historyFile
                 /\ bought' = bought /\ lost' = lost
           /\ \A s \in Symbol, ok \in SUBSET Source : BuyRefusedAfterRetry(s, ok) =>
                 /\ Running /\ Running' /\ order = NoOrder /\ order' = NoOrder
                 /\ history' = history
                 /\ historyFile' = IF "order_history" \in ok THEN history ELSE historyFile
                 /\ bought' = bought /\ lost' = lost
           /\ \A s \in Symbol, ok \in SUBSET Source, saved \in BOOLEAN :
                 PlaceBuy(s, ok, saved) =>
                 /\ Running /\ Running' /\ order = NoOrder /\ order' = Placed(s, "BUY")
                 /\ history' = history /\ s \notin history.BUY
                 /\ historyFile' = IF "order_history" \in ok THEN history ELSE historyFile
                 /\ bought' = [bought EXCEPT ![s] = @ + 1] /\ lost' = lost
           /\ \A s \in Symbol, saved \in BOOLEAN :
                 PlaceSell(s, saved) \/ LiquidatePosition(s, saved) =>
                 /\ Running /\ Running' /\ order = NoOrder /\ order' = Placed(s, "SELL")
                 /\ history' = history /\ historyFile' = historyFile
                 /\ bought' = bought /\ lost' = lost
           /\ \A saved \in BOOLEAN : RegisterOrder(saved) =>
                 /\ Running /\ Running' /\ order' = NoOrder
                 /\ history'.BUY = history.BUY \cup InFlight("BUY")
                 /\ historyFile' = IF saved THEN history' ELSE historyFile
                 /\ bought' = bought /\ lost' = lost
           /\ Report \/ Crash =>
                 /\ Running /\ Stopped' /\ historyFile' = historyFile
                 /\ history' = historyFile
                 /\ bought' = bought /\ LoseUnsaved
           /\ NextDay =>
                 /\ Stopped /\ Stopped' /\ historyFile' = NoEntries
                 /\ bought' = [s \in Symbol |-> 0] /\ lost' = [s \in Symbol |-> 0]
<1> USE DEF Running, Stopped, world, files, capital, saving, switches, ghosts
<1>1. ASSUME NEW saved \in BOOLEAN, Start(saved)
      PROVE  /\ Stopped /\ Running' /\ order' = NoOrder
             /\ history' = historyFile /\ historyFile' = historyFile
             /\ bought' = bought /\ lost' = lost
  BY <1>1 DEF Start
<1>2. ASSUME NEW s \in Symbol, NEW ok \in SUBSET Source, BuyRefusedAfterRetry(s, ok)
      PROVE  /\ Running /\ Running' /\ order = NoOrder /\ order' = NoOrder
             /\ history' = history
             /\ historyFile' = IF "order_history" \in ok THEN history ELSE historyFile
             /\ bought' = bought /\ lost' = lost
  BY <1>2 DEF BuyRefusedAfterRetry, Evaluating, RetrySaves
<1>3. ASSUME NEW s \in Symbol, NEW ok \in SUBSET Source, NEW saved \in BOOLEAN,
             PlaceBuy(s, ok, saved)
      PROVE  /\ Running /\ Running' /\ order = NoOrder /\ order' = Placed(s, "BUY")
             /\ history' = history /\ s \notin history.BUY
             /\ historyFile' = IF "order_history" \in ok THEN history ELSE historyFile
             /\ bought' = [bought EXCEPT ![s] = @ + 1] /\ lost' = lost
  BY <1>3 DEF PlaceBuy, PlaceMarketOrder, Evaluating, RetrySaves, IsDuplicateOrder
<1>4. ASSUME NEW s \in Symbol, NEW saved \in BOOLEAN,
             PlaceSell(s, saved) \/ LiquidatePosition(s, saved)
      PROVE  /\ Running /\ Running' /\ order = NoOrder /\ order' = Placed(s, "SELL")
             /\ history' = history /\ historyFile' = historyFile
             /\ bought' = bought /\ lost' = lost
  BY <1>4 DEF PlaceSell, LiquidatePosition, PlaceMarketOrder, Evaluating
<1>5. ASSUME NEW saved \in BOOLEAN, RegisterOrder(saved)
      PROVE  /\ Running /\ Running' /\ order' = NoOrder
             /\ history'.BUY = history.BUY \cup InFlight("BUY")
             /\ historyFile' = IF saved THEN history' ELSE historyFile
             /\ bought' = bought /\ lost' = lost
  BY <1>5 DEF RegisterOrder, IInv, InFlightInv
<1>6. ASSUME Report \/ Crash
      PROVE  /\ Running /\ Stopped' /\ historyFile' = historyFile
             /\ history' = historyFile
             /\ bought' = bought /\ LoseUnsaved
  BY <1>6 DEF Report, Crash, NoProcess
<1>7. ASSUME NextDay
      PROVE  /\ Stopped /\ Stopped' /\ historyFile' = NoEntries
             /\ bought' = [s \in Symbol |-> 0] /\ lost' = [s \in Symbol |-> 0]
  BY <1>7 DEF NextDay, NoProcess
<1>8. QED
  BY <1>1, <1>2, <1>3, <1>4, <1>5, <1>6, <1>7

LEMMA LedgerStep ==
    ASSUME IInv, [Next]_vars
    PROVE  LedgerInv'
<1> USE InFlightValues, RecordSteps DEF LedgerInv, OnRecord, Running, Stopped
<1>1. CASE Inert
  <2>1. OnRecord' = OnRecord
    BY <1>1, QuietFrame DEF IInv
  <2>2. QED
    BY <1>1, <2>1, QuietFrame DEF IInv
<1>2. ASSUME NEW saved \in BOOLEAN, Start(saved) PROVE LedgerInv'
  <2>1. OnRecord' = OnRecord
    BY <1>2
  <2>2. QED
    BY <1>2, <2>1 DEF IInv
<1>3. ASSUME NEW s \in Symbol, NEW ok \in SUBSET Source, BuyRefusedAfterRetry(s, ok)
      PROVE  LedgerInv'
  <2>1. OnRecord' = OnRecord
    BY <1>3
  <2>2. QED
    BY <1>3, <2>1 DEF IInv
<1>4. ASSUME NEW s \in Symbol, NEW ok \in SUBSET Source, NEW saved \in BOOLEAN,
             PlaceBuy(s, ok, saved)
      PROVE  LedgerInv'
  <2>1. OnRecord' = OnRecord \cup {s} /\ s \notin OnRecord
    BY <1>4
  <2>2. ASSUME NEW u \in Symbol
        PROVE  bought'[u] = lost'[u] + (IF u \in OnRecord' THEN 1 ELSE 0)
    <3>1. /\ bought'[u] = (IF u = s THEN bought[u] + 1 ELSE bought[u])
          /\ lost'[u] = lost[u] /\ bought[u] \in Nat /\ lost[u] \in Nat
      <4>1. bought' = [bought EXCEPT ![s] = @ + 1] /\ lost' = lost
        BY <1>4
      <4>2. bought \in [Symbol -> Nat] /\ lost \in [Symbol -> Nat]
        BY DEF IInv, TypeOK
      <4> HIDE InFlightValues, RecordSteps
      <4>3. QED
        BY <4>1, <4>2
    <3>2. bought[u] = lost[u] + (IF u \in OnRecord THEN 1 ELSE 0)
      BY DEF IInv
    <3>3. u \in OnRecord' <=> u = s \/ u \in OnRecord
      BY <2>1
    <3> HIDE DEF OnRecord
    <3>4. QED
      BY <2>1, <3>1, <3>2, <3>3
  <2>3. /\ history' = history /\ s \notin history.BUY /\ InFlight("BUY")' = {s}
        /\ historyFile' = IF "order_history" \in ok THEN history ELSE historyFile
        /\ history.BUY \subseteq OnRecord /\ historyFile.BUY \subseteq OnRecord
    <3>1. /\ history' = history /\ s \notin history.BUY /\ order' = Placed(s, "BUY")
          /\ historyFile' = IF "order_history" \in ok THEN history ELSE historyFile
          /\ Running
      BY <1>4
    <3> HIDE RecordSteps
    <3>2. QED
      BY <3>1 DEF IInv
  <2> HIDE InFlightValues, RecordSteps DEF OnRecord
  <2>4. historyFile'.BUY \subseteq OnRecord'
    BY <2>1, <2>3
  <2>5. history'.BUY \cap InFlight("BUY")' = {}
    BY <2>3
  <2>6. QED
    BY <2>2, <2>4, <2>5
<1>5. ASSUME NEW s \in Symbol, NEW saved \in BOOLEAN,
             PlaceSell(s, saved) \/ LiquidatePosition(s, saved)
      PROVE  LedgerInv'
  <2>1. OnRecord' = OnRecord
    BY <1>5
  <2>2. QED
    BY <1>5, <2>1 DEF IInv
<1>6. ASSUME NEW saved \in BOOLEAN, RegisterOrder(saved) PROVE LedgerInv'
  <2>1. OnRecord' = OnRecord
    BY <1>6
  <2>2. QED
    BY <1>6, <2>1 DEF IInv
<1>7. CASE Report \/ Crash
  <2>1. OnRecord' = historyFile.BUY /\ Unsaved = OnRecord \ historyFile.BUY
    BY <1>7 DEF Unsaved
  <2>2. ASSUME NEW u \in Symbol
        PROVE  bought'[u] = lost'[u] + (IF u \in OnRecord' THEN 1 ELSE 0)
    BY <1>7, <2>1 DEF IInv, TypeOK, LoseUnsaved
  <2>3. QED
    BY <1>7, <2>1, <2>2
<1>8. CASE NextDay
  BY <1>8 DEF NoEntries
<1>9. QED
  BY <1>1, <1>2, <1>3, <1>4, <1>5, <1>6, <1>7, <1>8, NextCases

LEMMA CapStep ==
    ASSUME IInv, [Next]_vars
    PROVE  DailyOrderCap'
<1> USE InFlightValues, RecordSteps DEF DailyOrderCap, OnRecord, Running, Stopped
<1>1. CASE Inert
  <2>1. OnRecord' = OnRecord
    BY <1>1, QuietFrame DEF IInv
  <2>2. QED
    BY <2>1 DEF IInv
<1>2. ASSUME NEW s \in Symbol, NEW ok \in SUBSET Source, NEW saved \in BOOLEAN,
             PlaceBuy(s, ok, saved)
      PROVE  DailyOrderCap'
  <2>1. OnRecord' = history.BUY \cup {s}
    BY <1>2
  <2>2. Cardinality(history.BUY) < MAX_ORDER_COUNT_PER_DAY
    BY <1>2 DEF PlaceBuy, BelowKillSwitch
  <2>3. history.BUY \in SUBSET Symbol
    BY RecordTypes DEF IInv, TypeOK
  <2>4. QED
    BY <2>1, <2>2, <2>3, Sizes, ConstantsAssumption DEF ConstantsAssumption
<1>3. ASSUME \/ \E saved \in BOOLEAN : Start(saved) \/ RegisterOrder(saved)
             \/ \E s \in Symbol, ok \in SUBSET Source : BuyRefusedAfterRetry(s, ok)
             \/ \E s \in Symbol, saved \in BOOLEAN :
                   PlaceSell(s, saved) \/ LiquidatePosition(s, saved)
      PROVE  DailyOrderCap'
  <2>1. OnRecord' = OnRecord
    BY <1>3
  <2>2. QED
    BY <2>1 DEF IInv
<1>4. CASE Report \/ Crash
  <2>1. OnRecord' = historyFile.BUY /\ historyFile.BUY \subseteq OnRecord
    BY <1>4 DEF IInv, LedgerInv
  <2>2. OnRecord \in SUBSET Symbol
    BY RecordTypes DEF IInv, TypeOK, InFlight
  <2>3. Cardinality(OnRecord') <= Cardinality(OnRecord)
    BY <2>1, <2>2, Sizes
  <2>4. Cardinality(OnRecord) \in Nat /\ Cardinality(OnRecord') \in Nat
    BY <2>1, <2>2, Sizes
  <2>5. QED
    BY <2>3, <2>4, ConstantsAssumption DEF IInv, ConstantsAssumption
<1>5. CASE NextDay
  <2>1. OnRecord' = {}
    BY <1>5 DEF NoEntries
  <2>2. QED
    BY <2>1, Sizes, ConstantsAssumption DEF ConstantsAssumption
<1>6. QED
  BY <1>1, <1>2, <1>3, <1>4, <1>5, NextCases

LEMMA PositionStep ==
    ASSUME IInv, [Next]_vars
    PROVE  PositionLimit'
<1> USE ConstantsAssumption DEF PositionLimit, world, files, capital, saving, switches, ghosts
<1>1. CASE Inert
  BY <1>1, QuietFrame DEF IInv
<1>2. ASSUME NEW saved \in BOOLEAN, Start(saved) \/ RegisterOrder(saved)
      PROVE  PositionLimit'
  BY <1>2 DEF Start, RegisterOrder, IInv
<1>3. ASSUME NEW s \in Symbol, NEW ok \in SUBSET Source, BuyRefusedAfterRetry(s, ok)
      PROVE  PositionLimit'
  BY <1>3 DEF BuyRefusedAfterRetry, AccountAfterRetry, IInv
<1>4. ASSUME NEW s \in Symbol, NEW ok \in SUBSET Source, NEW saved \in BOOLEAN,
             PlaceBuy(s, ok, saved)
      PROVE  PositionLimit'
  <2>1. /\ holdings' = holdings \cup {s} /\ accountFile' \in {holdings', holdings, accountFile}
        /\ s \in holdings \/ Cardinality(holdings) < TARGET_POSITIONS
    BY <1>4 DEF PlaceBuy, PlaceMarketOrder, AccountAfterRetry, HasSlot
  <2>2. holdings \in SUBSET Symbol
    BY DEF IInv, TypeOK
  <2>3. Cardinality(holdings') <= TARGET_POSITIONS
    <3>1. CASE s \in holdings
      <4>1. holdings' = holdings
        BY <2>1, <3>1
      <4>2. QED
        BY <4>1 DEF IInv
    <3>2. CASE Cardinality(holdings) < TARGET_POSITIONS
      BY <2>1, <2>2, <3>2, Sizes DEF ConstantsAssumption
    <3>3. QED
      BY <2>1, <3>1, <3>2
  <2>4. QED
    BY <2>1, <2>3 DEF IInv
<1>5. ASSUME NEW s \in Symbol, NEW saved \in BOOLEAN,
             PlaceSell(s, saved) \/ LiquidatePosition(s, saved)
      PROVE  PositionLimit'
  <2>1. holdings' = holdings \ {s} /\ accountFile' \in {holdings', accountFile}
    BY <1>5 DEF PlaceSell, LiquidatePosition, PlaceMarketOrder
  <2>2. holdings \in SUBSET Symbol /\ holdings \ {s} \in SUBSET Symbol
    BY DEF IInv, TypeOK
  <2>3. Cardinality(holdings \ {s}) <= Cardinality(holdings)
    BY <2>2, Sizes
  <2>4. Cardinality(holdings \ {s}) \in Nat /\ Cardinality(holdings) \in Nat
    BY <2>2, Sizes
  <2>5. Cardinality(holdings') <= TARGET_POSITIONS
    BY <2>1, <2>3, <2>4 DEF IInv, ConstantsAssumption
  <2>6. QED
    BY <2>1, <2>5 DEF IInv
<1>6. CASE Report \/ Crash \/ NextDay
  BY <1>6 DEF Report, Crash, NextDay, NoProcess, IInv
<1>7. QED
  BY <1>1, <1>2, <1>3, <1>4, <1>5, <1>6, NextCases

\* What a step other than a quiet one does to the streaks of failed saves.
LEMMA StreakSteps ==
    ASSUME IInv
    PROVE  /\ \A saved \in BOOLEAN : Start(saved) =>
                 failures'["order_history"] = 0 /\ failures'["paper_state"] = 0
           /\ \A s \in Symbol, ok \in SUBSET Source :
                 BuyRefusedAfterRetry(s, ok) => failures' = Retried(ok)
           /\ \A s \in Symbol, ok \in SUBSET Source, saved \in BOOLEAN :
                 PlaceBuy(s, ok, saved) =>
                 /\ failures'["order_history"] = Retried(ok)["order_history"]
                 /\ failures'["kill_switch_baseline"] = Retried(ok)["kill_switch_baseline"]
                 /\ IF saved THEN accountFile' = holdings' /\ failures'["paper_state"] = 0
                    ELSE failures'["paper_state"] > 0
           /\ \A s \in Symbol, saved \in BOOLEAN :
                 PlaceSell(s, saved) \/ LiquidatePosition(s, saved) =>
                 /\ failures'["order_history"] = failures["order_history"]
                 /\ failures'["kill_switch_baseline"] = failures["kill_switch_baseline"]
                 /\ IF saved THEN accountFile' = holdings' /\ failures'["paper_state"] = 0
                    ELSE failures'["paper_state"] > 0
           /\ \A saved \in BOOLEAN : RegisterOrder(saved) =>
                 /\ failures'["order_history"] = IF saved THEN 0
                                                 ELSE failures["order_history"] + 1
                 /\ failures'["kill_switch_baseline"] = failures["kill_switch_baseline"]
                 /\ failures'["paper_state"] = failures["paper_state"]
<1>1. ASSUME NEW saved \in BOOLEAN, Start(saved)
      PROVE  failures'["order_history"] = 0 /\ failures'["paper_state"] = 0
  BY <1>1 DEF Start
<1>2. ASSUME NEW s \in Symbol, NEW ok \in SUBSET Source, BuyRefusedAfterRetry(s, ok)
      PROVE  failures' = Retried(ok)
  BY <1>2 DEF BuyRefusedAfterRetry
<1>3. ASSUME NEW s \in Symbol, NEW side \in Side, NEW file, NEW saved \in BOOLEAN,
             NEW streak \in [Source -> Nat],
             PlaceMarketOrder(s, side, file, streak, saved)
      PROVE  /\ failures'["order_history"] = streak["order_history"]
             /\ failures'["kill_switch_baseline"] = streak["kill_switch_baseline"]
             /\ IF saved THEN accountFile' = holdings' /\ failures'["paper_state"] = 0
                ELSE failures'["paper_state"] > 0
  BY <1>3 DEF PlaceMarketOrder
<1>4. ASSUME NEW ok \in SUBSET Source PROVE Retried(ok) \in [Source -> Nat]
  BY DEF Retried, Streak, IInv, TypeOK
<1>5. ASSUME NEW s \in Symbol, NEW ok \in SUBSET Source, NEW saved \in BOOLEAN,
             PlaceBuy(s, ok, saved)
      PROVE  /\ failures'["order_history"] = Retried(ok)["order_history"]
             /\ failures'["kill_switch_baseline"] = Retried(ok)["kill_switch_baseline"]
             /\ IF saved THEN accountFile' = holdings' /\ failures'["paper_state"] = 0
                ELSE failures'["paper_state"] > 0
  BY <1>3, <1>4, <1>5 DEF PlaceBuy
<1>6. ASSUME NEW s \in Symbol, NEW saved \in BOOLEAN,
             PlaceSell(s, saved) \/ LiquidatePosition(s, saved)
      PROVE  /\ failures'["order_history"] = failures["order_history"]
             /\ failures'["kill_switch_baseline"] = failures["kill_switch_baseline"]
             /\ IF saved THEN accountFile' = holdings' /\ failures'["paper_state"] = 0
                ELSE failures'["paper_state"] > 0
  BY <1>3, <1>6 DEF PlaceSell, LiquidatePosition, IInv, TypeOK
<1>7. ASSUME NEW saved \in BOOLEAN, RegisterOrder(saved)
      PROVE  /\ failures'["order_history"] = (IF saved THEN 0
                                             ELSE failures["order_history"] + 1)
             /\ failures'["kill_switch_baseline"] = failures["kill_switch_baseline"]
             /\ failures'["paper_state"] = failures["paper_state"]
  BY <1>7 DEF RegisterOrder, Streak, IInv, TypeOK
<1>8. QED
  BY <1>1, <1>2, <1>5, <1>6, <1>7

\* What a BUY that passed the halt knows of the saves.
LEMMA NotHalted ==
    ASSUME IInv, NEW s \in Symbol, NEW ok \in SUBSET Source, NEW saved \in BOOLEAN,
           PlaceBuy(s, ok, saved)
    PROVE  /\ "order_history" \in ok => failures'["order_history"] = 0
           /\ "order_history" \notin ok =>
                 /\ failures'["order_history"] = failures["order_history"]
                 /\ failures["order_history"] < SAVE_FAILURE_THRESHOLD
<1>1. failures'["order_history"] = Retried(ok)["order_history"]
  BY StreakSteps
<1>2. /\ ok \subseteq Blocking
      /\ ~(Retried(ok)["order_history"] >= SAVE_FAILURE_THRESHOLD)
  BY DEF PlaceBuy, RetrySaves, Halted
<1>3. failures["order_history"] \in Nat /\ SAVE_FAILURE_THRESHOLD \in Nat
  BY ConstantsAssumption DEF ConstantsAssumption, IInv, TypeOK
<1>4. Retried(ok)["order_history"] =
          IF failures["order_history"] >= SAVE_FAILURE_THRESHOLD
          THEN IF "order_history" \in ok THEN 0 ELSE failures["order_history"] + 1
          ELSE failures["order_history"]
  BY RetriedValues DEF IInv
<1>5. "order_history" \in ok => failures["order_history"] >= SAVE_FAILURE_THRESHOLD
  BY <1>2 DEF Blocking
<1>6. QED
  BY <1>1, <1>2, <1>3, <1>4, <1>5

LEMMA StreakStep ==
    ASSUME IInv, [Next]_vars
    PROVE  StreakInv'
<1>0. /\ history.BUY \in SUBSET Symbol /\ historyFile.BUY \in SUBSET Symbol
      /\ InFlight("BUY") \in SUBSET Symbol /\ Missing \in SUBSET Symbol
      /\ Unsaved \in SUBSET Symbol
      /\ failures["order_history"] \in Nat
      /\ SAVE_FAILURE_THRESHOLD \in Nat /\ SAVE_FAILURE_THRESHOLD >= 1
  BY RecordTypes, ConstantsAssumption DEF ConstantsAssumption, IInv, TypeOK, InFlight,
     Missing, Unsaved
<1>1. CASE Inert
  <2>1. Unsaved' = Unsaved
    BY <1>1, QuietFrame, InFlightValues DEF IInv, Unsaved
  <2>2. QED
    BY <1>1, <2>1, QuietFrame DEF IInv, StreakInv, Missing
<1>2. ASSUME Unsaved' = {}, Missing' = {},
             failures'["order_history"] \in Nat
      PROVE  StreakInv'
  BY <1>0, <1>2, Sizes DEF StreakInv
<1>3. failures'["order_history"] \in Nat
  BY NextType DEF IInv, TypeOK
<1>4. ASSUME NEW saved \in BOOLEAN, Start(saved) PROVE StreakInv'
  BY <1>2, <1>3, <1>4, RecordSteps, InFlightValues DEF Unsaved, Missing
<1>5. ASSUME NEW s \in Symbol, NEW ok \in SUBSET Source, BuyRefusedAfterRetry(s, ok)
      PROVE  StreakInv'
  <2>1. CASE "order_history" \in ok
    BY <1>2, <1>3, <1>5, <2>1, RecordSteps, InFlightValues DEF Unsaved, Missing
  <2>2. CASE "order_history" \notin ok
    <3>1. Unsaved' = Unsaved /\ Missing' = Missing
      BY <1>5, <2>2, RecordSteps, InFlightValues DEF Unsaved, Missing
    <3>2. failures'["order_history"] >= failures["order_history"]
      BY <1>0, <1>5, <2>2, StreakSteps, RetriedValues DEF IInv
    <3>3. Cardinality(Missing) \in Nat
      BY <1>0, Sizes
    <3>4. Running /\ Running'
      BY <1>5, RecordSteps
    <3>5. QED
      BY <1>0, <1>3, <3>1, <3>2, <3>3, <3>4 DEF IInv, StreakInv
  <2>3. QED
    BY <2>1, <2>2
<1>6. ASSUME NEW s \in Symbol, NEW ok \in SUBSET Source, NEW saved \in BOOLEAN,
             PlaceBuy(s, ok, saved)
      PROVE  StreakInv'
  <2>1. /\ history' = history /\ InFlight("BUY")' = {s}
        /\ historyFile' = IF "order_history" \in ok THEN history ELSE historyFile
        /\ Running /\ s \notin history.BUY
    <3>1. /\ order' = Placed(s, "BUY")
          /\ history' = history
          /\ historyFile' = IF "order_history" \in ok THEN history ELSE historyFile
          /\ Running /\ s \notin history.BUY
      BY <1>6, RecordSteps
    <3>2. QED
      BY <3>1, InFlightValues
  <2>2. CASE "order_history" \in ok
    <3>1. Unsaved' = {} \cup {s} /\ Missing' = {}
      BY <2>1, <2>2 DEF Unsaved, Missing
    <3>2. Cardinality(Unsaved') <= 1
      BY <3>1, Sizes
    <3>3. Cardinality(Unsaved') \in Nat
      BY <3>1, Sizes
    <3>4. QED
      BY <1>0, <1>3, <3>1, <3>2, <3>3, Sizes DEF StreakInv
  <2>3. CASE "order_history" \notin ok
    <3>1. /\ Missing' = Missing
          /\ Unsaved' \subseteq Missing \cup {s}
      BY <2>1, <2>3 DEF Unsaved, Missing
    <3>2. Cardinality(Unsaved') <= Cardinality(Missing \cup {s})
      BY <1>0, <3>1, Sizes
    <3>3. /\ Cardinality(Unsaved') \in Nat
          /\ Cardinality(Missing) \in Nat
          /\ Cardinality(Missing \cup {s}) \in Nat
          /\ Cardinality(Missing \cup {s})
                <= Cardinality(Missing) + 1
      BY <1>0, <3>1, Sizes
    <3>4. Cardinality(Missing) <= failures["order_history"]
      BY <2>1 DEF IInv, StreakInv
    <3>5. /\ failures'["order_history"] = failures["order_history"]
          /\ failures["order_history"] < SAVE_FAILURE_THRESHOLD
      BY <1>6, <2>3, NotHalted
    <3>6. QED
      BY <1>0, <3>1, <3>2, <3>3, <3>4, <3>5 DEF StreakInv
  <2>4. QED
    BY <2>2, <2>3
<1>7. ASSUME NEW s \in Symbol, NEW saved \in BOOLEAN,
             PlaceSell(s, saved) \/ LiquidatePosition(s, saved)
      PROVE  StreakInv'
  <2>1. Unsaved' = Unsaved /\ Missing' = Missing
    BY <1>7, RecordSteps, InFlightValues DEF Unsaved, Missing
  <2>2. failures'["order_history"] = failures["order_history"] /\ Running
    BY <1>7, RecordSteps, StreakSteps
  <2>3. QED
    BY <2>1, <2>2 DEF IInv, StreakInv
<1>8. ASSUME RegisterOrder(TRUE) PROVE StreakInv'
  BY <1>2, <1>3, <1>8, RecordSteps, InFlightValues DEF Unsaved, Missing
<1>9. ASSUME RegisterOrder(FALSE) PROVE StreakInv'
  <2>1. /\ Running
        /\ Unsaved' = Unsaved
        /\ Missing' = Unsaved
        /\ Unsaved \subseteq Missing \cup InFlight("BUY")
    BY <1>9, RecordSteps, InFlightValues DEF Unsaved, Missing
  <2>2. \/ InFlight("BUY") = {}
        \/ \E s \in Symbol : InFlight("BUY") = {s}
    BY PlacedIsAnOrder DEF IInv, InFlightInv, InFlight, TypeOK
  <2>3. /\ Cardinality(Missing) \in Nat
        /\ Cardinality(Unsaved) \in Nat
    BY <1>0, <2>1, Sizes
  <2>4. Cardinality(Unsaved) <= Cardinality(Missing) + 1
    <3>1. CASE InFlight("BUY") = {}
      <4>1. Unsaved \subseteq Missing
        BY <2>1, <3>1
      <4>2. Cardinality(Unsaved) <= Cardinality(Missing)
        BY <1>0, <4>1, Sizes
      <4>3. QED
        BY <2>3, <4>2
    <3>2. ASSUME NEW s \in Symbol, InFlight("BUY") = {s}
          PROVE  Cardinality(Unsaved) <= Cardinality(Missing) + 1
      <4>1. /\ Cardinality(Missing \cup {s}) \in Nat
            /\ Cardinality(Missing \cup {s}) <= Cardinality(Missing) + 1
        BY <1>0, Sizes
      <4>2. Cardinality(Unsaved) <= Cardinality(Missing \cup {s})
        BY <1>0, <2>1, <3>2, Sizes
      <4>3. QED
        BY <2>3, <4>1, <4>2
    <3>3. QED
      BY <2>2, <3>1, <3>2
  <2>5. failures'["order_history"] = failures["order_history"] + 1
    BY <1>9, StreakSteps
  <2>6. QED
    BY <1>0, <2>1, <2>3, <2>4, <2>5 DEF IInv, StreakInv
<1>10. CASE Report \/ Crash \/ NextDay
  BY <1>10, RecordSteps DEF StreakInv, Running
<1>11. QED
  BY <1>1, <1>4, <1>5, <1>6, <1>7, <1>8, <1>9, <1>10, NextCases

LEMMA HistoryStep ==
    ASSUME IInv, [Next]_vars
    PROVE  HistoryInv'
<1> USE DEF HistoryInv
<1>0. failures["order_history"] \in Nat
  BY DEF IInv, TypeOK
<1>1. CASE Inert
  BY <1>1, QuietFrame DEF IInv
<1>2. ASSUME NEW saved \in BOOLEAN, Start(saved) PROVE HistoryInv'
  BY <1>2, RecordSteps
<1>3. ASSUME NEW s \in Symbol, NEW ok \in SUBSET Source, BuyRefusedAfterRetry(s, ok)
      PROVE  HistoryInv'
  <2>1. failures' = Retried(ok)
    BY <1>3, StreakSteps
  <2>2. failures'["order_history"] = 0 /\ "order_history" \notin ok
           => failures["order_history"] = 0
    BY <1>0, <2>1, RetriedValues DEF IInv
  <2>3. QED
    BY <1>3, <2>2, RecordSteps DEF IInv
<1>4. ASSUME NEW s \in Symbol, NEW ok \in SUBSET Source, NEW saved \in BOOLEAN,
             PlaceBuy(s, ok, saved)
      PROVE  HistoryInv'
  BY <1>4, RecordSteps, NotHalted DEF IInv
<1>5. ASSUME NEW s \in Symbol, NEW saved \in BOOLEAN,
             PlaceSell(s, saved) \/ LiquidatePosition(s, saved)
      PROVE  HistoryInv'
  BY <1>5, RecordSteps, StreakSteps DEF IInv
<1>6. ASSUME NEW saved \in BOOLEAN, RegisterOrder(saved) PROVE HistoryInv'
  BY <1>0, <1>6, RecordSteps, StreakSteps
<1>7. CASE Report \/ Crash \/ NextDay
  BY <1>7, RecordSteps DEF Running
<1>8. QED
  BY <1>1, <1>2, <1>3, <1>4, <1>5, <1>6, <1>7, NextCases

LEMMA AccountStep ==
    ASSUME IInv, [Next]_vars
    PROVE  AccountInv'
<1> USE DEF AccountInv
<1>0. failures["paper_state"] \in Nat
  BY DEF IInv, TypeOK
<1>1. CASE Inert
  BY <1>1, QuietFrame DEF IInv
<1>2. ASSUME NEW saved \in BOOLEAN, Start(saved) PROVE AccountInv'
  BY <1>2 DEF Start
<1>3. ASSUME NEW s \in Symbol, NEW ok \in SUBSET Source, BuyRefusedAfterRetry(s, ok)
      PROVE  AccountInv'
  <2>1. failures' = Retried(ok)
    BY <1>3, StreakSteps
  <2>2. failures'["paper_state"] = 0 /\ "paper_state" \notin ok
           => failures["paper_state"] = 0
    BY <1>0, <2>1, RetriedValues DEF IInv
  <2>3. /\ accountFile' = IF "paper_state" \in ok THEN holdings ELSE accountFile
        /\ holdings' = holdings /\ Running
    BY <1>3, RecordSteps DEF BuyRefusedAfterRetry, AccountAfterRetry
  <2>4. QED
    BY <2>2, <2>3 DEF IInv
<1>4. ASSUME NEW s \in Symbol, NEW ok \in SUBSET Source, NEW saved \in BOOLEAN,
             PlaceBuy(s, ok, saved)
      PROVE  AccountInv'
  BY <1>4, StreakSteps
<1>5. ASSUME NEW s \in Symbol, NEW saved \in BOOLEAN,
             PlaceSell(s, saved) \/ LiquidatePosition(s, saved)
      PROVE  AccountInv'
  BY <1>5, StreakSteps
<1>6. ASSUME NEW saved \in BOOLEAN, RegisterOrder(saved) PROVE AccountInv'
  <2>1. accountFile' = accountFile /\ holdings' = holdings
    BY <1>6 DEF RegisterOrder
  <2>2. QED
    BY <1>6, <2>1, RecordSteps, StreakSteps DEF IInv
<1>7. CASE Report \/ Crash \/ NextDay
  BY <1>7, RecordSteps DEF Running
<1>8. QED
  BY <1>1, <1>2, <1>3, <1>4, <1>5, <1>6, <1>7, NextCases

LEMMA BaselineStep ==
    ASSUME IInv, [Next]_vars
    PROVE  BaselineInv'
<1> USE DEF BaselineInv, world, files, capital, saving, switches, ghosts, Running, Stopped
<1>0. /\ failures["kill_switch_baseline"] \in Nat
      /\ SAVE_FAILURE_THRESHOLD \in Nat /\ SAVE_FAILURE_THRESHOLD >= 1
      /\ baselineFile \in Capital /\ baselineUnsaved \in BOOLEAN
      /\ day \in Nat
  BY ConstantsAssumption DEF ConstantsAssumption, IInv, TypeOK
<1>1. CASE UNCHANGED <<day, stage, baselineFile, baseline, baselineUnsaved, failures>>
  BY <1>1 DEF IInv
<1>2. CASE EmergencyStop \/ EndPass \/ EndLiquidation \/ Tick \/ ToggleStopFile
  BY <1>2 DEF IInv, EmergencyStop, Liquidate, EndPass, EndLiquidation, Tick, ToggleStopFile
<1>3. ASSUME NEW saved \in BOOLEAN, BeginPass(saved) PROVE BaselineInv'
  <2>1. CASE baselineUnsaved
    <3>1. failures'["kill_switch_baseline"] =
              IF saved THEN 0 ELSE failures["kill_switch_baseline"] + 1
      BY <1>3, <2>1 DEF BeginPass, RetryBaselineSave, Streak, IInv, TypeOK
    <3>2. /\ baselineUnsaved' = ~saved /\ baseline' = baseline /\ day' = day
          /\ baselineFile' = IF saved THEN [day |-> day, run |-> baseline]
                                      ELSE baselineFile
          /\ Running
      BY <1>3, <2>1 DEF BeginPass, RetryBaselineSave
    <3>3. CASE saved
      BY <3>1, <3>2, <3>3
    <3>4. CASE ~saved
      <4>1. failures'["kill_switch_baseline"] # 0 /\ baselineFile' = baselineFile
        BY <1>0, <3>1, <3>2, <3>4
      <4>2. baselineUnsaved' = TRUE
        BY <3>2, <3>4
      <4>3. baselineFile.day # day
        BY <2>1, <3>2 DEF IInv
      <4>4. QED
        BY <3>2, <4>1, <4>2, <4>3
    <3>5. QED
      BY <3>3, <3>4
  <2>2. CASE ~baselineUnsaved
    <3>1. /\ UNCHANGED <<day, baselineFile, baseline, baselineUnsaved, failures>>
          /\ Running
      BY <1>3, <2>2 DEF BeginPass, RetryBaselineSave
    <3>2. QED
      BY <3>1 DEF IInv
  <2>3. QED
    BY <2>1, <2>2
<1>4. ASSUME NEW s \in Symbol,
             \/ PassOver(s) \/ ApiLimitUnavailable(s) \/ BuyTripsKillSwitch(s)
             \/ LiquidationFails(s)
      PROVE  BaselineInv'
  BY <1>4 DEF IInv, PassOver, ApiLimitUnavailable, BuyTripsKillSwitch, KillSwitch,
     Evaluating, LiquidationFails
<1>5. ASSUME NEW saved \in BOOLEAN, Start(saved) PROVE BaselineInv'
  <2>1. CASE BaselineReusable
    <3>1. failures'["kill_switch_baseline"] = 0
      BY <1>5, <2>1 DEF Start
    <3>2. /\ baselineUnsaved' = FALSE /\ baseline' = baselineFile.run
          /\ day' = day /\ baselineFile' = baselineFile /\ baselineFile.day = day
      BY <1>5, <2>1 DEF Start, BaselineReusable
    <3>3. baselineFile = [day |-> baselineFile.day, run |-> baselineFile.run]
      BY <1>0 DEF Capital
    <3>4. QED
      BY <3>1, <3>2, <3>3
  <2>2. CASE ~BaselineReusable
    <3>1. failures'["kill_switch_baseline"] = IF saved THEN 0 ELSE 1
      BY <1>5, <2>2 DEF Start
    <3>2. /\ baselineUnsaved' = ~saved /\ baseline' = run'
          /\ day' = day /\ baselineFile.day # day
          /\ baselineFile' = IF saved THEN [day |-> day, run |-> run'] ELSE baselineFile
      BY <1>5, <2>2 DEF Start, BaselineReusable
    <3>3. CASE saved
      BY <3>1, <3>2, <3>3
    <3>4. CASE ~saved
      <4>1. failures'["kill_switch_baseline"] # 0 /\ baselineFile' = baselineFile
        BY <3>1, <3>2, <3>4
      <4>2. baselineUnsaved' = TRUE
        BY <3>2, <3>4
      <4>3. QED
        BY <3>2, <4>1, <4>2
    <3>5. QED
      BY <3>3, <3>4
  <2>3. QED
    BY <2>1, <2>2
<1>6. ASSUME NEW ok \in SUBSET Source, RetrySaves(ok), Running, day' = day,
             failures'["kill_switch_baseline"] = Retried(ok)["kill_switch_baseline"]
      PROVE  BaselineInv'
  <2>1. CASE "kill_switch_baseline" \in ok
    <3>1. failures["kill_switch_baseline"] >= SAVE_FAILURE_THRESHOLD
      BY <1>6, <2>1 DEF RetrySaves, Blocking
    <3>2. failures'["kill_switch_baseline"] = 0
      BY <1>6, <2>1, <3>1, RetriedValues DEF IInv
    <3>3. /\ baselineFile' = [day |-> day, run |-> baseline] /\ ~baselineUnsaved'
          /\ baseline' = baseline
      BY <1>6, <2>1 DEF RetrySaves
    <3>4. QED
      BY <1>6, <3>2, <3>3
  <2>2. CASE "kill_switch_baseline" \notin ok
    <3>1. failures'["kill_switch_baseline"] = 0 <=> failures["kill_switch_baseline"] = 0
      BY <1>0, <1>6, <2>2, RetriedValues DEF IInv
    <3>2. baselineFile' = baselineFile /\ baselineUnsaved' = baselineUnsaved
          /\ baseline' = baseline
      BY <1>0, <1>6, <2>2 DEF RetrySaves
    <3>3. QED
      BY <1>6, <3>1, <3>2 DEF IInv
  <2>3. QED
    BY <2>1, <2>2
<1>7. ASSUME NEW s \in Symbol, NEW ok \in SUBSET Source, BuyRefusedAfterRetry(s, ok)
      PROVE  BaselineInv'
  <2>1. RetrySaves(ok) /\ Running /\ day' = day
    BY <1>7 DEF BuyRefusedAfterRetry, Evaluating
  <2>2. failures' = Retried(ok)
    BY <1>7, StreakSteps
  <2>3. QED
    BY <1>6, <2>1, <2>2
<1>8. ASSUME NEW s \in Symbol, NEW ok \in SUBSET Source, NEW saved \in BOOLEAN,
             PlaceBuy(s, ok, saved)
      PROVE  BaselineInv'
  <2>1. RetrySaves(ok) /\ Running /\ day' = day
    BY <1>8 DEF PlaceBuy, Evaluating
  <2>2. QED
    BY <1>6, <1>8, <2>1, StreakSteps
<1>9. ASSUME NEW s \in Symbol, NEW saved \in BOOLEAN,
             PlaceSell(s, saved) \/ LiquidatePosition(s, saved)
      PROVE  BaselineInv'
  <2>1. failures'["kill_switch_baseline"] = failures["kill_switch_baseline"]
    BY <1>9, StreakSteps
  <2>2. UNCHANGED <<day, stage, baselineFile, baseline, baselineUnsaved>>
    BY <1>9 DEF PlaceSell, LiquidatePosition
  <2>3. QED
    BY <2>1, <2>2 DEF IInv
<1>10. CASE Report \/ Crash \/ NextDay
  BY <1>10, RecordSteps
<1>11. ASSUME NEW saved \in BOOLEAN, RegisterOrder(saved) PROVE BaselineInv'
  <2>1. failures'["kill_switch_baseline"] = failures["kill_switch_baseline"]
    BY <1>11, StreakSteps
  <2>2. UNCHANGED <<day, stage, baselineFile, baseline, baselineUnsaved>>
    BY <1>11 DEF RegisterOrder
  <2>3. QED
    BY <2>1, <2>2 DEF IInv
<1>12. CASE UNCHANGED vars
  BY <1>1, <1>12 DEF vars
<1>13. QED
  BY <1>2, <1>3, <1>4, <1>5, <1>7, <1>8, <1>9, <1>10, <1>11, <1>12, NextCases DEF Inert

LEMMA NotifiedStep ==
    ASSUME IInv, [Next]_vars
    PROVE  NotifiedInv'
<1> USE DEF NotifiedInv, world, files, capital, saving, switches, ghosts, Running, Stopped
<1>1. CASE EmergencyStop \/ EndPass \/ EndLiquidation \/ Tick \/ ToggleStopFile
           \/ UNCHANGED vars
  BY <1>1 DEF IInv, EmergencyStop, Liquidate, EndPass, EndLiquidation, Tick,
     ToggleStopFile, vars
<1>2. ASSUME NEW saved \in BOOLEAN, BeginPass(saved) PROVE NotifiedInv'
  <2>1. CASE baselineUnsaved
    BY <1>2, <2>1 DEF BeginPass, RetryBaselineSave, CheckNotification
  <2>2. CASE ~baselineUnsaved
    BY <1>2, <2>2 DEF BeginPass, RetryBaselineSave, IInv
  <2>3. QED
    BY <2>1, <2>2
<1>3. ASSUME NEW s \in Symbol,
             \/ PassOver(s) \/ ApiLimitUnavailable(s) \/ BuyTripsKillSwitch(s)
             \/ LiquidationFails(s)
      PROVE  NotifiedInv'
  BY <1>3 DEF IInv, PassOver, ApiLimitUnavailable, BuyTripsKillSwitch, KillSwitch,
     Evaluating, LiquidationFails
<1>4. ASSUME NEW saved \in BOOLEAN, Start(saved) \/ RegisterOrder(saved)
      PROVE  NotifiedInv'
  BY <1>4 DEF Start, RegisterOrder, CheckNotification
<1>5. ASSUME NEW s \in Symbol, NEW ok \in SUBSET Source, BuyRefusedAfterRetry(s, ok)
      PROVE  NotifiedInv'
  BY <1>5 DEF BuyRefusedAfterRetry, CheckNotification
<1>6. ASSUME NEW s \in Symbol,
             \/ \E ok \in SUBSET Source, saved \in BOOLEAN : PlaceBuy(s, ok, saved)
             \/ \E saved \in BOOLEAN : PlaceSell(s, saved) \/ LiquidatePosition(s, saved)
      PROVE  NotifiedInv'
  <2>1. order' = Placed(s, "BUY") \/ order' = Placed(s, "SELL")
    BY <1>6, RecordSteps
  <2>2. order' # NoOrder
    BY <2>1, PlacedIsAnOrder
  <2>3. QED
    BY <2>2
<1>7. CASE Report \/ Crash \/ NextDay
  BY <1>7, RecordSteps
<1>8. QED
  BY <1>1, <1>2, <1>3, <1>4, <1>5, <1>6, <1>7, NextCases DEF Inert

-----------------------------------------------------------------------------
(* The inductive invariant *)

LEMMA InitIInv == Init => IInv
<1> SUFFICES ASSUME Init PROVE IInv
    OBVIOUS
<1>1. TypeOK
  BY InitType
<1>2. InFlightInv /\ StoppingInv /\ FlatInv
  BY DEF Init, InFlightInv, StoppingInv, FlatInv
<1>3. OnRecord = {} /\ ~Running
  BY DEF Init, OnRecord, Running, Stopped, NoEntries
<1>4. LedgerInv
  BY <1>3 DEF Init, LedgerInv, NoEntries
<1>5. DailyOrderCap /\ PositionLimit
  BY <1>3, Sizes, ConstantsAssumption
     DEF Init, ConstantsAssumption, DailyOrderCap, PositionLimit
<1>6. StreakInv /\ HistoryInv /\ AccountInv /\ BaselineInv /\ NotifiedInv
  BY <1>3 DEF StreakInv, HistoryInv, AccountInv, BaselineInv, NotifiedInv
<1>7. QED
  BY <1>1, <1>2, <1>4, <1>5, <1>6 DEF IInv

LEMMA NextIInv == IInv /\ [Next]_vars => IInv'
<1> SUFFICES ASSUME IInv, [Next]_vars PROVE IInv'
    OBVIOUS
<1>1. TypeOK'
  BY NextType DEF IInv
<1>2. QED
  BY <1>1, InFlightStep, StoppingStep, FlatStep, LedgerStep, CapStep, StreakStep,
     PositionStep, HistoryStep, AccountStep, BaselineStep, NotifiedStep DEF IInv

\* The conjunction of all the parts holds in every reachable state.
THEOREM LoopKeepsInvariant == Spec => []IInv
  BY InitIInv, NextIInv, PTL DEF Spec

-----------------------------------------------------------------------------
(* Safety *)

\* The variables keep their types.
THEOREM LoopTyped == Spec => []TypeOK
<1>1. IInv => TypeOK
  BY DEF IInv
<1>2. QED
  BY <1>1, LoopKeepsInvariant, PTL

\* A symbol is bought again on a day only after its history entry was lost,
\* whatever crashed, failed to save or restarted (rules.is_duplicate_order).
THEOREM NoDuplicateUnlessLost == Spec => []DuplicateOnlyIfLost
<1>1. IInv => DuplicateOnlyIfLost
  BY DEF IInv, LedgerInv, TypeOK, DuplicateOnlyIfLost
<1>2. QED
  BY <1>1, LoopKeepsInvariant, PTL

\* Neither memory nor the account file ever holds more than TARGET_POSITIONS.
THEOREM PositionsBounded == Spec => []PositionLimit
<1>1. IInv => PositionLimit
  BY DEF IInv
<1>2. QED
  BY <1>1, LoopKeepsInvariant, PTL

\* The BUYs on record of one day never exceed MAX_ORDER_COUNT_PER_DAY.
THEOREM OrdersBounded == Spec => []DailyOrderCap
<1>1. IInv => DailyOrderCap
  BY DEF IInv
<1>2. QED
  BY <1>1, LoopKeepsInvariant, PTL

\* The duplicate check, the position limit and the order cap hold together, over
\* all the runs of a day.
THEOREM LimitsOnOrders == Spec => []OrderLimits
  BY NoDuplicateUnlessLost, PositionsBounded, OrdersBounded, PTL DEF OrderLimits

\* A crash forgets at most SAVE_FAILURE_THRESHOLD accepted BUYs.
THEOREM LossBounded == Spec => []CrashLossBounded
<1>1. IInv => CrashLossBounded
  BY DEF IInv, StreakInv, CrashLossBounded
<1>2. QED
  BY <1>1, LoopKeepsInvariant, PTL

\* Between two orders, memory is on disk or the operator has been told.
THEOREM SavesAccountedFor == Spec => []SavedOrReported
<1>1. IInv => SavedOrReported
  <2>1. IInv /\ Running /\ order = NoOrder /\ failures["kill_switch_baseline"] = 0 =>
            baselineFile = [day |-> day, run |-> baseline]
    BY DEF IInv, BaselineInv
  <2>2. QED
    BY <2>1 DEF IInv, HistoryInv, AccountInv, NotifiedInv, SavedOrReported
<1>2. QED
  BY <1>1, LoopKeepsInvariant, PTL

\* A normal end of the run leaves nothing the operator was not alerted of.
THEOREM NothingLeftUnnoticed == Spec => []FlatAfterNormalEnd
<1>1. IInv => FlatAfterNormalEnd
  BY DEF IInv, FlatInv, FlatAfterNormalEnd
<1>2. QED
  BY <1>1, LoopKeepsInvariant, PTL

-----------------------------------------------------------------------------
(* What a step may never do *)

\* The capital of the daily loss limit is computed once a day and kept by every
\* run of that day (_initialize_daily_starting_capital and its retries).
THEOREM CapitalKept == Spec => BaselineKept
<1> DEFINE Kept == baselineFile.day = day /\ day' = day =>
          /\ baselineFile' = baselineFile
          /\ stage' \notin {"down", "done"} => baseline' = baselineFile.run
<1>1. ASSUME IInv, IInv', [Next]_vars PROVE Kept
  <2> USE DEF world, files, capital, saving, switches, ghosts
  <2> SUFFICES ASSUME baselineFile.day = day, day' = day
               PROVE  /\ baselineFile' = baselineFile
                      /\ Running' => baseline' = baselineFile.run
      BY DEF Running, Stopped
  <2>1. /\ failures["kill_switch_baseline"] \in Nat
        /\ SAVE_FAILURE_THRESHOLD \in Nat /\ SAVE_FAILURE_THRESHOLD >= 1
    BY <1>1, ConstantsAssumption DEF ConstantsAssumption, IInv, TypeOK
  <2>2. Running => failures["kill_switch_baseline"] = 0 /\ ~baselineUnsaved
    BY <1>1 DEF IInv, BaselineInv
  <2>3. ASSUME NEW ok \in SUBSET Source, RetrySaves(ok), Running
        PROVE  baselineFile' = baselineFile
    <3>1. "kill_switch_baseline" \notin ok
      BY <2>1, <2>2, <2>3 DEF RetrySaves, Blocking
    <3>2. QED
      BY <2>3, <3>1 DEF RetrySaves
  <2>4. ASSUME NEW s \in Symbol, Evaluate(s) PROVE baselineFile' = baselineFile
    <3>1. Running
      BY <2>4 DEF Evaluate, PassOver, ApiLimitUnavailable, BuyTripsKillSwitch,
         BuyRefusedAfterRetry, PlaceBuy, PlaceSell, Evaluating, Running, Stopped
    <3>2. ASSUME NEW ok \in SUBSET Source, BuyRefusedAfterRetry(s, ok)
          PROVE  baselineFile' = baselineFile
      BY <2>3, <3>1, <3>2 DEF BuyRefusedAfterRetry
    <3>3. ASSUME NEW ok \in SUBSET Source, NEW saved \in BOOLEAN, PlaceBuy(s, ok, saved)
          PROVE  baselineFile' = baselineFile
      BY <2>3, <3>1, <3>3 DEF PlaceBuy
    <3>4. CASE PassOver(s) \/ ApiLimitUnavailable(s) \/ BuyTripsKillSwitch(s)
      BY <3>4 DEF PassOver, ApiLimitUnavailable, BuyTripsKillSwitch, KillSwitch
    <3>5. ASSUME NEW saved \in BOOLEAN, PlaceSell(s, saved)
          PROVE  baselineFile' = baselineFile
      BY <3>5 DEF PlaceSell
    <3>6. QED
      BY <2>4, <3>2, <3>3, <3>4, <3>5 DEF Evaluate
  <2>5. ASSUME NEW saved \in BOOLEAN, BeginPass(saved) PROVE baselineFile' = baselineFile
    <3>1. Running
      BY <2>5 DEF BeginPass, Running, Stopped
    <3>2. QED
      BY <2>2, <2>5, <3>1 DEF BeginPass, RetryBaselineSave
  <2>6. ASSUME NEW saved \in BOOLEAN, Start(saved) PROVE baselineFile' = baselineFile
    BY <2>6 DEF Start, BaselineReusable
  <2>7. ASSUME NEW s \in Symbol, NEW saved \in BOOLEAN,
               LiquidatePosition(s, saved) \/ LiquidationFails(s)
        PROVE  baselineFile' = baselineFile
    BY <2>7 DEF LiquidatePosition, LiquidationFails
  <2>8. ASSUME NEW saved \in BOOLEAN, RegisterOrder(saved)
        PROVE  baselineFile' = baselineFile
    BY <2>8 DEF RegisterOrder
  <2>9. ASSUME EmergencyStop \/ EndPass \/ EndLiquidation \/ Report \/ Crash \/ Tick
        PROVE  baselineFile' = baselineFile
    BY <2>9 DEF EmergencyStop, EndPass, EndLiquidation, Report, Crash, Tick
  <2>10. ASSUME NextDay \/ ToggleStopFile \/ UNCHANGED vars
         PROVE  baselineFile' = baselineFile
    BY <2>10 DEF NextDay, ToggleStopFile, vars
  <2>11. baselineFile' = baselineFile
    BY <1>1, <2>4, <2>5, <2>6, <2>7, <2>8, <2>9, <2>10 DEF Next, LoopStep
  <2>12. Running' => baseline' = baselineFile.run
    BY <1>1, <2>11 DEF IInv, BaselineInv
  <2>13. QED
    BY <2>11, <2>12
<1>2. QED
  BY <1>1, LoopKeepsInvariant, PTL DEF Spec, BaselineKept

\* No BUY once the kill switch has tripped or the liquidation has begun.
THEOREM NoLateBuy == Spec => NoBuyOnceStopping
<1> DEFINE NoBuy == killed \/ stage \in {"liquidate", "report"}
                        => bought' = bought \/ day' # day
<1>1. ASSUME IInv, [Next]_vars PROVE NoBuy
  <2> SUFFICES ASSUME killed \/ stage \in {"liquidate", "report"}
               PROVE  bought' = bought \/ day' # day
      OBVIOUS
  <2>1. stage \in {"liquidate", "report", "done"}
    BY <1>1 DEF IInv, StoppingInv
  <2>2. ASSUME NEW s \in Symbol, NEW ok \in SUBSET Source, NEW saved \in BOOLEAN,
               PlaceBuy(s, ok, saved)
        PROVE  FALSE
    BY <2>1, <2>2 DEF PlaceBuy, Evaluating
  <2>3. CASE NextDay
    BY <1>1, <2>3, ConstantsAssumption DEF NextDay, IInv, TypeOK, ConstantsAssumption
  <2>4. CASE Inert
    BY <1>1, <2>4, QuietFrame DEF IInv
  <2>5. QED
    BY <1>1, <2>2, <2>3, <2>4, NextCases, RecordSteps
<1>2. QED
  BY <1>1, LoopKeepsInvariant, PTL DEF Spec, NoBuyOnceStopping

-----------------------------------------------------------------------------
(* The loop implements the daily ledger *)

\* Accepting a BUY is Buy, losing unsaved history entries is Forget, midnight is
\* NewDay, and every other step leaves the ledger alone.
THEOREM LoopImplementsLedger == Spec => ImplementsLedger
<1>1. Init => Ledger!LedgerInit
  BY DEF Init, Ledger!LedgerInit, OnRecord, Running, Stopped, NoEntries
<1>2. ASSUME IInv, [Next]_vars
      PROVE  [Ledger!LedgerNext]_(Ledger!ledgerVars)
  <2> USE DEF OnRecord, Running, Stopped
  <2>1. CASE Inert
    <3>1. OnRecord' = OnRecord /\ bought' = bought /\ lost' = lost
      BY <1>2, <2>1, QuietFrame, InFlightValues DEF IInv
    <3>2. QED
      BY <3>1 DEF Ledger!ledgerVars
  <2>2. ASSUME \/ \E saved \in BOOLEAN : Start(saved) \/ RegisterOrder(saved)
               \/ \E s \in Symbol, ok \in SUBSET Source : BuyRefusedAfterRetry(s, ok)
               \/ \E s \in Symbol, saved \in BOOLEAN :
                     PlaceSell(s, saved) \/ LiquidatePosition(s, saved)
        PROVE  UNCHANGED Ledger!ledgerVars
    <3>1. OnRecord' = OnRecord /\ bought' = bought /\ lost' = lost
      BY <1>2, <2>2, RecordSteps, InFlightValues
    <3>2. QED
      BY <3>1 DEF Ledger!ledgerVars
  <2>3. ASSUME NEW s \in Symbol, NEW ok \in SUBSET Source, NEW saved \in BOOLEAN,
               PlaceBuy(s, ok, saved)
        PROVE  Ledger!Buy(s)
    <3>1. /\ Running /\ Running' /\ order = NoOrder /\ order' = Placed(s, "BUY")
          /\ history' = history /\ s \notin history.BUY
      BY <1>2, <2>3, RecordSteps
    <3>2. bought' = [bought EXCEPT ![s] = @ + 1] /\ lost' = lost
      BY <2>3 DEF PlaceBuy
    <3>3. /\ OnRecord = history.BUY /\ s \notin OnRecord
          /\ OnRecord' = OnRecord \cup {s}
      BY <3>1, InFlightValues
    <3> HIDE DEF OnRecord
    <3>4. Cardinality(OnRecord) < MAX_ORDER_COUNT_PER_DAY
      BY <2>3, <3>3 DEF PlaceBuy, BelowKillSwitch
    <3>5. QED
      BY <3>2, <3>4, <3>3 DEF Ledger!Buy, Ledger!Cardinality, Cardinality
  <2>4. ASSUME Report \/ Crash
        PROVE  \E S \in SUBSET OnRecord : Ledger!Forget(S)
    <3>1. /\ OnRecord' = historyFile.BUY /\ bought' = bought /\ LoseUnsaved
          /\ Unsaved = OnRecord \ historyFile.BUY
          /\ historyFile.BUY \subseteq OnRecord
      BY <1>2, <2>4, RecordSteps DEF IInv, LedgerInv, Unsaved
    <3> HIDE DEF OnRecord
    <3>2. OnRecord' = OnRecord \ Unsaved /\ Unsaved \in SUBSET OnRecord
      BY <3>1
    <3>3. Ledger!Forget(Unsaved)
      BY <3>1, <3>2 DEF Ledger!Forget, LoseUnsaved
    <3>4. QED
      BY <3>2, <3>3
  <2>5. CASE NextDay
    <3>1. OnRecord' = {} /\ bought' = [s \in Symbol |-> 0] /\ lost' = [s \in Symbol |-> 0]
      BY <1>2, <2>5, RecordSteps DEF NoEntries
    <3>2. Ledger!NewDay
      BY <3>1 DEF Ledger!NewDay, Ledger!LedgerInit
    <3>3. QED
      BY <3>2 DEF Ledger!LedgerNext
  <2>6. QED
    BY <1>2, <2>1, <2>2, <2>3, <2>4, <2>5, NextCases DEF Ledger!LedgerNext
<1>3. QED
  BY <1>1, <1>2, LoopKeepsInvariant, PTL DEF Spec, ImplementsLedger, Ledger!LedgerSpec

-----------------------------------------------------------------------------
(* What the operator hears of a trading day (SessionReports) *)

SessionRest ==
    /\ minute \in 0..LastMinute /\ starts \in 0..MaxStarts
    /\ sessionStage \in {"off", "loop", "ended"}
    /\ begunAt \in 0..LastMinute /\ previousPass \in 0..LastMinute
    /\ begunAt <= previousPass /\ previousPass <= minute
    /\ firstPass \in BOOLEAN /\ (firstPass => previousPass = begunAt)
    /\ sessionStage = "loop" => starts # 0
    /\ boardNoticed \in BOOLEAN /\ silentPasses \in Nat /\ allFailed = silentPasses
    /\ sessionStage = "loop" /\ silentPasses >= THRESHOLD => boardNoticed

\* A time was reported by a run that passed it; a run in the loop that was there has it in mind.
ReportsInMind ==
    /\ heard \in [ReportTimes -> Nat] /\ reportsSent \subseteq ReportTimes
    /\ \A t \in ReportTimes :
          heard[t] # 0 => /\ heard[t] = 1 /\ starts # 0 /\ t <= previousPass
                          /\ sessionStage = "loop" /\ begunAt <= t => t \in reportsSent
    /\ sessionStage = "loop" /\ ~firstPass =>
           \A t \in ReportTimes : begunAt <= t /\ t <= previousPass => t \in reportsSent

\* A signal of the day that was refused left a record or an event, unless its record was lost.
RefusalsRecorded ==
    /\ unsavedCodes \subseteq Refusal /\ savedCodes \subseteq Refusal /\ dayEvents \subseteq {"market", "atr"}
    /\ refusedToday => recordsLost \/ dayEvents # {} \/ savedCodes \cup unsavedCodes # {}
    /\ {killedToday, stopped, evaluated, signalled, traded, refusedToday, recordsLost} \subseteq BOOLEAN

\* What a report says of its own day.
ReportTrue(told) ==
    /\ told.reason \in {"none", "halted", "market", "market unknown", "capacity", "other", "condition"}
    /\ told.reason = "condition" => ~told.refused \/ told.lost
    /\ told.halted /\ ~told.traded => told.reason = "halted"
    /\ told.traded <=> told.reason = "none"

SessionIInv == SessionRest /\ ReportsInMind /\ RefusalsRecorded /\ ReportTrue(dayReport)

LEMMA SessionConstants ==
    /\ OPEN \in Nat /\ LIQUIDATION \in Nat /\ CLOSING \in Nat /\ LastMinute \in Nat /\ THRESHOLD \in Nat
    /\ THRESHOLD # 0 /\ MaxStarts \in Nat /\ CLOSING <= LastMinute /\ LIQUIDATION <= CLOSING
    /\ ReportTimes \subseteq 0..LastMinute /\ Refusal \subseteq {"halt", "capacity", "other"}
<1>1. OPEN \in Nat /\ LIQUIDATION \in Nat /\ CLOSING \in Nat /\ LastMinute \in Nat
  BY SessionAssumption
<1>2. THRESHOLD \in Nat /\ THRESHOLD # 0 /\ MaxStarts \in Nat /\ Refusal \subseteq {"halt", "capacity", "other"}
  BY SessionAssumption
<1>3. CLOSING <= LastMinute /\ LIQUIDATION <= CLOSING /\ ReportTimes \subseteq OPEN..LastMinute
  BY SessionAssumption
<1>4. QED
  BY <1>1, <1>2, <1>3

LEMMA SessionInitially == SessionInit => SessionIInv
<1> SUFFICES ASSUME SessionInit PROVE SessionIInv
  OBVIOUS
<1>1. SessionRest
  <2>1. LastMinute \in Nat /\ MaxStarts \in Nat
    BY SessionConstants
  <2>2. 0 \in 0..LastMinute /\ 0 \in 0..MaxStarts
    BY <2>1
  <2>3. /\ minute = 0 /\ starts = 0 /\ sessionStage = "off" /\ begunAt = 0 /\ previousPass = 0
        /\ firstPass = FALSE /\ boardNoticed = FALSE /\ silentPasses = 0 /\ allFailed = 0
    BY DEF SessionInit
  <2>4. firstPass \in BOOLEAN /\ boardNoticed \in BOOLEAN
    BY <2>3
  <2>5. begunAt <= previousPass /\ previousPass <= minute /\ silentPasses \in Nat
    BY <2>3
  <2>6. QED
    BY <2>2, <2>3, <2>4, <2>5 DEF SessionRest
<1>2. ReportsInMind
  BY SessionConstants DEF SessionInit, ReportsInMind
<1>3. RefusalsRecorded
  BY DEF SessionInit, RefusalsRecorded
<1>4. ReportTrue(dayReport)
  BY DEF SessionInit, ReportTrue, NoReport
<1>5. QED
  BY <1>1, <1>2, <1>3, <1>4 DEF SessionIInv

LEMMA MinutePassesKeeps == ASSUME SessionIInv, MinutePasses PROVE SessionIInv'
<1> USE DEF MinutePasses, SessionIInv, noticeVars, runVars, journalVars, ghostVars
<1>1. SessionRest'
  BY SessionConstants DEF SessionRest
<1>2. ReportsInMind'
  BY DEF ReportsInMind
<1>3. RefusalsRecorded'
  BY DEF RefusalsRecorded
<1>4. QED
  BY <1>1, <1>2, <1>3 DEF ReportTrue

LEMMA BeginSessionKeeps == ASSUME SessionIInv, BeginSession PROVE SessionIInv'
<1> USE DEF BeginSession, SessionIInv, journalVars
<1>1. SessionRest'
  <2>1. /\ minute' = minute /\ starts' = starts + 1 /\ begunAt' = minute /\ previousPass' = minute
        /\ firstPass' = TRUE /\ boardNoticed' = FALSE /\ silentPasses' = 0 /\ allFailed' = 0 /\ sessionStage' = "loop"
        /\ minute \in 0..LastMinute /\ starts \in 0..MaxStarts /\ starts < MaxStarts
    BY DEF SessionRest
  <2>2. starts + 1 \in 0..MaxStarts /\ starts + 1 # 0
    BY <2>1, SessionConstants
  <2>3. ~(0 >= THRESHOLD)
    BY SessionConstants
  <2>4. minute <= minute
    BY <2>1, SessionConstants
  <2>5. firstPass' \in BOOLEAN /\ boardNoticed' \in BOOLEAN
    BY <2>1, Zenon
  <2>8. silentPasses' \in Nat
    BY <2>1, SMT
  <2>6. ~(silentPasses' >= THRESHOLD) /\ begunAt' <= previousPass' /\ previousPass' <= minute'
    BY <2>1, <2>3, <2>4
  <2>7. QED
    BY <2>1, <2>2, <2>5, <2>8, <2>6 DEF SessionRest
<1>2. ReportsInMind'
  <2>1. heard' = heard /\ starts' # 0 /\ firstPass' = TRUE
    BY SessionConstants DEF SessionRest
  <2>2. ASSUME NEW t \in ReportTimes, heard[t] # 0 PROVE t < begunAt' /\ t <= previousPass'
    <3>1. t \in Nat /\ t <= previousPass /\ starts # 0
      BY <2>2, SessionConstants DEF ReportsInMind
    <3>2. starts > 0 /\ minute > previousPass
      BY <3>1 DEF SessionRest
    <3>3. QED
      BY <3>1, <3>2, SessionConstants DEF SessionRest
  <2>3. ASSUME NEW t \in ReportTimes, heard[t] # 0 PROVE ~(begunAt' <= t)
    BY <2>2, <2>3, SessionConstants DEF SessionRest
  <2>4. QED
    BY <2>1, <2>2, <2>3 DEF ReportsInMind
<1>3. RefusalsRecorded'
  BY DEF RefusalsRecorded
<1>4. QED
  BY <1>1, <1>2, <1>3 DEF ReportTrue

LEMMA PassKeeps ==
    ASSUME SessionIInv, NEW boards \in {"none", "failed", "read", "preflight"},
           NEW what \in {"nothing", "order", "market", "caution", "atr"} \cup Refusal,
           NEW login \in BOOLEAN, NEW works \in BOOLEAN, PassSymbols(boards, what, login, works)
    PROVE  SessionIInv'
<1> USE DEF PassSymbols, SessionIInv
<1>1. TimePasses \in 0..LastMinute /\ TimePasses <= minute /\ previousPass <= TimePasses
  BY DEF TimePasses, SessionRest
<1>2. SessionRest'
  <2>1. /\ allFailed' = silentPasses' /\ silentPasses' \in Nat /\ boardNoticed' \in BOOLEAN
        /\ silentPasses' >= THRESHOLD => boardNoticed'
    <3> silentPasses \in Nat /\ allFailed = silentPasses /\ (silentPasses >= THRESHOLD => boardNoticed)
        /\ boardNoticed \in BOOLEAN /\ CountBoards(boards)
      BY DEF SessionRest
    <3>1. CASE boards = "failed"
      <4>1. allFailed' = allFailed + 1 /\ silentPasses' = silentPasses + 1
        BY <3>1 DEF CountBoards, FailureStreak
      <4>2. boardNoticed' = (boardNoticed \/ allFailed' >= THRESHOLD)
        BY <3>1 DEF CountBoards
      <4>3. /\ allFailed' = silentPasses' /\ silentPasses' \in Nat /\ boardNoticed' \in BOOLEAN
        BY <4>1, <4>2
      <4>4. (silentPasses' >= THRESHOLD) => boardNoticed'
        BY <4>2, <4>3
      <4>5. QED
        BY <4>3, <4>4
    <3>2. CASE boards = "read"
      <4>1. allFailed' = 0 /\ silentPasses' = 0 /\ boardNoticed' = boardNoticed
        BY <3>2 DEF CountBoards, FailureStreak
      <4>2. QED
        BY <4>1, SessionConstants
    <3>3. CASE boards \notin {"failed", "read"}
      <4>1. allFailed' = allFailed /\ silentPasses' = silentPasses /\ boardNoticed' = boardNoticed
        BY <3>3 DEF CountBoards, FailureStreak
      <4>2. QED
        BY <4>1
    <3>4. QED
      BY <3>1, <3>2, <3>3
  <2>2. /\ minute' = minute /\ starts' = starts /\ sessionStage' = sessionStage /\ begunAt' = begunAt
        /\ previousPass' = TimePasses /\ firstPass' = FALSE
    OBVIOUS
  <2>3. begunAt <= TimePasses
    BY <1>1 DEF SessionRest
  <2>4. QED
    BY <1>1, <2>1, <2>2, <2>3 DEF SessionRest
<1>3. ReportsInMind'
  <2>1. /\ previousPass' = TimePasses /\ firstPass' = FALSE /\ begunAt' = begunAt /\ starts' = starts
        /\ sessionStage' = sessionStage /\ sessionStage = "loop"
        /\ begunAt \in Nat /\ previousPass \in Nat /\ TimePasses \in Nat /\ starts \in Nat
    BY <1>1 DEF SessionRest
  <2>2. starts # 0
    BY DEF SessionRest
  <2>3. reportsSent' \subseteq ReportTimes /\ heard' \in [ReportTimes -> Nat]
    BY DEF SendDueReports, DueNow, ReportsInMind
  <2>4. ASSUME NEW t \in ReportTimes, heard'[t] # 0
        PROVE  heard'[t] = 1 /\ t <= TimePasses /\ (begunAt <= t => t \in reportsSent')
    <3>1. t \in Nat
      BY SessionConstants
    <3>2. CASE t \in DueNow
      <4>1. t <= TimePasses /\ t \in reportsSent' /\ t \notin reportsSent /\ begunAt <= t
        BY <2>1, <3>1, <3>2 DEF DueNow, SendDueReports
      <4>2. heard[t] = 0 /\ heard'[t] = heard[t] + 1
        BY <2>1, <3>2, <4>1 DEF ReportsInMind, SendDueReports
      <4>3. QED
        BY <4>1, <4>2
    <3>3. CASE t \notin DueNow
      <4>1. heard'[t] = heard[t]
        BY <3>3 DEF SendDueReports
      <4>2. heard[t] = 1 /\ t <= previousPass /\ (begunAt <= t => t \in reportsSent)
        BY <2>1, <2>4, <4>1 DEF ReportsInMind
      <4>3. t <= TimePasses
        BY <1>1, <2>1, <3>1, <4>2
      <4>4. QED
        BY <4>1, <4>2, <4>3 DEF SendDueReports
    <3>4. QED
      BY <3>2, <3>3
  <2>5. ASSUME NEW t \in ReportTimes, begunAt <= t, t <= TimePasses PROVE t \in reportsSent'
    <3>1. t \in Nat
      BY SessionConstants
    <3>2. CASE firstPass
      <4>1. previousPass = begunAt /\ TimePasses = begunAt
        BY <3>2 DEF TimePasses, SessionRest
      <4>2. t = TimePasses /\ previousPass = t
        BY <2>1, <2>5, <3>1, <4>1
      <4>3. QED
        BY <2>5, <4>2 DEF DueNow, SendDueReports
    <3>3. CASE ~firstPass
      <4>1. t <= previousPass => t \in reportsSent
        BY <2>1, <2>5, <3>3 DEF ReportsInMind
      <4>2. ~(t <= previousPass) => previousPass < t
        BY <2>1, <3>1
      <4>3. QED
        BY <2>5, <4>1, <4>2 DEF DueNow, SendDueReports
    <3>4. QED
      BY <3>2, <3>3
  <2>6. QED
    BY <2>1, <2>2, <2>3, <2>4, <2>5 DEF ReportsInMind
<1>4. RefusalsRecorded'
  <2>1. unsavedCodes' \subseteq Refusal /\ savedCodes' \subseteq Refusal
    BY DEF Flush, RefusalsRecorded
  <2>2. dayEvents' \subseteq {"market", "atr"} /\ dayEvents \subseteq dayEvents' /\ recordsLost' = recordsLost
    BY DEF RefusalsRecorded
  <2>3. savedCodes' \cup unsavedCodes' = savedCodes \cup unsavedCodes \cup ({what} \cap Refusal)
    BY DEF Flush
  <2>4. refusedToday' => recordsLost' \/ dayEvents' # {} \/ savedCodes' \cup unsavedCodes' # {}
    <3>1. CASE refusedToday
      BY <2>2, <2>3, <3>1 DEF RefusalsRecorded
    <3>2. CASE what \in Refusal
      BY <2>3, <3>2
    <3>3. CASE what \in {"market", "caution", "atr"}
      BY <3>3
    <3>4. CASE what \in {"nothing", "order"} /\ ~refusedToday
      BY <3>4 DEF RefusalsRecorded
    <3>5. QED
      BY <3>1, <3>2, <3>3, <3>4
  <2>5. {killedToday', stopped', evaluated', signalled', traded', refusedToday', recordsLost'} \subseteq BOOLEAN
    BY DEF RefusalsRecorded
  <2>6. QED
    BY <2>1, <2>2, <2>4, <2>5 DEF RefusalsRecorded
<1>5. QED
  BY <1>2, <1>3, <1>4 DEF ReportTrue

LEMMA LeaveKeeps ==
    ASSUME SessionIInv, NEW why \in {"time", "kill", "stop"}, LeaveLoop(why) PROVE SessionIInv'
<1> USE DEF LeaveLoop, SessionIInv, noticeVars, journalVars, ghostVars
<1>1. SessionRest'
  BY DEF SessionRest
<1>2. ReportsInMind'
  BY DEF ReportsInMind
<1>3. RefusalsRecorded'
  BY DEF RefusalsRecorded
<1>4. QED
  BY <1>1, <1>2, <1>3 DEF ReportTrue

\* The reason that is written, when nothing was traded.
LEMMA ReasonOfDay ==
    ASSUME RefusalsRecorded, NEW halted \in BOOLEAN, NEW marketKnown \in BOOLEAN,
           NEW codes \in SUBSET Refusal, NEW why, why = Reason(halted, codes, marketKnown)
    PROVE  /\ why \in {"halted", "market", "market unknown", "capacity", "other", "condition"}
           /\ why = "condition" => codes = {} /\ dayEvents = {}
           /\ halted => why = "halted"
  BY SessionConstants DEF Reason, RefusalsRecorded

LEMMA EndReportKeeps ==
    ASSUME SessionIInv, NEW written \in BOOLEAN, NEW marketKnown \in BOOLEAN, NEW works \in BOOLEAN,
           EndReport(written, marketKnown, works)
    PROVE  SessionIInv'
<1> USE DEF EndReport, SessionIInv
<1>1. SessionRest'
  BY DEF SessionRest
<1>2. ReportsInMind'
  BY DEF ReportsInMind
<1>3. /\ unsavedCodes' \subseteq Refusal /\ savedCodes' \subseteq Refusal /\ dayEvents' = dayEvents
      /\ refusedToday' = refusedToday /\ recordsLost' \in BOOLEAN
  BY DEF RefusalsRecorded
<1>4. refusedToday => recordsLost' \/ dayEvents # {} \/ savedCodes' # {}
  BY DEF RefusalsRecorded
<1>5. RefusalsRecorded'
  BY <1>3, <1>4 DEF RefusalsRecorded, runVars
<1>6. ReportTrue(dayReport)'
  <2>1. CASE ~written
    BY <2>1 DEF ReportTrue
  <2>2. CASE written
    <3>1. PICK why : why = Reason(killedToday \/ stopped, savedCodes', marketKnown)
      OBVIOUS
    <3>2. dayReport' = [reason |-> IF traded THEN "none" ELSE why, halted |-> killedToday \/ stopped,
                        traded |-> traded, refused |-> refusedToday, lost |-> recordsLost']
      BY <2>2, <3>1
    <3>3. savedCodes' \in SUBSET Refusal /\ (killedToday \/ stopped) \in BOOLEAN
      BY <1>3 DEF RefusalsRecorded
    <3>4. /\ why \in {"halted", "market", "market unknown", "capacity", "other", "condition"}
          /\ why = "condition" => savedCodes' = {} /\ dayEvents = {}
          /\ (killedToday \/ stopped) => why = "halted"
      BY <3>1, <3>3, ReasonOfDay
    <3>5. /\ dayReport'.halted = (killedToday \/ stopped) /\ dayReport'.traded = traded
          /\ dayReport'.refused = refusedToday /\ dayReport'.lost = recordsLost'
          /\ dayReport'.reason = IF traded THEN "none" ELSE why
      BY <3>2
    <3>6. traded \in BOOLEAN /\ refusedToday \in BOOLEAN
      BY DEF RefusalsRecorded
    <3>7. dayReport'.reason = "condition" => ~refusedToday \/ recordsLost'
      BY <1>4, <3>4, <3>5
    <3>8. QED
      BY <3>4, <3>5, <3>6, <3>7 DEF ReportTrue
  <2>3. QED
    BY <2>1, <2>2
<1>7. QED
  BY <1>1, <1>2, <1>5, <1>6

LEMMA SessionDiesKeeps == ASSUME SessionIInv, SessionDies PROVE SessionIInv'
<1> USE DEF SessionDies, SessionIInv, noticeVars, runVars
<1>1. SessionRest'
  BY DEF SessionRest
<1>2. ReportsInMind'
  BY DEF ReportsInMind
<1>3. RefusalsRecorded'
  BY DEF RefusalsRecorded
<1>4. QED
  BY <1>1, <1>2, <1>3 DEF ReportTrue

LEMMA SessionInductive == SessionIInv /\ [SessionNext]_sessionVars => SessionIInv'
<1> SUFFICES ASSUME SessionIInv, [SessionNext]_sessionVars PROVE SessionIInv'
  OBVIOUS
<1>1. CASE SessionNext
  BY <1>1, MinutePassesKeeps, BeginSessionKeeps, PassKeeps, LeaveKeeps, EndReportKeeps, SessionDiesKeeps DEF SessionNext
<1>2. CASE UNCHANGED sessionVars
  BY <1>2 DEF SessionIInv, SessionRest, ReportsInMind, RefusalsRecorded, ReportTrue, sessionVars, noticeVars,
              runVars, journalVars, ghostVars
<1>3. QED
  BY <1>1, <1>2

LEMMA SessionSafe == SessionIInv => SessionTypeOK /\ SessionSound
<1> SUFFICES ASSUME SessionIInv PROVE SessionTypeOK /\ SessionSound
  OBVIOUS
<1>1. SessionTypeOK
  BY SessionConstants DEF SessionIInv, SessionRest, ReportsInMind, RefusalsRecorded, ReportTrue, SessionTypeOK
<1>2. ReportedOnce
  <2>1. \A t \in ReportTimes : heard[t] \in Nat /\ (heard[t] # 0 => heard[t] = 1)
    BY DEF SessionIInv, ReportsInMind
  <2>2. QED
    BY <2>1 DEF SessionIInv, ReportsInMind, ReportedOnce
<1>3. BoardNoticeDue /\ ReasonTrue
  BY DEF SessionIInv, SessionRest, ReportTrue, BoardNoticeDue, ReasonTrue
<1>4. QED
  BY <1>1, <1>2, <1>3 DEF SessionSound

\* Every time of a report is reported once a day however often the loop is started again, the notice of
\* the failing boards is sent when it is due, and the reason why nothing was traded is a true one.
THEOREM AlwaysReportedSoundly == SessionSpec => [](SessionTypeOK /\ SessionSound)
<1>1. SessionInit => SessionIInv
  BY SessionInitially
<1>2. SessionIInv /\ [SessionNext]_sessionVars => SessionIInv'
  BY SessionInductive
<1>3. SessionIInv => SessionTypeOK /\ SessionSound
  BY SessionSafe
<1>4. QED
  BY <1>1, <1>2, <1>3, PTL DEF SessionSpec

-----------------------------------------------------------------------------
(* The backfill of minute bars (MinuteBackfill) *)

Wanted == InMorning \cup AdoptedAtNoon
ReachedBy(t) == {s \in BackfillSymbol : \E u \in 1..t : s \in Tier(u)}

BackfillRest ==
    /\ recent \in RecentFiles /\ tier \in (0..5) \cup {9}
    /\ unfetched \in Seq(BackfillSymbol)
    /\ \A i \in 1..Len(unfetched), j \in 1..Len(unfetched) : unfetched[i] = unfetched[j] => i = j
    /\ spent \in Nat /\ spent + Len(unfetched) <= Cardinality(BackfillSymbol)
    /\ (tier = 0 => spent = 0) /\ (tier = 9 => unfetched = <<>>)

\* Each symbol of the tiers reached so far was tried, was left out, or is still to be fetched.
TiersInTurn ==
    /\ tier # 9 =>
          /\ Range(unfetched) \subseteq Tier(tier)
          /\ DOMAIN tried \cup unprocessed \cup Range(unfetched) = ReachedBy(tier)
    /\ DOMAIN tried \cap (unprocessed \cup Range(unfetched)) = {}
    /\ unprocessed \subseteq Tier(3) /\ (unprocessed # {} => tier \in (3..5) \cup {9} /\ unfetched = <<>>)
    /\ (\E s \in DOMAIN tried : s \notin Wanted) => Wanted \subseteq DOMAIN tried

\* What the run keeps in mind of an attempt is what it came to.
AttemptsTold ==
    /\ \A s \in DOMAIN tried : tried[s].raised \in BOOLEAN /\ (tried[s].raised => tried[s].days = {})
    /\ received \subseteq BackfillSymbol \X Window /\ DOMAIN tried \subseteq BackfillSymbol
    /\ \A s \in BackfillSymbol, d \in Window :
          <<s, d>> \in received <=> s \in DOMAIN tried /\ d \in tried[s].days
    /\ DOMAIN fetchFailures = {s \in DOMAIN tried : tried[s].days = {}}
    /\ \A s \in DOMAIN fetchFailures :
          fetchFailures[s] = IF tried[s].raised THEN "FETCH_ERROR" ELSE "NO_BARS"

BackfillIInv == BackfillRest /\ TiersInTurn /\ AttemptsTold /\ QualityTold

\* The tiers are those symbols, each in one tier.
LEMMA TiersApart ==
    ASSUME recent \in RecentFiles
    PROVE  /\ InMorning \subseteq BackfillSymbol /\ AdoptedAtNoon \subseteq BackfillSymbol
           /\ SeenAtNoon \subseteq BackfillSymbol
           /\ Tier(1) = InMorning /\ Tier(2) = AdoptedAtNoon \ InMorning
           /\ Tier(3) = (SeenAtNoon \ InMorning) \ AdoptedAtNoon
           /\ \A t \in ((0..5) \cup {9}) \ (1..3) : Tier(t) = {}
           /\ \A t : Tier(t) \subseteq BackfillSymbol
<1>1. \A d \in Window : /\ recent.morning[d] \subseteq BackfillSymbol /\ recent.noon[d].adopted \subseteq BackfillSymbol
                        /\ recent.noon[d].marked \subseteq BackfillSymbol
                        /\ recent.noon[d].candidates \subseteq BackfillSymbol
  BY BackfillAssumption DEF Window, BackfillDay
<1>2. \A d \in Window : /\ Adopted(recent.noon[d]) \subseteq BackfillSymbol
                        /\ CandidatesOf(recent.noon[d]) \subseteq BackfillSymbol
  BY <1>1 DEF Adopted, CandidatesOf
<1>3. InMorning \subseteq BackfillSymbol /\ AdoptedAtNoon \subseteq BackfillSymbol /\ SeenAtNoon \subseteq BackfillSymbol
  BY <1>1, <1>2 DEF InMorning, AdoptedAtNoon, SeenAtNoon
<1>4. /\ Tier(1) = InMorning /\ Tier(2) = AdoptedAtNoon \ InMorning
      /\ Tier(3) = (SeenAtNoon \ InMorning) \ AdoptedAtNoon
  BY DEF Tier
<1>5. ASSUME NEW t, t \notin {1, 2, 3} PROVE Tier(t) = {}
  BY <1>5 DEF Tier
<1>6. \A t : Tier(t) \subseteq BackfillSymbol
  BY <1>3, <1>4, <1>5
<1>7. QED
  BY <1>3, <1>4, <1>5, <1>6

LEMMA ReachedTiers ==
    ASSUME recent \in RecentFiles
    PROVE  /\ ReachedBy(0) = {} /\ ReachedBy(1) = Tier(1) /\ ReachedBy(2) = Tier(1) \cup Tier(2)
           /\ ReachedBy(3) = Tier(1) \cup Tier(2) \cup Tier(3)
           /\ ReachedBy(4) = ReachedBy(3) /\ ReachedBy(5) = ReachedBy(3)
<1>1. /\ \A t : Tier(t) \subseteq BackfillSymbol
      /\ Tier(4) = {} /\ Tier(5) = {}
  BY TiersApart
<1>2. /\ 1..0 = {} /\ 1..1 = {1} /\ 1..2 = {1, 2} /\ 1..3 = {1, 2, 3} /\ 1..4 = {1, 2, 3, 4}
      /\ 1..5 = {1, 2, 3, 4, 5}
  OBVIOUS
<1>3. ReachedBy(0) = {} /\ ReachedBy(1) = Tier(1)
  BY <1>1, <1>2 DEF ReachedBy
<1>4. ReachedBy(2) = Tier(1) \cup Tier(2)
  BY <1>1, <1>2 DEF ReachedBy
<1>5. ReachedBy(3) = Tier(1) \cup Tier(2) \cup Tier(3)
  BY <1>1, <1>2 DEF ReachedBy
<1>6. ReachedBy(4) = ReachedBy(3)
  BY <1>1, <1>2 DEF ReachedBy
<1>7. ReachedBy(5) = ReachedBy(3)
  BY <1>1, <1>2 DEF ReachedBy
<1>8. QED
  BY <1>3, <1>4, <1>5, <1>6, <1>7

LEMMA BackfillNumbers ==
    /\ IsFiniteSet(BackfillSymbol) /\ Cardinality(BackfillSymbol) \in Nat
    /\ \A S \in SUBSET BackfillSymbol : IsFiniteSet(S) /\ Cardinality(S) \in Nat
                                        /\ Cardinality(S) <= Cardinality(BackfillSymbol)
<1>1. IsFiniteSet(BackfillSymbol)
  BY BackfillAssumption
<1>2. QED
  BY <1>1, FS_CardinalityType, FS_Subset

LEMMA BackfillInitially == BackfillInit => BackfillIInv
<1> SUFFICES ASSUME BackfillInit PROVE BackfillIInv
  OBVIOUS
<1> USE DEF BackfillInit
<1>0. DOMAIN tried = {} /\ DOMAIN fetchFailures = {} /\ Range(unfetched) = {}
  BY DEF Range
<1>1. BackfillRest
  BY BackfillNumbers DEF BackfillRest
<1>2. TiersInTurn
  BY <1>0, ReachedTiers DEF TiersInTurn
<1>3. AttemptsTold
  BY <1>0 DEF AttemptsTold
<1>4. QED
  BY <1>1, <1>2, <1>3 DEF BackfillIInv, QualityTold

\* A tier begins with all of its symbols.
LEMMA TierBegins ==
    ASSUME recent \in RecentFiles, NEW t, NEW q, q = SetToSeq(Tier(t))
    PROVE  /\ q \in Seq(BackfillSymbol) /\ Range(q) = Tier(t)
           /\ \A i \in 1..Len(q), j \in 1..Len(q) : q[i] = q[j] => i = j
           /\ Len(q) <= Cardinality(BackfillSymbol)
<1>1. Tier(t) \in SUBSET BackfillSymbol
  BY TiersApart
<1>2. IsFiniteSet(Tier(t)) /\ Cardinality(Tier(t)) <= Cardinality(BackfillSymbol)
  BY <1>1, BackfillNumbers
<1>3. /\ q \in Seq(Tier(t)) /\ Len(q) = Cardinality(Tier(t)) /\ Range(q) = Tier(t)
      /\ \A i \in 1..Cardinality(Tier(t)), j \in 1..Cardinality(Tier(t)) : q[i] = q[j] => i = j
  BY <1>2, SetAsSequence
<1>4. q \in Seq(BackfillSymbol)
  BY <1>1, <1>3
<1>5. QED
  BY <1>2, <1>3, <1>4

LEMMA StartBackfillKeeps == ASSUME BackfillIInv, StartBackfill PROVE BackfillIInv'
<1> USE DEF StartBackfill, BackfillIInv
<1>1. recent \in RecentFiles /\ spent = 0 /\ DOMAIN tried \cup unprocessed \cup Range(unfetched) = {}
  BY ReachedTiers DEF BackfillRest, TiersInTurn
<1>2. /\ unfetched' \in Seq(BackfillSymbol) /\ Range(unfetched') = Tier(1)
      /\ \A i \in 1..Len(unfetched'), j \in 1..Len(unfetched') : unfetched'[i] = unfetched'[j] => i = j
      /\ Len(unfetched') <= Cardinality(BackfillSymbol)
  BY <1>1, TierBegins
<1>3. BackfillRest'
  BY <1>1, <1>2 DEF BackfillRest
<1>4. TiersInTurn'
  <2>1. DOMAIN tried = {} /\ unprocessed = {} /\ ReachedBy(1) = Tier(1)
    BY <1>1, ReachedTiers
  <2>2. QED
    BY <1>2, <2>1 DEF TiersInTurn, ReachedBy, Tier, InMorning, AdoptedAtNoon, SeenAtNoon, Wanted
<1>5. AttemptsTold'
  BY DEF AttemptsTold
<1>6. QED
  BY <1>3, <1>4, <1>5 DEF QualityTold

LEMMA NextTierKeeps == ASSUME BackfillIInv, NextTier PROVE BackfillIInv'
<1> USE DEF NextTier, BackfillIInv
<1>1. recent \in RecentFiles /\ tier \in 1..3 /\ DOMAIN tried \cup unprocessed = ReachedBy(tier)
  BY DEF BackfillRest, TiersInTurn, Range
<1>2. /\ unfetched' \in Seq(BackfillSymbol) /\ Range(unfetched') = Tier(tier + 1)
      /\ \A i \in 1..Len(unfetched'), j \in 1..Len(unfetched') : unfetched'[i] = unfetched'[j] => i = j
      /\ Len(unfetched') <= Cardinality(BackfillSymbol)
  BY <1>1, TierBegins
<1>3. BackfillRest'
  BY <1>1, <1>2 DEF BackfillRest
<1>4. ReachedBy(tier + 1) = ReachedBy(tier) \cup Tier(tier + 1) /\ ReachedBy(tier) \cap Tier(tier + 1) = {}
  <2>1. CASE tier = 1
    BY <1>1, <2>1, ReachedTiers, TiersApart
  <2>2. CASE tier = 2
    BY <1>1, <2>2, ReachedTiers, TiersApart
  <2>3. CASE tier = 3
    BY <1>1, <2>3, ReachedTiers, TiersApart
  <2>4. QED
    BY <1>1, <2>1, <2>2, <2>3
<1>5. TiersInTurn'
  <2>1. tier' = tier + 1 /\ tier + 1 \in 2..4 /\ tried' = tried /\ unprocessed' = unprocessed /\ recent' = recent
    BY <1>1
  <2>2. \A t : Tier(t)' = Tier(t) /\ ReachedBy(t)' = ReachedBy(t)
    BY <2>1 DEF ReachedBy, Tier, InMorning, AdoptedAtNoon, SeenAtNoon
  <2>3. Wanted' = Wanted
    BY <2>1 DEF Wanted, InMorning, AdoptedAtNoon
  <2>4. Tier(tier)' = Tier(tier + 1) /\ ReachedBy(tier)' = ReachedBy(tier + 1) /\ Tier(3)' = Tier(3)
    BY <2>1, <2>2 DEF ReachedBy, Tier, InMorning, AdoptedAtNoon, SeenAtNoon
  <2>5. DOMAIN tried \cap (unprocessed \cup Tier(tier + 1)) = {}
    BY <1>1, <1>4 DEF TiersInTurn
  <2>6. unprocessed # {} => tier + 1 \in (3..5) \cup {9} /\ unfetched' = <<>>
    <3>1. unprocessed # {} => tier = 3
      BY <1>1 DEF TiersInTurn
    <3>2. CASE tier = 3
      <4>1. Tier(tier + 1) = {}
        BY <1>1, <3>2, TiersApart
      <4>2. Range(unfetched') = {}
        BY <1>2, <4>1
      <4>3. unfetched' = <<>>
        <5>1. PICK q : q = unfetched'
          OBVIOUS
        <5>2. q \in Seq(BackfillSymbol) /\ Range(q) = {}
          BY <1>2, <4>2, <5>1
        <5>3. q = <<>>
          BY <5>2, RangeOfTail
        <5>4. QED
          BY <5>1, <5>3
      <4>4. QED
        BY <3>2, <4>3
    <3>3. QED
      BY <3>1, <3>2
  <2>7. unprocessed \subseteq Tier(3) /\ ((\E s \in DOMAIN tried : s \notin Wanted) => Wanted \subseteq DOMAIN tried)
    BY DEF TiersInTurn
  <2>8. DOMAIN tried \cup unprocessed \cup Tier(tier + 1) = ReachedBy(tier + 1)
    BY <1>1, <1>4
  <2>9. QED
    BY <1>2, <2>1, <2>3, <2>4, <2>5, <2>6, <2>7, <2>8 DEF TiersInTurn
<1>6. AttemptsTold'
  BY DEF AttemptsTold
<1>7. QED
  BY <1>1, <1>3, <1>5, <1>6 DEF QualityTold

LEMMA CutTierKeeps == ASSUME BackfillIInv, CutTier PROVE BackfillIInv'
<1> USE DEF CutTier, BackfillIInv
<1>1. tier = 3 /\ recent' = recent /\ tried' = tried /\ tier' = tier
  BY DEF TierTimeUp
<1>2. BackfillRest'
  <2>1. <<>> \in Seq(BackfillSymbol) /\ Len(<<>>) = 0 /\ Len(unfetched) \in Nat
    BY DEF BackfillRest
  <2>2. spent \in Nat /\ spent + Len(unfetched) <= Cardinality(BackfillSymbol) /\ Cardinality(BackfillSymbol) \in Nat
    BY BackfillNumbers DEF BackfillRest
  <2>3. spent + 0 <= Cardinality(BackfillSymbol)
    BY <2>1, <2>2
  <2>4. QED
    BY <1>1, <2>1, <2>3 DEF BackfillRest
<1>3. Range(unfetched') = {} /\ unprocessed' = Range(unfetched)
  BY DEF Range
<1>4. /\ unprocessed = {} /\ Range(unfetched) \subseteq Tier(3)
      /\ DOMAIN tried \cup Range(unfetched) = ReachedBy(tier) /\ DOMAIN tried \cap Range(unfetched) = {}
  BY <1>1 DEF TiersInTurn
<1>5. Tier(3)' = Tier(3) /\ Tier(tier)' = Tier(tier) /\ ReachedBy(tier)' = ReachedBy(tier) /\ Wanted' = Wanted
  BY <1>1 DEF ReachedBy, Wanted, Tier, InMorning, AdoptedAtNoon, SeenAtNoon
<1>6. TiersInTurn'
  BY <1>1, <1>3, <1>4, <1>5 DEF TiersInTurn
<1>7. AttemptsTold'
  BY DEF AttemptsTold
<1>8. QED
  BY <1>1, <1>2, <1>6, <1>7 DEF QualityTold

LEMMA StoringFailsKeeps == ASSUME BackfillIInv, StoringFails PROVE BackfillIInv'
<1> USE DEF StoringFails, BackfillIInv
<1>1. recent' = recent /\ tried' = tried /\ unprocessed' = unprocessed /\ tier' = 9 /\ Range(unfetched') = {}
  BY DEF Range
<1>2. BackfillRest'
  <2>1. <<>> \in Seq(BackfillSymbol) /\ Len(<<>>) = 0 /\ Len(unfetched) \in Nat
    BY DEF BackfillRest
  <2>2. spent \in Nat /\ spent + Len(unfetched) <= Cardinality(BackfillSymbol) /\ Cardinality(BackfillSymbol) \in Nat
    BY BackfillNumbers DEF BackfillRest
  <2>3. spent + 0 <= Cardinality(BackfillSymbol)
    BY <2>1, <2>2
  <2>4. QED
    BY <1>1, <2>1, <2>3 DEF BackfillRest
<1>3. Tier(3)' = Tier(3) /\ Wanted' = Wanted
  BY <1>1 DEF Wanted, Tier, InMorning, AdoptedAtNoon, SeenAtNoon
<1>4. TiersInTurn'
  BY <1>1, <1>3 DEF TiersInTurn
<1>5. AttemptsTold'
  BY DEF AttemptsTold
<1>6. QED
  BY <1>1, <1>2, <1>4, <1>5 DEF QualityTold

LEMMA FetchKeeps ==
    ASSUME BackfillIInv, NEW came \in SUBSET Window, NEW raises \in BOOLEAN, NEW takes \in 0..1,
           FetchSymbol(came, raises, takes)
    PROVE  BackfillIInv'
<1> USE DEF FetchSymbol, BackfillIInv
<1>1. /\ unfetched # <<>> /\ recent' = recent /\ tier' = tier /\ unprocessed' = unprocessed
      /\ unfetched' = Tail(unfetched) /\ spent' = spent + takes /\ quality' = quality
  OBVIOUS
<1>2. PICK u : u = Head(unfetched)
  OBVIOUS
<1>3. unfetched \in Seq(BackfillSymbol) /\ recent \in RecentFiles
  BY DEF BackfillRest
<1>4. /\ u \in BackfillSymbol /\ Tail(unfetched) \in Seq(BackfillSymbol)
      /\ Range(unfetched) = {u} \cup Range(Tail(unfetched))
  BY <1>1, <1>2, <1>3, RangeOfTail
<1>5. /\ Len(Tail(unfetched)) = Len(unfetched) - 1 /\ Len(unfetched) \in Nat /\ Len(unfetched) # 0
      /\ \A i \in 1..(Len(unfetched) - 1) : Tail(unfetched)[i] = unfetched[i + 1]
      /\ u = unfetched[1]
  BY <1>1, <1>2, <1>3
<1>6. u \notin Range(Tail(unfetched))
  <2>1. ASSUME u \in Range(Tail(unfetched)) PROVE FALSE
    <3> DEFINE q == Tail(unfetched)
    <3>0. q \in Seq(BackfillSymbol) /\ u \in Range(q) /\ Len(q) = Len(unfetched) - 1
      BY <1>4, <1>5, <2>1
    <3> HIDE DEF q
    <3>4. \E i \in 1..Len(q) : q[i] = u
      BY <3>0, ElementsAt
    <3>1. PICK i \in 1..(Len(unfetched) - 1) : Tail(unfetched)[i] = u
      BY <3>0, <3>4 DEF q
    <3>2. unfetched[i + 1] = unfetched[1] /\ i + 1 \in 1..Len(unfetched) /\ 1 \in 1..Len(unfetched) /\ i + 1 # 1
      BY <1>5, <3>1
    <3>3. QED
      BY <3>2 DEF BackfillRest
  <2>2. QED
    BY <2>1
<1>7. tier # 9
  BY <1>1 DEF BackfillRest
<1>8. unprocessed = {} /\ u \notin DOMAIN tried /\ u \in Tier(tier)
  BY <1>1, <1>4, <1>7 DEF TiersInTurn
<1>9. tier \in 1..3
  BY <1>3, <1>7, <1>8, TiersApart DEF BackfillRest
<1>10. BackfillRest'
  <2>1. ASSUME NEW i \in 1..Len(unfetched'), NEW j \in 1..Len(unfetched'), unfetched'[i] = unfetched'[j] PROVE i = j
    <3>1. /\ i \in 1..(Len(unfetched) - 1) /\ j \in 1..(Len(unfetched) - 1)
          /\ unfetched[i + 1] = unfetched[j + 1] /\ i + 1 \in 1..Len(unfetched) /\ j + 1 \in 1..Len(unfetched)
      BY <1>1, <1>5, <2>1
    <3>2. i + 1 = j + 1
      BY <3>1 DEF BackfillRest
    <3>3. QED
      BY <3>1, <3>2
  <2>2. /\ spent \in Nat /\ spent + Len(unfetched) <= Cardinality(BackfillSymbol)
        /\ Cardinality(BackfillSymbol) \in Nat
    BY BackfillNumbers DEF BackfillRest
  <2>3. spent + takes \in Nat /\ spent + takes + (Len(unfetched) - 1) <= Cardinality(BackfillSymbol)
    BY <1>5, <2>2
  <2>4. /\ recent' \in RecentFiles /\ tier' \in (0..5) \cup {9} /\ tier' # 0 /\ tier' # 9
        /\ unfetched' \in Seq(BackfillSymbol) /\ Len(unfetched') = Len(unfetched) - 1
    BY <1>1, <1>3, <1>4, <1>5, <1>9
  <2>5. QED
    BY <1>1, <2>1, <2>3, <2>4 DEF BackfillRest
<1>11. DOMAIN tried' = DOMAIN tried \cup {u}
  BY <1>2
<1>12. TiersInTurn'
  <2>1. /\ Tier(3)' = Tier(3) /\ Tier(tier)' = Tier(tier) /\ ReachedBy(tier)' = ReachedBy(tier)
        /\ Wanted' = Wanted
    BY <1>1 DEF ReachedBy, Wanted, Tier, InMorning, AdoptedAtNoon, SeenAtNoon
  <2>2. /\ Range(unfetched) \subseteq Tier(tier) /\ DOMAIN tried \cup Range(unfetched) = ReachedBy(tier)
        /\ DOMAIN tried \cap Range(unfetched) = {}
    BY <1>7, <1>8 DEF TiersInTurn
  <2>3. (\E s \in DOMAIN tried' : s \notin Wanted) => Wanted \subseteq DOMAIN tried'
    <3>1. Wanted = Tier(1) \cup Tier(2)
      BY <1>3, TiersApart DEF Wanted
    <3>2. CASE tier \in 1..2
      <4>1. u \in Wanted
        BY <1>8, <3>1, <3>2
      <4>2. QED
        BY <1>11, <4>1 DEF TiersInTurn
    <3>3. CASE tier = 3
      <4>1. Wanted \subseteq ReachedBy(tier) /\ Wanted \cap Tier(3) = {}
        BY <1>3, <3>1, <3>3, ReachedTiers, TiersApart
      <4>2. Wanted \subseteq DOMAIN tried
        BY <2>2, <3>3, <4>1
      <4>3. QED
        BY <1>11, <4>2
    <3>4. QED
      BY <1>9, <3>2, <3>3
  <2>4. QED
    BY <1>1, <1>4, <1>6, <1>8, <1>11, <2>1, <2>2, <2>3 DEF TiersInTurn
<1>13. AttemptsTold'
  <2>1. tried'[u] = [raised |-> raises, days |-> came]
    BY <1>2, <1>11
  <2>2. \A s \in DOMAIN tried : s # u /\ tried'[s] = tried[s]
    BY <1>2, <1>8, <1>11
  <2>3. received' = received \cup ({u} \X came) /\ (raises => came = {})
    BY <1>2
  <2>4. \A s \in DOMAIN tried' : tried'[s].raised \in BOOLEAN /\ (tried'[s].raised => tried'[s].days = {})
    BY <1>11, <2>1, <2>2, <2>3 DEF AttemptsTold
  <2>5. received' \subseteq BackfillSymbol \X Window /\ DOMAIN tried' \subseteq BackfillSymbol
    BY <1>4, <1>11, <2>3 DEF AttemptsTold
  <2>6. ASSUME NEW s \in BackfillSymbol, NEW d \in Window
        PROVE  <<s, d>> \in received' <=> s \in DOMAIN tried' /\ d \in tried'[s].days
    <3>1. <<s, d>> \in received <=> s \in DOMAIN tried /\ d \in tried[s].days
      BY DEF AttemptsTold
    <3>2. <<s, d>> \in {u} \X came <=> s = u /\ d \in came
      OBVIOUS
    <3>3. QED
      BY <1>8, <1>11, <2>1, <2>2, <2>3, <3>1, <3>2
  <2>7. DOMAIN fetchFailures = {s \in DOMAIN tried : tried[s].days = {}}
    BY DEF AttemptsTold
  <2>8. u \notin DOMAIN fetchFailures
    BY <1>8, <2>7
  <2>9. CASE came # {}
    <3>1. fetchFailures' = fetchFailures
      BY <2>9
    <3>2. DOMAIN fetchFailures' = {s \in DOMAIN tried' : tried'[s].days = {}}
      BY <1>8, <1>11, <2>1, <2>2, <2>7, <2>9, <3>1
    <3>3. \A s \in DOMAIN fetchFailures' :
             fetchFailures'[s] = IF tried'[s].raised THEN "FETCH_ERROR" ELSE "NO_BARS"
      BY <2>2, <2>7, <3>1 DEF AttemptsTold
    <3>4. QED
      BY <1>1, <2>4, <2>5, <2>6, <3>2, <3>3 DEF AttemptsTold, Window, BackfillDay
  <2>10. CASE came = {}
    <3>1. /\ DOMAIN fetchFailures' = DOMAIN fetchFailures \cup {u}
          /\ fetchFailures'[u] = (IF raises THEN "FETCH_ERROR" ELSE "NO_BARS")
          /\ \A s \in DOMAIN fetchFailures : s # u => fetchFailures'[s] = fetchFailures[s]
      BY <1>2, <2>10
    <3>2. DOMAIN fetchFailures' = {s \in DOMAIN tried' : tried'[s].days = {}}
      BY <1>8, <1>11, <2>1, <2>2, <2>7, <2>10, <3>1
    <3>3. \A s \in DOMAIN fetchFailures' :
             fetchFailures'[s] = IF tried'[s].raised THEN "FETCH_ERROR" ELSE "NO_BARS"
      BY <2>1, <2>2, <2>7, <2>8, <3>1 DEF AttemptsTold
    <3>4. QED
      BY <1>1, <2>4, <2>5, <2>6, <3>2, <3>3 DEF AttemptsTold, Window, BackfillDay
  <2>11. QED
    BY <2>9, <2>10
<1>14. QED
  BY <1>1, <1>9, <1>10, <1>12, <1>13 DEF QualityTold

LEMMA WriteQualityKeeps == ASSUME BackfillIInv, WriteQuality PROVE BackfillIInv'
<1> USE DEF WriteQuality, BackfillIInv
<1>1. /\ tier = 4 /\ tier' = 5 /\ recent' = recent /\ unfetched' = unfetched /\ tried' = tried
      /\ unprocessed' = unprocessed /\ received' = received /\ fetchFailures' = fetchFailures
  OBVIOUS
<1>2. recent \in RecentFiles
  BY DEF BackfillRest
<1>3. BackfillRest'
  BY <1>1 DEF BackfillRest
<1>4. Range(unfetched) = {} /\ DOMAIN tried \cup unprocessed = ReachedBy(4) /\ DOMAIN tried \cap unprocessed = {}
  BY <1>1, <1>2, TiersApart DEF TiersInTurn
<1>5. TiersInTurn'
  <2>1. /\ Tier(3)' = Tier(3) /\ Wanted' = Wanted /\ \A t : Tier(t)' = Tier(t)
        /\ \A t : ReachedBy(t)' = ReachedBy(t)
    BY <1>1 DEF ReachedBy, Wanted, Tier, InMorning, AdoptedAtNoon, SeenAtNoon
  <2>2. ReachedBy(5) = ReachedBy(4)
    BY <1>2, ReachedTiers
  <2>3. /\ unprocessed \subseteq Tier(3) /\ (unprocessed # {} => unfetched = <<>>)
        /\ (\E s \in DOMAIN tried : s \notin Wanted) => Wanted \subseteq DOMAIN tried
    BY DEF TiersInTurn
  <2>6. ReachedBy(tier)' = ReachedBy(5) /\ Tier(tier)' = Tier(5)
    BY <1>1, <2>1 DEF ReachedBy, Tier
  <2>4. DOMAIN tried' \cup unprocessed' \cup Range(unfetched') = ReachedBy(tier)'
    BY <1>1, <1>4, <2>6, <2>2
  <2>5. QED
    BY <1>1, <1>4, <2>1, <2>3, <2>4, <2>6 DEF TiersInTurn
<1>6. AttemptsTold'
  BY DEF AttemptsTold
<1>7. QualityTold'
  <2>1. quality' = [sd \in Expected \cup received |-> QualityOf(sd)]
    OBVIOUS
  <2>2. Expected' = Expected
    BY <1>1 DEF Expected
  <2>3. ASSUME NEW sd \in Expected \cup received
        PROVE  QualityOf(sd) = IF sd[1] \notin DOMAIN tried THEN "NOT_ATTEMPTED_TIMEOUT"
                               ELSE IF tried[sd[1]].raised THEN "FETCH_ERROR"
                               ELSE IF sd[2] \in tried[sd[1]].days THEN "received"
                               ELSE "NO_BARS"
    <3>1. sd \in BackfillSymbol \X Window
      BY DEF Expected, AttemptsTold
    <3>2. PICK u \in BackfillSymbol, d \in Window : sd = <<u, d>>
      BY <3>1
    <3>3. sd[1] = u /\ sd[2] = d
      BY <3>2
    <3>4. u \in DOMAIN tried \cup unprocessed
      <4>1. CASE sd \in received
        BY <3>2, <4>1 DEF AttemptsTold
      <4>2. CASE sd \in Expected
        <5>1. u \in recent.morning[d] \cup Adopted(recent.noon[d]) \cup CandidatesOf(recent.noon[d])
          BY <3>3, <4>2 DEF Expected
        <5>2. u \in InMorning \cup AdoptedAtNoon \cup SeenAtNoon
          BY <5>1 DEF InMorning, AdoptedAtNoon, SeenAtNoon
        <5>3. u \in ReachedBy(4)
          BY <1>2, <5>2, ReachedTiers, TiersApart
        <5>4. QED
          BY <1>4, <5>3
      <4>3. QED
        BY <4>1, <4>2
    <3>5. CASE u \in unprocessed
      BY <1>4, <3>3, <3>5 DEF QualityOf
    <3>6. CASE u \notin unprocessed
      <4>1. /\ u \in DOMAIN tried /\ (sd \in received <=> d \in tried[u].days)
            /\ tried[u].raised => tried[u].days = {}
        BY <3>2, <3>4, <3>6 DEF AttemptsTold
      <4>2. CASE d \in tried[u].days
        <5>1. ~tried[u].raised
          BY <4>1, <4>2
        <5>2. QED
          BY <3>3, <3>6, <4>1, <4>2, <5>1 DEF QualityOf
      <4>3. CASE tried[u].days = {}
        <5>1. u \in DOMAIN fetchFailures /\ fetchFailures[u] = IF tried[u].raised THEN "FETCH_ERROR" ELSE "NO_BARS"
          BY <4>1, <4>3 DEF AttemptsTold
        <5>2. QED
          BY <3>3, <3>6, <4>1, <4>3, <5>1 DEF QualityOf
      <4>4. CASE d \notin tried[u].days /\ tried[u].days # {}
        <5>1. u \notin DOMAIN fetchFailures /\ ~tried[u].raised
          BY <4>1, <4>4 DEF AttemptsTold
        <5>2. QED
          BY <3>3, <3>6, <4>1, <4>4, <5>1 DEF QualityOf
      <4>5. QED
        BY <4>2, <4>3, <4>4
    <3>7. QED
      BY <3>5, <3>6
  <2>4. DOMAIN quality' = Expected \cup received /\ \A sd \in Expected \cup received : quality'[sd] = QualityOf(sd)
    BY <2>1
  <2>5. QED
    BY <1>1, <2>2, <2>3, <2>4 DEF QualityTold
<1>8. QED
  BY <1>3, <1>5, <1>6, <1>7

LEMMA BackfillInductive == BackfillIInv /\ [BackfillNext]_backfillVars => BackfillIInv'
<1> SUFFICES ASSUME BackfillIInv, [BackfillNext]_backfillVars PROVE BackfillIInv'
  OBVIOUS
<1>1. CASE BackfillNext
  BY <1>1, StartBackfillKeeps, NextTierKeeps, CutTierKeeps, StoringFailsKeeps, WriteQualityKeeps, FetchKeeps
  DEF BackfillNext
<1>2. CASE UNCHANGED backfillVars
  <2> USE <1>2 DEF backfillVars
  <2>1. \A t : Tier(t)' = Tier(t) /\ ReachedBy(t)' = ReachedBy(t)
    BY DEF ReachedBy, Tier, InMorning, AdoptedAtNoon, SeenAtNoon
  <2>2. Wanted' = Wanted /\ Expected' = Expected
    BY DEF Wanted, Expected, InMorning, AdoptedAtNoon
  <2>3. BackfillRest' /\ AttemptsTold'
    BY DEF BackfillIInv, BackfillRest, AttemptsTold
  <2>4. TiersInTurn'
    BY <2>1, <2>2 DEF BackfillIInv, TiersInTurn
  <2>5. QED
    BY <2>2, <2>3, <2>4 DEF BackfillIInv, QualityTold
<1>3. QED
  BY <1>1, <1>2

LEMMA BackfillSafe == BackfillIInv => BackfillTypeOK /\ BackfillSound
<1> SUFFICES ASSUME BackfillIInv PROVE BackfillTypeOK /\ BackfillSound
  OBVIOUS
<1> USE DEF BackfillIInv
<1>1. recent \in RecentFiles /\ unfetched \in Seq(BackfillSymbol)
  BY DEF BackfillRest
<1>2. BackfillTypeOK
  <2>1. Range(unfetched) \subseteq BackfillSymbol
    BY <1>1, ElementsAt
  <2>2. unprocessed \subseteq BackfillSymbol
    BY <1>1, TiersApart DEF TiersInTurn
  <2>3. Range(fetchFailures) \subseteq {"NO_BARS", "FETCH_ERROR"}
    BY DEF AttemptsTold, Range
  <2>4. spent \in 0..Cardinality(BackfillSymbol)
    <3>1. spent \in Nat /\ Len(unfetched) \in Nat /\ spent + Len(unfetched) <= Cardinality(BackfillSymbol)
      BY <1>1 DEF BackfillRest
    <3>2. QED
      BY <3>1, BackfillNumbers
  <2>5. QED
    BY <2>1, <2>2, <2>3, <2>4 DEF BackfillTypeOK, BackfillRest, AttemptsTold
<1>3. ChosenComeFirst
  <2>1. ASSUME NEW u \in InMorning \cup AdoptedAtNoon \cup SeenAtNoon
        PROVE  Cardinality({t \in 1..3 : u \in Tier(t)}) = 1
    <3>1. \E k \in 1..3 : {t \in 1..3 : u \in Tier(t)} = {k}
      <4>1. CASE u \in InMorning
        <5>1. {t \in 1..3 : u \in Tier(t)} = {1}
          BY <1>1, <4>1, TiersApart
        <5>2. QED
          BY <5>1
      <4>2. CASE u \in AdoptedAtNoon \ InMorning
        <5>1. {t \in 1..3 : u \in Tier(t)} = {2}
          BY <1>1, <4>2, TiersApart
        <5>2. QED
          BY <5>1
      <4>3. CASE u \in (SeenAtNoon \ InMorning) \ AdoptedAtNoon
        <5>1. {t \in 1..3 : u \in Tier(t)} = {3}
          BY <1>1, <4>3, TiersApart
        <5>2. QED
          BY <5>1
      <4>4. QED
        BY <4>1, <4>2, <4>3
    <3>2. QED
      BY <3>1, FS_Singleton
  <2>2. unprocessed \cap (InMorning \cup AdoptedAtNoon) = {}
    BY <1>1, TiersApart DEF TiersInTurn
  <2>3. (\E s \in DOMAIN tried : s \notin InMorning \cup AdoptedAtNoon) =>
           InMorning \cup AdoptedAtNoon \subseteq DOMAIN tried
    BY DEF TiersInTurn, Wanted
  <2>4. QED
    BY <2>1, <2>2, <2>3 DEF ChosenComeFirst
<1>4. QED
  BY <1>2, <1>3 DEF BackfillSound

\* The symbols nobody chose come last and are the only ones left out for want of time, and the
\* quality report tells of every expected symbol and day what happened to it.
THEOREM AlwaysBackfilledSoundly == BackfillSpec => [](BackfillTypeOK /\ BackfillSound)
<1>1. BackfillInit => BackfillIInv
  BY BackfillInitially
<1>2. BackfillIInv /\ [BackfillNext]_backfillVars => BackfillIInv'
  BY BackfillInductive
<1>3. BackfillIInv => BackfillTypeOK /\ BackfillSound
  BY BackfillSafe
<1>4. QED
  BY <1>1, <1>2, <1>3, PTL DEF BackfillSpec

-----------------------------------------------------------------------------
(* The replay of several days (ReplayedDays). The account and what is computed again from the *)
(* orders of the day stay in step from one order to the next.                               *)

ReplayClient == [cash : Nat, held : [Share -> BOOLEAN], cost : [Share -> Nat], pnl : Int, pnlDay : 0..LastReplayDay]
ReplayOrder == [symbol : Share, side : {"BUY", "SELL"}, price : Nat, fee : Nat]
ReplayBook == [pnl : Int, cost : [Share -> Nat], open : SUBSET Share]
EmptyBook == [pnl |-> 0, cost |-> [s \in Share |-> 0], open |-> {}]
OrderStep == [bo \in ReplayBook \X ReplayOrder |-> FromOrders(bo[1], bo[2])]
BookOf(q) == FoldLeft(FromOrders, EmptyBook, q)

\* An account and a book of the same day tell the same.
Agrees(c, b, gained, pnl) ==
    /\ c.cash + SumOver(c.cost, Share) = REPLAY_CASH + gained + pnl
    /\ b.pnl = pnl /\ b.open = {s \in Share : c.held[s]}
    /\ \A s \in Share : (c.held[s] => b.cost[s] = c.cost[s]) /\ (~c.held[s] => c.cost[s] = 0)

LEMMA ReplayConstants ==
    /\ IsFiniteSet(Share) /\ LastReplayDay \in Nat /\ LastReplayMinute \in Nat /\ LIQUIDATE_FROM \in Nat
    /\ REPLAY_CASH \in Nat /\ SHORTEST_HISTORY \in Nat
    /\ \A l \in Listings : l \in [ReplayDay -> SUBSET Share]
    /\ \A session \in DaySessions : session \in [1..LastReplayMinute -> Nat]
  BY ReplayAssumption

LEMMA FeeOfPrice ==
    ASSUME NEW price \in Nat
    PROVE  Fee10(price) \in Nat /\ Fee10(price) <= price
  BY DEF Fee10

LEMMA OrderOnBook ==
    ASSUME NEW b \in ReplayBook, NEW o \in ReplayOrder
    PROVE  /\ FromOrders(b, o) \in ReplayBook
           /\ o.side = "BUY" =>
                 /\ FromOrders(b, o).pnl = b.pnl /\ FromOrders(b, o).open = b.open \cup {o.symbol}
                 /\ FromOrders(b, o).cost[o.symbol] = o.price + o.fee
                 /\ \A s \in Share \ {o.symbol} : FromOrders(b, o).cost[s] = b.cost[s]
           /\ o.side = "SELL" =>
                 /\ FromOrders(b, o).pnl = b.pnl + o.price - o.fee - b.cost[o.symbol]
                 /\ FromOrders(b, o).open = b.open \ {o.symbol} /\ FromOrders(b, o).cost = b.cost
<1>1. /\ o.symbol \in Share /\ o.side \in {"BUY", "SELL"} /\ o.price \in Nat /\ o.fee \in Nat
      /\ b.pnl \in Int /\ b.cost \in [Share -> Nat] /\ b.open \in SUBSET Share /\ b.cost[o.symbol] \in Nat
  BY DEF ReplayBook, ReplayOrder
<1>2. CASE o.side = "BUY"
  <2>1. FromOrders(b, o) = [b EXCEPT !.cost[o.symbol] = o.price + o.fee, !.open = @ \cup {o.symbol}]
    BY <1>2 DEF FromOrders
  <2>2. FromOrders(b, o) = [pnl |-> b.pnl, cost |-> [b.cost EXCEPT ![o.symbol] = o.price + o.fee],
                            open |-> b.open \cup {o.symbol}]
    BY <2>1 DEF ReplayBook
  <2>3. [b.cost EXCEPT ![o.symbol] = o.price + o.fee] \in [Share -> Nat]
    BY <1>1
  <2>4. FromOrders(b, o) \in ReplayBook
    BY <1>1, <2>2, <2>3 DEF ReplayBook
  <2>5. QED
    BY <1>1, <1>2, <2>2, <2>4
<1>3. CASE o.side = "SELL"
  <2>1. FromOrders(b, o) = [b EXCEPT !.pnl = @ + o.price - o.fee - b.cost[o.symbol], !.open = @ \ {o.symbol}]
    BY <1>3 DEF FromOrders
  <2>2. FromOrders(b, o) = [pnl |-> b.pnl + o.price - o.fee - b.cost[o.symbol], cost |-> b.cost,
                            open |-> b.open \ {o.symbol}]
    BY <2>1 DEF ReplayBook
  <2>3. b.pnl + o.price - o.fee - b.cost[o.symbol] \in Int
    BY <1>1
  <2>4. FromOrders(b, o) \in ReplayBook
    BY <1>1, <2>2, <2>3 DEF ReplayBook
  <2>5. QED
    BY <1>1, <1>3, <2>2, <2>4
<1>4. QED
  BY <1>1, <1>2, <1>3

LEMMA BookFolds ==
    ASSUME NEW q \in Seq(ReplayOrder)
    PROVE  Folded(OrderStep, ReplayBook, EmptyBook, q, BookOf(q))
<1> DEFINE g == CHOOSE g : g = [T \in SUBSET (DOMAIN q) |->
                                   IF T = {} THEN EmptyBook ELSE FromOrders(g[T \ {Max(T)}], q[Max(T)])]
<1>1. BookOf(q) = g[DOMAIN q]
  BY DEF BookOf, FoldLeft, MapThenFoldSet
<1>2. PICK n \in Nat : n = Len(q)
  OBVIOUS
<1>3. DOMAIN q = 1..n /\ q \in [1..n -> ReplayOrder]
  BY <1>2
<1>4. OrderStep \in [ReplayBook \X ReplayOrder -> ReplayBook]
  BY OrderOnBook DEF OrderStep
<1>5. \A b \in ReplayBook, o \in ReplayOrder : OrderStep[<<b, o>>] = FromOrders(b, o)
  BY DEF OrderStep
<1>6. EmptyBook \in ReplayBook
  BY DEF EmptyBook, ReplayBook
<1>7. PICK h \in [SUBSET (1..n) -> ReplayBook] : Folds(h, OrderStep, EmptyBook, q, n)
  BY <1>3, <1>4, <1>6, FoldsExist
<1>8. h = [T \in SUBSET (DOMAIN q) |->
              IF T = {} THEN EmptyBook ELSE FromOrders(h[T \ {Max(T)}], q[Max(T)])]
  <2>1. ASSUME NEW T \in SUBSET (1..n)
        PROVE  h[T] = IF T = {} THEN EmptyBook ELSE FromOrders(h[T \ {Max(T)}], q[Max(T)])
    <3>1. CASE T = {}
      BY <1>7, <3>1 DEF Folds
    <3>2. CASE T # {}
      <4>0. T \in SUBSET (0..n)
        OBVIOUS
      <4>1. Max(T) \in T
        BY <3>2, <4>0, Largest
      <4>2. h[T \ {Max(T)}] \in ReplayBook /\ q[Max(T)] \in ReplayOrder
        BY <1>3, <1>7, <4>1
      <4>3. h[T] = OrderStep[<<h[T \ {Max(T)}], q[Max(T)]>>]
        BY <1>7, <3>2 DEF Folds
      <4>4. QED
        BY <1>5, <3>2, <4>2, <4>3
    <3>3. QED
      BY <3>1, <3>2
  <2>2. QED
    BY <1>3, <1>7, <2>1
<1>9. g = [T \in SUBSET (DOMAIN q) |->
              IF T = {} THEN EmptyBook ELSE FromOrders(g[T \ {Max(T)}], q[Max(T)])]
  BY <1>8, Zenon
<1> HIDE DEF g
<1> DEFINE P == {<<i, h[1..i]>> : i \in 0..n}
<1>10. Carries(P, ReplayBook, ReplayOrder, g, OrderStep, EmptyBook, q, n)
  <2>1. g[{}] = EmptyBook /\ h[{}] = EmptyBook
    BY <1>7, <1>9 DEF Folds
  <2>2. ASSUME NEW T \in SUBSET (1..n), T # {}, g[T \ {Max(T)}] \in ReplayBook
        PROVE  g[T] = OrderStep[<<g[T \ {Max(T)}], q[Max(T)]>>]
    <3>0. T \in SUBSET (0..n)
      OBVIOUS
    <3>1. Max(T) \in T
      BY <2>2, <3>0, Largest
    <3>2. q[Max(T)] \in ReplayOrder
      BY <1>3, <3>1
    <3>3. g[T] = FromOrders(g[T \ {Max(T)}], q[Max(T)])
      BY <1>3, <1>9, <2>2
    <3>4. QED
      BY <1>5, <2>2, <3>2, <3>3
  <2>3. <<0, EmptyBook>> \in P
    <3>1. 1..0 = {} /\ 0 \in 0..n
      OBVIOUS
    <3>2. QED
      BY <2>1, <3>1
  <2>4. ASSUME NEW i \in 1..n, NEW c \in ReplayBook, <<i - 1, c>> \in P
        PROVE  <<i, OrderStep[<<c, q[i]>>]>> \in P
    <3>1. c = h[1..(i - 1)]
      BY <2>4
    <3>2. 1..i \in SUBSET (1..n)
      OBVIOUS
    <3>3. i \in Nat /\ i # 0 /\ i \in 0..n /\ i \in 1..i
      OBVIOUS
    <3>4. 1..i # {}
      BY <3>3
    <3>5. Max(1..i) = i /\ (1..i) \ {i} = 1..(i - 1)
      BY <3>3, LargestUpTo
    <3>6. h[1..i] = OrderStep[<<h[(1..i) \ {Max(1..i)}], q[Max(1..i)]>>]
      BY <1>7, <3>2, <3>4 DEF Folds
    <3>7. h[1..i] = OrderStep[<<c, q[i]>>]
      BY <3>1, <3>5, <3>6
    <3>8. QED
      BY <3>3, <3>7
  <2> HIDE DEF P
  <2>5. QED
    BY <1>3, <1>4, <1>6, <2>1, <2>2, <2>3, <2>4 DEF Carries
<1>11. g[1..n] = h[1..n]
  <2>1. <<n, g[1..n]>> \in P
    <3> HIDE DEF P
    <3> QED
      BY <1>10, FoldKeeps
  <2>2. QED
    BY <2>1
<1>12. QED
  BY <1>1, <1>2, <1>3, <1>7, <1>11 DEF Folded

\* The book of one more order, and of none.
LEMMA BookGoesOn ==
    /\ \A q \in Seq(ReplayOrder) : BookOf(q) \in ReplayBook
    /\ \A q \in Seq(ReplayOrder), o \in ReplayOrder : BookOf(Append(q, o)) = FromOrders(BookOf(q), o)
    /\ BookOf(<<>>) = EmptyBook
<1>0. EmptyBook \in ReplayBook /\ OrderStep \in [ReplayBook \X ReplayOrder -> ReplayBook]
  BY OrderOnBook DEF EmptyBook, ReplayBook, OrderStep
<1>1. ASSUME NEW q \in Seq(ReplayOrder) PROVE BookOf(q) \in ReplayBook
  <2>1. PICK g \in [SUBSET (1..Len(q)) -> ReplayBook] : BookOf(q) = g[1..Len(q)]
    BY BookFolds DEF Folded
  <2>2. 1..Len(q) \in SUBSET (1..Len(q))
    OBVIOUS
  <2>3. QED
    BY <2>1, <2>2
<1>2. ASSUME NEW q \in Seq(ReplayOrder), NEW o \in ReplayOrder
      PROVE  BookOf(Append(q, o)) = FromOrders(BookOf(q), o)
  <2>1. Append(q, o) \in Seq(ReplayOrder)
    OBVIOUS
  <2>2. /\ Folded(OrderStep, ReplayBook, EmptyBook, q, BookOf(q))
        /\ Folded(OrderStep, ReplayBook, EmptyBook, Append(q, o), BookOf(Append(q, o)))
    BY <2>1, BookFolds
  <2>5. PICK r, t : r = BookOf(q) /\ t = BookOf(Append(q, o))
    OBVIOUS
  <2>6. /\ Folded(OrderStep, ReplayBook, EmptyBook, q, r)
        /\ Folded(OrderStep, ReplayBook, EmptyBook, Append(q, o), t)
    BY <2>2, <2>5
  <2>7. OneMore(OrderStep, ReplayBook, ReplayOrder, EmptyBook, q, o, r, t)
    BY <1>0, <2>6 DEF OneMore
  <2>8. t = OrderStep[<<r, o>>]
    BY <2>7, FoldOfAppend
  <2>3. BookOf(Append(q, o)) = OrderStep[<<BookOf(q), o>>]
    BY <2>5, <2>8
  <2>4. QED
    BY <1>1, <2>3 DEF OrderStep
<1>3. BookOf(<<>>) = EmptyBook
  <2>1. <<>> \in Seq(ReplayOrder)
    OBVIOUS
  <2>2. Folded(OrderStep, ReplayBook, EmptyBook, <<>>, BookOf(<<>>))
    BY <2>1, BookFolds
  <2>3. QED
    BY <2>2, FoldOfNothing
<1>4. QED
  BY <1>1, <1>2, <1>3

\* The account after an order o, and the account before it with the book of the day.
Buys(c, b, gained, pnl, u, price, cc, o) ==
    /\ c \in ReplayClient /\ b \in ReplayBook /\ gained \in Int /\ pnl \in Int /\ Agrees(c, b, gained, pnl)
    /\ u \in Share /\ price \in Nat /\ ~c.held[u] /\ c.cash >= price + Fee10(price)
    /\ cc = [c EXCEPT !.cash = @ - price - Fee10(price), !.held[u] = TRUE, !.cost[u] = price + Fee10(price)]
    /\ o \in ReplayOrder /\ o = [symbol |-> u, side |-> "BUY", price |-> price, fee |-> Fee10(price)]
Sells(c, b, gained, pnl, d, u, price, cc, o) ==
    /\ c \in ReplayClient /\ b \in ReplayBook /\ gained \in Int /\ pnl \in Int /\ Agrees(c, b, gained, pnl)
    /\ d \in 0..LastReplayDay /\ u \in Share /\ price \in Nat /\ c.held[u]
    /\ cc = [c EXCEPT !.cash = @ + price - Fee10(price), !.held[u] = FALSE, !.cost[u] = 0,
                      !.pnl = pnl + price - Fee10(price) - c.cost[u], !.pnlDay = d]
    /\ o \in ReplayOrder /\ o = [symbol |-> u, side |-> "SELL", price |-> price, fee |-> Fee10(price)]

LEMMA AfterBuy ==
    ASSUME NEW c, NEW b, NEW gained, NEW pnl, NEW u, NEW price, NEW cc, NEW o, Buys(c, b, gained, pnl, u, price, cc, o)
    PROVE  /\ cc \in ReplayClient /\ Agrees(cc, FromOrders(b, o), gained, pnl)
           /\ cc.pnl = c.pnl /\ cc.pnlDay = c.pnlDay
<1>00. /\ c \in ReplayClient /\ b \in ReplayBook /\ gained \in Int /\ pnl \in Int /\ Agrees(c, b, gained, pnl)
       /\ u \in Share /\ price \in Nat /\ ~c.held[u] /\ c.cash >= price + Fee10(price) /\ o \in ReplayOrder
       /\ cc = [c EXCEPT !.cash = @ - price - Fee10(price), !.held[u] = TRUE, !.cost[u] = price + Fee10(price)]
       /\ o = [symbol |-> u, side |-> "BUY", price |-> price, fee |-> Fee10(price)]
  BY Zenon DEF Buys
<1> USE <1>00
<1>0. Fee10(price) \in Nat
  BY FeeOfPrice
<1>1. /\ c.cash \in Nat /\ c.held \in [Share -> BOOLEAN] /\ c.cost \in [Share -> Nat]
      /\ c.pnl \in Int /\ c.pnlDay \in 0..LastReplayDay
  BY DEF ReplayClient
<1>2. cc = [cash |-> c.cash - price - Fee10(price), held |-> [c.held EXCEPT ![u] = TRUE],
            cost |-> [c.cost EXCEPT ![u] = price + Fee10(price)], pnl |-> c.pnl, pnlDay |-> c.pnlDay]
  BY DEF ReplayClient
<1>3. c.cash - price - Fee10(price) \in Nat
  BY <1>0, <1>1
<1>4. cc.held \in [Share -> BOOLEAN] /\ cc.cost \in [Share -> Nat]
  BY <1>0, <1>1, <1>2
<1>5. cc \in ReplayClient
  BY <1>1, <1>2, <1>3, <1>4 DEF ReplayClient
<1>6. c.cost[u] = 0 /\ cc.cost[u] = price + Fee10(price) /\ \A s \in Share \ {u} : c.cost[s] = cc.cost[s]
  BY <1>1, <1>2 DEF Agrees
<1>7. c.cost \in [Share -> Int] /\ cc.cost \in [Share -> Int] /\ IsFiniteSet(Share)
  BY <1>1, <1>4, ReplayConstants
<1>8. SumOver(cc.cost, Share) = SumOver(c.cost, Share) + cc.cost[u] - c.cost[u] /\ SumOver(c.cost, Share) \in Int
  <2>1. PICK v, w : v = c.cost /\ w = cc.cost
    OBVIOUS
  <2>2. v \in [Share -> Int] /\ w \in [Share -> Int] /\ \A s \in Share \ {u} : v[s] = w[s]
    BY <1>6, <1>7, <2>1
  <2>3. SumOver(w, Share) = SumOver(v, Share) + w[u] - v[u] /\ SumOver(v, Share) \in Int
    BY <1>7, <2>2, SumDiffers, SumType
  <2>4. QED
    BY <2>1, <2>3
<1>9. cc.cash + SumOver(cc.cost, Share) = REPLAY_CASH + gained + pnl
  <2>1. cc.cash = c.cash - price - Fee10(price)
    BY <1>2
  <2>2. c.cash + SumOver(c.cost, Share) = REPLAY_CASH + gained + pnl
    BY DEF Agrees
  <2>3. SumOver(cc.cost, Share) = SumOver(c.cost, Share) + (price + Fee10(price))
    BY <1>0, <1>6, <1>8
  <2>4. QED
    BY <1>0, <1>1, <1>8, <2>1, <2>2, <2>3
<1>10. o.symbol = u /\ o.side = "BUY" /\ o.price = price /\ o.fee = Fee10(price)
  OBVIOUS
<1>11. PICK d : d = FromOrders(b, o)
  OBVIOUS
<1>12. /\ d.pnl = b.pnl /\ d.open = b.open \cup {u} /\ d.cost[u] = price + Fee10(price)
       /\ \A s \in Share \ {u} : d.cost[s] = b.cost[s]
  BY <1>10, <1>11, OrderOnBook
<1>13. d.open = {s \in Share : cc.held[s]}
  <2>1. b.open = {s \in Share : c.held[s]}
    BY DEF Agrees
  <2>2. \A s \in Share : cc.held[s] <=> (s = u \/ c.held[s])
    BY <1>1, <1>2
  <2>3. QED
    BY <1>12, <2>1, <2>2
<1>14. ASSUME NEW s \in Share PROVE (cc.held[s] => d.cost[s] = cc.cost[s]) /\ (~cc.held[s] => cc.cost[s] = 0)
  <2>1. (c.held[s] => b.cost[s] = c.cost[s]) /\ (~c.held[s] => c.cost[s] = 0)
    BY DEF Agrees
  <2>2. CASE s = u
    <3>1. cc.held[s]
      BY <1>1, <1>2, <2>2
    <3>2. QED
      BY <1>6, <1>12, <2>2, <3>1
  <2>3. CASE s # u
    <3>1. cc.held[s] = c.held[s] /\ cc.cost[s] = c.cost[s]
      BY <1>1, <1>2, <2>3
    <3>2. QED
      BY <1>12, <2>1, <2>3, <3>1
  <2>4. QED
    BY <2>2, <2>3
<1>15. d.pnl = pnl
  BY <1>12 DEF Agrees
<1>16. Agrees(cc, d, gained, pnl)
  BY <1>9, <1>13, <1>14, <1>15 DEF Agrees
<1>17. QED
  BY <1>2, <1>5, <1>11, <1>16

LEMMA AfterSell ==
    ASSUME NEW c, NEW b, NEW gained, NEW pnl, NEW d, NEW u, NEW price, NEW cc, NEW o,
           Sells(c, b, gained, pnl, d, u, price, cc, o)
    PROVE  /\ cc \in ReplayClient /\ cc.pnlDay = d
           /\ Agrees(cc, FromOrders(b, o), gained, cc.pnl)
<1>00. /\ c \in ReplayClient /\ b \in ReplayBook /\ gained \in Int /\ pnl \in Int /\ Agrees(c, b, gained, pnl)
       /\ d \in 0..LastReplayDay /\ u \in Share /\ price \in Nat /\ c.held[u] /\ o \in ReplayOrder
       /\ cc = [c EXCEPT !.cash = @ + price - Fee10(price), !.held[u] = FALSE, !.cost[u] = 0,
                         !.pnl = pnl + price - Fee10(price) - c.cost[u], !.pnlDay = d]
       /\ o = [symbol |-> u, side |-> "SELL", price |-> price, fee |-> Fee10(price)]
  BY Zenon DEF Sells
<1> USE <1>00
<1>0. Fee10(price) \in Nat /\ Fee10(price) <= price
  BY FeeOfPrice
<1>1. /\ c.cash \in Nat /\ c.held \in [Share -> BOOLEAN] /\ c.cost \in [Share -> Nat] /\ c.cost[u] \in Nat
      /\ c.pnl \in Int /\ c.pnlDay \in 0..LastReplayDay
  BY DEF ReplayClient
<1>2. cc = [cash |-> c.cash + price - Fee10(price), held |-> [c.held EXCEPT ![u] = FALSE],
            cost |-> [c.cost EXCEPT ![u] = 0], pnl |-> pnl + price - Fee10(price) - c.cost[u], pnlDay |-> d]
  BY DEF ReplayClient
<1>3. c.cash + price - Fee10(price) \in Nat /\ pnl + price - Fee10(price) - c.cost[u] \in Int
  BY <1>0, <1>1
<1>4. cc.held \in [Share -> BOOLEAN] /\ cc.cost \in [Share -> Nat]
  BY <1>0, <1>1, <1>2
<1>5. cc \in ReplayClient
  BY <1>1, <1>2, <1>3, <1>4 DEF ReplayClient
<1>6. cc.cost[u] = 0 /\ \A s \in Share \ {u} : c.cost[s] = cc.cost[s]
  BY <1>1, <1>2
<1>7. c.cost \in [Share -> Int] /\ cc.cost \in [Share -> Int] /\ IsFiniteSet(Share)
  BY <1>1, <1>4, ReplayConstants
<1>8. SumOver(cc.cost, Share) = SumOver(c.cost, Share) + cc.cost[u] - c.cost[u] /\ SumOver(c.cost, Share) \in Int
  <2>1. PICK v, w : v = c.cost /\ w = cc.cost
    OBVIOUS
  <2>2. v \in [Share -> Int] /\ w \in [Share -> Int] /\ \A s \in Share \ {u} : v[s] = w[s]
    BY <1>6, <1>7, <2>1
  <2>3. SumOver(w, Share) = SumOver(v, Share) + w[u] - v[u] /\ SumOver(v, Share) \in Int
    BY <1>7, <2>2, SumDiffers, SumType
  <2>4. QED
    BY <2>1, <2>3
<1>9. cc.cash + SumOver(cc.cost, Share) = REPLAY_CASH + gained + cc.pnl
  <2>1. cc.cash = c.cash + price - Fee10(price) /\ cc.pnl = pnl + price - Fee10(price) - c.cost[u]
    BY <1>2
  <2>2. c.cash + SumOver(c.cost, Share) = REPLAY_CASH + gained + pnl
    BY DEF Agrees
  <2>3. SumOver(cc.cost, Share) = SumOver(c.cost, Share) - c.cost[u]
    BY <1>1, <1>6, <1>8
  <2>4. REPLAY_CASH \in Nat
    BY ReplayConstants
  <2>5. QED
    BY <1>0, <1>1, <1>8, <2>1, <2>2, <2>3, <2>4
<1>10. o.symbol = u /\ o.side = "SELL" /\ o.price = price /\ o.fee = Fee10(price)
  OBVIOUS
<1>11. PICK e : e = FromOrders(b, o)
  OBVIOUS
<1>12. /\ e.pnl = b.pnl + price - Fee10(price) - b.cost[u] /\ e.open = b.open \ {u} /\ e.cost = b.cost
  BY <1>10, <1>11, OrderOnBook
<1>13. e.open = {s \in Share : cc.held[s]}
  <2>1. b.open = {s \in Share : c.held[s]}
    BY DEF Agrees
  <2>2. \A s \in Share : cc.held[s] <=> (s # u /\ c.held[s])
    BY <1>1, <1>2
  <2>3. QED
    BY <1>12, <2>1, <2>2
<1>14. ASSUME NEW s \in Share PROVE (cc.held[s] => e.cost[s] = cc.cost[s]) /\ (~cc.held[s] => cc.cost[s] = 0)
  <2>1. (c.held[s] => b.cost[s] = c.cost[s]) /\ (~c.held[s] => c.cost[s] = 0)
    BY DEF Agrees
  <2>2. CASE s = u
    <3>1. ~cc.held[s]
      BY <1>1, <1>2, <2>2
    <3>2. QED
      BY <1>6, <2>2, <3>1
  <2>3. CASE s # u
    <3>1. cc.held[s] = c.held[s] /\ cc.cost[s] = c.cost[s]
      BY <1>1, <1>2, <2>3
    <3>2. QED
      BY <1>12, <2>1, <2>3, <3>1
  <2>4. QED
    BY <2>2, <2>3
<1>15. e.pnl = cc.pnl
  <2>1. b.pnl = pnl /\ b.cost[u] = c.cost[u]
    BY DEF Agrees
  <2>2. QED
    BY <1>2, <1>12, <2>1
<1>16. Agrees(cc, e, gained, cc.pnl)
  BY <1>9, <1>13, <1>14, <1>15 DEF Agrees
<1>17. QED
  BY <1>2, <1>5, <1>11, <1>16

ReplayRest ==
    /\ listedOn \in [ReplayDay -> SUBSET Share] /\ sessions \in [ReplayDay \X Share -> [1..LastReplayMinute -> Nat]]
    /\ firstDaily \in [Share -> Int]
    /\ replayAt \in {"discover", "day", "loop", "check", "over", "raised"}
    /\ moment \in 0..(LastReplayMinute + 1) /\ replayDay \in 0..LastReplayDay /\ toLookAt \subseteq Share
    /\ client \in ReplayClient /\ orders \in Seq(ReplayOrder)
    /\ cumulative \in Int /\ independent = cumulative /\ replayKilled \in BOOLEAN
    /\ client.pnlDay <= replayDay
    /\ (replayAt \in {"loop", "check"} => replayDay # 0 /\ moment # 0)

DaysKnown ==
    /\ targets \subseteq ReplayDay
    /\ replayAt # "discover" => /\ targets = {d \in ReplayDay : Replayable(d)}
                                /\ skipped = {<<d, SkipReason(d)>> : d \in ReplayDay \ targets}

\* Between the days the money is what was gained; within one, the book of its orders agrees with
\* the account.
MoneyKept ==
    /\ replayAt \in {"discover", "day", "over"} =>
           /\ cumulative = client.cash - REPLAY_CASH
           /\ \A s \in Share : ~client.held[s] /\ client.cost[s] = 0
    /\ replayAt \in {"loop", "check"} => Agrees(client, BookOf(orders), cumulative, DayPnl(replayDay))

\* What is held was bought today, so it has a bar of today.
HeldQuoted ==
    replayAt = "loop" => \A s \in Share : client.held[s] =>
        \E i \in 1..LastReplayMinute : i <= moment /\ sessions[<<replayDay, s>>][i] # 0

RaisedForCause ==
    /\ RaisesForCause
    /\ replayAt = "check" /\ (\E s \in Share : client.held[s]) => replayKilled

ReplayIInv == ReplayRest /\ DaysKnown /\ MoneyKept /\ HeldQuoted /\ RaisedForCause /\ NoFutureQuote

LEMMA ReplayInitially == ReplayInit => ReplayIInv
<1> SUFFICES ASSUME ReplayInit PROVE ReplayIInv
  OBVIOUS
<1>1. /\ listedOn \in [ReplayDay -> SUBSET Share]
      /\ sessions \in [ReplayDay \X Share -> [1..LastReplayMinute -> Nat]] /\ firstDaily \in [Share -> Int]
  <2>1. listedOn \in Listings /\ sessions \in [ReplayDay \X Share -> DaySessions]
        /\ firstDaily \in [Share -> {0, 2 - SHORTEST_HISTORY}]
    BY DEF ReplayInit
  <2>2. DaySessions \subseteq [1..LastReplayMinute -> Nat] /\ {0, 2 - SHORTEST_HISTORY} \subseteq Int
    BY ReplayConstants
  <2>3. QED
    BY <2>1, <2>2, ReplayConstants
<1>2. /\ replayAt = "discover" /\ replayDay = 0 /\ moment = 0 /\ toLookAt = {} /\ targets = {} /\ orders = <<>>
      /\ cumulative = 0 /\ independent = 0 /\ replayKilled = FALSE /\ quotedAt = {}
      /\ client = [cash |-> REPLAY_CASH, held |-> [s \in Share |-> FALSE], cost |-> [s \in Share |-> 0],
                   pnl |-> 0, pnlDay |-> 0]
  BY DEF ReplayInit
<1>3. client \in ReplayClient /\ orders \in Seq(ReplayOrder)
  <2>1. 0 \in 0..LastReplayDay /\ REPLAY_CASH \in Nat
    BY ReplayConstants
  <2>2. QED
    BY <1>2, <2>1 DEF ReplayClient
<1>4. ReplayRest
  <2>1. 0 \in 0..(LastReplayMinute + 1) /\ 0 \in 0..LastReplayDay /\ 0 <= 0
    BY ReplayConstants
  <2>2. client.pnlDay = 0 /\ replayKilled \in BOOLEAN
    BY <1>2
  <2>3. QED
    BY <1>1, <1>2, <1>3, <2>1, <2>2 DEF ReplayRest
<1>5. MoneyKept
  <2>1. REPLAY_CASH \in Nat
    BY ReplayConstants
  <2>2. client.cash = REPLAY_CASH /\ \A s \in Share : ~client.held[s] /\ client.cost[s] = 0
    BY <1>2
  <2>3. QED
    BY <1>2, <2>1, <2>2 DEF MoneyKept
<1>6. DaysKnown /\ HeldQuoted /\ RaisedForCause /\ NoFutureQuote
  BY <1>2 DEF DaysKnown, HeldQuoted, RaisedForCause, RaisesForCause, NoFutureQuote
<1>7. QED
  BY <1>4, <1>5, <1>6 DEF ReplayIInv

\* What the files say, while nobody touches them.
LEMMA FilesSay ==
    ASSUME UNCHANGED fileVars
    PROVE  /\ \A d : Ticks(d)' = Ticks(d) /\ Replayable(d)' = Replayable(d) /\ SkipReason(d)' = SkipReason(d)
           /\ \A days : TooShort(days)' = TooShort(days)
<1> USE DEF fileVars
<1>1. \A d : Ticks(d)' = Ticks(d)
  BY DEF Ticks
<1>2. \A d : Replayable(d)' = Replayable(d) /\ SkipReason(d)' = SkipReason(d)
  BY <1>1 DEF Replayable, SkipReason
<1>3. \A t, d : DailyBefore(t, d)' = DailyBefore(t, d)
  BY DEF DailyBefore
<1>4. ASSUME NEW days PROVE TooShort(days)' = TooShort(days)
  BY <1>3 DEF TooShort
<1>5. QED
  BY <1>1, <1>2, <1>4

\* A step that keeps the days and the files.
LEMMA DaysStay ==
    ASSUME DaysKnown, UNCHANGED fileVars, UNCHANGED <<targets, skipped>>, replayAt # "discover"
    PROVE  DaysKnown'
<1>1. {d \in ReplayDay : Replayable(d)'} = {d \in ReplayDay : Replayable(d)}
  BY FilesSay
<1>2. {<<d, SkipReason(d)'>> : d \in ReplayDay \ targets} = {<<d, SkipReason(d)>> : d \in ReplayDay \ targets}
  BY FilesSay
<1>3. QED
  BY <1>1, <1>2 DEF DaysKnown

LEMMA DiscoverKeeps == ASSUME ReplayIInv, Discover PROVE ReplayIInv'
<1> USE DEF Discover
<1>1. /\ UNCHANGED fileVars /\ replayAt = "discover" /\ replayAt' \in {"raised", "day"}
      /\ UNCHANGED <<replayDay, moment, toLookAt, client, orders, cumulative, independent, replayKilled, quotedAt>>
      /\ targets' = {d \in ReplayDay : Replayable(d)}
      /\ skipped' = {<<d, SkipReason(d)>> : d \in ReplayDay \ targets'}
      /\ (replayAt' = "raised" => targets' = {} \/ TooShort(targets'))
  OBVIOUS
<1>2. ReplayRest'
  BY <1>1 DEF ReplayIInv, ReplayRest, fileVars
<1>3. DaysKnown'
  <2>1. {d \in ReplayDay : Replayable(d)'} = {d \in ReplayDay : Replayable(d)}
    BY <1>1, FilesSay
  <2>2. {<<d, SkipReason(d)'>> : d \in ReplayDay \ targets'} = {<<d, SkipReason(d)>> : d \in ReplayDay \ targets'}
    BY <1>1, FilesSay
  <2>3. QED
    BY <1>1, <2>1, <2>2 DEF DaysKnown
<1>4. MoneyKept'
  BY <1>1 DEF ReplayIInv, MoneyKept
<1>5. HeldQuoted' /\ NoFutureQuote'
  BY <1>1 DEF ReplayIInv, HeldQuoted, NoFutureQuote, fileVars
<1>6. RaisedForCause'
  <2>1. replayAt' = "raised" => targets' = {} \/ TooShort(targets)'
    <3>1. PICK days : days = targets'
      OBVIOUS
    <3>2. TooShort(targets)' = TooShort(days)'
      BY <3>1 DEF TooShort
    <3>3. TooShort(days)' = TooShort(days)
      BY <1>1, FilesSay
    <3>4. QED
      BY <1>1, <3>1, <3>2, <3>3
  <2>2. QED
    BY <1>1, <2>1 DEF RaisedForCause, RaisesForCause
<1>7. QED
  BY <1>2, <1>3, <1>4, <1>5, <1>6 DEF ReplayIInv

\* The daily bars of a day end before it.
LEMMA DailyEndsBefore ==
    ASSUME ReplayRest, NEW t \in Share, NEW d \in ReplayDay
    PROVE  Max(DailyBefore(t, d) \cup {0}) < d
<1> DEFINE S == DailyBefore(t, d) \cup {0}
           T == S \cap (0..LastReplayDay)
<1>1. firstDaily[t] \in Int /\ LastReplayDay \in Nat /\ d \in 1..LastReplayDay
  BY ReplayConstants DEF ReplayRest, ReplayDay
<1>2. \A b \in S : b \in Int /\ b < d
  BY <1>1 DEF DailyBefore
<1>3. 0 \in T
  BY <1>1
<1>4. Max(T) \in T /\ \A i \in T : Max(T) >= i
  <2>1. PICK U : U = T
    OBVIOUS
  <2>2. U \in SUBSET (0..LastReplayDay) /\ U # {}
    BY <1>3, <2>1
  <2>3. Max(U) \in U /\ \A i \in U : Max(U) >= i
    BY <1>1, <2>2, Largest
  <2>4. QED
    BY <2>1, <2>3
<1>5. ASSUME NEW i \in S PROVE Max(T) >= i
  <2>1. CASE i \in 0..LastReplayDay
    BY <1>4, <1>5, <2>1
  <2>2. CASE i \notin 0..LastReplayDay
    <3>1. i \in Int /\ i < d
      BY <1>2
    <3>2. i < 0
      BY <1>1, <2>2, <3>1
    <3>3. Max(T) \in Nat
      BY <1>1, <1>4
    <3>4. QED
      BY <3>1, <3>2, <3>3
  <2>3. QED
    BY <2>1, <2>2
<1>6. \E k \in S : \A i \in S : k >= i
  BY <1>4, <1>5
<1>7. Max(S) \in S
  <2> HIDE DEF S, T
  <2> QED
    BY <1>6, Zenon DEF Max
<1>8. QED
  BY <1>2, <1>7

\* The next tick of a day is later than now, or the day is over.
LEMMA NextTickLater ==
    ASSUME NEW d, NEW m \in 0..(LastReplayMinute + 1)
    PROVE  /\ NextTick(d, m) \in 1..(LastReplayMinute + 1) /\ m <= NextTick(d, m)
<1> DEFINE later == {i \in Ticks(d) : i > m}
<1>1. later \in SUBSET (1..LastReplayMinute) /\ later \in SUBSET Nat /\ LastReplayMinute \in Nat
  BY ReplayConstants DEF Ticks
<1>2. NextTick(d, m) = IF later = {} THEN LastReplayMinute + 1 ELSE Min(later)
  BY DEF NextTick
<1>3. CASE later = {}
  <2>1. NextTick(d, m) = LastReplayMinute + 1
    BY <1>2, <1>3
  <2>2. QED
    BY <1>1, <2>1
<1>4. CASE later # {}
  <2>1. PICK U : U = later
    OBVIOUS
  <2>2. Min(U) \in U
    BY <1>1, <1>4, <2>1, Smallest
  <2>3. NextTick(d, m) \in later
    BY <1>2, <1>4, <2>1, <2>2
  <2>4. NextTick(d, m) \in 1..LastReplayMinute /\ NextTick(d, m) > m
    BY <1>1, <2>3
  <2>5. QED
    BY <1>1, <2>4
<1>5. QED
  BY <1>3, <1>4

LEMMA StartDayKeeps == ASSUME ReplayIInv, StartDay PROVE ReplayIInv'
<1> USE DEF StartDay
<1>1. /\ replayAt = "day" /\ UNCHANGED fileVars
      /\ UNCHANGED <<targets, skipped, client, cumulative, independent>>
  OBVIOUS
<1>2. DaysKnown'
  BY <1>1, DaysStay DEF ReplayIInv
<1>3. PICK left : left = {d \in targets : d > replayDay}
  OBVIOUS
<1>4. CASE left = {}
  <2>1. replayAt' = "over" /\ UNCHANGED <<replayDay, moment, toLookAt, orders, replayKilled, quotedAt>>
    BY <1>3, <1>4
  <2>2. ReplayRest'
    BY <1>1, <2>1 DEF ReplayIInv, ReplayRest, fileVars
  <2>3. MoneyKept' /\ HeldQuoted' /\ RaisedForCause'
    BY <1>1, <2>1 DEF ReplayIInv, MoneyKept, HeldQuoted, RaisedForCause, RaisesForCause
  <2>4. NoFutureQuote'
    BY <1>1, <2>1 DEF ReplayIInv, NoFutureQuote, fileVars
  <2>5. QED
    BY <1>2, <2>2, <2>3, <2>4 DEF ReplayIInv
<1>5. CASE left # {}
  <2>1. PICK d : d = Min(left)
    OBVIOUS
  <2>2. left \in SUBSET Nat /\ left \subseteq ReplayDay
    BY <1>3, ReplayConstants DEF ReplayIInv, DaysKnown, ReplayDay
  <2>3. d \in left
    BY <1>5, <2>1, <2>2, Smallest
  <2>4. d \in ReplayDay /\ d > replayDay
    BY <1>3, <2>2, <2>3
  <2>5. /\ replayDay' = d /\ orders' = <<>> /\ replayKilled' = FALSE
        /\ moment' = NextTick(d, 0) /\ toLookAt' = listedOn[d]
        /\ quotedAt' = quotedAt \cup {[day |-> d, moment |-> 0, symbol |-> s,
                                       price |-> Max(DailyBefore(s, d) \cup {0})] : s \in listedOn[d]}
        /\ replayAt' = IF \E s \in Share : client.held[s] THEN "raised" ELSE "loop"
    BY <1>3, <1>5, <2>1
  <2>6. \A s \in Share : ~client.held[s] /\ client.cost[s] = 0
    BY <1>1 DEF ReplayIInv, MoneyKept
  <2>7. replayAt' = "loop"
    BY <2>5, <2>6
  <2>8. /\ replayDay \in 0..LastReplayDay /\ LastReplayDay \in Nat /\ client \in ReplayClient
        /\ client.pnlDay <= replayDay /\ listedOn[d] \subseteq Share
    BY <2>4, ReplayConstants DEF ReplayIInv, ReplayRest
  <2>9. d \in 0..LastReplayDay /\ d # 0 /\ client.pnlDay \in 0..LastReplayDay /\ client.pnlDay < d
    BY <2>4, <2>8 DEF ReplayDay, ReplayClient
  <2>10. moment' \in 0..(LastReplayMinute + 1) /\ moment' # 0
    <3>1. 0 \in 0..(LastReplayMinute + 1)
      BY ReplayConstants
    <3>2. NextTick(d, 0) \in 1..(LastReplayMinute + 1)
      BY <3>1, NextTickLater
    <3>3. QED
      BY <2>5, <3>2, ReplayConstants
  <2>11. ReplayRest'
    <3>1. orders' \in Seq(ReplayOrder)
      BY <2>5, SMT
    <3>4. replayKilled' \in BOOLEAN
      BY <2>5, Zenon
    <3>2. client'.pnlDay <= replayDay'
      BY <1>1, <2>5, <2>9
    <3>3. QED
      BY <1>1, <2>5, <2>7, <2>8, <2>9, <2>10, <3>1, <3>2, <3>4 DEF ReplayIInv, ReplayRest, fileVars
  <2>12. MoneyKept'
    <3>1. BookOf(<<>>) = EmptyBook
      BY BookGoesOn
    <3>2. DayPnl(replayDay)' = 0
      BY <1>1, <2>5, <2>9 DEF DayPnl
    <3>3. SumOver(client.cost, Share) = 0
      <4>1. client.cost = [s \in Share |-> 0]
        BY <2>6, <2>8 DEF ReplayClient
      <4>2. QED
        BY <4>1, ReplayConstants, SumOfNothing
    <3>4. client.cash \in Nat /\ REPLAY_CASH \in Nat /\ cumulative = client.cash - REPLAY_CASH
      BY <1>1, <2>8, ReplayConstants DEF ReplayIInv, MoneyKept, ReplayClient
    <3>5. client.cash + 0 = REPLAY_CASH + cumulative + 0
      BY <3>4
    <3>6. EmptyBook.pnl = 0 /\ EmptyBook.open = {s \in Share : client.held[s]}
      BY <2>6 DEF EmptyBook
    <3>7. Agrees(client, EmptyBook, cumulative, 0)
      BY <2>6, <3>3, <3>5, <3>6 DEF Agrees
    <3>8. PICK b, n : b = BookOf(orders)' /\ n = DayPnl(replayDay)'
      OBVIOUS
    <3>9. b = EmptyBook /\ n = 0
      BY <2>5, <3>1, <3>2, <3>8
    <3>10. Agrees(client', b, cumulative', n)
      BY <1>1, <3>7, <3>9
    <3>11. QED
      BY <2>7, <3>8, <3>10 DEF MoneyKept
  <2>13. HeldQuoted' /\ RaisedForCause'
    BY <1>1, <2>6, <2>7 DEF HeldQuoted, RaisedForCause, RaisesForCause
  <2>14. NoFutureQuote'
    <3>1. UNCHANGED <<listedOn, sessions, firstDaily>>
      BY <1>1 DEF fileVars
    <3>2. ASSUME NEW q \in quotedAt'
          PROVE  IF q.moment = 0 THEN q.price < q.day
                 ELSE \E m \in 1..LastReplayMinute : m <= q.moment /\ sessions[<<q.day, q.symbol>>][m] = q.price
      <4>1. CASE q \in quotedAt
        BY <4>1 DEF ReplayIInv, NoFutureQuote
      <4>2. CASE q \notin quotedAt
        <5>1. PICK t \in listedOn[d] : q = [day |-> d, moment |-> 0, symbol |-> t,
                                            price |-> Max(DailyBefore(t, d) \cup {0})]
          BY <2>5, <3>2, <4>2
        <5>2. Max(DailyBefore(t, d) \cup {0}) < d
          BY <2>4, <2>8, DailyEndsBefore DEF ReplayIInv
        <5>3. QED
          BY <5>1, <5>2
      <4>3. QED
        BY <4>1, <4>2
    <3>3. QED
      BY <3>1, <3>2 DEF NoFutureQuote
  <2>15. QED
    BY <1>2, <2>11, <2>12, <2>13, <2>14 DEF ReplayIInv
<1>6. QED
  BY <1>4, <1>5

\* The board of a symbol, when there is one, shows the price of a bar until now.
LEMMA BoardShows ==
    ASSUME ReplayRest, NEW d \in ReplayDay, NEW t \in Share, NEW m \in Nat, NEW price, price = BoardAt(d, t, m)
    PROVE  /\ price \in Nat
           /\ price # 0 => \E i \in 1..LastReplayMinute : i <= m /\ sessions[<<d, t>>][i] = price
           /\ (\E i \in 1..LastReplayMinute : i <= m /\ sessions[<<d, t>>][i] # 0) => price # 0
<1> DEFINE seen == {i \in 1..LastReplayMinute : i <= m /\ sessions[<<d, t>>][i] # 0}
<1>1. price = IF seen = {} THEN 0 ELSE sessions[<<d, t>>][Max(seen)]
  BY DEF BoardAt
<1>2. <<d, t>> \in ReplayDay \X Share
  OBVIOUS
<1>3. sessions[<<d, t>>] \in [1..LastReplayMinute -> Nat] /\ LastReplayMinute \in Nat
  BY <1>2, ReplayConstants DEF ReplayRest
<1>4. CASE seen = {}
  BY <1>1, <1>4
<1>5. CASE seen # {}
  <2>1. PICK U : U = seen
    OBVIOUS
  <2>2. U \in SUBSET (0..LastReplayMinute)
    BY <1>3, <2>1
  <2>3. Max(U) \in U
    BY <1>3, <1>5, <2>1, <2>2, Largest
  <2>4. Max(seen) \in 1..LastReplayMinute /\ Max(seen) <= m /\ sessions[<<d, t>>][Max(seen)] # 0
    BY <2>1, <2>3
  <2> HIDE DEF seen
  <2>5. price = sessions[<<d, t>>][Max(seen)]
    BY <1>1, <1>5
  <2>6. QED
    BY <1>3, <2>4, <2>5
<1>6. QED
  BY <1>4, <1>5

\* A quote of the day's own bars does not come from the future.
LEMMA QuoteNow ==
    ASSUME NoFutureQuote, UNCHANGED fileVars, NEW d, NEW m \in Nat, m # 0, NEW t, NEW price,
           \E i \in 1..LastReplayMinute : i <= m /\ sessions[<<d, t>>][i] = price,
           quotedAt' = quotedAt \cup {[day |-> d, moment |-> m, symbol |-> t, price |-> price]}
    PROVE  NoFutureQuote'
<1>1. sessions' = sessions
  BY DEF fileVars
<1>2. ASSUME NEW q \in quotedAt'
      PROVE  IF q.moment = 0 THEN q.price < q.day
             ELSE \E i \in 1..LastReplayMinute : i <= q.moment /\ sessions[<<q.day, q.symbol>>][i] = q.price
  <2>1. CASE q \in quotedAt
    BY <2>1 DEF NoFutureQuote
  <2>2. CASE q \notin quotedAt
    <3>1. q = [day |-> d, moment |-> m, symbol |-> t, price |-> price]
      BY <1>2, <2>2
    <3>2. q.moment = m /\ q.day = d /\ q.symbol = t /\ q.price = price
      BY <3>1
    <3>3. QED
      BY <3>2
  <2>3. QED
    BY <2>1, <2>2
<1>3. QED
  BY <1>1, <1>2 DEF NoFutureQuote

\* What is known in the loop.
LEMMA InTheLoop ==
    ASSUME ReplayIInv, replayAt = "loop"
    PROVE  /\ client \in ReplayClient /\ orders \in Seq(ReplayOrder) /\ BookOf(orders) \in ReplayBook
           /\ cumulative \in Int /\ DayPnl(replayDay) \in Int /\ replayDay \in ReplayDay
           /\ replayDay \in 0..LastReplayDay
           /\ moment \in Nat /\ moment # 0 /\ Agrees(client, BookOf(orders), cumulative, DayPnl(replayDay))
<1>1. /\ client \in ReplayClient /\ orders \in Seq(ReplayOrder) /\ cumulative \in Int
      /\ replayDay \in 0..LastReplayDay /\ replayDay # 0 /\ moment \in 0..(LastReplayMinute + 1) /\ moment # 0
  BY DEF ReplayIInv, ReplayRest
<1>2. replayDay \in ReplayDay /\ moment \in Nat
  BY <1>1, ReplayConstants DEF ReplayDay
<1>3. DayPnl(replayDay) \in Int
  BY <1>1 DEF DayPnl, ReplayClient
<1>4. BookOf(orders) \in ReplayBook
  BY <1>1, BookGoesOn
<1>5. Agrees(client, BookOf(orders), cumulative, DayPnl(replayDay))
  BY DEF ReplayIInv, MoneyKept
<1>6. QED
  BY <1>1, <1>2, <1>3, <1>4, <1>5

\* A sale keeps the account and the book of the day in step.
LEMMA SaleKeeps ==
    ASSUME ReplayIInv, replayAt = "loop", NEW t \in Share, client.held[t],
           NEW price \in Nat, client' = Sold(t, price), orders' = OrderNoted(t, "SELL", price),
           UNCHANGED <<cumulative, replayDay>>
    PROVE  /\ client' \in ReplayClient /\ orders' \in Seq(ReplayOrder) /\ client'.pnlDay = replayDay
           /\ client'.held = [client.held EXCEPT ![t] = FALSE]
           /\ Agrees(client, BookOf(orders), cumulative, DayPnl(replayDay))'
<1>1. PICK c, b, n, cc, o : /\ c = client /\ b = BookOf(orders) /\ n = DayPnl(replayDay) /\ cc = client'
                            /\ o = [symbol |-> t, side |-> "SELL", price |-> price, fee |-> Fee10(price)]
  OBVIOUS
<1>2. PICK gained, d : gained = cumulative /\ d = replayDay
  OBVIOUS
<1>3. /\ c \in ReplayClient /\ b \in ReplayBook /\ n \in Int /\ gained \in Int /\ d \in 0..LastReplayDay
      /\ Agrees(c, b, gained, n) /\ c.held[t] /\ orders \in Seq(ReplayOrder)
  BY <1>1, <1>2, InTheLoop
<1>4. cc = [c EXCEPT !.cash = @ + price - Fee10(price), !.held[t] = FALSE, !.cost[t] = 0,
                     !.pnl = n + price - Fee10(price) - c.cost[t], !.pnlDay = d]
  BY <1>1, <1>2, Zenon DEF Sold
<1>5. o \in ReplayOrder
  BY <1>1, FeeOfPrice DEF ReplayOrder
<1>13. Sells(c, b, gained, n, d, t, price, cc, o)
  BY <1>1, <1>3, <1>4, <1>5, Zenon DEF Sells
<1>6. cc \in ReplayClient /\ cc.pnlDay = d /\ Agrees(cc, FromOrders(b, o), gained, cc.pnl)
  BY <1>13, AfterSell
<1>7. orders' = Append(orders, o)
  BY <1>1 DEF OrderNoted
<1>8. orders' \in Seq(ReplayOrder) /\ BookOf(orders)' = FromOrders(b, o)
  <2>1. PICK q, qq : q = orders /\ qq = orders'
    OBVIOUS
  <2>2. qq = Append(q, o) /\ q \in Seq(ReplayOrder)
    BY <1>3, <1>7, <2>1
  <2>3. qq \in Seq(ReplayOrder) /\ BookOf(qq) = FromOrders(BookOf(q), o)
    BY <1>5, <2>2, BookGoesOn
  <2>4. QED
    BY <1>1, <2>1, <2>3
<1>9. DayPnl(replayDay)' = cc.pnl
  BY <1>1, <1>2, <1>6 DEF DayPnl
<1>10. Agrees(client, BookOf(orders), cumulative, DayPnl(replayDay))'
  <2>1. PICK bb, m : bb = BookOf(orders)' /\ m = DayPnl(replayDay)'
    OBVIOUS
  <2>2. Agrees(cc, bb, gained, m)
    BY <1>6, <1>8, <1>9, <2>1
  <2>3. Agrees(client', bb, cumulative', m)
    BY <1>1, <1>2, <2>2
  <2>4. QED
    BY <2>1, <2>3
<1>11. client'.held = [client.held EXCEPT ![t] = FALSE]
  BY <1>1, <1>3, <1>4 DEF ReplayClient
<1>12. QED
  BY <1>1, <1>2, <1>6, <1>8, <1>10, <1>11

\* So does a purchase.
LEMMA PurchaseKeeps ==
    ASSUME ReplayIInv, replayAt = "loop", NEW t \in Share, ~client.held[t],
           NEW price \in Nat, client.cash >= price + Fee10(price),
           client' = Bought(t, price), orders' = OrderNoted(t, "BUY", price),
           UNCHANGED <<cumulative, replayDay>>
    PROVE  /\ client' \in ReplayClient /\ orders' \in Seq(ReplayOrder) /\ client'.pnlDay = client.pnlDay
           /\ client'.held = [client.held EXCEPT ![t] = TRUE]
           /\ Agrees(client, BookOf(orders), cumulative, DayPnl(replayDay))'
<1>1. PICK c, b, n, cc, o : /\ c = client /\ b = BookOf(orders) /\ n = DayPnl(replayDay) /\ cc = client'
                            /\ o = [symbol |-> t, side |-> "BUY", price |-> price, fee |-> Fee10(price)]
  OBVIOUS
<1>2. PICK gained : gained = cumulative
  OBVIOUS
<1>3. /\ c \in ReplayClient /\ b \in ReplayBook /\ n \in Int /\ gained \in Int
      /\ Agrees(c, b, gained, n) /\ ~c.held[t] /\ orders \in Seq(ReplayOrder) /\ c.cash >= price + Fee10(price)
  BY <1>1, <1>2, InTheLoop
<1>4. cc = [c EXCEPT !.cash = @ - price - Fee10(price), !.held[t] = TRUE, !.cost[t] = price + Fee10(price)]
  BY <1>1, Zenon DEF Bought
<1>5. o \in ReplayOrder
  BY <1>1, FeeOfPrice DEF ReplayOrder
<1>6. Buys(c, b, gained, n, t, price, cc, o)
  BY <1>1, <1>3, <1>4, <1>5, Zenon DEF Buys
<1>7. cc \in ReplayClient /\ cc.pnl = c.pnl /\ cc.pnlDay = c.pnlDay /\ Agrees(cc, FromOrders(b, o), gained, n)
  BY <1>6, AfterBuy
<1>8. orders' = Append(orders, o)
  BY <1>1 DEF OrderNoted
<1>9. orders' \in Seq(ReplayOrder) /\ BookOf(orders)' = FromOrders(b, o)
  <2>1. PICK q, qq : q = orders /\ qq = orders'
    OBVIOUS
  <2>2. qq = Append(q, o) /\ q \in Seq(ReplayOrder)
    BY <1>3, <1>8, <2>1
  <2>3. qq \in Seq(ReplayOrder) /\ BookOf(qq) = FromOrders(BookOf(q), o)
    BY <1>5, <2>2, BookGoesOn
  <2>4. QED
    BY <1>1, <2>1, <2>3
<1>10. DayPnl(replayDay)' = n
  BY <1>1, <1>7 DEF DayPnl
<1>11. Agrees(client, BookOf(orders), cumulative, DayPnl(replayDay))'
  <2>1. PICK bb, m : bb = BookOf(orders)' /\ m = DayPnl(replayDay)'
    OBVIOUS
  <2>2. Agrees(cc, bb, gained, m)
    BY <1>7, <1>9, <1>10, <2>1
  <2>3. Agrees(client', bb, cumulative', m)
    BY <1>1, <1>2, <2>2
  <2>4. QED
    BY <2>1, <2>3
<1>12. client'.held = [client.held EXCEPT ![t] = TRUE]
  BY <1>1, <1>3, <1>4 DEF ReplayClient
<1>13. QED
  BY <1>1, <1>7, <1>9, <1>11, <1>12

\* What a step in the loop leaves as it was.
LoopGoesOn ==
    /\ UNCHANGED fileVars /\ UNCHANGED <<targets, skipped, replayAt, replayDay, moment, cumulative, independent, replayKilled>>

LEMMA LoopStepKeeps ==
    ASSUME ReplayIInv, replayAt = "loop", LoopGoesOn, toLookAt' \subseteq Share,
           client' \in ReplayClient, orders' \in Seq(ReplayOrder), client'.pnlDay <= replayDay,
           Agrees(client, BookOf(orders), cumulative, DayPnl(replayDay))', HeldQuoted', NoFutureQuote'
    PROVE  ReplayIInv'
<1> USE DEF LoopGoesOn
<1>1. ReplayRest'
  BY DEF ReplayIInv, ReplayRest, fileVars
<1>2. DaysKnown'
  BY DaysStay DEF ReplayIInv
<1>3. MoneyKept'
  BY DEF MoneyKept
<1>4. RaisedForCause'
  BY DEF RaisedForCause, RaisesForCause
<1>5. QED
  BY <1>1, <1>2, <1>3, <1>4 DEF ReplayIInv

LEMMA LookAtKeeps == ASSUME ReplayIInv, NEW t \in Share, LookAt(t) PROVE ReplayIInv'
<1>1. PICK price : price = BoardAt(replayDay, t, moment)
  OBVIOUS
<1>2. /\ replayAt = "loop" /\ toLookAt' = toLookAt \ {t} /\ LoopGoesOn
      /\ \/ UNCHANGED <<client, orders, quotedAt>>
         \/ /\ price # 0 /\ ~client.held[t] /\ client.cash >= price + Fee10(price)
            /\ client' = Bought(t, price) /\ orders' = OrderNoted(t, "BUY", price)
            /\ quotedAt' = quotedAt \cup {[day |-> replayDay, moment |-> moment, symbol |-> t, price |-> price]}
         \/ /\ price # 0 /\ client.held[t]
            /\ client' = Sold(t, price) /\ orders' = OrderNoted(t, "SELL", price)
            /\ quotedAt' = quotedAt \cup {[day |-> replayDay, moment |-> moment, symbol |-> t, price |-> price]}
  BY <1>1 DEF LookAt, LoopGoesOn
<1>3. /\ client \in ReplayClient /\ orders \in Seq(ReplayOrder) /\ replayDay \in ReplayDay /\ replayDay \in 0..LastReplayDay
      /\ moment \in Nat /\ moment # 0 /\ Agrees(client, BookOf(orders), cumulative, DayPnl(replayDay))
  BY <1>2, InTheLoop
<1>4. toLookAt' \subseteq Share
  BY <1>2 DEF ReplayIInv, ReplayRest
<1>5. ReplayRest /\ HeldQuoted /\ NoFutureQuote
  BY DEF ReplayIInv
<1>6. /\ UNCHANGED <<cumulative, replayDay, moment, sessions, replayAt>> /\ client.pnlDay <= replayDay
  BY <1>2, <1>5 DEF LoopGoesOn, fileVars, ReplayRest
<1>7. CASE UNCHANGED <<client, orders, quotedAt>>
  <2>1. HeldQuoted' /\ NoFutureQuote'
    BY <1>5, <1>6, <1>7 DEF HeldQuoted, NoFutureQuote
  <2>2. Agrees(client, BookOf(orders), cumulative, DayPnl(replayDay))'
    BY <1>3, <1>6, <1>7 DEF DayPnl, Agrees
  <2>3. QED
    BY <1>2, <1>3, <1>4, <1>6, <1>7, <2>1, <2>2, LoopStepKeeps
<1>8. ASSUME price # 0 PROVE price \in Nat /\ \E i \in 1..LastReplayMinute : i <= moment /\ sessions[<<replayDay, t>>][i] = price
  <2>1. PICK d, m : d = replayDay /\ m = moment
    OBVIOUS
  <2>2. price = BoardAt(d, t, m) /\ d \in ReplayDay /\ m \in Nat
    BY <1>1, <1>3, <2>1
  <2>3. price \in Nat /\ \E i \in 1..LastReplayMinute : i <= m /\ sessions[<<d, t>>][i] = price
    BY <1>5, <1>8, <2>2, BoardShows
  <2>4. QED
    BY <2>1, <2>3
<1>9. ASSUME price # 0,
             quotedAt' = quotedAt \cup {[day |-> replayDay, moment |-> moment, symbol |-> t, price |-> price]}
      PROVE  NoFutureQuote'
  <2>1. PICK d, m : d = replayDay /\ m = moment
    OBVIOUS
  <2>2. /\ m \in Nat /\ m # 0 /\ \E i \in 1..LastReplayMinute : i <= m /\ sessions[<<d, t>>][i] = price
        /\ quotedAt' = quotedAt \cup {[day |-> d, moment |-> m, symbol |-> t, price |-> price]}
    BY <1>3, <1>8, <1>9, <2>1
  <2>3. UNCHANGED fileVars
    BY <1>2 DEF LoopGoesOn
  <2>4. QED
    BY <1>5, <2>2, <2>3, QuoteNow
<1>10. CASE /\ price # 0 /\ ~client.held[t] /\ client.cash >= price + Fee10(price)
            /\ client' = Bought(t, price) /\ orders' = OrderNoted(t, "BUY", price)
            /\ quotedAt' = quotedAt \cup {[day |-> replayDay, moment |-> moment, symbol |-> t, price |-> price]}
  <2>1. /\ client' \in ReplayClient /\ orders' \in Seq(ReplayOrder) /\ client'.pnlDay = client.pnlDay
        /\ client'.held = [client.held EXCEPT ![t] = TRUE]
        /\ Agrees(client, BookOf(orders), cumulative, DayPnl(replayDay))'
    BY <1>2, <1>6, <1>8, <1>10, PurchaseKeeps
  <2>2. HeldQuoted'
    <3>1. ASSUME NEW s \in Share, client'.held[s]
          PROVE  \E i \in 1..LastReplayMinute : i <= moment /\ sessions[<<replayDay, s>>][i] # 0
      <4>1. CASE s = t
        BY <1>8, <1>10, <4>1
      <4>2. CASE s # t
        <5>1. client.held[s]
          BY <1>3, <2>1, <3>1, <4>2 DEF ReplayClient
        <5>2. QED
          BY <1>2, <1>5, <5>1 DEF HeldQuoted
      <4>3. QED
        BY <4>1, <4>2
    <3>2. QED
      BY <1>6, <3>1 DEF HeldQuoted
  <2>3. NoFutureQuote' /\ client'.pnlDay <= replayDay
    BY <1>6, <1>9, <1>10, <2>1
  <2>4. QED
    BY <1>2, <1>4, <2>1, <2>2, <2>3, LoopStepKeeps
<1>11. CASE /\ price # 0 /\ client.held[t]
            /\ client' = Sold(t, price) /\ orders' = OrderNoted(t, "SELL", price)
            /\ quotedAt' = quotedAt \cup {[day |-> replayDay, moment |-> moment, symbol |-> t, price |-> price]}
  <2>1. /\ client' \in ReplayClient /\ orders' \in Seq(ReplayOrder) /\ client'.pnlDay = replayDay
        /\ client'.held = [client.held EXCEPT ![t] = FALSE]
        /\ Agrees(client, BookOf(orders), cumulative, DayPnl(replayDay))'
    BY <1>2, <1>6, <1>8, <1>11, SaleKeeps
  <2>2. HeldQuoted'
    <3>1. \A s \in Share : client'.held[s] => client.held[s]
      BY <1>3, <2>1 DEF ReplayClient
    <3>2. QED
      BY <1>2, <1>5, <1>6, <3>1 DEF HeldQuoted
  <2>3. client'.pnlDay <= replayDay
    BY <1>3, <2>1, ReplayConstants
  <2>5. NoFutureQuote'
    BY <1>9, <1>11
  <2>4. QED
    BY <1>2, <1>4, <2>1, <2>2, <2>3, <2>5, LoopStepKeeps
<1>12. QED
  BY <1>2, <1>7, <1>10, <1>11

LEMMA SleepKeeps == ASSUME ReplayIInv, Sleep PROVE ReplayIInv'
<1>1. /\ replayAt = "loop" /\ UNCHANGED fileVars
      /\ UNCHANGED <<targets, skipped, replayAt, replayDay, client, orders, cumulative, independent, replayKilled, quotedAt>>
      /\ moment' = NextTick(replayDay, moment) /\ toLookAt' = listedOn[replayDay]
  BY DEF Sleep
<1>2. /\ replayDay \in ReplayDay /\ moment \in Nat
      /\ Agrees(client, BookOf(orders), cumulative, DayPnl(replayDay))
  BY <1>1, InTheLoop
<1>3. moment' \in 1..(LastReplayMinute + 1) /\ moment <= moment'
  <2>1. PICK d, m : d = replayDay /\ m = moment
    OBVIOUS
  <2>2. m \in 0..(LastReplayMinute + 1) /\ moment' = NextTick(d, m)
    BY <1>1, <2>1 DEF ReplayIInv, ReplayRest
  <2>3. QED
    BY <2>1, <2>2, NextTickLater
<1>4. moment' \in 0..(LastReplayMinute + 1) /\ moment' # 0 /\ moment' \in Nat
  BY <1>3, ReplayConstants
<1>5. ReplayRest'
  <2>1. toLookAt' \subseteq Share
    BY <1>1, <1>2 DEF ReplayIInv, ReplayRest
  <2>2. QED
    BY <1>1, <1>4, <2>1 DEF ReplayIInv, ReplayRest, fileVars
<1>6. DaysKnown'
  BY <1>1, DaysStay DEF ReplayIInv
<1>7. MoneyKept'
  BY <1>1, <1>2 DEF MoneyKept, DayPnl, Agrees
<1>8. HeldQuoted'
  <2>1. ASSUME NEW s \in Share, client'.held[s]
        PROVE  \E i \in 1..LastReplayMinute : i <= moment' /\ sessions[<<replayDay, s>>][i] # 0
    <3>1. PICK i \in 1..LastReplayMinute : i <= moment /\ sessions[<<replayDay, s>>][i] # 0
      BY <1>1, <2>1 DEF ReplayIInv, HeldQuoted
    <3>2. i <= moment'
      BY <1>2, <1>3, <1>4, <3>1, ReplayConstants
    <3>3. QED
      BY <3>1, <3>2
  <2>2. sessions' = sessions /\ replayDay' = replayDay
    BY <1>1 DEF fileVars
  <2>3. QED
    BY <2>1, <2>2 DEF HeldQuoted
<1>9. RaisedForCause' /\ NoFutureQuote'
  BY <1>1 DEF ReplayIInv, RaisedForCause, RaisesForCause, NoFutureQuote, fileVars
<1>10. QED
  BY <1>5, <1>6, <1>7, <1>8, <1>9 DEF ReplayIInv

LEMMA LiquidateAllKeeps == ASSUME ReplayIInv, LiquidateAll PROVE ReplayIInv'
<1>1. /\ replayAt = "loop" /\ UNCHANGED fileVars
      /\ UNCHANGED <<targets, skipped, replayDay, moment, toLookAt, cumulative, independent, replayKilled>>
  BY DEF LiquidateAll
<1>2. /\ client \in ReplayClient /\ orders \in Seq(ReplayOrder) /\ replayDay \in ReplayDay /\ replayDay \in 0..LastReplayDay
      /\ moment \in Nat /\ moment # 0 /\ Agrees(client, BookOf(orders), cumulative, DayPnl(replayDay))
  BY <1>1, InTheLoop
<1>3. CASE ~\E s \in Share : client.held[s]
  <2>1. replayAt' = "check" /\ UNCHANGED <<client, orders, quotedAt>>
    BY <1>3 DEF LiquidateAll
  <2>2. ReplayRest'
    BY <1>1, <2>1 DEF ReplayIInv, ReplayRest, fileVars
  <2>3. DaysKnown'
    BY <1>1, DaysStay DEF ReplayIInv
  <2>4. MoneyKept'
    BY <1>1, <1>2, <2>1 DEF MoneyKept, DayPnl, Agrees
  <2>5. HeldQuoted' /\ RaisedForCause' /\ NoFutureQuote'
    BY <1>1, <1>3, <2>1 DEF ReplayIInv, HeldQuoted, RaisedForCause, RaisesForCause, NoFutureQuote, fileVars
  <2>6. QED
    BY <2>2, <2>3, <2>4, <2>5 DEF ReplayIInv
<1>4. CASE \E s \in Share : client.held[s]
  <2>1. PICK t, price : t = (CHOOSE s \in Share : client.held[s]) /\ price = BoardAt(replayDay, t, moment)
    OBVIOUS
  <2>2. t \in Share /\ client.held[t]
    BY <1>4, <2>1
  <2>3. /\ client' = Sold(t, price) /\ orders' = OrderNoted(t, "SELL", price) /\ UNCHANGED replayAt
        /\ quotedAt' = quotedAt \cup {[day |-> replayDay, moment |-> moment, symbol |-> t, price |-> price]}
    BY <1>4, <2>1 DEF LiquidateAll
  <2>4. PICK d, m : d = replayDay /\ m = moment
    OBVIOUS
  <2>5. \E i \in 1..LastReplayMinute : i <= m /\ sessions[<<d, t>>][i] # 0
    BY <1>1, <2>2, <2>4 DEF ReplayIInv, HeldQuoted
  <2>6. price = BoardAt(d, t, m) /\ d \in ReplayDay /\ m \in Nat /\ m # 0
    BY <1>2, <2>1, <2>4
  <2>7. ReplayRest /\ NoFutureQuote
    BY DEF ReplayIInv
  <2>8. /\ price \in Nat /\ price # 0
        /\ \E i \in 1..LastReplayMinute : i <= m /\ sessions[<<d, t>>][i] = price
    BY <2>2, <2>5, <2>6, <2>7, BoardShows
  <2>9. quotedAt' = quotedAt \cup {[day |-> d, moment |-> m, symbol |-> t, price |-> price]}
    BY <2>3, <2>4
  <2>10. NoFutureQuote'
    BY <1>1, <2>6, <2>7, <2>8, <2>9, QuoteNow
  <2>11. /\ client' \in ReplayClient /\ orders' \in Seq(ReplayOrder) /\ client'.pnlDay = replayDay
         /\ client'.held = [client.held EXCEPT ![t] = FALSE]
         /\ Agrees(client, BookOf(orders), cumulative, DayPnl(replayDay))'
    BY <1>1, <2>2, <2>3, <2>8, SaleKeeps
  <2>12. HeldQuoted'
    <3>1. \A s \in Share : client'.held[s] => client.held[s]
      BY <1>2, <2>11 DEF ReplayClient
    <3>2. QED
      BY <1>1, <2>3, <3>1 DEF ReplayIInv, HeldQuoted, fileVars
  <2>13. client'.pnlDay <= replayDay /\ toLookAt' \subseteq Share
    BY <1>1, <1>2, <2>7, <2>11, ReplayConstants DEF ReplayRest
  <2>14. LoopGoesOn
    BY <1>1, <2>3 DEF LoopGoesOn
  <2>15. QED
    BY <1>1, <2>10, <2>11, <2>12, <2>13, <2>14, LoopStepKeeps
<1>5. QED
  BY <1>3, <1>4

LEMMA KillKeeps == ASSUME ReplayIInv, Kill PROVE ReplayIInv'
<1>1. /\ replayAt = "loop" /\ replayKilled' = TRUE /\ replayAt' = "check" /\ UNCHANGED fileVars
      /\ UNCHANGED <<targets, skipped, replayDay, moment, toLookAt, client, orders, cumulative, independent, quotedAt>>
  BY DEF Kill
<1>2. Agrees(client, BookOf(orders), cumulative, DayPnl(replayDay))
  BY <1>1, InTheLoop
<1>3. ReplayRest'
  <2>1. replayKilled' \in BOOLEAN
    BY <1>1, Zenon
  <2>2. QED
    BY <1>1, <2>1 DEF ReplayIInv, ReplayRest, fileVars
<1>4. DaysKnown'
  BY <1>1, DaysStay DEF ReplayIInv
<1>5. MoneyKept'
  BY <1>1, <1>2 DEF MoneyKept, DayPnl, Agrees
<1>6. HeldQuoted' /\ RaisedForCause' /\ NoFutureQuote'
  BY <1>1 DEF ReplayIInv, HeldQuoted, RaisedForCause, RaisesForCause, NoFutureQuote, fileVars
<1>7. QED
  BY <1>3, <1>4, <1>5, <1>6 DEF ReplayIInv

LEMMA CheckReplayedDayKeeps == ASSUME ReplayIInv, CheckReplayedDay PROVE ReplayIInv'
<1>1. /\ replayAt = "check" /\ UNCHANGED fileVars
      /\ UNCHANGED <<targets, skipped, replayDay, moment, toLookAt, orders, replayKilled, quotedAt>>
      /\ client' = [client EXCEPT !.pnl = DayPnl(replayDay), !.pnlDay = replayDay]
  BY DEF CheckReplayedDay
<1>2. PICK b, n : b = BookOf(orders) /\ n = DayPnl(replayDay)
  OBVIOUS
<1>3. Reconstructed = b
  BY <1>2 DEF Reconstructed, BookOf, EmptyBook
<1>4. Agrees(client, b, cumulative, n)
  BY <1>1, <1>2 DEF ReplayIInv, MoneyKept
<1>5. /\ client \in ReplayClient /\ cumulative \in Int /\ independent = cumulative
      /\ replayDay \in 0..LastReplayDay
  BY DEF ReplayIInv, ReplayRest
<1>6. n \in Int
  BY <1>2, <1>5 DEF DayPnl, ReplayClient
<1>7. /\ client' = [cash |-> client.cash, held |-> client.held, cost |-> client.cost, pnl |-> n, pnlDay |-> replayDay]
      /\ client.cash \in Nat /\ client.held \in [Share -> BOOLEAN] /\ client.cost \in [Share -> Nat]
  BY <1>1, <1>2, <1>5 DEF ReplayClient
<1>8. client' \in ReplayClient /\ client'.pnlDay = replayDay
  BY <1>5, <1>6, <1>7 DEF ReplayClient
<1>9. b.pnl = n /\ b.open = {s \in Share : client.held[s]}
  BY <1>4 DEF Agrees
<1>10. DaysKnown'
  BY <1>1, DaysStay DEF ReplayIInv
<1>11. replayDay <= replayDay
  BY <1>5, ReplayConstants
<1>12. NoFutureQuote'
  BY <1>1 DEF ReplayIInv, NoFutureQuote, fileVars
<1>13. CASE b.open # {}
  <2>1. replayAt' = "raised" /\ UNCHANGED <<cumulative, independent>>
    BY <1>3, <1>13 DEF CheckReplayedDay
  <2>2. ReplayRest'
    BY <1>1, <1>8, <1>11, <2>1 DEF ReplayIInv, ReplayRest, fileVars
  <2>3. MoneyKept' /\ HeldQuoted'
    BY <2>1 DEF MoneyKept, HeldQuoted
  <2>4. \E s \in Share : client.held[s]
    BY <1>9, <1>13
  <2>5. replayKilled' /\ \E s \in Share : client'.held[s]
    BY <1>1, <1>7, <2>4 DEF ReplayIInv, RaisedForCause
  <2>6. RaisedForCause'
    BY <2>1, <2>5 DEF RaisedForCause, RaisesForCause
  <2>7. QED
    BY <1>10, <1>12, <2>2, <2>3, <2>6 DEF ReplayIInv
<1>14. CASE b.open = {}
  <2>1. replayAt' = "day" /\ cumulative' = cumulative + n /\ independent' = independent + n
    BY <1>2, <1>3, <1>9, <1>14 DEF CheckReplayedDay
  <2>2. cumulative' \in Int /\ independent' = cumulative'
    BY <1>5, <1>6, <2>1
  <2>3. ReplayRest'
    BY <1>1, <1>8, <1>11, <2>1, <2>2 DEF ReplayIInv, ReplayRest, fileVars
  <2>4. \A s \in Share : ~client.held[s] /\ client.cost[s] = 0
    BY <1>4, <1>9, <1>14 DEF Agrees
  <2>5. SumOver(client.cost, Share) = 0
    <3>1. client.cost = [s \in Share |-> 0]
      BY <1>7, <2>4
    <3>2. QED
      BY <3>1, ReplayConstants, SumOfNothing
  <2>6. client.cash + 0 = REPLAY_CASH + cumulative + n
    BY <1>4, <2>5 DEF Agrees
  <2>7. cumulative' = client'.cash - REPLAY_CASH
    BY <1>5, <1>6, <1>7, <2>1, <2>6, ReplayConstants
  <2>8. \A s \in Share : ~client'.held[s] /\ client'.cost[s] = 0
    BY <1>7, <2>4
  <2>9. MoneyKept'
    BY <2>1, <2>7, <2>8 DEF MoneyKept
  <2>10. HeldQuoted' /\ RaisedForCause'
    BY <2>1 DEF HeldQuoted, RaisedForCause, RaisesForCause
  <2>11. QED
    BY <1>10, <1>12, <2>3, <2>9, <2>10 DEF ReplayIInv
<1>15. QED
  BY <1>13, <1>14

LEMMA ReplayInductive == ReplayIInv /\ [ReplayNext]_replayVars => ReplayIInv'
<1> SUFFICES ASSUME ReplayIInv, [ReplayNext]_replayVars PROVE ReplayIInv'
  OBVIOUS
<1>1. CASE ReplayNext
  BY <1>1, DiscoverKeeps, StartDayKeeps, SleepKeeps, LiquidateAllKeeps, KillKeeps, CheckReplayedDayKeeps, LookAtKeeps
  DEF ReplayNext
<1>2. CASE UNCHANGED replayVars
  <2> USE <1>2 DEF replayVars
  <2>1. UNCHANGED fileVars
    BY DEF fileVars
  <2>2. ReplayRest' /\ HeldQuoted'
    BY DEF ReplayIInv, ReplayRest, HeldQuoted
  <2>3. DaysKnown'
    <3>1. CASE replayAt = "discover"
      BY <3>1 DEF ReplayIInv, DaysKnown
    <3>2. CASE replayAt # "discover"
      BY <2>1, <3>2, DaysStay DEF ReplayIInv
    <3>3. QED
      BY <3>1, <3>2
  <2>4. MoneyKept' /\ NoFutureQuote'
    BY DEF ReplayIInv, MoneyKept, DayPnl, NoFutureQuote, Agrees
  <2>5. RaisedForCause'
    <3>1. TooShort(targets)' = TooShort(targets)
      BY DEF TooShort, DailyBefore
    <3>2. QED
      BY <3>1 DEF ReplayIInv, RaisedForCause, RaisesForCause
  <2>6. QED
    BY <2>2, <2>3, <2>4, <2>5 DEF ReplayIInv
<1>3. QED
  BY <1>1, <1>2

LEMMA ReplaySafe == ReplayIInv => ReplayTypeOK /\ ReplayedSound
<1> SUFFICES ASSUME ReplayIInv PROVE ReplayTypeOK /\ ReplayedSound
  OBVIOUS
<1> USE DEF ReplayIInv
<1>1. ReplayTypeOK
  BY DEF ReplayRest, DaysKnown, ReplayTypeOK, ReplayClient
<1>2. DaysAccounted
  <2> SUFFICES ASSUME replayAt # "discover" PROVE DaysAccounted
    BY DEF DaysAccounted
  <2>1. targets = {d \in ReplayDay : Replayable(d)} /\ skipped = {<<d, SkipReason(d)>> : d \in ReplayDay \ targets}
    BY DEF DaysKnown
  <2>2. ASSUME NEW d \in ReplayDay
        PROVE  d \in targets <=> \A r \in {q[2] : q \in skipped} : <<d, r>> \notin skipped
    <3>1. CASE d \in targets
      BY <2>1, <3>1
    <3>2. CASE d \notin targets
      <4>1. <<d, SkipReason(d)>> \in skipped
        BY <2>1, <3>2
      <4>2. <<d, SkipReason(d)>>[2] = SkipReason(d)
        OBVIOUS
      <4>3. SkipReason(d) \in {q[2] : q \in skipped}
        BY <4>1, <4>2
      <4>4. QED
        BY <3>2, <4>1, <4>3
    <3>3. QED
      BY <3>1, <3>2
  <2>3. ASSUME NEW d \in targets
        PROVE  \E s \in listedOn[d], m \in 1..LastReplayMinute : sessions[<<d, s>>][m] # 0
    <3>1. Ticks(d) # {}
      BY <2>1, <2>3 DEF Replayable
    <3>2. QED
      BY <3>1 DEF Ticks
  <2>4. QED
    BY <2>2, <2>3 DEF DaysAccounted
<1>3. MoneyReconciled
  BY DEF MoneyKept, ReplayRest, MoneyReconciled
<1>4. RaisesForCause /\ NoFutureQuote
  BY DEF RaisedForCause
<1>5. QED
  BY <1>1, <1>2, <1>3, <1>4 DEF ReplayedSound

\* Every past day is replayed or skipped for a reason, no order is filled at a price of the future,
\* the profits computed in two ways are the money gained, and the checks never accuse a sound day.
THEOREM AlwaysReplayedInOrder == ReplaySpec => [](ReplayTypeOK /\ ReplayedSound)
<1>1. ReplayInit => ReplayIInv
  BY ReplayInitially
<1>2. ReplayIInv /\ [ReplayNext]_replayVars => ReplayIInv'
  BY ReplayInductive
<1>3. ReplayIInv => ReplayTypeOK /\ ReplayedSound
  BY ReplaySafe
<1>4. QED
  BY <1>1, <1>2, <1>3, PTL DEF ReplaySpec

-----------------------------------------------------------------------------
(* The review of the strategy (HypothesisReview) *)

ReviewIdea == Hypothesis \cup {FreeText}
IdeaTitle == {h.title : h \in ReviewIdea}
IdeaId == {h.id : h \in ReviewIdea}
FindingStatus == {"judged", "unverifiable", "untested"}
FindingVerdict == {"supported", "rejected", "needs_data", "untested"}
CodeOutcome == {"not_requested", "succeeded", "failed", "generation_failed"}
Finding == [title : IdeaTitle, id : IdeaId, status : FindingStatus, verdict : FindingVerdict,
            needed : BOOLEAN, ran : CodeOutcome, found : BOOLEAN]
FeedbackItem == [title : IdeaTitle, id : IdeaId, status : FindingStatus, verdict : FindingVerdict]
FeedbackFile == [run : 0..MaxReviews, items : Seq(FeedbackItem)]

ReviewTypes ==
    /\ reviewsLeft \in 0..MaxReviews
    /\ mode \in {"pipeline", "deep_dive", "adhoc"}
    /\ reviewStep \in {"idle", "propose", "plan", "data", "code", "judge", "tell"}
    /\ report \in Seq(ReviewIdea) /\ queue \in Seq(ReviewIdea) /\ setAside \in Seq(ReviewIdea)
    /\ plan \in [internal : BOOLEAN, indices : BOOLEAN] /\ obtained \in BOOLEAN /\ executed \in CodeOutcome
    /\ findings \in Seq(Finding) /\ feedback \in Seq(FeedbackFile)
    /\ previous \in {Nothing} \cup [status : {"found"}, title : IdeaTitle, of : 0..MaxReviews]

\* What a run has in memory at each of its steps.
ReviewMemory ==
    /\ reviewStep \in {"idle", "propose"} =>
           queue = <<>> /\ setAside = <<>> /\ findings = <<>> /\ directories = {} /\ previous = Nothing
    /\ reviewStep \in {"data", "code", "judge"} => queue # <<>>
    /\ reviewStep = "tell" => queue = <<>> /\ setAside = <<>>

\* The feedback is of earlier runs, until that of this run is written.
FeedbackOfRuns ==
    /\ Len(feedback) <= Run /\ \A f \in Range(feedback) : f.run <= Run
    /\ reviewStep \in {"propose", "plan", "data", "code", "judge"} =>
           Len(feedback) < Run /\ \A f \in Range(feedback) : f.run < Run

\* What the language model was asked about has a directory; in a pipeline it is of high priority.
AskedOf ==
    /\ \A c \in costed : c[1] \in 0..Run /\ c[2] \in ReviewIdea
    /\ reviewStep # "idle" =>
           \A c \in costed : c[1] = Run => c[2].id \in directories /\ (mode = "pipeline" => c[2].high)
    /\ mode = "pipeline" => \A h \in Range(queue) : h.high

\* The hypothesis that is worked on is one of them.
CaseAsked ==
    reviewStep \in {"data", "code", "judge"} => \E c \in costed : c[1] = Run /\ c[2].id = Head(queue).id

\* A result says what it was: judged, left open or not worked on.
Consistent(result) ==
    /\ result.status = "judged" => result.verdict \in {"supported", "rejected", "needs_data"}
    /\ result.status = "unverifiable" => result.verdict = "needs_data"
    /\ result.status = "untested" => result.verdict = "untested"

OnData(result) ==
    result.status = "judged" /\ result.needed /\ result.ran # "succeeded" => result.found

FindingsWell ==
    /\ \A result \in Range(findings) : Consistent(result) /\ OnData(result)
    /\ reviewStep # "tell" =>
           \A result \in Range(findings) :
               /\ result.status # "untested"
               /\ \E c \in costed : c[1] = Run /\ c[2].id = result.id

FeedbackTrue ==
    \A f \in Range(feedback) : \A item \in Range(f.items) :
        /\ Consistent(item)
        /\ item.status = "untested" <=> \A c \in costed : c[1] = f.run => c[2].id # item.id

\* Nothing of the report gets lost on the way.
TitlesKept ==
    mode = "pipeline" /\ reviewStep \notin {"idle", "propose"} =>
        {e.title : e \in Range(findings) \cup Range(queue) \cup Range(setAside)} = {h.title : h \in Range(report)}

ReviewIInv ==
    /\ ReviewTypes /\ ReviewMemory /\ FeedbackOfRuns /\ AskedOf /\ CaseAsked
    /\ FindingsWell /\ FeedbackTrue /\ TitlesKept /\ PreviousOpen /\ CountsAdd

-----------------------------------------------------------------------------

LEMMA RunsCounted == MaxReviews \in Nat
  BY ReviewAssumption

LEMMA ReviewConstants ==
    /\ Hypothesis \subseteq ReviewIdea
    /\ \A proposal \in Proposals : proposal \in Seq(ReviewIdea)
    /\ \A h \in ReviewIdea : h.title \in IdeaTitle /\ h.id \in IdeaId /\ h.high \in BOOLEAN
<1>1. Hypothesis \subseteq ReviewIdea
  BY DEF ReviewIdea
<1>2. \A proposal \in Proposals : proposal \in Seq(ReviewIdea)
  BY <1>1, ReviewAssumption
<1>3. ASSUME NEW h \in ReviewIdea PROVE h.title \in IdeaTitle /\ h.id \in IdeaId /\ h.high \in BOOLEAN
  <2>1. h.high \in BOOLEAN
    <3>1. CASE h \in Hypothesis
      <4>1. h \in [title : {h.title}, id : {h.id}, high : BOOLEAN]
        BY <3>1, ReviewAssumption
      <4>2. QED
        BY <4>1
    <3>2. CASE h = FreeText
      BY <3>2 DEF FreeText
    <3>3. QED
      BY <3>1, <3>2 DEF ReviewIdea
  <2>2. QED
    BY <2>1 DEF IdeaTitle, IdeaId
<1>4. QED
  BY <1>1, <1>2, <1>3, ReviewAssumption

LEMMA EmptyRange == Range(<<>>) = {}
  BY DEF Range

LEMMA ReviewInitially == ReviewInit => ReviewIInv
<1> SUFFICES ASSUME ReviewInit PROVE ReviewIInv
  OBVIOUS
<1> USE DEF ReviewInit
<1>1. ReviewTypes
  <2>1. reviewsLeft \in 0..MaxReviews
    BY RunsCounted
  <2>2. plan \in [internal : BOOLEAN, indices : BOOLEAN] /\ executed \in CodeOutcome
    BY DEF NoPlan, CodeOutcome
  <2>3. previous \in {Nothing} \cup [status : {"found"}, title : IdeaTitle, of : 0..MaxReviews]
    OBVIOUS
  <2>4. /\ report \in Seq(ReviewIdea) /\ queue \in Seq(ReviewIdea) /\ setAside \in Seq(ReviewIdea)
        /\ findings \in Seq(Finding) /\ feedback \in Seq(FeedbackFile)
    OBVIOUS
  <2>5. /\ mode \in {"pipeline", "deep_dive", "adhoc"} /\ obtained \in BOOLEAN
        /\ reviewStep \in {"idle", "propose", "plan", "data", "code", "judge", "tell"}
    OBVIOUS
  <2> HIDE DEF ReviewInit
  <2>6. QED
    BY <2>1, <2>2, <2>3, <2>4, <2>5 DEF ReviewTypes
<1>2. ReviewMemory /\ FeedbackOfRuns /\ AskedOf
  BY EmptyRange, RunsCounted DEF ReviewMemory, FeedbackOfRuns, AskedOf, Run
<1>3. FindingsWell /\ FeedbackTrue /\ TitlesKept /\ CaseAsked
  BY EmptyRange DEF FindingsWell, FeedbackTrue, TitlesKept, CaseAsked
<1>4. PreviousOpen /\ CountsAdd
  BY DEF PreviousOpen, CountsAdd, Nothing, Quiet
<1>5. QED
  BY <1>1, <1>2, <1>3, <1>4 DEF ReviewIInv

\* The number of a run.
LEMMA RunNumber == ASSUME ReviewTypes PROVE Run \in 0..MaxReviews
  BY RunsCounted DEF ReviewTypes, Run

LEMMA StartReviewKeeps == ASSUME ReviewIInv, StartReview PROVE ReviewIInv'
<1> USE DEF StartReview, caseVars
<1>0. /\ ReviewTypes /\ ReviewMemory /\ FeedbackOfRuns /\ AskedOf
      /\ FindingsWell /\ FeedbackTrue /\ TitlesKept /\ PreviousOpen /\ CountsAdd
  BY DEF ReviewIInv
<1>1. MaxReviews \in Nat /\ reviewsLeft \in 0..MaxReviews /\ reviewsLeft # 0 /\ Run' = Run + 1 /\ Run \in Nat
  BY <1>0, RunsCounted DEF ReviewTypes, Run
<1>2. ReviewTypes'
  BY <1>0, <1>1 DEF ReviewTypes
<1>3. ReviewMemory'
  BY <1>0 DEF ReviewMemory
<1>4. FeedbackOfRuns'
  <2>1. \A f \in Range(feedback) : f.run \in Nat /\ f.run <= Run
    <3>1. \A f \in Range(feedback) : f \in FeedbackFile
      BY <1>0, ElementsAt DEF ReviewTypes
    <3>2. QED
      BY <1>0, <1>1, <3>1 DEF FeedbackOfRuns, FeedbackFile
  <2>2. Len(feedback) \in Nat /\ Len(feedback) <= Run
    BY <1>0 DEF ReviewTypes, FeedbackOfRuns
  <2>3. \A f \in Range(feedback) : f.run <= Run + 1 /\ f.run < Run + 1
    BY <1>1, <2>1
  <2>4. QED
    BY <1>1, <2>2, <2>3 DEF FeedbackOfRuns
<1>5. AskedOf'
  <2>1. \A c \in costed : c[1] \in 0..Run /\ c[2] \in ReviewIdea
    BY <1>0 DEF AskedOf
  <2>2. \A c \in costed : c[1] \in 0..(Run + 1) /\ c[1] # Run + 1 /\ c[2] \in ReviewIdea
    BY <1>1, <2>1
  <2>3. Range(queue) = {}
    BY <1>0, EmptyRange DEF ReviewMemory
  <2>4. QED
    BY <1>1, <2>2, <2>3 DEF AskedOf
<1>6. FindingsWell'
  BY <1>0, EmptyRange DEF ReviewMemory, FindingsWell
<1>7. FeedbackTrue' /\ TitlesKept' /\ CaseAsked'
  BY <1>0 DEF FeedbackTrue, TitlesKept, CaseAsked
<1>8. PreviousOpen' /\ CountsAdd'
  BY <1>0 DEF PreviousOpen, CountsAdd, ReviewMemory, Nothing, Quiet
<1>9. QED
  BY <1>2, <1>3, <1>4, <1>5, <1>6, <1>7, <1>8 DEF ReviewIInv

LEMMA StartAloneKeeps ==
    ASSUME ReviewIInv, NEW how \in {"deep_dive", "adhoc"}, NEW id, StartAlone(how, id) PROVE ReviewIInv'
<1> USE DEF StartAlone, caseVars
<1>0. /\ ReviewTypes /\ ReviewMemory /\ FeedbackOfRuns /\ AskedOf
      /\ FindingsWell /\ FeedbackTrue /\ TitlesKept /\ PreviousOpen /\ CountsAdd
  BY DEF ReviewIInv
<1>1. MaxReviews \in Nat /\ reviewsLeft \in 0..MaxReviews /\ reviewsLeft # 0 /\ Run' = Run + 1 /\ Run \in Nat
  BY <1>0, RunsCounted DEF ReviewTypes, Run
<1>2. ReviewTypes'
  <2>1. report \in Seq(ReviewIdea)
    BY <1>0 DEF ReviewTypes
  <2>2. Picked(report, {h \in Range(report) : h.id = id}) \in Seq(ReviewIdea)
    BY <2>1, PickedElements
  <2>3. <<FreeText>> \in Seq(ReviewIdea)
    BY DEF ReviewIdea
  <2>4. queue' \in Seq(ReviewIdea)
    BY <2>2, <2>3
  <2>5. QED
    BY <1>0, <1>1, <2>4 DEF ReviewTypes
<1>3. ReviewMemory'
  BY <1>0 DEF ReviewMemory
<1>4. FeedbackOfRuns'
  <2>1. \A f \in Range(feedback) : f.run \in Nat /\ f.run <= Run
    <3>1. \A f \in Range(feedback) : f \in FeedbackFile
      BY <1>0, ElementsAt DEF ReviewTypes
    <3>2. QED
      BY <1>0, <1>1, <3>1 DEF FeedbackOfRuns, FeedbackFile
  <2>2. Len(feedback) \in Nat /\ Len(feedback) <= Run
    BY <1>0 DEF ReviewTypes, FeedbackOfRuns
  <2>3. \A f \in Range(feedback) : f.run <= Run + 1 /\ f.run < Run + 1
    BY <1>1, <2>1
  <2>4. QED
    BY <1>1, <2>2, <2>3 DEF FeedbackOfRuns
<1>5. AskedOf'
  <2>1. \A c \in costed : c[1] \in 0..Run /\ c[2] \in ReviewIdea
    BY <1>0 DEF AskedOf
  <2>2. \A c \in costed : c[1] \in 0..(Run + 1) /\ c[1] # Run + 1 /\ c[2] \in ReviewIdea
    BY <1>1, <2>1
  <2>3. QED
    BY <1>1, <2>2 DEF AskedOf
<1>6. FindingsWell'
  BY <1>0, EmptyRange DEF ReviewMemory, FindingsWell
<1>7. FeedbackTrue' /\ TitlesKept' /\ CaseAsked'
  BY <1>0 DEF FeedbackTrue, TitlesKept, CaseAsked
<1>8. PreviousOpen' /\ CountsAdd'
  BY <1>0 DEF PreviousOpen, CountsAdd, ReviewMemory, Nothing, Quiet
<1>9. QED
  BY <1>2, <1>3, <1>4, <1>5, <1>6, <1>7, <1>8 DEF ReviewIInv

\* At its end a run forgets what it has in memory.
LEMMA ClearKeeps ==
    ASSUME ReviewIInv, Clear, reviewStep' = "idle", UNCHANGED <<reviewsLeft, mode, feedback, costed>>,
           report' \in Seq(ReviewIdea), CountsAdd'
    PROVE  ReviewIInv'
<1> USE DEF Clear
<1>0. /\ ReviewTypes /\ ReviewMemory /\ FeedbackOfRuns /\ AskedOf
      /\ FindingsWell /\ FeedbackTrue /\ TitlesKept /\ PreviousOpen /\ CountsAdd
  BY DEF ReviewIInv
<1>1. ReviewTypes'
  <2>1. plan' \in [internal : BOOLEAN, indices : BOOLEAN] /\ executed' \in CodeOutcome /\ obtained' \in BOOLEAN
    BY DEF NoPlan, CodeOutcome
  <2>2. previous' \in {Nothing} \cup [status : {"found"}, title : IdeaTitle, of : 0..MaxReviews]
    OBVIOUS
  <2>3. QED
    BY <1>0, <2>1, <2>2 DEF ReviewTypes
<1>2. ReviewMemory'
  BY DEF ReviewMemory
<1>3. FeedbackOfRuns'
  BY <1>0 DEF FeedbackOfRuns, Run
<1>4. AskedOf'
  BY <1>0, EmptyRange DEF AskedOf, Run
<1>5. FindingsWell'
  BY EmptyRange DEF FindingsWell
<1>6. FeedbackTrue' /\ TitlesKept' /\ CaseAsked'
  BY <1>0 DEF FeedbackTrue, TitlesKept, CaseAsked
<1>7. PreviousOpen'
  BY DEF PreviousOpen, Nothing
<1>8. QED
  BY <1>1, <1>2, <1>3, <1>4, <1>5, <1>6, <1>7 DEF ReviewIInv

LEMMA AbortKeeps ==
    ASSUME ReviewIInv, NEW at, Abort(at), UNCHANGED <<report, costed>> PROVE ReviewIInv'
<1>1. CountsAdd'
  BY DEF Abort, ReviewIInv, CountsAdd
<1>2. report' \in Seq(ReviewIdea)
  BY DEF ReviewIInv, ReviewTypes
<1>3. QED
  BY <1>1, <1>2, ClearKeeps DEF Abort

LEMMA ReviewDiesKeeps == ASSUME ReviewIInv, ReviewDies PROVE ReviewIInv'
<1>1. CountsAdd'
  BY DEF ReviewDies, ReviewIInv, CountsAdd
<1>2. report' \in Seq(ReviewIdea)
  BY DEF ReviewDies, ReviewIInv, ReviewTypes
<1>3. QED
  BY <1>1, <1>2, ClearKeeps DEF ReviewDies

\* The hypotheses of a list by their priority.
LEMMA ByPriority ==
    ASSUME NEW proposal \in Seq(ReviewIdea)
    PROVE  LET urgent == Picked(proposal, {h \in Range(proposal) : h.high})
               aside  == Picked(proposal, {h \in Range(proposal) : ~h.high})
           IN  /\ urgent \in Seq(ReviewIdea) /\ aside \in Seq(ReviewIdea)
               /\ \A h \in Range(urgent) : h.high
               /\ Range(urgent) \cup Range(aside) = Range(proposal)
<1>1. PICK high : high = {h \in Range(proposal) : h.high}
  OBVIOUS
<1>2. PICK low : low = {h \in Range(proposal) : ~h.high}
  OBVIOUS
<1>3. /\ Picked(proposal, high) \in Seq(ReviewIdea) /\ Range(Picked(proposal, high)) = Range(proposal) \cap high
      /\ Picked(proposal, low) \in Seq(ReviewIdea) /\ Range(Picked(proposal, low)) = Range(proposal) \cap low
  BY PickedElements
<1>4. Range(proposal) \subseteq ReviewIdea
  BY ElementsAt
<1>5. \A h \in Range(proposal) : h.high \in BOOLEAN
  BY <1>4, ReviewConstants
<1>6. (Range(proposal) \cap high) \cup (Range(proposal) \cap low) = Range(proposal)
  BY <1>1, <1>2, <1>5
<1>7. \A h \in Range(Picked(proposal, high)) : h.high
  BY <1>1, <1>3
<1>8. QED
  BY <1>1, <1>2, <1>3, <1>6, <1>7

LEMMA ProposeKeeps ==
    ASSUME ReviewIInv, NEW proposal \in Proposals, Propose(proposal) PROVE ReviewIInv'
<1> USE DEF Propose, Urgent, caseVars
<1>0. /\ ReviewTypes /\ ReviewMemory /\ FeedbackOfRuns /\ AskedOf
      /\ FindingsWell /\ FeedbackTrue /\ TitlesKept /\ PreviousOpen /\ CountsAdd
  BY DEF ReviewIInv
<1>1. proposal \in Seq(ReviewIdea)
  BY ReviewConstants
<1>2. /\ queue' \in Seq(ReviewIdea) /\ setAside' \in Seq(ReviewIdea)
      /\ \A h \in Range(queue') : h.high
      /\ Range(queue') \cup Range(setAside') = Range(proposal)
  BY <1>1, ByPriority
<1>3. Run' = Run
  BY DEF Run
<1>4. ReviewTypes'
  BY <1>0, <1>1, <1>2 DEF ReviewTypes
<1>5. ReviewMemory'
  BY <1>0 DEF ReviewMemory
<1>6. FeedbackOfRuns'
  BY <1>0, <1>3 DEF FeedbackOfRuns
<1>7. AskedOf'
  BY <1>0, <1>2, <1>3 DEF AskedOf
<1>8. FindingsWell'
  BY <1>0, EmptyRange DEF ReviewMemory, FindingsWell
<1>9. TitlesKept'
  <2>1. Range(findings) = {}
    BY <1>0, EmptyRange DEF ReviewMemory
  <2>2. Range(findings') \cup Range(queue') \cup Range(setAside') = Range(report')
    BY <1>2, <2>1
  <2>3. QED
    BY <2>2 DEF TitlesKept
<1>10. FeedbackTrue' /\ CountsAdd' /\ CaseAsked'
  BY <1>0 DEF FeedbackTrue, CountsAdd, CaseAsked
<1>11. PreviousOpen'
  BY <1>0 DEF PreviousOpen, ReviewMemory, Nothing
<1>12. QED
  BY <1>4, <1>5, <1>6, <1>7, <1>8, <1>9, <1>10, <1>11 DEF ReviewIInv

\* The newest result that was left open.
LEMMA NewestOpen ==
    ASSUME ReviewTypes, FeedbackTrue, NEW title \in IdeaTitle, \A f \in Range(feedback) : f.run < Run
    PROVE  /\ LastOpen(title) \in {Nothing} \cup [status : {"found"}, title : IdeaTitle, of : 0..MaxReviews]
           /\ LastOpen(title).status = "found" =>
                /\ LastOpen(title).title = title
                /\ \E f \in Range(feedback) : f.run = LastOpen(title).of /\ f.run < Run
                       /\ \E item \in Range(f.items) : item.title = title /\ item.verdict = "needs_data"
                /\ \A f \in Range(feedback) : f.run > LastOpen(title).of /\ f.run < Run =>
                       \A item \in Range(f.items) : item.title = title => item.verdict # "needs_data"
<1> DEFINE runs == {f \in Range(feedback) : \E item \in Range(f.items) : item.title = title /\ StillOpen(item)}
<1>1. CASE runs = {}
  <2>1. LastOpen(title) = Nothing
    BY <1>1 DEF LastOpen
  <2>2. QED
    BY <2>1 DEF Nothing
<1>2. CASE runs # {}
  <2>1. \A f \in Range(feedback) : f \in FeedbackFile
    BY ElementsAt DEF ReviewTypes
  <2>2. \A f \in Range(feedback) : f.run \in 0..MaxReviews
    BY <2>1 DEF FeedbackFile
  <2> DEFINE numbers == {f.run : f \in runs}
  <2>3. numbers \in SUBSET (0..MaxReviews) /\ numbers # {}
    BY <1>2, <2>2
  <2>4. Max(numbers) \in numbers /\ \A i \in numbers : Max(numbers) >= i
    <3> HIDE DEF numbers
    <3> QED
      BY <2>3, RunsCounted, Largest
  <2>5. PICK g \in runs : g.run = Max(numbers)
    BY <2>4
  <2>6. ASSUME NEW f \in runs PROVE f.run <= g.run
    <3>1. f.run \in numbers
      OBVIOUS
    <3>2. f.run \in Int /\ g.run \in Int
      BY <2>2
    <3>3. g.run >= f.run
      BY <2>4, <2>5, <3>1
    <3>4. QED
      BY <3>2, <3>3
  <2>7. PICK newest : newest = CHOOSE f \in runs : \A e \in runs : e.run <= f.run
    OBVIOUS
  <2>8. newest \in runs /\ \A e \in runs : e.run <= newest.run
    <3> HIDE DEF runs
    <3> QED
      BY <2>6, <2>7
  <2>9. LastOpen(title) = [status |-> "found", title |-> title, of |-> newest.run]
    BY <1>2, <2>7 DEF LastOpen
  <2>10. newest.run \in 0..MaxReviews /\ newest.run < Run
    BY <2>2, <2>8
  <2>11. \E item \in Range(newest.items) : item.title = title /\ item.verdict = "needs_data"
    BY <2>8 DEF FeedbackTrue, Consistent, StillOpen
  <2>12. ASSUME NEW f \in Range(feedback), f.run > newest.run, NEW item \in Range(f.items), item.title = title
         PROVE  item.verdict # "needs_data"
    <3>1. SUFFICES ASSUME item.verdict = "needs_data" PROVE FALSE
      OBVIOUS
    <3>2. f \in runs
      BY <2>12, <3>1 DEF StillOpen
    <3>3. f.run <= newest.run /\ f.run \in Int /\ newest.run \in Int
      BY <2>2, <2>8, <3>2
    <3>4. QED
      BY <2>12, <3>3
  <2>13. LastOpen(title) \in [status : {"found"}, title : IdeaTitle, of : 0..MaxReviews]
    BY <2>9, <2>10
  <2> HIDE DEF runs
  <2>14. newest \in Range(feedback)
    BY <2>8 DEF runs
  <2>15. LastOpen(title).of = newest.run /\ LastOpen(title).title = title
    BY <2>9
  <2>16. QED
    BY <2>10, <2>11, <2>12, <2>13, <2>14, <2>15
<1>3. QED
  BY <1>1, <1>2

LEMMA AtQueue ==
    ASSUME ReviewTypes, queue # <<>>
    PROVE  /\ Head(queue) \in ReviewIdea /\ Tail(queue) \in Seq(ReviewIdea)
           /\ Range(queue) = {Head(queue)} \cup Range(Tail(queue))
           /\ Head(queue).title \in IdeaTitle /\ Head(queue).id \in IdeaId
<1>1. queue \in Seq(ReviewIdea)
  BY DEF ReviewTypes
<1>2. /\ Head(queue) \in ReviewIdea /\ Tail(queue) \in Seq(ReviewIdea)
      /\ Range(queue) = {Head(queue)} \cup Range(Tail(queue))
  BY <1>1, RangeOfTail
<1>3. QED
  BY <1>2, ReviewConstants

\* A hypothesis is taken up: what was asked about before and is asked about now.
LEMMA TakenUp ==
    ASSUME ReviewIInv, reviewStep = "plan", queue # <<>>, Head(queue).id \notin directories,
           directories' = directories \cup {Head(queue).id},
           costed' = costed \cup {<<Run, Head(queue)>>},
           UNCHANGED <<reviewsLeft, mode, report, setAside, feedback>>,
           \A h \in Range(queue') : h \in Range(queue)
    PROVE  AskedOf' /\ FeedbackTrue'
<1>0. ReviewTypes /\ FeedbackOfRuns /\ AskedOf /\ FeedbackTrue
  BY DEF ReviewIInv
<1>1. Head(queue) \in ReviewIdea /\ Head(queue) \in Range(queue)
  BY <1>0, AtQueue
<1>2. Run' = Run /\ Run \in 0..Run
  BY <1>0, RunNumber DEF Run
<1>3. AskedOf'
  BY <1>0, <1>1, <1>2 DEF AskedOf
<1>4. \A f \in Range(feedback) : f.run # Run
  <2>1. \A f \in Range(feedback) : f \in FeedbackFile
    BY <1>0, ElementsAt DEF ReviewTypes
  <2>2. QED
    BY <1>0, <2>1 DEF FeedbackOfRuns, FeedbackFile
<1>5. FeedbackTrue'
  BY <1>0, <1>4 DEF FeedbackTrue
<1>6. QED
  BY <1>3, <1>5

LEMMA MakePlanKeeps ==
    ASSUME ReviewIInv, NEW internal \in BOOLEAN, NEW indices \in BOOLEAN, MakePlan(internal, indices)
    PROVE  ReviewIInv'
<1> USE DEF MakePlan
<1>0. /\ ReviewTypes /\ ReviewMemory /\ FeedbackOfRuns /\ AskedOf
      /\ FindingsWell /\ FeedbackTrue /\ TitlesKept /\ PreviousOpen /\ CountsAdd
  BY DEF ReviewIInv
<1>1. Run' = Run
  BY DEF Run
<1>2. Head(queue).title \in IdeaTitle
  BY <1>0, AtQueue
<1>3. \A f \in Range(feedback) : f.run < Run
  BY <1>0 DEF FeedbackOfRuns
<1>4. /\ previous' \in {Nothing} \cup [status : {"found"}, title : IdeaTitle, of : 0..MaxReviews]
      /\ PreviousOpen'
  <2>1. CASE mode = "deep_dive"
    <3>1. previous' = LastOpen(Head(queue).title)
      BY <2>1
    <3>2. PICK title \in IdeaTitle : title = Head(queue).title
      BY <1>2
    <3>3. /\ previous' \in {Nothing} \cup [status : {"found"}, title : IdeaTitle, of : 0..MaxReviews]
          /\ previous'.status = "found" =>
                /\ previous'.title = title
                /\ \E f \in Range(feedback) : f.run = previous'.of /\ f.run < Run
                       /\ \E item \in Range(f.items) : item.title = title /\ item.verdict = "needs_data"
                /\ \A f \in Range(feedback) : f.run > previous'.of /\ f.run < Run =>
                       \A item \in Range(f.items) : item.title = title => item.verdict # "needs_data"
      BY <1>0, <1>3, <3>1, <3>2, NewestOpen
    <3>4. QED
      BY <1>1, <3>3 DEF PreviousOpen
  <2>2. CASE mode # "deep_dive"
    BY <2>2 DEF PreviousOpen, Nothing
  <2>3. QED
    BY <2>1, <2>2
<1>5. ReviewTypes'
  <2>1. plan' \in [internal : BOOLEAN, indices : BOOLEAN] /\ executed' \in CodeOutcome /\ obtained' \in BOOLEAN
    BY DEF CodeOutcome
  <2>2. reviewStep' \in {"data", "code", "judge"}
    OBVIOUS
  <2>3. QED
    BY <1>0, <1>4, <2>1, <2>2 DEF ReviewTypes
<1>6. ReviewMemory'
  BY DEF ReviewMemory
<1>7. FeedbackOfRuns'
  BY <1>0, <1>1 DEF FeedbackOfRuns
<1>8. AskedOf' /\ FeedbackTrue'
  BY TakenUp
<1>9. FindingsWell'
  BY <1>0, <1>1 DEF FindingsWell
<1>10. TitlesKept' /\ CountsAdd'
  BY <1>0 DEF TitlesKept, CountsAdd
<1>11. CaseAsked'
  <2>1. PICK c : c = <<Run, Head(queue)>>
    OBVIOUS
  <2>2. c \in costed' /\ c[1] = Run /\ c[2].id = Head(queue).id
    BY <2>1
  <2>3. QED
    BY <1>1, <2>2 DEF CaseAsked
<1>12. QED
  BY <1>4, <1>5, <1>6, <1>7, <1>8, <1>9, <1>10, <1>11 DEF ReviewIInv

\* A case is closed: its result takes the place of the hypothesis.
LEMMA CaseClosed ==
    ASSUME ReviewTypes, FindingsWell, TitlesKept, queue # <<>>, reviewStep \in {"plan", "code", "judge"},
           NEW status, NEW verdict, NEW needed \in BOOLEAN, SettleCase(status, verdict, needed),
           status \in {"judged", "unverifiable"},
           status = "judged" => verdict \in {"supported", "rejected", "needs_data"},
           status = "unverifiable" => verdict = "needs_data",
           status = "judged" /\ needed /\ executed' # "succeeded" => obtained',
           executed' \in CodeOutcome, obtained' \in BOOLEAN, UNCHANGED <<reviewsLeft, mode, report, setAside>>,
           costed \subseteq costed', \E c \in costed' : c[1] = Run /\ c[2].id = Head(queue).id
    PROVE  /\ findings' \in Seq(Finding) /\ queue' \in Seq(ReviewIdea)
           /\ \A h \in Range(queue') : h \in Range(queue)
           /\ plan' \in [internal : BOOLEAN, indices : BOOLEAN] /\ reviewStep' = "plan"
           /\ FindingsWell' /\ TitlesKept'
<1>1. /\ Head(queue) \in ReviewIdea /\ Tail(queue) \in Seq(ReviewIdea)
      /\ Range(queue) = {Head(queue)} \cup Range(Tail(queue))
      /\ Head(queue).title \in IdeaTitle /\ Head(queue).id \in IdeaId
  BY AtQueue
<1>2. PICK result : result = [title |-> Head(queue).title, id |-> Head(queue).id, status |-> status,
                              verdict |-> verdict, needed |-> needed, ran |-> executed', found |-> obtained']
  OBVIOUS
<1>3. result \in Finding
  BY <1>1, <1>2 DEF Finding, FindingStatus, FindingVerdict
<1>4. /\ findings' = Append(findings, result) /\ queue' = Tail(queue)
      /\ reviewStep' = "plan" /\ plan' = NoPlan
  BY <1>2 DEF SettleCase
<1>5. findings \in Seq(Finding)
  BY DEF ReviewTypes
<1>6. findings' \in Seq(Finding) /\ Range(findings') = Range(findings) \cup {result}
  BY <1>3, <1>4, <1>5, RangeOfAppend
<1>7. FindingsWell'
  <2>1. Consistent(result) /\ OnData(result) /\ result.status # "untested" /\ result.id = Head(queue).id
    BY <1>2 DEF Consistent, OnData
  <2>2. Run' = Run
    BY DEF Run
  <2>3. reviewStep # "tell"
    OBVIOUS
  <2>4. QED
    BY <1>6, <2>1, <2>2, <2>3 DEF FindingsWell
<1>8. TitlesKept'
  <2>1. result.title = Head(queue).title
    BY <1>2
  <2>2. SUFFICES ASSUME mode = "pipeline"
                 PROVE  {e.title : e \in Range(findings') \cup Range(queue') \cup Range(setAside)} =
                        {h.title : h \in Range(report)}
    BY DEF TitlesKept
  <2>3. {e.title : e \in Range(findings) \cup Range(queue) \cup Range(setAside)} = {h.title : h \in Range(report)}
    BY <2>2 DEF TitlesKept
  <2>4. {e.title : e \in Range(findings') \cup Range(queue') \cup Range(setAside)} =
        {e.title : e \in Range(findings) \cup Range(queue) \cup Range(setAside)}
    BY <1>1, <1>4, <1>6, <2>1
  <2>5. QED
    BY <2>3, <2>4
<1>9. QED
  BY <1>1, <1>4, <1>6, <1>7, <1>8 DEF NoPlan

LEMMA PlanFailsKeeps == ASSUME ReviewIInv, PlanFails PROVE ReviewIInv'
<1> USE DEF PlanFails
<1>0. /\ ReviewTypes /\ ReviewMemory /\ FeedbackOfRuns /\ AskedOf /\ CaseAsked
      /\ FindingsWell /\ FeedbackTrue /\ TitlesKept /\ PreviousOpen /\ CountsAdd
  BY DEF ReviewIInv
<1>1. Run' = Run
  BY DEF Run
<1>2. Head(queue).title \in IdeaTitle
  BY <1>0, AtQueue
<1>3. \A f \in Range(feedback) : f.run < Run
  BY <1>0 DEF FeedbackOfRuns
<1>4. /\ previous' \in {Nothing} \cup [status : {"found"}, title : IdeaTitle, of : 0..MaxReviews]
      /\ PreviousOpen'
  <2>1. CASE mode = "deep_dive"
    <3>1. previous' = LastOpen(Head(queue).title)
      BY <2>1
    <3>2. PICK title \in IdeaTitle : title = Head(queue).title
      BY <1>2
    <3>3. /\ previous' \in {Nothing} \cup [status : {"found"}, title : IdeaTitle, of : 0..MaxReviews]
          /\ previous'.status = "found" =>
                /\ previous'.title = title
                /\ \E f \in Range(feedback) : f.run = previous'.of /\ f.run < Run
                       /\ \E item \in Range(f.items) : item.title = title /\ item.verdict = "needs_data"
                /\ \A f \in Range(feedback) : f.run > previous'.of /\ f.run < Run =>
                       \A item \in Range(f.items) : item.title = title => item.verdict # "needs_data"
      BY <1>0, <1>3, <3>1, <3>2, NewestOpen
    <3>4. QED
      BY <1>1, <3>3 DEF PreviousOpen
  <2>2. CASE mode # "deep_dive"
    BY <2>2 DEF PreviousOpen, Nothing
  <2>3. QED
    BY <2>1, <2>2
<1>5. /\ findings' \in Seq(Finding) /\ queue' \in Seq(ReviewIdea)
      /\ \A h \in Range(queue') : h \in Range(queue)
      /\ plan' \in [internal : BOOLEAN, indices : BOOLEAN] /\ reviewStep' = "plan"
      /\ FindingsWell' /\ TitlesKept'
  <2>1. executed' = "generation_failed" /\ executed' \in CodeOutcome /\ obtained' \in BOOLEAN
    BY DEF CodeOutcome
  <2>2. costed \subseteq costed' /\ \E c \in costed' : c[1] = Run /\ c[2].id = Head(queue).id
    <3>1. PICK c : c = <<Run, Head(queue)>>
      OBVIOUS
    <3>2. c \in costed' /\ c[1] = Run /\ c[2].id = Head(queue).id
      BY <3>1
    <3>3. QED
      BY <3>2
  <2>3. SettleCase("unverifiable", "needs_data", FALSE)
    OBVIOUS
  <2>4. reviewStep \in {"plan", "code", "judge"} /\ queue # <<>>
    OBVIOUS
  <2>5. UNCHANGED <<reviewsLeft, mode, report, setAside>>
    OBVIOUS
  <2> HIDE DEF PlanFails
  <2>6. PICK status, verdict, needed : status = "unverifiable" /\ verdict = "needs_data" /\ needed = FALSE
    OBVIOUS
  <2>7. SettleCase(status, verdict, needed) /\ needed \in BOOLEAN
    BY <2>3, <2>6
  <2>8. QED
    BY <1>0, <2>1, <2>2, <2>4, <2>5, <2>6, <2>7, CaseClosed
<1>6. ReviewTypes'
  BY <1>0, <1>4, <1>5 DEF ReviewTypes, CodeOutcome
<1>7. ReviewMemory'
  BY <1>5 DEF ReviewMemory
<1>8. FeedbackOfRuns'
  BY <1>0, <1>1, <1>5 DEF FeedbackOfRuns
<1>9. AskedOf' /\ FeedbackTrue'
  BY <1>5, TakenUp
<1>10. CountsAdd' /\ CaseAsked'
  BY <1>0, <1>5 DEF CountsAdd, CaseAsked
<1>11. QED
  BY <1>4, <1>5, <1>6, <1>7, <1>8, <1>9, <1>10 DEF ReviewIInv

\* The work on a case goes on.
LEMMA CaseGoesOn ==
    ASSUME ReviewIInv, reviewStep \in {"data", "code", "judge"}, reviewStep' \in {"data", "code", "judge"},
           executed' \in CodeOutcome, obtained' \in BOOLEAN,
           UNCHANGED <<reviewsLeft, mode, report, queue, setAside, directories, plan, findings, feedback,
                       previous, reviewTold, costed>>
    PROVE  ReviewIInv'
<1>0. /\ ReviewTypes /\ ReviewMemory /\ FeedbackOfRuns /\ AskedOf /\ CaseAsked
      /\ FindingsWell /\ FeedbackTrue /\ TitlesKept /\ PreviousOpen /\ CountsAdd
  BY DEF ReviewIInv
<1>1. Run' = Run
  BY DEF Run
<1>2. ReviewTypes' /\ ReviewMemory'
  BY <1>0 DEF ReviewTypes, ReviewMemory
<1>3. FeedbackOfRuns' /\ AskedOf' /\ CaseAsked'
  BY <1>0, <1>1 DEF FeedbackOfRuns, AskedOf, CaseAsked
<1>4. FindingsWell' /\ FeedbackTrue' /\ TitlesKept'
  BY <1>0, <1>1 DEF FindingsWell, FeedbackTrue, TitlesKept
<1>5. PreviousOpen' /\ CountsAdd'
  BY <1>0, <1>1 DEF PreviousOpen, CountsAdd
<1>6. QED
  BY <1>2, <1>3, <1>4, <1>5 DEF ReviewIInv

LEMMA LoadIndexDataKeeps ==
    ASSUME ReviewIInv, NEW some \in BOOLEAN, LoadIndexData(some) PROVE ReviewIInv'
<1>1. executed' \in CodeOutcome
  BY DEF ReviewIInv, ReviewTypes, LoadIndexData
<1>2. QED
  BY <1>1, CaseGoesOn DEF LoadIndexData

LEMMA RunCodeKeeps ==
    ASSUME ReviewIInv, NEW outcome \in {"succeeded", "failed"}, RunCode(outcome) PROVE ReviewIInv'
<1>1. obtained' \in BOOLEAN /\ executed' \in CodeOutcome
  BY DEF ReviewIInv, ReviewTypes, RunCode, CodeOutcome
<1>2. QED
  BY <1>1, CaseGoesOn DEF RunCode

\* A case that was taken up is closed.
LEMMA CaseCloses ==
    ASSUME ReviewIInv, reviewStep \in {"code", "judge"},
           NEW status, NEW verdict, NEW needed \in BOOLEAN, SettleCase(status, verdict, needed),
           status \in {"judged", "unverifiable"},
           status = "judged" => verdict \in {"supported", "rejected", "needs_data"},
           status = "unverifiable" => verdict = "needs_data",
           status = "judged" /\ needed /\ executed' # "succeeded" => obtained',
           executed' \in CodeOutcome, obtained' \in BOOLEAN,
           UNCHANGED <<reviewsLeft, mode, report, setAside, directories, feedback, previous, reviewTold, costed>>
    PROVE  ReviewIInv'
<1>0. /\ ReviewTypes /\ ReviewMemory /\ FeedbackOfRuns /\ AskedOf /\ CaseAsked
      /\ FindingsWell /\ FeedbackTrue /\ TitlesKept /\ PreviousOpen /\ CountsAdd
  BY DEF ReviewIInv
<1>1. Run' = Run
  BY DEF Run
<1>2. queue # <<>>
  BY <1>0 DEF ReviewMemory
<1>3. costed \subseteq costed' /\ \E c \in costed' : c[1] = Run /\ c[2].id = Head(queue).id
  BY <1>0 DEF CaseAsked
<1>4. UNCHANGED <<reviewsLeft, mode, report, setAside>> /\ reviewStep \in {"plan", "code", "judge"}
  OBVIOUS
<1>5. /\ findings' \in Seq(Finding) /\ queue' \in Seq(ReviewIdea)
      /\ \A h \in Range(queue') : h \in Range(queue)
      /\ plan' \in [internal : BOOLEAN, indices : BOOLEAN] /\ reviewStep' = "plan"
      /\ FindingsWell' /\ TitlesKept'
  BY <1>0, <1>2, <1>3, <1>4, CaseClosed
<1>6. ReviewTypes'
  BY <1>0, <1>5 DEF ReviewTypes
<1>7. ReviewMemory'
  BY <1>5 DEF ReviewMemory
<1>8. FeedbackOfRuns' /\ AskedOf'
  BY <1>0, <1>1, <1>5 DEF FeedbackOfRuns, AskedOf
<1>9. CountsAdd' /\ CaseAsked' /\ FeedbackTrue'
  BY <1>0, <1>5 DEF CountsAdd, CaseAsked, FeedbackTrue
<1>10. PreviousOpen'
  BY <1>0, <1>1 DEF PreviousOpen
<1>11. QED
  BY <1>5, <1>6, <1>7, <1>8, <1>9, <1>10 DEF ReviewIInv

LEMMA CodeFailsKeeps == ASSUME ReviewIInv, CodeFails PROVE ReviewIInv'
<1>1. executed' \in CodeOutcome /\ obtained' \in BOOLEAN /\ plan.internal \in BOOLEAN
  BY DEF ReviewIInv, ReviewTypes, CodeFails, CodeOutcome
<1>2. PICK status, verdict, needed :
         status = "unverifiable" /\ verdict = "needs_data" /\ needed = plan.internal
  OBVIOUS
<1>5. SettleCase(status, verdict, needed) /\ needed \in BOOLEAN
  BY <1>1, <1>2 DEF CodeFails
<1>3. /\ reviewStep \in {"code", "judge"}
      /\ UNCHANGED <<reviewsLeft, mode, report, setAside, directories, feedback, previous, reviewTold, costed>>
  BY DEF CodeFails
<1>4. QED
  BY <1>1, <1>2, <1>3, <1>5, CaseCloses

LEMMA PronounceKeeps ==
    ASSUME ReviewIInv, NEW answer \in ModelAnswer, Pronounce(answer) PROVE ReviewIInv'
<1>1. /\ executed' \in CodeOutcome /\ obtained' = obtained /\ obtained \in BOOLEAN
      /\ plan.internal \in BOOLEAN /\ plan.indices \in BOOLEAN
  BY DEF ReviewIInv, ReviewTypes, Pronounce, CodeOutcome
<1>2. /\ reviewStep \in {"code", "judge"}
      /\ UNCHANGED <<reviewsLeft, mode, report, setAside, directories, feedback, previous, reviewTold, costed>>
  BY DEF Pronounce
<1>3. CASE Hopeless \/ answer = "none"
  <2>1. PICK status, verdict, needed :
           status = "unverifiable" /\ verdict = "needs_data" /\ needed = plan.internal
    OBVIOUS
  <2>2. SettleCase(status, verdict, needed) /\ needed \in BOOLEAN
    BY <1>1, <1>3, <2>1 DEF Pronounce
  <2>3. QED
    BY <1>1, <1>2, <2>1, <2>2, CaseCloses
<1>4. CASE ~(Hopeless \/ answer = "none")
  <2>1. PICK status, verdict, needed : status = "judged" /\ verdict = answer /\ needed = plan.internal
    OBVIOUS
  <2>6. SettleCase(status, verdict, needed) /\ needed \in BOOLEAN
    BY <1>1, <1>4, <2>1 DEF Pronounce
  <2>2. verdict \in {"supported", "rejected", "needs_data"}
    BY <1>4, <2>1 DEF ModelAnswer
  <2>3. executed' = executed
    BY <1>4 DEF Pronounce
  <2>4. needed /\ executed' # "succeeded" => obtained'
    BY <1>1, <1>4, <2>1, <2>3 DEF Hopeless
  <2>5. QED
    BY <1>1, <1>2, <2>1, <2>2, <2>4, <2>6, CaseCloses
<1>5. QED
  BY <1>3, <1>4

\* What was left out for its priority is noted as untested.
LEMMA RestNoted ==
    ASSUME ReviewTypes
    PROVE  LET rest == [i \in DOMAIN setAside |-> Untested(setAside[i])]
           IN  /\ rest \in Seq(Finding)
               /\ \A result : result \in Range(rest) <=> \E h \in Range(setAside) : result = Untested(h)
<1> DEFINE rest == [i \in DOMAIN setAside |-> Untested(setAside[i])]
<1>1. setAside \in Seq(ReviewIdea) /\ DOMAIN setAside = 1..Len(setAside) /\ Len(setAside) \in Nat
  BY DEF ReviewTypes
<1>2. \A i \in 1..Len(setAside) : setAside[i] \in ReviewIdea
  BY <1>1
<1>3. ASSUME NEW h \in ReviewIdea PROVE Untested(h) \in Finding
  <2>1. h.title \in IdeaTitle /\ h.id \in IdeaId
    BY ReviewConstants
  <2>2. QED
    BY <2>1 DEF Untested, Finding, FindingStatus, FindingVerdict, CodeOutcome
<1>4. rest \in Seq(Finding)
  BY <1>1, <1>2, <1>3
<1>5. DOMAIN rest = DOMAIN setAside /\ \A i \in DOMAIN setAside : rest[i] = Untested(setAside[i])
  OBVIOUS
<1>6. ASSUME NEW result PROVE result \in Range(rest) <=> \E h \in Range(setAside) : result = Untested(h)
  <2> HIDE DEF rest
  <2>1. ASSUME result \in Range(rest) PROVE \E h \in Range(setAside) : result = Untested(h)
    <3>1. PICK i \in DOMAIN setAside : result = Untested(setAside[i])
      BY <1>5, <2>1 DEF Range
    <3>2. QED
      BY <3>1 DEF Range
  <2>2. ASSUME NEW h \in Range(setAside), result = Untested(h) PROVE result \in Range(rest)
    <3>1. PICK i \in DOMAIN setAside : h = setAside[i]
      BY DEF Range
    <3>2. rest[i] = result
      BY <1>5, <2>2, <3>1
    <3>3. QED
      BY <1>5, <3>2 DEF Range
  <2>3. QED
    BY <2>1, <2>2
<1>7. QED
  BY <1>4, <1>6

LEMMA Summarised ==
    ASSUME NEW all \in Seq(Finding)
    PROVE  LET items == [i \in DOMAIN all |-> Summary(all[i])]
           IN  /\ items \in Seq(FeedbackItem)
               /\ \A item \in Range(items) : \E result \in Range(all) : item = Summary(result)
<1> DEFINE items == [i \in DOMAIN all |-> Summary(all[i])]
<1>1. DOMAIN all = 1..Len(all) /\ Len(all) \in Nat /\ \A i \in 1..Len(all) : all[i] \in Finding
  OBVIOUS
<1>2. ASSUME NEW result \in Finding PROVE Summary(result) \in FeedbackItem
  BY DEF Finding, Summary, FeedbackItem
<1>3. items \in Seq(FeedbackItem)
  BY <1>1, <1>2
<1>4. DOMAIN items = DOMAIN all /\ \A i \in DOMAIN all : items[i] = Summary(all[i])
  OBVIOUS
<1>5. ASSUME NEW item \in Range(items) PROVE \E result \in Range(all) : item = Summary(result)
  <2> HIDE DEF items
  <2>1. PICK i \in DOMAIN all : item = Summary(all[i])
    BY <1>4 DEF Range
  <2>2. QED
    BY <2>1 DEF Range
<1>6. QED
  BY <1>3, <1>5

LEMMA WriteFeedbackKeeps == ASSUME ReviewIInv, WriteFeedback PROVE ReviewIInv'
<1> USE DEF WriteFeedback, caseVars
<1>0. /\ ReviewTypes /\ ReviewMemory /\ FeedbackOfRuns /\ AskedOf /\ CaseAsked
      /\ FindingsWell /\ FeedbackTrue /\ TitlesKept /\ PreviousOpen /\ CountsAdd
  BY DEF ReviewIInv
<1>1. PICK rest : rest = [i \in DOMAIN setAside |-> Untested(setAside[i])]
  OBVIOUS
<1>2. /\ rest \in Seq(Finding)
      /\ \A result : result \in Range(rest) <=> \E h \in Range(setAside) : result = Untested(h)
  BY <1>0, <1>1, RestNoted
<1>3. PICK all : all = findings \o rest
  OBVIOUS
<1>4. all \in Seq(Finding) /\ Range(all) = Range(findings) \cup Range(rest)
  BY <1>0, <1>2, <1>3, RangeOfJoined DEF ReviewTypes
<1>5. PICK items : items = [i \in DOMAIN all |-> Summary(all[i])]
  OBVIOUS
<1>6. /\ items \in Seq(FeedbackItem)
      /\ \A item \in Range(items) : \E result \in Range(all) : item = Summary(result)
  BY <1>4, <1>5, Summarised
<1>7. PICK file : file = [run |-> Run, items |-> items]
  OBVIOUS
<1>8. file \in FeedbackFile /\ file.run = Run /\ file.items = items
  BY <1>0, <1>6, <1>7, RunNumber DEF FeedbackFile
<1>9. findings' = all /\ feedback' = Append(feedback, file)
  BY <1>1, <1>3, <1>5, <1>7
<1>10. feedback' \in Seq(FeedbackFile) /\ Range(feedback') = Range(feedback) \cup {file}
  <2>1. feedback \in Seq(FeedbackFile)
    BY <1>0 DEF ReviewTypes
  <2>2. Append(feedback, file) \in Seq(FeedbackFile)
    BY <1>8, <2>1
  <2>3. Range(Append(feedback, file)) = Range(feedback) \cup {file}
    BY <2>1, RangeOfAppend
  <2>4. QED
    BY <1>9, <2>2, <2>3
<1>11. Run' = Run
  BY DEF Run
<1>12. ReviewTypes'
  BY <1>0, <1>4, <1>9, <1>10 DEF ReviewTypes
<1>13. ReviewMemory'
  BY DEF ReviewMemory
<1>14. FeedbackOfRuns'
  <2>1. Len(feedback') = Len(feedback) + 1 /\ Len(feedback) \in Nat /\ Run \in Nat
    BY <1>0, <1>8, <1>9, RunNumber DEF ReviewTypes
  <2>2. Len(feedback) < Run /\ \A f \in Range(feedback) : f.run <= Run
    BY <1>0 DEF FeedbackOfRuns
  <2>3. \A f \in Range(feedback') : f.run <= Run
    <3>1. file.run <= Run
      BY <1>8, <2>1
    <3>2. \A f \in Range(feedback) \cup {file} : f.run <= Run
      BY <2>2, <3>1
    <3>3. Range(feedback') = Range(feedback) \cup {file}
      BY <1>10
    <3>4. QED
      BY <3>2, <3>3
  <2>4. Len(feedback') <= Run
    BY <2>1, <2>2
  <2>5. reviewStep' = "tell"
    OBVIOUS
  <2>6. QED
    BY <1>11, <2>3, <2>4, <2>5 DEF FeedbackOfRuns
<1>15. AskedOf' /\ CaseAsked'
  BY <1>0, <1>11 DEF AskedOf, CaseAsked
<1>16. \A result \in Range(rest) : Consistent(result) /\ OnData(result) /\ result.status = "untested"
  BY <1>2 DEF Untested, Consistent, OnData
<1>17. FindingsWell'
  BY <1>0, <1>4, <1>9, <1>16 DEF FindingsWell
<1>18. FeedbackTrue'
  <2>1. ASSUME NEW result \in Range(findings)
        PROVE  /\ Consistent(result) /\ result.status # "untested"
               /\ \E c \in costed : c[1] = Run /\ c[2].id = result.id
    BY <1>0 DEF FindingsWell
  <2>2. ASSUME NEW result \in Range(rest), NEW c \in costed, c[1] = Run PROVE c[2].id # result.id
    <3>1. PICK h \in Range(setAside) : result = Untested(h)
      BY <1>2
    <3>2. result.id = h.id
      BY <3>1 DEF Untested
    <3>3. h.id \notin directories
      BY DEF Distinct, Range
    <3>4. c[2].id \in directories
      BY <1>0, <2>2 DEF AskedOf
    <3>5. QED
      BY <3>2, <3>3, <3>4
  <2>3. ASSUME NEW item \in Range(items)
        PROVE  /\ Consistent(item)
               /\ item.status = "untested" <=> \A c \in costed : c[1] = Run => c[2].id # item.id
    <3>1. PICK result \in Range(all) : item = Summary(result)
      BY <1>6
    <3>2. item.status = result.status /\ item.verdict = result.verdict /\ item.id = result.id
      BY <3>1 DEF Summary
    <3>3. CASE result \in Range(findings)
      BY <2>1, <3>2, <3>3 DEF Consistent
    <3>4. CASE result \in Range(rest)
      BY <1>16, <2>2, <3>2, <3>4 DEF Consistent
    <3>5. QED
      BY <1>4, <3>1, <3>3, <3>4
  <2>4. QED
    BY <1>0, <1>8, <1>10, <2>3, ZenonT(60) DEF FeedbackTrue
<1>19. TitlesKept'
  <2>1. SUFFICES ASSUME mode = "pipeline"
                 PROVE  {e.title : e \in Range(findings') \cup Range(queue') \cup Range(setAside')} =
                        {h.title : h \in Range(report)}
    BY DEF TitlesKept
  <2>2. {e.title : e \in Range(findings) \cup Range(queue) \cup Range(setAside)} = {h.title : h \in Range(report)}
    BY <1>0, <2>1 DEF TitlesKept
  <2>3. Range(queue) = {} /\ Range(queue') = {} /\ Range(setAside') = {}
    BY EmptyRange
  <2>4. ASSUME NEW h \in Range(setAside) PROVE \E result \in Range(rest) : result.title = h.title
    <3>1. Untested(h) \in Range(rest) /\ Untested(h).title = h.title
      BY <1>2 DEF Untested
    <3>2. QED
      BY <3>1
  <2>5. ASSUME NEW result \in Range(rest) PROVE \E h \in Range(setAside) : result.title = h.title
    <3>1. PICK h \in Range(setAside) : result = Untested(h)
      BY <1>2
    <3>2. QED
      BY <3>1 DEF Untested
  <2>6. {e.title : e \in Range(findings') \cup Range(queue') \cup Range(setAside')} =
        {e.title : e \in Range(findings) \cup Range(queue) \cup Range(setAside)}
    BY <1>4, <1>9, <2>3, <2>4, <2>5
  <2>7. QED
    BY <2>2, <2>6
<1>20. CountsAdd'
  BY <1>0 DEF CountsAdd
<1>21. PreviousOpen'
  <2>1. SUFFICES ASSUME previous.status = "found" PROVE PreviousOpen'
    BY DEF PreviousOpen
  <2>2. ~(file.run < Run)
    BY <1>0, <1>8, RunNumber
  <2>3. QED
    BY <1>0, <1>8, <1>10, <1>11, <2>1, <2>2 DEF PreviousOpen
<1>22. QED
  BY <1>12, <1>13, <1>14, <1>15, <1>17, <1>18, <1>19, <1>20, <1>21 DEF ReviewIInv

\* The findings by their status, and the judged ones by their verdict.
LEMMA FindingsCounted ==
    ASSUME ReviewTypes, FindingsWell
    PROVE  /\ Len(findings) = Number("judged") + Number("unverifiable") + Number("untested")
           /\ Number("judged") = VerdictCount("supported") + VerdictCount("rejected") + VerdictCount("needs_data")
<1>1. PICK D : D = DOMAIN findings
  OBVIOUS
<1>2. D = 1..Len(findings) /\ Len(findings) \in Nat /\ \A i \in D : findings[i] \in Finding
  BY <1>1 DEF ReviewTypes
<1>3. IsFiniteSet(D) /\ Cardinality(D) = Len(findings)
  <2>1. PICK n \in Nat : n = Len(findings)
    BY <1>2
  <2>2. IsFiniteSet(1..n) /\ Cardinality(1..n) = IF 1 > n THEN 0 ELSE n - 1 + 1
    BY FS_Interval
  <2>3. QED
    BY <1>2, <2>1, <2>2
<1>4. \A i \in D : Consistent(findings[i]) /\ findings[i].status \in FindingStatus
  BY <1>1, <1>2 DEF FindingsWell, Range, Finding
<1> DEFINE J == {i \in D : findings[i].status = "judged"}
           U == {i \in D : findings[i].status = "unverifiable"}
           N == {i \in D : findings[i].status = "untested"}
           S == {i \in D : findings[i].status = "judged" /\ findings[i].verdict = "supported"}
           R == {i \in D : findings[i].status = "judged" /\ findings[i].verdict = "rejected"}
           O == {i \in D : findings[i].status = "judged" /\ findings[i].verdict = "needs_data"}
<1>5. /\ Number("judged") = Cardinality(J) /\ Number("unverifiable") = Cardinality(U)
      /\ Number("untested") = Cardinality(N) /\ VerdictCount("supported") = Cardinality(S)
      /\ VerdictCount("rejected") = Cardinality(R) /\ VerdictCount("needs_data") = Cardinality(O)
  BY <1>1 DEF Number, VerdictCount
<1>6. PICK L, V : L = U \cup N /\ V = R \cup O
  OBVIOUS
<1>7. J \cup L = D /\ J \cap L = {} /\ U \cup N = L /\ U \cap N = {}
  BY <1>4, <1>6 DEF FindingStatus
<1>8. S \cup V = J /\ S \cap V = {} /\ R \cup O = V /\ R \cap O = {}
  BY <1>4, <1>6 DEF Consistent
<1> HIDE DEF J, U, N, S, R, O
<1>9. /\ IsFiniteSet(J) /\ IsFiniteSet(L) /\ Cardinality(J) \in Nat
      /\ Cardinality(D) = Cardinality(J) + Cardinality(L)
  BY <1>3, <1>7, PartsAddUp
<1>10. /\ Cardinality(U) \in Nat /\ Cardinality(N) \in Nat
       /\ Cardinality(L) = Cardinality(U) + Cardinality(N)
  BY <1>7, <1>9, PartsAddUp
<1>11. IsFiniteSet(V) /\ Cardinality(J) = Cardinality(S) + Cardinality(V) /\ Cardinality(S) \in Nat
  BY <1>8, <1>9, PartsAddUp
<1>12. /\ Cardinality(R) \in Nat /\ Cardinality(O) \in Nat
       /\ Cardinality(V) = Cardinality(R) + Cardinality(O)
  BY <1>8, <1>11, PartsAddUp
<1>13. QED
  BY <1>3, <1>5, <1>9, <1>10, <1>11, <1>12

LEMMA TellReviewKeeps ==
    ASSUME ReviewIInv, NEW summarized \in BOOLEAN, TellReview(summarized) PROVE ReviewIInv'
<1>1. report' \in Seq(ReviewIdea)
  BY DEF ReviewIInv, ReviewTypes, TellReview
<1>2. CountsAdd'
  <2>1. CASE mode # "pipeline"
    BY <2>1 DEF TellReview, ReviewIInv, CountsAdd
  <2>2. CASE mode = "pipeline"
    <3>1. reviewTold' = [of |-> "result", total |-> Len(findings), judged |-> Number("judged"),
                     unverifiable |-> Number("unverifiable"), untested |-> Number("untested"),
                     supported |-> VerdictCount("supported"), rejected |-> VerdictCount("rejected"),
                     open |-> VerdictCount("needs_data"), summary |-> summarized]
      BY <2>2 DEF TellReview
    <3>2. /\ Len(findings) = Number("judged") + Number("unverifiable") + Number("untested")
          /\ Number("judged") = VerdictCount("supported") + VerdictCount("rejected") + VerdictCount("needs_data")
      BY FindingsCounted DEF ReviewIInv
    <3>3. QED
      BY <3>1, <3>2 DEF CountsAdd
  <2>3. QED
    BY <2>1, <2>2
<1>3. QED
  BY <1>1, <1>2, ClearKeeps DEF TellReview

LEMMA ReviewInductive == ReviewIInv /\ [ReviewNext]_reviewVars => ReviewIInv'
<1> SUFFICES ASSUME ReviewIInv, [ReviewNext]_reviewVars PROVE ReviewIInv'
  OBVIOUS
<1>1. CASE StartReview
  BY <1>1, StartReviewKeeps
<1>2. CASE \E how \in {"deep_dive", "adhoc"}, id \in 1..2 : StartAlone(how, id)
  BY <1>2, StartAloneKeeps
<1>3. CASE ProposalFails
  BY <1>3, AbortKeeps DEF ProposalFails
<1>4. CASE \E proposal \in Proposals : Propose(proposal)
  BY <1>4, ProposeKeeps
<1>5. CASE Collides
  BY <1>5, AbortKeeps DEF Collides
<1>6. CASE \E internal, indices \in BOOLEAN : MakePlan(internal, indices)
  BY <1>6, MakePlanKeeps
<1>7. CASE PlanFails \/ CodeFails \/ WriteFeedback \/ ReviewDies
  BY <1>7, PlanFailsKeeps, CodeFailsKeeps, WriteFeedbackKeeps, ReviewDiesKeeps
<1>8. CASE \E some \in BOOLEAN : LoadIndexData(some)
  BY <1>8, LoadIndexDataKeeps
<1>9. CASE \E outcome \in {"succeeded", "failed"} : RunCode(outcome)
  BY <1>9, RunCodeKeeps
<1>10. CASE \E answer \in ModelAnswer : Pronounce(answer)
  BY <1>10, PronounceKeeps
<1>11. CASE \E summarized \in BOOLEAN : TellReview(summarized)
  BY <1>11, TellReviewKeeps
<1>12. CASE UNCHANGED reviewVars
  <2>1. UNCHANGED <<reviewsLeft, mode, reviewStep, report, queue, setAside, directories, plan, obtained,
                    executed, findings, feedback, previous, reviewTold, costed>>
    BY <1>12 DEF reviewVars
  <2>2. Run' = Run
    BY <2>1 DEF Run
  <2>3. ReviewTypes' /\ ReviewMemory' /\ FeedbackOfRuns' /\ AskedOf' /\ CaseAsked'
    BY <2>1, <2>2 DEF ReviewIInv, ReviewTypes, ReviewMemory, FeedbackOfRuns, AskedOf, CaseAsked
  <2>4. FindingsWell' /\ FeedbackTrue' /\ TitlesKept' /\ PreviousOpen' /\ CountsAdd'
    BY <2>1, <2>2 DEF ReviewIInv, FindingsWell, FeedbackTrue, TitlesKept, PreviousOpen, CountsAdd
  <2>5. QED
    BY <2>3, <2>4 DEF ReviewIInv
<1>13. QED
  BY <1>1, <1>2, <1>3, <1>4, <1>5, <1>6, <1>7, <1>8, <1>9, <1>10, <1>11, <1>12 DEF ReviewNext

LEMMA ReviewSafe == ReviewIInv => ReviewTypeOK /\ ReviewSound
<1> SUFFICES ASSUME ReviewIInv PROVE ReviewTypeOK /\ ReviewSound
  OBVIOUS
<1>0. /\ ReviewTypes /\ ReviewMemory /\ FeedbackOfRuns /\ AskedOf /\ CaseAsked
      /\ FindingsWell /\ FeedbackTrue /\ TitlesKept /\ PreviousOpen /\ CountsAdd
  BY DEF ReviewIInv
<1>1. ReviewTypeOK
  <2>1. Run \in 0..MaxReviews /\ Len(feedback) \in Nat /\ Len(feedback) <= Run
    BY <1>0, RunNumber DEF ReviewTypes, FeedbackOfRuns
  <2>2. Len(feedback) <= MaxReviews
    BY <2>1, RunsCounted
  <2>3. QED
    BY <1>0, <2>2 DEF ReviewTypes, ReviewTypeOK, CodeOutcome
<1>2. JudgedOnData
  <2>1. ASSUME NEW i \in DOMAIN findings PROVE findings[i] \in Finding /\ findings[i] \in Range(findings)
    BY <1>0 DEF ReviewTypes, Range
  <2>2. \A i \in DOMAIN findings : Consistent(findings[i]) /\ OnData(findings[i])
                                    /\ findings[i].status \in FindingStatus
    BY <1>0, <2>1 DEF FindingsWell, Finding
  <2>3. QED
    BY <2>2 DEF JudgedOnData, Consistent, OnData, FindingStatus
<1>3. FeedbackWhole
  <2>1. \A number : \A h : h \in AskedIn(number) <=> \E c \in costed : c[1] = number /\ c[2] = h
    BY DEF AskedIn
  <2>2. \A f \in Range(feedback) : \A item \in Range(f.items) :
           item.status = "untested" <=> item.id \notin {h.id : h \in AskedIn(f.run)}
    BY <1>0, <2>1 DEF FeedbackTrue
  <2>3. mode = "pipeline" /\ reviewStep # "idle" =>
           \A i \in DOMAIN report : report[i] \in AskedIn(Run) => report[i].high
    BY <1>0, <2>1 DEF AskedOf
  <2>4. ASSUME mode = "pipeline", reviewStep = "tell"
        PROVE  {findings[i].title : i \in DOMAIN findings} = {report[i].title : i \in DOMAIN report}
    <3>1. Range(queue) = {} /\ Range(setAside) = {}
      BY <1>0, <2>4, EmptyRange DEF ReviewMemory
    <3>2. {e.title : e \in Range(findings)} = {h.title : h \in Range(report)}
      BY <1>0, <2>4, <3>1 DEF TitlesKept
    <3>3. {e.title : e \in Range(findings)} = {findings[i].title : i \in DOMAIN findings}
      BY DEF Range
    <3>4. {h.title : h \in Range(report)} = {report[i].title : i \in DOMAIN report}
      BY DEF Range
    <3>5. QED
      BY <3>2, <3>3, <3>4
  <2>5. QED
    BY <2>2, <2>3, <2>4 DEF FeedbackWhole
<1>4. QED
  BY <1>0, <1>1, <1>2, <1>3 DEF ReviewSound

\* What a review judges it judges on data, its feedback names every hypothesis of the report and none it
\* left out as worked on, a deep dive goes on from the newest open result, and the numbers told add up.
THEOREM AlwaysReviewedSoundly == ReviewSpec => [](ReviewTypeOK /\ ReviewSound)
<1>1. ReviewInit => ReviewIInv
  BY ReviewInitially
<1>2. ReviewIInv /\ [ReviewNext]_reviewVars => ReviewIInv'
  BY ReviewInductive
<1>3. ReviewIInv => ReviewTypeOK /\ ReviewSound
  BY ReviewSafe
<1>4. QED
  BY <1>1, <1>2, <1>3, PTL DEF ReviewSpec

-----------------------------------------------------------------------------
(* The diagnosis of a symbol that was not sold (UnsoldDiagnosis) *)

SimState == [high : Int, trigger : Int]
Observation == [at : Int, price : Int]
LogLine == [at : Nat, price : Int, weak : BOOLEAN, high : Int]
Purchase == [at |-> 0, price |-> BOUGHT_AT, weak |-> FALSE, high |-> 0]

\* h is the highest price of the purchase and of the first n of q.
Peak(h, q, n) ==
    /\ h \in Int /\ h >= BOUGHT_AT /\ \A i \in 1..n : q[i] <= h
    /\ h = BOUGHT_AT \/ \E i \in 1..n : q[i] = h
PriceOf(q) == [i \in 1..Len(q) |-> q[i].price]
HighIn(p, m) == Max({p[i] : i \in 1..m} \cup {BOUGHT_AT})
StopAt(pair, high) == IF high - BOUGHT_AT >= LOCK_AT THEN pair.lock ELSE pair.stop

\* By the prices p the rules say at minute m that it is to be sold.
DueIn(pair, w, p, m) ==
    \/ p[m] <= HighIn(p, m) - StopAt(pair, HighIn(p, m))
    \/ p[m] <= LOWER_LINE /\ p[m] <= w
Unmet(pair, w, p, sold) == \A m \in 1..Len(p) : m # sold => ~DueIn(pair, w, p, m)

UnsoldRest ==
    /\ exitPair \in ExitPairs /\ weakAt \in Int /\ path \in Seq(Int) /\ barsKept \in BOOLEAN
    /\ Len(path) <= CLOSE_AT
    /\ followed \in Int /\ soldAt \in {0, Len(path)} /\ refusals \in Nat
    /\ hindrances \subseteq {"blocked", "missed", "restarted"}
    /\ lastJudged \in {"BUY", "SELL", "none", "unknown"}

\* The log begins with the purchase, and each other line is of a minute, in their order.
LogOf(log, p, w) ==
    /\ log \in Seq(LogLine) /\ Len(log) >= 1 /\ log[1] = Purchase
    /\ \A i \in 2..Len(log) : log[i].at \in 1..Len(p) /\ log[i].price = p[log[i].at]
                              /\ log[i].weak = (log[i].price <= w)
    /\ \A i \in 1..Len(log), j \in 1..Len(log) : i < j => log[i].at < log[j].at

SellSaid ==
    /\ saidSell \in 0..Len(path)
    /\ saidSell # 0 => /\ \E i \in 2..Len(lines) : lines[i].at = saidSell
                       /\ soldAt = saidSell \/ refusals > 0
    /\ saidSell = 0 => lastJudged # "SELL"

\* Unless it was hindered the loop sold at the first minute that was due, with the highest price
\* since the purchase in mind, and judged otherwise only at the first minute and at the sale.
Unhindered ==
    hindrances = {} =>
        /\ Unmet(exitPair, weakAt, path, soldAt)
        /\ soldAt = 0 => /\ followed = HighIn(path, Len(path)) /\ Len(path) < LIQUIDATE_AT
                         /\ lastJudged = IF Len(path) = 0 THEN "BUY" ELSE "none"
        /\ soldAt <= LIQUIDATE_AT
        /\ \A i \in 1..Len(lines) : lines[i].at \in {0, 1, soldAt}

UnsoldIInv == UnsoldRest /\ LogOf(lines, path, weakAt) /\ SellSaid /\ Unhindered

LEMMA UnsoldNumbers ==
    /\ BOUGHT_AT \in Int /\ LOWER_LINE \in Int /\ LOCK_AT \in Int /\ TOLERANCE \in Nat /\ STALL \in Nat
    /\ CLOSE_AT \in Nat /\ LIQUIDATE_AT \in Nat /\ LIQUIDATE_AT # 0
BY UnsoldAssumption

LEMMA ExitPairNumbers ==
    ASSUME NEW pair \in ExitPairs, NEW high
    PROVE  StopAt(pair, high) \in Nat /\ StopAt(pair, high) # 0
BY UnsoldAssumption DEF StopAt

\* The largest of some numbers is the one that none exceeds.
LEMMA MaxIs ==
    ASSUME NEW S \in SUBSET Int, NEW h \in S, \A e \in S : e <= h
    PROVE  Max(S) = h
<1>1. \E m \in S : \A e \in S : m >= e
  OBVIOUS
<1>2. Max(S) \in S /\ \A e \in S : Max(S) >= e
  BY <1>1, Zenon DEF Max
<1>3. PICK m : m = Max(S)
  OBVIOUS
<1>4. m \in S /\ m >= h
  BY <1>2, <1>3
<1>5. m \in Int /\ h \in Int /\ m <= h
  BY <1>4
<1>6. m = h
  BY <1>4, <1>5
<1>7. QED
  BY <1>3, <1>6

LEMMA PeakExists ==
    ASSUME NEW p \in Seq(Int), NEW n \in 0..Len(p)
    PROVE  \E h : Peak(h, p, n)
<1> DEFINE F == {m \in 0..n : \E h : Peak(h, p, m)}
<1>1. 0 \in F
  <2>1. Peak(BOUGHT_AT, p, 0)
    BY UnsoldNumbers DEF Peak
  <2>2. QED
    BY <2>1
<1>2. ASSUME NEW m \in 1..n, m - 1 \in F PROVE m \in F
  <2>1. PICK h : Peak(h, p, m - 1)
    BY <1>2
  <2>2. p[m] \in Int
    OBVIOUS
  <2>3. CASE p[m] <= h
    <3>1. Peak(h, p, m)
      BY <2>1, <2>2, <2>3 DEF Peak
    <3>2. QED
      BY <3>1
  <2>4. CASE p[m] > h
    <3>1. Peak(p[m], p, m)
      BY <2>1, <2>2, <2>4, UnsoldNumbers DEF Peak
    <3>2. QED
      BY <3>1
  <2>5. QED
    BY <2>1, <2>2, <2>3, <2>4 DEF Peak
<1>3. n \in F
  <2>1. n \in Nat /\ n \in 0..n
    OBVIOUS
  <2> HIDE DEF F
  <2>2. \A m \in 0..n : m \in F
    BY <1>1, <1>2, <2>1, CountingUp
  <2>3. QED
    BY <2>1, <2>2
<1>4. QED
  BY <1>3

LEMMA PeakIsHigh ==
    ASSUME NEW p \in Seq(Int), NEW n \in 0..Len(p), NEW h, Peak(h, p, n)
    PROVE  HighIn(p, n) = h
<1> DEFINE S == {p[i] : i \in 1..n} \cup {BOUGHT_AT}
<1>1. S \in SUBSET Int
  BY UnsoldNumbers
<1>2. h \in S /\ \A e \in S : e <= h
  BY UnsoldNumbers DEF Peak
<1> HIDE DEF S
<1>3. Max(S) = h
  BY <1>1, <1>2, MaxIs
<1>4. QED
  BY <1>3 DEF S, HighIn

LEMMA HighIsPeak ==
    ASSUME NEW p \in Seq(Int), NEW n \in 0..Len(p)
    PROVE  HighIn(p, n) \in Int /\ Peak(HighIn(p, n), p, n)
<1>1. PICK h : Peak(h, p, n)
  BY PeakExists
<1>2. HighIn(p, n) = h
  BY <1>1, PeakIsHigh
<1>3. QED
  BY <1>1, <1>2 DEF Peak

\* The minutes before stay what they were when one is added.
LEMMA HighGoesOn ==
    ASSUME NEW p \in Seq(Int), NEW e \in Int
    PROVE  /\ Append(p, e) \in Seq(Int) /\ Len(Append(p, e)) = Len(p) + 1 /\ Append(p, e)[Len(p) + 1] = e
           /\ \A m \in 1..Len(p) : Append(p, e)[m] = p[m] /\ HighIn(Append(p, e), m) = HighIn(p, m)
           /\ HighIn(Append(p, e), Len(p) + 1) = HigherOf(HighIn(p, Len(p)), e)
<1>1. PICK q : q = Append(p, e)
  OBVIOUS
<1>2. PICK n \in Nat : n = Len(p)
  OBVIOUS
<1>3. q \in Seq(Int) /\ Len(q) = n + 1 /\ q[n + 1] = e /\ \A m \in 1..n : q[m] = p[m]
  BY <1>1, <1>2
<1>4. ASSUME NEW m \in 1..n PROVE HighIn(q, m) = HighIn(p, m)
  <2>1. \A i \in 1..m : q[i] = p[i]
    BY <1>3
  <2>2. {q[i] : i \in 1..m} = {p[i] : i \in 1..m}
    BY <2>1
  <2>3. QED
    BY <2>2 DEF HighIn
<1>5. HighIn(q, n + 1) = HigherOf(HighIn(p, n), e)
  <2>1. PICK h : h = HighIn(p, n)
    OBVIOUS
  <2>2. Peak(h, p, n) /\ h \in Int
    BY <1>2, <2>1, HighIsPeak
  <2>3. PICK k \in Int : k = HigherOf(h, e)
    BY <2>2 DEF HigherOf
  <2>4. k >= h /\ k >= e /\ (k = h \/ k = e)
    BY <2>2, <2>3 DEF HigherOf
  <2>5. Peak(k, q, n + 1)
    <3>1. k >= BOUGHT_AT
      BY <2>2, <2>4, UnsoldNumbers DEF Peak
    <3>2. \A i \in 1..(n + 1) : q[i] <= k
      BY <1>3, <1>2, <2>2, <2>4 DEF Peak
    <3>3. k = BOUGHT_AT \/ \E i \in 1..(n + 1) : q[i] = k
      <4>1. CASE k = e
        BY <1>3, <4>1
      <4>2. CASE k = h
        BY <1>3, <2>2, <4>2 DEF Peak
      <4>3. QED
        BY <2>4, <4>1, <4>2
    <3>4. QED
      BY <3>1, <3>2, <3>3 DEF Peak
  <2>6. n + 1 \in 0..Len(q)
    BY <1>3
  <2>7. PICK m : m = n + 1
    OBVIOUS
  <2>8. HighIn(q, m) = k
    BY <1>3, <2>5, <2>6, <2>7, PeakIsHigh
  <2>9. QED
    BY <2>1, <2>3, <2>7, <2>8
<1>6. QED
  BY <1>1, <1>2, <1>3, <1>4, <1>5

LEMMA ClearGoesOn ==
    ASSUME NEW pair, NEW w, NEW p \in Seq(Int), NEW e \in Int, Unmet(pair, w, p, 0),
           NEW sold \in {0, Len(p) + 1},
           sold = 0 => ~DueIn(pair, w, Append(p, e), Len(p) + 1)
    PROVE  Unmet(pair, w, Append(p, e), sold)
<1>1. PICK q : q = Append(p, e)
  OBVIOUS
<1>2. /\ Len(q) = Len(p) + 1
      /\ \A m \in 1..Len(p) : q[m] = p[m] /\ HighIn(q, m) = HighIn(p, m)
  BY <1>1, HighGoesOn
<1>3. ASSUME NEW m \in 1..Len(q), m # sold PROVE ~DueIn(pair, w, q, m)
  <2>1. CASE m \in 1..Len(p)
    <3>1. ~DueIn(pair, w, p, m)
      BY <2>1 DEF Unmet
    <3>2. q[m] = p[m] /\ HighIn(q, m) = HighIn(p, m)
      BY <1>2, <2>1
    <3>3. QED
      BY <3>1, <3>2 DEF DueIn
  <2>2. CASE m = Len(p) + 1
    BY <1>1, <1>3, <2>2
  <2>3. QED
    BY <1>2, <2>1, <2>2
<1>4. Unmet(pair, w, q, sold)
  BY <1>3 DEF Unmet
<1>5. QED
  BY <1>1, <1>4

\* One more minute leaves the log what it was, and a line of that minute goes on from it.
LEMMA LogGoesOn ==
    ASSUME NEW log, NEW p \in Seq(Int), NEW w \in Int, NEW e \in Int, LogOf(log, p, w), NEW high \in Int
    PROVE  LET more == [at |-> Len(p) + 1, price |-> e, weak |-> e <= w, high |-> high]
           IN  /\ LogOf(log, Append(p, e), w)
               /\ LogOf(Append(log, more), Append(p, e), w)
               /\ Len(Append(log, more)) = Len(log) + 1 /\ Append(log, more)[Len(log) + 1] = more
               /\ \A i \in 1..Len(log) : Append(log, more)[i] = log[i]
<1>1. PICK q : q = Append(p, e)
  OBVIOUS
<1>2. PICK n \in Nat : n = Len(p)
  OBVIOUS
<1>3. q \in Seq(Int) /\ Len(q) = n + 1 /\ q[n + 1] = e /\ \A m \in 1..n : q[m] = p[m]
  BY <1>1, <1>2
<1>4. PICK more : more = [at |-> n + 1, price |-> e, weak |-> e <= w, high |-> high]
  OBVIOUS
<1>5. /\ more \in LogLine /\ more.at = n + 1 /\ more.price = e /\ more.weak = (e <= w)
  BY <1>4 DEF LogLine
<1>6. /\ log \in Seq(LogLine) /\ Len(log) >= 1 /\ log[1] = Purchase
      /\ \A i \in 2..Len(log) : log[i].at \in 1..n /\ log[i].price = p[log[i].at]
                                /\ log[i].weak = (log[i].price <= w)
      /\ \A i \in 1..Len(log), j \in 1..Len(log) : i < j => log[i].at < log[j].at
  BY <1>2 DEF LogOf
<1>7. PICK k \in Nat : k = Len(log)
  BY <1>6
<1>8. PICK new : new = Append(log, more)
  OBVIOUS
<1>9. /\ new \in Seq(LogLine) /\ Len(new) = k + 1 /\ new[k + 1] = more
      /\ \A i \in 1..k : new[i] = log[i]
  BY <1>5, <1>6, <1>7, <1>8
<1>10. \A i \in 1..k : log[i].at \in 0..n
  BY <1>2, <1>6, <1>7 DEF Purchase
<1>11. \A i \in 2..k : /\ log[i].at \in 1..(n + 1) /\ log[i].price = q[log[i].at]
                       /\ log[i].weak = (log[i].price <= w)
  <2>1. ASSUME NEW i \in 2..k
        PROVE  log[i].at \in 1..(n + 1) /\ log[i].price = q[log[i].at] /\ log[i].weak = (log[i].price <= w)
    <3>1. log[i].at \in 1..n /\ log[i].price = p[log[i].at] /\ log[i].weak = (log[i].price <= w)
      BY <1>6, <1>7
    <3>2. PICK m \in 1..n : m = log[i].at
      BY <3>1
    <3>3. q[m] = p[m] /\ m \in 1..(n + 1)
      BY <1>3
    <3>4. QED
      BY <3>1, <3>2, <3>3
  <2>2. QED
    BY <2>1
<1>12. LogOf(log, q, w)
  BY <1>3, <1>6, <1>7, <1>11 DEF LogOf
<1>13. LogOf(new, q, w)
  <2>1. ASSUME NEW i \in 2..(k + 1)
        PROVE  new[i].at \in 1..Len(q) /\ new[i].price = q[new[i].at] /\ new[i].weak = (new[i].price <= w)
    <3>1. CASE i \in 2..k
      <4>0. i \in 1..k
        BY <3>1
      <4>1. new[i] = log[i]
        BY <1>9, <4>0
      <4>2. QED
        BY <1>3, <1>11, <3>1, <4>1
    <3>2. CASE i = k + 1
      BY <1>3, <1>5, <1>9, <3>2
    <3>3. QED
      BY <3>1, <3>2
  <2>2. ASSUME NEW i \in 1..(k + 1), NEW j \in 1..(k + 1), i < j PROVE new[i].at < new[j].at
    <3>1. CASE j \in 1..k
      <4>1. new[i] = log[i] /\ new[j] = log[j] /\ i \in 1..k
        BY <1>9, <2>2, <3>1
      <4>2. log[i].at < log[j].at
        BY <1>6, <1>7, <2>2, <3>1, <4>1
      <4>3. QED
        BY <4>1, <4>2
    <3>2. CASE j = k + 1
      BY <1>5, <1>9, <1>10, <2>2, <3>2
    <3>3. QED
      BY <3>1, <3>2
  <2>3. Len(new) >= 1 /\ new[1] = Purchase
    BY <1>6, <1>7, <1>9
  <2>4. QED
    BY <1>9, <2>1, <2>2, <2>3 DEF LogOf
<1>14. QED
  BY <1>1, <1>2, <1>4, <1>7, <1>8, <1>9, <1>12, <1>13

-----------------------------------------------------------------------------
(* What the diagnosis makes of it. *)

SimStart == [high |-> BOUGHT_AT, trigger |-> -1]

\* What holds before the first observation, and goes on from each to the next, holds of the whole.
LEMMA SimulationKeeps ==
    ASSUME NEW q \in Seq(Observation), NEW P, <<0, SimStart>> \in P,
           \A i \in 1..Len(q) : \A c \in SimState : <<i - 1, c>> \in P => <<i, SimulateStep(c, q[i])>> \in P
    PROVE  LET r == FoldLeft(SimulateStep, SimStart, q) IN r \in SimState /\ <<Len(q), r>> \in P
<1> DEFINE B == SimState
           T == Observation
           h == [ce \in B \X T |-> SimulateStep(ce[1], ce[2])]
           g == CHOOSE f : f = [S \in SUBSET (DOMAIN q) |->
                   IF S = {} THEN SimStart ELSE SimulateStep(f[S \ {Max(S)}], q[Max(S)])]
<1>1. FoldLeft(SimulateStep, SimStart, q) = g[DOMAIN q]
  BY DEF FoldLeft, MapThenFoldSet
<1>2. PICK n \in Nat : n = Len(q)
  OBVIOUS
<1>3. DOMAIN q = 1..n /\ q \in [1..n -> T]
  BY <1>2
<1>4. \A c \in B, e \in T : SimulateStep(c, e) \in B
  BY DEF SimulateStep, FollowHigh, HigherOf, SimState, Observation
<1>5. h \in [B \X T -> B] /\ \A c \in B, e \in T : h[<<c, e>>] = SimulateStep(c, e)
  BY <1>4
<1>6. SimStart \in B
  BY UnsoldNumbers DEF SimStart, SimState
<1> HIDE DEF h
<1>7. PICK f \in [SUBSET (1..n) -> B] : Folds(f, h, SimStart, q, n)
  BY <1>3, <1>5, <1>6, FoldsExist
<1>8. f = [S \in SUBSET (DOMAIN q) |->
              IF S = {} THEN SimStart ELSE SimulateStep(f[S \ {Max(S)}], q[Max(S)])]
  <2>1. ASSUME NEW S \in SUBSET (1..n)
        PROVE  f[S] = IF S = {} THEN SimStart ELSE SimulateStep(f[S \ {Max(S)}], q[Max(S)])
    <3>1. CASE S = {}
      BY <1>7, <3>1 DEF Folds
    <3>2. CASE S # {}
      <4>0. S \in SUBSET (0..n)
        OBVIOUS
      <4>1. Max(S) \in S
        BY <3>2, <4>0, Largest
      <4>2. f[S \ {Max(S)}] \in B /\ q[Max(S)] \in T
        BY <1>3, <1>7, <4>1
      <4>3. f[S] = h[<<f[S \ {Max(S)}], q[Max(S)]>>]
        BY <1>7, <3>2 DEF Folds
      <4>4. QED
        BY <1>5, <3>2, <4>2, <4>3
    <3>3. QED
      BY <3>1, <3>2
  <2>2. QED
    BY <1>3, <1>7, <2>1
<1>9. g = [S \in SUBSET (DOMAIN q) |->
              IF S = {} THEN SimStart ELSE SimulateStep(g[S \ {Max(S)}], q[Max(S)])]
  BY <1>8, Zenon
<1> HIDE DEF g
<1>10. Carries(P, B, T, g, h, SimStart, q, n)
  <2>1. g[{}] = SimStart
    BY <1>9
  <2>2. ASSUME NEW S \in SUBSET (1..n), S # {}, g[S \ {Max(S)}] \in B
        PROVE  g[S] = h[<<g[S \ {Max(S)}], q[Max(S)]>>]
    <3>0. S \in SUBSET (0..n)
      OBVIOUS
    <3>1. Max(S) \in S
      BY <2>2, <3>0, Largest
    <3>2. q[Max(S)] \in T
      BY <1>3, <3>1
    <3>3. g[S] = SimulateStep(g[S \ {Max(S)}], q[Max(S)])
      BY <1>3, <1>9, <2>2
    <3>4. QED
      BY <1>5, <2>2, <3>2, <3>3
  <2>3. ASSUME NEW i \in 1..n, NEW c \in B, <<i - 1, c>> \in P PROVE <<i, h[<<c, q[i]>>]>> \in P
    <3>1. q[i] \in T /\ <<i, SimulateStep(c, q[i])>> \in P
      BY <1>2, <1>3, <2>3
    <3>2. QED
      BY <1>5, <3>1
  <2>4. QED
    BY <1>3, <1>5, <1>6, <2>1, <2>2, <2>3 DEF Carries
<1>11. g[1..n] \in B /\ <<n, g[1..n]>> \in P
  BY <1>10, FoldKeeps
<1>12. QED
  BY <1>1, <1>2, <1>3, <1>11

\* At its i-th observation the diagnosis, which follows the highest of them, finds a condition met.
FoundAt(q, i) == ExitDue(q[i].price, HighIn(PriceOf(q), i), WeakAt(q[i].at))

\* It tells the first of them.
LEMMA FirstIsFound ==
    ASSUME NEW q \in Seq(Observation), \A i \in 1..Len(q) : q[i].at # -1
    PROVE  LET r == FoldLeft(SimulateStep, SimStart, q)
           IN  \/ r.trigger = -1 /\ \A j \in 1..Len(q) : ~FoundAt(q, j)
               \/ \E j \in 1..Len(q) : /\ r.trigger = q[j].at /\ FoundAt(q, j)
                                       /\ \A k \in 1..(j - 1) : ~FoundAt(q, k)
<1> DEFINE p == PriceOf(q)
           Told(i, c) ==
               /\ c.high = HighIn(p, i)
               /\ \/ c.trigger = -1 /\ \A j \in 1..i : ~FoundAt(q, j)
                  \/ \E j \in 1..i : /\ c.trigger = q[j].at /\ FoundAt(q, j)
                                     /\ \A k \in 1..(j - 1) : ~FoundAt(q, k)
           P == {ic \in (0..Len(q)) \X SimState : Told(ic[1], ic[2])}
<1>1. PICK n \in Nat : n = Len(q)
  OBVIOUS
<1>2. p \in Seq(Int) /\ Len(p) = n /\ \A i \in 1..n : p[i] = q[i].price /\ q[i] \in Observation
  <2>1. \A i \in 1..n : q[i] \in Observation
    BY <1>1
  <2>2. \A i \in 1..n : q[i].price \in Int
    BY <2>1 DEF Observation
  <2>3. p = [i \in 1..n |-> q[i].price]
    BY <1>1 DEF PriceOf
  <2> HIDE DEF p
  <2>4. QED
    BY <2>1, <2>2, <2>3
<1> HIDE DEF p
<1>3. HighIn(p, 0) = BOUGHT_AT
  <2>1. Peak(BOUGHT_AT, p, 0)
    BY UnsoldNumbers DEF Peak
  <2>2. 0 \in 0..Len(p)
    BY <1>2
  <2>3. QED
    BY <1>2, <2>1, <2>2, PeakIsHigh
<1>4. <<0, SimStart>> \in P
  <2>1. SimStart \in SimState /\ SimStart.high = BOUGHT_AT /\ SimStart.trigger = -1
    BY UnsoldNumbers DEF SimStart, SimState
  <2>2. 0 \in 0..Len(q) /\ \A j \in 1..0 : ~FoundAt(q, j)
    OBVIOUS
  <2>3. Told(0, SimStart)
    BY <1>3, <2>1, <2>2
  <2>4. QED
    BY <2>1, <2>2, <2>3
<1>5. ASSUME NEW i \in 1..Len(q), NEW c \in SimState, <<i - 1, c>> \in P
      PROVE  <<i, SimulateStep(c, q[i])>> \in P
  <2>1. Told(i - 1, c)
    BY <1>5
  <2>2. q[i] \in Observation /\ q[i].price = p[i] /\ p[i] \in Int /\ q[i].at \in Int
    BY <1>1, <1>2 DEF Observation
  <2>3. HighIn(p, i) = HigherOf(HighIn(p, i - 1), p[i]) /\ HighIn(p, i) \in Int
    <3>1. PICK m \in 0..n : m = i - 1
      BY <1>1
    <3>2. PICK a, b : a = HighIn(p, m) /\ b = HighIn(p, m + 1)
      OBVIOUS
    <3>3. Peak(a, p, m) /\ Peak(b, p, m + 1) /\ a \in Int /\ b \in Int /\ m + 1 = i
      <4>1. m \in 0..Len(p) /\ m + 1 = i /\ i \in 0..Len(p)
        BY <1>1, <1>2, <3>1
      <4>2. HighIn(p, m) \in Int /\ Peak(HighIn(p, m), p, m)
        BY <1>2, <4>1, HighIsPeak
      <4>3. HighIn(p, i) \in Int /\ Peak(HighIn(p, i), p, i)
        BY <1>2, <4>1, HighIsPeak
      <4>4. QED
        BY <3>2, <4>1, <4>2, <4>3
    <3>4. b >= a /\ b >= p[i] /\ (b = a \/ b = p[i])
      <4>1. b >= p[i]
        BY <2>2, <3>1, <3>3 DEF Peak
      <4>2. b >= a
        BY <1>1, <1>2, <3>1, <3>3, UnsoldNumbers DEF Peak
      <4>3. b = a \/ b = p[i]
        <5>1. CASE b = BOUGHT_AT
          BY <3>3, <4>2, <5>1, UnsoldNumbers DEF Peak
        <5>2. ASSUME NEW k \in 1..(m + 1), p[k] = b PROVE b = a \/ b = p[i]
          <6>1. CASE k = m + 1
            BY <3>3, <5>2, <6>1
          <6>2. CASE k \in 1..m
            <7>1. b <= a
              BY <3>3, <5>2, <6>2 DEF Peak
            <7>2. QED
              BY <3>3, <4>2, <7>1
          <6>3. QED
            BY <3>1, <6>1, <6>2
        <5>3. QED
          BY <3>3, <5>1, <5>2 DEF Peak
      <4>4. QED
        BY <4>1, <4>2, <4>3
    <3>5. b = HigherOf(a, p[i])
      BY <2>2, <3>3, <3>4 DEF HigherOf
    <3>6. QED
      BY <3>1, <3>2, <3>3, <3>5
  <2>4. PICK d : d = SimulateStep(c, q[i])
    OBVIOUS
  <2>5. FoundAt(q, i) = ExitDue(q[i].price, HighIn(p, i), WeakAt(q[i].at))
    BY DEF FoundAt, p
  <2>6. /\ d.high = HighIn(p, i) /\ d \in SimState
        /\ d.trigger = IF c.trigger = -1 /\ FoundAt(q, i) THEN q[i].at ELSE c.trigger
    <3>1. PICK b \in BOOLEAN : b = (c.trigger = -1 /\ FoundAt(q, i))
      OBVIOUS
    <3>2. HigherOf(c.high, q[i].price) = HighIn(p, i)
      BY <2>1, <2>2, <2>3
    <3>3. PICK e : e = [c EXCEPT !.high = HigherOf(@, q[i].price)]
      OBVIOUS
    <3>4. e = [high |-> HighIn(p, i), trigger |-> c.trigger]
      BY <3>2, <3>3 DEF SimState
    <3>5. e.high = HighIn(p, i)
      BY <3>4
    <3>6. d = IF b THEN [e EXCEPT !.trigger = q[i].at] ELSE e
      BY <2>4, <2>5, <3>1, <3>3, <3>5 DEF SimulateStep, FollowHigh
    <3>7. QED
      BY <2>2, <2>3, <3>1, <3>4, <3>6 DEF SimState
  <2>7. \A j \in 1..i : j \in 1..(i - 1) \/ j = i
    OBVIOUS
  <2>8. Told(i, d)
    <3>1. CASE c.trigger = -1 /\ (\A j \in 1..(i - 1) : ~FoundAt(q, j)) /\ FoundAt(q, i)
      <4>1. d.trigger = q[i].at /\ i \in 1..i
        BY <2>6, <3>1
      <4>2. QED
        BY <2>6, <3>1, <4>1
    <3>2. CASE c.trigger = -1 /\ (\A j \in 1..(i - 1) : ~FoundAt(q, j)) /\ ~FoundAt(q, i)
      BY <2>6, <2>7, <3>2
    <3>3. ASSUME NEW j \in 1..(i - 1), c.trigger = q[j].at, FoundAt(q, j),
                 \A k \in 1..(j - 1) : ~FoundAt(q, k), q[j].at # -1
          PROVE  Told(i, d)
      <4>1. d.trigger = q[j].at /\ j \in 1..i
        BY <2>6, <3>3
      <4>2. QED
        BY <2>6, <3>3, <4>1
    <3>4. \A j \in 1..(i - 1) : q[j].at # -1
      OBVIOUS
    <3>5. QED
      BY <2>1, <3>1, <3>2, <3>3, <3>4
  <2>9. QED
    BY <1>1, <2>4, <2>6, <2>8
<1> HIDE DEF P
<1>6. PICK r : r = FoldLeft(SimulateStep, SimStart, q)
  OBVIOUS
<1>7. r \in SimState /\ <<Len(q), r>> \in P
  BY <1>4, <1>5, <1>6, SimulationKeeps
<1>8. Told(Len(q), r)
  BY <1>7 DEF P
<1>9. QED
  BY <1>6, <1>8

\* The lines of the log are all observed: none is later than the sale.
LEMMA AllObserved ==
    ASSUME UnsoldIInv
    PROVE  Observed = lines
<1>1. lines \in Seq(LogLine) /\ Len(lines) >= 1 /\ path \in Seq(Int) /\ soldAt \in {0, Len(path)}
  BY DEF UnsoldIInv, UnsoldRest, LogOf
<1>2. \A i \in 1..Len(lines) : lines[i].at \in 0..Len(path)
  BY <1>1 DEF UnsoldIInv, LogOf, Purchase
<1>3. \A line \in Range(lines) : soldAt = 0 \/ line.at <= soldAt
  <2>1. ASSUME NEW line \in Range(lines) PROVE soldAt = 0 \/ line.at <= soldAt
    <3>1. PICK i \in 1..Len(lines) : lines[i] = line
      BY <1>1, ElementsAt
    <3>2. line.at \in 0..Len(path)
      BY <1>2, <3>1
    <3>3. QED
      BY <1>1, <3>2
  <2>2. QED
    BY <2>1
<1>4. Range(lines) \subseteq {line \in Range(lines) : soldAt = 0 \/ line.at <= soldAt}
  BY <1>3
<1>5. QED
  BY <1>1, <1>4, AllPicked DEF Observed

\* The strength of a minute is that of the last line up to it.
LEMMA StrengthTold ==
    ASSUME UnsoldIInv, NEW m \in 0..Len(path)
    PROVE  /\ \E k \in 1..Len(lines) : /\ lines[k].at <= m /\ WeakAt(m) = lines[k].weak
                                       /\ \A i \in 1..Len(lines) : lines[i].at = m => i = k
<1>1. /\ lines \in Seq(LogLine) /\ Len(lines) >= 1 /\ lines[1] = Purchase
      /\ \A i \in 1..Len(lines), j \in 1..Len(lines) : i < j => lines[i].at < lines[j].at
  BY DEF UnsoldIInv, LogOf
<1>2. PICK n \in Nat : n = Len(lines)
  BY <1>1
<1>3. \A i \in 1..n : lines[i].at \in Nat
  <2>1. \A i \in 1..n : lines[i] \in LogLine
    BY <1>1, <1>2
  <2>2. QED
    BY <2>1 DEF LogLine
<1> DEFINE known == {i \in DOMAIN lines : lines[i].at <= m}
<1>4. known \in SUBSET (0..n) /\ 1 \in known
  BY <1>1, <1>2 DEF Purchase
<1>5. Max(known) \in known /\ \A i \in known : Max(known) >= i
  BY <1>4, Largest
<1>6. WeakAt(m) = lines[Max(known)].weak
  BY AllObserved DEF WeakAt
<1>7. PICK k : k = Max(known)
  OBVIOUS
<1>8. k \in 1..n /\ lines[k].at <= m /\ \A i \in known : k >= i
  BY <1>1, <1>2, <1>5, <1>7
<1>9. ASSUME NEW i \in 1..n, lines[i].at = m PROVE i = k
  <2>1. i \in known
    BY <1>1, <1>2, <1>9
  <2>2. i <= k
    BY <1>8, <2>1
  <2>3. ~(i < k)
    <3>1. SUFFICES ASSUME i < k PROVE FALSE
      OBVIOUS
    <3>2. lines[i].at < lines[k].at
      BY <1>1, <1>2, <1>8, <3>1
    <3>3. QED
      BY <1>3, <1>8, <1>9, <3>2
  <2>4. QED
    BY <1>8, <2>2, <2>3
<1>10. QED
  BY <1>2, <1>6, <1>7, <1>8, <1>9

\* Unless the loop was hindered, a condition that the diagnosis finds by the highest price since
\* the purchase was one of the minute.
LEMMA FoundIsDue ==
    ASSUME UnsoldIInv, hindrances = {}, NEW m \in 1..Len(path), m # soldAt
    PROVE  ~ExitDue(path[m], HighIn(path, m), WeakAt(m))
<1>1. /\ path \in Seq(Int) /\ weakAt \in Int /\ soldAt \in {0, Len(path)}
      /\ Unmet(exitPair, weakAt, path, soldAt)
      /\ lines \in Seq(LogLine) /\ lines[1] = Purchase
      /\ \A i \in 2..Len(lines) : lines[i].at \in 1..Len(path) /\ lines[i].price = path[lines[i].at]
                                 /\ lines[i].weak = (lines[i].price <= weakAt)
  BY DEF UnsoldIInv, UnsoldRest, Unhindered, LogOf
<1>2. m \in 0..Len(path) /\ path[m] \in Int
  BY <1>1
<1>3. PICK k \in 1..Len(lines) : lines[k].at <= m /\ WeakAt(m) = lines[k].weak
  BY <1>2, StrengthTold
<1>4. ~(path[m] <= HighIn(path, m) - StopAt(exitPair, HighIn(path, m))) /\ ~(path[m] <= LOWER_LINE /\ path[m] <= weakAt)
  BY <1>1 DEF Unmet, DueIn
<1>5. ~(path[m] <= LOWER_LINE /\ WeakAt(m))
  <2>1. SUFFICES ASSUME path[m] <= LOWER_LINE, WeakAt(m) PROVE FALSE
    OBVIOUS
  <2>2. k # 1
    <3>1. SUFFICES ASSUME k = 1 PROVE FALSE
      OBVIOUS
    <3>2. lines[k].weak = FALSE
      BY <1>1, <3>1 DEF Purchase
    <3>3. QED
      BY <1>3, <2>1, <3>2
  <2>3. PICK l : l = lines[k].at
    OBVIOUS
  <2>4. k \in 2..Len(lines)
    BY <1>1, <2>2
  <2>5. l \in 1..Len(path) /\ lines[k].price = path[l] /\ lines[k].weak = (lines[k].price <= weakAt)
    BY <1>1, <2>3, <2>4
  <2>6. l \in 1..Len(path) /\ path[l] <= weakAt /\ l <= m
    BY <1>3, <2>1, <2>3, <2>5
  <2>7. l # soldAt
    BY <1>1, <2>6
  <2>8. ~(path[l] <= LOWER_LINE /\ path[l] <= weakAt)
    BY <1>1, <2>6, <2>7 DEF Unmet, DueIn
  <2>9. path[l] \in Int
    BY <1>1, <2>6
  <2>10. QED
    BY <1>1, <1>2, <1>4, <2>1, <2>6, <2>8, <2>9, UnsoldNumbers
<1>6. QED
  BY <1>4, <1>5 DEF ExitDue, ExitMultiplier, StopAt

Bars == [i \in 1..Len(path) |-> [at |-> i, price |-> path[i]]]
LinesAlone == [i \in 1..Len(lines) |-> [at |-> lines[i].at, price |-> lines[i].price]]

LEMMA WhatIsReplayed ==
    ASSUME UnsoldIInv
    PROVE  /\ ObservedPath = IF barsKept /\ Len(path) > 0 THEN Bars ELSE LinesAlone
           /\ Bars \in Seq(Observation) /\ Len(Bars) = Len(path) /\ PriceOf(Bars) = path
           /\ LinesAlone \in Seq(Observation) /\ Len(LinesAlone) = Len(lines)
           /\ \A i \in 1..Len(ObservedPath) : ObservedPath[i].at # -1
<1>1. /\ path \in Seq(Int) /\ soldAt \in {0, Len(path)} /\ barsKept \in BOOLEAN
      /\ lines \in Seq(LogLine)
  BY DEF UnsoldIInv, UnsoldRest, LogOf
<1>2. ObservedPath = IF barsKept /\ Len(path) > 0 THEN Bars ELSE LinesAlone
  <2>1. (IF soldAt = 0 THEN Now ELSE soldAt) = Len(path)
    BY <1>1 DEF Now
  <2>2. PICK end : end = Len(path)
    OBVIOUS
  <2>3. ObservedPath = IF barsKept /\ end > 0 THEN [i \in 1..end |-> [at |-> i, price |-> path[i]]]
                       ELSE [i \in DOMAIN lines |-> [at |-> lines[i].at, price |-> lines[i].price]]
    BY <2>1, <2>2, AllObserved DEF ObservedPath
  <2>4. DOMAIN lines = 1..Len(lines)
    BY <1>1
  <2>5. CASE barsKept /\ end > 0
    BY <2>2, <2>3, <2>5 DEF Bars
  <2>6. CASE ~(barsKept /\ end > 0)
    BY <2>2, <2>3, <2>4, <2>6 DEF LinesAlone
  <2>7. QED
    BY <2>2, <2>5, <2>6
<1>3. \A i \in 1..Len(path) : path[i] \in Int
  BY <1>1
<1>4. \A i \in 1..Len(path) : [at |-> i, price |-> path[i]] \in Observation
  BY <1>3 DEF Observation
<1>5. Bars \in Seq(Observation) /\ Len(Bars) = Len(path) /\ \A i \in 1..Len(path) : Bars[i] = [at |-> i, price |-> path[i]]
  BY <1>1, <1>4 DEF Bars
<1>6. PriceOf(Bars) = path
  <2>1. PICK p : p = PriceOf(Bars)
    OBVIOUS
  <2>2. p = [i \in 1..Len(path) |-> Bars[i].price]
    BY <1>5, <2>1 DEF PriceOf
  <2>3. ASSUME NEW i \in 1..Len(path) PROVE Bars[i].price = path[i]
    <3>1. Bars[i] = [at |-> i, price |-> path[i]]
      BY <1>5
    <3>2. QED
      BY <3>1
  <2>4. p = [i \in 1..Len(path) |-> path[i]]
    BY <2>2, <2>3
  <2>5. QED
    BY <1>1, <2>1, <2>4
<1>7. \A i \in 1..Len(lines) : lines[i] \in LogLine
  BY <1>1
<1>8. \A i \in 1..Len(lines) : /\ [at |-> lines[i].at, price |-> lines[i].price] \in Observation
                              /\ lines[i].at \in Nat
  BY <1>7 DEF Observation, LogLine
<1>9. /\ LinesAlone \in Seq(Observation) /\ Len(LinesAlone) = Len(lines)
      /\ \A i \in 1..Len(lines) : LinesAlone[i] = [at |-> lines[i].at, price |-> lines[i].price]
  BY <1>1, <1>8 DEF LinesAlone
<1>10. \A i \in 1..Len(ObservedPath) : ObservedPath[i].at # -1
  <2>1. CASE barsKept /\ Len(path) > 0
    <3>1. ObservedPath = Bars
      BY <1>2, <2>1
    <3>2. ASSUME NEW i \in 1..Len(path) PROVE Bars[i].at # -1
      <4>1. Bars[i] = [at |-> i, price |-> path[i]]
        BY <1>5
      <4>2. Bars[i].at = i /\ i \in Nat
        BY <4>1
      <4>3. QED
        BY <4>2
    <3>3. QED
      BY <1>5, <3>1, <3>2
  <2>2. CASE ~(barsKept /\ Len(path) > 0)
    <3>1. ObservedPath = LinesAlone
      BY <1>2, <2>2
    <3>2. ASSUME NEW i \in 1..Len(lines) PROVE LinesAlone[i].at # -1
      <4>1. LinesAlone[i] = [at |-> lines[i].at, price |-> lines[i].price]
        BY <1>9
      <4>2. LinesAlone[i].at = lines[i].at /\ lines[i].at \in Nat
        BY <1>8, <4>1
      <4>3. QED
        BY <4>2
    <3>3. QED
      BY <1>9, <3>1, <3>2
  <2>3. QED
    BY <2>1, <2>2
<1>11. QED
  BY <1>2, <1>5, <1>6, <1>9, <1>10

\* A condition of a minute that is not followed by a sale in time is told by the bars.
LEMMA LateIsTold ==
    ASSUME UnsoldIInv, barsKept, NEW m \in 1..Len(path),
           ExitDue(path[m], HighIn(path, m), WeakAt(m)), Late(m)
    PROVE  Untimely
<1>1. path \in Seq(Int) /\ soldAt \in {0, Len(path)}
  BY DEF UnsoldIInv, UnsoldRest
<1>2. PICK q : q = Bars
  OBVIOUS
<1>3. /\ ObservedPath = q /\ q \in Seq(Observation) /\ Len(q) = Len(path) /\ PriceOf(q) = path
      /\ \A i \in 1..Len(q) : q[i].at # -1
  BY <1>1, <1>2, WhatIsReplayed
<1>4. \A i \in 1..Len(path) : q[i].at = i /\ q[i].price = path[i]
  BY <1>1, <1>2 DEF Bars
<1>5. FoundAt(q, m)
  BY <1>3, <1>4 DEF FoundAt
<1>6. PICK r : r = FoldLeft(SimulateStep, SimStart, q)
  OBVIOUS
<1>7. \/ r.trigger = -1 /\ \A j \in 1..Len(q) : ~FoundAt(q, j)
      \/ \E j \in 1..Len(q) : /\ r.trigger = q[j].at /\ FoundAt(q, j)
                              /\ \A k \in 1..(j - 1) : ~FoundAt(q, k)
  BY <1>3, <1>6, FirstIsFound
<1>8. PICK j \in 1..Len(path) : r.trigger = j /\ \A k \in 1..(j - 1) : ~FoundAt(q, k)
  BY <1>3, <1>4, <1>5, <1>7
<1>9. j <= m
  BY <1>1, <1>5, <1>8
<1>10. Late(j)
  BY <1>1, <1>9, UnsoldNumbers DEF Late
<1>11. Simulated.trigger = j /\ j # -1
  BY <1>3, <1>6, <1>8 DEF Simulated, SimStart
<1>12. QED
  BY <1>10, <1>11 DEF Untimely

LEMMA NoFalseTriggerHolds ==
    ASSUME UnsoldIInv
    PROVE  NoFalseTrigger
<1>1. SUFFICES ASSUME hindrances = {}, Untimely PROVE FALSE
  BY DEF NoFalseTrigger
<1>2. /\ path \in Seq(Int) /\ soldAt \in {0, Len(path)} /\ barsKept \in BOOLEAN /\ exitPair \in ExitPairs
      /\ weakAt \in Int
      /\ soldAt <= LIQUIDATE_AT /\ (soldAt = 0 => Len(path) < LIQUIDATE_AT)
      /\ \A i \in 1..Len(lines) : lines[i].at \in {0, 1, soldAt}
      /\ lines \in Seq(LogLine) /\ Len(lines) >= 1 /\ lines[1] = Purchase
      /\ \A i \in 2..Len(lines) : lines[i].at \in 1..Len(path) /\ lines[i].price = path[lines[i].at]
      /\ \A i \in 1..Len(lines), j \in 1..Len(lines) : i < j => lines[i].at < lines[j].at
  BY <1>1 DEF UnsoldIInv, UnsoldRest, Unhindered, LogOf
<1>3. PICK q : q = ObservedPath
  OBVIOUS
<1>4. q \in Seq(Observation) /\ \A i \in 1..Len(q) : q[i].at # -1
  BY <1>3, WhatIsReplayed
<1>5. PICK r : r = FoldLeft(SimulateStep, SimStart, q)
  OBVIOUS
<1>6. r.trigger # -1 /\ Late(r.trigger)
  <2>1. ~((IF soldAt = 0 THEN Now ELSE soldAt) - LIQUIDATE_AT > TOLERANCE)
    BY <1>2, UnsoldNumbers DEF Now
  <2>2. QED
    BY <1>1, <1>3, <1>5, <2>1 DEF Untimely, Simulated, SimStart
<1>7. PICK j \in 1..Len(q) : r.trigger = q[j].at /\ FoundAt(q, j)
  BY <1>4, <1>5, <1>6, FirstIsFound
<1>8. soldAt # 0 => q[j].at # soldAt
  <2>1. SUFFICES ASSUME soldAt # 0, q[j].at = soldAt PROVE FALSE
    OBVIOUS
  <2>2. soldAt - soldAt > TOLERANCE
    BY <1>6, <1>7, <2>1 DEF Late
  <2>3. soldAt \in Int
    BY <1>2
  <2>4. QED
    BY <2>2, <2>3, UnsoldNumbers
<1>9. CASE barsKept /\ Len(path) > 0
  <2>1. q = Bars /\ Len(q) = Len(path) /\ PriceOf(q) = path
    BY <1>3, <1>9, WhatIsReplayed
  <2>2. q[j].at = j /\ q[j].price = path[j] /\ j \in 1..Len(path)
    BY <1>2, <2>1 DEF Bars
  <2>3. ExitDue(path[j], HighIn(path, j), WeakAt(j)) /\ j # soldAt
    BY <1>7, <1>8, <2>1, <2>2 DEF FoundAt
  <2>4. QED
    BY <1>1, <2>2, <2>3, FoundIsDue
<1>10. CASE ~(barsKept /\ Len(path) > 0)
  <2>1. q = LinesAlone /\ Len(q) = Len(lines)
    BY <1>3, <1>10, WhatIsReplayed
  <2>2. \A i \in 1..Len(lines) : q[i].at = lines[i].at /\ q[i].price = lines[i].price
    BY <1>2, <2>1 DEF LinesAlone
  <2>3. PICK p : p = PriceOf(q)
    OBVIOUS
  <2>4. p \in Seq(Int) /\ Len(p) = Len(lines) /\ \A i \in 1..Len(lines) : p[i] = lines[i].price
    <3>1. \A i \in 1..Len(lines) : q[i] \in Observation
      BY <1>2, <1>4, <2>1
    <3>2. \A i \in 1..Len(lines) : q[i].price \in Int
      BY <3>1 DEF Observation
    <3>3. p = [i \in 1..Len(lines) |-> q[i].price]
      BY <2>1, <2>3 DEF PriceOf
    <3>4. QED
      BY <1>2, <2>2, <3>2, <3>3, SMTT(30)
  <2>5. lines[j].at \in {0, 1} /\ j \in 1..Len(lines) /\ q[j].at = lines[j].at /\ q[j].price = lines[j].price
    BY <1>2, <1>8, <2>1, <2>2
  <2>6. ExitDue(lines[j].price, HighIn(p, j), WeakAt(lines[j].at))
    BY <1>7, <2>3, <2>5 DEF FoundAt
  <2>7. CASE j = 1
    <3>1. lines[j].at = 0 /\ lines[j].price = BOUGHT_AT
      BY <1>2, <2>7 DEF Purchase
    <3>2. ~WeakAt(0)
      <4>1. 0 \in 0..Len(path)
        BY <1>2
      <4>2. PICK k \in 1..Len(lines) : lines[k].at <= 0 /\ WeakAt(0) = lines[k].weak
                                      /\ \A i \in 1..Len(lines) : lines[i].at = 0 => i = k
        BY <4>1, StrengthTold
      <4>3. k = 1
        BY <2>5, <2>7, <3>1, <4>2
      <4>4. QED
        BY <1>2, <4>2, <4>3 DEF Purchase
    <3>3. HighIn(p, 1) = BOUGHT_AT
      <4>1. p[1] = BOUGHT_AT /\ 1 \in 0..Len(p)
        BY <1>2, <2>4, <2>7, <3>1
      <4>2. Peak(BOUGHT_AT, p, 1)
        BY <4>1, UnsoldNumbers DEF Peak
      <4>3. QED
        BY <2>4, <4>1, <4>2, PeakIsHigh
    <3>4. PICK stop : stop = StopAt(exitPair, BOUGHT_AT)
      OBVIOUS
    <3>5. stop \in Nat /\ stop # 0
      BY <1>2, <3>4, ExitPairNumbers
    <3>6. ~(BOUGHT_AT <= BOUGHT_AT - stop)
      BY <3>5, UnsoldNumbers
    <3>7. QED
      BY <2>6, <2>7, <3>1, <3>2, <3>3, <3>4, <3>6 DEF ExitDue, ExitMultiplier, StopAt
  <2>8. CASE j # 1
    <3>1. j \in 2..Len(lines) /\ lines[j].at \in 1..Len(path) /\ lines[j].price = path[lines[j].at]
      BY <1>2, <2>5, <2>8
    <3>2. lines[j].at = 1 /\ 1 \in 1..Len(path) /\ 1 # soldAt
      BY <1>8, <2>5, <3>1
    <3>3. j = 2
      <4>1. SUFFICES ASSUME j > 2 PROVE FALSE
        BY <3>1
      <4>2. 2 \in 2..Len(lines) /\ 2 \in 1..Len(lines) /\ 2 < j
        BY <3>1, <4>1
      <4>3. lines[2].at < lines[j].at /\ lines[2].at \in 1..Len(path)
        BY <1>2, <2>5, <4>2
      <4>4. QED
        BY <3>2, <4>3
    <3>4. HighIn(p, 2) = HighIn(path, 1)
      <4>1. PICK h : h = HighIn(path, 1)
        OBVIOUS
      <4>2. Peak(h, path, 1) /\ h \in Int
        BY <1>2, <3>2, <4>1, HighIsPeak
      <4>3. p[1] = BOUGHT_AT /\ p[2] = path[1] /\ 2 \in 0..Len(p)
        BY <1>2, <2>4, <3>1, <3>2, <3>3 DEF Purchase
      <4>4. Peak(h, p, 2)
        BY <4>2, <4>3, UnsoldNumbers DEF Peak
      <4>5. HighIn(p, 2) = h
        BY <2>4, <4>3, <4>4, PeakIsHigh
      <4>6. QED
        BY <4>1, <4>5
    <3>5. ExitDue(path[1], HighIn(path, 1), WeakAt(1))
      BY <2>6, <3>1, <3>2, <3>3, <3>4
    <3>6. QED
      BY <1>1, <3>2, <3>5, FoundIsDue
  <2>9. QED
    BY <2>7, <2>8
<1>11. QED
  BY <1>9, <1>10

LEMMA DiagnosisHolds ==
    ASSUME UnsoldIInv
    PROVE  DiagnosisSound
<1>1. /\ path \in Seq(Int) /\ soldAt \in {0, Len(path)} /\ refusals \in Nat
      /\ saidSell \in 0..Len(path)
      /\ saidSell # 0 => /\ \E i \in 2..Len(lines) : lines[i].at = saidSell
                         /\ soldAt = saidSell \/ refusals > 0
      /\ lines \in Seq(LogLine)
      /\ \A i \in 2..Len(lines) : lines[i].at \in 1..Len(path) /\ lines[i].price = path[lines[i].at]
                                 /\ lines[i].weak = (lines[i].price <= weakAt)
  BY DEF UnsoldIInv, UnsoldRest, SellSaid, LogOf
<1>2. \A m : HighAt(m) = HighIn(path, m)
  BY DEF HighAt, HighIn
<1>3. SaleMissedSeen
  <2>1. SUFFICES ASSUME saidSell # 0, Late(saidSell),
                        soldAt = 0 \/ (barsKept /\ ExitDue(path[saidSell], HighAt(saidSell), path[saidSell] <= weakAt))
                 PROVE  Classification = "failure"
    BY DEF SaleMissedSeen
  <2>2. CASE soldAt = 0
    <3>1. refusals > 0
      BY <1>1, <2>1, <2>2
    <3>2. QED
      BY <2>2, <3>1 DEF Classification
  <2>3. CASE barsKept /\ ExitDue(path[saidSell], HighAt(saidSell), path[saidSell] <= weakAt)
    <3>1. PICK m \in 1..Len(path) : m = saidSell
      BY <1>1, <2>1
    <3>2. PICK i \in 2..Len(lines) : lines[i].at = m
      BY <1>1, <2>1, <3>1
    <3>3. i \in 1..Len(lines) /\ m \in 0..Len(path)
      BY <1>1
    <3>4. WeakAt(m) = lines[i].weak
      BY <3>2, <3>3, StrengthTold
    <3>5. WeakAt(m) = (path[m] <= weakAt)
      BY <1>1, <3>2, <3>4
    <3>6. ExitDue(path[m], HighIn(path, m), WeakAt(m)) /\ Late(m) /\ barsKept
      BY <1>2, <2>1, <2>3, <3>1, <3>5
    <3>7. Untimely
      BY <3>6, LateIsTold
    <3>8. QED
      BY <3>7 DEF Classification
  <2>4. QED
    BY <2>1, <2>2, <2>3
<1>4. ForgottenStopSeen
  <2>1. SUFFICES ASSUME barsKept, NEW m \in 1..Now, path[m] <= HighAt(m) - ExitMultiplier(HighAt(m)), Late(m)
                 PROVE  Untimely
    BY DEF ForgottenStopSeen
  <2>2. m \in 1..Len(path)
    BY DEF Now
  <2>3. ExitDue(path[m], HighIn(path, m), WeakAt(m))
    BY <1>2, <2>1 DEF ExitDue
  <2>4. QED
    BY <2>1, <2>2, <2>3, LateIsTold
<1>5. QED
  BY <1>3, <1>4, NoFalseTriggerHolds DEF DiagnosisSound

LEMMA UnsoldTyped ==
    ASSUME UnsoldIInv
    PROVE  UnsoldTypeOK
BY UnsoldNumbers DEF UnsoldIInv, UnsoldRest, SellSaid, UnsoldTypeOK, Now

-----------------------------------------------------------------------------

LEMMA UnsoldStarts ==
    ASSUME UnsoldInit
    PROVE  UnsoldIInv
<1>1. UnsoldRest
  BY UnsoldNumbers DEF UnsoldInit, UnsoldRest
<1>2. LogOf(lines, path, weakAt)
  BY UnsoldNumbers DEF UnsoldInit, LogOf, LogLine, Purchase
<1>3. SellSaid
  BY DEF UnsoldInit, SellSaid
<1>4. Unhindered
  <2>1. path \in Seq(Int) /\ Len(path) = 0 /\ 0 \in 0..Len(path)
    BY DEF UnsoldInit
  <2>2. Peak(BOUGHT_AT, path, 0)
    BY UnsoldNumbers DEF Peak
  <2>3. HighIn(path, 0) = BOUGHT_AT
    BY <2>1, <2>2, PeakIsHigh
  <2>4. Unmet(exitPair, weakAt, path, soldAt)
    BY <2>1 DEF Unmet
  <2>5. \A i \in 1..Len(lines) : lines[i].at \in {0, 1, soldAt}
    BY DEF UnsoldInit
  <2>6. QED
    BY <2>1, <2>3, <2>4, <2>5, UnsoldNumbers DEF UnsoldInit, Unhindered
<1>5. QED
  BY <1>1, <1>2, <1>3, <1>4 DEF UnsoldIInv

\* The minute is added, and the log stays or tells of it.
LEMMA JudgementTold ==
    ASSUME UnsoldIInv, NEW price \in Int, NEW say, NEW high \in Int, path' = Append(path, price), weakAt' = weakAt,
           Judgement(say, price, high)
    PROVE  /\ lastJudged' = say /\ LogOf(lines', path', weakAt')
           /\ Len(lines') \in Nat /\ Len(lines) \in Nat
           /\ \A i \in 1..Len(lines') : \/ i \in 1..Len(lines) /\ lines'[i] = lines[i]
                                        \/ i = Len(lines) + 1 /\ lines'[i].at = Len(path) + 1 /\ say # lastJudged
           /\ \A i \in 1..Len(lines) : i \in 1..Len(lines') /\ lines'[i] = lines[i]
           /\ say # lastJudged => \E i \in 2..Len(lines') : lines'[i].at = Len(path) + 1
<1>1. path \in Seq(Int) /\ weakAt \in Int /\ LogOf(lines, path, weakAt) /\ lines \in Seq(LogLine) /\ Len(lines) >= 1
  BY DEF UnsoldIInv, UnsoldRest, LogOf
<1>2. PICK more : more = [at |-> Len(path) + 1, price |-> price, weak |-> price <= weakAt, high |-> high]
  OBVIOUS
<1>3. /\ LogOf(lines, Append(path, price), weakAt)
      /\ LogOf(Append(lines, more), Append(path, price), weakAt)
      /\ Len(Append(lines, more)) = Len(lines) + 1 /\ Append(lines, more)[Len(lines) + 1] = more
      /\ \A i \in 1..Len(lines) : Append(lines, more)[i] = lines[i]
  BY <1>1, <1>2, LogGoesOn
<1>4. lastJudged' = say
  BY DEF Judgement
<1>5. CASE say = lastJudged
  <2>1. lines' = lines
    BY <1>5 DEF Judgement
  <2>2. LogOf(lines', path', weakAt')
    BY <1>3, <2>1
  <2>3. /\ Len(lines') = Len(lines) /\ \A i \in 1..Len(lines') : i \in 1..Len(lines) /\ lines'[i] = lines[i]
        /\ \A i \in 1..Len(lines) : i \in 1..Len(lines') /\ lines'[i] = lines[i]
    BY <2>1
  <2>4. Len(lines) \in Nat /\ Len(lines') \in Nat
    BY <1>1, <2>3
  <2>5. QED
    BY <1>4, <1>5, <2>2, <2>3, <2>4, Zenon
<1>6. CASE say # lastJudged
  <2>1. lines' = Append(lines, more)
    BY <1>2, <1>6 DEF Judgement, Now
  <2>2. PICK k \in Nat : k = Len(lines)
    BY <1>1
  <2>3. LogOf(lines', path', weakAt') /\ Len(lines') = k + 1 /\ lines'[k + 1].at = Len(path) + 1
        /\ \A i \in 1..k : lines'[i] = lines[i]
    BY <1>2, <1>3, <2>1, <2>2
  <2>4. k + 1 \in 2..Len(lines')
    BY <1>1, <2>2, <2>3
  <2>5. ASSUME NEW i \in 1..Len(lines')
        PROVE  \/ i \in 1..Len(lines) /\ lines'[i] = lines[i]
               \/ i = Len(lines) + 1 /\ lines'[i].at = Len(path) + 1 /\ say # lastJudged
    <3>1. CASE i \in 1..k
      BY <2>2, <2>3, <3>1
    <3>2. CASE i = k + 1
      BY <1>6, <2>2, <2>3, <3>2
    <3>3. QED
      BY <2>3, <3>1, <3>2
  <2>6. ASSUME NEW i \in 1..Len(lines) PROVE i \in 1..Len(lines') /\ lines'[i] = lines[i]
    BY <2>2, <2>3
  <2>7. Len(lines) \in Nat /\ Len(lines') \in Nat
    BY <2>2, <2>3
  <2>8. \E i \in 2..Len(lines') : lines'[i].at = Len(path) + 1
    BY <2>3, <2>4
  <2>9. QED
    BY <1>4, <2>3, <2>5, <2>6, <2>7, <2>8
<1>7. QED
  BY <1>5, <1>6

LEMMA LookKept ==
    ASSUME UnsoldIInv, NEW price \in Int, NEW blocked \in BOOLEAN, soldAt = 0, Len(path) < CLOSE_AT,
           Len(path) + 1 < LIQUIDATE_AT, LookAtMinute(price, blocked)
    PROVE  UnsoldIInv'
<1>1. /\ exitPair \in ExitPairs /\ weakAt \in Int /\ path \in Seq(Int) /\ barsKept \in BOOLEAN
      /\ followed \in Int /\ refusals \in Nat
      /\ hindrances \subseteq {"blocked", "missed", "restarted"}
      /\ lastJudged \in {"BUY", "SELL", "none", "unknown"}
      /\ lines \in Seq(LogLine)
  BY DEF UnsoldIInv, UnsoldRest, LogOf
<1>2. PICK n \in Nat : n = Len(path)
  BY <1>1
<1>3. PICK p : p = Append(path, price)
  OBVIOUS
<1>4. p \in Seq(Int) /\ Len(p) = n + 1 /\ p[n + 1] = price /\ HighIn(p, n + 1) = HigherOf(HighIn(path, n), price)
  BY <1>1, <1>2, <1>3, HighGoesOn
<1>5. path' = p /\ exitPair' = exitPair /\ weakAt' = weakAt /\ barsKept' = barsKept
      /\ followed' = HigherOf(followed, price)
  BY <1>3 DEF LookAtMinute
<1>6. followed' \in Int
  BY <1>1, <1>5 DEF HigherOf
<1>7. PICK high \in Int : high = followed'
  BY <1>6
<1>8. /\ soldAt' \in {0, n + 1} /\ refusals' \in Nat /\ refusals' >= refusals
      /\ hindrances' \subseteq {"blocked", "missed", "restarted"}
      /\ lastJudged' \in {"SELL", "none"} /\ Judgement(lastJudged', price, high)
      /\ lastJudged' = "SELL" => /\ saidSell' = IF saidSell = 0 THEN n + 1 ELSE saidSell
                                 /\ soldAt' = n + 1 \/ refusals' > 0
      /\ lastJudged' = "none" => saidSell' = saidSell
      /\ hindrances' = {} => /\ hindrances = {}
                             /\ lastJudged' = "SELL" => soldAt' = n + 1
                             /\ lastJudged' = "none" => soldAt' = 0 /\ ~ExitDue(price, high, price <= weakAt)
  <2>1. CASE ExitDue(price, high, price <= weakAt)
    <3>1. /\ Judgement("SELL", price, high)
          /\ saidSell' = IF saidSell = 0 THEN Now + 1 ELSE saidSell
          /\ soldAt' = IF blocked THEN 0 ELSE Now + 1
          /\ refusals' = IF blocked THEN refusals + 1 ELSE refusals
          /\ hindrances' = IF blocked THEN hindrances \cup {"blocked"} ELSE hindrances
      BY <1>7, <2>1 DEF LookAtMinute
    <3>2. lastJudged' = "SELL"
      BY <3>1 DEF Judgement
    <3>3. Judgement(lastJudged', price, high)
      BY <3>1, <3>2
    <3>4. Now = n
      BY <1>2 DEF Now
    <3>5. CASE blocked
      <4>1. soldAt' = 0 /\ refusals' = refusals + 1 /\ hindrances' = hindrances \cup {"blocked"}
        BY <3>1, <3>5
      <4>2. QED
        BY <1>1, <3>1, <3>2, <3>3, <3>4, <4>1
    <3>6. CASE ~blocked
      <4>1. soldAt' = n + 1 /\ refusals' = refusals /\ hindrances' = hindrances
        BY <3>1, <3>4, <3>6
      <4>2. QED
        BY <1>1, <3>1, <3>2, <3>3, <3>4, <4>1
    <3>7. QED
      BY <3>5, <3>6
  <2>2. CASE ~ExitDue(price, high, price <= weakAt)
    <3>1. Judgement("none", price, high) /\ UNCHANGED <<saidSell, soldAt, refusals, hindrances>>
      BY <1>7, <2>2 DEF LookAtMinute
    <3>2. lastJudged' = "none"
      BY <3>1 DEF Judgement
    <3>3. Judgement(lastJudged', price, high)
      BY <3>1, <3>2
    <3>4. QED
      BY <1>1, <2>2, <3>1, <3>2, <3>3
  <2>3. QED
    BY <2>1, <2>2
<1>10. UnsoldRest'
  BY <1>1, <1>2, <1>4, <1>5, <1>6, <1>8, UnsoldNumbers, SMTT(30) DEF UnsoldRest
<1>11. PICK say : say = lastJudged'
  OBVIOUS
<1>12. say \in {"SELL", "none"} /\ Judgement(say, price, high)
  BY <1>8, <1>11
<1>13. /\ LogOf(lines', path', weakAt')
       /\ Len(lines') \in Nat /\ Len(lines) \in Nat
       /\ \A i \in 1..Len(lines') : \/ i \in 1..Len(lines) /\ lines'[i] = lines[i]
                                    \/ i = Len(lines) + 1 /\ lines'[i].at = n + 1 /\ say # lastJudged
       /\ \A i \in 1..Len(lines) : i \in 1..Len(lines') /\ lines'[i] = lines[i]
       /\ say # lastJudged => \E i \in 2..Len(lines') : lines'[i].at = n + 1
  BY <1>2, <1>3, <1>5, <1>12, JudgementTold
<1>14. SellSaid'
  <2>0. /\ saidSell \in 0..n /\ (saidSell = 0 => lastJudged # "SELL")
        /\ saidSell # 0 => (\E i \in 2..Len(lines) : lines[i].at = saidSell) /\ refusals > 0
    BY <1>2 DEF UnsoldIInv, SellSaid
  <2>1. saidSell' \in 0..(n + 1)
    BY <1>8, <2>0
  <2>2. ASSUME saidSell' # 0
        PROVE  (\E i \in 2..Len(lines') : lines'[i].at = saidSell') /\ (soldAt' = saidSell' \/ refusals' > 0)
    <3>1. CASE saidSell # 0
      <4>1. saidSell' = saidSell /\ refusals' > 0
        BY <1>1, <1>8, <2>0, <3>1
      <4>2. PICK i \in 2..Len(lines) : lines[i].at = saidSell
        BY <2>0, <3>1
      <4>3. i \in 1..Len(lines)
        BY <1>13
      <4>4. i \in 1..Len(lines') /\ lines'[i] = lines[i]
        BY <1>13, <4>3
      <4>5. i \in 2..Len(lines')
        BY <4>2, <4>4
      <4>6. QED
        BY <4>1, <4>2, <4>4, <4>5
    <3>2. CASE saidSell = 0
      <4>1. say = "SELL" /\ saidSell' = n + 1 /\ say # lastJudged
        BY <1>8, <1>11, <2>0, <2>2, <3>2
      <4>2. soldAt' = n + 1 \/ refusals' > 0
        BY <1>8, <1>11, <4>1
      <4>3. QED
        BY <1>13, <4>1, <4>2
    <3>3. QED
      BY <3>1, <3>2
  <2>3. saidSell' = 0 => lastJudged' # "SELL"
    BY <1>2, <1>8, <2>0
  <2>4. QED
    BY <1>4, <1>5, <2>1, <2>2, <2>3 DEF SellSaid
<1>15. Unhindered'
  <2>1. SUFFICES ASSUME hindrances' = {}
                 PROVE  /\ Unmet(exitPair', weakAt', path', soldAt')
                        /\ soldAt' = 0 => /\ followed' = HighIn(path', Len(path')) /\ Len(path') < LIQUIDATE_AT
                                          /\ lastJudged' = IF Len(path') = 0 THEN "BUY" ELSE "none"
                        /\ soldAt' <= LIQUIDATE_AT
                        /\ \A i \in 1..Len(lines') : lines'[i].at \in {0, 1, soldAt'}
    BY DEF Unhindered
  <2>2. /\ hindrances = {}
        /\ say = "SELL" => soldAt' = n + 1
        /\ say = "none" => soldAt' = 0 /\ ~ExitDue(price, high, price <= weakAt)
    BY <1>8, <1>11, <2>1
  <2>3. /\ Unmet(exitPair, weakAt, path, 0) /\ followed = HighIn(path, n)
        /\ lastJudged = IF n = 0 THEN "BUY" ELSE "none"
        /\ \A i \in 1..Len(lines) : lines[i].at \in {0, 1}
    BY <1>2, <2>2 DEF UnsoldIInv, Unhindered
  <2>4. high = HighIn(p, n + 1)
    BY <1>4, <1>5, <1>7, <2>3
  <2>5. ExitDue(price, high, price <= weakAt) <=> DueIn(exitPair, weakAt, p, n + 1)
    BY <1>4, <2>4 DEF DueIn, ExitDue, ExitMultiplier, StopAt
  <2>6. PICK sold \in {0, n + 1} : sold = soldAt'
    BY <1>8
  <2>7. (say = "SELL" => sold = n + 1) /\ (say = "none" => sold = 0)
    BY <2>2, <2>6
  <2>8. Unmet(exitPair, weakAt, p, sold)
    <3>1. sold = 0 => ~DueIn(exitPair, weakAt, p, n + 1)
      BY <1>2, <1>12, <2>2, <2>5, <2>7
    <3>2. QED
      BY <1>1, <1>2, <1>3, <2>3, <2>6, <3>1, ClearGoesOn
  <2>9. sold = 0 => lastJudged' = "none"
    BY <1>2, <1>11, <1>12, <2>7
  <2>10. ASSUME NEW i \in 1..Len(lines') PROVE lines'[i].at \in {0, 1, sold}
    <3>1. CASE i \in 1..Len(lines) /\ lines'[i] = lines[i]
      BY <2>3, <3>1
    <3>2. CASE lines'[i].at = n + 1 /\ say # lastJudged
      <4>1. CASE say = "SELL"
        BY <2>7, <3>2, <4>1
      <4>2. CASE say = "none"
        <5>1. n = 0
          BY <2>3, <3>2, <4>2
        <5>2. QED
          BY <3>2, <5>1
      <4>3. QED
        BY <1>12, <4>1, <4>2
    <3>3. QED
      BY <1>13, <3>1, <3>2
  <2>11. soldAt' <= LIQUIDATE_AT /\ n + 1 < LIQUIDATE_AT
    BY <1>2, <2>6, UnsoldNumbers
  <2>12. followed' = HighIn(p, n + 1) /\ Len(path') = n + 1 /\ n + 1 # 0
    BY <1>4, <1>5, <1>7, <2>4
  <2>13. Unmet(exitPair', weakAt', path', soldAt')
    BY <1>5, <2>6, <2>8
  <2>14. QED
    BY <1>5, <2>6, <2>9, <2>10, <2>11, <2>12, <2>13
<1>16. QED
  BY <1>10, <1>13, <1>14, <1>15 DEF UnsoldIInv

LEMMA LiquidateKept ==
    ASSUME UnsoldIInv, NEW price \in Int, soldAt = 0, Len(path) < CLOSE_AT, LiquidateAtEnd(price)
    PROVE  UnsoldIInv'
<1>1. /\ exitPair \in ExitPairs /\ weakAt \in Int /\ path \in Seq(Int) /\ LogOf(lines, path, weakAt)
      /\ Len(lines) \in Nat
  BY DEF UnsoldIInv, UnsoldRest, LogOf
<1>2. PICK n \in Nat : n = Len(path)
  BY <1>1
<1>3. PICK p : p = Append(path, price)
  OBVIOUS
<1>4. p \in Seq(Int) /\ Len(p) = n + 1
  BY <1>1, <1>2, <1>3, HighGoesOn
<1>5. path' = p /\ soldAt' = n + 1 /\ UNCHANGED <<exitPair, weakAt, barsKept, followed, lastJudged, lines, refusals, hindrances, saidSell>>
  BY <1>2, <1>3 DEF LiquidateAtEnd, Now
<1>6. UnsoldRest'
  BY <1>1, <1>2, <1>4, <1>5, UnsoldNumbers DEF UnsoldIInv, UnsoldRest
<1>7. LogOf(lines', path', weakAt')
  <2>1. LogOf(lines, p, weakAt)
    BY <1>1, <1>3, UnsoldNumbers, LogGoesOn
  <2>2. QED
    BY <1>5, <2>1
<1>8. SellSaid'
  BY <1>2, <1>4, <1>5 DEF UnsoldIInv, SellSaid
<1>9. Unhindered'
  <2>1. SUFFICES ASSUME hindrances' = {}
                 PROVE  /\ Unmet(exitPair', weakAt', path', soldAt')
                        /\ soldAt' # 0
                        /\ soldAt' <= LIQUIDATE_AT
                        /\ \A i \in 1..Len(lines') : lines'[i].at \in {0, 1, soldAt'}
    BY DEF Unhindered
  <2>2. /\ Unmet(exitPair, weakAt, path, 0) /\ n < LIQUIDATE_AT
        /\ \A i \in 1..Len(lines) : lines[i].at \in {0, 1}
    BY <1>2, <1>5, <2>1 DEF UnsoldIInv, Unhindered
  <2>3. PICK sold : sold = n + 1
    OBVIOUS
  <2>4. sold \in {0, Len(path) + 1} /\ sold # 0
    BY <1>2, <2>3
  <2>5. Unmet(exitPair, weakAt, p, sold)
    BY <1>1, <1>3, <2>2, <2>4, ClearGoesOn
  <2>6. Unmet(exitPair', weakAt', path', soldAt')
    BY <1>5, <2>3, <2>5
  <2>7. QED
    BY <1>5, <2>2, <2>3, <2>4, <2>6, UnsoldNumbers
<1>10. QED
  BY <1>6, <1>7, <1>8, <1>9 DEF UnsoldIInv

LEMMA MissKept ==
    ASSUME UnsoldIInv, NEW price \in Int, soldAt = 0, Len(path) < CLOSE_AT, MissMinute(price)
    PROVE  UnsoldIInv'
<1>1. /\ exitPair \in ExitPairs /\ weakAt \in Int /\ path \in Seq(Int) /\ LogOf(lines, path, weakAt)
  BY DEF UnsoldIInv, UnsoldRest
<1>2. PICK n \in Nat : n = Len(path)
  BY <1>1
<1>3. PICK p : p = Append(path, price)
  OBVIOUS
<1>4. p \in Seq(Int) /\ Len(p) = n + 1
  BY <1>1, <1>2, <1>3, HighGoesOn
<1>5. path' = p /\ hindrances' = hindrances \cup {"missed"}
      /\ UNCHANGED <<exitPair, weakAt, barsKept, followed, lastJudged, lines, soldAt, refusals, saidSell>>
  BY <1>3 DEF MissMinute
<1>6. UnsoldRest'
  BY <1>1, <1>2, <1>4, <1>5, UnsoldNumbers DEF UnsoldIInv, UnsoldRest
<1>7. LogOf(lines', path', weakAt')
  <2>1. LogOf(lines, p, weakAt)
    BY <1>1, <1>3, UnsoldNumbers, LogGoesOn
  <2>2. QED
    BY <1>5, <2>1
<1>8. SellSaid'
  BY <1>2, <1>4, <1>5 DEF UnsoldIInv, SellSaid
<1>9. Unhindered'
  BY <1>5 DEF Unhindered
<1>10. QED
  BY <1>6, <1>7, <1>8, <1>9 DEF UnsoldIInv

LEMMA RestartKept ==
    ASSUME UnsoldIInv, LoopRestarts
    PROVE  UnsoldIInv'
<1>1. UnsoldRest'
  BY UnsoldNumbers DEF UnsoldIInv, UnsoldRest, LoopRestarts
<1>2. LogOf(lines', path', weakAt')
  <2>1. LogOf(lines, path, weakAt) /\ lines' = lines /\ path' = path /\ weakAt' = weakAt
    BY DEF UnsoldIInv, LoopRestarts
  <2>2. QED
    BY <2>1
<1>3. SellSaid'
  BY DEF UnsoldIInv, SellSaid, LoopRestarts
<1>4. Unhindered'
  BY DEF Unhindered, LoopRestarts
<1>5. QED
  BY <1>1, <1>2, <1>3, <1>4 DEF UnsoldIInv

LEMMA UnsoldIInvKept ==
    ASSUME UnsoldIInv, [UnsoldNext]_unsoldVars
    PROVE  UnsoldIInv'
<1>1. CASE LoopRestarts
  BY <1>1, RestartKept
<1>2. ASSUME NEW price \in MinuteQuotes, Now < CLOSE_AT, soldAt = 0,
             \/ Now + 1 < LIQUIDATE_AT /\ \E blocked \in BOOLEAN : LookAtMinute(price, blocked)
             \/ Now + 1 >= LIQUIDATE_AT /\ LiquidateAtEnd(price)
             \/ MissMinute(price)
      PROVE  UnsoldIInv'
  <2>1. price \in Int
    BY UnsoldAssumption
  <2>2. QED
    BY <1>2, <2>1, LookKept, LiquidateKept, MissKept DEF Now
<1>3. CASE UNCHANGED unsoldVars
  <2>1. UNCHANGED <<exitPair, weakAt, path, barsKept, followed, lastJudged, lines, soldAt, refusals,
                    hindrances, saidSell>>
    BY <1>3 DEF unsoldVars
  <2>2. LogOf(lines', path', weakAt')
    BY <2>1 DEF UnsoldIInv
  <2>3. UnsoldRest' /\ SellSaid' /\ Unhindered'
    BY <2>1 DEF UnsoldIInv, UnsoldRest, SellSaid, Unhindered
  <2>4. QED
    BY <2>2, <2>3 DEF UnsoldIInv
<1>4. QED
  BY <1>1, <1>2, <1>3 DEF UnsoldNext

\* The diagnosis of a symbol that was not sold: it finds no fault where the loop was not hindered, from
\* the bars or from the few lines of the log, and it tells each sale that was missed and each stop that a
\* restart made the loop forget (DiagnosisSound), for every pair of multipliers and every path of prices.
THEOREM AlwaysDiagnosedSoundly == UnsoldSpec => [](UnsoldTypeOK /\ DiagnosisSound)
<1>1. UnsoldInit => UnsoldIInv
  BY UnsoldStarts
<1>2. UnsoldIInv /\ [UnsoldNext]_unsoldVars => UnsoldIInv'
  BY UnsoldIInvKept
<1>3. UnsoldIInv => UnsoldTypeOK /\ DiagnosisSound
  BY UnsoldTyped, DiagnosisHolds
<1>4. QED
  BY <1>1, <1>2, <1>3, PTL DEF UnsoldSpec
=============================================================================
