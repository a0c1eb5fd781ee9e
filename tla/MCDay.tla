--------------------------------- MODULE MCDay ---------------------------------
(* The programs of a day: those that choose the symbols and fetch what they need,  *)
(* and what the trading decides about them, in its loop and in the simulations:    *)
(* machines that share no state. A behaviour runs one of them, chosen at the start. *)
EXTENDS Filtering, Screening, MarketDay, MiddayFiltering, MinuteBars, SymbolDecision, Backtest,
        MarketRegime, BacktestSnapshot, JQuantsClient

CONSTANTS x, y, z, early, later

VARIABLE machine

Issues == {x, y, z}
ScreenedBands == <<<<x, y>>, <<y, z>>>>
RankedBands == <<<<x, y>>, <<y>>>>
NoonBand(tickers, compared) == [tickers |-> tickers, compared |-> compared, found |-> tickers # <<>>]
NoonBands == <<NoonBand(<<z, x>>, TRUE), NoonBand(<<x, y>>, FALSE), NoonBand(<<>>, FALSE)>>
EarlyMinutes == {early}
LaterMinutes == {later}
Traded == {x, y}
Quotes == 2..4
StopDistance == [l \in Assessed |-> 1]
LockDistance == [l \in Assessed |-> IF l = "DANGER" THEN 1 ELSE 2]
Replay == <<x, y>>
Courses == {<<100, 200, 100>>, <<200, 100, 200>>, <<0, 200, 100>>, <<200, 100, 0>>}
Day(r, l, a) == [regime |-> r, level |-> l, active |-> a]
Days == {Day("NORMAL", "NORMAL", {x, y}), Day("CAUTION", "unknown", {x, y}),
         Day("DANGER", "NORMAL", {x, y}), Day("DANGER", "DANGER", {x, y}),
         Day("NORMAL", "CAUTION", {x}), Day("NORMAL", "DANGER", {x, y})}
TestTerms == {[order |-> "market", delay |-> 1, overnight |-> FALSE,
               targeted |-> TRUE, daily |-> FALSE, stop |-> 0],
              [order |-> "limit", delay |-> 0, overnight |-> TRUE,
               targeted |-> FALSE, daily |-> TRUE, stop |-> 50]}
Exits == [l \in Climate |-> [locked \in BOOLEAN |-> 1]]

FilteringDays == {1, 2}
TwoClients == {1, 2}

dayVars == <<machine, filteringVars, screeningVars, marketVars, middayVars, barVars, decisionVars,
             backtestVars, regimeVars, snapshotVars, clientVars>>

\* The inputs of a machine that does not run are fixed.
DayInit ==
    /\ machine \in {"filtering", "screening", "market", "midday", "bars", "decision", "backtest",
                    "regime", "snapshot", "client"}
    /\ BacktestInit
    /\ machine # "backtest" =>
           /\ method = "fixed" /\ ~terms.overnight
           /\ series = CHOOSE g \in Gapless : TRUE
    /\ FilteringInit /\ (machine # "filtering" => clock = 0)
    /\ ScreeningInit
    /\ MarketDayInit
    /\ MiddayInit /\ (machine # "midday" => hour = 0)
    /\ MinuteBarsInit /\ (machine # "bars" => bars = NoBars)
    /\ DecisionInit /\ (machine # "decision" => regime = "NORMAL" /\ Positions = {})
    /\ RegimeInit
    /\ SnapshotInit
    /\ ClientInit

OthersIdle ==
    /\ UNCHANGED machine
    /\ machine # "filtering" => UNCHANGED filteringVars
    /\ machine # "screening" => UNCHANGED screeningVars
    /\ machine # "market" => UNCHANGED marketVars
    /\ machine # "midday" => UNCHANGED middayVars
    /\ machine # "bars" => UNCHANGED barVars
    /\ machine # "decision" => UNCHANGED decisionVars
    /\ machine # "backtest" => UNCHANGED backtestVars
    /\ machine # "regime" => UNCHANGED regimeVars
    /\ machine # "snapshot" => UNCHANGED snapshotVars
    /\ machine # "client" => UNCHANGED clientVars

DayNext ==
    /\ \/ machine = "filtering" /\ FilteringNext
       \/ machine = "screening" /\ ScreeningNext
       \/ machine = "market" /\ MarketDayNext
       \/ machine = "midday" /\ MiddayNext
       \/ machine = "bars" /\ MinuteBarsNext
       \/ machine = "decision" /\ DecisionNext
       \/ machine = "backtest" /\ BacktestNext
       \/ machine = "regime" /\ RegimeNext
       \/ machine = "snapshot" /\ SnapshotNext
       \/ machine = "client" /\ ClientNext
    /\ OthersIdle

DaySpec ==
    /\ DayInit /\ [][DayNext]_dayVars
    /\ WF_filteringVars(machine = "filtering" /\ FilteringStep)
    /\ WF_middayVars(machine = "midday" /\ MiddayStep)
    /\ WF_clientVars(machine = "client" /\ TimeElapses)
    /\ \A c \in Client : WF_clientVars(machine = "client" /\ ClientStep(c))

-----------------------------------------------------------------------------
(* Properties *)

\* Every variable of the machine that runs has its type; the others stay as they began.
DayTypeOK ==
    /\ machine = "filtering" => FilteringTypeOK
    /\ machine = "screening" => ScreeningTypeOK
    /\ machine = "market" => MarketDayTypeOK
    /\ machine = "midday" => MiddayTypeOK
    /\ machine = "bars" => MinuteBarsTypeOK
    /\ machine = "decision" => DecisionTypeOK
    /\ machine = "backtest" => BacktestTypeOK
    /\ machine = "regime" => RegimeTypeOK
    /\ machine = "snapshot" => SnapshotTypeOK
    /\ machine = "client" => ClientTypeOK

\* The three selections keep their promises, whatever fails and whenever time runs out, and so
\* does the client that fetches pages of data.
SelectionsSound ==
    /\ machine = "filtering" => FilteringSound
    /\ machine = "screening" => ScreeningSound
    /\ machine = "midday" => MiddaySound
    /\ machine = "client" => FetchingSound

\* The decisions about a symbol are those of the bands, the stop, the gates and the market, in the
\* loop; in the simulations they are paid for, add up and look at no price of the future, and
\* a simulation that is repeated repeats them on the same data.
DecisionsSound ==
    /\ machine = "decision" => DecisionSound
    /\ machine = "regime" => RegimeSound
    /\ machine = "backtest" => BacktestSound
    /\ machine = "snapshot" => ReplaySound

\* The programs that wait for others end: the filterings, of the morning and of noon, within
\* their time, and the fetching of pages whatever keys the server sends.
ProgramsEnd ==
    <>(/\ machine = "filtering" => Finished
       /\ machine = "midday" => activity = "over"
       /\ machine = "client" => \A c \in Client : fetcher[c].at \in FetchOver)
=============================================================================
