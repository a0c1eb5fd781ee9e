------------------------------- MODULE MarketDay -------------------------------
(* The programs of a market day, and the result files through which they work    *)
(* together: the screening of a day, the filtering of the next morning, which    *)
(* starts from the screening of the business day before, the filtering with a     *)
(* screening chosen by hand (run_filtering_override.py), and the trading, which    *)
(* watches what the filtering of today has selected. They are started by a         *)
(* schedule or by hand, at any time, again, or for another date, and keep apart by  *)
(* market_workflow_lock, which nobody waits for. Result files are written in place. *)
(*                                                                             *)
(* The days are the business days.                                              *)
EXTENDS Naturals, FiniteSets

CONSTANTS
    MaxDate,    \* bound: days
    MaxWrites   \* bound: result files that are written

ASSUME MarketDayAssumption == MaxDate \in Nat \ {0} /\ MaxWrites \in Nat

VARIABLES
    date,
    holder,      \* of the lock
    phase,       \* of each program
    target,      \* the date each program works for
    screened,    \* the file of the screening of each day
    filtered,    \* the file of the filtering of each day
    basis,       \* the screening that a filtering has loaded
    preflight,   \* the result that run_trading.main has loaded
    watched,     \* the result that TradingUseCase.run has loaded
    writes

marketVars == <<date, holder, phase, target, screened, filtered, basis, preflight, watched, writes>>

Program == {"screening", "filtering", "override", "trading"}
Filters == {"filtering", "override"}
Date == 1..MaxDate
PastDate == 0..MaxDate

\* A file is absent, torn by the death of its writer, or holds what one writer wrote.
\* full: it lists symbols.
Absent == [kind |-> "absent"]
Torn == [kind |-> "torn"]
Screening(day, number, full) == [kind |-> "screening", day |-> day, number |-> number, full |-> full]
Selection(day, number, full, by, of) ==
    [kind |-> "selection", day |-> day, number |-> number, full |-> full, by |-> by, of |-> of]

MarketDayInit ==
    /\ date = 1
    /\ holder = "none"
    /\ phase = [p \in Program |-> "off"]
    /\ target = [p \in Program |-> 0]
    /\ screened = [d \in PastDate |-> IF d = 0 THEN Screening(0, 0, TRUE) ELSE Absent]
    /\ filtered = [d \in PastDate |-> Absent]
    /\ basis = Absent
    /\ preflight = Absent
    /\ watched = Absent
    /\ writes = 0

-----------------------------------------------------------------------------
(* Starting and ending *)

\* A bug: the program does not look whether it has the lock.
AcquireAnyway(p) == holder' = IF holder = "none" THEN p ELSE holder

\* exclusive_file_lock, tried once
Acquire(p) == holder = "none" /\ holder' = p

\* The lock goes with its holder, also when that dies.
Leave(p) ==
    /\ phase' = [phase EXCEPT ![p] = "off"]
    /\ holder' = IF holder = p THEN "none" ELSE holder
    /\ target' = [target EXCEPT ![p] = 0]

\* Today, or the day of --date
Start(p) ==
    /\ phase[p] = "off"
    /\ Acquire(p)
    /\ phase' = [phase EXCEPT ![p] = "begun"]
    /\ \E d \in IF p \in {"screening", "filtering"} THEN Date ELSE {date} :
          target' = [target EXCEPT ![p] = d]
    /\ UNCHANGED <<date, screened, filtered, basis, preflight, watched, writes>>

\* No token, no ranking, an exception, the end of the day or of the process. What the
\* program has loaded is forgotten with it.
Forget(p) ==
    /\ basis' = IF p \in Filters THEN Absent ELSE basis
    /\ preflight' = IF p = "trading" THEN Absent ELSE preflight
    /\ watched' = IF p = "trading" THEN Absent ELSE watched

Stop(p) ==
    /\ phase[p] # "off"
    /\ Leave(p)
    /\ Forget(p)
    /\ UNCHANGED <<date, screened, filtered, writes>>

-----------------------------------------------------------------------------
(* Screening *)

\* write_text truncates the file before it writes.
TearScreening ==
    /\ phase["screening"] = "begun"
    /\ writes < MaxWrites
    /\ screened' = [screened EXCEPT ![target["screening"]] = Torn]
    /\ phase' = [phase EXCEPT !["screening"] = "writing"]
    /\ UNCHANGED <<date, holder, target, filtered, basis, preflight, watched, writes>>

WriteScreening ==
    /\ phase["screening"] = "writing"
    /\ writes' = writes + 1
    /\ \E full \in BOOLEAN :
          screened' = [screened EXCEPT ![target["screening"]] =
                          Screening(target["screening"], writes + 1, full)]
    /\ Leave("screening")
    /\ UNCHANGED <<date, filtered, basis, preflight, watched>>

-----------------------------------------------------------------------------
(* Filtering *)

\* A bug: the latest screening is loaded.
SourceLatest(p) ==
    IF p = "filtering"
    THEN {CHOOSE d \in PastDate : screened[d] # Absent /\ \A e \in PastDate : screened[e] # Absent => e <= d}
    ELSE PastDate

\* The business day before, or the day of --screening-date
Source(p) == IF p = "filtering" THEN {target[p] - 1} ELSE PastDate

\* load_for_date raises for a torn file; a file that is absent selects nothing.
LoadScreening(p) ==
    /\ phase[p] = "begun"
    /\ \E d \in Source(p) :
          /\ screened[d] # Torn
          /\ basis' = screened[d]
    /\ phase' = [phase EXCEPT ![p] = "selecting"]
    /\ UNCHANGED <<date, holder, target, screened, filtered, preflight, watched, writes>>

TearSelection(p) ==
    /\ phase[p] = "selecting"
    /\ writes < MaxWrites
    /\ filtered' = [filtered EXCEPT ![target[p]] = Torn]
    /\ phase' = [phase EXCEPT ![p] = "writing"]
    /\ UNCHANGED <<date, holder, target, screened, basis, preflight, watched, writes>>

Lists(file) == file.kind \in {"screening", "selection"} /\ file.full

WriteSelection(p) ==
    /\ phase[p] = "writing"
    /\ writes' = writes + 1
    /\ \E full \in IF Lists(basis) THEN BOOLEAN ELSE {FALSE} :
          filtered' = [filtered EXCEPT ![target[p]] =
                          Selection(target[p], writes + 1, full, p, basis)]
    /\ basis' = Absent
    /\ Leave(p)
    /\ UNCHANGED <<date, screened, preflight, watched>>

-----------------------------------------------------------------------------
(* Trading *)

\* run_trading.main: the selection of today, or the program ends
LoadPreflight ==
    /\ phase["trading"] = "begun"
    /\ Lists(filtered[target["trading"]])
    /\ preflight' = filtered[target["trading"]]
    /\ phase' = [phase EXCEPT !["trading"] = "preflight"]
    /\ UNCHANGED <<date, holder, target, screened, filtered, basis, watched, writes>>

\* load_latest: the file with the greatest name
Latest == CHOOSE d \in PastDate : /\ filtered[d] # Absent
                                  /\ \A e \in PastDate : filtered[e] # Absent => e <= d

\* A bug: the date of the latest selection is not compared.
SelectionAccepted(file) == Lists(file)

\* TradingUseCase.run: a selection of another day ends it.
OfToday(file) == Lists(file) /\ file.day = date

LoadWatched ==
    /\ phase["trading"] = "preflight"
    /\ OfToday(filtered[Latest])
    /\ watched' = filtered[Latest]
    /\ phase' = [phase EXCEPT !["trading"] = "trading"]
    /\ UNCHANGED <<date, holder, target, screened, filtered, basis, preflight, writes>>

-----------------------------------------------------------------------------

\* The trading ends with the market; the others may run on.
NextDate ==
    /\ date < MaxDate
    /\ phase["trading"] = "off"
    /\ date' = date + 1
    /\ UNCHANGED <<holder, phase, target, screened, filtered, basis, preflight, watched, writes>>

MarketDayNext ==
    \/ \E p \in Program : Start(p) \/ Stop(p)
    \/ TearScreening \/ WriteScreening
    \/ \E p \in Filters : LoadScreening(p) \/ TearSelection(p) \/ WriteSelection(p)
    \/ LoadPreflight \/ LoadWatched \/ NextDate

MarketDaySpec == MarketDayInit /\ [][MarketDayNext]_marketVars

-----------------------------------------------------------------------------
(* Properties *)

MarketDayTypeOK ==
    /\ date \in Date
    /\ holder \in Program \cup {"none"}
    /\ phase \in [Program -> {"off", "begun", "writing", "selecting", "preflight", "trading"}]
    /\ target \in [Program -> PastDate]
    /\ \A d \in PastDate : /\ screened[d].kind \in {"absent", "torn", "screening"}
                           /\ filtered[d].kind \in {"absent", "torn", "selection"}
    /\ basis.kind \in {"absent", "screening"}
    /\ {preflight.kind, watched.kind} \subseteq {"absent", "selection"}
    /\ writes \in 0..MaxWrites

\* Two programs are never at work at the same time: each begins by taking back all
\* registrations, also those of the others.
OneAtATime == Cardinality({p \in Program : phase[p] # "off"}) <= 1

\* What is traded was selected for today, and by the filtering from the screening of
\* the business day before, whatever was run again, by hand or for another day.
TradedOfToday ==
    phase["trading"] = "trading" =>
        /\ watched.day = date
        /\ watched.by = "filtering" => watched.of.day = date - 1
        /\ Lists(watched.of)

\* The symbols whose market data the program has collected before are the symbols it
\* trades, although it loads them twice and by two rules.
TradedAsPrepared == phase["trading"] = "trading" => watched = preflight

\* The three, about the selection of the symbols that are traded.
SelectionTrusted == OneAtATime /\ TradedOfToday /\ TradedAsPrepared
=============================================================================
