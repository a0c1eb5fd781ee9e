---------------------------- MODULE FilterDecisions ----------------------------
(* The decision events (infrastructure/persistence/filter_decision_repository.py *)
(* and the methods of application/trading_usecase.py that call it): a purchase   *)
(* that was skipped, or a stop, is observed for some days and judged twice, by   *)
(* the prices of its own day and after OBSERVATION_DAYS business days. A run may  *)
(* end at any point, and any call may fail.                                     *)
(*                                                                             *)
(* An event is a symbol and a day: record_event reuses the event of the day, and  *)
(* the types of events do not touch each other.                                 *)
EXTENDS TradingDays, FiniteSetsExt

CONSTANTS
    OBSERVATION_DAYS,    \* FILTER_DECISION_OBSERVATION_DAYS
    MaxFailures, MaxEvents   \* bounds

ASSUME FilterDecisionsAssumption ==
    {OBSERVATION_DAYS, MaxEvents} \subseteq Nat \ {0} /\ MaxFailures \in Nat

VARIABLES
    events,       \* the rows of filter_decision_events
    initialized,  \* filter_decisions_initialized
    late,         \* the time of MARKET_LIQUIDATION has come
    ofDay,        \* not in the program: the last price an event saw on its own day
    dark,         \* not in the program: events whose symbol lost its board on their day
    caught,       \* not in the program: the last day up to which all was judged
    failed

filterVars == <<today, trading, events, initialized, late, ofDay, dark, caught, failed>>

Event == Symbol \X Day

\* verdict and outcome: the price that an event was judged by, 0 before that
NoEvent ==
    [status |-> "none", low |-> 0, high |-> 0, last |-> 0, outcome |-> 0,
     dayLow |-> 0, dayHigh |-> 0, close |-> 0, verdict |-> 0, flagged |-> FALSE]

NewEvent(p) ==
    [status |-> "observing", low |-> p, high |-> p, last |-> p, outcome |-> 0,
     dayLow |-> p, dayHigh |-> p, close |-> p, verdict |-> 0, flagged |-> FALSE]

FilterInit ==
    /\ DaysInit
    /\ events = [e \in Event |-> NoEvent]
    /\ initialized = FALSE
    /\ late = FALSE
    /\ ofDay = [e \in Event |-> 0]
    /\ dark = {}
    /\ caught = 0
    /\ failed = 0

Observing == {e \in Event : events[e].status = "observing"}

Fail == failed < MaxFailures /\ failed' = failed + 1

-----------------------------------------------------------------------------
(* Judging *)

\* _business_days_elapsed: the days of this model are business days.
DueEvents == {e \in Observing : today - e[2] >= OBSERVATION_DAYS}

\* A bug: the price of the last day is taken for that of the event's day.
DayJudgedByLast(row) == [row EXCEPT !.verdict = row.last]

\* A bug: the quality of the row is written anew.
DayJudgedClean(row) == [row EXCEPT !.verdict = row.close, !.flagged = FALSE]

\* finalize_same_day_events, one row
DayJudged(row) == [row EXCEPT !.verdict = row.close]

\* A bug: the outcome is written, but the row stays open.
DueJudgedOpen(row) == [row EXCEPT !.outcome = row.last]

\* finalize_due_events, one row
DueJudged(row) == [row EXCEPT !.status = "finalized", !.outcome = row.last]

\* A bug: what the day before left behind is skipped.
SameDayEventsOfToday(includeToday) ==
    {e \in Event : events[e].close # 0 /\ events[e].verdict = 0 /\ includeToday /\ e[2] = today}

SameDayEvents(includeToday) ==
    {e \in Event : /\ events[e].close # 0
                   /\ events[e].verdict = 0
                   /\ e[2] < today \/ (includeToday /\ e[2] = today)}

Judge(due, sameDay) ==
    [e \in Event |->
        LET row == IF e \in sameDay THEN DayJudged(events[e]) ELSE events[e]
        IN  IF e \in due THEN DueJudged(row) ELSE row]

\* Both calls, each of which may fail: finalize_due_events is one transaction a row,
\* in the order of the days, finalize_same_day_events a single one.
JudgeSafely(includeToday, upTo) ==
    \/ /\ events' = Judge(DueEvents, SameDayEvents(includeToday))
       /\ caught' = upTo
       /\ UNCHANGED failed
    \/ /\ Fail
       /\ \E cut \in Day, sameDay \in {{}, SameDayEvents(includeToday)} :
             events' = Judge({e \in DueEvents : e[2] < cut}, sameDay)
       /\ UNCHANGED caught

-----------------------------------------------------------------------------
(* The loop *)

StartRun ==
    /\ Begin
    /\ initialized' = FALSE
    /\ UNCHANGED <<events, late, ofDay, dark, caught, failed>>

\* In the first round: what earlier runs left behind. It is not tried again.
InitializeDecisions ==
    /\ trading
    /\ ~initialized
    /\ initialized' = TRUE
    /\ JudgeSafely(FALSE, today - 1)
    /\ UNCHANGED <<today, trading, late, ofDay, dark>>

\* record_event
RecordEvent(s, p) ==
    LET e == <<s, today>>
    IN  /\ trading /\ initialized /\ ~late
        /\ events[e].status = "none"
        /\ Cardinality({old \in Event : events[old].status # "none"}) < MaxEvents
        /\ events' = [events EXCEPT ![e] = NewEvent(p)]
        /\ ofDay' = [ofDay EXCEPT ![e] = p]
        /\ UNCHANGED <<today, trading, initialized, late, dark, caught, failed>>

\* A bug: on the day of the event only the columns of the day change.
RowObservedApart(e, p) ==
    IF e[2] = today
    THEN [events[e] EXCEPT !.dayLow = Min({@, p}), !.dayHigh = Max({@, p}), !.close = p, !.last = p]
    ELSE [events[e] EXCEPT !.low = Min({@, p}), !.high = Max({@, p}), !.last = p]

\* update_observation: the columns of the day change on that day only.
RowObserved(e, p) ==
    LET row == [events[e] EXCEPT !.low = Min({@, p}), !.high = Max({@, p}), !.last = p]
    IN  IF e[2] = today /\ row.verdict = 0
        THEN [row EXCEPT !.dayLow = Min({@, p}), !.dayHigh = Max({@, p}), !.close = p]
        ELSE row

\* update_open_event_observations, one transaction an event in the order of the days.
ObservePrice(s, p) ==
    LET shown == {e \in Observing : e[1] = s}
    IN  /\ trading /\ initialized /\ ~late
        /\ shown # {}
        /\ \E cut \in 1..(MaxDay + 1) :
              LET reached == {e \in shown : e[2] < cut}
              IN  /\ events' = [e \in Event |-> IF e \in reached THEN RowObserved(e, p) ELSE events[e]]
                  /\ ofDay' = [e \in Event |->
                                 IF e \in reached /\ e[2] = today THEN p ELSE ofDay[e]]
                  /\ IF reached = shown THEN UNCHANGED failed ELSE Fail
        /\ UNCHANGED <<today, trading, initialized, late, dark, caught>>

\* mark_same_day_board_unavailable
BoardUnavailable(s) ==
    LET e == <<s, today>>
    IN  /\ trading /\ initialized /\ ~late
        /\ events[e].close # 0 /\ events[e].verdict = 0
        /\ events' = [events EXCEPT ![e].flagged = TRUE]
        /\ dark' = dark \cup {e}
        /\ UNCHANGED <<today, trading, initialized, late, ofDay, caught, failed>>

ClockReachesEnd ==
    /\ ~late
    /\ late' = TRUE
    /\ UNCHANGED <<today, trading, events, initialized, ofDay, dark, caught, failed>>

\* The loop ends with the trading hours; the report judges what is due once more.
FinishDay ==
    /\ initialized
    /\ late
    /\ End
    /\ JudgeSafely(TRUE, today)
    /\ UNCHANGED <<initialized, late, ofDay, dark>>

\* A bug: the events of the day are judged when the loop is stopped by an order limit,
\* a loss or the emergency file.
StopJudgingToday ==
    /\ End
    /\ events' = Judge(DueEvents, SameDayEvents(TRUE))
    /\ UNCHANGED <<initialized, late, ofDay, dark, caught, failed>>

\* The kill switch or the emergency file: the day is not judged, the report is sent.
StopEarly ==
    /\ End
    /\ \/ events' = Judge(DueEvents, {}) /\ UNCHANGED failed
       \/ events' = events /\ Fail
    /\ UNCHANGED <<initialized, late, ofDay, dark, caught>>

RunDies == End /\ UNCHANGED <<events, initialized, late, ofDay, dark, caught, failed>>

NextBusinessDay ==
    /\ Tomorrow
    /\ late' = FALSE
    /\ UNCHANGED <<events, initialized, ofDay, dark, caught, failed>>

FilterNext ==
    \/ StartRun \/ InitializeDecisions \/ ClockReachesEnd \/ FinishDay \/ StopEarly
    \/ RunDies \/ NextBusinessDay
    \/ \E s \in Symbol : \/ BoardUnavailable(s)
                         \/ \E p \in Price : RecordEvent(s, p) \/ ObservePrice(s, p)

FilterSpec == FilterInit /\ [][FilterNext]_filterVars

-----------------------------------------------------------------------------
(* Properties *)

PriceOrNone == Price \cup {0}

EventRow ==
    [status : {"none", "observing", "finalized"}, flagged : BOOLEAN,
     low : PriceOrNone, high : PriceOrNone, last : PriceOrNone, outcome : PriceOrNone,
     dayLow : PriceOrNone, dayHigh : PriceOrNone, close : PriceOrNone, verdict : PriceOrNone]

FilterTypeOK ==
    /\ today \in Day
    /\ trading \in BOOLEAN
    /\ events \in [Event -> EventRow]
    /\ \A e \in Event : events[e].status = "finalized" <=> events[e].outcome # 0
    /\ initialized \in BOOLEAN
    /\ late \in BOOLEAN
    /\ ofDay \in [Event -> PriceOrNone]
    /\ dark \subseteq Event
    /\ caught \in 0..MaxDay
    /\ failed \in 0..MaxFailures

\* The judgement of the day is by the last price of that day, never by one of a
\* later day, whenever a run comes to make it.
JudgedByItsDay ==
    \A e \in Event :
        /\ events[e].close = ofDay[e]
        /\ events[e].verdict \in {0, ofDay[e]}

\* The extremes of a day lie within those of the whole observation, and each
\* interval contains the price it is judged by.
IntervalsNested ==
    \A e \in Event :
        LET row == events[e]
        IN  /\ row.low <= row.dayLow /\ row.dayLow <= row.close
            /\ row.close <= row.dayHigh /\ row.dayHigh <= row.high
            /\ row.low <= row.last /\ row.last <= row.high

\* A run whose calls succeeded leaves nothing of the days before unjudged, and one
\* that ends with the trading hours nothing of its own day: neither a judgement of
\* the day, nor one that was due.
CaughtUp ==
    \A e \in Event : e[2] <= caught /\ events[e].status # "none" =>
        /\ events[e].verdict # 0
        /\ caught - e[2] >= OBSERVATION_DAYS => events[e].status = "finalized"

\* A judgement is made once, and never before the hours of its day are over.
JudgedForGood ==
    [][\A e \in Event :
          /\ events[e].verdict # 0 => events'[e].verdict = events[e].verdict
          /\ events[e].outcome # 0 => events'[e].outcome = events[e].outcome
          /\ events'[e].verdict # 0 => late \/ e[2] < today
      ]_filterVars

\* A judgement of a day on which the board was missing says so.
DarknessFlagged == \A e \in dark : events[e].flagged

\* What an event is judged by is what was seen of its own day, and says what was
\* not seen, whichever run comes to judge it; none is left unjudged once a run caught up.
JudgedFairly == JudgedByItsDay /\ IntervalsNested /\ DarknessFlagged /\ CaughtUp
=============================================================================
