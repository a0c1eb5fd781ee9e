---------------------------- MODULE SessionReports ----------------------------
(* What the operator hears of a trading day: reports at fixed times, notices of   *)
(* failing boards and of a failing login, and at the end the report of the day    *)
(* with the reason why nothing was traded. A run may die and be started again:    *)
(* reports and signals are counted per run, the journal and the events per day.   *)
EXTENDS Integers, FiniteSets

CONSTANTS
    OPEN, LIQUIDATION, CLOSING, LastMinute, \* opening, end of new orders, closing of the market
    ReportTimes,    \* times of the progress reports
    THRESHOLD,      \* passes without any board until the notice
    MaxStarts,
    Refusal         \* kinds of refusals in the journal that occur

ASSUME SessionAssumption ==
    /\ {OPEN, LIQUIDATION, CLOSING, LastMinute, THRESHOLD, MaxStarts} \subseteq Nat
    /\ OPEN <= LIQUIDATION /\ LIQUIDATION <= CLOSING /\ CLOSING <= LastMinute
    /\ THRESHOLD # 0
    /\ ReportTimes \subseteq OPEN..LastMinute
    /\ Refusal \subseteq {"halt", "capacity", "other"}

VARIABLES
    minute, starts, sessionStage, \* sessionStage: "off", "loop", "ended"
    begunAt, previousPass,      \* start of this run, time of its previous pass
    firstPass,                  \* the next pass is the first
    reportsSent,                \* times reported by this run
    allFailed, boardNoticed,    \* passes without any board, in a row; the notice was sent
    loginNoticed,
    killedToday, stopped,            \* kill switch and stop file, of this run
    evaluated, signalled,       \* some symbol was judged, was a BUY signal, in this run
    unsavedCodes, savedCodes,   \* refusals of the day in the journal: in memory, in the database
    dayEvents,                  \* events of the day: "market", "atr"
    traded,                     \* the day has orders
    dayReport,                  \* the file of the day
    heard,                      \* report time -> runs that reported it (ghost)
    silentPasses,               \* passes with boards asked for and none read, in a row (ghost)
    refusedToday, recordsLost   \* a BUY signal was refused; some record of it was lost (ghost)

noticeVars == <<reportsSent, allFailed, boardNoticed, loginNoticed>>
runVars == <<killedToday, stopped, evaluated, signalled>>
journalVars == <<unsavedCodes, savedCodes, dayEvents, traded>>
ghostVars == <<heard, silentPasses, refusedToday, recordsLost>>
sessionVars == <<minute, starts, sessionStage, begunAt, previousPass, firstPass, noticeVars, runVars,
                 journalVars, dayReport, ghostVars>>

NoReport == [reason |-> "none", halted |-> FALSE, refused |-> FALSE, lost |-> FALSE, traded |-> TRUE]
\* The first pass works with the time of the start.
TimePasses == IF firstPass THEN begunAt ELSE minute

\* Mutant: what this run saw goes before what the day recorded.
ReasonOfThisRun(halted, codes, marketKnown) ==
    IF halted \/ "halt" \in codes THEN "halted"
    ELSE IF evaluated /\ ~signalled THEN "condition"
    ELSE IF "market" \in dayEvents THEN (IF marketKnown THEN "market" ELSE "market unknown")
    ELSE IF "capacity" \in codes THEN "capacity"
    ELSE "other"

\* Mutant: the market is blamed before the halt.
ReasonMarketFirst(halted, codes, marketKnown) ==
    IF "market" \in dayEvents THEN (IF marketKnown THEN "market" ELSE "market unknown")
    ELSE IF halted \/ "halt" \in codes THEN "halted"
    ELSE IF "capacity" \in codes THEN "capacity"
    ELSE IF "atr" \in dayEvents \/ "other" \in codes THEN "other"
    ELSE IF evaluated /\ ~signalled THEN "condition"
    ELSE "other"

\* Why nothing was traded: the first that applies.
Reason(halted, codes, marketKnown) ==
    IF halted \/ "halt" \in codes THEN "halted"
    ELSE IF "market" \in dayEvents THEN (IF marketKnown THEN "market" ELSE "market unknown")
    ELSE IF "capacity" \in codes THEN "capacity"
    ELSE IF "atr" \in dayEvents \/ "other" \in codes THEN "other"
    ELSE IF evaluated /\ ~signalled THEN "condition"
    ELSE "other"

-----------------------------------------------------------------------------

SessionInit ==
    /\ minute = 0 /\ starts = 0 /\ sessionStage = "off"
    /\ begunAt = 0 /\ previousPass = 0 /\ firstPass = FALSE
    /\ reportsSent = {} /\ allFailed = 0 /\ boardNoticed = FALSE /\ loginNoticed = FALSE
    /\ killedToday = FALSE /\ stopped = FALSE /\ evaluated = FALSE /\ signalled = FALSE
    /\ unsavedCodes = {} /\ savedCodes = {} /\ dayEvents = {} /\ traded = FALSE
    /\ dayReport = NoReport
    /\ heard = [t \in ReportTimes |-> 0] /\ silentPasses = 0
    /\ refusedToday = FALSE /\ recordsLost = FALSE

MinutePasses ==
    /\ minute < LastMinute
    /\ minute' = minute + 1
    /\ UNCHANGED <<starts, sessionStage, begunAt, previousPass, firstPass, noticeVars, runVars,
                   journalVars, dayReport, ghostVars>>

\* A start in the session, later than the last pass before it; what a run counts begins anew.
BeginSession ==
    /\ sessionStage = "off" /\ starts < MaxStarts
    /\ minute >= OPEN /\ minute < CLOSING
    /\ starts > 0 => minute > previousPass
    /\ starts' = starts + 1
    /\ sessionStage' = "loop"
    /\ begunAt' = minute /\ previousPass' = minute /\ firstPass' = TRUE
    /\ reportsSent' = {} /\ allFailed' = 0 /\ boardNoticed' = FALSE /\ loginNoticed' = FALSE
    /\ killedToday' = FALSE /\ stopped' = FALSE /\ evaluated' = FALSE /\ signalled' = FALSE
    /\ silentPasses' = 0
    /\ UNCHANGED <<minute, journalVars, dayReport, heard, refusedToday, recordsLost>>

\* Mutant: the run need not have been there at the time.
DueNowWhenever == {t \in ReportTimes \ reportsSent : t <= TimePasses}

\* A time is due when this pass and the one before enclose it and the run had begun by then.
DueNow ==
    {t \in ReportTimes \ reportsSent :
        /\ begunAt <= t
        /\ \/ previousPass < t /\ t <= TimePasses
           \/ previousPass = t /\ t = TimePasses}

SendDueReports ==
    /\ reportsSent' = reportsSent \cup DueNow
    /\ heard' = [t \in ReportTimes |-> IF t \in DueNow THEN heard[t] + 1 ELSE heard[t]]

\* Mutant: a pass that asked for no board ends the row.
FailureStreakAlways(boards) == IF boards = "failed" THEN allFailed + 1 ELSE 0

\* Only a pass that asked for boards counts, and one board read ends the row.
FailureStreak(boards) == CASE boards = "failed" -> allFailed + 1
                    [] boards = "read" -> 0
                    [] OTHER -> allFailed

CountBoards(boards) ==
    /\ allFailed' = FailureStreak(boards)
    /\ boardNoticed' = (boardNoticed \/ (boards = "failed" /\ allFailed' >= THRESHOLD))
    /\ silentPasses' = CASE boards = "failed" -> silentPasses + 1
                         [] boards = "read" -> 0
                         [] OTHER -> silentPasses

\* The journal goes to the database, or stays in memory for the next attempt.
Flush(codes, works) ==
    /\ savedCodes' = IF works THEN savedCodes \cup unsavedCodes \cup codes ELSE savedCodes
    /\ unsavedCodes' = IF works THEN {} ELSE unsavedCodes \cup codes

\* A pass: the reports that are due, the symbols, then the notices and the journal. A BUY signal
\* becomes an order, or is refused with a record in the journal or an event; when the CAUTION
\* threshold alone prevents it there is an event but no signal. The first pass may have its
\* boards from before the loop.
PassSymbols(boards, what, login, works) ==
    /\ sessionStage = "loop" /\ TimePasses < LIQUIDATION
    /\ firstPass \/ minute > previousPass    \* the loop sleeps between passes
    /\ boards = "preflight" => firstPass
    /\ what # "nothing" => boards \in {"read", "preflight"}
    /\ SendDueReports
    /\ CountBoards(boards)
    /\ loginNoticed' = (loginNoticed \/ login)
    /\ evaluated' = (evaluated \/ boards \in {"read", "preflight"})
    /\ signalled' = (signalled \/ what \notin {"nothing", "caution"})
    /\ traded' = (traded \/ what = "order")
    /\ dayEvents' = dayEvents \cup (CASE what \in {"market", "caution"} -> {"market"}
                              [] what = "atr" -> {"atr"}
                              [] OTHER -> {})
    /\ Flush({what} \cap Refusal, works)
    /\ refusedToday' = (refusedToday \/ what \notin {"nothing", "order"})
    /\ previousPass' = TimePasses /\ firstPass' = FALSE
    /\ UNCHANGED <<minute, starts, sessionStage, begunAt, killedToday, stopped, dayReport, recordsLost>>

\* The kill switch ends the loop after a pass, the stop file and the time of the liquidation
\* before one: no report is due any more.
LeaveLoop(why) ==
    /\ sessionStage = "loop"
    /\ why = "time" => TimePasses >= LIQUIDATION
    /\ why = "kill" => ~firstPass
    /\ sessionStage' = "ended"
    /\ killedToday' = (why # "time") /\ stopped' = (why = "stop")
    /\ UNCHANGED <<minute, starts, begunAt, previousPass, firstPass, noticeVars, evaluated, signalled,
                   journalVars, dayReport, ghostVars>>

\* The journal is flushed for the last time: what it cannot save then goes with the process. The
\* report of the day replaces that of an earlier run, unless two attempts to write it fail, which
\* is notified.
EndReport(written, marketKnown, works) ==
    /\ sessionStage = "ended"
    /\ savedCodes' = IF works THEN savedCodes \cup unsavedCodes ELSE savedCodes
    /\ recordsLost' = (recordsLost \/ (~works /\ unsavedCodes # {}))
    /\ dayReport' =
           IF ~written THEN dayReport
           ELSE [reason |-> IF traded THEN "none" ELSE Reason(killedToday \/ stopped, savedCodes', marketKnown),
                 halted |-> killedToday \/ stopped, traded |-> traded,
                 refused |-> refusedToday, lost |-> recordsLost']
    /\ sessionStage' = "off"
    /\ reportsSent' = {} /\ unsavedCodes' = {}
    /\ UNCHANGED <<minute, starts, begunAt, previousPass, firstPass, allFailed, boardNoticed,
                   loginNoticed, runVars, dayEvents, traded, heard, silentPasses, refusedToday>>

\* What is only in memory is lost, with the counts of the run.
SessionDies ==
    /\ sessionStage # "off"
    /\ sessionStage' = "off"
    /\ unsavedCodes' = {}
    /\ recordsLost' = (recordsLost \/ unsavedCodes # {})
    /\ UNCHANGED <<minute, starts, begunAt, previousPass, firstPass, noticeVars, runVars, savedCodes,
                   dayEvents, traded, dayReport, heard, silentPasses, refusedToday>>

SessionNext ==
    \/ MinutePasses
    \/ BeginSession
    \/ \E boards \in {"none", "failed", "read", "preflight"},
          what \in {"nothing", "order", "market", "caution", "atr"} \cup Refusal,
          login, works \in BOOLEAN : PassSymbols(boards, what, login, works)
    \/ \E why \in {"time", "kill", "stop"} : LeaveLoop(why)
    \/ \E written, marketKnown, works \in BOOLEAN : EndReport(written, marketKnown, works)
    \/ SessionDies

SessionSpec == SessionInit /\ [][SessionNext]_sessionVars

-----------------------------------------------------------------------------
(* Properties *)

SessionTypeOK ==
    /\ minute \in 0..LastMinute /\ starts \in 0..MaxStarts
    /\ sessionStage \in {"off", "loop", "ended"}
    /\ {begunAt, previousPass} \subseteq 0..LastMinute
    /\ reportsSent \subseteq ReportTimes
    /\ unsavedCodes \cup savedCodes \subseteq Refusal /\ dayEvents \subseteq {"market", "atr"}
    /\ dayReport.reason \in {"none", "halted", "market", "market unknown", "capacity", "other", "condition"}

\* Each time is reported once a day, however often the run is started again, and a run that was
\* there when it came reports it in the first pass after it.
ReportedOnce ==
    /\ \A t \in ReportTimes : heard[t] <= 1
    /\ sessionStage = "loop" /\ ~firstPass =>
           \A t \in ReportTimes : begunAt <= t /\ t <= previousPass => t \in reportsSent

\* The notice is sent when, and only when, all boards asked for failed in THRESHOLD passes in a
\* row, passes that ask for none left out of the row.
BoardNoticeDue ==
    /\ sessionStage = "loop" /\ silentPasses >= THRESHOLD => boardNoticed
    /\ allFailed = silentPasses

\* The conditions are blamed only when no run of the day refused a signal and no record of one
\* was lost; a day that was halted is told as halted, and one with orders needs no reason.
ReasonTrue ==
    /\ dayReport.reason = "condition" => ~dayReport.refused \/ dayReport.lost
    /\ dayReport.halted /\ ~dayReport.traded => dayReport.reason = "halted"
    /\ dayReport.traded <=> dayReport.reason = "none"

\* The three together.
SessionSound == ReportedOnce /\ BoardNoticeDue /\ ReasonTrue
=============================================================================
