------------------------------- MODULE DayErrors -------------------------------
(* The errors of a day: the filtering and the trading loop write them to one log,  *)
(* a board that timed out carries the id of its request and the filtering tells    *)
(* in the end what became of it; the report of the day counts them, and the reports *)
(* of a period are added up, those of earlier forms of the report included.        *)
(* A line keeps its kind, its symbol and the filtering run that asked (0: none).   *)
EXTENDS Integers, Sequences, FiniteSets, FiniteSetsExt, SequencesExt, ListComprehension

CONSTANTS
    ErrorSymbol,
    LastErrorDay,
    MaxErrorLines,      \* lines of errors a day
    MaxFilterings,      \* filterings a day
    LISTED,             \* different messages an old report lists
    Forms               \* of the reports: "counted", "listed", "grouped", "none"

ASSUME ErrorsAssumption ==
    IsFiniteSet(ErrorSymbol) /\ LastErrorDay \in Nat /\ MaxFilterings \in Nat

VARIABLES
    errorDay,
    logLines,           \* of the day
    filteringNo, asking,\* filterings of the day, and whether the last one runs
    timedOut, cameBack,  \* symbols of this run that timed out, and came back
    fate,               \* what each finished request came to (ghost)
    toldErrors,         \* per day, the errors in its report
    happened            \* per day, the timeouts of each fate and the other errors (ghost)

errorVars == <<errorDay, logLines, filteringNo, asking, timedOut, cameBack, fate, toldErrors, happened>>

ErrorDay == 1..LastErrorDay
RequestId(s) == <<s, filteringNo>>
TimeoutLine(s, id) == [kind |-> "timeout", symbol |-> s, id |-> id, open |-> TRUE]
OutcomeLine(s, said) == [kind |-> said, symbol |-> s, id |-> RequestId(s), open |-> TRUE]
LinesWith(seq, Test(_)) == Cardinality({i \in DOMAIN seq : Test(seq[i])})

IsTimeout(l) == l.kind = "timeout" /\ l.open
IsOther(l) == l.kind = "error" /\ l.open
Errors(seq) == Picked(seq, {l \in Range(seq) : IsTimeout(l) \/ IsOther(l)})

\* Mutant: what the log tells of the symbol is taken for each of its requests.
OutcomeOfSymbol(seq, l) ==
    LET said == {o \in Range(seq) : o.kind \in {"recovered", "final_failure"} /\ o.symbol = l.symbol}
    IN  IF said = {} THEN "unrecorded" ELSE (CHOOSE o \in said : TRUE).kind

\* What the log tells of the request of a timeout; the loop asks without an id.
OutcomeOf(seq, l) ==
    LET said == {o \in Range(seq) : o.kind \in {"recovered", "final_failure"} /\ o.id = l.id}
    IN  IF said = {} THEN "unrecorded" ELSE (CHOOSE o \in said : TRUE).kind

Counted(seq, outcome) ==
    LinesWith(seq, LAMBDA l : IsTimeout(l) /\ OutcomeOf(seq, l) = outcome)
OthersIn(seq) == LinesWith(seq, IsOther)

\* The error summary of the day; earlier versions listed the first different messages, or wrote
\* groups of them, or nothing.
Summarized(form) ==
    LET all == Errors(logLines)
        messages == {[kind |-> l.kind, symbol |-> l.symbol] : l \in Range(all)}
        At(m) == Min({i \in DOMAIN all : all[i].kind = m.kind /\ all[i].symbol = m.symbol})
        first == {m \in messages : Cardinality({n \in messages : At(n) < At(m)}) < LISTED}
    IN  CASE form = "counted" ->
               [form |-> form, count |-> Len(all),
                timeouts |-> [o \in {"recovered", "final_failure", "unrecorded"} |-> Counted(logLines, o)],
                others |-> OthersIn(logLines)]
          [] form = "listed" -> [form |-> form, count |-> Len(all), messages |-> first]
          [] form = "grouped" ->
               [form |-> form, count |-> Len(all),
                groups |-> [timeout |-> Len(all) - OthersIn(logLines), other |-> OthersIn(logLines)]]
          [] OTHER -> [form |-> "none", count |-> 0]

Unresolved(n) == [recovered |-> 0, final_failure |-> 0, unrecorded |-> n]
Normal(recorded, count, timeouts, others) ==
    [recorded |-> recorded, count |-> count, timeouts |-> timeouts, others |-> others]

\* Mutant: the other errors of an old report are those it lists.
NormalizedByList(errors) ==
    CASE errors.form = "counted" -> Normal(TRUE, errors.count, errors.timeouts, errors.others)
      [] errors.form = "listed" ->
           LET timeouts == {m \in errors.messages : m.kind = "timeout"}
           IN  Normal(TRUE, errors.count, Unresolved(Cardinality(timeouts)),
                      Cardinality(errors.messages \ timeouts))
      [] errors.form = "grouped" -> Normal(TRUE, errors.count, Unresolved(errors.groups.timeout),
                                               errors.groups.other)
      [] OTHER -> Normal(FALSE, 0, Unresolved(0), 0)

\* All forms as one: an old report whose messages are all timeouts counts nothing else, and
\* whatever it does not list is another error.
Normalized(errors) ==
    LET timeouts == CASE errors.form = "listed" ->
                           LET late == {m \in errors.messages : m.kind = "timeout"}
                           IN  IF late # {} /\ late = errors.messages THEN errors.count
                               ELSE Min({Cardinality(late), errors.count})
                      [] errors.form = "grouped" -> Min({errors.groups.timeout, errors.count})
                      [] OTHER -> 0
    IN  IF errors.form = "counted"
        THEN Normal(TRUE, errors.count, errors.timeouts, errors.others)
        ELSE Normal(errors.form # "none", errors.count, Unresolved(timeouts), errors.count - timeouts)

Timeouts(errors) == errors.timeouts.recovered + errors.timeouts.final_failure + errors.timeouts.unrecorded

\* What the notification says of a day.
Notice(errors) == IF ~errors.recorded THEN "not_recorded" ELSE IF errors.count = 0 THEN "none" ELSE "some"

\* The reports of a period, added up.
Period(days) ==
    LET told == [d \in days |-> Normalized(toldErrors[d])]
    IN  [count |-> SumUp([d \in days |-> told[d].count], days),
         timeouts |-> SumUp([d \in days |-> Timeouts(told[d])], days),
         recovered |-> SumUp([d \in days |-> told[d].timeouts.recovered], days),
         others |-> SumUp([d \in days |-> told[d].others], days),
         days |-> Cardinality({d \in days : told[d].count > 0})]

-----------------------------------------------------------------------------

NotTold == [form |-> "unwritten"]

ErrorsInit ==
    /\ errorDay = 1 /\ logLines = <<>>
    /\ filteringNo = 0 /\ asking = FALSE
    /\ timedOut = {} /\ cameBack = {} /\ fate = {}
    /\ toldErrors = [d \in ErrorDay |-> NotTold]
    /\ happened = [d \in ErrorDay |-> [recovered |-> 0, lost |-> 0, open |-> 0, others |-> 0]]

Room ==
    /\ errorDay \in ErrorDay
    /\ LinesWith(logLines, LAMBDA l : l.kind \in {"timeout", "error"}) < MaxErrorLines
Log(l) == logLines' = Append(logLines, l)

StartAsking ==
    /\ errorDay \in ErrorDay /\ ~asking /\ filteringNo < MaxFilterings
    /\ filteringNo' = filteringNo + 1 /\ asking' = TRUE
    /\ timedOut' = {} /\ cameBack' = {}
    /\ UNCHANGED <<errorDay, logLines, fate, toldErrors, happened>>

\* A first fetch, or a retry of it, times out under the same request id.
FetchTimesOut(s) ==
    /\ asking /\ Room /\ s \notin cameBack
    /\ Log(TimeoutLine(s, RequestId(s)))
    /\ timedOut' = timedOut \cup {s}
    /\ UNCHANGED <<errorDay, filteringNo, asking, cameBack, fate, toldErrors, happened>>

\* Mutant: a request that never timed out is noted as recovered.
RefetchUnneeded(s) ==
    /\ asking /\ s \notin cameBack
    /\ cameBack' = cameBack \cup {s}
    /\ UNCHANGED <<errorDay, logLines, filteringNo, asking, timedOut, fate, toldErrors, happened>>

RefetchSucceeds(s) ==
    /\ asking /\ s \in timedOut \ cameBack
    /\ cameBack' = cameBack \cup {s}
    /\ UNCHANGED <<errorDay, logLines, filteringNo, asking, timedOut, fate, toldErrors, happened>>

\* After the rounds one line tells the outcome of each request that had timed out.
TellOutcomes ==
    /\ asking
    /\ LET Came(s) == IF s \in cameBack THEN "recovered" ELSE "final_failure"
       IN  /\ logLines' = logLines \o [i \in 1..Cardinality(timedOut) |->
                              LET s == SetToSeq(timedOut)[i] IN OutcomeLine(s, Came(s))]
           /\ fate' = fate \cup {<<RequestId(s), Came(s)>> : s \in timedOut}
    /\ asking' = FALSE
    /\ UNCHANGED <<errorDay, filteringNo, timedOut, cameBack, toldErrors, happened>>

AskingDies ==
    /\ asking /\ asking' = FALSE
    /\ UNCHANGED <<errorDay, logLines, filteringNo, timedOut, cameBack, fate, toldErrors, happened>>

\* The loop asks for boards of its own.
LoopTimesOut(s) ==
    /\ Room
    /\ Log(TimeoutLine(s, <<s, 0>>))
    /\ UNCHANGED <<errorDay, filteringNo, asking, timedOut, cameBack, fate, toldErrors, happened>>

\* Another error, in the session or outside of it.
OtherError(s, open) ==
    /\ Room
    /\ Log([kind |-> "error", symbol |-> s, id |-> <<s, 0>>, open |-> open])
    /\ UNCHANGED <<errorDay, filteringNo, asking, timedOut, cameBack, fate, toldErrors, happened>>

\* The report of the day; the next day has a log of its own.
ReportErrors(form) ==
    LET Ended(said) == LinesWith(logLines, LAMBDA l : IsTimeout(l) /\ <<l.id, said>> \in fate)
        all == LinesWith(logLines, IsTimeout)
    IN  /\ errorDay \in ErrorDay /\ ~asking
        /\ toldErrors' = [toldErrors EXCEPT ![errorDay] = Summarized(form)]
        /\ happened' = [happened EXCEPT ![errorDay] =
               [recovered |-> Ended("recovered"), lost |-> Ended("final_failure"),
                open |-> all - Ended("recovered") - Ended("final_failure"), others |-> OthersIn(logLines)]]
        /\ errorDay' = errorDay + 1
        /\ logLines' = <<>> /\ filteringNo' = 0 /\ timedOut' = {} /\ cameBack' = {} /\ fate' = {}
        /\ UNCHANGED asking

ErrorsNext ==
    \/ StartAsking
    \/ \E s \in ErrorSymbol : FetchTimesOut(s) \/ RefetchSucceeds(s) \/ LoopTimesOut(s)
    \/ \E s \in ErrorSymbol, open \in BOOLEAN : OtherError(s, open)
    \/ TellOutcomes
    \/ AskingDies
    \/ \E form \in Forms : ReportErrors(form)

ErrorsSpec == ErrorsInit /\ [][ErrorsNext]_errorVars

-----------------------------------------------------------------------------
(* Properties *)

ErrorsTypeOK ==
    /\ errorDay \in 1..(LastErrorDay + 1) /\ filteringNo \in 0..MaxFilterings /\ asking \in BOOLEAN
    /\ timedOut \subseteq ErrorSymbol /\ cameBack \subseteq timedOut
    /\ \A l \in Range(logLines) : l.kind \in {"timeout", "error", "recovered", "final_failure"}
    /\ \A d \in ErrorDay : (toldErrors[d] = NotTold) = (d >= errorDay)

Reported == {d \in ErrorDay : toldErrors[d] # NotTold}
Happened(d) == happened[d].recovered + happened[d].lost + happened[d].open + happened[d].others

\* Each timeout of a day is told as what became of its own request: as recovered or given up only
\* when the run that asked said so, whatever other runs and the loop met with the same symbol.
TimeoutsToldTruly ==
    \A d \in Reported : toldErrors[d].form = "counted" =>
        LET told == Normalized(toldErrors[d])
        IN  /\ told.timeouts = [recovered |-> happened[d].recovered, final_failure |-> happened[d].lost,
                                unrecorded |-> happened[d].open]
            /\ told.others = happened[d].others

\* No form of the report loses an error or counts one twice, and a day is called free of errors
\* only if it was.
ErrorsAddUp ==
    \A d \in Reported :
        LET told == Normalized(toldErrors[d])
        IN  /\ told.recorded => told.count = Happened(d)
            /\ Timeouts(told) + told.others = told.count
            /\ Notice(told) = "none" => Happened(d) = 0

\* The totals of a period are those of its days, in all and by kind.
PeriodAddsUp ==
    LET known == {d \in Reported : toldErrors[d].form # "none"}
        told == Period(Reported)
    IN  /\ told.count = SumUp([d \in known |-> Happened(d)], known)
        /\ told.timeouts + told.others = told.count
        /\ told.days <= Cardinality(known)

\* The three together.
ErrorsSound == TimeoutsToldTruly /\ ErrorsAddUp /\ PeriodAddsUp
=============================================================================
