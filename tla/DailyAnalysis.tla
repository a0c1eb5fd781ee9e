----------------------------- MODULE DailyAnalysis -----------------------------
(* The analysis after the close: the daily bars are brought up to date, the       *)
(* selections of the day and of days left behind are judged for each price band,   *)
(* and the report is published. A row of the database and a status file tell what  *)
(* became of a selection; the process may die between them, and the analysis may   *)
(* be started again, on the same day or on a later one.                            *)
(* Two bands stand for three: "standard" is selected in the morning only, "wide"   *)
(* also at noon, which then replaces the morning. All symbols of one selection are *)
(* cached or not together, and the calendar skips the days without trading.        *)
EXTENDS Integers, FiniteSets, Sequences, FiniteSetsExt, SequencesExt, ListComprehension

CONSTANTS
    LastDay,
    MaxAnalyses,    \* starts of the program
    MaxMishaps,     \* deaths and failed saves
    REFRESHES,      \* attempts to update the bars
    PROBES,         \* attempts to reach the site
    Mornings        \* what the morning and noon left for a day: [standard, wide, noon]

ASSUME AnalysisAssumption ==
    /\ LastDay \in Nat \ {0} /\ MaxAnalyses \in Nat /\ MaxMishaps \in Nat
    /\ REFRESHES \in Nat \ {0} /\ PROBES \in Nat \ {0}

VARIABLES
    tradeDay, runsLeft, mishaps,
    selections,     \* per day, the files of the selections
    cached,         \* <<band, day>> whose bars of that day are in the cache
    judgedRows,     \* days with rows of the general check, which the standard band copies
    bandStatus,     \* band and day -> status file
    row,            \* band and day -> row of the database
    excused,        \* <<band, day>> whose status could not be saved or was cut off
    settledRow,     \* band and day -> what an evaluated day had when it ended (ghost)
    doing,          \* what the program does: "idle", "refresh", "check", "bands", "save",
                    \* "publish", "probe"
    attempt, latest,\* attempt at the stage, and what this run's update brought
    refreshed,      \* the update succeeded
    toJudge,           \* <<band, day>> still to be judged
    judgement,      \* of the first of them, before its status is saved
    site,           \* days whose report is on the site, as files and in the index
    announced       \* what the last run said of the publication

analysisVars == <<tradeDay, runsLeft, mishaps, selections, cached, judgedRows, bandStatus, row, excused,
                  settledRow, doing, attempt, latest, refreshed, toJudge, judgement, site, announced>>

PriceBand == {"standard", "wide"}
TradeDay == 1..LastDay
None == [state |-> "none"]
Announce(said) == [said |-> said, of |-> tradeDay]

\* What is there for a band: noon goes before the morning when it left anything, even if only
\* the diagnosis of a run that was cut off.
AtNoon(b, d) == b = "wide" /\ selections[d].noon # "absent"
Chosen(b, d) == IF AtNoon(b, d) THEN selections[d].noon ELSE selections[d][b]
Origin(b, d) == IF AtNoon(b, d) THEN "noon" ELSE IF Chosen(b, d) = "absent" THEN "nothing" ELSE "morning"
HasFiles(b, d) == Chosen(b, d) # "absent"

\* An empty selection of a band that was never screened is no selection; the standard band does
\* not ask.
Unscreened(b, d) == b = "wide" /\ Chosen(b, d) = "unscreened"

State(b, d) == CASE Chosen(b, d) \in {"absent", "halted"} \/ Unscreened(b, d) -> "selection_missing"
                 [] Chosen(b, d) = "chosen" -> "evaluated"
                 [] OTHER -> "empty_selection"

\* Mutant: a day with any status counts as judged.
ForGoodOnceSeen(b, d) == d # tradeDay /\ bandStatus[b][d] # None

\* Judged earlier for good: today is judged anew.
ForGood(b, d) ==
    /\ d # tradeDay
    /\ \/ bandStatus[b][d].state = "evaluated"
       \/ bandStatus[b][d].state = "empty_selection" /\ ~Unscreened(b, d)

-----------------------------------------------------------------------------

AnalysisInit ==
    /\ tradeDay = 1 /\ runsLeft = MaxAnalyses /\ mishaps = 0
    /\ selections \in [TradeDay -> Mornings]
    /\ cached = {} /\ judgedRows = {}
    /\ bandStatus = [b \in PriceBand |-> [d \in TradeDay |-> None]]
    /\ row = bandStatus /\ settledRow = bandStatus
    /\ excused = {}
    /\ doing = "idle" /\ attempt = 0 /\ latest = {} /\ refreshed = FALSE
    /\ toJudge = <<>> /\ judgement = None
    /\ site = [files |-> {}, index |-> {}] /\ announced = Announce("nothing")

progressVars == <<attempt, latest, refreshed, toJudge, judgement>>
filesVars == <<cached, judgedRows, bandStatus, row, excused, settledRow>>

Rest == attempt' = 0 /\ latest' = {} /\ refreshed' = FALSE /\ toJudge' = <<>> /\ judgement' = None

NextMorning ==
    /\ doing = "idle" /\ tradeDay < LastDay
    /\ tradeDay' = tradeDay + 1
    /\ settledRow' = [b \in PriceBand |-> [d \in TradeDay |->
           IF d = tradeDay /\ bandStatus[b][d].state = "evaluated" THEN row[b][d] ELSE settledRow[b][d]]]
    /\ UNCHANGED <<runsLeft, mishaps, selections, cached, judgedRows, bandStatus, row, excused, doing,
                   progressVars, site, announced>>

StartAnalysis ==
    /\ doing = "idle" /\ runsLeft > 0
    /\ runsLeft' = runsLeft - 1
    /\ doing' = "refresh"
    /\ announced' = Announce("nothing")
    /\ UNCHANGED <<tradeDay, mishaps, selections, filesVars, progressVars, site>>

\* Wide selections that are not yet judged are brought up to date again, the standard one only
\* on its day.
StillDue(b, d) == HasFiles(b, d) /\ (bandStatus[b][d].state = "evaluated" => d = tradeDay)
\* Mutant: only the selections of the day are brought up to date.
ToUpdateToday ==
    {<<"standard", tradeDay>>} \cup
    {<<"wide", d>> : d \in {e \in {tradeDay} : StillDue("wide", e) /\ Chosen("wide", e) = "chosen"}}

ToUpdate ==
    {<<"standard", tradeDay>>} \cup
    {<<"wide", d>> : d \in {e \in 1..tradeDay : StillDue("wide", e) /\ Chosen("wide", e) = "chosen"}}

\* One attempt brings some of what is missing; one that raises may have saved some and forgets
\* all this run has brought.
RefreshOnce(got, raises) ==
    LET brought == IF raises THEN {} ELSE latest \cup got
    IN  /\ doing = "refresh"
        /\ got \subseteq ToUpdate \ latest
        /\ cached' = cached \cup got
        /\ latest' = brought
        /\ IF ToUpdate \subseteq brought
           THEN doing' = "check" /\ refreshed' = TRUE /\ attempt' = 0
           ELSE IF attempt + 1 = REFRESHES
           THEN doing' = "bands" /\ refreshed' = FALSE /\ attempt' = 0
           ELSE attempt' = attempt + 1 /\ UNCHANGED <<doing, refreshed>>
        /\ UNCHANGED <<tradeDay, runsLeft, mishaps, selections, judgedRows, bandStatus, row, excused,
                       settledRow, toJudge, judgement, site, announced>>

\* The days of a band in order, this one always among them.
DaysOf(b) == LET due == {d \in 1..tradeDay : (HasFiles(b, d) \/ d = tradeDay) /\ ~ForGood(b, d)}
             IN  Picked([d \in 1..tradeDay |-> <<b, d>>], {<<b, d>> : d \in due})

\* The general check judges the selection of the day; its failure is told and goes no further.
CheckDay(works) ==
    /\ doing = "check"
    /\ judgedRows' = IF works /\ Chosen("standard", tradeDay) \in {"chosen", "empty"}
                     THEN judgedRows \cup {tradeDay} ELSE judgedRows
    /\ doing' = "bands"
    /\ toJudge' = DaysOf("standard") \o DaysOf("wide")
    /\ UNCHANGED <<tradeDay, runsLeft, mishaps, selections, cached, bandStatus, row, excused, settledRow,
                   attempt, latest, refreshed, judgement, site, announced>>

\* The row is replaced first, in one transaction: with the bars at hand, or as a copy of the
\* general check.
StoreRow ==
    /\ doing = "bands" /\ refreshed /\ toJudge # <<>>
    /\ LET b == Head(toJudge)[1]
           d == Head(toJudge)[2]
           known == <<b, d>> \in cached \/ (b = "standard" /\ d \in judgedRows)
           told == [state |-> State(b, d), source |-> Origin(b, d)]
       IN  /\ row' = [row EXCEPT ![b][d] = [told |-> told, state |-> told.state, bars |-> known]]
           /\ judgement' = told
    /\ doing' = "save"
    /\ UNCHANGED <<tradeDay, runsLeft, mishaps, selections, cached, judgedRows, bandStatus, excused,
                   settledRow, attempt, latest, refreshed, toJudge, site, announced>>

\* Mutant: the mark replaces what was known of the day.
MarkFailedAlways(lost) ==
    /\ doing = "bands" /\ ~refreshed
    /\ lost = {}
    /\ bandStatus' = [b \in PriceBand |->
                     [bandStatus[b] EXCEPT ![tradeDay] = [state |-> "cache_update_failed"]]]
    /\ doing' = "publish"
    /\ UNCHANGED <<tradeDay, runsLeft, mishaps, selections, cached, judgedRows, row, excused, settledRow,
                   progressVars, site, announced>>

\* Without the update the day is marked, unless something is known of it.
MarkFailed(lost) ==
    /\ doing = "bands" /\ ~refreshed
    /\ LET marked == {b \in PriceBand : bandStatus[b][tradeDay] = None} \ lost
       IN  bandStatus' = [b \in PriceBand |-> IF b \in marked
                        THEN [bandStatus[b] EXCEPT ![tradeDay] = [state |-> "cache_update_failed"]]
                        ELSE bandStatus[b]]
    /\ mishaps' = IF lost = {} THEN mishaps ELSE mishaps + 1
    /\ doing' = "publish"
    /\ UNCHANGED <<tradeDay, runsLeft, selections, cached, judgedRows, row, excused, settledRow,
                   progressVars, site, announced>>

\* Then the status file; a save that fails is notified and the rest goes on.
SaveStatus(saved) ==
    /\ doing = "save"
    /\ LET b == Head(toJudge)[1]
           d == Head(toJudge)[2]
       IN  /\ bandStatus' = IF saved THEN [bandStatus EXCEPT ![b][d] = judgement] ELSE bandStatus
           /\ excused' = IF saved THEN excused \ {<<b, d>>} ELSE excused \cup {<<b, d>>}
    /\ mishaps' = IF saved THEN mishaps ELSE mishaps + 1
    /\ toJudge' = Tail(toJudge)
    /\ judgement' = None
    /\ doing' = "bands"
    /\ UNCHANGED <<tradeDay, runsLeft, selections, cached, judgedRows, row, settledRow, attempt, latest,
                   refreshed, site, announced>>

BandsDone ==
    /\ doing = "bands" /\ refreshed /\ toJudge = <<>>
    /\ doing' = "publish"
    /\ UNCHANGED <<tradeDay, runsLeft, mishaps, selections, filesVars, progressVars, site, announced>>

\* Mutant: the index names only the report of the day.
PublishAlone(works) ==
    /\ doing = "publish"
    /\ IF works
       THEN /\ site' = [files |-> site.files \cup {tradeDay}, index |-> {tradeDay}]
            /\ doing' = "probe"
            /\ UNCHANGED <<announced, progressVars>>
       ELSE doing' = "idle" /\ announced' = Announce("failed") /\ Rest /\ UNCHANGED site
    /\ UNCHANGED <<tradeDay, runsLeft, mishaps, selections, filesVars>>

\* The report of the day is added to a fresh clone and pushed, with the index; without a report
\* or when a command fails nothing changes there.
Publish(works) ==
    /\ doing = "publish"
    /\ IF works
       THEN /\ site' = [files |-> site.files \cup {tradeDay}, index |-> site.index \cup {tradeDay}]
            /\ doing' = "probe"
            /\ UNCHANGED <<announced, progressVars>>
       ELSE doing' = "idle" /\ announced' = Announce("failed") /\ Rest /\ UNCHANGED site
    /\ UNCHANGED <<tradeDay, runsLeft, mishaps, selections, filesVars>>

\* The site is called until it answers.
Probe(answers) ==
    /\ doing = "probe"
    /\ IF answers \/ attempt + 1 = PROBES
       THEN doing' = "idle" /\ announced' = Announce(IF answers THEN "published" ELSE "failed") /\ Rest
       ELSE attempt' = attempt + 1
            /\ UNCHANGED <<doing, announced, latest, refreshed, toJudge, judgement>>
    /\ UNCHANGED <<tradeDay, runsLeft, mishaps, selections, filesVars, site>>

\* The process dies; a row whose status it had not written yet stays ahead of it.
AnalysisDies ==
    /\ doing # "idle" /\ mishaps < MaxMishaps
    /\ mishaps' = mishaps + 1
    /\ excused' = IF doing = "save" THEN excused \cup {Head(toJudge)} ELSE excused
    /\ doing' = "idle" /\ Rest
    /\ UNCHANGED <<tradeDay, runsLeft, selections, cached, judgedRows, bandStatus, row, settledRow, site,
                   announced>>

AnalysisNext ==
    \/ NextMorning
    \/ StartAnalysis
    \/ \E got \in SUBSET (PriceBand \X TradeDay), raises \in BOOLEAN : RefreshOnce(got, raises)
    \/ \E works \in BOOLEAN : CheckDay(works) \/ Publish(works) \/ Probe(works)
    \/ StoreRow
    \/ \E lost \in SUBSET PriceBand : (lost = {} \/ mishaps < MaxMishaps) /\ MarkFailed(lost)
    \/ \E saved \in BOOLEAN : (saved \/ mishaps < MaxMishaps) /\ SaveStatus(saved)
    \/ BandsDone
    \/ AnalysisDies

AnalysisSpec == AnalysisInit /\ [][AnalysisNext]_analysisVars

-----------------------------------------------------------------------------
(* What the report tells of a band. *)

\* The status files as the report reads them: an empty selection that was never screened counts
\* as missing.
ReadState(b, d) ==
    IF bandStatus[b][d].state = "empty_selection" /\ Unscreened(b, d) THEN "selection_missing"
                                                                    ELSE bandStatus[b][d].state

\* Mutant: an empty selection is a day without signals, screened or not.
ActivityOfFiles(b, d) == IF Chosen(b, d) \in {"absent", "halted"} THEN "missing" ELSE "valid"

\* The activity is read off the newest diagnosis: without one, or cut off, the day is missing; an
\* empty one asks the status why.
ActivityOf(b, d) ==
    IF \/ Chosen(b, d) \in {"absent", "halted"}
       \/ Unscreened(b, d) /\ ReadState(b, d) = "selection_missing"
    THEN "missing" ELSE "valid"

\* Mutant: each row of the database counts, whatever became of the day.
CountedDaysOfRows(b) == {d \in 1..tradeDay : row[b][d] # None}

\* Days whose rows count: a row without a status is taken for an evaluated one.
CountedDays(b) == {d \in 1..tradeDay : row[b][d] # None /\ ReadState(b, d) \in {"none", "evaluated"}}
MissingDays(b) == {d \in 1..tradeDay : ReadState(b, d) \in {"selection_missing", "cache_update_failed"}}
EmptyDays(b) == {d \in 1..tradeDay : ReadState(b, d) = "empty_selection"}

\* Where the symbols of a counted day come from: as its status says, else its row.
DaySource(b, d) == IF bandStatus[b][d] # None THEN bandStatus[b][d].source ELSE row[b][d].told.source

\* Selected symbols are counted, and those with bars judged; the rate of the standard band is of
\* the judged ones, that of another band of all.
Tally(b, days) ==
    LET chosen == {d \in days : row[b][d].state = "evaluated"}
        judged == {d \in chosen : row[b][d].bars}
    IN  [selected |-> Cardinality(chosen), judged |-> Cardinality(judged),
         base |-> Cardinality(IF b = "standard" THEN judged ELSE chosen)]
BySource(b) ==
    [s \in {DaySource(b, d) : d \in CountedDays(b)} |-> Tally(b, {d \in CountedDays(b) : DaySource(b, d) = s})]

-----------------------------------------------------------------------------
(* Properties *)

AnalysisTypeOK ==
    /\ tradeDay \in TradeDay /\ runsLeft \in 0..MaxAnalyses /\ mishaps \in 0..MaxMishaps
    /\ selections \in [TradeDay -> Mornings]
    /\ {cached, excused, latest} \subseteq SUBSET (PriceBand \X TradeDay)
    /\ judgedRows \subseteq TradeDay
    /\ doing \in {"idle", "refresh", "check", "bands", "save", "publish", "probe"}
    /\ attempt \in 0..Max({REFRESHES, PROBES}) /\ refreshed \in BOOLEAN
    /\ announced \in [said : {"nothing", "published", "failed"}, of : TradeDay]

\* The status file and the row tell the same, state and source, except where a save failed or
\* was cut off, and there the next run starts over: the failure mark never hides a row.
StatusTellsRow ==
    \A b \in PriceBand, d \in TradeDay :
        <<b, d>> \notin excused /\ (doing = "save" => Head(toJudge) # <<b, d>>) =>
            IF row[b][d] = None THEN bandStatus[b][d].state \in {"none", "cache_update_failed"}
                                ELSE bandStatus[b][d] = row[b][d].told

\* A wide selection is never judged for good on bars that were not there, however many days and
\* failed updates lie between its day and the run that catches it up.
JudgedWithBars ==
    \A d \in TradeDay : bandStatus["wide"][d].state = "evaluated" => row["wide"][d].bars

\* A day that was evaluated when it ended keeps its row through all later runs.
EvaluatedKept ==
    \A b \in PriceBand, d \in TradeDay : settledRow[b][d] # None => row[b][d] = settledRow[b][d]

\* After the bands of a run whose update worked nothing is left behind: each day with files has
\* been judged, unless its status could not be saved.
NothingLeftBehind ==
    doing \in {"publish", "probe"} /\ refreshed =>
        \A b \in PriceBand, d \in 1..tradeDay :
            HasFiles(b, d) /\ <<b, d>> \notin excused =>
                bandStatus[b][d].state \in {"evaluated", "empty_selection", "selection_missing"}

\* A publication is announced only of a report that is there, and the index names all reports.
AnnouncedTruly ==
    /\ announced.said = "published" => announced.of \in site.files
    /\ site.index = site.files

\* The report of a run agrees with itself, whatever was cut off before: a day is counted, missing
\* or empty, never two of them, and its activity is missing where its selection is; the sources
\* of the counted days add up to the band and are where the symbols came from.
TallyAgrees ==
    doing = "publish" => \A b \in PriceBand :
        /\ CountedDays(b) \cap (MissingDays(b) \cup EmptyDays(b)) = {} /\ MissingDays(b) \cap EmptyDays(b) = {}
        /\ \A d \in 1..tradeDay : bandStatus[b][d].state \notin {"none", "cache_update_failed"} =>
               (ActivityOf(b, d) = "missing") = (d \in MissingDays(b))
        /\ LET parts == BySource(b)
           IN  /\ SumUp([s \in DOMAIN parts |-> parts[s].selected], DOMAIN parts) = Tally(b, CountedDays(b)).selected
               /\ \A d \in CountedDays(b) : DaySource(b, d) = Origin(b, d)

\* The six together.
AnalysisSound ==
    /\ StatusTellsRow /\ JudgedWithBars /\ EvaluatedKept /\ NothingLeftBehind /\ AnnouncedTruly
    /\ TallyAgrees
=============================================================================
