------------------------------- MODULE MCEvening -------------------------------
(* The trading loop with its books of several days, and the programs that tell of those *)
(* days afterwards: reports and their correction, analyses, diagnoses, comparisons,     *)
(* replays and the backfill of minute bars. Machines that share no state: a behaviour   *)
(* runs one of them, chosen at the start.                                               *)
EXTENDS MCTradingLoop, SessionReports, DailyAnalysis, HypothesisReview, ReportRecompute,
        UnsoldDiagnosis, ReplayedDays, BandComparison, DayErrors, MinuteBackfill

CONSTANTS x, y, z   \* symbols of the other machines: only the loop's are interchangeable

VARIABLE machine

-----------------------------------------------------------------------------
(* Instances *)

TwoTimes == {1, 2}
CapacityOnly == {"capacity"}
Left(s, w, n) == [standard |-> s, wide |-> w, noon |-> n]
LeftBehind == {Left("chosen", "chosen", "absent"), Left("empty", "chosen", "chosen"),
               Left("absent", "unscreened", "absent")}
Idea(t, n, h) == [title |-> t, id |-> n, high |-> h]
Ideas == {<<Idea("a", 1, TRUE), Idea("b", 2, FALSE)>>, <<Idea("b", 1, TRUE), Idea("a", 2, TRUE)>>,
          <<Idea("a", 1, TRUE), Idea("b", 1, FALSE)>>}

Deal(d, s, q, p) == [day |-> d, side |-> s, qty |-> q, price |-> p]
PaperHistories ==
    {<<Deal(1, "BUY", 1, 0), Deal(2, "BUY", 2, 20), Deal(2, "SELL", 1, 40), Deal(3, "SELL", 1, 0)>>,
     <<Deal(2, "BUY", 1, 20), Deal(2, "BUY", 1, 40), Deal(3, "SELL", 2, 20), Deal(3, "BUY", 2, 40)>>,
     <<Deal(1, "BUY", 1, 40), Deal(2, "SELL", 2, 40), Deal(2, "SELL", 1, 20), Deal(4, "BUY", 2, 20),
       Deal(4, "SELL", 1, 40)>>}
RecomputedDays == {{2}, {2, 3}, {4}}

TwoExitPairs == {[stop |-> 1, lock |-> 3], [stop |-> 2, lock |-> 1]}
MinutePrices == 2..4

Shares == {x, y}
SelectionLists == {<<{x}, {x, y}, {x}>>, <<{x, y}, {}, {y}>>}
Holidays == {3}
SessionsOfDay == {<<20, 0, 30>>, <<0, 10, 0>>, <<0, 0, 0>>}

StudiedBands == <<"standard", "wide">>
StudiedDays == <<1, 2>>
Opens == <<2, 4>>
Locks == [l \in {"NORMAL", "CAUTION", "DANGER"} |-> IF l = "DANGER" THEN 1 ELSE 2]
Selected(there, symbols) == [there |-> there, symbols |-> symbols]
Priced(price, symbols) == [price |-> price, symbols |-> symbols]
ByBand(standard, wide) == [b \in {"standard", "wide"} |-> IF b = "standard" THEN standard ELSE wide]
MorningFiles == ByBand(<<Selected(TRUE, <<x>>), Selected(TRUE, <<x, y>>)>>,
                       <<Selected(FALSE, <<>>), Selected(TRUE, <<y>>)>>)
NoonFiles == ByBand(<<Selected(TRUE, <<x>>), Selected(TRUE, <<x, y>>)>>,
                    <<Selected(FALSE, <<>>), Selected(TRUE, <<x>>)>>)
ScreeningFiles == {ByBand(<<Priced(3, <<x>>), Priced(0, <<x>>)>>,
                          <<Priced(p, <<x, y>>), Priced(3, <<y>>)>>) : p \in {3, 4}}
WholeDays(set) == [d \in 0..4 |-> IF d \in set THEN "whole" ELSE "none"]
DailyBars == {WholeDays({0, 1, 2}), WholeDays({0, 2, 4}), [WholeDays({0, 1}) EXCEPT ![2] = "openless"]}
QuoteAt(early, price) == [early |-> early, price |-> price]
Rising  == <<QuoteAt(TRUE, 3), QuoteAt(FALSE, 3), QuoteAt(FALSE, 1)>>
Falling == <<QuoteAt(TRUE, 5), QuoteAt(FALSE, 2), QuoteAt(FALSE, 3), QuoteAt(FALSE, 5)>>
MinuteFiles == {<<<<>>, Rising>>, <<Rising, Falling>>, <<<<QuoteAt(FALSE, 2)>>, Falling>>,
                <<<<QuoteAt(TRUE, 4)>>, Falling>>}
MarketThen(regime, available) == [regime |-> regime, available |-> available]
Markets == {MarketThen("NORMAL", TRUE), MarketThen("NORMAL", FALSE), MarketThen("CAUTION", TRUE),
            MarketThen("DANGER", TRUE)}
Natures == {<<"NORMAL", "firm">>, <<"DANGER", "strong">>, <<"CAUTION", "weak">>, <<"CAUTION", "firm">>,
            <<"flat", "strong">>}
For(first, second) == (x :> first) @@ (y :> second)
StudyFiles ==
    {[morning |-> MorningFiles, noon |-> NoonFiles, screened |-> screens,
      bars |-> For(daily1, WholeDays({0, 1, 2})), cached |-> For(TRUE, minutes1[1] # <<>>),
      level |-> For(nature[1], "NORMAL"), rsi |-> For(nature[2], "strong"),
      minutes |-> For(minutes1, <<minutes1[2], minutes1[1]>>),
      climate |-> <<MarketThen("NORMAL", TRUE), market>>] :
         screens \in ScreeningFiles, daily1 \in DailyBars, nature \in Natures,
         minutes1 \in MinuteFiles, market \in Markets}

SymbolsKept == {x, y, z}
AllForms == {"counted", "listed", "grouped", "none"}

Diagnosis(form, shown, adopted, marked) ==
    [form |-> form, candidates |-> shown, adopted |-> adopted, marked |-> marked]
NobodySeen == Diagnosis("summary", {}, {}, {})
RecentChoices ==
    {[morning |-> <<{x}, morning2, {}>>,
      noon |-> <<NobodySeen, Diagnosis(form, {x, y, z}, {x}, {y}), noon3>>] :
         morning2 \in {{}, {x}}, form \in {"summary", "marks", "unreadable"},
         noon3 \in {NobodySeen, Diagnosis("summary", {x, z}, {z}, {}), Diagnosis("marks", {y, z}, {}, {})}}

-----------------------------------------------------------------------------

eveningVars == <<machine, vars, sessionVars, analysisVars, reviewVars, recomputeVars, unsoldVars,
                 replayVars, comparisonVars, errorVars, backfillVars>>

\* The inputs of a machine that does not run are fixed.
EveningInit ==
    /\ machine \in {"loop", "session", "analysis", "review", "recompute", "unsold", "replay", "compare",
                    "errors", "backfill"}
    /\ Init
    /\ SessionInit
    /\ machine # "analysis" => selections = CHOOSE f \in [1..LastDay -> Mornings] : TRUE
    /\ AnalysisInit
    /\ ReviewInit
    /\ machine # "recompute" => orderHistory = CHOOSE h \in Histories : TRUE
    /\ RecomputeInit
    /\ machine # "recompute" => /\ daily[4].there
                                /\ period[2].known = Span(2)
                                /\ period[1].total = SumRows(period[1].rows, period[1].known)
    /\ machine # "unsold" => exitPair = CHOOSE e \in ExitPairs : TRUE
    /\ UnsoldInit
    /\ machine # "unsold" => weakAt = LOWER_LINE /\ barsKept
    /\ machine # "replay" => /\ listedOn = CHOOSE l \in Listings : TRUE
                             /\ sessions = [ds \in ReplayDay \X Share |-> WithoutBars]
                             /\ firstDaily = [s \in Share |-> 0]
    /\ ReplayInit
    /\ machine # "compare" => study = CHOOSE f \in Studies : TRUE
    /\ ComparisonInit
    /\ ErrorsInit
    /\ machine # "backfill" => recent = CHOOSE r \in RecentFiles : TRUE
    /\ BackfillInit

OthersIdle ==
    /\ UNCHANGED machine
    /\ machine # "loop" => UNCHANGED vars
    /\ machine # "session" => UNCHANGED sessionVars
    /\ machine # "analysis" => UNCHANGED analysisVars
    /\ machine # "review" => UNCHANGED reviewVars
    /\ machine # "recompute" => UNCHANGED recomputeVars
    /\ machine # "unsold" => UNCHANGED unsoldVars
    /\ machine # "replay" => UNCHANGED replayVars
    /\ machine # "compare" => UNCHANGED comparisonVars
    /\ machine # "errors" => UNCHANGED errorVars
    /\ machine # "backfill" => UNCHANGED backfillVars

EveningNext ==
    /\ \/ machine = "loop" /\ Next
       \/ machine = "session" /\ SessionNext
       \/ machine = "analysis" /\ AnalysisNext
       \/ machine = "review" /\ ReviewNext
       \/ machine = "recompute" /\ RecomputeNext
       \/ machine = "unsold" /\ UnsoldNext
       \/ machine = "replay" /\ ReplayNext
       \/ machine = "compare" /\ ComparisonNext
       \/ machine = "errors" /\ ErrorsNext
       \/ machine = "backfill" /\ BackfillNext
    /\ OthersIdle

EveningSpec == EveningInit /\ [][EveningNext]_eveningVars

-----------------------------------------------------------------------------
(* Properties *)

\* Every variable of the machine that runs has its type (the loop's own: TypeOK); the others stay
\* as they began.
EveningTypeOK ==
    /\ machine = "session" => SessionTypeOK
    /\ machine = "analysis" => AnalysisTypeOK
    /\ machine = "review" => ReviewTypeOK
    /\ machine = "recompute" => RecomputeTypeOK
    /\ machine = "unsold" => UnsoldTypeOK
    /\ machine = "replay" => ReplayTypeOK
    /\ machine = "compare" => ComparisonTypeOK
    /\ machine = "errors" => ErrorsTypeOK
    /\ machine = "backfill" => BackfillTypeOK

\* What is told of a day is true of it, whatever fails, repeats or dies on the way: the reports of
\* the trading, its analyses and their publication, the review, the summary of the errors, and
\* what the backfill says it fetched. And what is computed again from the files of earlier days
\* is what those days were: the corrected reports, the diagnosis of an unsold symbol, the replay
\* of several days and the comparison of the bands.
EveningSound ==
    /\ machine = "session" => SessionSound
    /\ machine = "analysis" => AnalysisSound
    /\ machine = "review" => ReviewSound
    /\ machine = "errors" => ErrorsSound
    /\ machine = "backfill" => BackfillSound
    /\ machine = "recompute" => RecomputeSound
    /\ machine = "unsold" => DiagnosisSound
    /\ machine = "replay" => ReplayedSound
    /\ machine = "compare" => ComparisonSound
=============================================================================
