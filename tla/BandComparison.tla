----------------------------- MODULE BandComparison -----------------------------
(* The comparison of the price bands (scripts/analysis/analyze_price_band_comparison.py), *)
(* read from the files the other programs left: (A) what was screened, (B) what the noon  *)
(* filtering chose, (C) what the morning chose, on the days of all bands. One action     *)
(* reads one file or judges one symbol of one day, in the order of the loops.            *)
(*                                                                             *)
(* Prices are counted in units of the average true range (ATR).                       *)
EXTENDS Integers, Sequences, SequencesExt, FiniteSets, FiniteSetsExt, Functions, ListComprehension

CONSTANTS
    Studies,             \* what the files say: see the fields read below
    BandOrder,           \* BAND_ORDER
    StudyDays,           \* the compared days, in order
    NextOpen,            \* next_trading_day
    ATR_BARS,            \* ATR_PERIOD
    RSI_CLOSES,          \* RSI_MINIMUM_CLOSES
    UPPER,               \* upper_band
    LockLine, STOP_LINE, \* multipliers: PROFIT_LOCK_MULTIPLIERS, ATR_STOP_NORMAL_MULTIPLIER
    SHARES, RATE, TICK   \* of the virtual trade: ORDER_UNIT; fee and slippage of a price; tick

Levels == {"NORMAL", "CAUTION", "DANGER"}
Quote == [early : BOOLEAN, price : Nat]

\* The lists are made with dict.fromkeys, the days sorted from a set. There are daily bars of open
\* days only: none between a compared day and the next open one.
ASSUME ComparisonAssumption ==
    /\ BandOrder \in Seq(STRING) /\ IsInjective(BandOrder)
    /\ StudyDays \in Seq(Nat) /\ IsInjective(StudyDays)
    /\ LockLine \in [Levels -> Int] /\ STOP_LINE \in Int
    /\ SHARES \in Int /\ RATE \in Int /\ TICK \in Int
    /\ \A files \in Studies :
           /\ \A band \in Range(BandOrder) : \A day \in Range(StudyDays) :
                  /\ \A list \in {files.morning[band][day].symbols, files.noon[band][day].symbols,
                                  files.screened[band][day].symbols} :
                         list \in Seq(DOMAIN files.cached) /\ IsInjective(list)
                  /\ files.screened[band][day].price \in Nat
           /\ \A issue \in DOMAIN files.cached :
                  /\ files.cached[issue] \in BOOLEAN /\ files.level[issue] \in Levels \cup {"flat"}
                  /\ DOMAIN files.bars[issue] \subseteq Int
                  /\ \A day \in Range(StudyDays) :
                         /\ files.minutes[issue][day] \in Seq(Quote)
                         /\ \A d \in DOMAIN files.bars[issue] :
                                files.bars[issue][d] # "none" => (d < NextOpen[day] <=> d <= day)
           /\ \A day \in Range(StudyDays) : files.climate[day].available \in BOOLEAN

VARIABLES
    study,               \* the files
    studying, toStudy,        \* the loop that runs, and what it has left
    candidates,          \* merged, of load_screening_candidates: (day, symbol) -> bands and prices
    complaints,          \* issues about screened prices
    morningRows, noonRows,
    noonMissing          \* midday_missing

comparisonVars == <<study, studying, toStudy, candidates, complaints, morningRows, noonRows, noonMissing>>

InBand(i) == BandOrder[i]
Unknown == "unknown"

-----------------------------------------------------------------------------
(* What the files say of a symbol and a day *)

\* Mutant: the bar of the day itself is used.
DaysThrough(issue, day) == {d \in DOMAIN study.bars[issue] : study.bars[issue][d] # "none" /\ d <= day}

\* _daily_bars_before; the opening price of a bar is not needed.
DaysBefore(issue, day) == {d \in DOMAIN study.bars[issue] : study.bars[issue][d] # "none" /\ d < day}

\* assess_volatility of those bars.
LevelOver(issue, days) == IF Cardinality(days) >= ATR_BARS THEN study.level[issue] ELSE Unknown
\* With an ATR of 0 the ratio is 0 and the level the normal one, and no width is counted.
Measured(issue, days) == LevelOver(issue, days) \notin {Unknown, "flat"}
Rated(issue, days) == Cardinality(days) >= RSI_CLOSES

\* common_dates
CommonDays ==
    Picked(StudyDays, {day \in Range(StudyDays) :
                           \A i \in DOMAIN BandOrder : study.morning[InBand(i)][day].there})

NoonChosen(band, day) == study.noon[band][day]

\* minutes_from_time
SinceSelection(bars) == Picked(bars, {bar \in Range(bars) : ~bar.early})

-----------------------------------------------------------------------------
(* analyze_candidate_day *)

Strong(issue, regime) == study.rsi[issue] \in {"strong"} \cup IF regime = "NORMAL" THEN {"firm"} ELSE {}

\* The first minute at which the rules of a normal day buy; 0: none.
FirstBuy(issue, bars) ==
    LET buys == {i \in DOMAIN bars : bars[i].price >= UPPER /\ study.rsi[issue] # "weak"}
    IN  IF buys = {} THEN 0 ELSE Min(buys)

SkipReasons(issue, regime, level) ==
    IF ~Strong(issue, regime) THEN <<"rsi">>
    ELSE (IF level = "DANGER" THEN <<"atr">> ELSE <<>>) \o (IF regime = "DANGER" THEN <<"market">> ELSE <<>>)

\* Mutant: the refusals are sorted before it is known whether there was a market to judge by.
CategoryUnchecked(issue, climate, level) ==
    IF climate.regime = "CAUTION" /\ ~Strong(issue, climate.regime) THEN "caution_rsi"
    ELSE IF Strong(issue, climate.regime) /\ level = "DANGER" THEN "atr_danger"
    ELSE IF SkipReasons(issue, climate.regime, level) # <<>> THEN "other"
    ELSE "none"

\* rejection_category
Category(issue, climate, level) ==
    IF ~climate.available THEN "unavailable"
    ELSE IF climate.regime = "CAUTION" /\ ~Strong(issue, climate.regime) THEN "caution_rsi"
    ELSE IF Strong(issue, climate.regime) /\ level = "DANGER" THEN "atr_danger"
    ELSE IF SkipReasons(issue, climate.regime, level) # <<>> THEN "other"
    ELSE "none"

\* calculate_excursion_metrics, over the prices from the signal on.
Excursion(entry, prices, lock) ==
    LET touched == {i \in DOMAIN prices : prices[i] >= entry + lock \/ prices[i] <= entry - STOP_LINE}
        first == IF touched = {} THEN 0 ELSE Min(touched)
    IN  [profit |-> Max(Range(prices)) >= entry + lock,
         stopped |-> Min(Range(prices)) <= entry - STOP_LINE,
         first |-> first,
         touch |-> IF first = 0 THEN "close"
                   ELSE IF prices[first] >= entry + lock THEN "profit" ELSE "stop"]

NoExcursion == [profit |-> FALSE, stopped |-> FALSE, first |-> 0, touch |-> Unknown]

\* virtual_close_trade: all is sold at the last price, costs deducted.
VirtualNet(entry, close) == (close - entry) * SHARES - (entry + close) * SHARES * RATE - TICK * SHARES

\* Mutant: the prices of the whole day count, not only those since the signal.
HeldPricesOfDay(bars, at) == [i \in DOMAIN bars |-> bars[i].price]

HeldPrices(bars, at) == [i \in 1..(Len(bars) - at + 1) |-> bars[at + i - 1].price]

DayRow(band, issue, day, bars) ==
    LET climate == study.climate[day]
        days == DaysBefore(issue, day)
        level == LevelOver(issue, days)
        judged4 == study.cached[issue] /\ Rated(issue, days) /\ bars # <<>>
        at == IF judged4 THEN FirstBuy(issue, bars) ELSE 0
        held == IF at = 0 THEN <<>> ELSE HeldPrices(bars, at)
        reasons == SkipReasons(issue, climate.regime, level)
    IN  [band |-> band, issue |-> issue, day |-> day,
         used |-> IF study.cached[issue] THEN days ELSE {},
         judged |-> judged4, pre |-> at # 0, at |-> at,
         post |-> IF at = 0 THEN "no" ELSE IF ~climate.available THEN Unknown
                  ELSE IF reasons = <<>> THEN "yes" ELSE "no",
         primary |-> IF at = 0 THEN "none" ELSE IF ~climate.available THEN "unavailable"
                     ELSE IF reasons = <<>> THEN "none" ELSE Head(reasons),
         category |-> IF at = 0 THEN "none" ELSE Category(issue, climate, level),
         level |-> level,
         entry |-> IF at = 0 THEN 0 ELSE bars[at].price,
         held |-> held,
         net |-> IF at = 0 \/ level = Unknown THEN 0 ELSE VirtualNet(bars[at].price, Last(held)),
         course |-> IF at # 0 /\ Measured(issue, days)
                    THEN Excursion(bars[at].price, held, LockLine[level]) ELSE NoExcursion]

-----------------------------------------------------------------------------
(* The loops of analyze *)

\* The bands in order, in each the days, on each the symbols of a list.
TasksOf(band, day, list) == [k \in DOMAIN list |-> [band |-> band, day |-> day, issue |-> list[k]]]
TasksIn(band, days, lists) == Joined([j \in DOMAIN days |-> TasksOf(band, days[j], lists[<<band, days[j]>>])])
Loop(days, lists) == Joined([i \in DOMAIN BandOrder |-> TasksIn(InBand(i), days, lists)])

BandDays == Range(BandOrder) \X Range(StudyDays)

FilesScreened == Loop(StudyDays, [bd \in BandDays |-> <<"file">>])
MorningTasks == Loop(CommonDays, [bd \in BandDays |-> study.morning[bd[1]][bd[2]].symbols])
NoonTasks == Loop(StudyDays, [bd \in BandDays |-> NoonChosen(bd[1], bd[2]).symbols])

LoopOf(next) == IF next = "morning" THEN MorningTasks ELSE IF next = "noon" THEN NoonTasks ELSE <<>>

\* Mutant: a symbol that another band has screened too is a candidate of its own.
KeyOfBand(day, issue, band) == <<day, issue, band>>

\* load_screening_candidates: one candidate of a symbol and a day, in whatever bands.
Key(day, issue, band) == <<day, issue, "merged">>

\* The price of the first band that has one.
FirstPrice(prices) ==
    LET priced == {i \in DOMAIN BandOrder : InBand(i) \in DOMAIN prices}
    IN  IF priced = {} THEN 0 ELSE prices[InBand(Min(priced))]

EmptyCandidate == [bands |-> {}, prices |-> <<>>]

NotedPrice(old, band, price) ==
    [bands |-> old.bands \cup {band},
     prices |-> IF price = 0 THEN old.prices
                ELSE [b \in DOMAIN old.prices \cup {band} |-> IF b = band THEN price ELSE old.prices[b]]]

ReadScreening(todo) ==
    LET file == study.screened[todo.band][todo.day]
        keys == {Key(todo.day, issue, todo.band) : issue \in Range(file.symbols)}
        old(k) == IF k \in DOMAIN candidates THEN candidates[k] ELSE EmptyCandidate
    IN  /\ candidates' = [k \in DOMAIN candidates \cup keys |->
                             IF k \in keys THEN NotedPrice(old(k), todo.band, file.price) ELSE candidates[k]]
        /\ complaints' = complaints \cup
               {k \in DOMAIN candidates' : \/ k \in keys /\ file.price = 0
                                          \/ Cardinality(Range(candidates'[k].prices)) > 1}
        /\ UNCHANGED <<morningRows, noonRows, noonMissing>>

JudgeMorning(todo) ==
    /\ morningRows' = Append(morningRows,
           DayRow(todo.band, todo.issue, todo.day, study.minutes[todo.issue][todo.day]))
    /\ UNCHANGED <<candidates, complaints, noonRows, noonMissing>>

\* Only the minutes after those the selection was made of.
JudgeNoon(todo) ==
    LET bars == SinceSelection(study.minutes[todo.issue][todo.day])
    IN  /\ IF bars = <<>>
           THEN /\ noonMissing' = noonMissing \cup {todo}
                /\ UNCHANGED noonRows
           ELSE /\ noonRows' = Append(noonRows, DayRow(todo.band, todo.issue, todo.day, bars))
                /\ UNCHANGED noonMissing
        /\ UNCHANGED <<candidates, complaints, morningRows>>

AfterStage == CASE studying = "screened" -> "morning" [] studying = "morning" -> "noon" [] OTHER -> "over"

ComparisonInit ==
    /\ study \in Studies
    /\ studying = "screened" /\ toStudy = FilesScreened
    /\ candidates = <<>> /\ complaints = {}
    /\ morningRows = <<>> /\ noonRows = <<>> /\ noonMissing = {}

Compare ==
    /\ toStudy # <<>>
    /\ toStudy' = Tail(toStudy)
    /\ UNCHANGED <<study, studying>>
    /\ \/ studying = "screened" /\ ReadScreening(Head(toStudy))
       \/ studying = "morning" /\ JudgeMorning(Head(toStudy))
       \/ studying = "noon" /\ JudgeNoon(Head(toStudy))

EndStage ==
    /\ studying # "over" /\ toStudy = <<>>
    /\ studying' = AfterStage /\ toStudy' = LoopOf(AfterStage)
    /\ UNCHANGED <<study, candidates, complaints, morningRows, noonRows, noonMissing>>

ComparisonNext == Compare \/ EndStage
ComparisonSpec == ComparisonInit /\ [][ComparisonNext]_comparisonVars

-----------------------------------------------------------------------------
(* The tables *)

RowsWith(rows, Test(_)) == Picked(rows, {row \in Range(rows) : Test(row)})
OfBand(rows, band) == RowsWith(rows, LAMBDA row : row.band = band)
OfDay(rows, day) == RowsWith(rows, LAMBDA row : row.day = day)
CountOf(rows, Test(_)) == Len(RowsWith(rows, Test))
Signals(rows) == CountOf(rows, LAMBDA row : row.pre)

\* Mutant: a day with a symbol that could not be judged counts as judged.
JudgedDaysSome(rows) == {day \in Range(StudyDays) : OfDay(rows, day) # <<>>}

\* summarize_band: the days with a signal, and those all of whose rows were judged.
JudgedDays(rows) ==
    {day \in Range(StudyDays) :
        \/ Signals(OfDay(rows, day)) > 0
        \/ OfDay(rows, day) # <<>> /\ \A i \in DOMAIN OfDay(rows, day) : OfDay(rows, day)[i].judged}

SilentDays(rows) == {day \in JudgedDays(rows) : Signals(OfDay(rows, day)) = 0}

\* complete_days of analyze: every symbol chosen at noon was judged.
CompleteDays(band) ==
    {day \in Range(StudyDays) :
        /\ NoonChosen(band, day).symbols # <<>>
        /\ CountOf(OfDay(OfBand(noonRows, band), day), LAMBDA row : row.judged)
               = Len(NoonChosen(band, day).symbols)}

\* summarize_skip_outcomes: the signals of a reason; "accepted" is that of no refusal.
OutcomesOf(rows, reason) ==
    RowsWith(rows, LAMBDA row :
        row.pre /\ IF reason = "accepted" THEN row.post = "yes" ELSE row.category = reason)
Evaluable(row) == row.level \notin {Unknown, "flat"}
LossesOf(rows, reason) == CountOf(OutcomesOf(rows, reason), LAMBDA row : Evaluable(row) /\ row.net < 0)
ProfitsOf(rows, reason) == CountOf(OutcomesOf(rows, reason), LAMBDA row : Evaluable(row) /\ row.net > 0)
EvensOf(rows, reason) == CountOf(OutcomesOf(rows, reason), LAMBDA row : Evaluable(row) /\ row.net = 0)

Reasons == {"atr_danger", "caution_rsi", "other", "accepted"}

\* daily_midday_rows: by the first reason.
DailyBy(rows, reason) == CountOf(rows, LAMBDA row : row.pre /\ row.primary = reason)

\* analyze_screening_candidate_day: the width of the next day, in ATR of the days before it.
ScreenedUse(key) == DaysBefore(key[2], NextOpen[key[1]])
\* analyze_selection_atr_candidate: in ATR of the days up to that of the selection.
SelectionUse(key) == DaysBefore(key[2], key[1] + 1)
Widened(key, days) ==
    /\ study.cached[key[2]] /\ NextOpen[key[1]] \in DOMAIN study.bars[key[2]]
    /\ study.bars[key[2]][NextOpen[key[1]]] = "whole" /\ Measured(key[2], days)

\* compare_selected_sets, of the first band.
Overlap(day) ==
    Range(study.morning[InBand(1)][day].symbols) \cap Range(NoonChosen(InBand(1), day).symbols)

\* summarize_selection_atr_cutoffs
BelowDanger(day, symbols) ==
    {i \in symbols : Key(day, i, InBand(1)) \in DOMAIN candidates /\ study.cached[i]
                     /\ LevelOver(i, SelectionUse(<<day, i>>)) \in {"NORMAL", "CAUTION", "flat"}}

-----------------------------------------------------------------------------
(* Properties *)

ComparisonTypeOK ==
    /\ studying \in {"screened", "morning", "noon", "over"}
    /\ \A k \in DOMAIN candidates : candidates[k].bands \subseteq Range(BandOrder)
    /\ \A i \in DOMAIN morningRows : morningRows[i].post \in {"yes", "no", Unknown}
    /\ \A i \in DOMAIN noonRows : noonRows[i].at \in Nat

Rows == Range(morningRows) \cup Range(noonRows)

\* Nothing a row says of a day before its signal is taken from that day's bar or a later one, and
\* what it says after the signal is taken from the prices held: the best and the worst of them
\* tell the lines reached, and the first line is that of the price that reached it first.
NoHindsight ==
    /\ \A row \in Rows : \A d \in row.used : d < row.day
    /\ \A row \in Rows : row.pre =>
           /\ row.held[1] = row.entry
           /\ row.course.touch = "close" => ~row.course.profit /\ ~row.course.stopped
           /\ row.course.touch = "profit" => row.course.profit
           /\ row.course.touch = "stop" => row.course.stopped
    /\ \A i \in DOMAIN noonRows : noonRows[i].pre =>
           Len(noonRows[i].held) <=
               Len(SinceSelection(study.minutes[noonRows[i].issue][noonRows[i].day])) - noonRows[i].at + 1

\* Every signal is in one line of the table of outcomes, or has no market to be judged by; those
\* that can be valued are a loss, a profit or neither; the lines of the days add up to those of the
\* comparison.
OutcomesPartition ==
    \A b \in Range(BandOrder) :
        LET rows == OfBand(noonRows, b)
        IN  /\ SumUp([r \in Reasons |-> Len(OutcomesOf(rows, r))], Reasons) + DailyBy(rows, "unavailable") = Signals(rows)
            /\ \A r \in Reasons :
                   LossesOf(rows, r) + ProfitsOf(rows, r) + EvensOf(rows, r)
                       = CountOf(OutcomesOf(rows, r), LAMBDA row : Evaluable(row))
            /\ DailyBy(rows, "rsi") + DailyBy(rows, "atr") + DailyBy(rows, "market")
                   + DailyBy(rows, "unavailable") + CountOf(rows, LAMBDA row : row.post = "yes")
                   = Signals(rows)
            /\ SumUp([day \in Range(StudyDays) |-> Signals(OfDay(rows, day))], Range(StudyDays)) = Signals(rows)

\* A day without a signal is called silent only if every symbol of the day was judged.
SilenceIsHeard ==
    \A b \in Range(BandOrder) :
        /\ \A day \in SilentDays(OfBand(morningRows, b)) :
               \A i \in DOMAIN morningRows :
                   morningRows[i].band = b /\ morningRows[i].day = day =>
                       morningRows[i].judged /\ ~morningRows[i].pre
        /\ \A day \in CompleteDays(b) :
               \A issue \in Range(NoonChosen(b, day).symbols) :
                   \E i \in DOMAIN noonRows :
                       /\ noonRows[i].band = b /\ noonRows[i].day = day
                       /\ noonRows[i].issue = issue /\ noonRows[i].judged

\* Every symbol chosen at noon has a row or is missing, every one of the morning of a day of all
\* bands has a row, and every screened symbol of a day is one candidate, whose price is that of the
\* first band that gives one; where the bands disagree it is said.
AllCounted ==
    /\ Len(noonRows) + Cardinality(noonMissing) = Len(NoonTasks)
    /\ \A i \in DOMAIN noonRows :
           [band |-> noonRows[i].band, day |-> noonRows[i].day, issue |-> noonRows[i].issue] \notin noonMissing
    /\ Len(morningRows) = Len(MorningTasks)
    /\ \A i \in DOMAIN BandOrder, day \in Range(StudyDays) :
           \A issue \in Range(study.screened[InBand(i)][day].symbols) :
               Cardinality({k \in DOMAIN candidates : k[1] = day /\ k[2] = issue}) = 1
    /\ \A k \in DOMAIN candidates : \A b \in DOMAIN candidates[k].prices :
           candidates[k].prices[b] # FirstPrice(candidates[k].prices) => k \in complaints

\* The width of the next day is the same whether it is counted in the ATR of the selection or in
\* that of the evaluation.
WidthsAgree ==
    \A k \in DOMAIN candidates :
        /\ Widened(k, ScreenedUse(k)) = Widened(k, SelectionUse(k))
        /\ Widened(k, ScreenedUse(k)) => ScreenedUse(k) = SelectionUse(k)

\* The tables are written at the end.
ComparisonSound ==
    studying = "over" => NoHindsight /\ OutcomesPartition /\ SilenceIsHeard /\ AllCounted /\ WidthsAgree
=============================================================================
