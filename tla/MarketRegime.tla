----------------------------- MODULE MarketRegime -----------------------------
(* The judgement of the market before the trading: the daily bars of the Nikkei   *)
(* and of the VIX are fetched, each up to MAX_ATTEMPTS times, until the newest bar *)
(* is that of the session before; a Nikkei that stays stale is filled from minute  *)
(* bars. What cannot be judged is DANGER.                                          *)
(* A day is a number: the history needed is 1..HISTORY, the session before is      *)
(* HISTORY, the day of the judgement HISTORY + 1; an answer reaches OLDER days     *)
(* further back. The figures are computed from the bars that are there, of any age: *)
(* a history with gaps is judged, and relieved, as long as the bars are enough.    *)
EXTENDS Integers, FiniteSets, FiniteSetsExt

CONSTANTS
    WINDOW,         \* returns of the realized volatility
    TREND,          \* bars without which there is no trend (calculate_adx)
    HISTORY,        \* sessions asked for: enough for both
    OLDER,          \* days of an answer before them
    MAX_ATTEMPTS,
    HIGH, EXTREME   \* thresholds of CAUTION and of DANGER, of the volatility and the VIX

ASSUME HistoryAssumption ==
    /\ {HISTORY, WINDOW, TREND, MAX_ATTEMPTS} \subseteq Nat \ {0} /\ OLDER \in Nat
    /\ HISTORY = IF WINDOW + 1 >= TREND THEN WINDOW + 1 ELSE TREND
    /\ {HIGH, EXTREME} \subseteq Nat /\ HIGH < EXTREME

VARIABLES
    index,      \* the series being fetched: "nikkei", "vix", then "judge" and "over"
    tries,      \* fetches of it so far
    lastBars,   \* days of the last answer
    bestDays,   \* days of the most complete fresh answer, empty before there is one
    answers,    \* all answers about it (ghost)
    nikkei, vix,\* days judged
    filled,     \* days filled from minute bars
    assessment  \* what the trading is told

regimeVars == <<index, tries, lastBars, bestDays, answers, nikkei, vix, filled, assessment>>

Session == 1 - OLDER..HISTORY + 1
\* Of the VIX only the newest bar is used.
Offered == SUBSET IF index = "vix" THEN HISTORY - 1..HISTORY + 1 ELSE Session
Reading == 0..EXTREME   \* of the volatility and the VIX
Regime == <<"NORMAL", "CAUTION", "DANGER">>
Severity(r) == CHOOSE i \in DOMAIN Regime : Regime[i] = r

Unavailable(why) == [regime |-> "DANGER", available |-> FALSE, reason |-> why]
NotYet == Unavailable("none")

Needed == IF index = "nikkei" THEN 1..HISTORY ELSE {HISTORY}
Missing(days) == Needed \ days
\* Mutant: an answer with today's unfinished bar at its end counts as fresh.
UpToDateWithToday(days) == HISTORY \in days

UpToDate(days) == days # {} /\ Max(days) = HISTORY

\* What no trend relieves: the worse of the two, one level worse when the Nikkei jumped.
Classified(reading) ==
    IF reading >= EXTREME THEN 3 ELSE IF reading >= HIGH THEN 2 ELSE 1
Calculated(volatility, fear, jumped) ==
    LET worse == Max({Classified(volatility), Classified(fear)})
    IN  IF jumped THEN Min({worse + 1, 3}) ELSE worse
Relieved(severity, trending) == IF trending THEN Max({severity - 1, 1}) ELSE severity

-----------------------------------------------------------------------------

RegimeInit ==
    /\ index = "nikkei"
    /\ tries = 0
    /\ lastBars = {} /\ bestDays = {} /\ answers = {}
    /\ nikkei = {} /\ vix = {} /\ filled = {}
    /\ assessment = NotYet

Tell(a) == assessment' = a /\ index' = "over"

\* The series is settled on these days: the VIX follows the Nikkei, the judgement the VIX.
SettleSeries(days) ==
    /\ tries' = 0
    /\ lastBars' = {} /\ bestDays' = {} /\ answers' = {}
    /\ \/ /\ index = "nikkei"
          /\ nikkei' = days /\ index' = "vix"
          /\ UNCHANGED vix
       \/ /\ index = "vix"
          /\ vix' = days /\ index' = "judge"
          /\ UNCHANGED nikkei

\* Mutant: the last fresh answer replaces the best one.
BetterIfLater(days) == TRUE

Better(days) == bestDays = {} \/ Cardinality(Missing(days)) < Cardinality(Missing(bestDays))

\* One fetch. A fresh answer without gaps settles the series; of the others the most complete
\* fresh one is kept.
FetchDays(days) ==
    /\ index \in {"nikkei", "vix"}
    /\ tries < MAX_ATTEMPTS
    /\ IF UpToDate(days) /\ Missing(days) = {}
       THEN SettleSeries(days)
       ELSE /\ tries' = tries + 1
            /\ lastBars' = days
            /\ answers' = answers \cup {days}
            /\ bestDays' = IF UpToDate(days) /\ Better(days) THEN days ELSE bestDays
            /\ UNCHANGED <<index, nikkei, vix>>
    /\ UNCHANGED <<filled, assessment>>

\* A fetch that raises is not repeated, nor are figures that cannot be computed: the market
\* counts as dangerous.
JudgementRaises ==
    /\ index # "over"
    /\ index = "judge" \/ tries < MAX_ATTEMPTS
    /\ Tell(Unavailable("error"))
    /\ UNCHANGED <<tries, lastBars, bestDays, answers, nikkei, vix, filled>>

\* The attempts are used up: the best fresh answer is taken with its gaps.
TakeBest ==
    /\ index \in {"nikkei", "vix"}
    /\ tries = MAX_ATTEMPTS
    /\ bestDays # {}
    /\ SettleSeries(bestDays)
    /\ UNCHANGED <<filled, assessment>>

Fillable == IF index # "nikkei" \/ lastBars = {} THEN {}
            ELSE {d \in Needed : d > Max(lastBars) /\ d \notin lastBars}

\* Mutant: minutes are accepted without the session before.
FillWithAny(extra) ==
    /\ index \in {"nikkei", "vix"}
    /\ tries = MAX_ATTEMPTS
    /\ bestDays = {}
    /\ extra \subseteq Fillable
    /\ IF extra # {}
       THEN SettleSeries(lastBars \cup extra) /\ filled' = extra /\ UNCHANGED assessment
       ELSE /\ Tell(Unavailable("stale"))
            /\ UNCHANGED <<tries, lastBars, bestDays, answers, nikkei, vix, filled>>

\* None was fresh: days after the last bar of the last answer are filled from minute bars,
\* of which some may be missing, and that is accepted only if the session before is there.
FillFromMinutes(extra) ==
    /\ index \in {"nikkei", "vix"}
    /\ tries = MAX_ATTEMPTS
    /\ bestDays = {}
    /\ extra \subseteq Fillable
    /\ IF HISTORY \in extra
       THEN SettleSeries(lastBars \cup extra) /\ filled' = extra /\ UNCHANGED assessment
       ELSE /\ Tell(Unavailable("stale"))
            /\ UNCHANGED <<tries, lastBars, bestDays, answers, nikkei, vix, filled>>

\* The figures are computed from all the bars at hand, whichever are missing between them. Too few
\* for a volatility are DANGER, too few for a trend relieve nothing.
Assess(volatility, fear, jumped, trending) ==
    /\ index = "judge"
    /\ trending => Cardinality(nikkei) >= TREND
    /\ IF Cardinality(nikkei) < WINDOW + 1
       THEN Tell(Unavailable("few"))
       ELSE LET severity == Calculated(volatility, fear, jumped)
                final == Relieved(severity, trending)
            IN  Tell([regime |-> Regime[final], available |-> TRUE, reason |-> "none",
                      before |-> Regime[severity], volatility |-> volatility, fear |-> fear,
                      jumped |-> jumped, trending |-> trending, filled |-> filled])
    /\ UNCHANGED <<tries, lastBars, bestDays, answers, nikkei, vix, filled>>

RegimeNext ==
    \/ \E days \in Offered : FetchDays(days)
    \/ JudgementRaises
    \/ TakeBest
    \/ \E extra \in SUBSET (1..HISTORY) : FillFromMinutes(extra)
    \/ \E volatility, fear \in Reading, jumped, trending \in BOOLEAN :
           Assess(volatility, fear, jumped, trending)

RegimeSpec == RegimeInit /\ [][RegimeNext]_regimeVars

-----------------------------------------------------------------------------
(* Properties *)

RegimeTypeOK ==
    /\ index \in {"nikkei", "vix", "judge", "over"}
    /\ tries \in 0..MAX_ATTEMPTS
    /\ {lastBars, bestDays, nikkei, vix, filled} \subseteq SUBSET Session
    /\ answers \subseteq SUBSET Session
    /\ assessment.regime \in {Regime[i] : i \in DOMAIN Regime}

Judged == index = "over" /\ assessment.available

\* What is judged ends with the session before, never with an older one or the day itself: a
\* stale or an unfinished bar that reaches the figures would decide the whole day.
JudgedFresh == Judged => Max(nikkei) = HISTORY /\ Max(vix) = HISTORY

\* Minutes fill only what no answer had: not a gap inside the history, not a day when some
\* attempt had been fresh, and never without the session before.
FilledAtTheEnd ==
    /\ Judged => assessment.filled = filled
    /\ filled # {} => \A d \in filled, e \in nikkei \ filled : e < d
    /\ filled # {} => HISTORY \in filled

\* The answer taken after all attempts is the most complete of the fresh ones.
BestTaken ==
    bestDays # {} => /\ bestDays \in answers /\ UpToDate(bestDays)
                 /\ \A a \in answers :
                        UpToDate(a) => Cardinality(Missing(bestDays)) <= Cardinality(Missing(a))

\* The trend relieves one level: with an extreme volatility or VIX the day is never NORMAL, and
\* without a relief it is never milder than either of them.
ReliefBounded ==
    Judged =>
        /\ assessment.volatility >= EXTREME \/ assessment.fear >= EXTREME
               => assessment.regime # "NORMAL"
        /\ assessment.regime = assessment.before =>
               Severity(assessment.regime) >= Max({Classified(assessment.volatility),
                                                   Classified(assessment.fear)})

\* The four together.
RegimeSound == JudgedFresh /\ FilledAtTheEnd /\ BestTaken /\ ReliefBounded

=============================================================================
