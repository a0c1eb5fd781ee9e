---------------------------- MODULE MiddayFiltering ----------------------------
(* The filtering at noon (application/midday_filtering_usecase.py): the minute    *)
(* bars of the candidates of all bands are fetched one after the other until the  *)
(* deadline, then each band is evaluated from what was fetched. The bands whose    *)
(* result is used come first; a band that is only compared with the morning has no  *)
(* result.                                                                     *)
EXTENDS Naturals, Sequences

CONSTANTS
    Ticker,
    MiddayBands,    \* [tickers, compared, found] of each band, in the order of build_bands
    FETCH_RETRIES

ASSUME MiddayAssumption ==
    /\ MiddayBands \in Seq([tickers : Seq(Ticker), compared : BOOLEAN, found : BOOLEAN])
    /\ \A b \in DOMAIN MiddayBands : MiddayBands[b].found \/ MiddayBands[b].tickers = <<>>
    /\ FETCH_RETRIES \in Nat

VARIABLES
    hour,       \* 0: the wait of a retry ends before the deadline; 1: it would not; 2: after it
    activity,   \* fetch: between two candidates; wait: after an attempt; evaluate; over
    attempts,   \* of the candidate whose turn it is
    outcome,    \* of each candidate
    summed,     \* the bands that were evaluated
    judged,     \* the status of the records of each band
    kept        \* the bands whose result is saved

middayVars == <<hour, activity, attempts, outcome, summed, judged, kept>>

Index == DOMAIN MiddayBands

TickersOf(b) == {MiddayBands[b].tickers[k] : k \in DOMAIN MiddayBands[b].tickers}

\* A bug: the bands are taken as they come.
PrecedesAsGiven(b, c) == b < c

\* sorted by comparison_only, which keeps the order otherwise
Precedes(b, c) ==
    IF MiddayBands[b].compared = MiddayBands[c].compared THEN b < c ELSE MiddayBands[c].compared

\* The rows of the screenings, in the order in which the loop comes to them
Row == UNION {{b} \X DOMAIN MiddayBands[b].tickers : b \in Index}
TickerAt(p) == MiddayBands[p[1]].tickers[p[2]]
Before(p, q) == IF p[1] = q[1] THEN p[2] < q[2] ELSE Precedes(p[1], q[1])

MiddayInit ==
    /\ hour \in 0..2
    /\ activity = "fetch"
    /\ attempts = 0
    /\ outcome = [t \in Ticker |-> "none"]
    /\ summed = {}
    /\ judged = [b \in Index |-> [t \in TickersOf(b) |-> "none"]]
    /\ kept = {}

-----------------------------------------------------------------------------
(* _evaluate_symbol *)

\* What the bars lead to, once they were fetched
Verdict == {"rated", "noBars", "zeroVolume", "noAverage", "notPositive"}

\* The candidate of the first row whose candidate was not tried: each is tried once.
Due(t) ==
    /\ outcome[t] = "none"
    /\ \E p \in Row : /\ TickerAt(p) = t
                      /\ \A q \in Row : Before(q, p) => outcome[TickerAt(q)] # "none"

Settle(t, result) ==
    /\ outcome' = [outcome EXCEPT ![t] = result]
    /\ attempts' = 0
    /\ activity' = "fetch"

\* A bug: one retry too many.
GivesUpLate(n, time) == n > FETCH_RETRIES + 1 \/ time > 0

\* No retry is left, or it would not begin before the deadline.
GivesUp(n, time) == n > FETCH_RETRIES \/ time > 0

\* The candidate is begun before the deadline, and retried after a wait; the fetch takes
\* its time.
Fetch ==
    /\ activity = "wait" \/ (activity = "fetch" /\ hour < 2)
    /\ hour' \in {h \in 0..2 : h >= hour}
    /\ \E t \in Ticker :
          /\ Due(t)
          /\ \/ \E verdict \in Verdict : Settle(t, verdict)
             \/ GivesUp(attempts + 1, hour') /\ Settle(t, "failed")
             \/ /\ ~GivesUp(attempts + 1, hour')
                /\ attempts' = attempts + 1
                /\ activity' = "wait"
                /\ UNCHANGED outcome
    /\ UNCHANGED <<summed, judged, kept>>

AllTried == \A p \in Row : outcome[TickerAt(p)] # "none"

\* A bug: the deadline starts no candidate, but does not end the loop.
RowsDone == AllTried

\* Every candidate was tried, or the deadline has come.
FetchingOver == AllTried \/ hour = 2

EndFetching ==
    /\ activity = "fetch"
    /\ FetchingOver
    /\ activity' = "evaluate"
    /\ UNCHANGED <<hour, attempts, outcome, summed, judged, kept>>

-----------------------------------------------------------------------------
(* _evaluate_band *)

Status(t) ==
    CASE outcome[t] = "none" -> "not_evaluated"
      [] outcome[t] = "rated" -> "evaluated"
      [] OTHER -> "skipped"

\* A bug: the result is saved although time has run out.
CompleteEnough(b) == MiddayBands[b].found

\* The screening was found, and no candidate is left for want of time.
Complete(b) == MiddayBands[b].found /\ \A t \in TickersOf(b) : outcome[t] # "none"

\* A failure to save is logged.
EvaluateBand ==
    /\ activity = "evaluate"
    /\ \E b \in Index \ summed :
        /\ \A c \in Index : Precedes(c, b) => c \in summed
        /\ summed' = summed \cup {b}
        /\ judged' = [judged EXCEPT ![b] = [t \in TickersOf(b) |-> Status(t)]]
        /\ kept' \in IF Complete(b) /\ ~MiddayBands[b].compared THEN {kept, kept \cup {b}} ELSE {kept}
    /\ UNCHANGED <<hour, activity, attempts, outcome>>

EndEvaluating ==
    /\ activity = "evaluate"
    /\ summed = Index
    /\ activity' = "over"
    /\ UNCHANGED <<hour, attempts, outcome, summed, judged, kept>>

HourPasses ==
    /\ hour < 2
    /\ activity \in {"fetch", "evaluate"}
    /\ hour' = hour + 1
    /\ UNCHANGED <<activity, attempts, outcome, summed, judged, kept>>

MiddayStep == Fetch \/ EndFetching \/ EvaluateBand \/ EndEvaluating
MiddayNext == MiddayStep \/ HourPasses

MiddaySpec == MiddayInit /\ [][MiddayNext]_middayVars /\ WF_middayVars(MiddayStep)

-----------------------------------------------------------------------------
(* Properties *)

MiddayTypeOK ==
    /\ hour \in 0..2
    /\ activity \in {"fetch", "wait", "evaluate", "over"}
    /\ attempts \in 0..FETCH_RETRIES
    /\ outcome \in [Ticker -> Verdict \cup {"none", "failed"}]
    /\ \A b \in Index : judged[b] \in [TickersOf(b) ->
                                          {"none", "evaluated", "skipped", "not_evaluated"}]
    /\ kept \subseteq summed /\ summed \subseteq Index

Productive == UNION {TickersOf(b) : b \in {b \in Index : ~MiddayBands[b].compared}}

\* The comparison takes no time from the bands whose results are used: a candidate of
\* the compared band alone is begun after all of theirs.
ProductionFirst ==
    \A t \in Ticker : outcome[t] # "none" /\ t \notin Productive =>
        \A u \in Productive : outcome[u] # "none"

\* A result is saved only of a band all of whose candidates were tried, so that its
\* ranking is not one of those that came first.
SavedWhole ==
    \A b \in kept : /\ ~MiddayBands[b].compared
                    /\ \A t \in TickersOf(b) : judged[b][t] \in {"evaluated", "skipped"}

\* Two bands that share a candidate say the same of it.
BandsAgree ==
    activity = "over" =>
        \A b, c \in Index : \A t \in DOMAIN judged[b] \cap DOMAIN judged[c] : judged[b][t] = judged[c][t]

MiddaySound == ProductionFirst /\ SavedWhole /\ BandsAgree

\* The filtering at noon ends.
MiddayEnds == <>(activity = "over")
=============================================================================
