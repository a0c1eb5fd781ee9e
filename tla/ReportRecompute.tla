---------------------------- MODULE ReportRecompute ----------------------------
(* The recomputation of the profits in the daily reports: the history of orders is      *)
(* replayed through the paper account, the targeted daily reports take the result,       *)
(* and the weekly and monthly reports only the sums that follow from them. Every   *)
(* file is saved aside before the first is overwritten. The process may die        *)
(* between two files; the fees of the configuration may change between two runs.   *)
EXTENDS Integers, FiniteSets, Sequences, SequencesExt, FiniteSetsExt, Functions,
        ListComprehension

CONSTANTS
    Histories,      \* sequences of [day, side, qty, price], price 0 when none was known
    TargetSets,     \* the dates a run may be asked to correct
    INITIAL_CASH,
    MaxRecomputes, MaxRecomputeDeaths

ReportDay == 1..4
HistoryOrder == [day : ReportDay, side : {"BUY", "SELL"}, qty : Nat \ {0}, price : Nat]

\* The loop adds its orders to the history as it places them.
ASSUME RecomputeAssumption ==
    /\ INITIAL_CASH \in Int /\ MaxRecomputes \in Nat /\ MaxRecomputeDeaths \in Nat
    /\ \A targets \in TargetSets : targets \subseteq ReportDay
    /\ \A deals \in Histories :
           /\ deals \in Seq(HistoryOrder)
           /\ \A i \in DOMAIN deals : \A j \in DOMAIN deals : i < j => deals[i].day <= deals[j].day

\* A week is compared with the week before it.
Spans == <<[first |-> 1, last |-> 2, before |-> 0], [first |-> 3, last |-> 4, before |-> 1],
           [first |-> 1, last |-> 4, before |-> 0]>>
Span(p) == Spans[p].first .. Spans[p].last

VARIABLES
    orderHistory, feeTenths,
    daily,          \* reports: [there, total, unrealized, first, recomputed]
    period,         \* reports: [rows, known, total, prev]
    asides,         \* per date: what was saved aside, [file, content]
    recompute,      \* the run: [stage, due, plan]
    recomputesLeft, recomputeDate, recomputeDeaths,
    reportsAtFirst  \* the files before any run (ghost)

recomputeVars == <<orderHistory, feeTenths, daily, period, asides, recompute, recomputesLeft,
                   recomputeDate, recomputeDeaths, reportsAtFirst>>

-----------------------------------------------------------------------------
(* The replay *)

Unplayed == [cash |-> INITIAL_CASH, held |-> 0, cost |-> 0, price |-> 0, pnl |-> 0, pnlDay |-> 0,
             realized |-> [d \in ReportDay |-> 0]]

\* Mutant: the realized profit is not started anew with the day.
PnlOfRunning(account, day) == account.pnl

PnlOf(account, day) == IF account.pnlDay = day THEN account.pnl ELSE 0

\* One order at the price of the history, or the last one known; rejected without money or shares.
Filled(account, order, fee) ==
    LET price  == IF order.price > 0 THEN order.price ELSE account.price
        value  == order.qty * price
        charge == (value * fee) \div 10
        share  == IF account.held = 0 THEN 0 ELSE (account.cost * order.qty) \div account.held
        known  == [account EXCEPT !.price = price, !.pnl = PnlOf(account, order.day), !.pnlDay = order.day]
    IN  CASE order.side = "BUY" /\ account.cash >= value + charge ->
                 [known EXCEPT !.cash = @ - value - charge, !.held = @ + order.qty,
                               !.cost = @ + value + charge]
          [] order.side = "SELL" /\ account.held >= order.qty ->
                 [known EXCEPT !.cash = @ + value - charge, !.held = @ - order.qty,
                               !.cost = @ - share, !.pnl = @ + value - charge - share]
          [] OTHER -> known

ReplayedOrders(account, order, fee) ==
    IF order.price = 0 /\ account.price = 0 THEN account
    ELSE LET after == Filled(account, order, fee)
         IN  [after EXCEPT !.realized[order.day] = after.pnl]

ReplayHistory == FoldLeft(LAMBDA account, order : ReplayedOrders(account, order, feeTenths), Unplayed, orderHistory)

-----------------------------------------------------------------------------
(* The plan *)

SumRows(rows, days) == SumUp(rows, days)

NewTotal(d) == ReplayHistory.realized[d] + daily[d].unrealized

\* Mutant: what is only checked is corrected in the sums as well.
StagedChecked(targets) == {d \in ReportDay : daily[d].there /\ daily[d].total # NewTotal(d)}

Staged(targets) == {d \in targets : daily[d].there /\ daily[d].total # NewTotal(d)}

\* Mutant: the total that is replaced is kept, whatever it replaced before.
FirstTotalLast(report) == report.total

FirstTotal(report) == IF report.recomputed THEN report.first ELSE report.total

RecomputedReport(d) ==
    [daily[d] EXCEPT !.total = NewTotal(d), !.first = FirstTotal(daily[d]), !.recomputed = TRUE]

\* Only the sums change: of the days, of the whole, and of the period before.
PatchedPeriod(p, staged) ==
    LET old  == period[p]
        rows == [d \in ReportDay |-> IF d \in staged \cap Span(p) \cap old.known THEN NewTotal(d)
                                     ELSE old.rows[d]]
        b    == Spans[p].before
        moved == IF b = 0 THEN {} ELSE staged \cap Span(b)
    IN  [old EXCEPT !.rows = rows, !.total = SumRows(rows, old.known),
                    !.prev = @ + SumRows([d \in moved |-> NewTotal(d) - daily[d].total], moved)]

HasProblem(p, staged) ==
    \/ SumRows(period[p].rows, period[p].known) # period[p].total
    \/ ~(staged \cap Span(p) \subseteq period[p].known)

\* A comparison is aligned with the report of the period it is with.
AlignedPeriod(p, staged) ==
    LET b == Spans[p].before
    IN  IF b = 0 THEN PatchedPeriod(p, staged)
        ELSE [PatchedPeriod(p, staged) EXCEPT !.prev = PatchedPeriod(b, staged).total]

InScope(p, targets) ==
    \/ Span(p) \cap targets # {}
    \/ Spans[p].before # 0 /\ Span(Spans[p].before) \cap targets # {}

DailyFile(d) == <<"daily", d>>
PeriodFile(p) == <<"period", p>>
Content(file) == IF file[1] = "daily" THEN <<daily[file[2]]>> ELSE <<period[file[2]]>>

\* By their names the month comes before the weeks.
Sorted == <<3, 1, 2>>

\* The files that will be written and what with: the daily ones, the month, the weeks.
PlanFor(targets) ==
    LET staged == Staged(targets)
        daysOf == [i \in 1..4 |-> [file |-> DailyFile(i), new |-> <<RecomputedReport(i)>>]]
        sumsOf == [i \in 1..3 |-> [file |-> PeriodFile(Sorted[i]), new |-> <<AlignedPeriod(Sorted[i], staged)>>]]
    IN  Picked(daysOf, {entry \in Range(daysOf) : entry.file[2] \in staged})
        \o Picked(sumsOf, {entry \in Range(sumsOf) : /\ ~HasProblem(entry.file[2], staged)
                                                     /\ entry.new # Content(entry.file)
                                                     /\ InScope(entry.file[2], targets)})

-----------------------------------------------------------------------------

Resting == [stage |-> "idle", due |-> <<>>, plan |-> <<>>]

\* The reports of days 2 and 3 hold the unrealized profit only. A daily report may be missing, a
\* weekly one may not add up or lack a day.
RecomputeInit ==
    /\ orderHistory \in Histories /\ feeTenths = 1
    /\ \E missing \in SUBSET {4}, damaged \in {"none", "sum", "row"} :
           LET right == ReplayHistory.realized
               total == [d \in ReportDay |-> IF d \in missing THEN 0
                                             ELSE IF d \in {2, 3} THEN 1 ELSE right[d] + 1]
               known == [p \in 1..3 |-> Span(p) \ (missing \cup IF damaged = "row" /\ p = 2 THEN {3} ELSE {})]
               sum   == [p \in 1..3 |-> SumRows(total, known[p]) + IF damaged = "sum" /\ p = 1 THEN 5 ELSE 0]
           IN  /\ daily = [d \in ReportDay |-> [there |-> d \notin missing, total |-> total[d], unrealized |-> 1,
                                                first |-> total[d], recomputed |-> FALSE]]
               /\ period = [p \in 1..3 |-> [rows |-> total, known |-> known[p], total |-> sum[p],
                                            prev |-> IF p = 2 THEN sum[1] ELSE 0]]
    /\ asides = [t \in 1..2 |-> {}]
    /\ recompute = Resting
    /\ recomputesLeft = MaxRecomputes /\ recomputeDate = 1 /\ recomputeDeaths = 0
    /\ reportsAtFirst = [daily |-> daily, period |-> period]

\* Mutant: what was saved aside is overwritten.
AlreadyAsideNever(plan) == FALSE

\* A file that was saved aside on this date stops the run before it changes anything.
AlreadyAside(plan) ==
    \E i \in DOMAIN plan : \E saved \in asides[recomputeDate] : saved.file = plan[i].file

StartRecompute(targets) ==
    /\ recompute.stage = "idle" /\ recomputesLeft > 0
    /\ recomputesLeft' = recomputesLeft - 1
    /\ LET plan == PlanFor(targets)
       IN  recompute' = IF plan = <<>> \/ AlreadyAside(plan) THEN Resting
                        ELSE [stage |-> "save_aside", due |-> plan, plan |-> plan]
    /\ UNCHANGED <<orderHistory, feeTenths, daily, period, asides, recomputeDate, recomputeDeaths,
                   reportsAtFirst>>

SaveAside ==
    /\ recompute.stage = "save_aside"
    /\ LET file == Head(recompute.due).file
       IN  asides' = [asides EXCEPT ![recomputeDate] =
                          {saved \in @ : saved.file # file} \cup {[file |-> file, content |-> Content(file)]}]
    /\ recompute' = IF Len(recompute.due) > 1 THEN [recompute EXCEPT !.due = Tail(@)]
                    ELSE [recompute EXCEPT !.stage = "write", !.due = recompute.plan]
    /\ UNCHANGED <<orderHistory, feeTenths, daily, period, recomputesLeft, recomputeDate, recomputeDeaths,
                   reportsAtFirst>>

\* A file is replaced as a whole.
WriteReport ==
    /\ recompute.stage = "write"
    /\ LET entry == Head(recompute.due)
       IN  IF entry.file[1] = "daily"
           THEN daily' = [daily EXCEPT ![entry.file[2]] = entry.new[1]] /\ UNCHANGED period
           ELSE period' = [period EXCEPT ![entry.file[2]] = entry.new[1]] /\ UNCHANGED daily
    /\ recompute' = IF Len(recompute.due) > 1 THEN [recompute EXCEPT !.due = Tail(@)] ELSE Resting
    /\ UNCHANGED <<orderHistory, feeTenths, asides, recomputesLeft, recomputeDate, recomputeDeaths,
                   reportsAtFirst>>

RecomputeDies ==
    /\ recompute.stage # "idle" /\ recomputeDeaths < MaxRecomputeDeaths
    /\ recomputeDeaths' = recomputeDeaths + 1
    /\ recompute' = Resting
    /\ UNCHANGED <<orderHistory, feeTenths, daily, period, asides, recomputesLeft, recomputeDate,
                   reportsAtFirst>>

\* Another day, with the same fees or others.
DayOfRecompute ==
    /\ recompute.stage = "idle" /\ recomputeDate = 1
    /\ recomputeDate' = 2
    /\ feeTenths' \in {1, 2}
    /\ UNCHANGED <<orderHistory, daily, period, asides, recompute, recomputesLeft, recomputeDeaths,
                   reportsAtFirst>>

RecomputeNext ==
    \/ \E targets \in TargetSets : StartRecompute(targets)
    \/ SaveAside \/ WriteReport \/ RecomputeDies \/ DayOfRecompute

RecomputeSpec == RecomputeInit /\ [][RecomputeNext]_recomputeVars

-----------------------------------------------------------------------------
(* Properties *)

RecomputeTypeOK ==
    /\ recompute.stage \in {"idle", "save_aside", "write"}
    /\ recomputesLeft \in 0..MaxRecomputes /\ recomputeDeaths \in 0..MaxRecomputeDeaths
    /\ \A d \in ReportDay : daily[d].total \in Int /\ daily[d].recomputed \in BOOLEAN
    /\ \A p \in 1..3 : period[p].known \subseteq Span(p)

\* Whatever dies and however often it is repeated, the first content of a file that was changed is
\* in one of the directories it was saved to.
FirstContentKept ==
    /\ \A d \in ReportDay : daily[d] # reportsAtFirst.daily[d] =>
           \E t \in 1..2 : [file |-> DailyFile(d), content |-> <<reportsAtFirst.daily[d]>>] \in asides[t]
    /\ \A p \in 1..3 : period[p] # reportsAtFirst.period[p] =>
           \E t \in 1..2 : [file |-> PeriodFile(p), content |-> <<reportsAtFirst.period[p]>>] \in asides[t]

\* A corrected report names the total it had at first, also when it is corrected again.
FirstTotalNamed ==
    \A d \in ReportDay : daily[d].recomputed => daily[d].first = reportsAtFirst.daily[d].total

Undamaged(p) ==
    /\ reportsAtFirst.period[p].total = SumRows(reportsAtFirst.period[p].rows, reportsAtFirst.period[p].known)
    /\ \A d \in Span(p) : daily[d].there => d \in period[p].known

\* When no run died, the sums of every undamaged report are those of the daily reports, and its
\* comparison is the sum of the report it is compared with.
SumsFollow ==
    recompute.stage = "idle" /\ recomputeDeaths = 0 =>
        \A p \in 1..3 : Undamaged(p) =>
            /\ period[p].total = SumRows([d \in ReportDay |-> daily[d].total], period[p].known)
            /\ Spans[p].before # 0 => (Undamaged(Spans[p].before) =>
                                           period[p].prev = period[Spans[p].before].total)

\* The profits of the days add up to the money gained and what is still invested.
ReplayBalances ==
    LET account == ReplayHistory
    IN  account.cash - INITIAL_CASH = SumRows(account.realized, ReportDay) - account.cost

\* The four together.
RecomputeSound == FirstContentKept /\ FirstTotalNamed /\ SumsFollow /\ ReplayBalances
=============================================================================
