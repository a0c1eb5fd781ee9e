----------------------------- MODULE ReplayedDays -----------------------------
(* The trading loop replayed over several past days: the days with a selection and *)
(* minute bars are found, the loop runs each of them by a clock that jumps from bar *)
(* to bar, over one paper account, and after each day the profit is computed again  *)
(* from its orders alone. What does not agree ends the replay with an exception.    *)
(*                                                                             *)
(* What the loop decides is left open here; SymbolDecision says it.             *)
EXTENDS Integers, FiniteSets, Sequences, SequencesExt, FiniteSetsExt, Functions

CONSTANTS
    Share,
    LastReplayDay, ClosedDays,   \* days without trading
    Listings,                    \* functions from days to the symbols selected, {} when there is no file
    DaySessions,                 \* minute bars of a symbol and a day: prices, 0 without a bar
    LIQUIDATE_FROM,              \* minute; one after the last is the close
    REPLAY_CASH,
    SHORTEST_HISTORY             \* daily bars a symbol needs before its first day

ReplayDay == 1..LastReplayDay
LastReplayMinute == Len(CHOOSE session \in DaySessions : TRUE)
WithoutBars == [m \in 1..LastReplayMinute |-> 0]

ASSUME ReplayAssumption ==
    /\ IsFiniteSet(Share)
    /\ {LastReplayDay, LastReplayMinute, LIQUIDATE_FROM, REPLAY_CASH, SHORTEST_HISTORY} \subseteq Nat
    /\ Listings \subseteq [ReplayDay -> SUBSET Share]
    /\ DaySessions \subseteq [1..LastReplayMinute -> Nat]

VARIABLES
    listedOn, sessions,          \* the files: selections; minute bars by day and symbol
    firstDaily,                  \* day of the first daily bar of a symbol, may be before day 1
    targets, skipped,            \* days to replay, and <<day, reason>> of the others
    replayAt,                    \* "discover", "day", "loop", "check", "over", "raised"
    replayDay, moment, toLookAt, \* of the loop: the symbols still to be looked at
    client,                      \* the paper account: [cash, held, cost, pnl, pnlDay]
    orders,                      \* of the day: [symbol, side, price, fee]
    cumulative, independent,     \* profits of the days that are over, computed in two ways
    replayKilled,                \* the kill switch ended the day
    quotedAt                     \* <<day, minute, symbol, price>> and daily bars used (ghost)

replayVars == <<listedOn, sessions, firstDaily, targets, skipped, replayAt, replayDay, moment, toLookAt,
                client, orders, cumulative, independent, replayKilled, quotedAt>>
fileVars == <<listedOn, sessions, firstDaily>>

ReplayInit ==
    /\ listedOn \in Listings
    /\ sessions \in [ReplayDay \X Share -> DaySessions]
    /\ \A d \in ClosedDays, s \in Share : sessions[<<d, s>>] = WithoutBars
    /\ firstDaily \in [Share -> {0, 2 - SHORTEST_HISTORY}]
    /\ targets = {} /\ skipped = {} /\ replayAt = "discover"
    /\ replayDay = 0 /\ moment = 0 /\ toLookAt = {}
    /\ client = [cash |-> REPLAY_CASH, held |-> [s \in Share |-> FALSE], cost |-> [s \in Share |-> 0],
                 pnl |-> 0, pnlDay |-> 0]
    /\ orders = <<>> /\ cumulative = 0 /\ independent = 0 /\ replayKilled = FALSE /\ quotedAt = {}

-----------------------------------------------------------------------------
(* Which days *)

Ticks(d) == {m \in 1..LastReplayMinute : \E s \in listedOn[d] : sessions[<<d, s>>][m] # 0}

\* Mutant: a day is replayed when it has a selection.
ReplayableListed(d) == d \notin ClosedDays /\ listedOn[d] # {}

Replayable(d) == d \notin ClosedDays /\ listedOn[d] # {} /\ Ticks(d) # {}

SkipReason(d) ==
    IF d \in ClosedDays THEN "non trading day" ELSE IF listedOn[d] = {} THEN "no selection" ELSE "no minute bars"

\* Daily bars before a day.
DailyBefore(s, d) == {b \in firstDaily[s]..LastReplayDay : b < d}

TooShort(days) ==
    \E s \in UNION {listedOn[d] : d \in days} :
        Cardinality(DailyBefore(s, Min({d \in days : s \in listedOn[d]}))) < SHORTEST_HISTORY

Discover ==
    /\ replayAt = "discover"
    /\ LET days == {d \in ReplayDay : Replayable(d)}
       IN  /\ targets' = days
           /\ skipped' = {<<d, SkipReason(d)>> : d \in ReplayDay \ days}
           /\ replayAt' = IF days = {} \/ TooShort(days) THEN "raised" ELSE "day"
    /\ UNCHANGED <<fileVars, replayDay, moment, toLookAt, client, orders, cumulative, independent,
                   replayKilled, quotedAt>>

-----------------------------------------------------------------------------
(* A day *)

\* The last bar of the day until now.
BoardAt(d, s, m) ==
    LET seen == {i \in 1..LastReplayMinute : i <= m /\ sessions[<<d, s>>][i] # 0}
    IN  IF seen = {} THEN 0 ELSE sessions[<<d, s>>][Max(seen)]

NextTick(d, m) ==
    LET later == {i \in Ticks(d) : i > m} IN IF later = {} THEN LastReplayMinute + 1 ELSE Min(later)

\* What was left over from the day before ends the replay.
StartDay ==
    /\ replayAt = "day"
    /\ LET left == {d \in targets : d > replayDay}
       IN  IF left = {} THEN replayAt' = "over" /\ UNCHANGED <<replayDay, moment, toLookAt, orders,
                                                               replayKilled, quotedAt>>
           ELSE LET d == Min(left) IN
                /\ replayDay' = d /\ orders' = <<>> /\ replayKilled' = FALSE
                /\ moment' = NextTick(d, 0) /\ toLookAt' = listedOn[d]
                /\ quotedAt' = quotedAt \cup {[day |-> d, moment |-> 0, symbol |-> s,
                                                     price |-> Max(DailyBefore(s, d) \cup {0})]
                                              : s \in listedOn[d]}
                /\ replayAt' = IF \E s \in Share : client.held[s] THEN "raised" ELSE "loop"
    /\ UNCHANGED <<fileVars, targets, skipped, client, cumulative, independent>>

Fee10(price) == price \div 10

\* Mutant: the profit of the days before stays in that of the day.
DayPnlRunning(day) == client.pnl

DayPnl(day) == IF client.pnlDay = day THEN client.pnl ELSE 0

Bought(s, price) ==
    [client EXCEPT !.cash = @ - price - Fee10(price), !.held[s] = TRUE, !.cost[s] = price + Fee10(price)]

Sold(s, price) ==
    [client EXCEPT !.cash = @ + price - Fee10(price), !.held[s] = FALSE, !.cost[s] = 0,
                   !.pnl = DayPnl(replayDay) + price - Fee10(price) - client.cost[s], !.pnlDay = replayDay]

OrderNoted(s, side, price) == Append(orders, [symbol |-> s, side |-> side, price |-> price, fee |-> Fee10(price)])

OrderedToday(s, side) == \E i \in DOMAIN orders : orders[i].symbol = s /\ orders[i].side = side

\* One symbol after the other; without a bar until now there is no board.
LookAt(s) ==
    /\ replayAt = "loop" /\ moment < LIQUIDATE_FROM /\ s \in toLookAt
    /\ toLookAt' = toLookAt \ {s}
    /\ LET price == BoardAt(replayDay, s, moment)
       IN  \/ UNCHANGED <<client, orders, quotedAt>>
           \/ /\ price # 0 /\ ~OrderedToday(s, "BUY") /\ ~client.held[s]
              /\ client.cash >= price + Fee10(price)
              /\ client' = Bought(s, price) /\ orders' = OrderNoted(s, "BUY", price)
              /\ quotedAt' = quotedAt \cup {[day |-> replayDay, moment |-> moment, symbol |-> s, price |-> price]}
           \/ /\ price # 0 /\ client.held[s] /\ ~OrderedToday(s, "SELL")
              /\ client' = Sold(s, price) /\ orders' = OrderNoted(s, "SELL", price)
              /\ quotedAt' = quotedAt \cup {[day |-> replayDay, moment |-> moment, symbol |-> s, price |-> price]}
    /\ UNCHANGED <<fileVars, targets, skipped, replayAt, replayDay, moment, cumulative, independent,
                   replayKilled>>

Sleep ==
    /\ replayAt = "loop" /\ moment < LIQUIDATE_FROM /\ toLookAt = {}
    /\ moment' = NextTick(replayDay, moment)
    /\ toLookAt' = listedOn[replayDay]
    /\ UNCHANGED <<fileVars, targets, skipped, replayAt, replayDay, client, orders, cumulative,
                   independent, replayKilled, quotedAt>>

\* Everything is sold; whatever is held has a bar of today.
LiquidateAll ==
    /\ replayAt = "loop" /\ moment >= LIQUIDATE_FROM
    /\ IF \E s \in Share : client.held[s]
       THEN LET s == CHOOSE t \in Share : client.held[t]
                price == BoardAt(replayDay, s, moment)
            IN  /\ client' = Sold(s, price) /\ orders' = OrderNoted(s, "SELL", price)
                /\ quotedAt' = quotedAt \cup {[day |-> replayDay, moment |-> moment, symbol |-> s, price |-> price]}
                /\ UNCHANGED replayAt
       ELSE replayAt' = "check" /\ UNCHANGED <<client, orders, quotedAt>>
    /\ UNCHANGED <<fileVars, targets, skipped, replayDay, moment, toLookAt, cumulative, independent,
                   replayKilled>>

\* The kill switch leaves the loop and what is held.
Kill ==
    /\ replayAt = "loop" /\ moment < LIQUIDATE_FROM
    /\ replayKilled' = TRUE /\ replayAt' = "check"
    /\ UNCHANGED <<fileVars, targets, skipped, replayDay, moment, toLookAt, client, orders, cumulative,
                   independent, quotedAt>>

-----------------------------------------------------------------------------
(* The check *)

\* Mutant: the fee of a purchase is not part of its cost.
FromOrdersWithoutFee(book, order) ==
    IF order.side = "BUY" THEN [book EXCEPT !.cost[order.symbol] = order.price, !.open = @ \cup {order.symbol}]
    ELSE [book EXCEPT !.pnl = @ + order.price - order.fee - book.cost[order.symbol], !.open = @ \ {order.symbol}]

FromOrders(book, order) ==
    IF order.side = "BUY"
    THEN [book EXCEPT !.cost[order.symbol] = order.price + order.fee, !.open = @ \cup {order.symbol}]
    ELSE [book EXCEPT !.pnl = @ + order.price - order.fee - book.cost[order.symbol], !.open = @ \ {order.symbol}]

Reconstructed == FoldLeft(FromOrders, [pnl |-> 0, cost |-> [s \in Share |-> 0], open |-> {}], orders)

CheckReplayedDay ==
    /\ replayAt = "check"
    /\ client' = [client EXCEPT !.pnl = DayPnl(replayDay), !.pnlDay = replayDay]
    /\ IF Reconstructed.open # {} \/ Reconstructed.pnl # DayPnl(replayDay)
       THEN replayAt' = "raised" /\ UNCHANGED <<cumulative, independent>>
       ELSE /\ replayAt' = "day"
            /\ cumulative' = cumulative + DayPnl(replayDay)
            /\ independent' = independent + Reconstructed.pnl
    /\ UNCHANGED <<fileVars, targets, skipped, replayDay, moment, toLookAt, orders, replayKilled,
                   quotedAt>>

ReplayNext ==
    \/ Discover \/ StartDay \/ Sleep \/ LiquidateAll \/ Kill \/ CheckReplayedDay
    \/ \E s \in Share : LookAt(s)

ReplaySpec == ReplayInit /\ [][ReplayNext]_replayVars

-----------------------------------------------------------------------------
(* Properties *)

ReplayTypeOK ==
    /\ replayAt \in {"discover", "day", "loop", "check", "over", "raised"}
    /\ moment \in 0..LastReplayMinute + 1 /\ replayDay \in 0..LastReplayDay
    /\ toLookAt \subseteq Share /\ targets \subseteq ReplayDay
    /\ client.held \in [Share -> BOOLEAN] /\ client.cash \in Nat

\* Every day is replayed or skipped for one reason, and a replayed one has a tick.
DaysAccounted ==
    replayAt # "discover" =>
        /\ \A d \in ReplayDay : d \in targets <=> \A r \in {q[2] : q \in skipped} : <<d, r>> \notin skipped
        /\ \A d \in targets : \E s \in listedOn[d], m \in 1..LastReplayMinute : sessions[<<d, s>>][m] # 0

\* The replay ends with an exception only for want of data or after a kill switch that kept what
\* was held: its own checks never accuse a day that is sound.
RaisesForCause ==
    replayAt = "raised" =>
        \/ targets = {} \/ TooShort(targets)
        \/ replayKilled /\ \E s \in Share : client.held[s]

\* Between the days nothing is held, and the profits of the days, in both ways, are the money gained.
MoneyReconciled ==
    replayAt \in {"day", "over"} =>
        /\ cumulative = client.cash - REPLAY_CASH
        /\ independent = cumulative
        /\ \A s \in Share : ~client.held[s]

\* An order is filled at a price of its day not later than its moment, the daily bars end the day before.
NoFutureQuote ==
    \A q \in quotedAt :
        IF q.moment = 0 THEN q.price < q.day
        ELSE \E m \in 1..LastReplayMinute : m <= q.moment /\ sessions[<<q.day, q.symbol>>][m] = q.price

\* The four together.
ReplayedSound == DaysAccounted /\ RaisesForCause /\ MoneyReconciled /\ NoFutureQuote
=============================================================================
