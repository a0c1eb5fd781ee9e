---------------------------- MODULE ShadowPositions ----------------------------
(* The shadow positions (application/shadow_position_tracker.py and the methods of *)
(* application/trading_usecase.py around it): what a lot would have brought at     *)
(* fixed times after its purchase, written to the decision journal, over restarts *)
(* of the loop. Which orders are placed is left to TradingLoop: a symbol is bought *)
(* at most once a day, and all of it is sold.                                     *)
EXTENDS DecisionJournal, FiniteSetsExt

CONSTANTS
    LastCheckpoint,            \* CHECKPOINT_MINUTES are numbered from 1
    MaxPurchases, MaxStarts    \* bounds

VARIABLES
    open,      \* lots bought and not sold: the order history and the account
    sold,      \* lots bought and sold
    age,       \* the checkpoints that are due for a lot
    tracked,   \* _shadow_positions: the lots in memory
    done,      \* completed_checkpoints of these
    blind,     \* not in the program: the days on which a start could not read the journal
    starts

shadowVars == <<today, trading, journalVars, open, sold, age, tracked, done, blind, starts>>

Checkpoint == 1..LastCheckpoint
Lot == Symbol \X Day

Settlement == LastCheckpoint + 1
ShadowKey == Day \X Lot \X (1..Settlement)

ASSUME ShadowPositionsAssumption ==
    /\ {LastCheckpoint, MaxPurchases, MaxStarts} \subseteq Nat \ {0}
    /\ Key = ShadowKey

LotsOf(s) == {lot \in open : lot[1] = s}
TrackedOf(s) == {lot \in tracked : lot[1] = s}
Held == {lot[1] : lot \in open}

\* Completed reads the rows of the day, one per lot and checkpoint.
Written(lot) == {c \in Checkpoint : table[<<today, lot, c>>] > 0}

ShadowInit ==
    /\ DaysInit
    /\ JournalInit
    /\ open = {}
    /\ sold = {}
    /\ age = [lot \in Lot |-> 0]
    /\ tracked = {}
    /\ done = [lot \in Lot |-> {}]
    /\ blind = {}
    /\ starts = 0

-----------------------------------------------------------------------------
(* The start of the loop *)

\* A bug: what the journal says of a lot is not read.
RestoredWithoutRecords(lot, readable) == {}

Restored(lot, readable) == IF readable THEN Written(lot) ELSE {}

\* _restore_shadow_positions returns in its loop over the symbols: only the lots of
\* the first one are restored, and any symbol may be first.
RestoredLots(restored) ==
    IF open = {} THEN restored = {} ELSE \E s \in Held : restored = LotsOf(s)

BeginTracking ==
    /\ Begin
    /\ starts < MaxStarts
    /\ starts' = starts + 1
    /\ SaveSnapshot("start", Cardinality(Held))
    /\ \E readable \in BOOLEAN, restored \in SUBSET open :
          /\ RestoredLots(restored)
          /\ ~readable => restored # {}
          /\ tracked' = restored
          /\ done' = [lot \in Lot |-> IF lot \in restored THEN Restored(lot, readable) ELSE {}]
          /\ blind' = IF readable THEN blind ELSE blind \cup {today}
    /\ UNCHANGED <<pending, table, recorded, open, sold, age>>

-----------------------------------------------------------------------------
(* The loop *)

\* _start_shadow_position, after a BUY
TrackPurchase(s) ==
    LET lot == <<s, today>>
    IN  /\ trading
        /\ lot \notin open \cup sold
        /\ Cardinality(open \cup sold) < MaxPurchases
        /\ open' = open \cup {lot}
        /\ tracked' = tracked \cup {lot}
        /\ done' = [done EXCEPT ![lot] = {}]
        /\ UNCHANGED <<today, trading, journalVars, sold, age, blind, starts>>

Due(lot) == {c \in Checkpoint : c <= age[lot]} \ done[lot]

\* A bug: a checkpoint that was recorded is not noted.
ObservedUnnoted(lots) == done

Observed(lots) ==
    [lot \in Lot |-> IF lot \in lots THEN done[lot] \cup Due(lot) ELSE done[lot]]

\* _observe_shadow_positions: a missing price is observed too.
Observe(s) ==
    LET lots == TrackedOf(s)
        rows == {<<today, lot, c>> : lot \in lots, c \in Checkpoint}
    IN  /\ trading
        /\ \E lot \in lots : Due(lot) # {}
        /\ Record({row \in rows : row[3] \in Due(row[2])})
        /\ done' = Observed(lots)
        /\ UNCHANGED <<today, trading, table, snapshot, failures, open, sold, age, tracked, blind, starts>>

\* A bug: a lot that was settled is not taken out of the memory.
StillTracked(s) == tracked

Unsettled(s) == tracked \ TrackedOf(s)

\* _settle_shadow_positions, after a SELL
Settle(s) ==
    /\ trading
    /\ s \in Held
    /\ open' = open \ LotsOf(s)
    /\ sold' = sold \cup LotsOf(s)
    /\ tracked' = Unsettled(s)
    /\ Record({<<today, lot, Settlement>> : lot \in TrackedOf(s)})
    /\ UNCHANGED <<today, trading, table, snapshot, failures, age, done, blind, starts>>

\* _flush_decision_journal_safely, at the end of every round
SaveRound == trading /\ Flush /\ UNCHANGED <<today, trading, open, sold, age, tracked, done, blind, starts>>

FailRound == trading /\ FlushFails /\ UNCHANGED <<today, trading, open, sold, age, tracked, done, blind, starts>>

ForgetTracked ==
    /\ tracked' = {}
    /\ done' = [lot \in Lot |-> {}]

\* The loop ends: a last flush, which may fail, and the snapshot of the end.
EndLoop ==
    /\ End
    /\ \/ /\ table' = Plus(table, pending)
          /\ pending' = NoCounts
          /\ UNCHANGED recorded
       \/ /\ failures < MaxFlushFailures
          /\ LosePending
          /\ UNCHANGED table
    /\ SaveSnapshot("end", Cardinality(Held))
    /\ ForgetTracked
    /\ UNCHANGED <<open, sold, age, blind, starts>>

ProcessDies ==
    /\ End
    /\ LosePending
    /\ ForgetTracked
    /\ UNCHANGED <<table, snapshot, failures, open, sold, age, blind, starts>>

-----------------------------------------------------------------------------
(* The surroundings *)

\* elapsed_trading_minutes: the time of a lot runs on the day of its purchase only.
Older(lot, n) == IF lot[2] = today THEN Min({age[lot] + n, LastCheckpoint}) ELSE age[lot]

TimePasses ==
    /\ \E lot \in open : Older(lot, 1) > age[lot]
    /\ age' = [lot \in Lot |-> IF lot \in open THEN Older(lot, 1) ELSE age[lot]]
    /\ UNCHANGED <<today, trading, journalVars, open, sold, tracked, done, blind, starts>>

\* What was left of the day counts as elapsed.
NightFalls ==
    /\ Tomorrow
    /\ \E n \in 0..LastCheckpoint :
          age' = [lot \in Lot |-> IF lot \in open THEN Older(lot, n) ELSE age[lot]]
    /\ snapshot' = NoSnapshot
    /\ UNCHANGED <<pending, table, recorded, failures, open, sold, tracked, done, blind, starts>>

ShadowNext ==
    \/ BeginTracking \/ SaveRound \/ FailRound \/ EndLoop \/ ProcessDies \/ TimePasses \/ NightFalls
    \/ \E s \in Symbol : TrackPurchase(s) \/ Observe(s) \/ Settle(s)

\* The loop flushes after every round.
ShadowSpec == ShadowInit /\ [][ShadowNext]_shadowVars /\ WF_shadowVars(SaveRound)

-----------------------------------------------------------------------------
(* Properties *)

Count(k) == table[k] + pending[k]

ShadowTypeOK ==
    /\ today \in Day
    /\ trading \in BOOLEAN
    /\ JournalTypeOK
    /\ open \subseteq Lot
    /\ sold \subseteq Lot \ open
    /\ age \in [Lot -> 0..LastCheckpoint]
    /\ tracked \subseteq open
    /\ done \in [Lot -> SUBSET Checkpoint]
    /\ blind \subseteq Day
    /\ starts \in 0..MaxStarts

\* On a day on which every start could read the journal, no checkpoint of a lot is
\* written twice, however often the loop was restarted and wherever it died.
CheckpointOnce ==
    \A d \in Day \ blind, lot \in Lot, c \in Checkpoint : Count(<<d, lot, c>>) <= 1

\* A lot is settled once in the journal, and only when it was sold.
SettledOnce ==
    \A lot \in Lot :
        LET days == {d \in Day : Count(<<d, lot, Settlement>>) > 0}
        IN  /\ Cardinality(days) <= 1
            /\ \A d \in days : lot \in sold /\ Count(<<d, lot, Settlement>>) = 1

\* The journal has one row for each thing that happened, wherever its records
\* were when a flush failed, the loop was started again or the process died.
JournalTrue == CountsExact /\ CheckpointOnce /\ SettledOnce

\* What is recorded comes to be saved while the loop goes on, a failed flush or not.
RecordsSaved == trading /\ pending # NoCounts ~> ~trading \/ pending = NoCounts

\* Every lot that is held is tracked.
TrackedWhileHeld == trading => open \subseteq tracked
=============================================================================
