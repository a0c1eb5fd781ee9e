---------------------------- MODULE DecisionJournal ----------------------------
(* The decision journal (infrastructure/persistence/decision_journal_repository.py) *)
(* and the methods of the loop that write it: records are counted in memory by   *)
(* key, a flush adds them to the table in one transaction, and the snapshots of  *)
(* the account are written at the start and at the end of the loop.             *)
EXTENDS TradingDays

CONSTANTS
    Key,              \* date, symbol and reason of a record
    MaxFlushFailures  \* bound

ASSUME DecisionJournalAssumption == MaxFlushFailures \in Nat

VARIABLES
    pending,    \* _pending: the counts that are not in the table yet
    table,      \* decision_records: occurrence_count
    snapshot,   \* daily_account_snapshots: the positions at the start and end of today
    recorded,   \* not in the program: the calls of record(), less those whose process died
    failures

journalVars == <<pending, table, snapshot, recorded, failures>>

Counts == [Key -> Nat]

NoCounts == [k \in Key |-> 0]

Plus(f, g) == [k \in Key |-> f[k] + g[k]]

NoSnapshot == [kind \in {"start", "end"} |-> -1]

JournalInit ==
    /\ pending = NoCounts
    /\ table = NoCounts
    /\ snapshot = NoSnapshot
    /\ recorded = NoCounts
    /\ failures = 0

-----------------------------------------------------------------------------
\* record, for every key of a set
Record(keys) ==
    LET one == [k \in Key |-> IF k \in keys THEN 1 ELSE 0]
    IN  /\ pending' = Plus(pending, one)
        /\ recorded' = Plus(recorded, one)

\* A bug: the records are taken out before they are saved.
FlushFailsForgetting ==
    /\ failures < MaxFlushFailures
    /\ failures' = failures + 1
    /\ pending' = NoCounts
    /\ UNCHANGED <<table, snapshot, recorded>>

\* The transaction is rolled back; the loop goes on.
FlushFails ==
    /\ pending # NoCounts
    /\ failures < MaxFlushFailures
    /\ failures' = failures + 1
    /\ UNCHANGED <<pending, table, snapshot, recorded>>

\* A bug: nothing is taken out.
FlushKeeping ==
    /\ pending # NoCounts
    /\ table' = Plus(table, pending)
    /\ UNCHANGED <<pending, snapshot, recorded, failures>>

\* A bug: after a failure nothing is saved any more.
FlushUntilFailure ==
    /\ pending # NoCounts
    /\ failures = 0
    /\ table' = Plus(table, pending)
    /\ pending' = NoCounts
    /\ UNCHANGED <<snapshot, recorded, failures>>

Flush ==
    /\ pending # NoCounts
    /\ table' = Plus(table, pending)
    /\ pending' = NoCounts
    /\ UNCHANGED <<snapshot, recorded, failures>>

\* What was not flushed dies with the process.
LosePending ==
    /\ recorded' = [k \in Key |-> recorded[k] - pending[k]]
    /\ pending' = NoCounts

\* A bug: both kinds are overwritten.
KeepsNone(kind) == FALSE

\* ON CONFLICT: the start of a day is kept, its end is overwritten.
Keeps(kind) == kind = "start"

\* record_account_snapshot, which may fail without a trace
SaveSnapshot(kind, holdings) ==
    \/ /\ snapshot' = IF Keeps(kind) /\ snapshot[kind] # -1
                      THEN snapshot
                      ELSE [snapshot EXCEPT ![kind] = holdings]
       /\ UNCHANGED failures
    \/ /\ failures < MaxFlushFailures
       /\ failures' = failures + 1
       /\ UNCHANGED snapshot

-----------------------------------------------------------------------------
(* Properties *)

JournalTypeOK ==
    /\ pending \in Counts
    /\ table \in Counts
    /\ snapshot \in [{"start", "end"} -> Nat \cup {-1}]
    /\ recorded \in Counts
    /\ failures \in 0..MaxFlushFailures

\* Every call of record() is counted once, through failed flushes and restarts: it
\* is in the table or waits in memory, unless it died with the memory it waited in.
CountsExact == \A k \in Key : recorded[k] = table[k] + pending[k]

\* A table never forgets, and the account at the first start of a day is kept
\* through every restart of that day.
MorningKept ==
    [][/\ \A k \in Key : table'[k] >= table[k]
       /\ today' = today /\ snapshot["start"] # -1 => snapshot'["start"] = snapshot["start"]
      ]_<<table, snapshot>>
=============================================================================
