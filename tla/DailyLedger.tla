---------------------------- MODULE DailyLedger ----------------------------
(***************************************************************************)
(* What the duplicate check and the daily order cap promise, whatever the  *)
(* loop, the files and the restarts that implement them do.                *)
(*                                                                         *)
(* The ledger remembers the symbols bought today.  A BUY is accepted only  *)
(* for a symbol it does not remember, and only below the daily cap.  The   *)
(* only way to buy a symbol twice in a day is that the ledger forgot the   *)
(* first purchase, and what was forgotten is counted.                      *)
(***************************************************************************)
EXTENDS Naturals, FiniteSets

CONSTANTS
    Symbol,                  \* the symbols the bot watches
    MAX_ORDER_COUNT_PER_DAY  \* cap on the BUY orders of one day

VARIABLES
    remembered, \* symbols with a BUY of today on record
    bought,     \* bought[s]: BUY orders accepted today
    lost        \* lost[s]: BUY orders of today no longer on record

ledgerVars == <<remembered, bought, lost>>

LedgerInit ==
    /\ remembered = {}
    /\ bought = [s \in Symbol |-> 0]
    /\ lost = [s \in Symbol |-> 0]

Buy(s) ==
    /\ s \notin remembered
    /\ Cardinality(remembered) < MAX_ORDER_COUNT_PER_DAY
    /\ remembered' = remembered \cup {s}
    /\ bought' = [bought EXCEPT ![s] = @ + 1]
    /\ UNCHANGED lost

Forget(S) ==
    /\ remembered' = remembered \ S
    /\ lost' = [s \in Symbol |-> IF s \in S THEN lost[s] + 1 ELSE lost[s]]
    /\ UNCHANGED bought

NewDay == LedgerInit'

LedgerNext ==
    \/ \E s \in Symbol : Buy(s)
    \/ \E S \in SUBSET remembered : Forget(S)
    \/ NewDay

LedgerSpec == LedgerInit /\ [][LedgerNext]_ledgerVars

=============================================================================
