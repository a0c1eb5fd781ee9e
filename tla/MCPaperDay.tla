------------------------------ MODULE MCPaperDay ------------------------------
(* Three machines that share the days and the process of the loop and nothing   *)
(* else: a behaviour runs one of them, chosen at the start.                     *)
EXTENDS PaperAccount, ShadowPositions, FilterDecisions

CONSTANTS
    a, b,
    Machines   \* those a run is about

VARIABLE machine

Pair == {a, b}
Prices == {100, 200}
All == {"account", "shadow", "filter"}
OnlyAccount == {"account"}
OnlyShadow == {"shadow"}

dayVars == <<machine, accountVars, shadowVars, filterVars>>

IdleAccount == <<market, account, prices, saved, capital, baseline, crashes>>
IdleShadow == <<journalVars, open, sold, age, tracked, done, blind, starts>>
IdleFilter == <<events, initialized, late, ofDay, dark, caught, failed>>

PaperDayInit ==
    /\ machine \in Machines
    /\ AccountInit
    /\ machine # "account" => market = [s \in Symbol |-> 100]
    /\ ShadowInit
    /\ FilterInit

PaperDayNext ==
    /\ UNCHANGED machine
    /\ \/ machine = "account" /\ AccountNext /\ UNCHANGED <<IdleShadow, IdleFilter>>
       \/ machine = "shadow" /\ ShadowNext /\ UNCHANGED <<IdleAccount, IdleFilter>>
       \/ machine = "filter" /\ FilterNext /\ UNCHANGED <<IdleAccount, IdleShadow>>

PaperDaySpec ==
    PaperDayInit /\ [][PaperDayNext]_dayVars
        /\ WF_dayVars(machine = "shadow" /\ SaveRound /\ UNCHANGED <<machine, IdleAccount, IdleFilter>>)

-----------------------------------------------------------------------------
(* Properties *)

\* Every variable of the three machines has its type.
PaperDayTypeOK == AccountTypeOK /\ ShadowTypeOK /\ FilterTypeOK

\* What a day has settled stays, through every restart: its starting capital, the
\* account of its morning and the judgements of its events.
SettledForGood == CapitalStays /\ MorningKept /\ JudgedForGood
=============================================================================
