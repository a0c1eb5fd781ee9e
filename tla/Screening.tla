------------------------------- MODULE Screening -------------------------------
(* The screening of an afternoon (entrypoints/run_screening.py,                 *)
(* application/screening_usecase.py): for the primary price band and then for the *)
(* alternate ones, the candidates are registered with the station in batches,     *)
(* their market and regulation are asked for, and the result of the band is saved. *)
(* The answers of a day are kept in a file (ScreeningApiCheckRepository), so that  *)
(* neither another band nor another run of the day asks for them again.           *)
(*                                                                             *)
(* A run with --date makes the result of the primary band alone, of the day it is *)
(* given: the regulation comes from a file of the past (HistoricalRegulation-     *)
(* Repository), the market from the station, and no answer is kept.               *)
(*                                                                             *)
(* The rankings and the price cap give each band its candidates (Ranked).         *)
EXTENDS Naturals, Sequences, FiniteSets

CONSTANTS
    Issue,
    Ranked,             \* the candidates of each price band, in the order of their rank
    BATCH_SIZE,         \* SCREENING_BATCH_SIZE
    MAX_COUNT,          \* of limit_candidates
    MaxRuns             \* bound: runs of the program in a day

ASSUME ScreeningAssumption ==
    /\ Ranked \in Seq(Seq(Issue)) /\ Len(Ranked) > 0
    /\ BATCH_SIZE \in Nat \ {0}
    /\ MAX_COUNT \in Nat \ {0}
    /\ MaxRuns \in Nat

VARIABLES
    stage,        \* where the run is
    dated,        \* it was given a date
    level,        \* the price band it is at
    place,        \* the position of the candidate it is at
    checks,       \* ScreeningApiCheckRepository._checks
    checksFile,   \* and its file
    verdict,      \* the regulations of the band
    listed,       \* the registrations at the station
    results,      \* the result files of the day: none or one of each band, its candidates
                  \* by their rank
    recomputed,   \* not in the program: that of the primary band is of a run with a date
    runs,
    answered,     \* not in the program: what the station has answered of each issue
    asked,        \* not in the program: how often it was asked
    lost,         \* not in the program: how often a run ended with an unsaved answer
    leaking       \* not in the program: a call about registrations failed, or the run died

screeningVars == <<stage, dated, level, place, checks, checksFile, verdict, listed, results,
                   recomputed, runs, answered, asked, lost, leaking>>

files == <<results, recomputed>>
ghosts == <<answered, asked, lost>>

Kind == {"market", "regulation"}
Market == {"prime", "local"}
Rule == {"free", "restricted"}

\* "failed" is kept like any other answer; "none" was not asked for.
Check == [market : Market \cup {"failed", "none"}, regulation : Rule \cup {"failed", "none"}]
NoCheck == [market |-> "none", regulation |-> "none"]

Level == DOMAIN Ranked
Alternate(l) == l > 1

ScreeningInit ==
    /\ stage = "idle"
    /\ dated = FALSE
    /\ level = 1
    /\ place = 1
    /\ checks = [i \in Issue |-> NoCheck]
    /\ checksFile = [i \in Issue |-> NoCheck]
    /\ verdict = [i \in Issue |-> "none"]
    /\ listed = {}
    /\ results = [l \in Level |-> {}]
    /\ recomputed = FALSE
    /\ runs = 0
    /\ answered = [i \in Issue |-> {}]
    /\ asked = [i \in Issue |-> [k \in Kind |-> 0]]
    /\ lost = [i \in Issue |-> 0]
    /\ leaking = FALSE

-----------------------------------------------------------------------------
(* The program *)

\* The calendar, the lock of the market programs and the token come before; a failure
\* to take all registrations back ends the run. A run with a date may be one of a later day.
StartScreening ==
    /\ stage = "idle"
    /\ runs < MaxRuns
    /\ runs' = runs + 1
    /\ dated' \in BOOLEAN
    /\ checks' = checksFile
    /\ lost' = [i \in Issue |-> lost[i] + (IF checks[i] # checksFile[i] THEN 1 ELSE 0)]
    /\ \E worked \in BOOLEAN :
          /\ stage' = IF worked THEN "ranking" ELSE "idle"
          /\ listed' = IF worked THEN {} ELSE listed
          /\ leaking' = ~worked
    /\ level' = 1
    /\ UNCHANGED <<place, checksFile, verdict, files, answered, asked>>

\* The exception of the primary band ends the run; after an alternate band its
\* registrations are taken back.
Abandon == stage' = IF Alternate(level) THEN "cleanup" ELSE "idle"

\* The ranking is empty.
NoRanking ==
    /\ stage = "ranking"
    /\ Abandon
    /\ UNCHANGED <<dated, level, place, checks, checksFile, verdict, listed, files, runs, ghosts, leaking>>

Rank ==
    /\ stage = "ranking"
    /\ place' = 1
    /\ verdict' = [i \in Issue |-> "none"]
    /\ stage' = IF Ranked[level] = <<>> THEN "select" ELSE "register"
    /\ UNCHANGED <<dated, level, checks, checksFile, listed, files, runs, ghosts, leaking>>

Min2(m, n) == IF m <= n THEN m ELSE n

\* The batch that begins at a place
Batch(p) == {Ranked[level][q] : q \in p..Min2(p + BATCH_SIZE - 1, Len(Ranked[level]))}
BatchEnds(p) == p = Len(Ranked[level]) \/ p % BATCH_SIZE = 0

\* batch_started. A call without an answer may have registered.
RegisterBatch ==
    /\ stage = "register"
    /\ listed' = listed \cup Batch(place)
    /\ stage' = "market"
    /\ UNCHANGED <<dated, level, place, checks, checksFile, verdict, files, runs, ghosts, leaking>>

RegisterFails ==
    /\ stage = "register"
    /\ \E arrived \in BOOLEAN : listed' = IF arrived THEN listed \cup Batch(place) ELSE listed
    /\ Abandon
    /\ leaking' = (leaking \/ ~Alternate(level))
    /\ UNCHANGED <<dated, level, place, checks, checksFile, verdict, files, runs, ghosts>>

-----------------------------------------------------------------------------
(* The checks of a candidate *)

\* A bug: what could not be confirmed is kept in every band.
UnconfirmedKept == "kept"

\* A candidate that could not be confirmed is excluded, but kept by an alternate band
\* (keep_unconfirmed).
Unconfirmed == IF Alternate(level) THEN "kept" ELSE "restricted"

\* exclude_by_regulation of a candidate that was confirmed
Confirmed(check) ==
    IF check.regulation = "restricted" THEN "restricted"
    ELSE IF check.market = "local" THEN "local"
    ELSE "free"

Conclude(outcome) ==
    /\ verdict' = [verdict EXCEPT ![Ranked[level][place]] = outcome]
    /\ place' = place + 1
    /\ stage' = IF BatchEnds(place) THEN "finish" ELSE "market"

\* A bug: an answer that failed is not kept.
RememberAnswer(i, kind, answer) ==
    /\ checks' = IF answer = "failed" THEN checks ELSE [checks EXCEPT ![i][kind] = answer]
    /\ asked' = [asked EXCEPT ![i][kind] = @ + 1]
    /\ answered' = [answered EXCEPT ![i] = @ \cup {answer}]
    /\ UNCHANGED lost

\* The answer is kept in memory before it is saved.
Remember(i, kind, answer) ==
    /\ checks' = [checks EXCEPT ![i][kind] = answer]
    /\ asked' = [asked EXCEPT ![i][kind] = @ + 1]
    /\ answered' = [answered EXCEPT ![i] = @ \cup {answer}]
    /\ UNCHANGED lost

\* get_primary_exchange: answered earlier
KnownMarket ==
    LET i == Ranked[level][place]
    IN  /\ stage = "market" /\ ~dated
        /\ checks[i].market # "none"
        /\ IF checks[i].market = "failed"
           THEN Conclude(Unconfirmed)
           ELSE stage' = "regulation" /\ UNCHANGED <<place, verdict>>
        /\ UNCHANGED <<dated, level, checks, checksFile, listed, files, runs, ghosts, leaking>>

\* get_primary_exchange: the station is asked. It may fail, and so may the saving: then
\* the candidate is not confirmed in this band, although the answer is remembered.
AskMarket ==
    LET i == Ranked[level][place]
    IN  /\ stage = "market" /\ ~dated
        /\ checks[i].market = "none"
        /\ \E answer \in Market \cup {"failed"}, written \in BOOLEAN :
              /\ Remember(i, "market", answer)
              /\ checksFile' = IF written THEN checks' ELSE checksFile
              /\ IF answer = "failed" \/ ~written
                 THEN Conclude(Unconfirmed)
                 ELSE stage' = "regulation" /\ UNCHANGED <<place, verdict>>
        /\ UNCHANGED <<dated, level, listed, files, runs, leaking>>

\* get_regulation
KnownRegulation ==
    LET i == Ranked[level][place]
    IN  /\ stage = "regulation"
        /\ checks[i].regulation # "none"
        /\ Conclude(IF checks[i].regulation = "failed" THEN Unconfirmed ELSE Confirmed(checks[i]))
        /\ UNCHANGED <<dated, level, checks, checksFile, listed, files, runs, ghosts, leaking>>

AskRegulation ==
    LET i == Ranked[level][place]
    IN  /\ stage = "regulation"
        /\ checks[i].regulation = "none"
        /\ \E answer \in Rule \cup {"failed"}, written \in BOOLEAN :
              /\ Remember(i, "regulation", answer)
              /\ checksFile' = IF written THEN checks' ELSE checksFile
              /\ Conclude(IF answer = "failed" \/ ~written THEN Unconfirmed ELSE Confirmed(checks'[i]))
        /\ UNCHANGED <<dated, level, listed, files, runs, leaking>>

\* A bug: what a run with a date learns is kept as an answer about this day.
JudgeDatedKept ==
    LET i == Ranked[level][place]
    IN  /\ stage = "market" /\ dated
        /\ \E market \in Market \cup {"failed"}, rule \in Rule \cup {"failed"} :
              /\ Conclude(IF "failed" \in {market, rule} THEN Unconfirmed
                          ELSE Confirmed([market |-> market, regulation |-> rule]))
              /\ checks' = [checks EXCEPT ![i] = [market |-> market, regulation |-> rule]]
              /\ checksFile' = checks'
        /\ UNCHANGED <<dated, level, listed, files, runs, ghosts, leaking>>

\* A run with a date: the station is asked for the market, the file for the regulation of that
\* day; one may be missing. Nothing is kept.
JudgeDated ==
    /\ stage = "market" /\ dated
    /\ \E market \in Market \cup {"failed"}, rule \in Rule \cup {"failed"} :
          Conclude(IF "failed" \in {market, rule} THEN Unconfirmed
                   ELSE Confirmed([market |-> market, regulation |-> rule]))
    /\ UNCHANGED <<dated, level, checks, checksFile, listed, files, runs, ghosts, leaking>>

-----------------------------------------------------------------------------
(* The end of a batch, of a band and of the run *)

\* A bug: the registrations of a batch stay.
FinishWithoutUnregister ==
    /\ stage = "finish"
    /\ stage' = IF place > Len(Ranked[level]) THEN "select" ELSE "register"
    /\ UNCHANGED <<dated, level, place, checks, checksFile, verdict, listed, files, runs, ghosts, leaking>>

\* batch_finished
FinishBatch ==
    /\ stage = "finish"
    /\ listed' = {}
    /\ stage' = IF place > Len(Ranked[level]) THEN "select" ELSE "register"
    /\ UNCHANGED <<dated, level, place, checks, checksFile, verdict, files, runs, ghosts, leaking>>

FinishFails ==
    /\ stage = "finish"
    /\ Abandon
    /\ leaking' = (leaking \/ ~Alternate(level))
    /\ UNCHANGED <<dated, level, place, checks, checksFile, verdict, listed, files, runs, ghosts>>

Passing == {k \in DOMAIN Ranked[level] : verdict[Ranked[level][k]] \in {"free", "kept"}}

\* exclude_by_regulation, limit_candidates: the first of those that pass
Selected == {k \in Passing : Cardinality(Passing \cap 1..k) <= MAX_COUNT}

\* After the last band
Continue == stage' = IF Alternate(level) THEN "cleanup" ELSE "following"

\* The result replaces that of the day, whichever run made it; a date may be that of another day.
SaveScreening ==
    /\ stage = "select"
    /\ \/ /\ results' = [results EXCEPT ![level] = {Selected}]
          /\ recomputed' = IF Alternate(level) THEN recomputed ELSE dated
       \/ dated /\ UNCHANGED files
    /\ Continue
    /\ UNCHANGED <<dated, level, place, checks, checksFile, verdict, listed, runs, ghosts, leaking>>

SavingFails ==
    /\ stage = "select"
    /\ Abandon
    /\ UNCHANGED <<dated, level, place, checks, checksFile, verdict, listed, files, runs, ghosts, leaking>>

\* After an alternate band, whatever happened in it. A failure is logged.
Cleanup ==
    /\ stage = "cleanup"
    /\ \E worked \in BOOLEAN :
          /\ listed' = IF worked THEN {} ELSE listed
          /\ leaking' = ~worked
    /\ stage' = "following"
    /\ UNCHANGED <<dated, level, place, checks, checksFile, verdict, files, runs, ghosts>>

\* The alternate bands are those of a run without a date.
Follows == level < Len(Ranked) /\ ~dated

NextLevel ==
    /\ stage = "following"
    /\ level' = IF Follows THEN level + 1 ELSE level
    /\ stage' = IF Follows THEN "ranking" ELSE "idle"
    /\ UNCHANGED <<dated, place, checks, checksFile, verdict, listed, files, runs, ghosts, leaking>>

\* The process dies; the registrations stay until a later run takes them back.
ScreeningDies ==
    /\ stage # "idle"
    /\ stage' = "idle"
    /\ leaking' = TRUE
    /\ UNCHANGED <<dated, level, place, checks, checksFile, verdict, listed, files, runs, ghosts>>

ScreeningNext ==
    \/ StartScreening \/ NoRanking \/ Rank \/ RegisterBatch \/ RegisterFails
    \/ KnownMarket \/ AskMarket \/ KnownRegulation \/ AskRegulation \/ JudgeDated
    \/ FinishBatch \/ FinishFails \/ SaveScreening \/ SavingFails
    \/ Cleanup \/ NextLevel \/ ScreeningDies

ScreeningSpec == ScreeningInit /\ [][ScreeningNext]_screeningVars

-----------------------------------------------------------------------------
(* Properties *)

ScreeningTypeOK ==
    /\ stage \in {"idle", "ranking", "register", "market", "regulation", "finish", "select",
                  "cleanup", "following"}
    /\ {dated, recomputed} \subseteq BOOLEAN
    /\ level \in Level
    /\ place \in Nat
    /\ {checks, checksFile} \subseteq [Issue -> Check]
    /\ verdict \in [Issue -> {"none", "free", "restricted", "local", "kept"}]
    /\ listed \subseteq Issue
    /\ \A l \in Level : results[l] \subseteq SUBSET DOMAIN Ranked[l] /\ Cardinality(results[l]) <= 1
    /\ runs \in 0..MaxRuns
    /\ leaking \in BOOLEAN

Saved(l) == UNION {{Ranked[l][k] : k \in result} : result \in results[l]}

\* A candidate of the band that is traded was confirmed by the station on this day as
\* unrestricted and not of a local exchange, whatever failed, died or was run again, with a date
\* or without one - unless the result in the file is that of a run with a date, which asked the
\* station for no regulation.
ConfirmedOnly == ~recomputed => \A i \in Saved(1) : {"prime", "free"} \subseteq answered[i]

\* An alternate band leaves a candidate out only for an answer of the station, or
\* for the number of candidates.
UnconfirmedStays ==
    \A l \in Level : Alternate(l) /\ (\E result \in results[l] : Cardinality(result) < MAX_COUNT) =>
        \A k \in DOMAIN Ranked[l] :
            Ranked[l][k] \in Saved(l) \/ answered[Ranked[l][k]] \cap {"local", "restricted"} # {}

\* The station is asked for a check once in a day, unless the answer was lost; a run with a
\* date, which keeps no answer, asks on its own and changes nothing of this.
AskedOnce == \A i \in Issue, k \in Kind : asked[i][k] <= 1 + lost[i]

\* One batch is registered at most, and nothing stays registered.
RegistrationsBounded ==
    ~leaking => /\ Cardinality(listed) <= BATCH_SIZE
                /\ stage \in {"idle", "ranking", "select", "following"} => listed = {}

ScreeningSound == ConfirmedOnly /\ UnconfirmedStays /\ AskedOnce /\ RegistrationsBounded
=============================================================================
