----------------------------- MODULE MinuteBackfill -----------------------------
(* The weekly backfill of minute bars: the symbols of the recent selections come    *)
(* in three tiers, the morning's, those adopted at noon and the other candidates of  *)
(* noon; each is fetched in its turn, the last tier only as long as its time lasts,  *)
(* and a quality report tells what came of every symbol and day. What is stored of a *)
(* fetch is the business of MinuteBars.                                            *)
EXTENDS Integers, FiniteSets, Sequences, FiniteSetsExt, SequencesExt

CONSTANTS
    BackfillSymbol,
    BACKFILL_DAYS, LastBackfillDay,
    UNSELECTED_TIMEOUT,     \* of the last tier, one unit a fetch
    RecentFiles             \* [morning: day -> symbols, noon: day -> diagnosis]

ASSUME BackfillAssumption ==
    /\ IsFiniteSet(BackfillSymbol) /\ {BACKFILL_DAYS, LastBackfillDay, UNSELECTED_TIMEOUT} \subseteq Nat
    /\ \A files \in RecentFiles, d \in 1..LastBackfillDay :
           files.morning[d] \cup files.noon[d].adopted \cup files.noon[d].marked \cup files.noon[d].candidates
               \subseteq BackfillSymbol

VARIABLES
    recent,         \* the files at hand
    tier, unfetched,  \* tier being fetched and what is left of it
    spent,          \* time in this tier
    received,       \* <<symbol, day>> with bars in this run
    fetchFailures, unprocessed,
    tried,          \* what each attempt came to (ghost)
    quality         \* lines of the quality report: <<symbol, day>> -> status

backfillVars == <<recent, tier, unfetched, spent, received, fetchFailures, unprocessed, tried, quality>>

BackfillDay == 1..LastBackfillDay
Window == {d \in BackfillDay : d >= LastBackfillDay - BACKFILL_DAYS}

\* Symbols a diagnosis adopted: as its summary says, else as the candidates are marked; a
\* diagnosis that cannot be read names nobody.
Adopted(file) == CASE file.form = "unreadable" -> {}
                   [] file.form = "summary" -> file.adopted
                   [] OTHER -> file.marked
CandidatesOf(file) == IF file.form = "unreadable" THEN {} ELSE file.candidates

InMorning == UNION {recent.morning[d] : d \in Window}
AdoptedAtNoon == UNION {Adopted(recent.noon[d]) : d \in Window}
SeenAtNoon == UNION {CandidatesOf(recent.noon[d]) : d \in Window}

\* Mutant: an adopted symbol is also one of the other candidates.
TierWithAdopted(t) == CASE t = 1 -> InMorning
                        [] t = 2 -> AdoptedAtNoon \ InMorning
                        [] t = 3 -> SeenAtNoon \ InMorning
                        [] OTHER -> {}

Tier(t) == CASE t = 1 -> InMorning
             [] t = 2 -> AdoptedAtNoon \ InMorning
             [] t = 3 -> (SeenAtNoon \ InMorning) \ AdoptedAtNoon
             [] OTHER -> {}

Expected == {sd \in BackfillSymbol \X Window :
                LET noon == recent.noon[sd[2]]
                IN  sd[1] \in recent.morning[sd[2]] \cup Adopted(noon) \cup CandidatesOf(noon)}

\* Mutant: the time of the adopted symbols is limited too.
TierTimeUpSoon == tier \in {2, 3} /\ spent >= UNSELECTED_TIMEOUT

TierTimeUp == tier = 3 /\ spent >= UNSELECTED_TIMEOUT

\* Mutant: a symbol that was not reached looks like one without bars.
QualityOfReached(sd) ==
    IF sd \in received THEN "received"
    ELSE IF sd[1] \in DOMAIN fetchFailures THEN fetchFailures[sd[1]] ELSE "NO_BARS"

QualityOf(sd) ==
    IF sd[1] \in unprocessed THEN "NOT_ATTEMPTED_TIMEOUT"
    ELSE IF sd \in received THEN "received"
    ELSE IF sd[1] \in DOMAIN fetchFailures THEN fetchFailures[sd[1]] ELSE "NO_BARS"

-----------------------------------------------------------------------------

NoLines == [sd \in {} |-> "received"]

BackfillInit ==
    /\ recent \in RecentFiles
    /\ tier = 0 /\ unfetched = <<>> /\ spent = 0
    /\ received = {} /\ fetchFailures = [s \in {} |-> "NO_BARS"] /\ unprocessed = {}
    /\ tried = [s \in {} |-> [raised |-> FALSE, days |-> {}]] /\ quality = NoLines

\* Without a symbol in the window nothing is done; an empty tier is passed over.
StartBackfill ==
    /\ tier = 0 /\ Tier(1) \cup Tier(2) \cup Tier(3) # {}
    /\ tier' = 1 /\ unfetched' = SetToSeq(Tier(1))
    /\ UNCHANGED <<recent, spent, received, fetchFailures, unprocessed, tried, quality>>

NextTier ==
    /\ tier \in 1..3 /\ unfetched = <<>>
    /\ tier' = tier + 1 /\ unfetched' = SetToSeq(Tier(tier + 1)) /\ spent' = 0
    /\ UNCHANGED <<recent, received, fetchFailures, unprocessed, tried, quality>>

CutTier ==
    /\ unfetched # <<>> /\ TierTimeUp
    /\ unprocessed' = Range(unfetched)
    /\ unfetched' = <<>>
    /\ UNCHANGED <<recent, tier, spent, received, fetchFailures, tried, quality>>

\* One symbol: the bars of some days, none, or an error; the next one follows in any case.
FetchSymbol(came, raises, takes) ==
    LET s == Head(unfetched)
        said == IF raises THEN "FETCH_ERROR" ELSE "NO_BARS"
    IN  /\ unfetched # <<>> /\ ~TierTimeUp
        /\ raises => came = {}
        /\ received' = received \cup ({s} \X came)
        /\ fetchFailures' = IF came # {} THEN fetchFailures ELSE [u \in DOMAIN fetchFailures \cup {s} |->
                           IF u = s THEN said ELSE fetchFailures[u]]
        /\ tried' = [u \in DOMAIN tried \cup {s} |->
                        IF u = s THEN [raised |-> raises, days |-> came] ELSE tried[u]]
        /\ spent' = spent + takes
        /\ unfetched' = Tail(unfetched)
        /\ UNCHANGED <<recent, tier, unprocessed, quality>>

\* Bars that cannot be stored end the run, without a report.
StoringFails ==
    /\ unfetched # <<>> /\ ~TierTimeUp
    /\ tier' = 9 /\ unfetched' = <<>>
    /\ UNCHANGED <<recent, spent, received, fetchFailures, unprocessed, tried, quality>>

WriteQuality ==
    /\ tier = 4
    /\ quality' = [sd \in Expected \cup received |-> QualityOf(sd)]
    /\ tier' = 5
    /\ UNCHANGED <<recent, unfetched, spent, received, fetchFailures, unprocessed, tried>>

BackfillNext ==
    \/ StartBackfill \/ NextTier \/ CutTier \/ StoringFails \/ WriteQuality
    \/ \E came \in SUBSET Window, raises \in BOOLEAN, takes \in 0..1 : FetchSymbol(came, raises, takes)

BackfillSpec == BackfillInit /\ [][BackfillNext]_backfillVars

-----------------------------------------------------------------------------
(* Properties *)

BackfillTypeOK ==
    /\ recent \in RecentFiles /\ tier \in (0..5) \cup {9}
    /\ Range(unfetched) \subseteq BackfillSymbol /\ unprocessed \subseteq BackfillSymbol
    /\ received \subseteq BackfillSymbol \X Window
    /\ Range(fetchFailures) \subseteq {"NO_BARS", "FETCH_ERROR"} /\ spent \in 0..Cardinality(BackfillSymbol)

\* Every symbol of the recent files belongs to one tier, and when time is scarce it is the symbols
\* nobody chose that go without: no other is ever left out, and none of them is tried before those.
ChosenComeFirst ==
    /\ \A s \in InMorning \cup AdoptedAtNoon \cup SeenAtNoon :
           Cardinality({t \in 1..3 : s \in Tier(t)}) = 1
    /\ unprocessed \cap (InMorning \cup AdoptedAtNoon) = {}
    /\ (\E s \in DOMAIN tried : s \notin InMorning \cup AdoptedAtNoon) =>
           InMorning \cup AdoptedAtNoon \subseteq DOMAIN tried

\* The quality report has a line for each expected symbol and day, and tells what happened: a day
\* that was received, a fetch that failed, one without bars of that day, or none for want of time.
QualityTold ==
    tier = 5 =>
        /\ Expected \subseteq DOMAIN quality
        /\ \A sd \in DOMAIN quality :
               quality[sd] = IF sd[1] \notin DOMAIN tried THEN "NOT_ATTEMPTED_TIMEOUT"
                             ELSE IF tried[sd[1]].raised THEN "FETCH_ERROR"
                             ELSE IF sd[2] \in tried[sd[1]].days THEN "received"
                             ELSE "NO_BARS"

\* The two together.
BackfillSound == ChosenComeFirst /\ QualityTold
=============================================================================
