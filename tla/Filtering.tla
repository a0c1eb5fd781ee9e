------------------------------- MODULE Filtering -------------------------------
(* The filtering of a morning (application/filtering_usecase.py under           *)
(* application/price_band_filtering_usecase.py): for each price band, boards are *)
(* read ahead, candidates are decided one after the other, candidates whose      *)
(* turnover is missing are read again in rounds until a cutoff, and the result    *)
(* is saved if the deadline of the bands has not passed. The first band is the    *)
(* one that is traded, and has no deadline.                                     *)
(*                                                                             *)
(* A board is known by what the code tells apart. The cache is that of           *)
(* BoardCache, seen by the one thread that waits for the workers' answers.      *)
EXTENDS Naturals, Sequences, FiniteSets

CONSTANTS
    Candidate,
    Screened,     \* the screening result of each band, in its order
    MAX_ROUNDS    \* FILTER_BOARD_RETRY_MAX_ROUNDS

ASSUME FilteringAssumption ==
    /\ MAX_ROUNDS \in Nat
    /\ Screened \in Seq(Seq(Candidate))
    /\ Len(Screened) > 0
    /\ \A b \in DOMAIN Screened : \A i, j \in DOMAIN Screened[b] :
          Screened[b][i] = Screened[b][j] => i = j

VARIABLES
    clock,        \* see Hour
    step,         \* where the run is
    band,         \* the band it is at
    board,        \* RegistrationAwareBoardCache: what is cached of a candidate
    rounds,       \* its answers by round
    blocked,      \* it refuses to fetch
    registered,   \* the kabu Station has registrations of this run
    prefetched,
    next,         \* the position of the loop over the candidates
    status,       \* of the records of the diagnostics
    scored,       \* how often a candidate was scored in a band
    skips,        \* how often it was counted as skipped
    round,        \* of the retry
    cutoff,       \* stopped_by_cutoff, by band
    broken,       \* bands whose retry met an exception
    wasted,       \* not in the program: candidates skipped although their turnover was read
    saved         \* bands whose result is saved

filteringVars == <<clock, step, band, board, rounds, blocked, registered, prefetched, next,
                   status, scored, skips, round, cutoff, broken, wasted, saved>>

cacheVars == <<board, rounds, blocked, registered>>
recordVars == <<status, scored, skips>>
retryVars == <<round, cutoff, broken, wasted>>

\* 0: a round of the retry ends before the cutoff; 1: it would not; 2: after the
\* cutoff; 3: after the deadline of the bands.
Hour == 0..3

\* full: the turnover is known, or price and volume are; noPrice: volume only.
Answer == {"full", "noPrice", "noTurnover", "empty", "error"}

Band == 1..Len(Screened)
Of(b) == {Screened[b][i] : i \in DOMAIN Screened[b]}

\* FilteringDeadlineExceeded is possible in the alternate bands only.
DeadlinePassed(b) == b > 1 /\ clock = 3

FilteringInit ==
    /\ clock \in Hour
    /\ step = "prefetch"
    /\ band = 1
    /\ board = [c \in Candidate |-> "unknown"]
    /\ rounds = [c \in Candidate |-> [r \in 1..MAX_ROUNDS |-> "unknown"]]
    /\ blocked = FALSE
    /\ registered = FALSE
    /\ prefetched = {}
    /\ next = 1
    /\ status = [b \in Band |-> [c \in Of(b) |-> "none"]]
    /\ scored = [b \in Band |-> [c \in Of(b) |-> 0]]
    /\ skips = [b \in Band |-> [c \in Of(b) |-> 0]]
    /\ round = 0
    /\ cutoff = {}
    /\ broken = {}
    /\ wasted = {}
    /\ saved = {}

-----------------------------------------------------------------------------
(* Deciding *)

Decide(c, outcome) ==
    /\ status' = [status EXCEPT ![band][c] = outcome]
    /\ scored' = [scored EXCEPT ![band][c] = IF outcome = "evaluated" THEN @ + 1 ELSE @]
    /\ skips' = [skips EXCEPT ![band][c] = IF outcome = "skipped" THEN @ + 1 ELSE @]

\* The retry begins with the records that the loop has put aside.
Pending == {c \in Of(band) : status[band][c] = "pending"}

-----------------------------------------------------------------------------
(* PriceBandFilteringUseCase.run: prefetch_band *)

\* The workers read what no earlier band has read. A candidate is not started once
\* the deadline has passed (should_start), and refused once a clearing has failed.
Prefetch ==
    LET wanted == Of(band) \ prefetched
    IN  /\ step = "prefetch"
        /\ \E hour \in {h \in Hour : h >= clock}, notStarted \in SUBSET wanted, refused \in SUBSET wanted,
              answer \in [wanted -> Answer] :
              /\ notStarted \cap refused = {}
              /\ notStarted # {} => band > 1 /\ hour = 3
              /\ DeadlinePassed(band) => notStarted = wanted
              /\ blocked => refused = wanted \ notStarted
              /\ LET read == wanted \ (notStarted \cup refused)
                 IN  /\ board' = [c \in Candidate |-> IF c \in read THEN answer[c] ELSE board[c]]
                     /\ registered' = (registered \/ read # {})
              /\ blocked' = (blocked \/ refused # {})
              /\ prefetched' = prefetched \cup (wanted \ notStarted)
              /\ clock' = hour
        /\ step' = "scan"
        /\ next' = 1
        /\ UNCHANGED <<band, rounds, recordVars, retryVars, saved>>

-----------------------------------------------------------------------------
(* FilteringUseCase.execute: the loop over the candidates *)

\* A bug: a record whose turnover is missing is put aside and counted at once.
TurnoverMissingCounted(c) ==
    /\ status' = [status EXCEPT ![band][c] = "pending"]
    /\ skips' = [skips EXCEPT ![band][c] = @ + 1]
    /\ UNCHANGED scored

\* The record is put aside: it is not counted before the retry.
TurnoverMissing(c) ==
    /\ status' = [status EXCEPT ![band][c] = "pending"]
    /\ UNCHANGED <<scored, skips>>

\* What a board leads to before its average is asked for.
Look(c, answer) ==
    CASE answer = "full" -> step' = "average" /\ UNCHANGED <<recordVars, next>>
      [] answer = "noTurnover" -> TurnoverMissing(c) /\ next' = next + 1 /\ step' = "scan"
      [] OTHER -> Decide(c, "skipped") /\ next' = next + 1 /\ step' = "scan"

\* get_current_board: from the cache, or else from the station.
ReadBoard ==
    LET c == Screened[band][next]
    IN  /\ step = "scan"
        /\ next <= Len(Screened[band])
        /\ ~DeadlinePassed(band)
        /\ \/ /\ board[c] # "unknown"
              /\ Look(c, board[c])
              /\ UNCHANGED cacheVars
           \/ /\ board[c] = "unknown" /\ ~blocked
              /\ \E answer \in Answer : /\ Look(c, answer)
                                        /\ board' = [board EXCEPT ![c] = answer]
              /\ registered' = TRUE
              /\ UNCHANGED <<rounds, blocked>>
           \/ /\ board[c] = "unknown"
              /\ Look(c, "error")
              /\ blocked' = TRUE
              /\ UNCHANGED <<board, rounds, registered>>
        /\ UNCHANGED <<clock, band, prefetched, retryVars, saved>>

\* The average turnover is asked for, unless the deadline has passed meanwhile. It
\* may be missing, not positive, or raise.
AskAverage ==
    LET c == Screened[band][next]
    IN  /\ step = "average"
        /\ IF DeadlinePassed(band)
           THEN Decide(c, "partial") /\ step' = "timedOut"
           ELSE /\ \E outcome \in {"evaluated", "skipped"} : Decide(c, outcome)
                /\ step' = "scan"
        /\ next' = next + 1
        /\ UNCHANGED <<clock, band, cacheVars, prefetched, retryVars, saved>>

\* The time is looked at before each candidate, and after one that was scored.
TimeIsUp ==
    /\ DeadlinePassed(band)
    /\ \/ next <= Len(Screened[band])
       \/ next > 1 /\ status[band][Screened[band][next - 1]] = "evaluated"

\* The loop ends with the list, or when the time is up.
EndScan ==
    /\ step = "scan"
    /\ \/ next > Len(Screened[band]) /\ step' = IF Pending = {} THEN "result" ELSE "retry"
       \/ TimeIsUp /\ step' = "timedOut"
    /\ round' = 1
    /\ UNCHANGED <<clock, band, cacheVars, prefetched, next, recordVars, cutoff, broken, wasted, saved>>

-----------------------------------------------------------------------------
(* run_board_retry *)

\* The round ends before the cutoff if it is begun now.
RoundFits == clock = 0

\* What a refetch answers in this round: what is remembered of the round, an answer
\* of the station, nothing once the cutoff has come, or the error of a failed
\* clearing.
Refetched(c, hour) ==
    IF rounds[c][round] # "unknown"
    THEN {rounds[c][round]}
    ELSE (IF blocked THEN {} ELSE Answer) \cup {"refused"} \cup (IF hour >= 2 THEN {"notStarted"} ELSE {})

\* Before the first candidate that was not started: the answers after it are not
\* looked at.
Reached(c, answer) ==
    \A i \in DOMAIN Screened[band] :
        /\ Screened[band][i] \in Pending
        /\ \E j \in DOMAIN Screened[band] : i <= j /\ Screened[band][j] = c
        => answer[Screened[band][i]] # "notStarted"

\* A bug: the answers of the last round are not looked at.
RecoveredBeforeLast(answer) ==
    {c \in Pending : Reached(c, answer) /\ answer[c] = "full" /\ round < MAX_ROUNDS}

\* Those whose turnover is known now
Recovered(answer) == {c \in Pending : Reached(c, answer) /\ answer[c] = "full"}

\* One round: the wait, the refetches of the workers, and the attempts in order.
RetryRound ==
    /\ step = "retry"
    /\ round <= MAX_ROUNDS /\ Pending # {} /\ band \notin cutoff
    /\ RoundFits
    /\ \E hour \in {h \in Hour : h >= clock} :
       \E answer \in [Pending -> Answer \cup {"refused", "notStarted"}], unusable \in SUBSET Pending :
          /\ \A c \in Pending : answer[c] \in Refetched(c, hour)
          /\ LET fetched == {c \in Pending : answer[c] \in Answer}
                 fresh == {c \in fetched : rounds[c][round] = "unknown"}
                 recovered == Recovered(answer)
             IN  /\ unusable \subseteq recovered
                 /\ rounds' = [c \in Candidate |-> IF c \in fresh
                                                  THEN [rounds[c] EXCEPT ![round] = answer[c]]
                                                  ELSE rounds[c]]
                 /\ board' = [c \in Candidate |-> IF c \in fresh /\ answer[c] \notin {"empty", "error"}
                                                 THEN answer[c] ELSE board[c]]
                 /\ registered' = (registered \/ fresh # {})
                 /\ blocked' = (blocked \/ \E c \in Pending : answer[c] = "refused")
                 /\ status' = [status EXCEPT ![band] = [c \in Of(band) |->
                                  IF c \in unusable THEN "skipped"
                                  ELSE IF c \in recovered THEN "evaluated" ELSE @[c]]]
                 /\ scored' = [scored EXCEPT ![band] = [c \in Of(band) |->
                                  IF c \in recovered \ unusable THEN @[c] + 1 ELSE @[c]]]
                 /\ skips' = [skips EXCEPT ![band] = [c \in Of(band) |->
                                  IF c \in unusable THEN @[c] + 1 ELSE @[c]]]
                 /\ cutoff' = IF \E c \in Pending : answer[c] = "notStarted"
                              THEN cutoff \cup {band} ELSE cutoff
                 /\ broken' = IF \E c \in Pending : answer[c] = "refused"
                              THEN broken \cup {band} ELSE broken
          /\ clock' = hour
    /\ round' = round + 1
    /\ UNCHANGED <<step, band, prefetched, next, wasted, saved>>

\* An exception ends the retry, and the candidates that are left are missing.
RetryBreaks ==
    /\ step = "retry"
    /\ round <= MAX_ROUNDS /\ Pending # {} /\ band \notin cutoff
    /\ RoundFits
    /\ round' = MAX_ROUNDS + 1
    /\ broken' = broken \cup {band}
    /\ UNCHANGED <<clock, step, band, cacheVars, prefetched, next, recordVars, cutoff, wasted, saved>>

\* finalize_missing, for all that are left
EndRetry ==
    /\ step = "retry"
    /\ round > MAX_ROUNDS \/ Pending = {} \/ band \in cutoff \/ ~RoundFits
    /\ cutoff' = IF round <= MAX_ROUNDS /\ Pending # {} THEN cutoff \cup {band} ELSE cutoff
    /\ wasted' = wasted \cup {<<band, c>> : c \in {c \in Pending : board[c] = "full"}}
    /\ status' = [status EXCEPT ![band] = [c \in Of(band) |-> IF c \in Pending THEN "skipped" ELSE @[c]]]
    /\ skips' = [skips EXCEPT ![band] = [c \in Of(band) |-> IF c \in Pending THEN @[c] + 1 ELSE @[c]]]
    /\ step' = "result"
    /\ UNCHANGED <<clock, band, cacheVars, prefetched, next, scored, round, broken, saved>>

-----------------------------------------------------------------------------
(* The result *)

\* The next band, or the end of the run. The registrations of the first band are
\* taken back before the others begin, which do not if that fails.
Onward == step' = IF band = 1 THEN "clear" ELSE IF band < Len(Screened) THEN "prefetch" ELSE "release"
Forward == band' = IF band = 1 \/ band = Len(Screened) THEN band ELSE band + 1

SaveResult ==
    /\ step = "result"
    /\ ~DeadlinePassed(band)
    /\ saved' = saved \cup {band}
    /\ Onward /\ Forward
    /\ UNCHANGED <<clock, cacheVars, prefetched, next, recordVars, retryVars>>

\* The exception of the first band ends the run, that of another one is logged.
SaveFails ==
    /\ step = "result"
    /\ ~DeadlinePassed(band)
    /\ IF band = 1 THEN step' = "rescue" /\ UNCHANGED band ELSE Onward /\ Forward
    /\ UNCHANGED <<clock, cacheVars, prefetched, next, recordVars, retryVars, saved>>

\* FilteringDeadlineExceeded: the diagnostics say what was not decided.
TimeOut ==
    /\ step = "timedOut" \/ (step = "result" /\ DeadlinePassed(band))
    /\ status' = [status EXCEPT ![band] = [c \in Of(band) |->
                     CASE @[c] = "none" -> "not_evaluated"
                       [] @[c] = "pending" -> "skipped"
                       [] OTHER -> @[c]]]
    /\ Onward /\ Forward
    /\ UNCHANGED <<clock, cacheVars, prefetched, next, scored, skips, retryVars, saved>>

\* clear_registrations, which waits for the workers
ClearBands(cleared) ==
    /\ blocked' = ~cleared
    /\ registered' = (registered /\ ~cleared)
    /\ UNCHANGED <<board, rounds>>

ClearAfterFirst ==
    /\ step = "clear"
    /\ \E cleared \in BOOLEAN :
          /\ ClearBands(cleared)
          /\ step' = IF ~cleared THEN "release"
                     ELSE IF Len(Screened) = 1 THEN "done" ELSE "prefetch"
          /\ band' = IF cleared /\ Len(Screened) > 1 THEN 2 ELSE band
    /\ UNCHANGED <<clock, prefetched, next, recordVars, retryVars, saved>>

Release ==
    /\ step \in {"release", "rescue"}
    /\ \E cleared \in BOOLEAN : ClearBands(cleared)
    /\ step' = IF step = "release" THEN "done" ELSE "failed"
    /\ UNCHANGED <<clock, band, prefetched, next, recordVars, retryVars, saved>>

TimeGoesOn ==
    /\ clock < 3
    /\ clock' = clock + 1
    /\ UNCHANGED <<step, band, cacheVars, prefetched, next, recordVars, retryVars, saved>>

FilteringStep ==
    \/ Prefetch \/ ReadBoard \/ AskAverage \/ EndScan
    \/ RetryRound \/ RetryBreaks \/ EndRetry
    \/ SaveResult \/ SaveFails \/ TimeOut \/ ClearAfterFirst \/ Release

FilteringNext == FilteringStep \/ TimeGoesOn

FilteringSpec == FilteringInit /\ [][FilteringNext]_filteringVars /\ WF_filteringVars(FilteringStep)

-----------------------------------------------------------------------------
(* Properties *)

Finished == step \in {"done", "failed"}

FilteringTypeOK ==
    /\ clock \in Hour
    /\ step \in {"prefetch", "scan", "average", "retry", "timedOut", "result", "clear",
                 "release", "rescue", "done", "failed"}
    /\ band \in Band
    /\ board \in [Candidate -> Answer \cup {"unknown"}]
    /\ rounds \in [Candidate -> [1..MAX_ROUNDS -> Answer \cup {"unknown"}]]
    /\ {blocked, registered} \subseteq BOOLEAN
    /\ prefetched \subseteq Candidate
    /\ next \in 1..(Len(Screened[band]) + 1) \/ step \in {"prefetch", "release"}
    /\ \A b \in Band : status[b] \in [Of(b) -> {"none", "pending", "evaluated", "skipped",
                                                "partial", "not_evaluated"}]
    /\ round \in 0..(MAX_ROUNDS + 1)
    /\ cutoff \cup broken \cup saved \subseteq Band

\* A candidate is scored or counted as skipped once, never both, whatever rounds its
\* board went through; in a band whose result was saved each one was.
DecidedOnce ==
    \A b \in Band, c \in Candidate : c \in Of(b) =>
        /\ scored[b][c] + skips[b][c] <= 1
        /\ b \in saved => /\ scored[b][c] + skips[b][c] = 1
                          /\ status[b][c] = IF scored[b][c] = 1 THEN "evaluated" ELSE "skipped"

\* A turnover that was read in time is used: only a cutoff (whose answers out of turn
\* are dropped) or an exception leaves a candidate out whose turnover is known.
AnswersUsed == \A w \in wasted : w[1] \in cutoff \cup broken

\* Without a cutoff or an exception, a candidate without turnover was tried in every
\* round, by this band or by an earlier one.
RoundsUsedUp ==
    \A b \in saved \ (cutoff \cup broken) : \A c \in Of(b) :
        /\ status[b][c] = "skipped" /\ board[c] = "noTurnover" /\ b = band
        => \A r \in 1..MAX_ROUNDS : rounds[c][r] # "unknown"

\* The band that is traded is saved before any other is begun, and no later band
\* can take its result back.
TradedBandFirst == band > 1 => 1 \in saved

\* A run leaves no registration behind, unless the last clearing failed.
Released == Finished => ~registered \/ blocked

FilteringSound == DecidedOnce /\ AnswersUsed /\ RoundsUsedUp /\ TradedBandFirst /\ Released

\* The filtering ends, however the boards answer.
FilteringEnds == <>Finished
=============================================================================
