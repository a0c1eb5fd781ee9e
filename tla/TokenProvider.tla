---------------------------- MODULE TokenProvider ----------------------------
(* The shared token of the kabu Station API: the provider that renews it after  *)
(* a 401 and the threads whose requests get one                                *)
(* (infrastructure/kabu/token_provider.py, api/request_handler.py).             *)
(*                                                                             *)
(* The station accepts one token, the one it issued last. A token is therefore  *)
(* known by its validity alone: "none", "valid" or "stale", and every issue     *)
(* makes all the others stale. Every caller puts the token it was given at the  *)
(* start of the process in the header of its first attempt; only the retry      *)
(* carries the token of the provider.                                          *)
EXTENDS Naturals, FiniteSets

CONSTANTS
    Thread,           \* threads that send requests (workers of the board cache)
    none,             \* nobody holds the lock
    MIN_INTERVAL,     \* KABU_TOKEN_REFRESH_MIN_INTERVAL_SECONDS, in ticks
    FAILURE_BACKOFF,  \* KABU_TOKEN_REFRESH_FAILURE_BACKOFF_SECONDS, in ticks
    MAX_429_RETRIES,  \* FILTER_BOARD_429_MAX_RETRIES
    MaxDisturbances   \* bound: tokens other processes take, and calls that fail

ASSUME ConstantsAssumption ==
    /\ none \notin Thread
    /\ {MIN_INTERVAL, FAILURE_BACKOFF, MAX_429_RETRIES, MaxDisturbances} \subseteq Nat

VARIABLES
    startToken,      \* the token the callers carry since the start of the process
    token,           \* _token
    sinceAttempt,    \* time since _last_attempt_at, MIN_INTERVAL when that or more
    cooldown,        \* time until _cooldown_until, 0 when it has passed
    recoveryFailed,  \* _recovery_failed
    lock,            \* the thread that holds _lock over a network call
    pc,              \* where the request of a thread is
    carried,         \* new_token: what the retry of the request carries
    resends,         \* retry_count: 429 answers to the present attempt
    disturbances,    \* how often the world interfered
    quiet,           \* history: time since this process last called /token
    sinceFailure,    \* history: time since a recovery last failed
    newest           \* history: "ours" if the token issued last was issued to this
                     \* process and its answer not lost, else "gone"

provider == <<token, sinceAttempt, cooldown, recoveryFailed, lock>>
history  == <<quiet, sinceFailure, newest>>
vars == <<startToken, provider, pc, carried, resends, disturbances, history>>

Validity == {"none", "valid", "stale"}
Place == {"idle", "first", "unauthorized", "fetching", "issued",
          "retry", "accepted", "rejected"}

\* What becomes of a token when the station issues another one.
Superseded(tok) == IF tok = "valid" THEN "stale" ELSE tok

Goto(t, place) == pc' = [pc EXCEPT ![t] = place]

Init ==
    /\ startToken = "valid"
    /\ token = "none"
    /\ sinceAttempt = MIN_INTERVAL
    /\ cooldown = 0
    /\ recoveryFailed = FALSE
    /\ lock = none
    /\ pc = [t \in Thread |-> "idle"]
    /\ carried = [t \in Thread |-> "none"]
    /\ resends = [t \in Thread |-> 0]
    /\ disturbances = 0
    /\ quiet = MIN_INTERVAL
    /\ sinceFailure = FAILURE_BACKOFF
    /\ newest = "ours"

-----------------------------------------------------------------------------
(* A request and its answers. *)

\* A thread sends a request with the token its caller was given.
Send(t) ==
    /\ pc[t] = "idle"
    /\ Goto(t, "first")
    /\ resends' = [resends EXCEPT ![t] = 0]
    /\ UNCHANGED <<startToken, provider, carried, disturbances, history>>

\* The station answers 429 to a board request, which is sent again.
RateLimited(t) ==
    /\ pc[t] \in {"first", "retry"}
    /\ resends[t] < MAX_429_RETRIES
    /\ resends' = [resends EXCEPT ![t] = @ + 1]
    /\ UNCHANGED <<startToken, provider, pc, carried, disturbances, history>>

\* The first attempt is answered.
Answered(t) ==
    /\ pc[t] = "first"
    /\ startToken = "valid"
    /\ Goto(t, "idle")
    /\ UNCHANGED <<startToken, provider, carried, resends, disturbances, history>>

\* The first attempt is answered 401.
Unauthorized(t) ==
    /\ pc[t] = "first"
    /\ startToken = "stale"
    /\ Goto(t, "unauthorized")
    /\ UNCHANGED <<startToken, provider, carried, resends, disturbances, history>>

\* An attempt ends in an error other than 401: no answer, another status, the
\* last 429 that is allowed. A retry reports nothing then.
RequestFails(t) ==
    /\ pc[t] \in {"first", "retry"}
    /\ disturbances < MaxDisturbances
    /\ disturbances' = disturbances + 1
    /\ Goto(t, "idle")
    /\ UNCHANGED <<startToken, provider, carried, resends, history>>

-----------------------------------------------------------------------------
(* recover_from_unauthorized: the three branches, in the order of the code. *)

\* A bug: the cooldown is ignored.
NeverCoolingDown == FALSE

CoolingDown == cooldown > 0

\* A bug: _lock is not held over the network call.
LockIgnored == TRUE

LockFree == lock = none

RecentAttempt == sinceAttempt < MIN_INTERVAL

\* In the cooldown the request fails.
RecoverRefused(t) ==
    /\ pc[t] = "unauthorized"
    /\ LockFree
    /\ CoolingDown
    /\ Goto(t, "idle")
    /\ UNCHANGED <<startToken, provider, carried, resends, disturbances, history>>

\* Soon after an attempt the request is retried with the token held, if any.
RecoverReused(t) ==
    /\ pc[t] = "unauthorized"
    /\ LockFree
    /\ ~CoolingDown
    /\ RecentAttempt
    /\ carried' = [carried EXCEPT ![t] = token]
    /\ resends' = [resends EXCEPT ![t] = 0]
    /\ Goto(t, IF token = "none" THEN "idle" ELSE "retry")
    /\ UNCHANGED <<startToken, provider, disturbances, history>>

\* Otherwise /token is called, with the lock held.
RecoverFetch(t) ==
    /\ pc[t] = "unauthorized"
    /\ LockFree
    /\ ~CoolingDown
    /\ ~RecentAttempt
    /\ lock' = t
    /\ sinceAttempt' = 0
    /\ quiet' = 0
    /\ Goto(t, "fetching")
    /\ UNCHANGED <<startToken, token, cooldown, recoveryFailed, carried, resends,
                   disturbances, sinceFailure, newest>>

\* The station issues a token to this process: every other one is stale.
Issue(t) ==
    /\ pc[t] = "fetching"
    /\ startToken' = Superseded(startToken)
    /\ token' = Superseded(token)
    /\ carried' = [u \in Thread |-> IF u = t THEN "valid" ELSE Superseded(carried[u])]
    /\ newest' = "ours"
    /\ Goto(t, "issued")
    /\ UNCHANGED <<sinceAttempt, cooldown, recoveryFailed, lock, resends,
                   disturbances, quiet, sinceFailure>>

\* A bug: the new token is used and not kept.
FetchForgets(t) ==
    /\ pc[t] = "issued"
    /\ cooldown' = 0
    /\ lock' = none
    /\ resends' = [resends EXCEPT ![t] = 0]
    /\ Goto(t, "retry")
    /\ UNCHANGED <<startToken, token, sinceAttempt, recoveryFailed, carried,
                   disturbances, history>>

\* The new token arrives; the request is retried with it.
FetchSucceeds(t) ==
    /\ pc[t] = "issued"
    /\ token' = carried[t]
    /\ cooldown' = 0
    /\ lock' = none
    /\ resends' = [resends EXCEPT ![t] = 0]
    /\ Goto(t, "retry")
    /\ UNCHANGED <<startToken, sinceAttempt, recoveryFailed, carried, disturbances,
                   history>>

\* A bug: the backoff is added to the interval.
FailForBoth ==
    /\ cooldown' = FAILURE_BACKOFF + MIN_INTERVAL
    /\ recoveryFailed' = TRUE
    /\ sinceFailure' = 0

\* A recovery has failed.
FailRecovery ==
    /\ cooldown' = FAILURE_BACKOFF
    /\ recoveryFailed' = TRUE
    /\ sinceFailure' = 0

\* A bug: a failed call leaves the lock taken.
FetchFailsHolding(t) ==
    /\ pc[t] \in {"fetching", "issued"}
    /\ disturbances < MaxDisturbances
    /\ disturbances' = disturbances + 1
    /\ FailRecovery
    /\ newest' = IF pc[t] = "issued" THEN "gone" ELSE newest
    /\ Goto(t, "idle")
    /\ UNCHANGED <<startToken, token, sinceAttempt, lock, carried, resends, quiet>>

\* No token arrives; the station may have issued one.
FetchFails(t) ==
    /\ pc[t] \in {"fetching", "issued"}
    /\ disturbances < MaxDisturbances
    /\ disturbances' = disturbances + 1
    /\ FailRecovery
    /\ newest' = IF pc[t] = "issued" THEN "gone" ELSE newest
    /\ lock' = none
    /\ Goto(t, "idle")
    /\ UNCHANGED <<startToken, token, sinceAttempt, carried, resends, quiet>>

-----------------------------------------------------------------------------
(* The retry and its report to the provider, which needs the lock again. *)

RetrySucceeds(t) ==
    /\ pc[t] = "retry"
    /\ carried[t] = "valid"
    /\ Goto(t, "accepted")
    /\ UNCHANGED <<startToken, provider, carried, resends, disturbances, history>>

RetryUnauthorized(t) ==
    /\ pc[t] = "retry"
    /\ carried[t] = "stale"
    /\ Goto(t, "rejected")
    /\ UNCHANGED <<startToken, provider, carried, resends, disturbances, history>>

\* report_retry_succeeded
ReportRetrySucceeded(t) ==
    /\ pc[t] = "accepted"
    /\ LockFree
    /\ recoveryFailed' = FALSE
    /\ Goto(t, "idle")
    /\ UNCHANGED <<startToken, token, sinceAttempt, cooldown, lock, carried, resends,
                   disturbances, history>>

\* report_retry_still_unauthorized
ReportRetryStillUnauthorized(t) ==
    /\ pc[t] = "rejected"
    /\ LockFree
    /\ FailRecovery
    /\ Goto(t, "idle")
    /\ UNCHANGED <<startToken, token, sinceAttempt, lock, carried, resends,
                   disturbances, quiet, newest>>

-----------------------------------------------------------------------------
(* The world. *)

\* Another process is issued a token, or the station starts anew.
TokenTaken ==
    /\ disturbances < MaxDisturbances
    /\ disturbances' = disturbances + 1
    /\ startToken' = Superseded(startToken)
    /\ token' = Superseded(token)
    /\ carried' = [t \in Thread |-> Superseded(carried[t])]
    /\ newest' = "gone"
    /\ UNCHANGED <<sinceAttempt, cooldown, recoveryFailed, lock, pc, resends,
                   quiet, sinceFailure>>

\* Time passes, up to a limit.
Later(time, limit) == IF time < limit THEN time + 1 ELSE time

Earlier(time) == IF time > 0 THEN time - 1 ELSE time

Tick ==
    /\ sinceAttempt' = Later(sinceAttempt, MIN_INTERVAL)
    /\ cooldown' = Earlier(cooldown)
    /\ quiet' = Later(quiet, MIN_INTERVAL)
    /\ sinceFailure' = Later(sinceFailure, FAILURE_BACKOFF)
    /\ UNCHANGED <<startToken, token, recoveryFailed, lock, pc, carried, resends,
                   disturbances, newest>>

\* recover_from_unauthorized, by whichever branch.
Recover(t) == RecoverRefused(t) \/ RecoverReused(t) \/ RecoverFetch(t)

\* The answers a thread waits for.
Answer(t) ==
    \/ Answered(t) \/ Unauthorized(t)
    \/ Issue(t) \/ FetchSucceeds(t)
    \/ RetrySucceeds(t) \/ RetryUnauthorized(t)

Report(t) == ReportRetrySucceeded(t) \/ ReportRetryStillUnauthorized(t)

Next ==
    \/ \E t \in Thread :
          \/ Send(t) \/ RateLimited(t) \/ RequestFails(t)
          \/ Recover(t) \/ Answer(t) \/ FetchFails(t) \/ Report(t)
    \/ TokenTaken
    \/ Tick

\* Requests are sent again and again, every call is answered or fails, whoever
\* waits for the lock gets it, and time passes. The lock is free for most of
\* every MIN_INTERVAL, hence strong fairness for the steps that take it.
Fairness ==
    /\ WF_vars(Tick)
    /\ \A t \in Thread :
          /\ WF_vars(Send(t))
          /\ WF_vars(Answer(t))
          /\ SF_vars(Recover(t))
          /\ SF_vars(Report(t))

Spec == Init /\ [][Next]_vars /\ Fairness

-----------------------------------------------------------------------------
(* Properties *)

\* Every variable has its type.
TypeOK ==
    /\ startToken \in {"valid", "stale"}
    /\ token \in Validity
    /\ sinceAttempt \in 0..MIN_INTERVAL
    /\ cooldown \in 0..FAILURE_BACKOFF
    /\ recoveryFailed \in BOOLEAN
    /\ lock \in Thread \cup {none}
    /\ pc \in [Thread -> Place]
    /\ carried \in [Thread -> Validity]
    /\ resends \in [Thread -> 0..MAX_429_RETRIES]
    /\ disturbances \in 0..MaxDisturbances
    /\ quiet \in 0..MIN_INTERVAL
    /\ sinceFailure \in 0..FAILURE_BACKOFF
    /\ newest \in {"ours", "gone"}

\* Whoever reads _token outside a call gets no token that a later call of the
\* same process made stale, in whatever order the answers of the threads come.
\* What _lock over the network call is for.
OwnTokenNewest == LockFree /\ newest = "ours" => token # "stale"

\* /token is called at most once per MIN_INTERVAL, whatever the number of threads
\* that are answered 401, and never within FAILURE_BACKOFF of a failed recovery.
TokenCallsSpaced ==
    [][\A t \in Thread :
          pc[t] # "fetching" /\ pc'[t] = "fetching"
             => quiet = MIN_INTERVAL /\ sinceFailure = FAILURE_BACKOFF]_vars

\* A retry is reported as still unauthorized only when the provider has no valid
\* token: the report starts a cooldown in which every request is refused. True of
\* one thread, as in the trading loop; not of the workers of the filtering.
RejectionMeansNoToken ==
    \A t \in Thread : pc[t] = "rejected" => token # "valid"

\* The flag the notification reads (recovery_failed) is set as long as requests
\* are refused. True of one thread: with several, a retry that succeeds late
\* clears the flag of a failure that came after it was sent.
CooldownFlagged == CoolingDown => recoveryFailed

\* Every request ends: no call leaves the lock taken, and no thread waits for a
\* report or a recovery that cannot come.
RequestsEnd == \A t \in Thread : pc[t] # "idle" ~> pc[t] = "idle"

\* Once the disturbances are over, requests can be served for good: by the start
\* token if it was never superseded, otherwise by the token of the provider (which
\* is being replaced while the lock is held).
Recovers == <>[](startToken = "valid" \/ token = "valid" \/ ~LockFree)
=============================================================================
