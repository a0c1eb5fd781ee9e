----------------------------- MODULE JQuantsClient -----------------------------
(* Clients of the J-Quants API fetch a result page by page, each page with the     *)
(* key the page before returned. Requests that may pass are repeated, the others   *)
(* end the fetching; all requests of the process keep a distance in time. The      *)
(* server answers anything, the same key over and over included.                   *)
EXTENDS Integers, FiniteSets, Sequences

CONSTANTS
    Client,             \* clients of the process, which share the limiter
    KEYS,               \* pagination keys of the server: 1..KEYS, 0 is none
    ATTEMPTS,           \* of a page
    INTERVAL,           \* between two requests
    BACKOFF             \* longest pause before a repetition

VARIABLES
    slotHolder,         \* who holds the lock of the limiter: at most one client
    sinceRequest,       \* time since the last request, up to INTERVAL
    fetcher,            \* client -> [at, pause, attempt]
    usedKeys,           \* client -> keys asked with so far, 0 for the first page
    nextKey,            \* client -> key of the page at hand
    yielded,            \* client -> for every page: <<key asked with, key returned>>
    counters            \* client -> [requests, retries, pages]

clientVars == <<slotHolder, sinceRequest, fetcher, usedKeys, nextKey, yielded, counters>>

ASSUME ClientAssumption ==
    KEYS \in Nat /\ ATTEMPTS \in Nat \ {0} /\ INTERVAL \in Nat /\ BACKOFF \in Nat

Ready == [at |-> "queue", pause |-> 0, attempt |-> 1]

Least(m, n) == IF m < n THEN m ELSE n

\* Doubled with every attempt.
Pause(n) == Least(2 ^ (n - 1), BACKOFF)

-----------------------------------------------------------------------------

ClientInit ==
    /\ slotHolder = {} /\ sinceRequest = INTERVAL
    /\ fetcher = [c \in Client |-> Ready]
    /\ usedKeys = [c \in Client |-> {}] /\ nextKey = [c \in Client |-> 0]
    /\ yielded = [c \in Client |-> <<>>]
    /\ counters = [c \in Client |-> [requests |-> 0, retries |-> 0, pages |-> 0]]

fetchVars == <<usedKeys, nextKey, yielded, counters>>

\* Mutant: the lock is not held while waiting.
SlotFreeAlways == TRUE

SlotFree == slotHolder = {}

\* The lock of the limiter is taken, and kept while waiting for the slot.
QueueForSlot(c) ==
    /\ fetcher[c].at = "queue"
    /\ SlotFree
    /\ slotHolder' = {c}
    /\ fetcher' = [fetcher EXCEPT ![c].at = "slot", ![c].pause = INTERVAL - sinceRequest]
    /\ UNCHANGED <<sinceRequest, fetchVars>>

\* The slot is there: the request goes out.
SendRequest(c) ==
    /\ fetcher[c].at = "slot" /\ fetcher[c].pause = 0
    /\ slotHolder' = {}
    /\ sinceRequest' = 0
    /\ fetcher' = [fetcher EXCEPT ![c].at = "sent"]
    /\ counters' = [counters EXCEPT ![c].requests = @ + 1]
    /\ UNCHANGED <<usedKeys, nextKey, yielded>>

\* Mutant: an error of the server ends the fetching at once.
RetryableUnlessServer(failure) == failure \in {"transport", "rate limit"}

\* No connection, no answer in time, too many requests or an error of the server may pass; a refused
\* or faulty request, an invalid answer and whatever else ("refused") does not.
Retryable(failure) == failure \in {"transport", "rate limit", "server"}

\* The rate limit has a pause of its own, the longest.
PauseAfter(failure, n) == IF failure = "rate limit" THEN BACKOFF ELSE Pause(n)

RequestFails(c, failure) ==
    /\ fetcher[c].at = "sent"
    /\ IF Retryable(failure) /\ fetcher[c].attempt < ATTEMPTS
       THEN /\ fetcher' = [fetcher EXCEPT ![c] =
                               [at |-> "pause", pause |-> PauseAfter(failure, @.attempt), attempt |-> @.attempt + 1]]
            /\ counters' = [counters EXCEPT ![c].retries = @ + 1]
       ELSE /\ fetcher' = [fetcher EXCEPT ![c].at = failure]
            /\ UNCHANGED counters
    /\ UNCHANGED <<slotHolder, sinceRequest, usedKeys, nextKey, yielded>>

EndPause(c) ==
    /\ fetcher[c].at = "pause" /\ fetcher[c].pause = 0
    /\ fetcher' = [fetcher EXCEPT ![c].at = "queue"]
    /\ UNCHANGED <<slotHolder, sinceRequest, fetchVars>>

\* Mutant: only the key of the page before is remembered.
CyclesWithLast(c, key) == key = nextKey[c]

\* The server sends a key it was asked with before.
Cycles(c, key) == key \in usedKeys[c]

\* A page comes and is handed over, unless its key leads back; without a key it is the last one.
TakePage(c, key) ==
    /\ fetcher[c].at = "sent"
    /\ counters' = [counters EXCEPT ![c].pages = @ + 1]
    /\ IF key # 0 /\ Cycles(c, key)
       THEN /\ fetcher' = [fetcher EXCEPT ![c].at = "cycle"]
            /\ UNCHANGED <<usedKeys, nextKey, yielded>>
       ELSE /\ yielded' = [yielded EXCEPT ![c] = Append(@, <<nextKey[c], key>>)]
            /\ nextKey' = [nextKey EXCEPT ![c] = key]
            /\ usedKeys' = [usedKeys EXCEPT ![c] = IF key = 0 THEN @ ELSE @ \cup {key}]
            /\ fetcher' = [fetcher EXCEPT ![c] = IF key = 0 THEN [@ EXCEPT !.at = "whole"] ELSE Ready]
    /\ UNCHANGED <<slotHolder, sinceRequest>>

\* Time passes for all, as long as it makes a difference.
TimeElapses ==
    /\ sinceRequest < INTERVAL \/ \E c \in Client : fetcher[c].pause > 0
    /\ sinceRequest' = Least(sinceRequest + 1, INTERVAL)
    /\ fetcher' = [c \in Client |-> [fetcher[c] EXCEPT !.pause = IF @ = 0 THEN 0 ELSE @ - 1]]
    /\ UNCHANGED <<slotHolder, fetchVars>>

Failure == {"transport", "rate limit", "server", "refused"}

ClientStep(c) ==
    \/ QueueForSlot(c) \/ SendRequest(c) \/ EndPause(c)
    \/ \E failure \in Failure : RequestFails(c, failure)
    \/ \E key \in 0..KEYS : TakePage(c, key)

ClientNext == TimeElapses \/ \E c \in Client : ClientStep(c)

ClientSpec ==
    /\ ClientInit /\ [][ClientNext]_clientVars
    /\ WF_clientVars(TimeElapses) /\ \A c \in Client : WF_clientVars(ClientStep(c))

-----------------------------------------------------------------------------
(* Properties *)

FetchOver == Failure \cup {"cycle", "whole"}

ClientTypeOK ==
    /\ slotHolder \subseteq Client /\ sinceRequest \in 0..INTERVAL
    /\ \A c \in Client :
        /\ fetcher[c].at \in {"queue", "slot", "sent", "pause"} \cup FetchOver
        /\ fetcher[c].attempt \in 1..ATTEMPTS
        /\ usedKeys[c] \subseteq 1..KEYS /\ nextKey[c] \in 0..KEYS

\* No request goes out sooner than the interval after the last one of whatever client,
\* repetitions included.
SpacedOut == \A c \in Client : fetcher[c].at = "slot" /\ fetcher[c].pause = 0 => sinceRequest = INTERVAL

\* What a client hands over are consecutive pages, none of them twice; only a result whose last page
\* has no further key is whole.
PagesConsecutive ==
    \A c \in Client :
        LET ps == yielded[c]
        IN  /\ \A i \in DOMAIN ps : ps[i][1] = (IF i = 1 THEN 0 ELSE ps[i - 1][2])
            /\ \A i, j \in DOMAIN ps : ps[i][1] = ps[j][1] => i = j
            /\ fetcher[c].at = "whole" <=> ps # <<>> /\ ps[Len(ps)][2] = 0

\* Every request is accounted for: it brought a page, was repeated, is under way or ended the
\* fetching; a failure that may pass ends it only after the last attempt.
RequestsCounted ==
    \A c \in Client :
        /\ counters[c].requests = counters[c].pages + counters[c].retries
               + (IF fetcher[c].at \in Failure \cup {"sent"} THEN 1 ELSE 0)
        /\ fetcher[c].at \in {"transport", "rate limit", "server"} => fetcher[c].attempt = ATTEMPTS

\* The three together.
FetchingSound == SpacedOut /\ PagesConsecutive /\ RequestsCounted

\* Every fetching ends, whatever keys the server sends.
FetchingEnds == <>(\A c \in Client : fetcher[c].at \in FetchOver)
=============================================================================
