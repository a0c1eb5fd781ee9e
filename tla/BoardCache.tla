----------------------------- MODULE BoardCache -----------------------------
(* The board cache that the workers of the filtering share                     *)
(* (infrastructure/kabu/registration_aware_board_cache.py). Reading a board     *)
(* registers its symbol at the kabu Station, which keeps a limited number of    *)
(* registrations; the cache takes them all back when the limit is reached.      *)
(*                                                                             *)
(* Whatever runs with _condition held is one step, the call that clears the     *)
(* registrations included. A board is known by what the code tells apart: a     *)
(* board, an empty answer, an error.                                           *)
EXTENDS Naturals, FiniteSets

CONSTANTS
    Thread,        \* threads that use the cache
    Symbol,        \* stock symbols
    Round,         \* rounds of the retry of missing boards
    none,          \* the request of clear_registrations
    BATCH_SIZE,    \* SCREENING_BATCH_SIZE: registrations the station keeps
    MaxRequests    \* bound: requests that are made

ASSUME ConstantsAssumption ==
    /\ BATCH_SIZE \in Nat \ {0}
    /\ MaxRequests \in Nat
    /\ 0 \notin Round
    /\ IsFiniteSet(Symbol)

VARIABLES
    cache,       \* _cache: what is known of a symbol
    rounds,      \* _retry_round_results
    inflight,    \* the keys of _inflight
    sinceClear,  \* _requests_since_clear
    blocked,     \* _blocked_error is set
    pc,          \* where a thread is
    request,     \* what it asked for
    sent,        \* how many requests were made
    registered,  \* the registrations the station keeps
    fetches      \* history: how often a symbol was fetched, by round

station == <<sinceClear, blocked, registered>>
vars == <<cache, rounds, inflight, station, pc, request, sent, fetches>>

\* get_current_board is round 0, a refetch has the number of its round.
Get == 0
Request == [symbol : Symbol, round : Round \cup {Get}]

Answer == {"board", "empty", "error"}
Known  == Answer \cup {"none"}

\* entering: about to look at the cache; asleep and woken: in wait_for, without
\* and with a notification; following: waits for the future of another thread.
Place == {"idle", "entering", "asleep", "woken", "fetching", "following"}

Goto(t, place) == pc' = [pc EXCEPT ![t] = place]

SymbolOf(t) == request[t].symbol
RoundOf(t)  == request[t].round

Init ==
    /\ cache = [s \in Symbol |-> "none"]
    /\ rounds = [s \in Symbol |-> [r \in Round |-> "none"]]
    /\ inflight = {}
    /\ sinceClear = 0
    /\ blocked = FALSE
    /\ pc = [t \in Thread |-> "idle"]
    /\ request = [t \in Thread |-> none]
    /\ sent = 0
    /\ registered = {}
    /\ fetches = [s \in Symbol |-> [r \in Round \cup {Get} |-> 0]]

-----------------------------------------------------------------------------
(* _fetch_current_board, up to the request *)

\* A thread asks for a board, or (none) to clear the registrations.
Ask(t, r) ==
    /\ pc[t] = "idle"
    /\ sent < MaxRequests
    /\ sent' = sent + 1
    /\ request' = [request EXCEPT ![t] = r]
    /\ Goto(t, "entering")
    /\ UNCHANGED <<cache, rounds, inflight, station, fetches>>

\* A bug: an error is not remembered.
SavedNoErrors(t) ==
    LET saved == IF RoundOf(t) = Get THEN cache[SymbolOf(t)]
                                     ELSE rounds[SymbolOf(t)][RoundOf(t)]
    IN  IF saved = "error" THEN "none" ELSE saved

\* What is already known of the request of a thread.
Saved(t) == IF RoundOf(t) = Get THEN cache[SymbolOf(t)]
                                ELSE rounds[SymbolOf(t)][RoundOf(t)]

\* Nothing is known and nobody is fetching it.
Unserved(t) == /\ pc[t] = "entering"
               /\ request[t] # none
               /\ Saved(t) = "none"
               /\ SymbolOf(t) \notin inflight

\* The answer is known: it is returned, or raised.
ReturnSaved(t) ==
    /\ pc[t] = "entering"
    /\ request[t] # none
    /\ Saved(t) # "none"
    /\ Goto(t, "idle")
    /\ UNCHANGED <<cache, rounds, inflight, station, request, sent, fetches>>

\* Another thread is fetching the symbol: its future is awaited.
Join(t) ==
    /\ pc[t] = "entering"
    /\ request[t] # none
    /\ Saved(t) = "none"
    /\ SymbolOf(t) \in inflight
    /\ Goto(t, "following")
    /\ UNCHANGED <<cache, rounds, inflight, station, request, sent, fetches>>

\* should_start says no (_FetchNotStarted), as it may at any time, or fetches
\* are blocked.
Refuse(t) ==
    /\ Unserved(t)
    /\ Goto(t, "idle")
    /\ UNCHANGED <<cache, rounds, inflight, station, request, sent, fetches>>

\* The thread becomes the one that fetches its symbol, as the request number
\* count + 1 since the last clearing.
Begin(t, count) ==
    /\ inflight' = inflight \cup {SymbolOf(t)}
    /\ sinceClear' = count + 1
    /\ fetches' = [fetches EXCEPT ![SymbolOf(t)][RoundOf(t)] = @ + 1]
    /\ Goto(t, "fetching")

\* A bug: one more request than the station has registrations.
FullLate == sinceClear > BATCH_SIZE

Full == sinceClear >= BATCH_SIZE

StartFetch(t) ==
    /\ Unserved(t)
    /\ ~blocked
    /\ ~Full
    /\ Begin(t, sinceClear)
    /\ UNCHANGED <<cache, rounds, blocked, registered, request, sent>>

-----------------------------------------------------------------------------
(* Clearing the registrations, when no request is under way *)

\* The thread has to clear before it goes on.
NeedsClear(t) ==
    \/ pc[t] = "woken"
    \/ pc[t] = "entering" /\ request[t] = none
    \/ Unserved(t) /\ ~blocked /\ Full

\* A bug: a notified thread does not look again.
QuietUnchecked(t) == pc[t] = "woken" \/ inflight = {}

\* The condition of wait_for.
Quiet(t) == inflight = {}

\* wait_for: the thread sleeps until a request ends.
Sleep(t) ==
    /\ NeedsClear(t)
    /\ ~Quiet(t)
    /\ Goto(t, "asleep")
    /\ UNCHANGED <<cache, rounds, inflight, station, request, sent, fetches>>

\* should_start says no after the wait.
GiveUp(t) ==
    /\ pc[t] = "woken"
    /\ request[t] # none
    /\ Quiet(t)
    /\ Goto(t, "idle")
    /\ UNCHANGED <<cache, rounds, inflight, station, request, sent, fetches>>

\* The call fails, whether or not the station did what it was asked.
ClearFails(t) ==
    /\ NeedsClear(t)
    /\ Quiet(t)
    /\ blocked' = TRUE
    /\ registered' \in {registered, {}}
    /\ Goto(t, "idle")
    /\ UNCHANGED <<cache, rounds, inflight, sinceClear, request, sent, fetches>>

\* The registrations are cleared, and the loop looks at the cache again: the
\* request is served by now, or it is not started any more, ...
ClearAndLeave(t) ==
    /\ NeedsClear(t)
    /\ Quiet(t)
    /\ blocked' = FALSE
    /\ registered' = {}
    /\ sinceClear' = 0
    /\ Goto(t, "idle")
    /\ UNCHANGED <<cache, rounds, inflight, request, sent, fetches>>

\* ... or its fetch begins.
ClearAndFetch(t) ==
    /\ NeedsClear(t)
    /\ Quiet(t)
    /\ request[t] # none
    /\ Saved(t) = "none"
    /\ blocked' = FALSE
    /\ registered' = {}
    /\ Begin(t, 0)
    /\ UNCHANGED <<cache, rounds, request, sent>>

-----------------------------------------------------------------------------
(* The answer, and _finish_request *)

\* A bug: a retry that brings nothing empties the cache.
RememberAll(t, answer) ==
    IF RoundOf(t) = Get
    THEN /\ cache' = [cache EXCEPT ![SymbolOf(t)] = answer]
         /\ UNCHANGED rounds
    ELSE /\ rounds' = [rounds EXCEPT ![SymbolOf(t)][RoundOf(t)] = answer]
         /\ cache' = [cache EXCEPT ![SymbolOf(t)] = answer]

\* What is remembered of an answer. A retry improves the cache or leaves it.
Remember(t, answer) ==
    IF RoundOf(t) = Get
    THEN /\ cache' = [cache EXCEPT ![SymbolOf(t)] = answer]
         /\ UNCHANGED rounds
    ELSE /\ rounds' = [rounds EXCEPT ![SymbolOf(t)][RoundOf(t)] = answer]
         /\ cache' = IF answer = "board"
                     THEN [cache EXCEPT ![SymbolOf(t)] = answer] ELSE cache

\* A bug: notify instead of notify_all.
WakeOne(t, u) == /\ pc[u] = "asleep"
                 /\ u = CHOOSE w \in Thread : pc[w] = "asleep"

\* notify_all
Woken(t, u) == pc[u] = "asleep"

\* The thread is done, its followers have the result, and whoever waits for the
\* end of the requests is notified.
Finish(t) ==
    /\ inflight' = inflight \ {SymbolOf(t)}
    /\ pc' = [u \in Thread |->
                 IF u = t THEN "idle"
                 ELSE IF pc[u] = "following" /\ SymbolOf(u) = SymbolOf(t) THEN "idle"
                 ELSE IF Woken(t, u) THEN "woken"
                 ELSE pc[u]]

\* The answer comes. The station has registered the symbol by then; with an
\* error nobody knows.
Receive(t, answer) ==
    /\ pc[t] = "fetching"
    /\ Remember(t, answer)
    /\ Finish(t)
    /\ \/ registered' = registered \cup {SymbolOf(t)}
       \/ answer = "error" /\ registered' = registered
    /\ UNCHANGED <<sinceClear, blocked, request, sent, fetches>>

Clear(t) == ClearFails(t) \/ ClearAndLeave(t) \/ ClearAndFetch(t)

\* The steps of a request that was made.
Serve(t) ==
    \/ ReturnSaved(t) \/ Join(t) \/ Refuse(t) \/ StartFetch(t)
    \/ Sleep(t) \/ GiveUp(t) \/ Clear(t)
    \/ \E answer \in Answer : Receive(t, answer)

Next == \E t \in Thread :
           \/ \E r \in Request \cup {none} : Ask(t, r)
           \/ Serve(t)

\* A thread that can go on does: every call is answered or times out.
Fairness == \A t \in Thread : WF_vars(Serve(t))

Spec == Init /\ [][Next]_vars /\ Fairness

-----------------------------------------------------------------------------
(* Properties *)

\* Every variable has its type.
TypeOK ==
    /\ cache \in [Symbol -> Known]
    /\ rounds \in [Symbol -> [Round -> Known]]
    /\ inflight \in SUBSET Symbol
    /\ sinceClear \in 0..BATCH_SIZE
    /\ blocked \in BOOLEAN
    /\ pc \in [Thread -> Place]
    /\ request \in [Thread -> Request \cup {none}]
    /\ sent \in 0..MaxRequests
    /\ registered \in SUBSET Symbol
    /\ fetches \in [Symbol -> [Round \cup {Get} -> Nat]]

\* The station never has more registrations than it keeps, counting those its
\* requests under way are about to make, whatever clearing fails.
RegistrationLimit == Cardinality(registered \cup inflight) <= BATCH_SIZE

\* A symbol is fetched once, errors included, and once in each round of the
\* retry, whatever threads ask for it at the same time.
NoRepeatedFetch ==
    \A s \in Symbol, r \in Round \cup {Get} : fetches[s][r] <= 1

\* No registrations are taken back while a board is being read: it could fail,
\* or be registered after the clearing that should have counted it.
NoClearUnderFetch ==
    [][~(registered \subseteq registered') \/ sinceClear' < sinceClear
          => \A t \in Thread : pc[t] # "fetching"]_vars

\* A board that was read is never lost to a later retry that fails or is empty.
BoardKept ==
    [][\A s \in Symbol : cache[s] = "board" => cache'[s] = "board"]_vars

\* Every request ends: nobody sleeps on with nothing under way, and no follower
\* is forgotten.
RequestsEnd == \A t \in Thread : pc[t] # "idle" ~> pc[t] = "idle"
=============================================================================
