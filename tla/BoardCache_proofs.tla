------------------------- MODULE BoardCache_proofs -------------------------
(***************************************************************************)
(* Theorems about BoardCache for every value of its constants.             *)
(***************************************************************************)
EXTENDS BoardCache, FiniteSetTheorems, TLAPS

(* The inductive invariant, in named parts. *)

\* The thread that fetches symbol s in round r.
Fetching(t, s, r) ==
    pc[t] = "fetching" /\ request[t] # none /\ SymbolOf(t) = s /\ RoundOf(t) = r

\* _inflight has the symbols that threads are fetching, each by one of them.
FlightInv ==
    /\ \A t \in Thread : pc[t] = "fetching" => request[t] # none /\ SymbolOf(t) \in inflight
    /\ \A t, u \in Thread :
          pc[t] = "fetching" /\ pc[u] = "fetching" /\ SymbolOf(t) = SymbolOf(u) => t = u
    /\ \A s \in inflight : \E t \in Thread : pc[t] = "fetching" /\ SymbolOf(t) = s

\* The count bounds the registrations there are or will be.
CountInv == Cardinality(registered \cup inflight) <= sinceClear

KnownOf(s, r) == IF r = Get THEN cache[s] ELSE rounds[s][r]

\* A fetch that was made is under way or remembered.
ServedInv ==
    \A s \in Symbol, r \in Round \cup {Get} :
        /\ fetches[s][r] <= 1
        /\ fetches[s][r] = 1 => \/ KnownOf(s, r) # "none"
                                \/ \E t \in Thread : Fetching(t, s, r)

\* The first fetch of a symbol is of an unknown symbol, until its answer comes.
PristineInv ==
    \A t \in Thread :
        pc[t] = "fetching" /\ RoundOf(t) = Get => cache[SymbolOf(t)] = "none"

IInv == TypeOK /\ FlightInv /\ CountInv /\ ServedInv /\ PristineInv

\* A request for a board has a symbol and a round.
LEMMA RequestParts ==
    ASSUME TypeOK, NEW t \in Thread, request[t] # none
    PROVE  SymbolOf(t) \in Symbol /\ RoundOf(t) \in Round \cup {Get}
BY DEF TypeOK, Request, SymbolOf, RoundOf

\* What counting a fetch does to the counts.
LEMMA CountUp ==
    ASSUME NEW S, NEW R, NEW f \in [S -> [R -> Nat]], NEW a \in S, NEW q \in R,
           NEW g, g = [f EXCEPT ![a][q] = @ + 1]
    PROVE  /\ g \in [S -> [R -> Nat]]
           /\ f[a][q] \in Nat /\ g[a][q] = f[a][q] + 1
           /\ \A s \in S, r \in R : ~(s = a /\ r = q) => g[s][r] = f[s][r]
<1>1. f[a] \in [R -> Nat] /\ f[a][q] \in Nat
  OBVIOUS
<1>2. [f[a] EXCEPT ![q] = f[a][q] + 1] \in [R -> Nat]
  BY <1>1
<1>3. g = [f EXCEPT ![a] = [f[a] EXCEPT ![q] = f[a][q] + 1]]
  OBVIOUS
<1>4. g \in [S -> [R -> Nat]]
  BY <1>2, <1>3
<1>5. g[a] = [f[a] EXCEPT ![q] = f[a][q] + 1]
  BY <1>3
<1>6. ASSUME NEW s \in S, NEW r \in R, ~(s = a /\ r = q)
      PROVE  g[s][r] = f[s][r]
  <2>1. CASE s = a
    BY <1>1, <1>5, <1>6, <2>1
  <2>2. CASE s # a
    BY <1>3, <2>2
  <2>3. QED
    BY <2>1, <2>2
<1>7. g[a][q] = f[a][q] + 1
  BY <1>1, <1>5
<1>8. QED
  BY <1>1, <1>4, <1>6, <1>7

\* What remembering an answer does to what is known.
LEMMA RememberEffect ==
    ASSUME TypeOK, NEW t \in Thread, NEW answer \in Answer,
           SymbolOf(t) \in Symbol, RoundOf(t) \in Round \cup {Get},
           Remember(t, answer)
    PROVE  /\ cache' \in [Symbol -> Known]
           /\ rounds' \in [Symbol -> [Round -> Known]]
           /\ \A s \in Symbol, r \in Round \cup {Get} :
                 s = SymbolOf(t) /\ r = RoundOf(t) => KnownOf(s, r)' = answer
           /\ \A s \in Symbol, r \in Round \cup {Get} :
                 KnownOf(s, r) # "none" => KnownOf(s, r)' # "none"
<1> DEFINE a == SymbolOf(t)  q == RoundOf(t)
<1> USE ConstantsAssumption
<1>1. answer \in Known /\ answer # "none"
  BY DEF Known, Answer
<1>2. CASE q = Get
  <2>1. cache' = [cache EXCEPT ![a] = answer] /\ rounds' = rounds
    BY <1>2 DEF Remember
  <2>2. cache' \in [Symbol -> Known] /\ cache'[a] = answer
    BY <1>1, <2>1 DEF TypeOK
  <2>3. \A s \in Symbol : cache[s] # "none" => cache'[s] # "none"
    BY <1>1, <2>1 DEF TypeOK
  <2>4. rounds' \in [Symbol -> [Round -> Known]]
    BY <2>1 DEF TypeOK
  <2> HIDE DEF a, q
  <2>5. \A s \in Symbol, r \in Round \cup {Get} :
           s = a /\ r = q => KnownOf(s, r)' = answer
    BY <1>2, <2>2 DEF KnownOf
  <2>6. \A s \in Symbol, r \in Round \cup {Get} :
           KnownOf(s, r) # "none" => KnownOf(s, r)' # "none"
    BY <2>1, <2>3 DEF KnownOf
  <2>7. QED
    BY <2>2, <2>4, <2>5, <2>6 DEF a, q
<1>3. CASE q # Get
  <2>1. q \in Round
    BY <1>3
  <2>2. /\ rounds' = [rounds EXCEPT ![a][q] = answer]
        /\ cache' = cache \/ (answer = "board" /\ cache' = [cache EXCEPT ![a] = answer])
    BY <1>3 DEF Remember
  <2>3. /\ cache' \in [Symbol -> Known]
        /\ \A s \in Symbol : cache[s] # "none" => cache'[s] # "none"
    <3>1. CASE cache' = cache
      BY <3>1 DEF TypeOK
    <3>2. CASE cache' = [cache EXCEPT ![a] = answer]
      <4> HIDE DEF a
      <4>1. cache' \in [Symbol -> Known]
        BY <1>1, <3>2 DEF TypeOK
      <4>2. QED
        BY <1>1, <3>2, <4>1 DEF TypeOK
    <3>3. QED
      BY <2>2, <3>1, <3>2
  <2>4. /\ rounds[a] \in [Round -> Known]
        /\ rounds' = [rounds EXCEPT ![a] = [rounds[a] EXCEPT ![q] = answer]]
    BY <2>2 DEF TypeOK
  <2>5. [rounds[a] EXCEPT ![q] = answer] \in [Round -> Known]
    BY <1>1, <2>4
  <2>6. rounds' \in [Symbol -> [Round -> Known]]
    BY <2>4, <2>5 DEF TypeOK
  <2>7. rounds'[a] = [rounds[a] EXCEPT ![q] = answer]
    BY <2>4 DEF TypeOK
  <2>8. rounds'[a][q] = answer
    BY <2>1, <2>4, <2>7
  <2>9. ASSUME NEW s \in Symbol, NEW r \in Round, rounds[s][r] # "none"
        PROVE  rounds'[s][r] # "none"
    <3>1. CASE s = a
      BY <1>1, <2>4, <2>7, <2>9, <3>1
    <3>2. CASE s # a
      BY <2>4, <2>9, <3>2 DEF TypeOK
    <3>3. QED
      BY <3>1, <3>2
  <2> HIDE DEF a, q
  <2>10. \A s \in Symbol, r \in Round \cup {Get} :
            s = a /\ r = q => KnownOf(s, r)' = answer
    BY <1>3, <2>8 DEF KnownOf
  <2>11. ASSUME NEW s \in Symbol, NEW r \in Round \cup {Get}, KnownOf(s, r) # "none"
         PROVE  KnownOf(s, r)' # "none"
    <3>1. CASE r = Get
      BY <2>3, <2>11, <3>1 DEF KnownOf
    <3>2. CASE r # Get
      BY <2>9, <2>11, <3>2 DEF KnownOf
    <3>3. QED
      BY <3>1, <3>2
  <2>12. QED
    BY <2>3, <2>6, <2>10, <2>11 DEF a, q
<1>4. QED
  BY <1>2, <1>3

-----------------------------------------------------------------------------
(* The steps that only move a thread that fetches nothing. *)

Move(t) == ReturnSaved(t) \/ Join(t) \/ Refuse(t) \/ Sleep(t) \/ GiveUp(t)

LEMMA MoveFrame ==
    ASSUME TypeOK, NEW t \in Thread, Move(t)
    PROVE  /\ UNCHANGED <<cache, rounds, inflight, station, request, sent, fetches>>
           /\ pc[t] # "fetching"
           /\ \E place \in Place \ {"fetching"} : Goto(t, place)
BY DEF Move, ReturnSaved, Join, Refuse, Unserved, Sleep, NeedsClear, GiveUp, Place

LEMMA AskFrame ==
    ASSUME TypeOK, NEW t \in Thread, NEW r \in Request \cup {none}, Ask(t, r)
    PROVE  /\ UNCHANGED <<cache, rounds, inflight, station, fetches>>
           /\ pc[t] # "fetching" /\ pc' = [pc EXCEPT ![t] = "entering"]
           /\ request' = [request EXCEPT ![t] = r]
BY DEF Ask, Goto

\* What the two ways to begin a fetch have in common.
LEMMA BeginFrame ==
    ASSUME TypeOK, FlightInv, NEW t \in Thread, StartFetch(t) \/ ClearAndFetch(t)
    PROVE  /\ UNCHANGED <<cache, rounds, request, sent>>
           /\ request[t] # none /\ Saved(t) = "none" /\ SymbolOf(t) \notin inflight
           /\ pc[t] # "fetching"
           /\ inflight' = inflight \cup {SymbolOf(t)}
           /\ fetches' = [fetches EXCEPT ![SymbolOf(t)][RoundOf(t)] = @ + 1]
           /\ pc' = [pc EXCEPT ![t] = "fetching"]
<1>1. CASE StartFetch(t)
  BY <1>1 DEF StartFetch, Unserved, Begin, Goto
<1>2. CASE ClearAndFetch(t)
  BY <1>2 DEF ClearAndFetch, NeedsClear, Unserved, Quiet, Begin, Goto
<1>3. QED
  BY <1>1, <1>2

\* The ways a step can go.
LEMMA StepCases ==
    ASSUME [Next]_vars
    PROVE  \/ \E t \in Thread :
                 \/ \E r \in Request \cup {none} : Ask(t, r)
                 \/ Move(t) \/ StartFetch(t) \/ ClearAndFetch(t)
                 \/ ClearFails(t) \/ ClearAndLeave(t)
                 \/ \E answer \in Answer : Receive(t, answer)
           \/ UNCHANGED vars
BY DEF Next, Serve, Clear, Move

-----------------------------------------------------------------------------
\* Every step keeps the types.
LEMMA TypeStep ==
    ASSUME TypeOK, FlightInv, [Next]_vars
    PROVE  TypeOK'
<1> USE ConstantsAssumption
<1>1. ASSUME NEW t \in Thread, NEW r \in Request \cup {none}, Ask(t, r) PROVE TypeOK'
  <2>1. pc' \in [Thread -> Place]
    BY <1>1, AskFrame DEF TypeOK, Place
  <2>2. request' \in [Thread -> Request \cup {none}]
    <3>1. request \in [Thread -> Request \cup {none}]
      BY DEF TypeOK
    <3>2. request' = [request EXCEPT ![t] = r]
      BY <1>1, AskFrame
    <3>3. QED
      BY <3>1, <3>2
  <2>3. sent' \in 0..MaxRequests
    BY <1>1, ConstantsAssumption DEF Ask, TypeOK
  <2>4. UNCHANGED <<cache, rounds, inflight, sinceClear, blocked, registered, fetches>>
    BY <1>1, AskFrame DEF station
  <2>5. QED
    BY <2>1, <2>2, <2>3, <2>4 DEF TypeOK
<1>2. ASSUME NEW t \in Thread, Move(t) PROVE TypeOK'
  <2>1. pc' \in [Thread -> Place]
    BY <1>2, MoveFrame DEF TypeOK, Goto
  <2>2. UNCHANGED <<cache, rounds, inflight, station, request, sent, fetches>>
    BY <1>2, MoveFrame
  <2>3. QED
    BY <2>1, <2>2 DEF TypeOK, station
<1>3. ASSUME NEW t \in Thread, StartFetch(t) \/ ClearAndFetch(t) PROVE TypeOK'
  <2>1. SymbolOf(t) \in Symbol /\ RoundOf(t) \in Round \cup {Get}
    BY <1>3, BeginFrame, RequestParts
  <2>2. /\ sinceClear' \in 0..BATCH_SIZE
        /\ blocked' \in BOOLEAN /\ registered' \in SUBSET Symbol
    <3>1. CASE StartFetch(t)
      <4>1. sinceClear \in Nat /\ sinceClear < BATCH_SIZE /\ sinceClear' = sinceClear + 1
        BY <3>1 DEF StartFetch, Begin, Full, TypeOK
      <4>2. blocked' = blocked /\ registered' = registered
        BY <3>1 DEF StartFetch
      <4>3. QED
        BY <4>1, <4>2 DEF TypeOK
    <3>2. CASE ClearAndFetch(t)
      <4>1. sinceClear' = 1 /\ blocked' = FALSE /\ registered' = {}
        BY <3>2 DEF ClearAndFetch, Begin
      <4>2. 1 \in 0..BATCH_SIZE
        BY ConstantsAssumption
      <4>3. QED
        BY <4>1, <4>2
    <3>3. QED
      BY <1>3, <3>1, <3>2
  <2>3. fetches' \in [Symbol -> [Round \cup {Get} -> Nat]]
    <3>1. fetches \in [Symbol -> [Round \cup {Get} -> Nat]]
      BY DEF TypeOK
    <3> DEFINE a == SymbolOf(t)  q == RoundOf(t)
    <3>2. a \in Symbol /\ q \in Round \cup {Get}
      BY <2>1
    <3>3. fetches' = [fetches EXCEPT ![a][q] = @ + 1]
      BY <1>3, BeginFrame
    <3> HIDE DEF a, q
    <3>4. QED
      BY <3>1, <3>2, <3>3, CountUp
  <2>4. pc' \in [Thread -> Place] /\ inflight' \in SUBSET Symbol
    <3>1. pc' = [pc EXCEPT ![t] = "fetching"] /\ inflight' = inflight \cup {SymbolOf(t)}
      BY <1>3, BeginFrame
    <3>2. "fetching" \in Place /\ pc \in [Thread -> Place] /\ inflight \in SUBSET Symbol
      BY DEF Place, TypeOK
    <3>3. pc' \in [Thread -> Place]
      BY <3>1, <3>2
    <3>4. QED
      BY <2>1, <3>1, <3>2, <3>3
  <2>5. UNCHANGED <<cache, rounds, request, sent>>
    BY <1>3, BeginFrame
  <2>6. QED
    BY <2>2, <2>3, <2>4, <2>5 DEF TypeOK
<1>4. ASSUME NEW t \in Thread, ClearFails(t) \/ ClearAndLeave(t) PROVE TypeOK'
  <2>1. pc' \in [Thread -> Place]
    BY <1>4 DEF ClearFails, ClearAndLeave, TypeOK, Goto, Place
  <2>2. /\ sinceClear' \in {sinceClear, 0} /\ blocked' \in {TRUE, FALSE}
        /\ registered' \in {registered, {}}
    BY <1>4 DEF ClearFails, ClearAndLeave
  <2>3. sinceClear' \in 0..BATCH_SIZE /\ registered' \in SUBSET Symbol
    BY <2>2 DEF TypeOK
  <2>4. UNCHANGED <<cache, rounds, inflight, request, sent, fetches>>
    BY <1>4 DEF ClearFails, ClearAndLeave
  <2>5. QED
    BY <2>1, <2>2, <2>3, <2>4 DEF TypeOK
<1>5. ASSUME NEW t \in Thread, NEW answer \in Answer, Receive(t, answer) PROVE TypeOK'
  <2>1. SymbolOf(t) \in Symbol /\ RoundOf(t) \in Round \cup {Get}
    BY <1>5, RequestParts DEF Receive, FlightInv
  <2>2. cache' \in [Symbol -> Known] /\ rounds' \in [Symbol -> [Round -> Known]]
    BY <1>5, <2>1, RememberEffect DEF Receive
  <2>3. pc' \in [Thread -> Place] /\ inflight' \in SUBSET Symbol
    BY <1>5, <2>1 DEF Receive, Finish, Woken, TypeOK, Place
  <2>4. /\ registered' \in SUBSET Symbol
        /\ UNCHANGED <<sinceClear, blocked, request, sent, fetches>>
    BY <1>5, <2>1 DEF Receive, TypeOK
  <2>5. QED
    BY <2>2, <2>3, <2>4 DEF TypeOK
<1>6. CASE UNCHANGED vars
  BY <1>6 DEF vars, station, TypeOK
<1>7. QED
  BY <1>1, <1>2, <1>3, <1>4, <1>5, <1>6, StepCases

\* _inflight keeps saying who fetches what.
LEMMA FlightStep ==
    ASSUME TypeOK, FlightInv, [Next]_vars
    PROVE  FlightInv'
<1>1. ASSUME inflight' = inflight,
             \A u \in Thread : pc'[u] = "fetching" <=> pc[u] = "fetching",
             \A u \in Thread : pc[u] = "fetching" => request'[u] = request[u]
      PROVE  FlightInv'
  BY <1>1 DEF FlightInv, SymbolOf
<1>2. ASSUME NEW t \in Thread, NEW r \in Request \cup {none}, Ask(t, r) PROVE FlightInv'
  <2>1. \A u \in Thread : pc'[u] = "fetching" <=> pc[u] = "fetching"
    BY <1>2, AskFrame DEF TypeOK
  <2>2. \A u \in Thread : pc[u] = "fetching" => request'[u] = request[u]
    BY <1>2, AskFrame DEF TypeOK
  <2>3. QED
    BY <1>1, <1>2, <2>1, <2>2, AskFrame
<1>8. ASSUME NEW t \in Thread, Move(t) PROVE FlightInv'
  <2>1. \A u \in Thread : pc'[u] = "fetching" <=> pc[u] = "fetching"
    BY <1>8, MoveFrame DEF TypeOK, Goto
  <2>2. QED
    BY <1>1, <1>8, <2>1, MoveFrame
<1>3. ASSUME NEW t \in Thread, StartFetch(t) \/ ClearAndFetch(t) PROVE FlightInv'
  <2>1. \A u \in Thread : pc'[u] = "fetching" <=> u = t \/ pc[u] = "fetching"
    BY <1>3, BeginFrame DEF TypeOK
  <2>2. /\ request' = request /\ request[t] # none
        /\ SymbolOf(t) \notin inflight /\ inflight' = inflight \cup {SymbolOf(t)}
    BY <1>3, BeginFrame
  <2>3. \A u \in Thread : SymbolOf(u)' = SymbolOf(u)
    BY <2>2 DEF SymbolOf
  <2>4. QED
    BY <2>1, <2>2, <2>3 DEF FlightInv
<1>4. ASSUME NEW t \in Thread, ClearFails(t) \/ ClearAndLeave(t) PROVE FlightInv'
  <2>1. inflight = {} /\ inflight' = {} /\ request' = request
    BY <1>4 DEF ClearFails, ClearAndLeave, Quiet
  <2>2. \A u \in Thread : pc'[u] # "fetching"
    BY <1>4, <2>1 DEF ClearFails, ClearAndLeave, Goto, TypeOK, FlightInv
  <2>3. QED
    BY <2>1, <2>2 DEF FlightInv
<1>5. ASSUME NEW t \in Thread, NEW answer \in Answer, Receive(t, answer) PROVE FlightInv'
  <2>1. /\ pc[t] = "fetching" /\ request' = request
        /\ inflight' = inflight \ {SymbolOf(t)}
    BY <1>5 DEF Receive, Finish
  <2>2. \A u \in Thread : pc'[u] = "fetching" <=> u # t /\ pc[u] = "fetching"
    BY <1>5 DEF Receive, Finish, Woken, TypeOK
  <2>3. \A u \in Thread : SymbolOf(u)' = SymbolOf(u)
    BY <2>1 DEF SymbolOf
  <2>4. QED
    BY <2>1, <2>2, <2>3 DEF FlightInv
<1>6. CASE UNCHANGED vars
  BY <1>1, <1>6 DEF vars
<1>7. QED
  BY <1>2, <1>3, <1>4, <1>5, <1>6, <1>8, StepCases

\* The count keeps bounding the registrations.
LEMMA CountStep ==
    ASSUME TypeOK, FlightInv, CountInv, [Next]_vars
    PROVE  CountInv'
<1> DEFINE Taken == registered \cup inflight
<1>0. IsFiniteSet(Taken) /\ Cardinality(Taken) \in Nat /\ sinceClear \in Nat
  BY ConstantsAssumption, FS_Subset, FS_CardinalityType DEF TypeOK
<1>00. CountInv' <=> Cardinality(Taken') <= sinceClear'
  BY DEF CountInv
<1>01. Cardinality(Taken) <= sinceClear
  BY DEF CountInv
<1>1. ASSUME NEW t \in Thread, NEW r \in Request \cup {none}, Ask(t, r) PROVE CountInv'
  BY <1>1 DEF Ask, CountInv, station
<1>2. ASSUME NEW t \in Thread, Move(t) PROVE CountInv'
  BY <1>2, MoveFrame DEF CountInv, station
<1>3. ASSUME NEW t \in Thread, StartFetch(t) PROVE CountInv'
  <2>1. Taken' = Taken \cup {SymbolOf(t)} /\ sinceClear' = sinceClear + 1
    BY <1>3 DEF StartFetch, Begin
  <2> HIDE DEF Taken
  <2>2. Cardinality(Taken') = Cardinality(Taken) \/ Cardinality(Taken') = Cardinality(Taken) + 1
    BY <1>0, <2>1, FS_AddElement
  <2>3. QED
    BY <1>0, <1>00, <1>01, <2>1, <2>2
<1>4. ASSUME NEW t \in Thread, ClearAndFetch(t) PROVE CountInv'
  <2>1. Taken' = {SymbolOf(t)} /\ sinceClear' = 1
    BY <1>4 DEF ClearAndFetch, Quiet, Begin
  <2> HIDE DEF Taken
  <2>2. Cardinality(Taken') = 1
    BY <2>1, FS_Singleton
  <2>3. QED
    BY <1>00, <2>1, <2>2
<1>5. ASSUME NEW t \in Thread, ClearAndLeave(t) PROVE CountInv'
  <2>1. Taken' = {} /\ sinceClear' = 0
    BY <1>5 DEF ClearAndLeave, Quiet
  <2> HIDE DEF Taken
  <2>2. Cardinality(Taken') = 0
    BY <2>1, FS_EmptySet
  <2>3. QED
    BY <1>00, <2>1, <2>2
<1>6. ASSUME NEW t \in Thread, Taken' \subseteq Taken, sinceClear' = sinceClear
      PROVE  CountInv'
  <2> HIDE DEF Taken
  <2>1. Cardinality(Taken') <= Cardinality(Taken) /\ Cardinality(Taken') \in Nat
    BY <1>0, <1>6, FS_Subset, FS_CardinalityType
  <2>2. QED
    BY <1>0, <1>00, <1>01, <1>6, <2>1
<1>7. ASSUME NEW t \in Thread, ClearFails(t) PROVE CountInv'
  <2>1. Taken' \subseteq Taken /\ sinceClear' = sinceClear
    BY <1>7 DEF ClearFails
  <2>2. QED
    BY <1>6, <2>1
<1>8. ASSUME NEW t \in Thread, NEW answer \in Answer, Receive(t, answer) PROVE CountInv'
  <2>1. SymbolOf(t) \in inflight
    BY <1>8 DEF Receive, FlightInv
  <2>2. Taken' \subseteq Taken /\ sinceClear' = sinceClear
    BY <1>8, <2>1 DEF Receive, Finish
  <2>3. QED
    BY <1>6, <2>2
<1>9. CASE UNCHANGED vars
  BY <1>9 DEF vars, station, CountInv
<1>10. QED
  BY <1>1, <1>2, <1>3, <1>4, <1>5, <1>7, <1>8, <1>9, StepCases

\* A fetch stays under way until it is remembered.
LEMMA ServedStep ==
    ASSUME TypeOK, FlightInv, ServedInv, [Next]_vars
    PROVE  ServedInv'
<1>1. ASSUME UNCHANGED <<cache, rounds, fetches>>,
             \A u \in Thread : pc[u] = "fetching"
                => pc'[u] = "fetching" /\ request'[u] = request[u]
      PROVE  ServedInv'
  BY <1>1 DEF ServedInv, Fetching, KnownOf, SymbolOf, RoundOf
<1>2. ASSUME NEW t \in Thread, NEW r \in Request \cup {none}, Ask(t, r) PROVE ServedInv'
  <2>1. \A u \in Thread : pc[u] = "fetching"
           => pc'[u] = "fetching" /\ request'[u] = request[u]
    BY <1>2, AskFrame DEF TypeOK
  <2>2. QED
    BY <1>1, <1>2, <2>1, AskFrame
<1>3. ASSUME NEW t \in Thread, Move(t) PROVE ServedInv'
  <2>1. \A u \in Thread : pc[u] = "fetching" => pc'[u] = "fetching"
    BY <1>3, MoveFrame DEF TypeOK, Goto
  <2>2. QED
    BY <1>1, <1>3, <2>1, MoveFrame
<1>4. ASSUME NEW t \in Thread, StartFetch(t) \/ ClearAndFetch(t) PROVE ServedInv'
  <2> DEFINE a == SymbolOf(t)  q == RoundOf(t)
  <2>1. a \in Symbol /\ q \in Round \cup {Get} /\ request[t] # none
    BY <1>4, BeginFrame, RequestParts
  <2>2. /\ fetches[a][q] \in Nat /\ fetches'[a][q] = fetches[a][q] + 1
        /\ \A s \in Symbol, r \in Round \cup {Get} :
              ~(s = a /\ r = q) => fetches'[s][r] = fetches[s][r]
    <3>1. /\ fetches \in [Symbol -> [Round \cup {Get} -> Nat]]
          /\ fetches' = [fetches EXCEPT ![a][q] = @ + 1]
      BY <1>4, BeginFrame DEF TypeOK
    <3> HIDE DEF a, q
    <3>2. QED
      BY <2>1, <3>1, CountUp
  <2>3. fetches[a][q] = 0
    <3>1. KnownOf(a, q) = "none"
      BY <1>4, BeginFrame DEF Saved, KnownOf
    <3>2. \A u \in Thread : ~Fetching(u, a, q)
      BY <1>4, BeginFrame DEF FlightInv, Fetching
    <3> HIDE DEF a, q
    <3>3. fetches[a][q] <= 1 /\ fetches[a][q] # 1
      BY <2>1, <3>1, <3>2 DEF ServedInv
    <3>4. QED
      BY <2>2, <3>3
  <2>4. /\ UNCHANGED <<cache, rounds, request>> /\ pc'[t] = "fetching"
        /\ \A u \in Thread : pc[u] = "fetching" => pc'[u] = "fetching"
    BY <1>4, BeginFrame DEF TypeOK
  <2>5. \A s \in Symbol, r \in Round \cup {Get} :
           s = a /\ r = q => Fetching(t, s, r)'
    BY <2>1, <2>4 DEF Fetching, SymbolOf, RoundOf
  <2>6. \A u \in Thread, s \in Symbol, r \in Round \cup {Get} :
           Fetching(u, s, r) => Fetching(u, s, r)'
    BY <2>4 DEF Fetching, SymbolOf, RoundOf
  <2>7. \A s \in Symbol, r \in Round \cup {Get} : KnownOf(s, r)' = KnownOf(s, r)
    BY <2>4 DEF KnownOf
  <2>8. fetches'[a][q] = 1
    BY <2>2, <2>3
  <2> HIDE DEF a, q
  <2>9. ASSUME NEW s \in Symbol, NEW r \in Round \cup {Get}
        PROVE  /\ fetches'[s][r] <= 1
               /\ fetches'[s][r] = 1 => \/ KnownOf(s, r)' # "none"
                                        \/ \E u \in Thread : Fetching(u, s, r)'
    <3>1. CASE s = a /\ r = q
      BY <2>5, <2>8, <3>1
    <3>2. CASE ~(s = a /\ r = q)
      BY <2>2, <2>6, <2>7, <3>2 DEF ServedInv
    <3>3. QED
      BY <3>1, <3>2
  <2>10. QED
    BY <2>9 DEF ServedInv
<1>5. ASSUME NEW t \in Thread, ClearFails(t) \/ ClearAndLeave(t) PROVE ServedInv'
  <2>1. UNCHANGED <<cache, rounds, fetches, request>>
    BY <1>5 DEF ClearFails, ClearAndLeave
  <2>2. \A u \in Thread : pc[u] # "fetching"
    BY <1>5 DEF ClearFails, ClearAndLeave, Quiet, FlightInv
  <2>3. QED
    BY <1>1, <2>1, <2>2
<1>6. ASSUME NEW t \in Thread, NEW answer \in Answer, Receive(t, answer) PROVE ServedInv'
  <2> DEFINE a == SymbolOf(t)  q == RoundOf(t)
  <2>1. a \in Symbol /\ q \in Round \cup {Get}
    BY <1>6, RequestParts DEF Receive, FlightInv
  <2>2. fetches' = fetches /\ request' = request
    BY <1>6 DEF Receive
  <2>3. /\ \A s \in Symbol, r \in Round \cup {Get} :
              s = a /\ r = q => KnownOf(s, r)' # "none"
        /\ \A s \in Symbol, r \in Round \cup {Get} :
              KnownOf(s, r) # "none" => KnownOf(s, r)' # "none"
    BY <1>6, <2>1, RememberEffect DEF Receive, Answer
  <2>4. \A u \in Thread : u # t /\ pc[u] = "fetching" => pc'[u] = "fetching"
    BY <1>6 DEF Receive, Finish, Woken, TypeOK
  <2>5. \A u \in Thread, s \in Symbol, r \in Round \cup {Get} :
           u # t /\ Fetching(u, s, r) => Fetching(u, s, r)'
    BY <2>2, <2>4 DEF Fetching, SymbolOf, RoundOf
  <2>6. \A s \in Symbol, r \in Round \cup {Get} : Fetching(t, s, r) => s = a /\ r = q
    BY DEF Fetching
  <2> HIDE DEF a, q
  <2>7. ASSUME NEW s \in Symbol, NEW r \in Round \cup {Get}, fetches[s][r] = 1
        PROVE  KnownOf(s, r)' # "none" \/ \E u \in Thread : Fetching(u, s, r)'
    <3>1. CASE KnownOf(s, r) # "none"
      BY <2>3, <3>1
    <3>2. CASE \E u \in Thread : Fetching(u, s, r)
      <4>1. PICK u \in Thread : Fetching(u, s, r)
        BY <3>2
      <4>2. CASE u = t
        BY <2>3, <2>6, <4>1, <4>2
      <4>3. CASE u # t
        BY <2>5, <4>1, <4>3
      <4>4. QED
        BY <4>2, <4>3
    <3>3. QED
      BY <2>7, <3>1, <3>2 DEF ServedInv
  <2>8. \A s \in Symbol, r \in Round \cup {Get} : fetches[s][r] <= 1
    BY DEF ServedInv
  <2>9. QED
    BY <2>2, <2>7, <2>8 DEF ServedInv
<1>7. CASE UNCHANGED vars
  BY <1>1, <1>7 DEF vars
<1>8. QED
  BY <1>2, <1>3, <1>4, <1>5, <1>6, <1>7, StepCases

\* Nothing but its own answer makes the symbol of a first fetch known.
LEMMA PristineStep ==
    ASSUME TypeOK, FlightInv, PristineInv, [Next]_vars
    PROVE  PristineInv'
<1>1. ASSUME UNCHANGED cache,
             \A u \in Thread : pc'[u] = "fetching"
                => pc[u] = "fetching" /\ request'[u] = request[u]
      PROVE  PristineInv'
  BY <1>1 DEF PristineInv, SymbolOf, RoundOf
<1>2. ASSUME NEW t \in Thread, NEW r \in Request \cup {none}, Ask(t, r) PROVE PristineInv'
  <2>1. \A u \in Thread : pc'[u] = "fetching"
           => pc[u] = "fetching" /\ request'[u] = request[u]
    BY <1>2, AskFrame DEF TypeOK
  <2>2. QED
    BY <1>1, <1>2, <2>1, AskFrame
<1>3. ASSUME NEW t \in Thread, Move(t) PROVE PristineInv'
  <2>1. \A u \in Thread : pc'[u] = "fetching" => pc[u] = "fetching"
    BY <1>3, MoveFrame DEF TypeOK, Goto
  <2>2. QED
    BY <1>1, <1>3, <2>1, MoveFrame
<1>4. ASSUME NEW t \in Thread, StartFetch(t) \/ ClearAndFetch(t) PROVE PristineInv'
  <2>1. \A u \in Thread : pc'[u] = "fetching" => u = t \/ pc[u] = "fetching"
    BY <1>4, BeginFrame DEF TypeOK
  <2>2. UNCHANGED <<cache, request>> /\ Saved(t) = "none"
    BY <1>4, BeginFrame
  <2>3. \A u \in Thread : SymbolOf(u)' = SymbolOf(u) /\ RoundOf(u)' = RoundOf(u)
    BY <2>2 DEF SymbolOf, RoundOf
  <2>4. QED
    BY <2>1, <2>2, <2>3 DEF PristineInv, Saved
<1>5. ASSUME NEW t \in Thread, ClearFails(t) \/ ClearAndLeave(t) PROVE PristineInv'
  <2>1. UNCHANGED <<cache, request>>
    BY <1>5 DEF ClearFails, ClearAndLeave
  <2>2. \A u \in Thread : pc'[u] # "fetching"
    BY <1>5 DEF ClearFails, ClearAndLeave, Quiet, FlightInv, Goto, TypeOK
  <2>3. QED
    BY <2>2 DEF PristineInv
<1>6. ASSUME NEW t \in Thread, NEW answer \in Answer, Receive(t, answer) PROVE PristineInv'
  <2>1. \A u \in Thread : pc'[u] = "fetching" => u # t /\ pc[u] = "fetching"
    BY <1>6 DEF Receive, Finish, Woken, TypeOK
  <2>2. pc[t] = "fetching" /\ request' = request
    BY <1>6 DEF Receive
  <2>3. \A s \in Symbol : s # SymbolOf(t) => cache'[s] = cache[s]
    BY <1>6 DEF Receive, Remember, TypeOK
  <2>4. \A u \in Thread : SymbolOf(u)' = SymbolOf(u) /\ RoundOf(u)' = RoundOf(u)
    BY <2>2 DEF SymbolOf, RoundOf
  <2>5. ASSUME NEW u \in Thread, pc'[u] = "fetching", RoundOf(u)' = Get
        PROVE  cache'[SymbolOf(u)'] = "none"
    <3>1. u # t /\ pc[u] = "fetching" /\ SymbolOf(u)' = SymbolOf(u) /\ RoundOf(u) = Get
      BY <2>1, <2>4, <2>5
    <3>2. request[u] # none
      BY <3>1 DEF FlightInv
    <3>3. SymbolOf(u) \in Symbol
      BY <3>2, RequestParts
    <3>4. SymbolOf(u) # SymbolOf(t)
      BY <2>2, <3>1 DEF FlightInv
    <3>5. QED
      BY <2>3, <3>1, <3>3, <3>4 DEF PristineInv
  <2>6. QED
    BY <2>5 DEF PristineInv
<1>7. CASE UNCHANGED vars
  BY <1>1, <1>7 DEF vars
<1>8. QED
  BY <1>2, <1>3, <1>4, <1>5, <1>6, <1>7, StepCases

-----------------------------------------------------------------------------
\* IInv is an inductive invariant.
THEOREM Inductive == Spec => []IInv
<1>1. Init => IInv
  <2> SUFFICES ASSUME Init PROVE IInv
    OBVIOUS
  <2>1. TypeOK
    <3>1. cache \in [Symbol -> Known] /\ pc \in [Thread -> Place]
      BY DEF Init, Known, Place
    <3>2. rounds \in [Symbol -> [Round -> Known]]
      BY DEF Init, Known
    <3>3. fetches \in [Symbol -> [Round \cup {Get} -> Nat]]
      BY DEF Init
    <3>4. sent \in 0..MaxRequests /\ sinceClear \in 0..BATCH_SIZE
      BY ConstantsAssumption DEF Init
    <3>5. request \in [Thread -> Request \cup {none}]
      BY DEF Init
    <3>6. QED
      BY <3>1, <3>2, <3>3, <3>4, <3>5 DEF Init, TypeOK
  <2>2. FlightInv
    BY DEF Init, FlightInv
  <2>3. registered \cup inflight = {} /\ sinceClear = 0
    BY DEF Init
  <2>4. CountInv
    BY <2>3, FS_EmptySet DEF CountInv
  <2>5. ServedInv
    BY DEF Init, ServedInv
  <2>6. PristineInv
    BY DEF Init, PristineInv
  <2>7. QED
    BY <2>1, <2>2, <2>4, <2>5, <2>6 DEF IInv
<1>2. IInv /\ [Next]_vars => IInv'
  BY TypeStep, FlightStep, CountStep, ServedStep, PristineStep DEF IInv
<1>3. QED
  BY <1>1, <1>2, PTL DEF Spec

\* Every variable has its type in every reachable state.
THEOREM TypeCorrect == Spec => []TypeOK
<1>1. IInv => TypeOK
  BY DEF IInv
<1>2. QED
  BY <1>1, Inductive, PTL

\* The registrations stay within what the station keeps, whatever clearing fails.
THEOREM RegistrationsBounded == Spec => []RegistrationLimit
<1>1. IInv => RegistrationLimit
  <2> SUFFICES ASSUME IInv PROVE RegistrationLimit
    OBVIOUS
  <2>1. sinceClear <= BATCH_SIZE /\ sinceClear \in Nat /\ BATCH_SIZE \in Nat
    BY ConstantsAssumption DEF IInv, TypeOK
  <2>2. Cardinality(registered \cup inflight) \in Nat
    BY ConstantsAssumption, FS_Subset, FS_CardinalityType DEF IInv, TypeOK
  <2>3. QED
    BY <2>1, <2>2 DEF IInv, CountInv, RegistrationLimit
<1>2. QED
  BY <1>1, Inductive, PTL

\* No symbol is fetched twice in one round.
THEOREM FetchedOnce == Spec => []NoRepeatedFetch
<1>1. IInv => NoRepeatedFetch
  BY DEF IInv, ServedInv, NoRepeatedFetch
<1>2. QED
  BY <1>1, Inductive, PTL

\* No registration is taken back under a fetch.
THEOREM ClearWhenQuiet == Spec => NoClearUnderFetch
<1>1. ASSUME IInv, [Next]_vars,
             ~(registered \subseteq registered') \/ sinceClear' < sinceClear
      PROVE  \A t \in Thread : pc[t] # "fetching"
  <2>1. TypeOK /\ FlightInv
    BY <1>1 DEF IInv
  <2>2. ASSUME NEW t \in Thread, ClearFails(t) \/ ClearAndLeave(t) \/ ClearAndFetch(t)
        PROVE  \A u \in Thread : pc[u] # "fetching"
    BY <2>1, <2>2 DEF ClearFails, ClearAndLeave, ClearAndFetch, Quiet, FlightInv
  <2> DEFINE Keeps == /\ registered \subseteq registered'
                      /\ sinceClear' \in {sinceClear, sinceClear + 1}
  <2>3. ASSUME NEW t \in Thread, NEW r \in Request \cup {none}, Ask(t, r) PROVE Keeps
    BY <2>1, <2>3, AskFrame DEF station
  <2>4. ASSUME NEW t \in Thread, Move(t) PROVE Keeps
    BY <2>1, <2>4, MoveFrame DEF station
  <2>5. ASSUME NEW t \in Thread, StartFetch(t) PROVE Keeps
    BY <2>5 DEF StartFetch, Begin
  <2>6. ASSUME NEW t \in Thread, NEW answer \in Answer, Receive(t, answer) PROVE Keeps
    BY <2>6 DEF Receive
  <2>7. ASSUME UNCHANGED vars PROVE Keeps
    BY <2>7 DEF vars, station
  <2>9. ~Keeps
    BY <1>1, <2>1 DEF TypeOK
  <2> HIDE DEF Keeps
  <2>8. QED
    BY <2>2, <2>3, <2>4, <2>5, <2>6, <2>7, <2>9, <1>1, StepCases
<1>2. IInv /\ [Next]_vars =>
        [~(registered \subseteq registered') \/ sinceClear' < sinceClear
            => \A t \in Thread : pc[t] # "fetching"]_vars
  BY <1>1
<1>3. QED
  BY <1>2, Inductive, PTL DEF Spec, NoClearUnderFetch

\* A board stays in the cache.
THEOREM BoardStays == Spec => BoardKept
<1>1. ASSUME IInv, [Next]_vars, NEW s \in Symbol, cache[s] = "board"
      PROVE  cache'[s] = "board"
  <2>1. TypeOK /\ FlightInv /\ PristineInv
    BY <1>1 DEF IInv
  <2>2. ASSUME NEW t \in Thread, NEW answer \in Answer, Receive(t, answer)
        PROVE  cache'[s] = "board"
    <3>1. SymbolOf(t) \in Symbol /\ RoundOf(t) \in Round \cup {Get}
      BY <2>1, <2>2, RequestParts DEF Receive, FlightInv
    <3>2. CASE SymbolOf(t) = s /\ RoundOf(t) = Get
      BY <1>1, <2>1, <2>2, <3>2 DEF PristineInv, Receive
    <3>3. CASE ~(SymbolOf(t) = s /\ RoundOf(t) = Get)
      BY <1>1, <2>1, <2>2, <3>1, <3>3 DEF Receive, Remember, TypeOK
    <3>4. QED
      BY <3>2, <3>3
  <2>3. ASSUME NEW t \in Thread,
               \/ \E r \in Request \cup {none} : Ask(t, r)
               \/ Move(t) \/ StartFetch(t) \/ ClearAndFetch(t)
               \/ ClearFails(t) \/ ClearAndLeave(t)
        PROVE  cache' = cache
    BY <2>1, <2>3, MoveFrame, BeginFrame DEF Ask, ClearFails, ClearAndLeave
  <2>4. QED
    BY <1>1, <2>2, <2>3, StepCases DEF vars
<1>2. IInv /\ [Next]_vars =>
        [\A s \in Symbol : cache[s] = "board" => cache'[s] = "board"]_vars
  BY <1>1
<1>3. QED
  BY <1>2, Inductive, PTL DEF Spec, BoardKept
=============================================================================
