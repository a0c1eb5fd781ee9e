----------------------- MODULE TradingProcess_proofs ------------------------
(***************************************************************************)
(* Theorems about what a trading process keeps. Its token of the kabu API   *)
(* (TokenProvider), for any number of threads and any intervals. Its paper   *)
(* day: the account (PaperAccount), the decision events (FilterDecisions),   *)
(* the journal of the shadow positions (ShadowPositions), for any finite set *)
(* of symbols and any prices, rates, days, checkpoints and bounds; and about  *)
(* the three composed.                                                       *)
(***************************************************************************)
EXTENDS TokenProvider, MCPaperDay, FoldLemmas, FiniteSetTheorems, TLAPS

-----------------------------------------------------------------------------
(* The token: the inductive invariant, in named parts *)

\* Exactly the thread that holds the lock has a call to /token under way.
LockInv == \A t \in Thread : pc[t] \in {"fetching", "issued"} <=> lock = t

\* The provider's times agree with what really happened, and no cooldown runs
\* while the lock is held.
TimesInv ==
    /\ quiet = sinceAttempt
    /\ sinceFailure + cooldown >= FAILURE_BACKOFF
    /\ lock # none => cooldown = 0

\* A token issued to this process that nobody superseded is with the thread that
\* waits for it, or it is the token of the provider.
NewestInv ==
    newest = "ours" =>
        IF \E t \in Thread : pc[t] = "issued"
        THEN \A t \in Thread : pc[t] = "issued" => carried[t] = "valid"
        ELSE token # "stale"

TokenIInv == TypeOK /\ LockInv /\ TimesInv /\ NewestInv

\* Every step keeps the types.
LEMMA TypeStep == TypeOK /\ [Next]_vars => TypeOK'
<1> USE ConstantsAssumption DEF TypeOK, Place, Validity
<1>1. ASSUME TypeOK, NEW t \in Thread,
             Send(t) \/ RateLimited(t) \/ RequestFails(t) \/ Recover(t)
      PROVE  TypeOK'
  <2>1. CASE Send(t)
    BY <1>1, <2>1 DEF Send, Goto, provider, history
  <2>2. CASE RateLimited(t)
    BY <1>1, <2>2 DEF RateLimited, provider, history
  <2>3. CASE RequestFails(t)
    BY <1>1, <2>3 DEF RequestFails, Goto, provider, history
  <2>4. CASE RecoverRefused(t)
    BY <1>1, <2>4 DEF RecoverRefused, Goto, provider, history
  <2>5. CASE RecoverReused(t)
    BY <1>1, <2>5 DEF RecoverReused, Goto, provider, history
  <2>6. CASE RecoverFetch(t)
    BY <1>1, <2>6 DEF RecoverFetch, Goto
  <2>7. QED
    BY <1>1, <2>1, <2>2, <2>3, <2>4, <2>5, <2>6 DEF Recover
<1>2. ASSUME TypeOK, NEW t \in Thread, Answer(t) \/ FetchFails(t) \/ Report(t)
      PROVE  TypeOK'
  <2>1. CASE Answered(t)
    BY <1>2, <2>1 DEF Answered, Goto, provider, history
  <2>2. CASE Unauthorized(t)
    BY <1>2, <2>2 DEF Unauthorized, Goto, provider, history
  <2>3. CASE Issue(t)
    BY <1>2, <2>3 DEF Issue, Goto, Superseded
  <2>4. CASE FetchSucceeds(t)
    BY <1>2, <2>4 DEF FetchSucceeds, Goto, history
  <2>5. CASE RetrySucceeds(t)
    BY <1>2, <2>5 DEF RetrySucceeds, Goto, provider, history
  <2>6. CASE RetryUnauthorized(t)
    BY <1>2, <2>6 DEF RetryUnauthorized, Goto, provider, history
  <2>7. CASE FetchFails(t)
    BY <1>2, <2>7 DEF FetchFails, FailRecovery, Goto
  <2>8. CASE ReportRetrySucceeded(t)
    BY <1>2, <2>8 DEF ReportRetrySucceeded, Goto, history
  <2>9. CASE ReportRetryStillUnauthorized(t)
    BY <1>2, <2>9 DEF ReportRetryStillUnauthorized, FailRecovery, Goto
  <2>10. QED
    BY <1>2, <2>1, <2>2, <2>3, <2>4, <2>5, <2>6, <2>7, <2>8, <2>9 DEF Answer, Report
<1>3. ASSUME TypeOK, TokenTaken PROVE TypeOK'
  BY <1>3 DEF TokenTaken, Superseded
<1>4. ASSUME TypeOK, Tick PROVE TypeOK'
  BY <1>4 DEF Tick, Later, Earlier
<1>5. ASSUME TypeOK, UNCHANGED vars PROVE TypeOK'
  BY <1>5 DEF vars, provider, history
<1>6. QED
  BY <1>1, <1>2, <1>3, <1>4, <1>5 DEF Next

\* The steps that leave the lock, the times, the tokens and the calls to /token
\* alone.
Aside(t) ==
    \/ Send(t) \/ RateLimited(t) \/ RequestFails(t)
    \/ RecoverRefused(t) \/ RecoverReused(t) \/ Answered(t) \/ Unauthorized(t)
    \/ RetrySucceeds(t) \/ RetryUnauthorized(t) \/ ReportRetrySucceeded(t)

\* Such a step neither begins nor ends a call to /token.
LEMMA AsideFrame ==
    ASSUME TypeOK, NEW t \in Thread, Aside(t)
    PROVE  /\ lock' = lock /\ token' = token /\ newest' = newest
           /\ quiet' = quiet /\ sinceAttempt' = sinceAttempt
           /\ sinceFailure' = sinceFailure /\ cooldown' = cooldown
           /\ \A u \in Thread :
                 /\ pc'[u] = "fetching" <=> pc[u] = "fetching"
                 /\ pc'[u] = "issued" <=> pc[u] = "issued"
                 /\ pc[u] = "issued" => carried'[u] = carried[u]
<1> USE DEF TypeOK, Place, Goto, provider, history
<1>1. CASE Send(t) BY <1>1 DEF Send
<1>2. CASE RateLimited(t) BY <1>2 DEF RateLimited
<1>3. CASE RequestFails(t) BY <1>3 DEF RequestFails
<1>4. CASE RecoverRefused(t) BY <1>4 DEF RecoverRefused
<1>5. CASE RecoverReused(t) BY <1>5 DEF RecoverReused
<1>6. CASE Answered(t) BY <1>6 DEF Answered
<1>7. CASE Unauthorized(t) BY <1>7 DEF Unauthorized
<1>8. CASE RetrySucceeds(t) BY <1>8 DEF RetrySucceeds
<1>9. CASE RetryUnauthorized(t) BY <1>9 DEF RetryUnauthorized
<1>10. CASE ReportRetrySucceeded(t) BY <1>10 DEF ReportRetrySucceeded
<1>11. QED
  BY <1>1, <1>2, <1>3, <1>4, <1>5, <1>6, <1>7, <1>8, <1>9, <1>10 DEF Aside

\* The ways a step of the system can go.
LEMMA StepCases ==
    ASSUME [Next]_vars
    PROVE  \/ \E t \in Thread :
                 Aside(t) \/ RecoverFetch(t) \/ Issue(t) \/ FetchSucceeds(t)
                 \/ FetchFails(t) \/ ReportRetryStillUnauthorized(t)
           \/ TokenTaken \/ Tick \/ UNCHANGED vars
BY DEF Next, Recover, Answer, Report, Aside

\* The lock goes with the call to /token, and the times stay true.
LEMMA LockTimesStep ==
    ASSUME TypeOK, LockInv, TimesInv, [Next]_vars
    PROVE  LockInv' /\ TimesInv'
<1> USE ConstantsAssumption
<1>1. ASSUME NEW t \in Thread, Aside(t) PROVE LockInv' /\ TimesInv'
  BY <1>1, AsideFrame DEF LockInv, TimesInv
<1>2. ASSUME NEW t \in Thread, RecoverFetch(t) PROVE LockInv' /\ TimesInv'
  <2>1. LockInv'
    BY <1>2 DEF RecoverFetch, LockFree, LockInv, TypeOK, Goto
  <2>2. TimesInv'
    BY <1>2 DEF RecoverFetch, CoolingDown, TimesInv, TypeOK
  <2>3. QED
    BY <2>1, <2>2
<1>3. ASSUME NEW t \in Thread, Issue(t) PROVE LockInv' /\ TimesInv'
  <2>1. LockInv'
    BY <1>3 DEF Issue, LockInv, TypeOK, Goto
  <2>2. TimesInv'
    BY <1>3 DEF Issue, TimesInv
  <2>3. QED
    BY <2>1, <2>2
<1>4. ASSUME NEW t \in Thread, FetchSucceeds(t) PROVE LockInv' /\ TimesInv'
  <2>1. lock = t
    BY <1>4 DEF FetchSucceeds, LockInv
  <2>2. LockInv'
    BY <1>4, <2>1 DEF FetchSucceeds, LockInv, TypeOK, Goto
  <2>3. TimesInv'
    BY <1>4, <2>1 DEF FetchSucceeds, TimesInv, TypeOK, history
  <2>4. QED
    BY <2>2, <2>3
<1>5. ASSUME NEW t \in Thread, FetchFails(t) PROVE LockInv' /\ TimesInv'
  <2>1. lock = t
    BY <1>5 DEF FetchFails, LockInv
  <2>2. LockInv'
    BY <1>5, <2>1 DEF FetchFails, LockInv, TypeOK, Goto
  <2>3. TimesInv'
    BY <1>5 DEF FetchFails, FailRecovery, TimesInv
  <2>4. QED
    BY <2>2, <2>3
<1>6. ASSUME NEW t \in Thread, ReportRetryStillUnauthorized(t)
      PROVE  LockInv' /\ TimesInv'
  <2>1. LockInv'
    BY <1>6 DEF ReportRetryStillUnauthorized, LockInv, TypeOK, Goto
  <2>2. TimesInv'
    BY <1>6 DEF ReportRetryStillUnauthorized, LockFree, FailRecovery, TimesInv
  <2>3. QED
    BY <2>1, <2>2
<1>7. CASE TokenTaken
  BY <1>7 DEF TokenTaken, LockInv, TimesInv
<1>8. CASE Tick
  BY <1>8 DEF Tick, LockInv, TimesInv, TypeOK, Later, Earlier
<1>9. CASE UNCHANGED vars
  BY <1>9 DEF vars, provider, history, LockInv, TimesInv
<1>10. QED
  BY <1>1, <1>2, <1>3, <1>4, <1>5, <1>6, <1>7, <1>8, <1>9, StepCases

\* The newest token is never lost to the provider by a step of its own.
LEMMA NewestStep ==
    ASSUME TypeOK, LockInv, NewestInv, [Next]_vars
    PROVE  NewestInv'
<1> USE ConstantsAssumption
<1>1. ASSUME NEW t \in Thread, Aside(t) PROVE NewestInv'
  BY <1>1, AsideFrame DEF NewestInv
<1>2. ASSUME NEW t \in Thread, RecoverFetch(t) PROVE NewestInv'
  BY <1>2 DEF RecoverFetch, NewestInv, TypeOK, Goto
<1>3. ASSUME NEW t \in Thread, Issue(t) PROVE NewestInv'
  <2>1. lock = t /\ \A u \in Thread : pc'[u] = "issued" => u = t
    BY <1>3 DEF Issue, LockInv, TypeOK, Goto
  <2>2. pc'[t] = "issued" /\ carried'[t] = "valid"
    BY <1>3 DEF Issue, TypeOK, Goto
  <2>3. QED
    BY <2>1, <2>2 DEF NewestInv
<1>4. ASSUME NEW t \in Thread, FetchSucceeds(t) PROVE NewestInv'
  <2>1. \A u \in Thread : pc'[u] # "issued"
    BY <1>4 DEF FetchSucceeds, LockInv, TypeOK, Goto
  <2>2. newest = "ours" => carried[t] = "valid"
    BY <1>4 DEF FetchSucceeds, NewestInv
  <2>3. newest' = newest /\ token' = carried[t]
    BY <1>4 DEF FetchSucceeds, history
  <2>4. QED
    BY <2>1, <2>2, <2>3 DEF NewestInv
<1>5. ASSUME NEW t \in Thread, FetchFails(t) PROVE NewestInv'
  <2>1. lock = t /\ \A u \in Thread : pc'[u] # "issued"
    BY <1>5 DEF FetchFails, LockInv, TypeOK, Goto
  <2>2. CASE pc[t] = "issued"
    BY <1>5, <2>2 DEF FetchFails, NewestInv
  <2>3. CASE pc[t] # "issued"
    <3>1. \A u \in Thread : pc[u] # "issued"
      BY <2>1, <2>3 DEF LockInv
    <3>2. QED
      BY <1>5, <2>1, <2>3, <3>1 DEF FetchFails, NewestInv
  <2>4. QED
    BY <2>2, <2>3
<1>6. ASSUME NEW t \in Thread, ReportRetryStillUnauthorized(t) PROVE NewestInv'
  BY <1>6 DEF ReportRetryStillUnauthorized, NewestInv, TypeOK, Goto
<1>7. CASE TokenTaken
  BY <1>7 DEF TokenTaken, NewestInv
<1>8. CASE Tick
  BY <1>8 DEF Tick, NewestInv
<1>9. CASE UNCHANGED vars
  BY <1>9 DEF vars, provider, history, NewestInv
<1>10. QED
  BY <1>1, <1>2, <1>3, <1>4, <1>5, <1>6, <1>7, <1>8, <1>9, StepCases

\* IInv is an inductive invariant.
THEOREM TokenInductive == Spec => []TokenIInv
<1>1. Init => TokenIInv
  <2> SUFFICES ASSUME Init PROVE TokenIInv
    OBVIOUS
  <2> USE ConstantsAssumption DEF Init
  <2>1. TypeOK
    <3>1. /\ pc \in [Thread -> Place] /\ carried \in [Thread -> Validity]
          /\ resends \in [Thread -> 0..MAX_429_RETRIES]
      BY DEF Place, Validity
    <3>2. /\ sinceAttempt \in 0..MIN_INTERVAL /\ quiet \in 0..MIN_INTERVAL
          /\ cooldown \in 0..FAILURE_BACKOFF /\ sinceFailure \in 0..FAILURE_BACKOFF
          /\ disturbances \in 0..MaxDisturbances
      OBVIOUS
    <3>3. QED
      BY <3>1, <3>2 DEF TypeOK, Validity
  <2>2. LockInv /\ TimesInv
    BY DEF LockInv, TimesInv
  <2>3. NewestInv
    BY DEF NewestInv
  <2>4. QED
    BY <2>1, <2>2, <2>3 DEF TokenIInv
<1>2. TokenIInv /\ [Next]_vars => TokenIInv'
  BY TypeStep, LockTimesStep, NewestStep DEF TokenIInv
<1>3. QED
  BY <1>1, <1>2, PTL DEF Spec

\* Every variable has its type in every reachable state.
THEOREM TokenTyped == Spec => []TypeOK
<1>1. TokenIInv => TypeOK
  BY DEF TokenIInv
<1>2. QED
  BY <1>1, TokenInductive, PTL

\* Outside a call, the provider's token is not superseded by a call of this
\* process, for any number of threads.
THEOREM ProviderHoldsNewest == Spec => []OwnTokenNewest
<1>1. TokenIInv => OwnTokenNewest
  <2>1. TokenIInv /\ LockFree => \A t \in Thread : pc[t] # "issued"
    BY ConstantsAssumption DEF TokenIInv, LockInv, LockFree
  <2>2. QED
    BY <2>1 DEF TokenIInv, NewestInv, OwnTokenNewest
<1>2. QED
  BY <1>1, TokenInductive, PTL

\* Calls to /token are MIN_INTERVAL apart, and FAILURE_BACKOFF after a failure.
THEOREM TokenCallsAreSpaced == Spec => TokenCallsSpaced
<1>1. ASSUME TokenIInv, [Next]_vars, NEW t \in Thread,
             pc[t] # "fetching", pc'[t] = "fetching"
      PROVE  quiet = MIN_INTERVAL /\ sinceFailure = FAILURE_BACKOFF
  <2>1. TypeOK /\ TimesInv
    BY <1>1 DEF TokenIInv
  <2>2. ASSUME NEW u \in Thread, RecoverFetch(u)
        PROVE  quiet = MIN_INTERVAL /\ sinceFailure = FAILURE_BACKOFF
    BY <2>1, <2>2, ConstantsAssumption
    DEF RecoverFetch, CoolingDown, RecentAttempt, TimesInv, TypeOK
  <2>3. ASSUME NEW u \in Thread, Aside(u) PROVE FALSE
    BY <1>1, <2>1, <2>3, AsideFrame
  <2>4. ASSUME NEW u \in Thread, Issue(u) PROVE FALSE
    BY <1>1, <2>1, <2>4 DEF Issue, Goto, TypeOK
  <2>5. ASSUME NEW u \in Thread, FetchSucceeds(u) PROVE FALSE
    BY <1>1, <2>1, <2>5 DEF FetchSucceeds, Goto, TypeOK
  <2>6. ASSUME NEW u \in Thread, FetchFails(u) PROVE FALSE
    BY <1>1, <2>1, <2>6 DEF FetchFails, Goto, TypeOK
  <2>7. ASSUME NEW u \in Thread, ReportRetryStillUnauthorized(u) PROVE FALSE
    BY <1>1, <2>1, <2>7 DEF ReportRetryStillUnauthorized, Goto, TypeOK
  <2>8. CASE TokenTaken \/ Tick \/ UNCHANGED vars
    BY <1>1, <2>8 DEF TokenTaken, Tick, vars
  <2>9. QED
    BY <1>1, <2>2, <2>3, <2>4, <2>5, <2>6, <2>7, <2>8, StepCases
<1>2. TokenIInv /\ [Next]_vars =>
        [\A t \in Thread : pc[t] # "fetching" /\ pc'[t] = "fetching"
            => quiet = MIN_INTERVAL /\ sinceFailure = FAILURE_BACKOFF]_vars
  BY <1>1
<1>3. QED
  BY <1>2, TokenInductive, PTL DEF Spec, TokenCallsSpaced

-----------------------------------------------------------------------------
(* A process with one thread, as the trading loop. *)

\* What the only thread retries with is what the provider holds, and a cooldown
\* has its flag and no request beyond the first attempt.
SingleInv(t) ==
    /\ pc[t] \in {"retry", "accepted", "rejected"} => carried[t] = token
    /\ pc[t] = "rejected" => carried[t] = "stale"
    /\ pc[t] \in {"fetching", "issued", "retry", "accepted", "rejected"} => ~CoolingDown
    /\ CoolingDown => recoveryFailed

\* With one thread, a rejected retry means that the provider has no valid token,
\* and the failure flag is up as long as requests are refused.
THEOREM SingleThread ==
    ASSUME NEW only, Thread = {only}
    PROVE  Spec => [](RejectionMeansNoToken /\ CooldownFlagged)
<1> USE DEF SingleInv
<1>1. Init => SingleInv(only)
  BY DEF Init, CoolingDown
<1>2. ASSUME TypeOK, SingleInv(only), [Next]_vars
      PROVE  SingleInv(only)'
  <2> USE <1>2 DEF TypeOK, Goto, CoolingDown, provider, history
  <2>1. CASE Send(only) \/ RateLimited(only) \/ RequestFails(only)
    BY <2>1 DEF Send, RateLimited, RequestFails
  <2>2. CASE Recover(only)
    BY <2>2 DEF Recover, RecoverRefused, RecoverReused, RecoverFetch
  <2>3. CASE Answered(only) \/ Unauthorized(only)
             \/ RetrySucceeds(only) \/ RetryUnauthorized(only)
    BY <2>3 DEF Answered, Unauthorized, RetrySucceeds, RetryUnauthorized
  <2>4. CASE Issue(only) \/ FetchSucceeds(only)
    BY <2>4 DEF Issue, FetchSucceeds
  <2>5. CASE FetchFails(only) \/ Report(only)
    BY <2>5
    DEF FetchFails, Report, ReportRetrySucceeded, ReportRetryStillUnauthorized,
        FailRecovery
  <2>6. CASE TokenTaken
    BY <2>6 DEF TokenTaken, Superseded
  <2>7. CASE Tick
    BY <2>7, ConstantsAssumption DEF Tick, Earlier
  <2>8. CASE UNCHANGED vars
    BY <2>8 DEF vars
  <2>9. QED
    BY <2>1, <2>2, <2>3, <2>4, <2>5, <2>6, <2>7, <2>8 DEF Next, Answer
<1>3. SingleInv(only) => RejectionMeansNoToken /\ CooldownFlagged
  BY DEF RejectionMeansNoToken, CooldownFlagged
<1>4. QED
  BY <1>1, <1>2, <1>3, TokenTyped, PTL DEF Spec

-----------------------------------------------------------------------------
(* The account: the inductive invariant, in named parts *)

\* The profit is that of the day of the account, and there is none of a later day.
Dated(e) ==
    /\ e.day <= today
    /\ e.day = today => e.realized = e.profits[today]
    /\ \A d \in 1..MaxDay : d > e.day => e.profits[d] = 0

\* Of the account in memory and of that in the file.
Sound(e) == e \in Account /\ Dated(e) /\ Balanced(e)

RestType ==
    /\ market \in [Symbol -> Price]
    /\ prices \in [Symbol -> Price \cup {unknown}]
    /\ capital \in Nat
    /\ baseline \in [day : 0..MaxDay, capital : Nat]
    /\ today \in 1..MaxDay
    /\ trading \in BOOLEAN
    /\ crashes \in 0..MaxCrashes

AccountIInv == Sound(account) /\ Sound(saved) /\ RestType

-----------------------------------------------------------------------------
(* Amounts *)

LEMMA Constants ==
    /\ ORDER_UNIT \in Nat \ {0} /\ INITIAL_CASH \in Nat \ {0} /\ OPERATING_CAPITAL \in Nat \ {0}
    /\ MaxOrders \in Nat \ {0} /\ MaxCrashes \in Nat /\ MaxDay \in Nat \ {0}
    /\ IsFiniteSet(Symbol)
    /\ \A p \in Price : p \in Nat \ {0}
    /\ IsFiniteSet(1..MaxDay)
<1>1. IsFiniteSet(1..MaxDay)
  BY TradingDaysAssumption, FS_Interval
<1>2. ORDER_UNIT \in Nat \ {0} /\ INITIAL_CASH \in Nat \ {0}
  BY PaperAccountAssumption, SMT
<1>3. OPERATING_CAPITAL \in Nat \ {0} /\ MaxOrders \in Nat \ {0}
  BY PaperAccountAssumption, SMT
<1>4. MaxCrashes \in Nat /\ IsFiniteSet(Symbol)
  BY PaperAccountAssumption, SMT
<1>5. Price \subseteq Nat \ {0} /\ MaxDay \in Nat \ {0}
  BY TradingDaysAssumption
<1>6. QED
  BY <1>1, <1>2, <1>3, <1>4, <1>5

\* Arithmetic apart from records, as the solver likes it
LEMMA NaturalSums ==
    /\ \A x, y \in Nat : x + y \in Nat
    /\ \A x \in Int, y, z \in Nat : x + y - z \in Int
OBVIOUS

LEMMA OneMoreOrder == \A n \in 0..MaxOrders : n < MaxOrders => n + 1 \in 0..MaxOrders
<1>1. MaxOrders \in Nat
  BY Constants
<1>2. QED
  BY <1>1

LEMMA Rates == /\ FEE_RATE \in Nat /\ FEE_RATE <= 10000
               /\ SLIPPAGE \in Nat /\ SLIPPAGE <= 10000
<1>1. FEE_RATE \in 0..10000 /\ SLIPPAGE \in 0..10000
  <2>1. {FEE_RATE, SLIPPAGE} \subseteq 0..10000
    BY PaperAccountAssumption, SMTT(30)
  <2>2. QED
    BY <2>1, Z3
<1>2. \A r \in 0..10000 : r \in Nat /\ r <= 10000
  OBVIOUS
<1>3. QED
  BY <1>1, <1>2

\* The balance, with the sums of this module
LEMMA Balance ==
    ASSUME NEW e
    PROVE  Balanced(e) <=> e.cash + SumOver(e.cost, Symbol) = INITIAL_CASH + SumOver(e.profits, 1..MaxDay)
BY DEF Balanced, Total, SumOver

LEMMA SumsOfAccount ==
    ASSUME NEW e, e.cost \in [Symbol -> Nat], e.profits \in [1..MaxDay -> Int]
    PROVE  SumOver(e.cost, Symbol) \in Int /\ SumOver(e.profits, 1..MaxDay) \in Int
<1>1. e.cost \in [Symbol -> Int]
  OBVIOUS
<1>2. QED
  BY <1>1, Constants, SumType, Zenon

LEMMA Quotient ==
    ASSUME NEW x \in Nat, NEW y \in Nat, y <= x * 10000
    PROVE  y \div 10000 \in Nat /\ y \div 10000 <= x
OBVIOUS

Rate(x, r) == (x * r) \div 10000

\* A rate of an amount is not more than the amount.
LEMMA RateOf ==
    ASSUME NEW x \in Nat, NEW r \in Nat, r <= 10000
    PROVE  Rate(x, r) \in Nat /\ Rate(x, r) <= x
<1>1. x * r \in Nat /\ x * r <= x * 10000
  BY SMT
<1>2. PICK y : y = x * r
  OBVIOUS
<1>3. y \in Nat /\ y <= x * 10000
  BY <1>1, <1>2
<1>4. y \div 10000 \in Nat /\ y \div 10000 <= x
  BY <1>3, Quotient
<1>5. Rate(x, r) = y \div 10000
  BY <1>2 DEF Rate
<1>6. QED
  BY <1>4, <1>5

LEMMA PricesOf ==
    ASSUME NEW p \in Price
    PROVE  BuyPrice(p) \in Nat /\ SellPrice(p) \in Nat
<1>1. p \in Nat /\ 10000 + SLIPPAGE \in Nat /\ 10000 - SLIPPAGE \in Nat /\ 10000 - SLIPPAGE <= 10000
  BY Constants, Rates
<1>2. p * (10000 + SLIPPAGE) \in Nat
  BY <1>1, SMT
<1>3. BuyPrice(p) \in Nat
  <2>1. \A y \in Nat : y \div 10000 \in Nat
    OBVIOUS
  <2>2. QED
    BY <1>2, <2>1 DEF BuyPrice
<1>4. SellPrice(p) \in Nat
  <2>1. SellPrice(p) = Rate(p, 10000 - SLIPPAGE)
    BY DEF SellPrice, Rate
  <2>2. QED
    BY <1>1, <2>1, RateOf
<1>5. QED
  BY <1>3, <1>4

LEMMA FeeOf == \A x \in Nat : Fee(x) \in Nat /\ Fee(x) <= x
<1>1. FEE_RATE \in Nat /\ FEE_RATE <= 10000
  BY Rates
<1>2. \A x : Fee(x) = Rate(x, FEE_RATE)
  BY DEF Fee, Rate
<1>3. QED
  BY <1>1, <1>2, RateOf

LEMMA RequiredType ==
    ASSUME NEW p \in Price
    PROVE  Required(p) \in Nat
<1>1. BuyPrice(p) * ORDER_UNIT \in Nat
  BY PricesOf, Constants, SMT
<1>2. QED
  BY <1>1, FeeOf DEF Required

\* A sale brings something or nothing.
LEMMA ProceedsType ==
    ASSUME NEW s \in Symbol, NEW p \in Price, account.quantity[s] \in Nat
    PROVE  Proceeds(s, p) \in Nat
<1>1. SellPrice(p) * account.quantity[s] \in Nat
  BY PricesOf, SMT
<1>2. QED
  BY <1>1, FeeOf DEF Proceeds

-----------------------------------------------------------------------------
(* Accounts *)

LEMMA NewSound ==
    ASSUME today \in 1..MaxDay
    PROVE  Sound(NewAccount)
<1> DEFINE e == NewAccount
<1>1. e \in Account
  BY Constants DEF NewAccount, Account
<1>2. Dated(e)
  BY Constants DEF NewAccount, Dated
<1>3. SumOver([d \in 1..MaxDay |-> 0], 1..MaxDay) = 0 /\ SumOver([s \in Symbol |-> 0], Symbol) = 0
  BY Constants, SumOfNothing
<1>4. /\ e.cash = INITIAL_CASH /\ e.cost = [s \in Symbol |-> 0]
      /\ e.profits = [d \in 1..MaxDay |-> 0]
  BY DEF NewAccount
<1>5. Balanced(e)
  <2>1. SumOver(e.cost, Symbol) = 0 /\ SumOver(e.profits, 1..MaxDay) = 0
    BY <1>3, <1>4
  <2>2. QED
    BY <1>4, <2>1, Balance, Constants
<1>6. QED
  BY <1>1, <1>2, <1>5 DEF Sound

\* Forgetting the profit of an earlier day, at a start or later.
LEMMA LoadedSound ==
    ASSUME NEW e, Sound(e), today \in 1..MaxDay
    PROVE  /\ Sound(Loaded(e)) /\ Sound(ResetIfNeeded(e))
           /\ ResetIfNeeded(e).day = today
           /\ ResetIfNeeded(e).realized = e.profits[today]
           /\ ResetIfNeeded(e).profits = e.profits /\ ResetIfNeeded(e).cost = e.cost
           /\ ResetIfNeeded(e).cash = e.cash /\ ResetIfNeeded(e).quantity = e.quantity
           /\ ResetIfNeeded(e).orders = e.orders
<1>1. e \in Account /\ Dated(e) /\ Balanced(e)
  BY DEF Sound
<1>2. CASE e.day = today
  BY <1>1, <1>2 DEF Loaded, ResetIfNeeded, Sound, Dated
<1>3. CASE e.day # today
  <2> DEFINE f == [e EXCEPT !.realized = 0]
             c == [e EXCEPT !.day = today, !.realized = 0]
  <2>1. Loaded(e) = f /\ ResetIfNeeded(e) = c
    BY <1>3 DEF Loaded, ResetIfNeeded
  <2>2. f \in Account /\ c \in Account
    <3>1. 0 \in Int
      OBVIOUS
    <3>2. QED
      BY <1>1, <3>1, Zenon DEF Account
  <2>3. /\ f.day = e.day /\ f.profits = e.profits /\ f.cash = e.cash /\ f.cost = e.cost
        /\ c.day = today /\ c.profits = e.profits /\ c.cash = e.cash /\ c.cost = e.cost
        /\ c.realized = 0 /\ c.quantity = e.quantity /\ c.orders = e.orders
    BY <1>1 DEF Account
  <2> HIDE DEF f, c
  <2>4. Balanced(f) /\ Balanced(c)
    BY <1>1, <2>3, Balance
  <2>5. e.day \in 1..MaxDay /\ e.profits[today] = 0
    BY <1>1, <1>3 DEF Dated, Account
  <2>6. Dated(f) /\ Dated(c)
    BY <1>1, <1>3, <2>3, <2>5 DEF Dated
  <2>7. QED
    BY <2>1, <2>2, <2>3, <2>4, <2>5, <2>6 DEF Sound
<1>4. QED
  BY <1>2, <1>3

\* What is paid becomes cost.
LEMMA BoughtSound ==
    ASSUME Sound(account), NEW s \in Symbol, NEW p \in Price, Affordable(p),
           account.orders < MaxOrders
    PROVE  Sound(Bought(s, p))
<1> DEFINE e == account
           f == Bought(s, p)
           paid == Required(p)
<1>1. e \in Account /\ Dated(e) /\ Balanced(e)
  BY DEF Sound
<1>2. /\ e.cash \in Nat /\ e.quantity \in [Symbol -> Nat] /\ e.cost \in [Symbol -> Nat]
      /\ e.orders \in 0..MaxOrders /\ e.realized \in Int /\ e.day \in 1..MaxDay
      /\ e.profits \in [1..MaxDay -> Int]
  BY <1>1 DEF Account
<1>3. paid \in Nat /\ e.cash >= paid
  BY RequiredType DEF Affordable
<1> DEFINE c == [e EXCEPT !.cash = @ - paid, !.quantity[s] = @ + ORDER_UNIT, !.cost[s] = @ + paid,
                          !.orders = @ + 1]
<1>a. f = c
  BY Zenon DEF Bought
<1> HIDE DEF e, f, paid
<1>4. /\ f.cash = e.cash - paid
      /\ f.cost = [e.cost EXCEPT ![s] = e.cost[s] + paid]
      /\ f.quantity = [e.quantity EXCEPT ![s] = e.quantity[s] + ORDER_UNIT]
      /\ f.orders = e.orders + 1
      /\ f.realized = e.realized /\ f.day = e.day /\ f.profits = e.profits
      /\ f = [cash |-> f.cash, quantity |-> f.quantity, cost |-> f.cost, orders |-> f.orders,
              realized |-> f.realized, day |-> f.day, profits |-> f.profits]
  BY <1>1, <1>a DEF Account
<1>5. e.cost[s] \in Nat /\ e.quantity[s] \in Nat
  BY <1>2
<1>6. f.cash \in Nat /\ f.orders \in 0..MaxOrders
  <2>1. f.cash \in Nat
    BY <1>2, <1>3, <1>4
  <2>2. e.orders < MaxOrders
    BY DEF e
  <2>3. f.orders \in 0..MaxOrders
    <3>1. e.orders + 1 \in 0..MaxOrders
      BY <1>2, <2>2, OneMoreOrder
    <3>2. QED
      BY <1>4, <3>1, Zenon
  <2>4. QED
    BY <2>1, <2>3
<1>7. f.quantity \in [Symbol -> Nat] /\ f.cost \in [Symbol -> Nat]
  <2>1. e.cost[s] + paid \in Nat /\ e.quantity[s] + ORDER_UNIT \in Nat
    <3>1. ORDER_UNIT \in Nat
      BY Constants
    <3>2. QED
      BY <1>3, <1>5, <3>1, NaturalSums
  <2>2. QED
    BY <1>2, <1>4, <2>1
<1>8. f \in Account
  BY <1>2, <1>4, <1>6, <1>7 DEF Account
<1>9. Dated(f)
  BY <1>1, <1>4 DEF Dated
<1>10. SumOver(f.cost, Symbol) = SumOver(e.cost, Symbol) + paid
  <2>1. e.cost \in [Symbol -> Int] /\ f.cost \in [Symbol -> Int]
    BY <1>2, <1>7
  <2>2. \A t \in Symbol \ {s} : e.cost[t] = f.cost[t]
    BY <1>2, <1>4
  <2>3. f.cost[s] = e.cost[s] + paid
    BY <1>2, <1>4
  <2>4. SumOver(f.cost, Symbol) = SumOver(e.cost, Symbol) + f.cost[s] - e.cost[s]
    <3>1. IsFiniteSet(Symbol)
      BY Constants
    <3> DEFINE v == e.cost
               w == f.cost
    <3>2. v \in [Symbol -> Int] /\ w \in [Symbol -> Int] /\ \A t \in Symbol \ {s} : v[t] = w[t]
      BY <2>1, <2>2
    <3> HIDE DEF v, w
    <3>3. SumOver(w, Symbol) = SumOver(v, Symbol) + w[s] - v[s]
      BY <3>1, <3>2, SumDiffers
    <3>4. QED
      BY <3>3 DEF v, w
  <2>5. SumOver(e.cost, Symbol) \in Int
    BY <2>1, Constants, SumType
  <2>6. QED
    BY <1>3, <1>5, <2>3, <2>4, <2>5
<1>11. Balanced(f)
  <2>1. SumOver(e.cost, Symbol) \in Int /\ SumOver(e.profits, 1..MaxDay) \in Int
    BY <1>2, SumsOfAccount
  <2>2. e.cash + SumOver(e.cost, Symbol) = INITIAL_CASH + SumOver(e.profits, 1..MaxDay)
    BY <1>1, Balance
  <2>3. f.cash + SumOver(f.cost, Symbol) = e.cash + SumOver(e.cost, Symbol)
    BY <1>2, <1>3, <1>4, <1>10, <2>1
  <2>4. f.cash + SumOver(f.cost, Symbol) = INITIAL_CASH + SumOver(f.profits, 1..MaxDay)
    BY <1>4, <2>2, <2>3
  <2>5. QED
    BY <2>4, Balance
<1>12. QED
  BY <1>8, <1>9, <1>11 DEF Sound, f

\* What is received is the cost and the profit.
LEMMA SoldSound ==
    ASSUME Sound(account), NEW s \in Symbol, NEW p \in Price, today \in 1..MaxDay,
           account.orders < MaxOrders
    PROVE  Sound(Sold(s, p))
<1> DEFINE e == ResetIfNeeded(account)
           f == Sold(s, p)
           income == Proceeds(s, p)
           cost == account.cost[s]
<1>1. Sound(e) /\ e.day = today /\ e.realized = e.profits[today] /\ e.quantity = account.quantity
      /\ e.cost = account.cost /\ e.orders = account.orders
  BY LoadedSound
<1>2. /\ e \in Account /\ e.cash \in Nat /\ e.quantity \in [Symbol -> Nat] /\ e.cost \in [Symbol -> Nat]
      /\ e.orders \in 0..MaxOrders /\ e.realized \in Int /\ e.day \in 1..MaxDay
      /\ e.profits \in [1..MaxDay -> Int]
  <2> HIDE DEF e
  <2> QED
    BY <1>1 DEF Sound, Account
<1>3. Dated(e) /\ Balanced(e)
  BY <1>1 DEF Sound
<1>4. income \in Nat /\ cost \in Nat
  <2>1. account.quantity[s] \in Nat /\ account.cost[s] \in Nat
    BY <1>1, <1>2
  <2>2. QED
    BY <2>1, ProceedsType
<1>5. f = [e EXCEPT !.cash = @ + income, !.quantity[s] = 0, !.cost[s] = 0, !.orders = @ + 1,
                    !.realized = @ + income - cost, !.profits[today] = @ + income - cost]
  BY Zenon DEF Sold
<1> HIDE DEF e, f, income, cost
<1>6. /\ f.cash = e.cash + income
      /\ f.cost = [e.cost EXCEPT ![s] = 0]
      /\ f.quantity = [e.quantity EXCEPT ![s] = 0]
      /\ f.orders = e.orders + 1
      /\ f.realized = e.realized + income - cost
      /\ f.day = e.day
      /\ f.profits = [e.profits EXCEPT ![today] = e.profits[today] + income - cost]
      /\ f = [cash |-> f.cash, quantity |-> f.quantity, cost |-> f.cost, orders |-> f.orders,
              realized |-> f.realized, day |-> f.day, profits |-> f.profits]
  BY <1>2, <1>5 DEF Account
<1>7. e.profits[today] \in Int /\ e.cost[s] = cost
  BY <1>1, <1>2 DEF cost
<1>8. /\ f.cash \in Nat /\ f.orders \in 0..MaxOrders /\ f.realized \in Int
      /\ f.quantity \in [Symbol -> Nat] /\ f.cost \in [Symbol -> Nat]
      /\ f.profits \in [1..MaxDay -> Int]
  <2>1. f.cash \in Nat /\ f.realized \in Int
    <3>1. e.cash + income \in Nat
      BY <1>2, <1>4, NaturalSums
    <3>2. e.realized + income - cost \in Int
      BY <1>2, <1>4, NaturalSums
    <3>3. QED
      BY <1>6, <3>1, <3>2, Zenon
  <2>2. f.orders \in 0..MaxOrders
    <3>1. e.orders < MaxOrders
      BY <1>1
    <3>2. e.orders + 1 \in 0..MaxOrders
      BY <1>2, <3>1, OneMoreOrder
    <3>3. QED
      BY <1>6, <3>2, Zenon
  <2>3. f.quantity \in [Symbol -> Nat] /\ f.cost \in [Symbol -> Nat]
    <3>1. [e.quantity EXCEPT ![s] = 0] \in [Symbol -> Nat] /\ [e.cost EXCEPT ![s] = 0] \in [Symbol -> Nat]
      BY <1>2
    <3>2. f.quantity = [e.quantity EXCEPT ![s] = 0] /\ f.cost = [e.cost EXCEPT ![s] = 0]
      BY <1>6
    <3>3. QED
      BY <3>1, <3>2
  <2>4. e.profits[today] + income - cost \in Int
    BY <1>4, <1>7
  <2>5. f.profits \in [1..MaxDay -> Int]
    BY <1>2, <1>6, <2>4
  <2>6. QED
    BY <2>1, <2>2, <2>3, <2>5
<1>9. f \in Account
  BY <1>2, <1>6, <1>8 DEF Account
<1>10. f.profits[today] = e.profits[today] + income - cost /\ \A d \in 1..MaxDay \ {today} : e.profits[d] = f.profits[d]
  BY <1>2, <1>6
<1>11. Dated(f)
  <2>1. f.realized = f.profits[today] /\ f.day = today
    BY <1>1, <1>6, <1>10
  <2>2. \A d \in 1..MaxDay : d > today => f.profits[d] = 0
    BY <1>1, <1>3, <1>10 DEF Dated
  <2>3. QED
    BY <2>1, <2>2 DEF Dated
<1>12. SumOver(f.cost, Symbol) = SumOver(e.cost, Symbol) - cost
  <2>1. e.cost \in [Symbol -> Int] /\ f.cost \in [Symbol -> Int]
    BY <1>2, <1>8
  <2>2. f.cost[s] = 0 /\ \A t \in Symbol \ {s} : e.cost[t] = f.cost[t]
    BY <1>2, <1>6
  <2>3. SumOver(f.cost, Symbol) = SumOver(e.cost, Symbol) + f.cost[s] - e.cost[s]
    <3>1. IsFiniteSet(Symbol)
      BY Constants
    <3> DEFINE v == e.cost
               w == f.cost
    <3>2. v \in [Symbol -> Int] /\ w \in [Symbol -> Int] /\ \A t \in Symbol \ {s} : v[t] = w[t]
      BY <2>1, <2>2
    <3> HIDE DEF v, w
    <3>3. SumOver(w, Symbol) = SumOver(v, Symbol) + w[s] - v[s]
      BY <3>1, <3>2, SumDiffers
    <3>4. QED
      BY <3>3 DEF v, w
  <2>4. SumOver(e.cost, Symbol) \in Int
    BY <2>1, Constants, SumType
  <2>5. QED
    BY <1>4, <1>7, <2>2, <2>3, <2>4
<1>13. SumOver(f.profits, 1..MaxDay) = SumOver(e.profits, 1..MaxDay) + income - cost
  <2>1. SumOver(f.profits, 1..MaxDay) = SumOver(e.profits, 1..MaxDay) + f.profits[today] - e.profits[today]
    <3>1. PICK D : D = 1..MaxDay
      OBVIOUS
    <3>2. IsFiniteSet(D)
      BY <3>1, Constants
    <3> DEFINE v == e.profits
               w == f.profits
    <3>3. v \in [D -> Int] /\ w \in [D -> Int] /\ today \in D /\ \A d \in D \ {today} : v[d] = w[d]
      BY <1>2, <1>8, <1>10, <3>1
    <3> HIDE DEF v, w
    <3>4. SumOver(w, D) = SumOver(v, D) + w[today] - v[today]
      BY <3>2, <3>3, SumDiffers
    <3>5. QED
      BY <3>1, <3>4 DEF v, w
  <2>2. SumOver(e.profits, 1..MaxDay) \in Int
    BY <1>2, SumsOfAccount
  <2>3. QED
    BY <1>4, <1>7, <1>10, <2>1, <2>2
<1>14. Balanced(f)
  <2>1. SumOver(e.cost, Symbol) \in Int /\ SumOver(e.profits, 1..MaxDay) \in Int
    BY <1>2, SumsOfAccount
  <2>2. e.cash + SumOver(e.cost, Symbol) = INITIAL_CASH + SumOver(e.profits, 1..MaxDay)
    BY <1>3, Balance
  <2>3. f.cash + SumOver(f.cost, Symbol) = (e.cash + SumOver(e.cost, Symbol)) + (income - cost)
    <3>1. \A c, t, i, k \in Int : (c + i) + (t - k) = (c + t) + (i - k)
      OBVIOUS
    <3>2. f.cash = e.cash + income /\ e.cash \in Int /\ income \in Int /\ cost \in Int
      BY <1>2, <1>4, <1>6
    <3>3. QED
      BY <1>12, <2>1, <3>1, <3>2
  <2>a. SumOver(f.profits, 1..MaxDay) = SumOver(e.profits, 1..MaxDay) + (income - cost)
    BY <1>4, <1>13, <2>1
  <2>4. f.cash + SumOver(f.cost, Symbol) = INITIAL_CASH + SumOver(f.profits, 1..MaxDay)
    BY <1>4, <2>1, <2>2, <2>3, <2>a, Constants
  <2>5. QED
    BY <2>4, Balance
<1>15. QED
  BY <1>9, <1>11, <1>14 DEF Sound, f

-----------------------------------------------------------------------------
(* Steps *)

\* An account that was sound on a day is so on that day and on the next.
LEMMA SoundStays ==
    ASSUME NEW e, Sound(e), today \in Nat, today' \in {today, today + 1}
    PROVE  e \in Account /\ Balanced(e) /\ Dated(e)'
<1>1. e \in Account /\ Dated(e) /\ Balanced(e)
  BY DEF Sound
<1>2. e.day \in Nat
  BY <1>1 DEF Account
<1>3. e.day <= today'
  BY <1>1, <1>2 DEF Dated
<1>4. e.day = today' => e.realized = e.profits[today']
  BY <1>1, <1>2 DEF Dated
<1>5. QED
  BY <1>1, <1>3, <1>4 DEF Dated

\* The accounts that the steps leave were sound before the day went on.
LEMMA AccountsStay ==
    ASSUME today \in Nat, today' \in {today, today + 1},
           NEW e, NEW f, Sound(e), Sound(f), account' = e, saved' = f
    PROVE  Sound(account)' /\ Sound(saved)'
<1>1. e \in Account /\ Balanced(e) /\ Dated(e)' /\ f \in Account /\ Balanced(f) /\ Dated(f)'
  BY SoundStays
<1>2. Dated(account)' /\ Dated(saved)'
  BY <1>1 DEF Dated
<1>3. QED
  BY <1>1, <1>2 DEF Sound

\* No process has touched the account, whatever the day.
AccountUntouched ==
    /\ market \in [Symbol -> Price]
    /\ account = NewAccount
    /\ saved = NewAccount
    /\ prices = [s \in Symbol |-> unknown]
    /\ capital = 0
    /\ baseline = [day |-> 0, capital |-> 0]
    /\ crashes = 0

LEMMA UntouchedSound ==
    ASSUME AccountUntouched, today \in 1..MaxDay, trading \in BOOLEAN
    PROVE  AccountIInv /\ CapitalIsFiled
<1>1. Sound(account) /\ Sound(saved)
  BY NewSound DEF AccountUntouched
<1>2. prices \in [Symbol -> Price \cup {unknown}] /\ market \in [Symbol -> Price]
  BY DEF AccountUntouched
<1>3. capital \in Nat /\ baseline \in [day : 0..MaxDay, capital : Nat] /\ crashes \in 0..MaxCrashes
  <2>1. capital = 0 /\ baseline = [day |-> 0, capital |-> 0] /\ crashes = 0
    BY DEF AccountUntouched
  <2>2. 0 \in 0..MaxDay /\ 0 \in 0..MaxCrashes /\ 0 \in Nat
    BY Constants
  <2>3. QED
    BY <2>1, <2>2
<1>4. CapitalIsFiled
  <2>1. baseline.day = 0 /\ 0 <= today /\ today # 0
    BY Constants DEF AccountUntouched
  <2>2. QED
    BY <2>1 DEF CapitalIsFiled
<1>5. QED
  BY <1>1, <1>2, <1>3, <1>4 DEF AccountIInv, RestType

LEMMA Initially == AccountInit => AccountIInv /\ CapitalIsFiled
<1> SUFFICES ASSUME AccountInit PROVE AccountIInv /\ CapitalIsFiled
  OBVIOUS
<1>1. AccountUntouched
  BY DEF AccountInit, AccountUntouched
<1>2. today \in 1..MaxDay /\ trading \in BOOLEAN
  <2>1. today = 1 /\ trading = FALSE
    BY DEF AccountInit, DaysInit
  <2>2. 1 \in 1..MaxDay
    BY Constants
  <2>3. QED
    BY <2>1, <2>2
<1>3. QED
  BY <1>1, <1>2, UntouchedSound

LEMMA StartStep == AccountIInv /\ StartTrading => AccountIInv'
<1> SUFFICES ASSUME AccountIInv, StartTrading PROVE AccountIInv'
  OBVIOUS
<1>1. Sound(account) /\ Sound(saved) /\ RestType /\ today \in 1..MaxDay /\ today' = today
  BY DEF AccountIInv, RestType, StartTrading, Begin
<1>2. Sound(Loaded(saved))
  BY <1>1, LoadedSound
<1>3. Sound(account)' /\ Sound(saved)'
  <2>1. account' = Loaded(saved) /\ saved' = saved /\ today \in Nat
    BY <1>1, Constants DEF StartTrading
  <2>2. QED
    BY <1>1, <1>2, <2>1, AccountsStay
<1>4. prices' \in [Symbol -> Price \cup {unknown}]
  BY <1>1 DEF StartTrading, WarmedPrices, RestType
<1>5. RestType'
  BY <1>1, <1>4 DEF StartTrading, Begin, RestType
<1>6. QED
  BY <1>3, <1>5 DEF AccountIInv

\* A positive value of the account becomes the capital.
LEMMA CapitalStep == AccountIInv /\ InitializeCapital => AccountIInv'
<1> SUFFICES ASSUME AccountIInv, InitializeCapital PROVE AccountIInv'
  OBVIOUS
<1>1. Sound(account) /\ Sound(saved) /\ RestType /\ today \in Nat /\ today' = today
  BY DEF AccountIInv, RestType, InitializeCapital
<1>2. Sound(account)' /\ Sound(saved)'
  <2>1. account' = account /\ saved' = saved
    BY DEF InitializeCapital
  <2>2. QED
    BY <1>1, <2>1, AccountsStay
<1>3. TotalEquity \in Int
  <2> DEFINE worth == [s \in Symbol |-> account.quantity[s] * Known(s)]
  <2>1. \A s \in Symbol : Known(s) \in Nat
    BY <1>1, Constants DEF Known, RestType
  <2>2. account.cash \in Nat /\ account.quantity \in [Symbol -> Nat]
    BY <1>1 DEF Sound, Account
  <2>3. \A s \in Symbol : account.quantity[s] * Known(s) \in Int
    <3>1. \A m, n \in Nat : m * n \in Int
      OBVIOUS
    <3>2. QED
      BY <2>1, <2>2, <3>1
  <2>4. worth \in [Symbol -> Int]
    BY <2>3
  <2>5. SumOver(worth, Symbol) \in Int
    <3> HIDE DEF worth
    <3> QED
      BY <2>4, Constants, SumType
  <2>6. Total(worth) = SumOver(worth, Symbol)
    BY DEF Total, SumOver
  <2>7. TotalEquity = account.cash + Total(worth)
    BY DEF TotalEquity
  <2>8. QED
    <3> HIDE DEF worth
    <3> QED
      BY <2>2, <2>5, <2>6, <2>7
<1>4. capital' \in Nat
  BY <1>1, <1>3, Constants DEF InitializeCapital, RestType
<1>5. baseline' \in [day : 0..MaxDay, capital : Nat] /\ crashes' \in 0..MaxCrashes
  <2>1. today \in 0..MaxDay /\ baseline \in [day : 0..MaxDay, capital : Nat] /\ crashes \in 0..MaxCrashes
    BY <1>1, Constants DEF RestType
  <2>2. [day |-> today, capital |-> capital'] \in [day : 0..MaxDay, capital : Nat]
    BY <1>4, <2>1
  <2>3. \/ baseline' = baseline /\ crashes' = crashes
        \/ baseline' = [day |-> today, capital |-> capital'] /\ crashes' = crashes
        \/ crashes < MaxCrashes /\ crashes' = crashes + 1 /\ baseline' = baseline
    BY DEF InitializeCapital
  <2>4. QED
    BY <2>1, <2>2, <2>3, Constants
<1>6. RestType'
  BY <1>1, <1>4, <1>5 DEF InitializeCapital, RestType
<1>7. QED
  BY <1>2, <1>6 DEF AccountIInv

LEMMA BaselineStep == AccountIInv /\ RetryBaselineSave => AccountIInv'
<1> SUFFICES ASSUME AccountIInv, RetryBaselineSave PROVE AccountIInv'
  OBVIOUS
<1>1. Sound(account) /\ Sound(saved) /\ RestType /\ today \in Nat /\ today' = today
      /\ account' = account /\ saved' = saved
  BY DEF AccountIInv, RestType, RetryBaselineSave
<1>2. Sound(account)' /\ Sound(saved)'
  BY <1>1, AccountsStay
<1>3. [day |-> today, capital |-> capital] \in [day : 0..MaxDay, capital : Nat]
  BY <1>1, Constants DEF RestType
<1>4. RestType'
  BY <1>1, <1>3 DEF RetryBaselineSave, RestType
<1>5. QED
  BY <1>2, <1>4 DEF AccountIInv

\* After an order the account is in memory, and in the file unless it could not be written.
LEMMA SaveStep ==
    ASSUME AccountIInv, NEW e, Sound(e), Save(e), today' = today
    PROVE  Sound(account)' /\ Sound(saved)' /\ crashes' \in 0..MaxCrashes
<1>1. Sound(saved) /\ today \in Nat /\ crashes \in 0..MaxCrashes
  BY DEF AccountIInv, RestType
<1>2. account' = e /\ saved' \in {e, saved}
  BY DEF Save
<1>3. Sound(account)' /\ Sound(saved)'
  <2>1. PICK f : saved' = f /\ f \in {e, saved}
    BY <1>2
  <2>2. Sound(f)
    BY <1>1, <2>1
  <2>3. QED
    BY <1>1, <1>2, <2>1, <2>2, AccountsStay
<1>4. crashes' \in 0..MaxCrashes
  BY <1>1, Constants DEF Save
<1>5. QED
  BY <1>3, <1>4

LEMMA BuyStep == ASSUME AccountIInv, NEW s \in Symbol, PlaceBuyOrder(s) PROVE AccountIInv'
<1>1. Sound(account) /\ Sound(saved) /\ RestType /\ today \in Nat /\ today' = today
  BY DEF AccountIInv, RestType, PlaceBuyOrder
<1>2. market[s] \in Price
  BY <1>1 DEF RestType
<1>3. Sound(account)' /\ Sound(saved)' /\ crashes' \in 0..MaxCrashes
  <2>1. CASE Affordable(market[s])
    <3>1. Sound(Bought(s, market[s]))
      BY <1>1, <1>2, <2>1, BoughtSound DEF PlaceBuyOrder
    <3>2. Save(Bought(s, market[s]))
      BY <2>1 DEF PlaceBuyOrder
    <3>3. QED
      BY <1>1, <3>1, <3>2, SaveStep
  <2>2. CASE ~Affordable(market[s])
    <3>1. account' = account /\ saved' = saved /\ crashes' = crashes /\ crashes \in 0..MaxCrashes
      BY <1>1, <2>2 DEF PlaceBuyOrder, RestType
    <3>2. QED
      BY <1>1, <3>1, AccountsStay
  <2>3. QED
    BY <2>1, <2>2
<1>4. RestType'
  BY <1>1, <1>2, <1>3 DEF PlaceBuyOrder, RestType
<1>5. QED
  BY <1>3, <1>4 DEF AccountIInv

LEMMA SellStep == ASSUME AccountIInv, NEW s \in Symbol, PlaceSellOrder(s) PROVE AccountIInv'
<1>1. Sound(account) /\ Sound(saved) /\ RestType /\ today \in 1..MaxDay /\ today' = today
  BY DEF AccountIInv, RestType, PlaceSellOrder
<1>2. market[s] \in Price
  BY <1>1 DEF RestType
<1>3. Sound(account)' /\ Sound(saved)' /\ crashes' \in 0..MaxCrashes
  <2>1. Sound(Sold(s, market[s]))
    BY <1>1, <1>2, SoldSound DEF PlaceSellOrder
  <2>2. Save(Sold(s, market[s]))
    BY DEF PlaceSellOrder
  <2>3. QED
    BY <1>1, <2>1, <2>2, SaveStep
<1>4. RestType'
  BY <1>1, <1>2, <1>3 DEF PlaceSellOrder, RestType
<1>5. QED
  BY <1>3, <1>4 DEF AccountIInv

\* A later save writes what is in memory.
LEMMA RetryStep == AccountIInv /\ RetrySave => AccountIInv'
<1> SUFFICES ASSUME AccountIInv, RetrySave PROVE AccountIInv'
  OBVIOUS
<1>1. Sound(account) /\ RestType /\ today \in Nat /\ today' = today
      /\ account' = account /\ saved' = account
  BY DEF AccountIInv, RestType, RetrySave
<1>2. Sound(account)' /\ Sound(saved)'
  BY <1>1, AccountsStay
<1>3. RestType'
  BY <1>1 DEF RetrySave, RestType
<1>4. QED
  BY <1>2, <1>3 DEF AccountIInv

\* After the end of a process there is only the file.
LEMMA ForgetStep == AccountIInv /\ ForgetMemory => AccountIInv'
<1> SUFFICES ASSUME AccountIInv, ForgetMemory PROVE AccountIInv'
  OBVIOUS
<1>1. Sound(saved) /\ RestType /\ today \in Nat /\ today' = today
      /\ account' = saved /\ saved' = saved
  BY DEF AccountIInv, RestType, ForgetMemory, End
<1>2. Sound(account)' /\ Sound(saved)'
  BY <1>1, AccountsStay
<1>3. RestType'
  BY <1>1 DEF ForgetMemory, End, RestType
<1>4. QED
  BY <1>2, <1>3 DEF AccountIInv

LEMMA PriceStep == ASSUME AccountIInv, NEW s \in Symbol, NEW p \in Price, MovePrice(s, p) PROVE AccountIInv'
<1>1. Sound(account) /\ Sound(saved) /\ RestType /\ today \in Nat /\ today' = today
      /\ account' = account /\ saved' = saved
  BY DEF AccountIInv, RestType, MovePrice
<1>2. Sound(account)' /\ Sound(saved)'
  BY <1>1, AccountsStay
<1>3. RestType'
  BY <1>1 DEF MovePrice, RestType
<1>4. QED
  BY <1>2, <1>3 DEF AccountIInv

LEMMA DayStep == AccountIInv /\ NextTradingDay => AccountIInv'
<1> SUFFICES ASSUME AccountIInv, NextTradingDay PROVE AccountIInv'
  OBVIOUS
<1>1. Sound(account) /\ Sound(saved) /\ RestType /\ today \in Nat /\ today' = today + 1
      /\ today < MaxDay /\ account' = account /\ saved' = saved
  BY DEF AccountIInv, RestType, NextTradingDay, Tomorrow
<1>2. Sound(account)' /\ Sound(saved)'
  BY <1>1, AccountsStay
<1>3. RestType'
  BY <1>1, Constants DEF NextTradingDay, Tomorrow, RestType
<1>4. QED
  BY <1>2, <1>3 DEF AccountIInv

LEMMA StutterStep == AccountIInv /\ UNCHANGED accountVars => AccountIInv'
<1> SUFFICES ASSUME AccountIInv, UNCHANGED accountVars PROVE AccountIInv'
  OBVIOUS
<1>1. Sound(account) /\ Sound(saved) /\ RestType /\ today \in Nat /\ today' = today
      /\ account' = account /\ saved' = saved
  BY DEF AccountIInv, RestType, accountVars
<1>2. Sound(account)' /\ Sound(saved)'
  BY <1>1, AccountsStay
<1>3. RestType'
  BY <1>1 DEF accountVars, RestType
<1>4. QED
  BY <1>2, <1>3 DEF AccountIInv

LEMMA AccountInductive == AccountIInv /\ [AccountNext]_accountVars => AccountIInv'
<1> SUFFICES ASSUME AccountIInv, [AccountNext]_accountVars PROVE AccountIInv'
  OBVIOUS
<1>1. CASE StartTrading
  BY <1>1, StartStep
<1>2. CASE InitializeCapital
  BY <1>2, CapitalStep
<1>3. CASE RetryBaselineSave
  BY <1>3, BaselineStep
<1>4. CASE RetrySave
  BY <1>4, RetryStep
<1>5. CASE TripKillSwitch \/ StopTrading
  BY <1>5, ForgetStep DEF TripKillSwitch, StopTrading
<1>6. CASE NextTradingDay
  BY <1>6, DayStep
<1>7. ASSUME NEW s \in Symbol, PlaceBuyOrder(s) PROVE AccountIInv'
  BY <1>7, BuyStep
<1>8. ASSUME NEW s \in Symbol, PlaceSellOrder(s) PROVE AccountIInv'
  BY <1>8, SellStep
<1>9. ASSUME NEW s \in Symbol, NEW p \in Price, MovePrice(s, p) PROVE AccountIInv'
  BY <1>9, PriceStep
<1>10. CASE UNCHANGED accountVars
  BY <1>10, StutterStep
<1>11. QED
  BY <1>1, <1>2, <1>3, <1>4, <1>5, <1>6, <1>7, <1>8, <1>9, <1>10 DEF AccountNext

\* A capital that is on file stays so.
LEMMA CapitalFiledStep == AccountIInv /\ CapitalIsFiled /\ [AccountNext]_accountVars => CapitalIsFiled'
<1> SUFFICES ASSUME AccountIInv, CapitalIsFiled, [AccountNext]_accountVars PROVE CapitalIsFiled'
  OBVIOUS
<1>1. /\ baseline \in [day : 0..MaxDay, capital : Nat] /\ baseline.day \in Int /\ today \in Int
      /\ capital \in Nat
  BY DEF AccountIInv, RestType
<1>2. CASE InitializeCapital
  <2>1. CASE baseline.day = today
    <3>1. capital' = baseline.capital /\ baseline' = baseline /\ today' = today
      BY <1>2, <2>1 DEF InitializeCapital, BaselineReusable
    <3>2. QED
      BY <2>1, <3>1 DEF CapitalIsFiled
  <2>2. CASE baseline.day # today
    <3>1. today' = today /\ (baseline' = baseline \/ baseline' = [day |-> today, capital |-> capital'])
      BY <1>2, <2>2 DEF InitializeCapital, BaselineReusable
    <3>2. capital' > 0
      <4>1. capital' = IF TotalEquity > 0 THEN TotalEquity ELSE OPERATING_CAPITAL
        BY <1>2, <2>2 DEF InitializeCapital, BaselineReusable
      <4>2. QED
        BY <4>1, Constants
    <3>3. QED
      BY <1>1, <2>2, <3>1, <3>2 DEF CapitalIsFiled
  <2>3. QED
    BY <2>1, <2>2
<1>3. CASE RetryBaselineSave
  <2>1. /\ baseline' = [day |-> today, capital |-> capital] /\ capital > 0
        /\ capital' = capital /\ today' = today
    BY <1>3 DEF RetryBaselineSave
  <2>2. QED
    BY <1>1, <2>1 DEF CapitalIsFiled
<1>4. CASE NextTradingDay
  <2>1. baseline' = baseline /\ today' = today + 1
    BY <1>4 DEF NextTradingDay, Tomorrow
  <2>2. QED
    BY <1>1, <2>1 DEF CapitalIsFiled
<1>5. CASE /\ baseline' = baseline /\ today' = today /\ (capital' = capital \/ capital' = 0)
  BY <1>5 DEF CapitalIsFiled
<1>6. QED
  BY <1>2, <1>3, <1>4, <1>5
     DEF AccountNext, accountVars, StartTrading, Begin, RetrySave, TripKillSwitch, StopTrading,
         ForgetMemory, End, PlaceBuyOrder, PlaceSellOrder, MovePrice

\* A step of the day does not replace the capital on file.
LEMMA CapitalKept ==
    ASSUME [AccountNext]_accountVars, baseline.day = today
    PROVE  baseline' = baseline /\ capital' \in {capital, 0, baseline.capital}
BY DEF AccountNext, accountVars, StartTrading, InitializeCapital, BaselineReusable,
       RetryBaselineSave, RetrySave, TripKillSwitch, StopTrading, ForgetMemory,
       NextTradingDay, PlaceBuyOrder, PlaceSellOrder, MovePrice

-----------------------------------------------------------------------------
(* Theorems *)

LEMMA SoundMoney == AccountIInv => MoneyAccounted
<1> SUFFICES ASSUME AccountIInv PROVE MoneyAccounted
  OBVIOUS
<1>1. Balanced(account) /\ Balanced(saved)
  BY DEF AccountIInv, Sound
<1>2. ResetIfNeeded(account).realized = account.profits[today]
  BY LoadedSound DEF AccountIInv, RestType
<1>3. QED
  BY <1>1, <1>2 DEF MoneyAccounted, MoneyKept, RealizedIsToday

\* Cash and costs add up to the initial cash and the profits of the days, in memory and
\* in the file, and the profit the kill switch reads is that of today, whatever saves
\* fail and however often the process dies and starts again (paper_order_client.py).
THEOREM AlwaysAccounted == AccountSpec => []MoneyAccounted
BY SoundMoney, Initially, AccountInductive, PTL DEF AccountSpec

\* Nothing is bought on credit: neither the account nor its file ever shows less than no
\* cash, nor a negative quantity or cost, or more orders than the limit.
THEOREM NothingOnCredit == AccountSpec => []AccountTypeOK
<1>1. AccountIInv => AccountTypeOK
  BY DEF AccountIInv, Sound, RestType, AccountTypeOK
<1>2. QED
  BY <1>1, Initially, AccountInductive, PTL DEF AccountSpec

\* The capital of a day that is on file is what every process of the day measures its
\* losses by, through restarts and failed writes, and no step of the day replaces it
\* (_initialize_daily_starting_capital and kill_switch_baseline.json).
THEOREM OneCapitalADay == AccountSpec => []CapitalIsFiled /\ CapitalStays
<1> DEFINE Stays == baseline.day = today =>
                        /\ baseline' = baseline
                        /\ capital' \in {capital, 0, baseline.capital}
<1>1. [AccountNext]_accountVars => [Stays]_accountVars
  BY CapitalKept
<1>2. QED
  BY <1>1, CapitalFiledStep, Initially, AccountInductive, PTL DEF AccountSpec, CapitalStays

-----------------------------------------------------------------------------
(* Decision events: the inductive invariant, in named parts *)

\* A row by itself: seen is the last price of its day, isDark that the board was missing.
RowSound(row, seen, isDark) ==
    /\ row \in EventRow
    /\ row.status = "finalized" <=> row.outcome # 0
    /\ row.status = "none" => row = NoEvent /\ ~isDark
    /\ row.status # "none" => {row.low, row.high, row.last, row.close} \subseteq Price
    /\ row.close = seen
    /\ row.verdict \in {0, seen}
    /\ row.low <= row.dayLow /\ row.dayLow <= row.close
    /\ row.close <= row.dayHigh /\ row.dayHigh <= row.high
    /\ row.low <= row.last /\ row.last <= row.high
    /\ isDark => row.flagged

\* A row of the day d, at the time it is.
RowTimed(row, d) ==
    /\ row.verdict # 0 => d < today \/ late
    /\ d > today => row.status = "none"
    /\ d <= caught /\ row.status # "none" =>
          /\ row.verdict # 0
          /\ caught - d >= OBSERVATION_DAYS => row.status = "finalized"

\* What is caught up with today is so for good.
CaughtInv == caught <= today /\ (caught = today => late)

FilterRest ==
    /\ today \in Day
    /\ trading \in BOOLEAN
    /\ initialized \in BOOLEAN
    /\ late \in BOOLEAN
    /\ ofDay \in [Event -> PriceOrNone]
    /\ dark \subseteq Event
    /\ caught \in 0..MaxDay
    /\ failed \in 0..MaxFailures

FilterIInv ==
    /\ FilterRest
    /\ CaughtInv
    /\ events \in [Event -> EventRow]
    /\ \A e \in Event : RowSound(events[e], ofDay[e], e \in dark) /\ RowTimed(events[e], e[2])

-----------------------------------------------------------------------------
(* Rows *)

LEMMA FilterConstants ==
    /\ OBSERVATION_DAYS \in Nat \ {0} /\ MaxEvents \in Nat \ {0} /\ MaxFailures \in Nat
    /\ MaxDay \in Nat \ {0} /\ \A p \in PriceOrNone : p \in Nat
    /\ \A p \in Price : p \in Nat /\ p # 0 /\ p \in PriceOrNone
    /\ 0 \in PriceOrNone
BY FilterDecisionsAssumption, TradingDaysAssumption DEF PriceOrNone

LEMMA DayType == \A d \in Day : d \in Nat /\ d >= 1 /\ d <= MaxDay
BY FilterConstants DEF Day

LEMMA MinOfTwo ==
    ASSUME NEW x \in Nat, NEW y \in Nat
    PROVE  Min({x, y}) \in {x, y} /\ Min({x, y}) <= x /\ Min({x, y}) <= y
<1>1. \E m \in {x, y} : \A n \in {x, y} : m <= n
  <2>1. CASE x <= y
    BY <2>1
  <2>2. CASE y <= x
    BY <2>2
  <2>3. QED
    BY <2>1, <2>2
<1>2. QED
  BY <1>1 DEF Min

LEMMA MaxOfTwo ==
    ASSUME NEW x \in Nat, NEW y \in Nat
    PROVE  Max({x, y}) \in {x, y} /\ x <= Max({x, y}) /\ y <= Max({x, y})
<1>1. \E m \in {x, y} : \A n \in {x, y} : m >= n
  <2>1. CASE x <= y
    BY <2>1
  <2>2. CASE y <= x
    BY <2>2
  <2>3. QED
    BY <2>1, <2>2
<1>2. QED
  BY <1>1 DEF Max

\* The fields of a row
LEMMA RowFields ==
    ASSUME NEW row \in EventRow
    PROVE  /\ {row.low, row.high, row.last, row.outcome, row.dayLow, row.dayHigh, row.close,
               row.verdict} \subseteq PriceOrNone
           /\ row.status \in {"none", "observing", "finalized"} /\ row.flagged \in BOOLEAN
BY DEF EventRow

LEMMA NoEventSound == RowSound(NoEvent, 0, FALSE)
BY FilterConstants DEF RowSound, NoEvent, EventRow

LEMMA NewEventSound ==
    ASSUME NEW p \in Price
    PROVE  RowSound(NewEvent(p), p, FALSE) /\ NewEvent(p).status = "observing" /\ NewEvent(p).verdict = 0
<1>1. NewEvent(p) \in EventRow
  BY FilterConstants DEF NewEvent, EventRow
<1>2. QED
  BY <1>1, FilterConstants DEF RowSound, NewEvent

\* The judgement of the day is by what was seen of the day.
LEMMA DayJudgedSound ==
    ASSUME NEW row, NEW seen, NEW isDark \in BOOLEAN, RowSound(row, seen, isDark), row.close # 0
    PROVE  /\ RowSound(DayJudged(row), seen, isDark) /\ DayJudged(row).verdict = row.close
           /\ DayJudged(row).status = row.status /\ DayJudged(row).last = row.last
           /\ DayJudged(row).outcome = row.outcome
<1> DEFINE new == DayJudged(row)
<1>1. row \in EventRow /\ row.status # "none"
  BY DEF RowSound, NoEvent
<1>2. /\ new.verdict = row.close /\ new.status = row.status /\ new.low = row.low
      /\ new.high = row.high /\ new.last = row.last /\ new.outcome = row.outcome
      /\ new.dayLow = row.dayLow /\ new.dayHigh = row.dayHigh /\ new.close = row.close
      /\ new.flagged = row.flagged /\ new \in EventRow
  BY <1>1, RowFields DEF DayJudged, EventRow
<1> HIDE DEF new
<1>3. RowSound(new, seen, isDark)
  BY <1>1, <1>2 DEF RowSound
<1>4. QED
  BY <1>2, <1>3 DEF new

\* What is due is closed.
LEMMA DueJudgedSound ==
    ASSUME NEW row, NEW seen, NEW isDark \in BOOLEAN, RowSound(row, seen, isDark),
           row.status = "observing"
    PROVE  /\ RowSound(DueJudged(row), seen, isDark) /\ DueJudged(row).verdict = row.verdict
           /\ DueJudged(row).status = "finalized"
<1> DEFINE new == DueJudged(row)
<1>1. row \in EventRow /\ row.last \in Price
  BY DEF RowSound
<1>2. /\ new.verdict = row.verdict /\ new.status = "finalized" /\ new.low = row.low
      /\ new.high = row.high /\ new.last = row.last /\ new.outcome = row.last
      /\ new.dayLow = row.dayLow /\ new.dayHigh = row.dayHigh /\ new.close = row.close
      /\ new.flagged = row.flagged /\ new \in EventRow
  BY <1>1, RowFields DEF DueJudged, EventRow
<1> HIDE DEF new
<1>3. RowSound(new, seen, isDark)
  BY <1>1, <1>2, FilterConstants DEF RowSound
<1>4. QED
  BY <1>2, <1>3 DEF new

\* A price that is observed widens the intervals, those of the day on the day only.
LEMMA RowObservedSound ==
    ASSUME NEW e \in Event, NEW p \in Price, RowSound(events[e], ofDay[e], e \in dark),
           events[e].status = "observing", e[2] = today => events[e].verdict = 0
    PROVE  /\ RowSound(RowObserved(e, p), IF e[2] = today THEN p ELSE ofDay[e], e \in dark)
           /\ RowObserved(e, p).verdict = events[e].verdict
           /\ RowObserved(e, p).status = "observing" /\ RowObserved(e, p).outcome = events[e].outcome
<1> DEFINE old == events[e]
           row == [old EXCEPT !.low = Min({@, p}), !.high = Max({@, p}), !.last = p]
           today_ == [row EXCEPT !.dayLow = Min({@, p}), !.dayHigh = Max({@, p}), !.close = p]
<1>1. /\ old \in EventRow /\ p \in Nat /\ {old.low, old.high, old.last, old.close} \subseteq Price
      /\ {old.low, old.high, old.last, old.close, old.dayLow, old.dayHigh} \subseteq Nat
      /\ {old.dayLow, old.dayHigh} \subseteq PriceOrNone /\ p \in PriceOrNone
  BY FilterConstants, RowFields DEF RowSound
<1>2. PICK l, h : l = Min({old.low, p}) /\ h = Max({old.high, p})
  OBVIOUS
<1>3. /\ l \in {old.low, p} /\ l <= old.low /\ l <= p
      /\ h \in {old.high, p} /\ old.high <= h /\ p <= h
  BY <1>1, <1>2, MinOfTwo, MaxOfTwo
<1>4. l \in Price /\ h \in Price /\ l \in Nat /\ h \in Nat /\ l \in PriceOrNone /\ h \in PriceOrNone
  BY <1>1, <1>3, FilterConstants
<1>5. PICK dl, dh : dl = Min({old.dayLow, p}) /\ dh = Max({old.dayHigh, p})
  OBVIOUS
<1>6. /\ dl \in {old.dayLow, p} /\ dl <= old.dayLow /\ dl <= p
      /\ dh \in {old.dayHigh, p} /\ old.dayHigh <= dh /\ p <= dh
  BY <1>1, <1>5, MinOfTwo, MaxOfTwo
<1>7. dl \in Nat /\ dh \in Nat /\ dl \in PriceOrNone /\ dh \in PriceOrNone
  BY <1>1, <1>6
<1>8. /\ row = [old EXCEPT !.low = l, !.high = h, !.last = p]
      /\ row \in EventRow /\ row.low = l /\ row.high = h /\ row.last = p
      /\ row.status = old.status /\ row.outcome = old.outcome /\ row.dayLow = old.dayLow
      /\ row.dayHigh = old.dayHigh /\ row.close = old.close /\ row.verdict = old.verdict
      /\ row.flagged = old.flagged
  BY <1>1, <1>2, <1>4 DEF EventRow
<1>9. /\ today_ \in EventRow /\ today_.low = l /\ today_.high = h /\ today_.last = p
      /\ today_.status = old.status /\ today_.outcome = old.outcome /\ today_.dayLow = dl
      /\ today_.dayHigh = dh /\ today_.close = p /\ today_.verdict = old.verdict
      /\ today_.flagged = old.flagged
  <2>1. today_ = [row EXCEPT !.dayLow = dl, !.dayHigh = dh, !.close = p]
    BY <1>5, <1>8
  <2> HIDE DEF row, today_
  <2>2. row \in EventRow /\ dl \in PriceOrNone /\ dh \in PriceOrNone /\ p \in PriceOrNone
    BY <1>1, <1>7, <1>8
  <2>3. /\ today_ \in EventRow /\ today_.low = row.low /\ today_.high = row.high /\ today_.last = row.last
        /\ today_.status = row.status /\ today_.outcome = row.outcome /\ today_.dayLow = dl
        /\ today_.dayHigh = dh /\ today_.close = p /\ today_.verdict = row.verdict
        /\ today_.flagged = row.flagged
    BY <2>1, <2>2 DEF EventRow
  <2>4. QED
    BY <1>8, <2>3, Zenon
<1>10. RowObserved(e, p) = IF e[2] = today /\ row.verdict = 0 THEN today_ ELSE row
  BY DEF RowObserved
<1> HIDE DEF row, today_
<1>11. CASE e[2] = today
  <2>1. RowObserved(e, p) = today_ /\ old.verdict = 0
    BY <1>8, <1>10, <1>11
  <2>2. RowSound(today_, p, e \in dark)
    <3>1. old.low <= old.dayLow /\ old.dayHigh <= old.high
      BY DEF RowSound
    <3>2. l <= dl /\ dh <= h
      BY <1>1, <1>3, <1>4, <1>6, <1>7, <3>1
    <3>3. QED
      BY <1>1, <1>3, <1>4, <1>6, <1>7, <1>9, <2>1, <3>2, FilterConstants DEF RowSound
  <2>3. QED
    BY <1>9, <1>11, <2>1, <2>2
<1>12. CASE e[2] # today
  <2>1. RowObserved(e, p) = row
    BY <1>10, <1>12
  <2>2. RowSound(row, ofDay[e], e \in dark)
    <3>1. /\ old.low <= old.dayLow /\ old.dayLow <= old.close /\ old.close <= old.dayHigh
          /\ old.dayHigh <= old.high
      BY DEF RowSound
    <3>2. l <= old.dayLow /\ old.dayHigh <= h
      BY <1>1, <1>3, <1>4, <3>1
    <3>3. QED
      BY <1>1, <1>3, <1>4, <1>8, <3>1, <3>2, FilterConstants DEF RowSound
  <2>3. QED
    BY <1>8, <1>12, <2>1, <2>2
<1>13. QED
  BY <1>11, <1>12
-----------------------------------------------------------------------------
(* Decision events: every step keeps the invariant *)

LEMMA EventType ==
    ASSUME NEW e \in Event
    PROVE  e[1] \in Symbol /\ e[2] \in Day /\ e[2] \in Nat /\ e = <<e[1], e[2]>>
BY DayType DEF Event

LEMMA FilterParts ==
    ASSUME FilterIInv
    PROVE  /\ FilterRest /\ CaughtInv /\ today \in Nat /\ caught \in Nat
           /\ events \in [Event -> EventRow]
           /\ \A e \in Event : /\ RowSound(events[e], ofDay[e], e \in dark)
                               /\ RowTimed(events[e], e[2])
                               /\ events[e].close # 0 <=> events[e].status # "none"
<1>1. ASSUME NEW e \in Event  PROVE events[e].close # 0 <=> events[e].status # "none"
  <2>1. RowSound(events[e], ofDay[e], e \in dark)
    BY DEF FilterIInv
  <2>2. QED
    BY <2>1, FilterConstants DEF RowSound, NoEvent
<1>2. today \in Nat /\ caught \in Nat
  BY DayType DEF FilterIInv, FilterRest
<1>3. QED
  BY <1>1, <1>2 DEF FilterIInv

\* One row of a judgement
LEMMA RowJudged ==
    ASSUME FilterIInv, NEW includeToday \in BOOLEAN, NEW due \in SUBSET DueEvents,
           NEW sameDay \in SUBSET SameDayEvents(includeToday), NEW e \in Event
    PROVE  /\ RowSound(Judge(due, sameDay)[e], ofDay[e], e \in dark)
           /\ Judge(due, sameDay)[e].status = IF e \in due THEN "finalized" ELSE events[e].status
           /\ Judge(due, sameDay)[e].verdict
                 = IF e \in sameDay THEN events[e].close ELSE events[e].verdict
           /\ events[e].outcome # 0 => Judge(due, sameDay)[e].outcome = events[e].outcome
<1> DEFINE row == IF e \in sameDay THEN DayJudged(events[e]) ELSE events[e]
<1>1. Judge(due, sameDay)[e] = IF e \in due THEN DueJudged(row) ELSE row
  BY DEF Judge
<1>2. RowSound(events[e], ofDay[e], e \in dark) /\ (e \in dark) \in BOOLEAN
  BY FilterParts
<1>3. /\ RowSound(row, ofDay[e], e \in dark) /\ row.status = events[e].status
      /\ row.verdict = IF e \in sameDay THEN events[e].close ELSE events[e].verdict
      /\ row.outcome = events[e].outcome
  <2>1. CASE e \in sameDay
    <3>1. events[e].close # 0
      BY <2>1 DEF SameDayEvents
    <3>2. QED
      BY <1>2, <2>1, <3>1, DayJudgedSound
  <2>2. CASE e \notin sameDay
    BY <1>2, <2>2
  <2>3. QED
    BY <2>1, <2>2
<1> HIDE DEF row
<1>4. CASE e \in due
  <2>1. row.status = "observing"
    BY <1>3, <1>4 DEF DueEvents, Observing
  <2>2. /\ RowSound(DueJudged(row), ofDay[e], e \in dark) /\ DueJudged(row).verdict = row.verdict
        /\ DueJudged(row).status = "finalized"
    BY <1>2, <1>3, <2>1, DueJudgedSound
  <2>3. events[e].outcome = 0
    BY <1>3, <2>1 DEF RowSound
  <2>4. QED
    BY <1>1, <1>3, <1>4, <2>2, <2>3
<1>5. CASE e \notin due
  BY <1>1, <1>3, <1>5
<1>6. QED
  BY <1>4, <1>5

\* A judgement of what is over keeps the rows sound, and what was judged.
LEMMA JudgeKeepsRows ==
    ASSUME FilterIInv, NEW includeToday \in BOOLEAN, includeToday => late,
           NEW due \in SUBSET DueEvents, NEW sameDay \in SUBSET SameDayEvents(includeToday)
    PROVE  /\ Judge(due, sameDay) \in [Event -> EventRow]
           /\ \A e \in Event : /\ RowSound(Judge(due, sameDay)[e], ofDay[e], e \in dark)
                               /\ RowTimed(Judge(due, sameDay)[e], e[2])
<1> DEFINE new == Judge(due, sameDay)
<1>1. ASSUME NEW e \in Event
      PROVE  RowSound(new[e], ofDay[e], e \in dark) /\ new[e] \in EventRow /\ RowTimed(new[e], e[2])
  <2>1. /\ RowSound(new[e], ofDay[e], e \in dark)
        /\ new[e].status = IF e \in due THEN "finalized" ELSE events[e].status
        /\ new[e].verdict = IF e \in sameDay THEN events[e].close ELSE events[e].verdict
    BY RowJudged
  <2>2. new[e] \in EventRow
    BY <2>1 DEF RowSound
  <2>3. /\ RowTimed(events[e], e[2]) /\ today \in Nat /\ e[2] \in Nat
        /\ events[e].close # 0 <=> events[e].status # "none"
    BY FilterParts, EventType
  <2>4. e \in sameDay => events[e].close # 0 /\ (e[2] < today \/ late)
    BY DEF SameDayEvents
  <2>5. e \in due => events[e].status = "observing"
    BY DEF DueEvents, Observing
  <2> HIDE DEF new
  <2>6. RowTimed(new[e], e[2])
    BY <2>1, <2>3, <2>4, <2>5 DEF RowTimed
  <2>7. QED
    BY <2>1, <2>2, <2>6
<1>2. new = [e \in Event |-> new[e]]
  BY DEF Judge
<1> HIDE DEF new
<1>3. new \in [Event -> EventRow]
  BY <1>1, <1>2
<1>4. QED
  BY <1>1, <1>3 DEF new

\* Both calls of a judgement
LEMMA JudgeSafelyKeeps ==
    ASSUME FilterIInv, NEW includeToday \in BOOLEAN, NEW upTo \in Nat, includeToday => late,
           upTo = IF includeToday THEN today ELSE today - 1, JudgeSafely(includeToday, upTo),
           UNCHANGED <<today, late, ofDay, dark>>, trading' \in BOOLEAN, initialized' \in BOOLEAN
    PROVE  FilterIInv'
<1>1. /\ FilterRest /\ CaughtInv /\ today \in Nat /\ today <= MaxDay /\ MaxDay \in Nat
      /\ upTo <= today /\ (upTo = today => late) /\ MaxFailures \in Nat
  BY FilterParts, DayType, FilterConstants DEF FilterRest
<1>2. CASE /\ events' = Judge(DueEvents, SameDayEvents(includeToday))
           /\ caught' = upTo /\ UNCHANGED failed
  <2> DEFINE new == Judge(DueEvents, SameDayEvents(includeToday))
  <2>1. FilterRest' /\ CaughtInv'
    BY <1>1, <1>2 DEF FilterRest, CaughtInv
  <2>2. new \in [Event -> EventRow] /\ events' = new
    BY <1>2, JudgeKeepsRows
  <2>3. ASSUME NEW e \in Event
        PROVE  RowSound(events[e], ofDay[e], e \in dark)' /\ RowTimed(events[e], e[2])'
    <3>1. /\ RowSound(new[e], ofDay[e], e \in dark) /\ RowTimed(new[e], e[2])
          /\ new[e].status = IF e \in DueEvents THEN "finalized" ELSE events[e].status
          /\ new[e].verdict = IF e \in SameDayEvents(includeToday) THEN events[e].close
                              ELSE events[e].verdict
      BY JudgeKeepsRows, RowJudged
    <3>2. /\ events[e].close # 0 <=> events[e].status # "none"
          /\ e[2] \in Nat /\ events[e] \in EventRow
      BY FilterParts, EventType
    <3>3. events[e].status \in {"none", "observing", "finalized"}
      BY <3>2, RowFields
    <3>4. e[2] <= upTo /\ events[e].status # "none" =>
             events[e].verdict # 0 \/ e \in SameDayEvents(includeToday)
      BY <1>1, <3>2 DEF SameDayEvents
    <3>5. upTo - e[2] >= OBSERVATION_DAYS /\ events[e].status = "observing" => e \in DueEvents
      BY <1>1, <3>2, FilterConstants DEF DueEvents, Observing
    <3>6. e \in DueEvents => events[e].status = "observing"
      BY DEF DueEvents, Observing
    <3> HIDE DEF new
    <3>7. RowTimed(events[e], e[2])'
      <4>1. /\ new[e].verdict # 0 => e[2] < today \/ late
            /\ e[2] > today => new[e].status = "none"
        BY <3>1 DEF RowTimed
      <4>2. e[2] <= upTo /\ new[e].status # "none" =>
               /\ new[e].verdict # 0
               /\ upTo - e[2] >= OBSERVATION_DAYS => new[e].status = "finalized"
        BY <3>1, <3>2, <3>3, <3>4, <3>5, <3>6
      <4>3. events'[e].verdict = new[e].verdict /\ events'[e].status = new[e].status
        BY <2>2
      <4>4. QED
        BY <1>2, <2>2, <4>1, <4>2, <4>3 DEF RowTimed
    <3>8. QED
      BY <2>2, <3>1, <3>7
  <2>4. QED
    BY <2>1, <2>2, <2>3 DEF FilterIInv
<1>3. ASSUME NEW cut \in Day, NEW sameDay \in {{}, SameDayEvents(includeToday)}, Fail,
             events' = Judge({e \in DueEvents : e[2] < cut}, sameDay), UNCHANGED caught
      PROVE  FilterIInv'
  <2> DEFINE due == {e \in DueEvents : e[2] < cut}
             new == Judge(due, sameDay)
  <2>1. FilterRest' /\ CaughtInv'
    BY <1>1, <1>3 DEF FilterRest, CaughtInv, Fail
  <2>2. due \in SUBSET DueEvents /\ sameDay \in SUBSET SameDayEvents(includeToday)
    OBVIOUS
  <2> HIDE DEF due
  <2>3. /\ new \in [Event -> EventRow]
        /\ \A e \in Event : RowSound(new[e], ofDay[e], e \in dark) /\ RowTimed(new[e], e[2])
    BY <2>2, JudgeKeepsRows
  <2>4. events' = new
    BY <1>3 DEF due
  <2> HIDE DEF new
  <2>5. QED
    BY <1>3, <2>1, <2>3, <2>4 DEF FilterIInv, RowTimed
<1>4. QED
  BY <1>2, <1>3 DEF JudgeSafely

\* There is no event yet, whatever the day.
NoEvents ==
    /\ events = [e \in Event |-> NoEvent]
    /\ initialized = FALSE
    /\ late = FALSE
    /\ ofDay = [e \in Event |-> 0]
    /\ dark = {}
    /\ caught = 0
    /\ failed = 0

LEMMA NoEventsSound ==
    ASSUME NoEvents, today \in Day, trading \in BOOLEAN
    PROVE  FilterIInv
<1>1. today # 0 /\ 0 <= today /\ caught = 0 /\ 0 \in 0..MaxDay /\ 0 \in 0..MaxFailures
  BY FilterConstants, DayType DEF NoEvents
<1>2. FilterRest /\ CaughtInv
  <2>1. ofDay \in [Event -> PriceOrNone] /\ dark \subseteq Event /\ initialized = FALSE /\ late = FALSE
        /\ failed = 0
    BY FilterConstants DEF NoEvents
  <2>2. FilterRest
    BY <1>1, <2>1, Zenon DEF FilterRest
  <2>3. CaughtInv
    BY <1>1 DEF CaughtInv
  <2>4. QED
    BY <2>2, <2>3
<1>3. RowSound(NoEvent, 0, FALSE) /\ NoEvent \in EventRow
  BY NoEventSound DEF RowSound
<1>4. events \in [Event -> EventRow]
  BY <1>3 DEF NoEvents
<1>5. ASSUME NEW e \in Event
      PROVE  RowSound(events[e], ofDay[e], e \in dark) /\ RowTimed(events[e], e[2])
  <2>1. events[e] = NoEvent /\ ofDay[e] = 0 /\ (e \in dark) = FALSE
    BY DEF NoEvents
  <2>2. RowTimed(NoEvent, e[2])
    BY DEF RowTimed, NoEvent
  <2>3. QED
    BY <1>3, <2>1, <2>2
<1>6. QED
  BY <1>2, <1>4, <1>5 DEF FilterIInv

LEMMA FilterInitially == FilterInit => FilterIInv
<1> SUFFICES ASSUME FilterInit PROVE FilterIInv
  OBVIOUS
<1>1. NoEvents
  BY DEF FilterInit, NoEvents
<1>2. today \in Day /\ trading \in BOOLEAN
  <2>1. today = 1 /\ trading = FALSE /\ 1 \in Day
    BY FilterConstants DEF FilterInit, DaysInit, Day
  <2>2. QED
    BY <2>1
<1>3. QED
  BY <1>1, <1>2, NoEventsSound

\* The process starts, ends or dies, or nothing happens: the rows stay.
LEMMA RowsStay ==
    ASSUME FilterIInv, UNCHANGED <<today, events, late, ofDay, dark, caught>>,
           trading' \in BOOLEAN, initialized' \in BOOLEAN, failed' \in 0..MaxFailures
    PROVE  FilterIInv'
<1>1. FilterRest' /\ CaughtInv'
  BY DEF FilterIInv, FilterRest, CaughtInv
<1>2. \A e \in Event : RowTimed(events[e], e[2]) <=> RowTimed(events[e], e[2])'
  BY DEF RowTimed
<1>3. QED
  BY <1>1, <1>2 DEF FilterIInv

LEMMA FailType == ASSUME FilterRest, Fail PROVE failed' \in 0..MaxFailures
BY FilterConstants DEF Fail, FilterRest

LEMMA StartRunKeeps == ASSUME FilterIInv, StartRun PROVE FilterIInv'
<1>1. trading' \in BOOLEAN /\ initialized' \in BOOLEAN /\ failed' \in 0..MaxFailures
  BY DEF StartRun, Begin, FilterIInv, FilterRest
<1>2. QED
  BY <1>1, RowsStay DEF StartRun, Begin

LEMMA RunDiesKeeps == ASSUME FilterIInv, RunDies PROVE FilterIInv'
<1>1. trading' \in BOOLEAN /\ initialized' \in BOOLEAN /\ failed' \in 0..MaxFailures
  BY DEF RunDies, End, FilterIInv, FilterRest
<1>2. QED
  BY <1>1, RowsStay DEF RunDies, End

LEMMA ClockReachesEndKeeps == ASSUME FilterIInv, ClockReachesEnd PROVE FilterIInv'
<1>1. FilterRest' /\ CaughtInv'
  BY DEF FilterIInv, FilterRest, CaughtInv, ClockReachesEnd
<1>2. ASSUME NEW e \in Event PROVE RowTimed(events[e], e[2]) => RowTimed(events[e], e[2])'
  BY DEF RowTimed, ClockReachesEnd
<1>3. QED
  BY <1>1, <1>2 DEF FilterIInv, ClockReachesEnd

LEMMA NextBusinessDayKeeps == ASSUME FilterIInv, NextBusinessDay PROVE FilterIInv'
<1>1. /\ today \in Nat /\ today < MaxDay /\ today' = today + 1 /\ late' = FALSE /\ today' \in Day
      /\ UNCHANGED <<trading, events, initialized, ofDay, dark, caught, failed>>
  BY FilterParts, FilterConstants DEF NextBusinessDay, Tomorrow, Day
<1>2. FilterRest'
  BY <1>1, FilterParts DEF FilterRest
<1> CaughtInv'
  BY <1>1, FilterParts DEF CaughtInv
<1>3. ASSUME NEW e \in Event PROVE RowTimed(events[e], e[2])'
  <2>1. /\ RowTimed(events[e], e[2])
        /\ RowSound(events[e], ofDay[e], e \in dark)
        /\ e[2] \in Nat
    BY FilterParts, EventType
  <2>2. events[e].verdict # 0 => e[2] <= today
    BY <1>1, <2>1 DEF RowSound, RowTimed, NoEvent
  <2>3. QED
    BY <1>1, <2>1, <2>2 DEF RowTimed
<1>4. QED
  BY <1>1, <1>2, <1>3 DEF FilterIInv

LEMMA InitializeDecisionsKeeps == ASSUME FilterIInv, InitializeDecisions PROVE FilterIInv'
<1>1. today - 1 \in Nat /\ today # 0
  BY FilterParts, DayType DEF FilterRest
<1>2. trading' \in BOOLEAN /\ initialized' \in BOOLEAN
  BY FilterParts DEF InitializeDecisions, FilterRest
<1>3. QED
  BY <1>1, <1>2, JudgeSafelyKeeps DEF InitializeDecisions

LEMMA FinishDayKeeps == ASSUME FilterIInv, FinishDay PROVE FilterIInv'
<1>1. today \in Nat /\ trading' \in BOOLEAN /\ initialized' \in BOOLEAN
  BY FilterParts DEF FinishDay, FilterRest, End
<1>2. QED
  BY <1>1, JudgeSafelyKeeps DEF FinishDay, End

LEMMA StopEarlyKeeps == ASSUME FilterIInv, StopEarly PROVE FilterIInv'
<1>1. /\ trading' \in BOOLEAN /\ initialized' \in BOOLEAN /\ FilterRest /\ CaughtInv
      /\ UNCHANGED <<today, initialized, late, ofDay, dark, caught>>
  BY FilterParts DEF StopEarly, FilterRest, End
<1>2. CASE events' = Judge(DueEvents, {}) /\ UNCHANGED failed
  <2>1. FilterRest' /\ CaughtInv'
    BY <1>1, <1>2 DEF FilterRest, CaughtInv
  <2>2. /\ Judge(DueEvents, {}) \in [Event -> EventRow]
        /\ \A e \in Event : /\ RowSound(Judge(DueEvents, {})[e], ofDay[e], e \in dark)
                            /\ RowTimed(Judge(DueEvents, {})[e], e[2])
    <3>1. {} \in SUBSET SameDayEvents(FALSE)
      OBVIOUS
    <3>2. QED
      BY <3>1, JudgeKeepsRows
  <2> DEFINE new == Judge(DueEvents, {})
  <2>3. events' = new
    BY <1>2
  <2> HIDE DEF new
  <2>4. \A e \in Event : RowSound(events[e], ofDay[e], e \in dark)' /\ RowTimed(events[e], e[2])'
    BY <1>1, <2>2, <2>3 DEF new, RowTimed
  <2>5. QED
    BY <2>1, <2>2, <2>3, <2>4 DEF FilterIInv, new
<1>3. CASE events' = events /\ Fail
  BY <1>1, <1>3, FailType, RowsStay
<1>4. QED
  BY <1>2, <1>3 DEF StopEarly

\* A new event is of today, which is neither judged nor caught up with.
LEMMA RecordEventKeeps ==
    ASSUME FilterIInv, NEW s \in Symbol, NEW p \in Price, RecordEvent(s, p)
    PROVE  FilterIInv'
<1> DEFINE e == <<s, today>>
<1>1. /\ FilterRest /\ CaughtInv /\ today \in Nat /\ today \in Day /\ caught \in Nat /\ ~late
      /\ e \in Event /\ events[e].status = "none" /\ e[2] = today
      /\ events' = [events EXCEPT ![e] = NewEvent(p)] /\ ofDay' = [ofDay EXCEPT ![e] = p]
      /\ UNCHANGED <<today, trading, initialized, late, dark, caught, failed>>
  BY FilterParts DEF RecordEvent, Event, FilterRest
<1> HIDE DEF e
<1>2. /\ RowSound(NewEvent(p), p, FALSE) /\ NewEvent(p).status = "observing"
      /\ NewEvent(p).verdict = 0 /\ NewEvent(p) \in EventRow
  BY NewEventSound DEF RowSound
<1>3. FilterRest' /\ CaughtInv'
  <2>1. ofDay' \in [Event -> PriceOrNone]
    BY <1>1, FilterConstants DEF FilterRest
  <2>2. QED
    BY <1>1, <2>1 DEF FilterRest, CaughtInv
<1>4. events' \in [Event -> EventRow]
  BY <1>1, <1>2, FilterParts
<1>5. (e \in dark) = FALSE
  <2>1. RowSound(events[e], ofDay[e], e \in dark)
    BY <1>1, FilterParts
  <2>2. QED
    BY <1>1, <2>1 DEF RowSound
<1>6. ASSUME NEW f \in Event
      PROVE  RowSound(events[f], ofDay[f], f \in dark)' /\ RowTimed(events[f], f[2])'
  <2>1. CASE f = e
    <3>1. events'[f] = NewEvent(p) /\ ofDay'[f] = p /\ (f \in dark') = FALSE
      BY <1>1, <1>5, <2>1, FilterParts DEF FilterRest
    <3>2. RowTimed(events[f], f[2])'
      BY <1>1, <1>2, <2>1, <3>1 DEF RowTimed, CaughtInv
    <3>3. QED
      BY <1>2, <3>1, <3>2
  <2>2. CASE f # e
    <3>1. events'[f] = events[f] /\ ofDay'[f] = ofDay[f]
      BY <1>1, <2>2, FilterParts DEF FilterRest
    <3>2. RowTimed(events[f], f[2])'
      BY <1>1, <3>1, FilterParts DEF RowTimed
    <3>3. QED
      BY <1>1, <3>1, <3>2, FilterParts
  <2>3. QED
    BY <2>1, <2>2
<1>7. QED
  BY <1>3, <1>4, <1>6 DEF FilterIInv

\* The verdict on today waits for its end, so a price of today may still be the last.
LEMMA ObservePriceKeeps ==
    ASSUME FilterIInv, NEW s \in Symbol, NEW p \in Price, ObservePrice(s, p)
    PROVE  FilterIInv'
<1>1. /\ FilterRest /\ CaughtInv /\ today \in Nat /\ ~late
      /\ UNCHANGED <<today, trading, initialized, late, dark, caught>>
  BY FilterParts DEF ObservePrice
<1>2. PICK reached \in SUBSET Observing :
         /\ events' = [e \in Event |-> IF e \in reached THEN RowObserved(e, p) ELSE events[e]]
         /\ ofDay' = [e \in Event |-> IF e \in reached /\ e[2] = today THEN p ELSE ofDay[e]]
         /\ failed' = failed \/ Fail
  <2>1. PICK cut \in 1..(MaxDay + 1) :
           LET reached == {e \in {x \in Observing : x[1] = s} : e[2] < cut}
           IN  /\ events' = [e \in Event |-> IF e \in reached THEN RowObserved(e, p) ELSE events[e]]
               /\ ofDay' = [e \in Event |-> IF e \in reached /\ e[2] = today THEN p ELSE ofDay[e]]
               /\ IF reached = {x \in Observing : x[1] = s} THEN UNCHANGED failed ELSE Fail
    BY DEF ObservePrice
  <2> DEFINE reached == {e \in {x \in Observing : x[1] = s} : e[2] < cut}
  <2>2. reached \in SUBSET Observing
    OBVIOUS
  <2>3. QED
    BY <2>1, <2>2
<1>3. ASSUME NEW e \in Event
      PROVE  /\ RowSound(events[e], ofDay[e], e \in dark)' /\ RowTimed(events[e], e[2])'
             /\ events'[e] \in EventRow /\ ofDay'[e] \in PriceOrNone
  <2>1. /\ RowSound(events[e], ofDay[e], e \in dark) /\ (e \in dark) \in BOOLEAN
        /\ RowTimed(events[e], e[2])
        /\ ofDay[e] \in PriceOrNone /\ p \in PriceOrNone
    BY FilterParts, FilterConstants DEF FilterRest
  <2>2. CASE e \in reached
    <3>1. events[e].status = "observing"
      BY <2>2 DEF Observing
    <3>2. e[2] = today => events[e].verdict = 0
      BY <1>1, <2>1 DEF RowTimed
    <3>3. /\ RowSound(RowObserved(e, p), IF e[2] = today THEN p ELSE ofDay[e], e \in dark)
          /\ RowObserved(e, p).verdict = events[e].verdict
          /\ RowObserved(e, p).status = "observing"
      BY <2>1, <3>1, <3>2, RowObservedSound
    <3>4. events'[e] = RowObserved(e, p) /\ ofDay'[e] = IF e[2] = today THEN p ELSE ofDay[e]
      BY <1>2, <2>2
    <3>5. RowTimed(events[e], e[2])'
      BY <1>1, <2>1, <3>1, <3>3, <3>4 DEF RowTimed
    <3>6. RowSound(events[e], ofDay[e], e \in dark)'
      BY <1>1, <3>3, <3>4
    <3>7. QED
      BY <2>1, <3>4, <3>5, <3>6 DEF RowSound
  <2>3. CASE e \notin reached
    <3>1. events'[e] = events[e] /\ ofDay'[e] = ofDay[e]
      BY <1>2, <2>3
    <3>2. RowTimed(events[e], e[2])'
      BY <1>1, <2>1, <3>1 DEF RowTimed
    <3>3. QED
      BY <1>1, <2>1, <3>1, <3>2 DEF RowSound
  <2>4. QED
    BY <2>2, <2>3
<1>4. events' \in [Event -> EventRow] /\ ofDay' \in [Event -> PriceOrNone]
  BY <1>2, <1>3
<1>5. failed' \in 0..MaxFailures
  BY <1>1, <1>2, FailType DEF FilterRest
<1>6. FilterRest' /\ CaughtInv'
  BY <1>1, <1>4, <1>5 DEF FilterRest, CaughtInv
<1>7. QED
  BY <1>3, <1>4, <1>6 DEF FilterIInv

LEMMA BoardUnavailableKeeps ==
    ASSUME FilterIInv, NEW s \in Symbol, BoardUnavailable(s)
    PROVE  FilterIInv'
<1> DEFINE e == <<s, today>>
           new == [events[e] EXCEPT !.flagged = TRUE]
<1>1. /\ FilterRest /\ CaughtInv /\ e \in Event /\ events[e].close # 0
      /\ events' = [events EXCEPT ![e].flagged = TRUE] /\ dark' = dark \cup {e}
      /\ UNCHANGED <<today, trading, initialized, late, ofDay, caught, failed>>
  BY FilterParts DEF BoardUnavailable, Event, FilterRest
<1>2. /\ RowSound(events[e], ofDay[e], e \in dark) /\ RowTimed(events[e], e[2])
      /\ events[e] \in EventRow /\ events[e].status # "none"
  BY <1>1, FilterParts
<1> HIDE DEF e
<1>3. /\ new \in EventRow /\ new.flagged = TRUE /\ new.status = events[e].status
      /\ new.low = events[e].low /\ new.high = events[e].high /\ new.last = events[e].last
      /\ new.outcome = events[e].outcome /\ new.dayLow = events[e].dayLow
      /\ new.dayHigh = events[e].dayHigh /\ new.close = events[e].close
      /\ new.verdict = events[e].verdict
  BY <1>2 DEF EventRow
<1>4. events' = [events EXCEPT ![e] = new]
  BY <1>1
<1> HIDE DEF new
<1>5. RowSound(new, ofDay[e], TRUE)
  BY <1>2, <1>3 DEF RowSound
<1>6. ASSUME NEW f \in Event
      PROVE  RowSound(events[f], ofDay[f], f \in dark)' /\ RowTimed(events[f], f[2])'
  <2>1. CASE f = e
    <3>1. events'[f] = new /\ (f \in dark') = TRUE
      BY <1>1, <1>4, <2>1, FilterParts
    <3>2. RowTimed(events[f], f[2])'
      BY <1>1, <1>2, <1>3, <2>1, <3>1 DEF RowTimed
    <3>3. QED
      BY <1>1, <1>5, <2>1, <3>1, <3>2
  <2>2. CASE f # e
    <3>1. events'[f] = events[f] /\ (f \in dark') = (f \in dark)
      BY <1>1, <1>4, <2>2, FilterParts
    <3>2. RowTimed(events[f], f[2])'
      BY <1>1, <3>1, FilterParts DEF RowTimed
    <3>3. QED
      BY <1>1, <3>1, <3>2, FilterParts
  <2>3. QED
    BY <2>1, <2>2
<1>7. FilterRest' /\ CaughtInv'
  BY <1>1 DEF FilterRest, CaughtInv
<1>8. events' \in [Event -> EventRow]
  BY <1>1, <1>3, <1>4, FilterParts
<1>9. QED
  BY <1>6, <1>7, <1>8 DEF FilterIInv

LEMMA FilterInductive == FilterIInv /\ [FilterNext]_filterVars => FilterIInv'
<1> SUFFICES ASSUME FilterIInv, [FilterNext]_filterVars PROVE FilterIInv'
  OBVIOUS
<1>1. CASE StartRun
  BY <1>1, StartRunKeeps
<1>2. CASE InitializeDecisions
  BY <1>2, InitializeDecisionsKeeps
<1>3. CASE ClockReachesEnd
  BY <1>3, ClockReachesEndKeeps
<1>4. CASE FinishDay
  BY <1>4, FinishDayKeeps
<1>5. CASE StopEarly
  BY <1>5, StopEarlyKeeps
<1>6. CASE RunDies
  BY <1>6, RunDiesKeeps
<1>7. CASE NextBusinessDay
  BY <1>7, NextBusinessDayKeeps
<1>8. ASSUME NEW s \in Symbol, BoardUnavailable(s) PROVE FilterIInv'
  BY <1>8, BoardUnavailableKeeps
<1>9. ASSUME NEW s \in Symbol, NEW p \in Price, RecordEvent(s, p) PROVE FilterIInv'
  BY <1>9, RecordEventKeeps
<1>10. ASSUME NEW s \in Symbol, NEW p \in Price, ObservePrice(s, p) PROVE FilterIInv'
  BY <1>10, ObservePriceKeeps
<1>11. CASE UNCHANGED filterVars
  <2>1. trading' \in BOOLEAN /\ initialized' \in BOOLEAN /\ failed' \in 0..MaxFailures
    BY <1>11 DEF filterVars, FilterIInv, FilterRest
  <2>2. QED
    BY <1>11, <2>1, RowsStay DEF filterVars
<1>12. QED
  BY <1>1, <1>2, <1>3, <1>4, <1>5, <1>6, <1>7, <1>8, <1>9, <1>10, <1>11 DEF FilterNext

\* What is judged stays, and is of hours that are over.
LEMMA JudgedOnce ==
    ASSUME FilterIInv, FilterIInv', [FilterNext]_filterVars, NEW e \in Event
    PROVE  /\ events[e].verdict # 0 => events'[e].verdict = events[e].verdict
           /\ events[e].outcome # 0 => events'[e].outcome = events[e].outcome
           /\ events'[e].verdict # 0 => late \/ e[2] < today
<1> DEFINE Kept == /\ events[e].verdict # 0 => events'[e].verdict = events[e].verdict
                   /\ events[e].outcome # 0 => events'[e].outcome = events[e].outcome
<1>1. /\ RowSound(events[e], ofDay[e], e \in dark) /\ (e \in dark) \in BOOLEAN
      /\ RowTimed(events[e], e[2])
  BY FilterParts
<1>2. RowTimed(events[e], e[2])'
  BY DEF FilterIInv
<1>3. CASE UNCHANGED events
  BY <1>1, <1>3 DEF RowTimed
<1>4. ASSUME UNCHANGED <<today, late>>, Kept
      PROVE  /\ Kept
             /\ events'[e].verdict # 0 => late \/ e[2] < today
  BY <1>2, <1>4 DEF RowTimed
<1>5. ASSUME NEW includeToday \in BOOLEAN, NEW due \in SUBSET DueEvents,
             NEW sameDay \in SUBSET SameDayEvents(includeToday), events' = Judge(due, sameDay)
      PROVE  Kept
  <2>1. e \in sameDay => events[e].verdict = 0
    BY DEF SameDayEvents
  <2>2. QED
    BY <1>5, <2>1, RowJudged
<1>6. ASSUME NEW includeToday \in BOOLEAN, NEW upTo, JudgeSafely(includeToday, upTo)
      PROVE  Kept
  <2>1. CASE events' = Judge(DueEvents, SameDayEvents(includeToday))
    BY <1>5, <2>1
  <2>2. ASSUME NEW cut \in Day, NEW sameDay \in {{}, SameDayEvents(includeToday)},
               events' = Judge({f \in DueEvents : f[2] < cut}, sameDay)
        PROVE  Kept
    <3>1. {f \in DueEvents : f[2] < cut} \in SUBSET DueEvents /\ sameDay \in SUBSET SameDayEvents(includeToday)
      OBVIOUS
    <3>2. QED
      BY <1>5, <2>2, <3>1
  <2>3. QED
    BY <1>6, <2>1, <2>2 DEF JudgeSafely
<1>7. CASE InitializeDecisions
  BY <1>4, <1>6, <1>7 DEF InitializeDecisions
<1>8. CASE FinishDay
  BY <1>4, <1>6, <1>8 DEF FinishDay, End
<1>9. CASE StopEarly
  <2>1. CASE events' = Judge(DueEvents, {})
    <3>1. {} \in SUBSET SameDayEvents(FALSE)
      OBVIOUS
    <3>2. Kept
      BY <1>5, <2>1, <3>1
    <3>3. QED
      BY <1>4, <1>9, <3>2 DEF StopEarly, End
  <2>2. CASE events' = events
    BY <1>3, <2>2
  <2>3. QED
    BY <1>9, <2>1, <2>2 DEF StopEarly
<1>10. ASSUME NEW s \in Symbol, NEW p \in Price, RecordEvent(s, p)
       PROVE  /\ Kept
              /\ events'[e].verdict # 0 => late \/ e[2] < today
  <2>1. events[<<s, today>>].status = "none" /\ events' = [events EXCEPT ![<<s, today>>] = NewEvent(p)]
    BY <1>10 DEF RecordEvent
  <2>2. e = <<s, today>> => events[e].verdict = 0 /\ events[e].outcome = 0
    BY <1>1, <2>1 DEF RowSound, NoEvent
  <2>3. e # <<s, today>> => events'[e] = events[e]
    BY <2>1, FilterParts
  <2>4. Kept
    BY <2>2, <2>3
  <2>5. QED
    BY <1>4, <1>10, <2>4 DEF RecordEvent
<1>11. ASSUME NEW s \in Symbol, NEW p \in Price, ObservePrice(s, p)
       PROVE  /\ Kept
              /\ events'[e].verdict # 0 => late \/ e[2] < today
  <2>1. PICK reached \in SUBSET Observing :
           events' = [f \in Event |-> IF f \in reached THEN RowObserved(f, p) ELSE events[f]]
    <3>1. PICK cut \in 1..(MaxDay + 1) :
             events' = [f \in Event |-> IF f \in {x \in {y \in Observing : y[1] = s} : x[2] < cut}
                                        THEN RowObserved(f, p) ELSE events[f]]
      BY <1>11 DEF ObservePrice
    <3>2. {x \in {y \in Observing : y[1] = s} : x[2] < cut} \in SUBSET Observing
      OBVIOUS
    <3>3. QED
      BY <3>1, <3>2
  <2>2. CASE e \in reached
    <3>1. events[e].status = "observing" /\ ~late /\ UNCHANGED <<today, late>>
      BY <1>11, <2>2 DEF Observing, ObservePrice
    <3>2. e[2] = today => events[e].verdict = 0
      BY <1>1, <3>1, EventType DEF RowTimed
    <3>3. RowObserved(e, p).verdict = events[e].verdict /\ RowObserved(e, p).outcome = events[e].outcome
      BY <1>1, <3>1, <3>2, RowObservedSound
    <3>4. events'[e] = RowObserved(e, p)
      BY <2>1, <2>2
    <3>5. QED
      BY <1>4, <3>1, <3>3, <3>4
  <2>3. CASE e \notin reached
    <3>1. events'[e] = events[e]
      BY <2>1, <2>3
    <3>2. QED
      BY <1>4, <1>11, <3>1 DEF ObservePrice
  <2>4. QED
    BY <2>2, <2>3
<1>12. ASSUME NEW s \in Symbol, BoardUnavailable(s)
       PROVE  /\ Kept
              /\ events'[e].verdict # 0 => late \/ e[2] < today
  <2>1. events'[e].verdict = events[e].verdict /\ events'[e].outcome = events[e].outcome
    <3>1. events' = [events EXCEPT ![<<s, today>>].flagged = TRUE] /\ events[e] \in EventRow
      BY <1>12, FilterParts DEF BoardUnavailable
    <3>2. QED
      BY <3>1, FilterParts DEF EventRow
  <2>2. QED
    BY <1>4, <1>12, <2>1 DEF BoardUnavailable
<1>13. CASE StartRun \/ ClockReachesEnd \/ RunDies \/ NextBusinessDay \/ UNCHANGED filterVars
  BY <1>3, <1>13 DEF StartRun, ClockReachesEnd, RunDies, NextBusinessDay, filterVars
<1>14. QED
  BY <1>7, <1>8, <1>9, <1>10, <1>11, <1>12, <1>13 DEF FilterNext

LEMMA FilterIInvImplies == FilterIInv => FilterTypeOK /\ JudgedFairly
<1> SUFFICES ASSUME FilterIInv PROVE FilterTypeOK /\ JudgedFairly
  OBVIOUS
<1>1. \A e \in Event : RowSound(events[e], ofDay[e], e \in dark) /\ RowTimed(events[e], e[2])
  BY FilterParts
<1>2. FilterTypeOK
  BY <1>1, FilterParts DEF FilterRest, FilterTypeOK, RowSound
<1>3. JudgedByItsDay
  BY <1>1 DEF JudgedByItsDay, RowSound
<1>4. IntervalsNested
  BY <1>1 DEF IntervalsNested, RowSound
<1>5. DarknessFlagged
  BY <1>1, FilterParts DEF DarknessFlagged, RowSound, FilterRest
<1>6. CaughtUp
  BY <1>1 DEF CaughtUp, RowTimed
<1>7. QED
  BY <1>2, <1>3, <1>4, <1>5, <1>6 DEF JudgedFairly

-----------------------------------------------------------------------------
(* Decision events: the theorems *)

\* The rows of filter_decision_events keep their types, and one is finalized if and
\* only if it has its outcome, however often a run dies, fails to judge or starts again.
THEOREM FilterTyped == FilterSpec => []FilterTypeOK
<1>1. FilterIInv => FilterTypeOK
  BY FilterIInvImplies
<1>2. QED
  BY <1>1, FilterInitially, FilterInductive, PTL DEF FilterSpec

\* finalize_same_day_events and finalize_due_events judge by what was seen of the
\* event's own day, say what was not seen, and leave nothing open once a run caught up,
\* for any symbols, prices, days, failures and number of business days observed.
THEOREM AlwaysJudgedFairly == FilterSpec => []JudgedFairly
<1>1. FilterIInv => JudgedFairly
  BY FilterIInvImplies
<1>2. QED
  BY <1>1, FilterInitially, FilterInductive, PTL DEF FilterSpec

\* A verdict and an outcome are written once, and the verdict never during the hours
\* of the event's day, whichever of the loop, its end or a later run comes to judge.
THEOREM OneJudgement == FilterSpec => JudgedForGood
<1> DEFINE Once == \A e \in Event :
                      /\ events[e].verdict # 0 => events'[e].verdict = events[e].verdict
                      /\ events[e].outcome # 0 => events'[e].outcome = events[e].outcome
                      /\ events'[e].verdict # 0 => late \/ e[2] < today
<1>1. FilterIInv /\ FilterIInv' /\ [FilterNext]_filterVars => [Once]_filterVars
  BY JudgedOnce
<1>2. QED
  BY <1>1, FilterInitially, FilterInductive, PTL DEF FilterSpec, JudgedForGood

-----------------------------------------------------------------------------
(* The journal of the shadow positions: the inductive invariant, in named parts *)

\* What is in memory belongs to a running process.
MemoryOfProcess == ~trading => tracked = {} /\ pending = NoCounts

\* Nothing is written for a day to come, or for a lot that nobody bought, and no
\* settlement for a lot that is not sold.
NothingEarly ==
    \A d \in Day, lot \in Lot, c \in 1..Settlement :
        d > today \/ lot \notin open \cup sold \/ (c = Settlement /\ lot \notin sold)
            => Count(<<d, lot, c>>) = 0

\* What a day has of a lot that is tracked is noted, unless a start could not read it.
NotedAsDone ==
    today \notin blind =>
        \A lot \in tracked, c \in Checkpoint : Count(<<today, lot, c>>) > 0 => c \in done[lot]

\* A lot has one settlement row, on one day.
OneSettlement ==
    \A lot \in Lot, d \in Day :
        /\ Count(<<d, lot, Settlement>>) <= 1
        /\ \A other \in Day : Count(<<d, lot, Settlement>>) > 0 /\ Count(<<other, lot, Settlement>>) > 0
                                => d = other

ShadowIInv ==
    /\ ShadowTypeOK
    /\ IsFiniteSet(open)
    /\ CountsExact
    /\ MemoryOfProcess
    /\ NothingEarly
    /\ CheckpointOnce
    /\ NotedAsDone
    /\ OneSettlement

-----------------------------------------------------------------------------
(* The journal: what its operations do to the counts *)

LEMMA ShadowConstants ==
    /\ LastCheckpoint \in Nat /\ LastCheckpoint >= 1 /\ MaxStarts \in Nat /\ MaxFlushFailures \in Nat
    /\ Settlement = LastCheckpoint + 1 /\ Settlement \in 1..Settlement
    /\ Checkpoint = 1..LastCheckpoint /\ Settlement \notin Checkpoint
    /\ \A c \in Checkpoint : c \in 1..Settlement
    /\ Key = ShadowKey
BY ShadowPositionsAssumption, DecisionJournalAssumption DEF Settlement, Checkpoint

LEMMA KeyType ==
    ASSUME NEW d \in Day, NEW lot \in Lot, NEW c \in 1..Settlement
    PROVE  <<d, lot, c>> \in Key
BY ShadowConstants DEF ShadowKey

LEMMA CountType ==
    ASSUME JournalTypeOK, NEW k \in Key
    PROVE  /\ table[k] \in Nat /\ pending[k] \in Nat /\ recorded[k] \in Nat /\ Count(k) \in Nat
           /\ Count(k) = table[k] + pending[k]
BY DEF JournalTypeOK, Counts, Count

LEMMA RecordCounts ==
    ASSUME JournalTypeOK, CountsExact, NEW keys \in SUBSET Key, Record(keys),
           UNCHANGED <<table, snapshot, failures>>
    PROVE  /\ JournalTypeOK' /\ CountsExact'
           /\ \A k \in Key : Count(k)' = IF k \in keys THEN Count(k) + 1 ELSE Count(k)
<1>1. /\ pending' = [k \in Key |-> pending[k] + IF k \in keys THEN 1 ELSE 0]
      /\ recorded' = [k \in Key |-> recorded[k] + IF k \in keys THEN 1 ELSE 0]
  BY DEF Record, Plus
<1>2. pending' \in Counts /\ recorded' \in Counts
  BY <1>1, CountType DEF Counts
<1>3. JournalTypeOK'
  BY <1>2 DEF JournalTypeOK
<1>4. ASSUME NEW k \in Key
      PROVE  /\ Count(k)' = IF k \in keys THEN Count(k) + 1 ELSE Count(k)
             /\ recorded'[k] = table'[k] + pending'[k]
  BY <1>1, CountType DEF Count, CountsExact
<1>5. QED
  BY <1>3, <1>4 DEF CountsExact

LEMMA SaveCounts ==
    ASSUME JournalTypeOK, CountsExact, table' = Plus(table, pending), pending' = NoCounts,
           recorded' = recorded
    PROVE  /\ table' \in Counts /\ pending' \in Counts /\ recorded' \in Counts /\ CountsExact'
           /\ \A k \in Key : Count(k)' = Count(k)
<1>1. table' \in Counts /\ pending' \in Counts /\ recorded' \in Counts
  BY CountType DEF Counts, Plus, NoCounts, JournalTypeOK
<1>2. ASSUME NEW k \in Key PROVE Count(k)' = Count(k) /\ recorded'[k] = table'[k] + pending'[k]
  BY CountType DEF Count, CountsExact, Plus, NoCounts
<1>3. QED
  BY <1>1, <1>2 DEF CountsExact

LEMMA LoseCounts ==
    ASSUME JournalTypeOK, CountsExact, LosePending, table' = table
    PROVE  /\ table' \in Counts /\ pending' \in Counts /\ recorded' \in Counts /\ CountsExact'
           /\ \A k \in Key : Count(k)' \in Nat /\ Count(k)' <= Count(k)
<1>1. ASSUME NEW k \in Key
      PROVE  /\ pending'[k] = 0 /\ recorded'[k] = table[k] /\ table'[k] = table[k]
             /\ table[k] \in Nat /\ table[k] <= Count(k)
  BY CountType DEF LosePending, NoCounts, CountsExact, Count
<1>2. /\ pending' = [k \in Key |-> pending'[k]]
      /\ recorded' = [k \in Key |-> recorded'[k]]
  BY DEF LosePending, NoCounts
<1>3. table' \in Counts /\ pending' \in Counts /\ recorded' \in Counts
  BY <1>1, <1>2 DEF Counts, JournalTypeOK
<1>4. \A k \in Key : Count(k)' = table[k]
  BY <1>1 DEF Count
<1>5. QED
  BY <1>1, <1>3, <1>4 DEF CountsExact

\* The snapshots
LEMMA SnapshotType ==
    ASSUME JournalTypeOK, NEW kind \in {"start", "end"}, NEW n \in Nat, SaveSnapshot(kind, n)
    PROVE  snapshot' \in [{"start", "end"} -> Nat \cup {-1}] /\ failures' \in 0..MaxFlushFailures
<1>1. snapshot' \in [{"start", "end"} -> Nat \cup {-1}]
  BY DEF SaveSnapshot, JournalTypeOK
<1>2. failures' \in 0..MaxFlushFailures
  BY ShadowConstants DEF SaveSnapshot, JournalTypeOK
<1>3. QED
  BY <1>1, <1>2

LEMMA HeldFinite == ASSUME IsFiniteSet(open) PROVE Cardinality(Held) \in Nat
<1>1. IsFiniteSet(Held)
  <2> DEFINE f == [lot \in open |-> lot[1]]
  <2>1. f \in Surjection(open, Held)
    BY DEF Surjection, Held
  <2>2. QED
    BY <2>1, FS_Surjection
<1>2. QED
  BY <1>1, FS_CardinalityType

-----------------------------------------------------------------------------
(* Shadow positions: every step keeps the invariant *)

LEMMA ShadowParts ==
    ASSUME ShadowIInv
    PROVE  /\ ShadowTypeOK /\ CountsExact /\ MemoryOfProcess /\ NothingEarly /\ CheckpointOnce
           /\ NotedAsDone /\ OneSettlement /\ JournalTypeOK /\ IsFiniteSet(open)
           /\ today \in Day /\ today \in Nat /\ trading \in BOOLEAN
           /\ open \subseteq Lot /\ sold \subseteq Lot \ open /\ tracked \subseteq open
           /\ age \in [Lot -> 0..LastCheckpoint] /\ done \in [Lot -> SUBSET Checkpoint]
           /\ blind \subseteq Day /\ starts \in 0..MaxStarts
BY DayType DEF ShadowIInv, ShadowTypeOK

\* A step that adds no row to the journal
LEMMA NoNewRows ==
    ASSUME ShadowIInv, \A k \in Key : Count(k)' \in Nat /\ Count(k)' <= Count(k),
           today' \in Nat, today <= today', blind \subseteq blind',
           open \cup sold \subseteq (open \cup sold)', sold \subseteq sold'
    PROVE  NothingEarly' /\ CheckpointOnce' /\ OneSettlement'
<1>1. ASSUME NEW d \in Day, NEW lot \in Lot, NEW c \in 1..Settlement
      PROVE  /\ Count(<<d, lot, c>>)' \in Nat /\ Count(<<d, lot, c>>) \in Nat
             /\ Count(<<d, lot, c>>)' <= Count(<<d, lot, c>>)
  BY KeyType, CountType, ShadowParts
<1>2. ASSUME NEW d \in Day, NEW lot \in Lot, NEW c \in 1..Settlement,
             d > today' \/ lot \notin (open \cup sold)' \/ (c = Settlement /\ lot \notin sold')
      PROVE  Count(<<d, lot, c>>)' = 0
  <2>1. d > today \/ lot \notin open \cup sold \/ (c = Settlement /\ lot \notin sold)
    BY <1>2, DayType, ShadowParts
  <2>2. Count(<<d, lot, c>>) = 0
    BY <2>1, ShadowParts DEF NothingEarly
  <2>3. QED
    BY <1>1, <2>2
<1>3. NothingEarly'
  BY <1>2 DEF NothingEarly
<1>4. ASSUME NEW d \in Day \ blind', NEW lot \in Lot, NEW c \in Checkpoint
      PROVE  Count(<<d, lot, c>>)' <= 1
  <2>1. c \in 1..Settlement /\ Count(<<d, lot, c>>) <= 1
    BY <1>4, ShadowParts, ShadowConstants DEF CheckpointOnce
  <2>2. QED
    BY <1>1, <2>1
<1>5. ASSUME NEW lot \in Lot, NEW d \in Day
      PROVE  /\ Count(<<d, lot, Settlement>>)' <= 1
             /\ \A other \in Day :
                   Count(<<d, lot, Settlement>>)' > 0 /\ Count(<<other, lot, Settlement>>)' > 0 => d = other
  <2>1. /\ Count(<<d, lot, Settlement>>) <= 1
        /\ \A other \in Day :
              Count(<<d, lot, Settlement>>) > 0 /\ Count(<<other, lot, Settlement>>) > 0 => d = other
    BY ShadowParts DEF OneSettlement
  <2>2. QED
    BY <1>1, <2>1, ShadowConstants
<1>6. QED
  BY <1>3, <1>4, <1>5 DEF CheckpointOnce, OneSettlement

\* The same when the counts stay as they are
LEMMA SameRows ==
    ASSUME ShadowIInv, UNCHANGED <<table, pending>>
    PROVE  \A k \in Key : Count(k)' = Count(k) /\ Count(k)' \in Nat /\ Count(k)' <= Count(k)
<1>1. ASSUME NEW k \in Key PROVE Count(k)' = Count(k) /\ Count(k) \in Nat
  BY CountType, ShadowParts DEF Count
<1>2. QED
  BY <1>1

\* No lot and no record yet, whatever the day.
NoLots ==
    /\ JournalInit
    /\ open = {}
    /\ sold = {}
    /\ age = [lot \in Lot |-> 0]
    /\ tracked = {}
    /\ done = [lot \in Lot |-> {}]
    /\ blind = {}
    /\ starts = 0

LEMMA NoLotsSound ==
    ASSUME NoLots, today \in Day, trading \in BOOLEAN
    PROVE  ShadowIInv
<1>1. /\ open = {} /\ sold = {}
      /\ tracked = {} /\ blind = {} /\ starts = 0 /\ failures = 0 /\ pending = NoCounts
      /\ table = NoCounts /\ recorded = NoCounts /\ snapshot = NoSnapshot
  BY Zenon DEF NoLots, JournalInit
<1>2. NoCounts \in Counts
  BY DEF NoCounts, Counts
<1>3. JournalTypeOK
  <2>1. NoSnapshot \in [{"start", "end"} -> Nat \cup {-1}]
    BY DEF NoSnapshot
  <2>2. QED
    BY <1>1, <1>2, <2>1, ShadowConstants DEF JournalTypeOK
<1>4. ShadowTypeOK
  <2>1. age \in [Lot -> 0..LastCheckpoint] /\ done \in [Lot -> SUBSET Checkpoint]
    BY ShadowConstants DEF NoLots
  <2>2. starts \in 0..MaxStarts
    BY <1>1, ShadowConstants
  <2>3. QED
    BY <1>1, <1>3, <2>1, <2>2 DEF ShadowTypeOK
<1>5. ASSUME NEW k \in Key PROVE Count(k) = 0 /\ recorded[k] = table[k] + pending[k]
  BY <1>1 DEF Count, NoCounts
<1>6. \A d \in Day, lot \in Lot, c \in 1..Settlement : Count(<<d, lot, c>>) = 0
  BY <1>5, KeyType
<1>7. CountsExact /\ NothingEarly /\ MemoryOfProcess /\ NotedAsDone
  BY <1>1, <1>5, <1>6 DEF CountsExact, NothingEarly, MemoryOfProcess, NotedAsDone
<1>8. CheckpointOnce /\ OneSettlement
  BY <1>6, ShadowConstants DEF CheckpointOnce, OneSettlement
<1>9. IsFiniteSet(open)
  BY <1>1, FS_EmptySet
<1>10. QED
  BY <1>4, <1>7, <1>8, <1>9 DEF ShadowIInv

LEMMA ShadowInitially == ShadowInit => ShadowIInv
<1> SUFFICES ASSUME ShadowInit PROVE ShadowIInv
  OBVIOUS
<1>1. NoLots
  BY DEF ShadowInit, NoLots
<1>2. today \in Day /\ trading \in BOOLEAN
  <2>1. today = 1 /\ trading = FALSE /\ 1 \in Day
    BY FilterConstants DEF ShadowInit, DaysInit, Day
  <2>2. QED
    BY <2>1
<1>3. QED
  BY <1>1, <1>2, NoLotsSound

\* The loop starts: what is restored of today was read in the table.
LEMMA BeginTrackingKeeps == ASSUME ShadowIInv, BeginTracking PROVE ShadowIInv'
<1>1. /\ ~trading /\ trading' = TRUE /\ today' = today /\ starts < MaxStarts /\ starts' = starts + 1
      /\ SaveSnapshot("start", Cardinality(Held))
      /\ UNCHANGED <<pending, table, recorded, open, sold, age>>
  BY DEF BeginTracking, Begin
<1>2. PICK readable \in BOOLEAN, restored \in SUBSET open :
         /\ tracked' = restored
         /\ done' = [lot \in Lot |-> IF lot \in restored THEN Restored(lot, readable) ELSE {}]
         /\ blind' = IF readable THEN blind ELSE blind \cup {today}
  BY DEF BeginTracking
<1>3. JournalTypeOK' /\ CountsExact'
  <2>1. /\ snapshot' \in [{"start", "end"} -> Nat \cup {-1}] /\ failures' \in 0..MaxFlushFailures
    BY <1>1, ShadowParts, HeldFinite, SnapshotType
  <2>2. QED
    BY <1>1, <2>1, ShadowParts DEF JournalTypeOK, CountsExact
<1>4. ASSUME NEW lot \in Lot PROVE Restored(lot, readable) \in SUBSET Checkpoint
  BY DEF Restored, Written
<1>5. ShadowTypeOK'
  <2>1. done' \in [Lot -> SUBSET Checkpoint]
    BY <1>2, <1>4
  <2>2. starts' \in 0..MaxStarts
    BY <1>1, ShadowParts, ShadowConstants
  <2>3. blind' \subseteq Day
    BY <1>2, ShadowParts
  <2>4. QED
    BY <1>1, <1>2, <1>3, <2>1, <2>2, <2>3, ShadowParts DEF ShadowTypeOK
<1>6. MemoryOfProcess' /\ IsFiniteSet(open')
  BY <1>1, ShadowParts DEF MemoryOfProcess
<1>7. NothingEarly' /\ CheckpointOnce' /\ OneSettlement'
  <2>1. \A k \in Key : Count(k)' \in Nat /\ Count(k)' <= Count(k)
    BY <1>1, SameRows
  <2>2. today' \in Nat /\ today <= today' /\ blind \subseteq blind'
    BY <1>1, <1>2, ShadowParts
  <2>3. QED
    BY <1>1, <2>1, <2>2, NoNewRows
<1>8. NotedAsDone'
  <2>1. SUFFICES ASSUME today' \notin blind', NEW lot \in tracked', NEW c \in Checkpoint,
                        Count(<<today, lot, c>>)' > 0
                 PROVE  c \in done'[lot]
    BY DEF NotedAsDone
  <2>2. readable /\ lot \in Lot /\ done'[lot] = Written(lot)
    BY <1>1, <1>2, <2>1, ShadowParts DEF Restored
  <2>3. <<today, lot, c>> \in Key
    BY <2>2, KeyType, ShadowParts, ShadowConstants
  <2>4. pending[<<today, lot, c>>] = 0 /\ table[<<today, lot, c>>] \in Nat
    BY <1>1, <2>3, CountType, ShadowParts DEF MemoryOfProcess, NoCounts
  <2>5. table[<<today, lot, c>>] > 0
    BY <1>1, <2>1, <2>4 DEF Count
  <2>6. QED
    BY <2>2, <2>5 DEF Written
<1>9. QED
  BY <1>3, <1>5, <1>6, <1>7, <1>8 DEF ShadowIInv

\* A lot that is bought has no rows yet.
LEMMA TrackPurchaseKeeps ==
    ASSUME ShadowIInv, NEW s \in Symbol, TrackPurchase(s)
    PROVE  ShadowIInv'
<1> DEFINE lot == <<s, today>>
<1>1. /\ trading /\ lot \in Lot /\ lot \notin open \cup sold
      /\ open' = open \cup {lot} /\ tracked' = tracked \cup {lot} /\ done' = [done EXCEPT ![lot] = {}]
      /\ UNCHANGED <<today, trading, pending, table, snapshot, recorded, failures, sold, age, blind, starts>>
  BY ShadowParts DEF TrackPurchase, journalVars, Lot
<1> HIDE DEF lot
<1>2. JournalTypeOK' /\ CountsExact' /\ MemoryOfProcess'
  BY <1>1, ShadowParts DEF JournalTypeOK, CountsExact, MemoryOfProcess
<1>3. ShadowTypeOK' /\ IsFiniteSet(open')
  <2>1. done' \in [Lot -> SUBSET Checkpoint]
    BY <1>1, ShadowParts
  <2>2. IsFiniteSet(open')
    BY <1>1, FS_AddElement, ShadowParts
  <2>3. open' \subseteq Lot /\ sold' \subseteq Lot \ open' /\ tracked' \subseteq open'
    BY <1>1, ShadowParts
  <2>4. QED
    BY <1>1, <1>2, <2>1, <2>2, <2>3, ShadowParts DEF ShadowTypeOK
<1>4. NothingEarly' /\ CheckpointOnce' /\ OneSettlement'
  <2>1. \A k \in Key : Count(k)' \in Nat /\ Count(k)' <= Count(k)
    BY <1>1, SameRows
  <2>2. today' \in Nat /\ today <= today' /\ open \cup sold \subseteq (open \cup sold)'
    BY <1>1, ShadowParts
  <2>3. QED
    BY <1>1, <2>1, <2>2, NoNewRows
<1>5. NotedAsDone'
  <2>1. SUFFICES ASSUME today' \notin blind', NEW other \in tracked', NEW c \in Checkpoint,
                        Count(<<today, other, c>>)' > 0
                 PROVE  c \in done'[other]
    BY DEF NotedAsDone
  <2>2. other \in Lot /\ <<today, other, c>> \in Key /\ c \in 1..Settlement
    BY <1>1, <2>1, KeyType, ShadowParts, ShadowConstants
  <2>3. Count(<<today, other, c>>) > 0
    BY <1>1, <2>1, <2>2 DEF Count
  <2>4. other # lot
    BY <1>1, <2>2, <2>3, ShadowParts DEF NothingEarly
  <2>5. other \in tracked /\ done'[other] = done[other] /\ today \notin blind
    BY <1>1, <2>1, <2>2, <2>4, ShadowParts
  <2>6. QED
    BY <2>3, <2>5, ShadowParts DEF NotedAsDone
<1>6. QED
  BY <1>2, <1>3, <1>4, <1>5 DEF ShadowIInv

\* A row is written for what was not noted only, so on a day that could be read once.
LEMMA ObserveKeeps ==
    ASSUME ShadowIInv, NEW s \in Symbol, Observe(s)
    PROVE  ShadowIInv'
<1> DEFINE lots == TrackedOf(s)
           rows == {<<today, lot, c>> : lot \in lots, c \in Checkpoint}
           keys == {row \in rows : row[3] \in Due(row[2])}
<1>1. /\ trading /\ Record(keys) /\ done' = Observed(lots)
      /\ UNCHANGED <<today, trading, table, snapshot, failures, open, sold, age, tracked, blind, starts>>
  BY DEF Observe
<1>2. lots \subseteq tracked /\ lots \subseteq Lot
  BY ShadowParts DEF TrackedOf
<1>3. ASSUME NEW d \in Day, NEW lot \in Lot, NEW c \in 1..Settlement
      PROVE  <<d, lot, c>> \in keys <=> d = today /\ lot \in lots /\ c \in Checkpoint /\ c \in Due(lot)
  <2>1. CASE <<d, lot, c>> \in keys
    <3>1. PICK l \in lots, e \in Checkpoint : <<d, lot, c>> = <<today, l, e>>
      BY <2>1
    <3>2. d = today /\ lot = l /\ c = e
      BY <3>1
    <3>3. c \in Due(lot)
      BY <2>1
    <3>4. QED
      BY <2>1, <3>2, <3>3
  <2>2. CASE d = today /\ lot \in lots /\ c \in Checkpoint /\ c \in Due(lot)
    <3>1. <<d, lot, c>> \in rows
      BY <2>2
    <3>2. QED
      BY <2>2, <3>1
  <2>3. QED
    BY <2>1, <2>2
<1>4. keys \in SUBSET Key
  <2>1. ASSUME NEW k \in rows PROVE k \in Key
    <3>1. PICK l \in lots, e \in Checkpoint : k = <<today, l, e>>
      OBVIOUS
    <3>2. QED
      BY <1>2, <3>1, KeyType, ShadowParts, ShadowConstants
  <2>2. QED
    BY <2>1
<1> HIDE DEF lots, rows, keys
<1>5. /\ JournalTypeOK' /\ CountsExact'
      /\ \A k \in Key : Count(k)' = IF k \in keys THEN Count(k) + 1 ELSE Count(k)
  BY <1>1, <1>4, RecordCounts, ShadowParts
<1>6. ASSUME NEW d \in Day, NEW lot \in Lot, NEW c \in 1..Settlement
      PROVE  /\ Count(<<d, lot, c>>)' = IF <<d, lot, c>> \in keys THEN Count(<<d, lot, c>>) + 1
                                                                ELSE Count(<<d, lot, c>>)
             /\ Count(<<d, lot, c>>) \in Nat
  BY <1>5, KeyType, CountType, ShadowParts
<1>7. ASSUME NEW lot \in Lot
      PROVE  /\ done[lot] \subseteq done'[lot] /\ done'[lot] \in SUBSET Checkpoint
             /\ lot \in lots => Due(lot) \subseteq done'[lot]
             /\ \A c \in Due(lot) : c \in Checkpoint /\ c \notin done[lot]
  BY <1>1, ShadowParts DEF Observed, Due
<1>8. ShadowTypeOK' /\ MemoryOfProcess' /\ IsFiniteSet(open')
  <2>1. done' \in [Lot -> SUBSET Checkpoint]
    BY <1>1, <1>7 DEF Observed
  <2>2. QED
    BY <1>1, <1>5, <2>1, ShadowParts DEF ShadowTypeOK, MemoryOfProcess
<1>9. NothingEarly'
  <2>1. SUFFICES ASSUME NEW d \in Day, NEW lot \in Lot, NEW c \in 1..Settlement,
                        d > today \/ lot \notin open \cup sold \/ (c = Settlement /\ lot \notin sold)
                 PROVE  Count(<<d, lot, c>>)' = 0
    BY <1>1 DEF NothingEarly
  <2>2. Count(<<d, lot, c>>) = 0
    BY <2>1, ShadowParts DEF NothingEarly
  <2>3. <<d, lot, c>> \notin keys
    BY <1>2, <1>3, <2>1, ShadowParts, ShadowConstants
  <2>4. QED
    BY <1>6, <2>2, <2>3
<1>10. CheckpointOnce'
  <2>1. SUFFICES ASSUME NEW d \in Day \ blind, NEW lot \in Lot, NEW c \in Checkpoint
                 PROVE  Count(<<d, lot, c>>)' <= 1
    BY <1>1 DEF CheckpointOnce
  <2>2. c \in 1..Settlement /\ Count(<<d, lot, c>>) <= 1
    BY ShadowParts, ShadowConstants DEF CheckpointOnce
  <2>3. <<d, lot, c>> \in keys => Count(<<d, lot, c>>) = 0
    <3>1. SUFFICES ASSUME d = today, lot \in lots, c \notin done[lot]
                   PROVE  Count(<<d, lot, c>>) = 0
      BY <1>3, <1>7, <2>2
    <3>2. today \notin blind /\ lot \in tracked
      BY <1>2, <3>1
    <3>3. ~(Count(<<today, lot, c>>) > 0)
      BY <3>1, <3>2, ShadowParts DEF NotedAsDone
    <3>4. QED
      BY <1>6, <2>2, <3>1, <3>3
  <2>4. QED
    BY <1>6, <2>2, <2>3
<1>11. OneSettlement'
  <2>1. ASSUME NEW d \in Day, NEW lot \in Lot
        PROVE  Count(<<d, lot, Settlement>>)' = Count(<<d, lot, Settlement>>)
    BY <1>3, <1>6, ShadowConstants
  <2>2. QED
    BY <2>1, ShadowParts DEF OneSettlement
<1>12. NotedAsDone'
  <2>1. SUFFICES ASSUME today \notin blind, NEW lot \in tracked, NEW c \in Checkpoint,
                        Count(<<today, lot, c>>)' > 0
                 PROVE  c \in done'[lot]
    BY <1>1 DEF NotedAsDone
  <2>2. lot \in Lot /\ c \in 1..Settlement /\ today \in Day
    BY ShadowParts, ShadowConstants
  <2>3. CASE <<today, lot, c>> \in keys
    BY <1>3, <1>7, <2>2, <2>3
  <2>4. CASE <<today, lot, c>> \notin keys
    <3>1. Count(<<today, lot, c>>) > 0
      BY <1>1, <1>6, <2>1, <2>2, <2>4
    <3>2. QED
      BY <1>7, <2>1, <2>2, <3>1, ShadowParts DEF NotedAsDone
  <2>5. QED
    BY <2>3, <2>4
<1>13. QED
  BY <1>5, <1>8, <1>9, <1>10, <1>11, <1>12 DEF ShadowIInv

\* A lot is settled when it is sold, and never before, so once.
LEMMA SettleKeeps ==
    ASSUME ShadowIInv, NEW s \in Symbol, Settle(s)
    PROVE  ShadowIInv'
<1> DEFINE lots == TrackedOf(s)
           keys == {<<today, lot, Settlement>> : lot \in lots}
<1>1. /\ trading /\ Record(keys)
      /\ open' = open \ LotsOf(s) /\ sold' = sold \cup LotsOf(s) /\ tracked' = tracked \ lots
      /\ UNCHANGED <<today, trading, table, snapshot, failures, age, done, blind, starts>>
  BY DEF Settle, Unsettled
<1>2. /\ lots \subseteq tracked /\ lots \subseteq LotsOf(s) /\ lots \subseteq Lot /\ LotsOf(s) \subseteq open
      /\ \A lot \in tracked \ lots : lot \notin LotsOf(s)
  BY ShadowParts DEF TrackedOf, LotsOf
<1>3. ASSUME NEW d \in Day, NEW lot \in Lot, NEW c \in 1..Settlement
      PROVE  <<d, lot, c>> \in keys <=> d = today /\ lot \in lots /\ c = Settlement
  OBVIOUS
<1>4. keys \in SUBSET Key
  <2>1. ASSUME NEW lot \in lots PROVE <<today, lot, Settlement>> \in Key
    BY <1>2, KeyType, ShadowParts, ShadowConstants
  <2>2. QED
    BY <2>1
<1> HIDE DEF lots, keys
<1>5. /\ JournalTypeOK' /\ CountsExact'
      /\ \A k \in Key : Count(k)' = IF k \in keys THEN Count(k) + 1 ELSE Count(k)
  BY <1>1, <1>4, RecordCounts, ShadowParts
<1>6. ASSUME NEW d \in Day, NEW lot \in Lot, NEW c \in 1..Settlement
      PROVE  /\ Count(<<d, lot, c>>)' = IF d = today /\ lot \in lots /\ c = Settlement
                                        THEN Count(<<d, lot, c>>) + 1 ELSE Count(<<d, lot, c>>)
             /\ Count(<<d, lot, c>>) \in Nat
  BY <1>3, <1>5, KeyType, CountType, ShadowParts
<1>7. ShadowTypeOK' /\ MemoryOfProcess' /\ IsFiniteSet(open')
  <2>1. open' \subseteq Lot /\ sold' \subseteq Lot \ open' /\ tracked' \subseteq open'
    BY <1>1, <1>2, ShadowParts
  <2>2. IsFiniteSet(open')
    <3>1. open' \in SUBSET open
      BY <1>1
    <3>2. QED
      BY <3>1, FS_Subset, ShadowParts
  <2>3. QED
    BY <1>1, <1>5, <2>1, <2>2, ShadowParts DEF ShadowTypeOK, MemoryOfProcess
<1>8. NothingEarly'
  <2>1. SUFFICES ASSUME NEW d \in Day, NEW lot \in Lot, NEW c \in 1..Settlement,
                        d > today \/ lot \notin open' \cup sold' \/ (c = Settlement /\ lot \notin sold')
                 PROVE  Count(<<d, lot, c>>)' = 0
    BY <1>1 DEF NothingEarly
  <2>2. d > today \/ lot \notin open \cup sold \/ (c = Settlement /\ lot \notin sold)
    BY <1>1, <2>1
  <2>3. Count(<<d, lot, c>>) = 0
    BY <2>2, ShadowParts DEF NothingEarly
  <2>4. ~(d = today /\ lot \in lots)
    BY <1>1, <1>2, <2>1, ShadowParts
  <2>5. QED
    BY <1>6, <2>3, <2>4
<1>9. CheckpointOnce'
  <2>1. SUFFICES ASSUME NEW d \in Day \ blind, NEW lot \in Lot, NEW c \in Checkpoint
                 PROVE  Count(<<d, lot, c>>)' <= 1
    BY <1>1 DEF CheckpointOnce
  <2>2. c \in 1..Settlement /\ c # Settlement /\ Count(<<d, lot, c>>) <= 1
    BY ShadowParts, ShadowConstants DEF CheckpointOnce
  <2>3. QED
    BY <1>6, <2>2
<1>10. OneSettlement'
  <2>1. SUFFICES ASSUME NEW lot \in Lot
                 PROVE  \A d \in Day :
                           /\ Count(<<d, lot, Settlement>>)' <= 1
                           /\ \A other \in Day :
                                 Count(<<d, lot, Settlement>>)' > 0 /\ Count(<<other, lot, Settlement>>)' > 0
                                    => d = other
    BY DEF OneSettlement
  <2>2. CASE lot \in lots
    <3>1. \A d \in Day : Count(<<d, lot, Settlement>>) = 0
      <4>1. lot \notin sold
        BY <1>2, <2>2, ShadowParts
      <4>2. QED
        BY <4>1, ShadowParts, ShadowConstants DEF NothingEarly
    <3>2. \A d \in Day : Count(<<d, lot, Settlement>>)' = IF d = today THEN 1 ELSE 0
      BY <1>6, <2>2, <3>1, ShadowConstants
    <3>3. QED
      BY <3>2
  <2>3. CASE lot \notin lots
    <3>1. \A d \in Day : Count(<<d, lot, Settlement>>)' = Count(<<d, lot, Settlement>>)
      BY <1>6, <2>3, ShadowConstants
    <3>2. QED
      BY <3>1, ShadowParts DEF OneSettlement
  <2>4. QED
    BY <2>2, <2>3
<1>11. NotedAsDone'
  <2>1. SUFFICES ASSUME today \notin blind, NEW lot \in tracked, NEW c \in Checkpoint,
                        Count(<<today, lot, c>>)' > 0
                 PROVE  c \in done[lot]
    BY <1>1 DEF NotedAsDone
  <2>2. lot \in Lot /\ c \in 1..Settlement /\ c # Settlement /\ today \in Day
    BY ShadowParts, ShadowConstants
  <2>3. Count(<<today, lot, c>>) > 0
    BY <1>1, <1>6, <2>1, <2>2
  <2>4. QED
    BY <2>1, <2>3, ShadowParts DEF NotedAsDone
<1>12. QED
  BY <1>5, <1>7, <1>8, <1>9, <1>10, <1>11 DEF ShadowIInv

\* A step of the process that leaves the lots alone and keeps the counts
LEMMA LotsStay ==
    ASSUME ShadowIInv, JournalTypeOK', CountsExact', \A k \in Key : Count(k)' = Count(k),
           UNCHANGED <<today, trading, open, sold, tracked, done, blind, starts>>,
           age' \in [Lot -> 0..LastCheckpoint], pending' \in {pending, NoCounts}
    PROVE  ShadowIInv'
<1>1. ShadowTypeOK' /\ MemoryOfProcess' /\ IsFiniteSet(open')
  BY ShadowParts DEF ShadowTypeOK, MemoryOfProcess
<1>2. \A k \in Key : Count(k)' \in Nat /\ Count(k)' <= Count(k)
  <2>1. \A k \in Key : Count(k) \in Nat
    BY CountType, ShadowParts
  <2>2. QED
    BY <2>1
<1>3. NothingEarly' /\ CheckpointOnce' /\ OneSettlement'
  <2>1. today' \in Nat /\ today <= today'
    BY ShadowParts
  <2>2. QED
    BY <1>2, <2>1, NoNewRows
<1>4. NotedAsDone'
  <2>1. ASSUME NEW lot \in tracked, NEW c \in Checkpoint
        PROVE  Count(<<today, lot, c>>)' = Count(<<today, lot, c>>)
    <3>1. <<today, lot, c>> \in Key
      BY KeyType, ShadowParts, ShadowConstants
    <3>2. QED
      BY <3>1
  <2>2. QED
    BY <2>1, ShadowParts DEF NotedAsDone
<1>5. QED
  BY <1>1, <1>3, <1>4 DEF ShadowIInv

LEMMA SaveRoundKeeps == ASSUME ShadowIInv, SaveRound PROVE ShadowIInv'
<1>1. /\ table' = Plus(table, pending) /\ pending' = NoCounts
      /\ UNCHANGED <<today, trading, snapshot, recorded, failures, open, sold, age, tracked, done, blind, starts>>
  BY DEF SaveRound, Flush
<1>2. /\ table' \in Counts /\ pending' \in Counts /\ recorded' \in Counts /\ CountsExact'
      /\ \A k \in Key : Count(k)' = Count(k)
  BY <1>1, SaveCounts, ShadowParts
<1>3. JournalTypeOK' /\ age' \in [Lot -> 0..LastCheckpoint]
  BY <1>1, <1>2, ShadowParts DEF JournalTypeOK
<1>4. QED
  BY <1>1, <1>2, <1>3, LotsStay

LEMMA FailRoundKeeps == ASSUME ShadowIInv, FailRound PROVE ShadowIInv'
<1>1. /\ failures < MaxFlushFailures /\ failures' = failures + 1
      /\ UNCHANGED <<today, trading, pending, table, snapshot, recorded, open, sold, age, tracked,
                     done, blind, starts>>
  BY DEF FailRound, FlushFails
<1>2. JournalTypeOK' /\ CountsExact' /\ age' \in [Lot -> 0..LastCheckpoint]
  BY <1>1, ShadowParts, ShadowConstants DEF JournalTypeOK, CountsExact
<1>3. \A k \in Key : Count(k)' = Count(k)
  BY <1>1, SameRows
<1>4. QED
  BY <1>1, <1>2, <1>3, LotsStay

LEMMA TimePassesKeeps == ASSUME ShadowIInv, TimePasses PROVE ShadowIInv'
<1>1. /\ age' = [lot \in Lot |-> IF lot \in open THEN Older(lot, 1) ELSE age[lot]]
      /\ UNCHANGED <<today, trading, pending, table, snapshot, recorded, failures, open, sold,
                     tracked, done, blind, starts>>
  BY DEF TimePasses, journalVars
<1>2. ASSUME NEW lot \in Lot, NEW n \in Nat PROVE Older(lot, n) \in 0..LastCheckpoint
  <2>1. age[lot] \in 0..LastCheckpoint /\ age[lot] + n \in Nat /\ LastCheckpoint \in Nat
    BY ShadowParts, ShadowConstants
  <2>2. /\ Min({age[lot] + n, LastCheckpoint}) \in {age[lot] + n, LastCheckpoint}
        /\ Min({age[lot] + n, LastCheckpoint}) <= LastCheckpoint
    BY <2>1, MinOfTwo
  <2>3. QED
    BY <2>1, <2>2 DEF Older
<1>3. age' \in [Lot -> 0..LastCheckpoint]
  BY <1>1, <1>2, ShadowParts
<1>4. JournalTypeOK' /\ CountsExact'
  BY <1>1, ShadowParts DEF JournalTypeOK, CountsExact
<1>5. \A k \in Key : Count(k)' = Count(k)
  BY <1>1, SameRows
<1>6. QED
  BY <1>1, <1>3, <1>4, <1>5, LotsStay

\* A step at which no process runs afterwards, or none did: nothing is tracked.
LEMMA NothingTracked ==
    ASSUME ShadowIInv, JournalTypeOK', CountsExact',
           \A k \in Key : Count(k)' \in Nat /\ Count(k)' <= Count(k), pending' = NoCounts,
           today' \in Day, today <= today', ~trading', trading' \in BOOLEAN, tracked' = {},
           UNCHANGED <<open, sold, blind, starts>>,
           age' \in [Lot -> 0..LastCheckpoint], done' \in [Lot -> SUBSET Checkpoint]
    PROVE  ShadowIInv'
<1>1. ShadowTypeOK' /\ MemoryOfProcess' /\ IsFiniteSet(open') /\ NotedAsDone'
  BY ShadowParts DEF ShadowTypeOK, MemoryOfProcess, NotedAsDone
<1>2. NothingEarly' /\ CheckpointOnce' /\ OneSettlement'
  BY NoNewRows, DayType
<1>3. QED
  BY <1>1, <1>2 DEF ShadowIInv

LEMMA ForgetType == ASSUME ForgetTracked PROVE tracked' = {} /\ done' \in [Lot -> SUBSET Checkpoint]
BY DEF ForgetTracked

LEMMA EndLoopKeeps == ASSUME ShadowIInv, EndLoop PROVE ShadowIInv'
<1>1. /\ today' = today /\ ~trading' /\ trading' \in BOOLEAN /\ tracked' = {}
      /\ done' \in [Lot -> SUBSET Checkpoint] /\ UNCHANGED <<open, sold, age, blind, starts>>
  BY ForgetType DEF EndLoop, End
<1>2. /\ table' \in Counts /\ pending' \in Counts /\ recorded' \in Counts /\ CountsExact'
      /\ pending' = NoCounts /\ \A k \in Key : Count(k)' \in Nat /\ Count(k)' <= Count(k)
  <2>1. CASE table' = Plus(table, pending) /\ pending' = NoCounts /\ UNCHANGED recorded
    <3>1. /\ table' \in Counts /\ pending' \in Counts /\ recorded' \in Counts /\ CountsExact'
          /\ \A k \in Key : Count(k)' = Count(k)
      BY <2>1, SaveCounts, ShadowParts
    <3>2. \A k \in Key : Count(k) \in Nat
      BY CountType, ShadowParts
    <3>3. QED
      BY <2>1, <3>1, <3>2
  <2>2. CASE LosePending /\ UNCHANGED table
    <3>1. pending' = NoCounts
      BY <2>2 DEF LosePending
    <3>2. QED
      BY <2>2, <3>1, LoseCounts, ShadowParts
  <2>3. QED
    BY <2>1, <2>2 DEF EndLoop
<1>3. snapshot' \in [{"start", "end"} -> Nat \cup {-1}] /\ failures' \in 0..MaxFlushFailures
  BY ShadowParts, HeldFinite, SnapshotType DEF EndLoop
<1>4. JournalTypeOK'
  BY <1>2, <1>3 DEF JournalTypeOK
<1>5. today' \in Day /\ today <= today' /\ age' \in [Lot -> 0..LastCheckpoint]
  BY <1>1, ShadowParts
<1>6. QED
  BY <1>1, <1>2, <1>4, <1>5, NothingTracked

LEMMA ProcessDiesKeeps == ASSUME ShadowIInv, ProcessDies PROVE ShadowIInv'
<1>1. /\ today' = today /\ ~trading' /\ trading' \in BOOLEAN /\ tracked' = {} /\ pending' = NoCounts
      /\ done' \in [Lot -> SUBSET Checkpoint]
      /\ UNCHANGED <<table, snapshot, failures, open, sold, age, blind, starts>>
  BY ForgetType DEF ProcessDies, End, LosePending
<1>2. /\ table' \in Counts /\ pending' \in Counts /\ recorded' \in Counts /\ CountsExact'
      /\ \A k \in Key : Count(k)' \in Nat /\ Count(k)' <= Count(k)
  BY LoseCounts, ShadowParts DEF ProcessDies
<1>3. JournalTypeOK'
  BY <1>1, <1>2, ShadowParts DEF JournalTypeOK
<1>4. today' \in Day /\ today <= today' /\ age' \in [Lot -> 0..LastCheckpoint]
  BY <1>1, ShadowParts
<1>5. QED
  BY <1>1, <1>2, <1>3, <1>4, NothingTracked

LEMMA NightFallsKeeps == ASSUME ShadowIInv, NightFalls PROVE ShadowIInv'
<1>1. /\ ~trading /\ today < MaxDay /\ today' = today + 1 /\ trading' = trading /\ snapshot' = NoSnapshot
      /\ UNCHANGED <<pending, table, recorded, failures, open, sold, tracked, done, blind, starts>>
  BY DEF NightFalls, Tomorrow
<1>2. PICK n \in 0..LastCheckpoint :
         age' = [lot \in Lot |-> IF lot \in open THEN Older(lot, n) ELSE age[lot]]
  BY DEF NightFalls
<1>3. ASSUME NEW lot \in Lot PROVE Older(lot, n) \in 0..LastCheckpoint
  <2>1. age[lot] \in 0..LastCheckpoint /\ age[lot] + n \in Nat /\ LastCheckpoint \in Nat
    BY ShadowParts, ShadowConstants
  <2>2. /\ Min({age[lot] + n, LastCheckpoint}) \in {age[lot] + n, LastCheckpoint}
        /\ Min({age[lot] + n, LastCheckpoint}) <= LastCheckpoint
    BY <2>1, MinOfTwo
  <2>3. QED
    BY <2>1, <2>2 DEF Older
<1>4. age' \in [Lot -> 0..LastCheckpoint] /\ done' \in [Lot -> SUBSET Checkpoint]
  BY <1>1, <1>2, <1>3, ShadowParts
<1>5. today' \in Day /\ today <= today'
  BY <1>1, ShadowParts, FilterConstants DEF Day
<1>6. JournalTypeOK' /\ CountsExact'
  <2>1. NoSnapshot \in [{"start", "end"} -> Nat \cup {-1}]
    BY DEF NoSnapshot
  <2>2. QED
    BY <1>1, <2>1, ShadowParts DEF JournalTypeOK, CountsExact
<1>7. /\ pending' = NoCounts /\ ~trading' /\ trading' \in BOOLEAN /\ tracked' = {}
      /\ \A k \in Key : Count(k)' \in Nat /\ Count(k)' <= Count(k)
  BY <1>1, SameRows, ShadowParts DEF MemoryOfProcess
<1>8. QED
  BY <1>1, <1>4, <1>5, <1>6, <1>7, NothingTracked

LEMMA ShadowInductive == ShadowIInv /\ [ShadowNext]_shadowVars => ShadowIInv'
<1> SUFFICES ASSUME ShadowIInv, [ShadowNext]_shadowVars PROVE ShadowIInv'
  OBVIOUS
<1>1. CASE BeginTracking
  BY <1>1, BeginTrackingKeeps
<1>2. CASE SaveRound
  BY <1>2, SaveRoundKeeps
<1>3. CASE FailRound
  BY <1>3, FailRoundKeeps
<1>4. CASE EndLoop
  BY <1>4, EndLoopKeeps
<1>5. CASE ProcessDies
  BY <1>5, ProcessDiesKeeps
<1>6. CASE TimePasses
  BY <1>6, TimePassesKeeps
<1>7. CASE NightFalls
  BY <1>7, NightFallsKeeps
<1>8. ASSUME NEW s \in Symbol, TrackPurchase(s) PROVE ShadowIInv'
  BY <1>8, TrackPurchaseKeeps
<1>9. ASSUME NEW s \in Symbol, Observe(s) PROVE ShadowIInv'
  BY <1>9, ObserveKeeps
<1>10. ASSUME NEW s \in Symbol, Settle(s) PROVE ShadowIInv'
  BY <1>10, SettleKeeps
<1>11. CASE UNCHANGED shadowVars
  <2>1. UNCHANGED <<today, trading, pending, table, snapshot, recorded, failures, open, sold, age,
                    tracked, done, blind, starts>>
    BY <1>11 DEF shadowVars, journalVars
  <2>2. JournalTypeOK' /\ CountsExact' /\ age' \in [Lot -> 0..LastCheckpoint]
    BY <2>1, ShadowParts DEF JournalTypeOK, CountsExact
  <2>3. \A k \in Key : Count(k)' = Count(k)
    BY <2>1, SameRows
  <2>4. QED
    BY <2>1, <2>2, <2>3, LotsStay
<1>12. QED
  BY <1>1, <1>2, <1>3, <1>4, <1>5, <1>6, <1>7, <1>8, <1>9, <1>10, <1>11 DEF ShadowNext

-----------------------------------------------------------------------------
(* Shadow positions: the theorems *)

LEMMA ShadowIInvImplies == ShadowIInv => ShadowTypeOK /\ JournalTrue
<1> SUFFICES ASSUME ShadowIInv PROVE ShadowTypeOK /\ JournalTrue
  OBVIOUS
<1>1. ASSUME NEW lot \in Lot
      PROVE  LET days == {d \in Day : Count(<<d, lot, Settlement>>) > 0}
             IN  /\ Cardinality(days) <= 1
                 /\ \A d \in days : lot \in sold /\ Count(<<d, lot, Settlement>>) = 1
  <2> DEFINE days == {d \in Day : Count(<<d, lot, Settlement>>) > 0}
  <2>1. \A d, other \in days : d = other
    BY ShadowParts DEF OneSettlement
  <2>2. Cardinality(days) <= 1
    <3> HIDE DEF days
    <3>1. CASE days = {}
      <4>1. Cardinality(days) = 0
        BY <3>1, FS_EmptySet, Zenon
      <4>2. QED
        BY <4>1
    <3>2. ASSUME NEW d \in days PROVE Cardinality(days) <= 1
      <4>1. days = {d}
        BY <2>1, <3>2
      <4>2. Cardinality(days) = 1
        BY <4>1, FS_Singleton, Zenon
      <4>3. QED
        BY <4>2
    <3>3. QED
      BY <3>1, <3>2
  <2>3. ASSUME NEW d \in days PROVE lot \in sold /\ Count(<<d, lot, Settlement>>) = 1
    <3>1. /\ Count(<<d, lot, Settlement>>) \in Nat /\ Count(<<d, lot, Settlement>>) > 0
          /\ Count(<<d, lot, Settlement>>) <= 1
      BY <2>3, KeyType, CountType, ShadowParts, ShadowConstants DEF OneSettlement
    <3>2. lot \in sold
      BY <3>1, ShadowParts, ShadowConstants DEF NothingEarly
    <3>3. QED
      BY <3>1, <3>2
  <2>4. QED
    BY <2>2, <2>3
<1>2. SettledOnce
  BY <1>1 DEF SettledOnce
<1>3. QED
  BY <1>2, ShadowParts DEF JournalTrue

\* The lots in memory are lots that are held, and the counts, ages and snapshots of the
\* tracker and its journal keep their types over restarts, deaths and failed flushes.
THEOREM ShadowTyped == ShadowSpec => []ShadowTypeOK
<1>1. ShadowIInv => ShadowTypeOK
  BY ShadowIInvImplies
<1>2. QED
  BY <1>1, ShadowInitially, ShadowInductive, PTL DEF ShadowSpec

\* The journal of the shadow positions has one row for each thing that happened: a
\* failed flush neither loses nor doubles a record, no checkpoint is written twice on a
\* day whose starts could read the journal, and a lot is settled once, when it is sold.
THEOREM AlwaysJournalTrue == ShadowSpec => []JournalTrue
<1>1. ShadowIInv => JournalTrue
  BY ShadowIInvImplies
<1>2. QED
  BY <1>1, ShadowInitially, ShadowInductive, PTL DEF ShadowSpec

\* A step never takes a row out of the table, nor overwrites the account of the morning.
LEMMA MorningStays ==
    ASSUME ShadowIInv, [ShadowNext]_shadowVars
    PROVE  /\ \A k \in Key : table'[k] >= table[k]
           /\ today' = today /\ snapshot["start"] # -1 => snapshot'["start"] = snapshot["start"]
<1>1. \A k \in Key : table[k] \in Nat /\ pending[k] \in Nat
  BY CountType, ShadowParts
<1>2. table' \in {table, Plus(table, pending)}
  <2>1. CASE SaveRound \/ EndLoop
    BY <2>1 DEF SaveRound, EndLoop, Flush
  <2>2. CASE BeginTracking \/ FailRound \/ ProcessDies \/ TimePasses \/ NightFalls \/ UNCHANGED shadowVars
    BY <2>2 DEF BeginTracking, FailRound, ProcessDies, TimePasses, NightFalls, FlushFails, shadowVars,
                journalVars
  <2>3. ASSUME NEW s \in Symbol, TrackPurchase(s) \/ Observe(s) \/ Settle(s) PROVE table' = table
    BY <2>3 DEF TrackPurchase, Observe, Settle, journalVars
  <2>4. QED
    BY <2>1, <2>2, <2>3 DEF ShadowNext
<1>3. \A k \in Key : table'[k] >= table[k]
  BY <1>1, <1>2 DEF Plus
<1>4. ASSUME NEW kind \in {"start", "end"}, NEW n \in Nat, SaveSnapshot(kind, n), snapshot["start"] # -1
      PROVE  snapshot'["start"] = snapshot["start"]
  BY <1>4, ShadowParts DEF SaveSnapshot, Keeps, JournalTypeOK
<1>5. CASE BeginTracking \/ EndLoop
  BY <1>3, <1>4, <1>5, HeldFinite, ShadowParts DEF BeginTracking, EndLoop
<1>6. CASE NightFalls
  BY <1>3, <1>6, ShadowParts DEF NightFalls, Tomorrow
<1>7. CASE SaveRound \/ FailRound \/ ProcessDies \/ TimePasses \/ UNCHANGED shadowVars
  BY <1>3, <1>7 DEF SaveRound, FailRound, ProcessDies, TimePasses, Flush, FlushFails, shadowVars, journalVars
<1>8. ASSUME NEW s \in Symbol, TrackPurchase(s) \/ Observe(s) \/ Settle(s) PROVE snapshot' = snapshot
  BY <1>8 DEF TrackPurchase, Observe, Settle, journalVars
<1>9. QED
  BY <1>3, <1>5, <1>6, <1>7, <1>8 DEF ShadowNext

\* decision_records only grows, and the account that record_account_snapshot wrote at
\* the first start of a day is that of the morning, however often the day is started again.
THEOREM AlwaysMorningKept == ShadowSpec => MorningKept
<1> DEFINE Kept == /\ \A k \in Key : table'[k] >= table[k]
                   /\ today' = today /\ snapshot["start"] # -1 =>
                         snapshot'["start"] = snapshot["start"]
<1>1. ShadowIInv /\ [ShadowNext]_shadowVars => [Kept]_<<table, snapshot>>
  BY MorningStays
<1>2. QED
  BY <1>1, ShadowInitially, ShadowInductive, PTL DEF ShadowSpec, MorningKept

-----------------------------------------------------------------------------
(* The paper day: one of the three machines runs, the others are as they began *)

DayIInv ==
    /\ today \in Day
    /\ trading \in BOOLEAN
    /\ IF machine = "account" THEN AccountIInv /\ CapitalIsFiled ELSE AccountUntouched
    /\ IF machine = "shadow" THEN ShadowIInv ELSE NoLots
    /\ IF machine = "filter" THEN FilterIInv ELSE NoEvents

LEMMA DayParts ==
    ASSUME DayIInv
    PROVE  AccountIInv /\ CapitalIsFiled /\ ShadowIInv /\ FilterIInv
<1>1. AccountIInv /\ CapitalIsFiled
  BY UntouchedSound DEF DayIInv, Day
<1>2. ShadowIInv
  BY NoLotsSound DEF DayIInv
<1>3. FilterIInv
  BY NoEventsSound DEF DayIInv
<1>4. QED
  BY <1>1, <1>2, <1>3

LEMMA DayInitially == PaperDayInit => DayIInv
<1> SUFFICES ASSUME PaperDayInit PROVE DayIInv
  OBVIOUS
<1>1. AccountInit /\ ShadowInit /\ FilterInit
  BY DEF PaperDayInit
<1>2. today \in Day /\ trading \in BOOLEAN
  <2>1. ShadowTypeOK
    BY <1>1, ShadowInitially, ShadowIInvImplies
  <2>2. QED
    BY <2>1 DEF ShadowTypeOK
<1>3. AccountUntouched /\ NoLots /\ NoEvents
  BY <1>1 DEF AccountInit, ShadowInit, FilterInit, AccountUntouched, NoLots, NoEvents
<1>4. AccountIInv /\ CapitalIsFiled /\ ShadowIInv /\ FilterIInv
  BY <1>1, Initially, ShadowInitially, FilterInitially
<1>5. QED
  BY <1>2, <1>3, <1>4 DEF DayIInv

LEMMA AccountRests == AccountUntouched /\ UNCHANGED IdleAccount => AccountUntouched'
BY DEF AccountUntouched, IdleAccount

LEMMA LotsRest == NoLots /\ UNCHANGED IdleShadow => NoLots'
BY DEF NoLots, IdleShadow, journalVars, JournalInit

LEMMA EventsRest == NoEvents /\ UNCHANGED IdleFilter => NoEvents'
BY DEF NoEvents, IdleFilter

LEMMA DayInductive == DayIInv /\ [PaperDayNext]_dayVars => DayIInv'
<1> SUFFICES ASSUME DayIInv, [PaperDayNext]_dayVars PROVE DayIInv'
  OBVIOUS
<1>1. machine' = machine
  BY DEF PaperDayNext, dayVars
<1>2. CASE machine = "account" /\ AccountNext /\ UNCHANGED <<IdleShadow, IdleFilter>>
  <2>1. AccountIInv' /\ CapitalIsFiled'
    BY <1>2, AccountInductive, CapitalFiledStep DEF DayIInv
  <2>2. today' \in Day /\ trading' \in BOOLEAN
    BY <2>1 DEF AccountIInv, RestType, Day
  <2>3. NoLots' /\ NoEvents'
    BY <1>2, LotsRest, EventsRest DEF DayIInv
  <2>4. QED
    BY <1>1, <1>2, <2>1, <2>2, <2>3 DEF DayIInv
<1>3. CASE machine = "shadow" /\ ShadowNext /\ UNCHANGED <<IdleAccount, IdleFilter>>
  <2>1. ShadowIInv'
    BY <1>3, ShadowInductive DEF DayIInv
  <2>2. today' \in Day /\ trading' \in BOOLEAN
    BY <2>1 DEF ShadowIInv, ShadowTypeOK
  <2>3. AccountUntouched' /\ NoEvents'
    BY <1>3, AccountRests, EventsRest DEF DayIInv
  <2>4. QED
    BY <1>1, <1>3, <2>1, <2>2, <2>3 DEF DayIInv
<1>4. CASE machine = "filter" /\ FilterNext /\ UNCHANGED <<IdleAccount, IdleShadow>>
  <2>1. FilterIInv'
    BY <1>4, FilterInductive DEF DayIInv
  <2>2. today' \in Day /\ trading' \in BOOLEAN
    BY <2>1 DEF FilterIInv, FilterRest
  <2>3. AccountUntouched' /\ NoLots'
    BY <1>4, AccountRests, LotsRest DEF DayIInv
  <2>4. QED
    BY <1>1, <1>4, <2>1, <2>2, <2>3 DEF DayIInv
<1>5. CASE UNCHANGED dayVars
  <2>1. UNCHANGED <<machine, accountVars, shadowVars, filterVars>>
    BY <1>5 DEF dayVars
  <2>2. today' = today /\ trading' = trading /\ UNCHANGED <<IdleAccount, IdleShadow, IdleFilter>>
    BY <2>1 DEF accountVars, shadowVars, filterVars, IdleAccount, IdleShadow, IdleFilter
  <2>3. machine = "account" => AccountIInv' /\ CapitalIsFiled'
    BY <2>1, AccountInductive, CapitalFiledStep DEF DayIInv
  <2>4. machine = "shadow" => ShadowIInv'
    BY <2>1, ShadowInductive DEF DayIInv
  <2>5. machine = "filter" => FilterIInv'
    BY <2>1, FilterInductive DEF DayIInv
  <2>6. QED
    BY <1>1, <2>2, <2>3, <2>4, <2>5, AccountRests, LotsRest, EventsRest DEF DayIInv
<1>6. QED
  BY <1>2, <1>3, <1>4, <1>5 DEF PaperDayNext

\* What a machine has settled stays, whichever runs.
LEMMA AccountSettled ==
    ASSUME DayIInv, [PaperDayNext]_dayVars, baseline.day = today
    PROVE  baseline' = baseline /\ capital' \in {capital, 0, baseline.capital}
<1>1. machine = "account"
  <2>1. machine # "account" => baseline.day = 0 /\ today # 0
    BY DayType DEF DayIInv, AccountUntouched
  <2>2. QED
    BY <2>1
<1>2. [AccountNext]_accountVars
  BY <1>1 DEF PaperDayNext, dayVars
<1>3. QED
  BY <1>2, CapitalKept

LEMMA RecordsSettled ==
    ASSUME DayIInv, [PaperDayNext]_dayVars
    PROVE  /\ \A k \in Key : table'[k] >= table[k]
           /\ today' = today /\ snapshot["start"] # -1 => snapshot'["start"] = snapshot["start"]
<1>1. CASE [ShadowNext]_shadowVars
  BY <1>1, DayParts, MorningStays
<1>2. CASE UNCHANGED IdleShadow
  <2>1. table' = table /\ snapshot' = snapshot
    BY <1>2 DEF IdleShadow, journalVars
  <2>2. \A k \in Key : table[k] \in Nat
    BY DayParts, CountType, ShadowParts
  <2>3. QED
    BY <2>1, <2>2
<1>3. QED
  BY <1>1, <1>2 DEF PaperDayNext, dayVars

LEMMA EventsSettled ==
    ASSUME DayIInv, [PaperDayNext]_dayVars, NEW e \in Event
    PROVE  /\ events[e].verdict # 0 => events'[e].verdict = events[e].verdict
           /\ events[e].outcome # 0 => events'[e].outcome = events[e].outcome
           /\ events'[e].verdict # 0 => late \/ e[2] < today
<1>1. CASE [FilterNext]_filterVars
  <2>1. FilterIInv /\ FilterIInv'
    BY <1>1, DayParts, FilterInductive
  <2>2. QED
    BY <1>1, <2>1, JudgedOnce
<1>2. CASE UNCHANGED IdleFilter
  <2>1. events' = events
    BY <1>2 DEF IdleFilter
  <2>2. RowTimed(events[e], e[2]) /\ today \in Nat /\ e[2] \in Nat
    BY DayParts, FilterParts, EventType
  <2>3. QED
    BY <2>1, <2>2 DEF RowTimed
<1>3. QED
  BY <1>1, <1>2 DEF PaperDayNext, dayVars

\* Of the three machines that survive the process of the loop, all variables keep their
\* types, whichever of them runs and wherever its process dies.
THEOREM PaperDayTyped == PaperDaySpec => []PaperDayTypeOK
<1>1. DayIInv => PaperDayTypeOK
  BY DayParts, ShadowIInvImplies, FilterIInvImplies
     DEF PaperDayTypeOK, AccountIInv, Sound, RestType, AccountTypeOK
<1>2. QED
  BY <1>1, DayInitially, DayInductive, PTL DEF PaperDaySpec

\* The money of the account, the rows of the journal and the judgements of the events are
\* true on the paper day as they are of each machine.
THEOREM PaperDayTrue == PaperDaySpec => [](MoneyAccounted /\ JournalTrue /\ JudgedFairly)
<1>1. DayIInv => MoneyAccounted /\ JournalTrue /\ JudgedFairly
  BY DayParts, SoundMoney, ShadowIInvImplies, FilterIInvImplies
<1>2. QED
  BY <1>1, DayInitially, DayInductive, PTL DEF PaperDaySpec

\* What a day has settled stays, through every restart: its starting capital
\* (kill_switch_baseline.json), the account of its morning (daily_account_snapshots) and
\* the judgements of its events (filter_decision_events).
THEOREM DaySettledForGood == PaperDaySpec => SettledForGood
<1> DEFINE Stays == baseline.day = today =>
                        /\ baseline' = baseline
                        /\ capital' \in {capital, 0, baseline.capital}
           Kept == /\ \A k \in Key : table'[k] >= table[k]
                   /\ today' = today /\ snapshot["start"] # -1 =>
                         snapshot'["start"] = snapshot["start"]
           Once == \A e \in Event :
                      /\ events[e].verdict # 0 => events'[e].verdict = events[e].verdict
                      /\ events[e].outcome # 0 => events'[e].outcome = events[e].outcome
                      /\ events'[e].verdict # 0 => late \/ e[2] < today
<1>1. DayIInv /\ [PaperDayNext]_dayVars => [Stays]_accountVars
  BY AccountSettled
<1>2. DayIInv /\ [PaperDayNext]_dayVars => [Kept]_<<table, snapshot>>
  BY RecordsSettled
<1>3. DayIInv /\ [PaperDayNext]_dayVars => [Once]_filterVars
  BY EventsSettled
<1>4. QED
  BY <1>1, <1>2, <1>3, DayInitially, DayInductive, PTL
     DEF PaperDaySpec, SettledForGood, CapitalStays, MorningKept, JudgedForGood
=============================================================================
