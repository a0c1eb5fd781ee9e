-------------------------- MODULE DayPrograms_proofs --------------------------
(***************************************************************************)
(* Theorems about programs of a day that share a file, a limiter, a decision *)
(* or a book: the minute bars (MinuteBars), the J-Quants client               *)
(* (JQuantsClient), the judgement of the market (MarketRegime), what the loop *)
(* decides about a symbol (SymbolDecision), the snapshots of a backtest       *)
(* (BacktestSnapshot) and the backtests themselves (Backtest), for any        *)
(* constants.                                                                *)
(***************************************************************************)
EXTENDS MinuteBars, JQuantsClient, MarketRegime, SymbolDecision, BacktestSnapshot, Backtest, FoldLemmas,
        FiniteSetTheorems, TLAPS

-----------------------------------------------------------------------------
(* Minute bars *)

Busy == {w \in Writer : writer[w] # "off"}

\* What is written is what was read, unless another program replaced it since; and who
\* has fetched bars began before the bound was reached.
BarsIInv ==
    /\ MinuteBarsTypeOK
    /\ \A w \in Writer \ outdated : writer[w] = "loaded" => existing[w] = bars
    /\ replaced + Cardinality(Busy) <= MaxReplaced + 3

LEMMA WriterFacts ==
    /\ IsFiniteSet(Writer) /\ Cardinality(Writer) = 3 /\ MaxReplaced \in Nat
    /\ \A S \in SUBSET Writer : IsFiniteSet(S) /\ Cardinality(S) \in Nat /\ Cardinality(S) <= 3
<1>1. IsFiniteSet({"noon"}) /\ Cardinality({"noon"}) = 1
  BY FS_Singleton
<1>2. /\ IsFiniteSet({"noon"} \cup {"close"}) /\ Cardinality({"noon"} \cup {"close"}) = 2
  BY <1>1, FS_AddElement
<1>3. /\ IsFiniteSet({"noon"} \cup {"close"} \cup {"backfill"})
      /\ Cardinality({"noon"} \cup {"close"} \cup {"backfill"}) = 3
  BY <1>2, FS_AddElement
<1>4. Writer = {"noon"} \cup {"close"} \cup {"backfill"}
  BY DEF Writer
<1>5. IsFiniteSet(Writer) /\ Cardinality(Writer) = 3
  BY <1>3, <1>4
<1>6. ASSUME NEW S \in SUBSET Writer
      PROVE  IsFiniteSet(S) /\ Cardinality(S) \in Nat /\ Cardinality(S) <= 3
  BY <1>5, FS_Subset, FS_CardinalityType
<1>7. QED
  BY <1>5, <1>6, MinuteBarsAssumption

LEMMA BarsParts ==
    ASSUME BarsIInv
    PROVE  /\ bars \in Bars /\ writer \in [Writer -> {"off", "fetched", "loaded"}]
           /\ fetched \in [Writer -> Bars] /\ existing \in [Writer -> Bars]
           /\ replaced \in Nat /\ outdated \subseteq Writer /\ last \in Writer \cup {none}
           /\ MaxReplaced \in Nat /\ Busy \in SUBSET Writer /\ Cardinality(Busy) \in Nat
           /\ replaced + Cardinality(Busy) <= MaxReplaced + 3
BY WriterFacts DEF BarsIInv, MinuteBarsTypeOK, Busy

LEMMA BarsInitially == MinuteBarsInit => BarsIInv
<1> SUFFICES ASSUME MinuteBarsInit PROVE BarsIInv
  OBVIOUS
<1>1. NoBars \in Bars /\ bars \in Bars
  BY WriterFacts DEF NoBars, Bars, Bar, MinuteBarsInit
<1>2. /\ writer \in [Writer -> {"off", "fetched", "loaded"}]
      /\ fetched \in [Writer -> Bars] /\ existing \in [Writer -> Bars]
  BY <1>1 DEF MinuteBarsInit
<1>3. replaced = 0 /\ outdated = {} /\ last = none /\ \A w \in Writer : writer[w] = "off"
  BY DEF MinuteBarsInit
<1>4. MinuteBarsTypeOK
  BY <1>1, <1>2, <1>3, WriterFacts DEF MinuteBarsTypeOK
<1>5. Cardinality(Busy) <= 3 /\ Cardinality(Busy) \in Nat
  BY WriterFacts DEF Busy
<1>6. QED
  BY <1>3, <1>4, <1>5, WriterFacts DEF BarsIInv

\* A program that ends is busy no more.
LEMMA BusyNoMore ==
    ASSUME BarsIInv, NEW w \in Writer, writer[w] # "off", writer' = [writer EXCEPT ![w] = "off"]
    PROVE  Cardinality(Busy)' = Cardinality(Busy) - 1 /\ Cardinality(Busy)' \in Nat
<1>1. w \in Busy /\ Busy' = Busy \ {w}
  BY BarsParts DEF Busy
<1>2. IsFiniteSet(Busy) /\ Busy \ {w} \in SUBSET Writer
  BY BarsParts, WriterFacts
<1>3. Cardinality(Busy \ {w}) = Cardinality(Busy) - 1
  BY <1>1, <1>2, FS_RemoveElement
<1>4. Cardinality(Busy \ {w}) \in Nat
  BY <1>2, WriterFacts
<1>5. QED
  BY <1>1, <1>3, <1>4

LEMMA FetchBarsKeeps ==
    ASSUME BarsIInv, NEW w \in Writer, FetchBars(w)
    PROVE  BarsIInv'
<1>1. /\ writer[w] = "off" /\ replaced < MaxReplaced /\ writer' = [writer EXCEPT ![w] = "fetched"]
      /\ UNCHANGED <<bars, existing, replaced, outdated, last>>
  BY DEF FetchBars
<1>2. fetched' \in [Writer -> Bars]
  <2>1. PICK found \in SUBSET Minute :
           fetched' = [fetched EXCEPT ![w] = [m \in Minute |-> IF m \in found THEN replaced + 1 ELSE none]]
    BY DEF FetchBars
  <2>2. replaced + 1 \in Bar
    BY <1>1, BarsParts DEF Bar
  <2>3. [m \in Minute |-> IF m \in found THEN replaced + 1 ELSE none] \in Bars
    BY <2>2 DEF Bars
  <2>4. QED
    BY <2>1, <2>3, BarsParts
<1>3. writer' \in [Writer -> {"off", "fetched", "loaded"}]
  BY <1>1, BarsParts
<1>4. MinuteBarsTypeOK'
  BY <1>1, <1>2, <1>3 DEF MinuteBarsTypeOK, BarsIInv
<1>5. \A v \in Writer \ outdated' : writer'[v] = "loaded" => existing'[v] = bars'
  BY <1>1, BarsParts DEF BarsIInv
<1>6. replaced' + Cardinality(Busy)' <= MaxReplaced + 3
  <2>1. Cardinality(Busy') \in Nat /\ Cardinality(Busy') <= 3
    BY WriterFacts DEF Busy
  <2>2. QED
    BY <1>1, <2>1, BarsParts
<1>7. QED
  BY <1>4, <1>5, <1>6 DEF BarsIInv

LEMMA LoadBarsKeeps ==
    ASSUME BarsIInv, NEW w \in Writer, LoadBars(w)
    PROVE  BarsIInv'
<1>1. /\ writer[w] = "fetched" /\ outdated' = outdated \ {w}
      /\ UNCHANGED <<bars, fetched, replaced, last>>
      /\ \/ writer' = [writer EXCEPT ![w] = "off"] /\ UNCHANGED existing
         \/ writer' = [writer EXCEPT ![w] = "loaded"] /\ existing' = [existing EXCEPT ![w] = bars]
  BY DEF LoadBars
<1>2. /\ writer' \in [Writer -> {"off", "fetched", "loaded"}] /\ existing' \in [Writer -> Bars]
      /\ outdated' \subseteq Writer
  BY <1>1, BarsParts
<1>3. MinuteBarsTypeOK'
  BY <1>1, <1>2 DEF MinuteBarsTypeOK, BarsIInv
<1>4. ASSUME NEW v \in Writer \ outdated', writer'[v] = "loaded" PROVE existing'[v] = bars'
  <2>1. CASE v = w
    BY <1>1, <1>4, <2>1, BarsParts
  <2>2. CASE v # w
    BY <1>1, <1>4, <2>2, BarsParts DEF BarsIInv
  <2>3. QED
    BY <2>1, <2>2
<1>5. Cardinality(Busy)' <= Cardinality(Busy) /\ Cardinality(Busy)' \in Nat
  <2>1. CASE writer' = [writer EXCEPT ![w] = "off"]
    <3>1. Cardinality(Busy)' = Cardinality(Busy) - 1 /\ Cardinality(Busy)' \in Nat
      BY <1>1, <2>1, BusyNoMore
    <3>2. QED
      BY <3>1, BarsParts
  <2>2. CASE writer' = [writer EXCEPT ![w] = "loaded"]
    <3>1. Busy' = Busy
      BY <1>1, <2>2, BarsParts DEF Busy
    <3>2. QED
      BY <3>1, BarsParts
  <2>3. QED
    BY <1>1, <2>1, <2>2
<1>6. replaced' + Cardinality(Busy)' <= MaxReplaced + 3
  BY <1>1, <1>5, BarsParts
<1>7. QED
  BY <1>3, <1>4, <1>6 DEF BarsIInv

LEMMA ForgottenType ==
    ASSUME BarsIInv, NEW w \in Writer, Forgotten(w)
    PROVE  /\ fetched' \in [Writer -> Bars] /\ existing' \in [Writer -> Bars]
           /\ \A v \in Writer \ {w} : existing'[v] = existing[v]
<1>1. NoBars \in Bars
  BY DEF NoBars, Bars
<1>2. QED
  BY <1>1, BarsParts DEF Forgotten

LEMMA MergedType ==
    ASSUME BarsIInv, NEW w \in Writer
    PROVE  Merged(w) \in Bars
<1>1. \A m \in Minute : fetched[w][m] \in Bar \cup {none} /\ existing[w][m] \in Bar \cup {none}
  BY BarsParts DEF Bars
<1>2. CASE w = "noon"
  BY <1>1, <1>2 DEF Merged, Bars
<1>3. CASE w = "close"
  BY <1>1, <1>3 DEF Merged, Bars, Over
<1>4. CASE w = "backfill"
  BY <1>1, <1>4 DEF Merged, Bars, Over
<1>5. QED
  BY <1>2, <1>3, <1>4 DEF Writer

LEMMA ReplaceBarsKeeps ==
    ASSUME BarsIInv, NEW w \in Writer, ReplaceBars(w)
    PROVE  BarsIInv'
<1>1. writer[w] = "loaded" /\ writer' = [writer EXCEPT ![w] = "off"] /\ Forgotten(w)
  BY DEF ReplaceBars
<1>2. /\ writer' \in [Writer -> {"off", "fetched", "loaded"}]
      /\ fetched' \in [Writer -> Bars] /\ existing' \in [Writer -> Bars]
      /\ \A v \in Writer \ {w} : existing'[v] = existing[v] /\ writer'[v] = writer[v]
      /\ writer'[w] = "off"
  BY <1>1, ForgottenType, BarsParts
<1>3. Cardinality(Busy)' = Cardinality(Busy) - 1 /\ Cardinality(Busy)' \in Nat
  BY <1>1, BusyNoMore
<1>4. CASE UNCHANGED <<bars, replaced, outdated, last>>
  <2>1. MinuteBarsTypeOK'
    BY <1>2, <1>4 DEF MinuteBarsTypeOK, BarsIInv
  <2>2. \A v \in Writer \ outdated' : writer'[v] = "loaded" => existing'[v] = bars'
    BY <1>2, <1>4 DEF BarsIInv
  <2>3. replaced' + Cardinality(Busy)' <= MaxReplaced + 3
    BY <1>3, <1>4, BarsParts
  <2>4. QED
    BY <2>1, <2>2, <2>3 DEF BarsIInv
<1>5. CASE /\ bars' = Merged(w) /\ replaced' = replaced + 1
           /\ outdated' = {v \in Writer : v # w /\ writer[v] = "loaded"} \cup (outdated \ {w})
           /\ last' = IF w \in outdated THEN none ELSE w
  <2>1. replaced' + Cardinality(Busy)' <= MaxReplaced + 3 /\ replaced' \in Nat
    BY <1>3, <1>5, BarsParts
  <2>2. replaced' \in 0..(MaxReplaced + Cardinality(Writer))
    BY <1>3, <2>1, WriterFacts
  <2>3. bars' \in Bars /\ outdated' \subseteq Writer /\ last' \in Writer \cup {none}
    BY <1>5, MergedType, BarsParts
  <2>4. MinuteBarsTypeOK'
    BY <1>2, <2>2, <2>3 DEF MinuteBarsTypeOK
  <2>5. \A v \in Writer \ outdated' : writer'[v] = "loaded" => existing'[v] = bars'
    BY <1>2, <1>5
  <2>6. QED
    BY <2>1, <2>4, <2>5 DEF BarsIInv
<1>6. QED
  BY <1>4, <1>5 DEF ReplaceBars

LEMMA WriterDiesKeeps ==
    ASSUME BarsIInv, NEW w \in Writer, WriterDies(w)
    PROVE  BarsIInv'
<1>1. /\ writer[w] # "off" /\ writer' = [writer EXCEPT ![w] = "off"] /\ Forgotten(w)
      /\ UNCHANGED <<bars, replaced, outdated, last>>
  BY DEF WriterDies
<1>2. /\ writer' \in [Writer -> {"off", "fetched", "loaded"}]
      /\ fetched' \in [Writer -> Bars] /\ existing' \in [Writer -> Bars]
      /\ \A v \in Writer \ {w} : existing'[v] = existing[v] /\ writer'[v] = writer[v]
      /\ writer'[w] = "off"
  BY <1>1, ForgottenType, BarsParts
<1>3. MinuteBarsTypeOK'
  BY <1>1, <1>2 DEF MinuteBarsTypeOK, BarsIInv
<1>4. \A v \in Writer \ outdated' : writer'[v] = "loaded" => existing'[v] = bars'
  BY <1>1, <1>2 DEF BarsIInv
<1>5. Cardinality(Busy)' = Cardinality(Busy) - 1 /\ Cardinality(Busy)' \in Nat
  BY <1>1, BusyNoMore
<1> replaced' + Cardinality(Busy)' <= MaxReplaced + 3
  BY <1>1, <1>5, BarsParts
<1>6. QED
  BY <1>3, <1>4 DEF BarsIInv

LEMMA BarsInductive == BarsIInv /\ [MinuteBarsNext]_barVars => BarsIInv'
<1> SUFFICES ASSUME BarsIInv, [MinuteBarsNext]_barVars PROVE BarsIInv'
  OBVIOUS
<1>1. CASE MinuteBarsNext
  BY <1>1, FetchBarsKeeps, LoadBarsKeeps, ReplaceBarsKeeps, WriterDiesKeeps DEF MinuteBarsNext
<1>2. CASE UNCHANGED barVars
  BY <1>2 DEF barVars, BarsIInv, MinuteBarsTypeOK, Busy
<1>3. QED
  BY <1>1, <1>2

\* Only a replacement changes the file, and a program that no other overtook wrote over
\* what it had read.
LEMMA ReplacedOwn ==
    ASSUME BarsIInv, [MinuteBarsNext]_barVars, NEW m \in Minute,
           bars[m] # none, bars'[m] # bars[m], last' # none
    PROVE  \/ last' = "noon" /\ m \in Early
           \/ last' = "close" /\ bars'[m] = fetched["close"][m]
<1>1. PICK w \in Writer : ReplaceBars(w)
  <2>1. ASSUME NEW w \in Writer, FetchBars(w) \/ LoadBars(w) \/ WriterDies(w) PROVE FALSE
    BY <2>1 DEF FetchBars, LoadBars, WriterDies
  <2>2. CASE UNCHANGED barVars
    BY <2>2 DEF barVars
  <2>3. QED
    BY <2>1, <2>2 DEF MinuteBarsNext
<1>2. /\ writer[w] = "loaded" /\ bars' = Merged(w) /\ last' = w /\ w \notin outdated
  BY <1>1 DEF ReplaceBars
<1>3. existing[w] = bars
  BY <1>2 DEF BarsIInv
<1>4. CASE w = "noon"
  BY <1>2, <1>3, <1>4 DEF Merged
<1>5. CASE w = "close"
  BY <1>2, <1>3, <1>5 DEF Merged, Over
<1>6. CASE w = "backfill"
  BY <1>2, <1>3, <1>6 DEF Merged, Over
<1>7. QED
  BY <1>4, <1>5, <1>6 DEF Writer

\* What filtering at noon, saving after the close and backfill of Saturday read, merge and
\* replace loses no bar but in the half hour the noon renews, unless two of them overlap.
THEOREM AlwaysBarsKept == MinuteBarsSpec => BarsKept
<1> DEFINE Kept == \A m \in Minute : bars[m] # none /\ bars'[m] # bars[m] /\ last' # none =>
                      \/ last' = "noon" /\ m \in Early
                      \/ last' = "close" /\ bars'[m] = fetched["close"][m]
<1>1. BarsIInv /\ [MinuteBarsNext]_barVars => [Kept]_barVars
  BY ReplacedOwn
<1>2. QED
  BY <1>1, BarsInitially, BarsInductive, PTL DEF MinuteBarsSpec, BarsKept
-----------------------------------------------------------------------------
(* The J-Quants client: the inductive invariant, in named parts *)

Page == (0..KEYS) \X (0..KEYS)

IsFetcher(r) == r = [at |-> r.at, pause |-> r.pause, attempt |-> r.attempt]

\* What a client is at. The pause before a repetition is left open: nothing depends on it.
FetcherInv(c) ==
    /\ IsFetcher(fetcher[c])
    /\ fetcher[c].at \in {"queue", "slot", "sent", "pause"} \cup FetchOver
    /\ fetcher[c].attempt \in 1..ATTEMPTS
    /\ fetcher[c].at = "slot" <=> c \in slotHolder

\* Who has the slot waits for the rest of the interval.
SlotInv(c) ==
    fetcher[c].at = "slot" =>
        fetcher[c].pause \in 0..INTERVAL /\ fetcher[c].pause + sinceRequest >= INTERVAL

RequestInv(c) ==
    /\ fetcher[c].at \in Failure \cup {"sent"} =>
           counters[c].requests = counters[c].pages + counters[c].retries + 1
    /\ fetcher[c].at \notin Failure \cup {"sent"} =>
           counters[c].requests = counters[c].pages + counters[c].retries
    /\ fetcher[c].at \in {"transport", "rate limit", "server"} => fetcher[c].attempt = ATTEMPTS

\* The key at hand is that of the last page, and was not asked with before.
PageInv(c) ==
    LET ps == yielded[c]
    IN  /\ nextKey[c] = (IF ps = <<>> THEN 0 ELSE ps[Len(ps)][2])
        /\ nextKey[c] \in usedKeys[c] \cup {0}
        /\ \A i \in DOMAIN ps : ps[i][1] \in usedKeys[c] \cup {0}
        /\ \A i \in DOMAIN ps : ps[i][1] = (IF i = 1 THEN 0 ELSE ps[i - 1][2])
        /\ \A i, j \in DOMAIN ps : ps[i][1] = ps[j][1] => i = j
        /\ fetcher[c].at = "whole" <=> ps # <<>> /\ nextKey[c] = 0
        /\ fetcher[c].at # "whole" => \A i \in DOMAIN ps : ps[i][1] # nextKey[c]

ClientTypes ==
    /\ slotHolder \subseteq Client /\ sinceRequest \in 0..INTERVAL
    /\ fetcher = [c \in Client |-> fetcher[c]]
    /\ usedKeys \in [Client -> SUBSET (1..KEYS)] /\ nextKey \in [Client -> 0..KEYS]
    /\ yielded \in [Client -> Seq(Page)]
    /\ counters \in [Client -> [requests : Nat, retries : Nat, pages : Nat]]

ClientIInv ==
    /\ ClientTypes
    /\ \A c, d \in slotHolder : c = d
    /\ \A c \in Client : FetcherInv(c) /\ SlotInv(c) /\ RequestInv(c) /\ PageInv(c)

ClientInv(c) == FetcherInv(c) /\ SlotInv(c) /\ RequestInv(c) /\ PageInv(c)

LEMMA ClientParts ==
    ASSUME ClientIInv
    PROVE  /\ KEYS \in Nat /\ ATTEMPTS \in Nat \ {0} /\ INTERVAL \in Nat
           /\ slotHolder \subseteq Client /\ sinceRequest \in 0..INTERVAL
           /\ fetcher = [c \in Client |-> fetcher[c]]
           /\ usedKeys \in [Client -> SUBSET (1..KEYS)] /\ nextKey \in [Client -> 0..KEYS]
           /\ yielded \in [Client -> Seq(Page)]
           /\ counters \in [Client -> [requests : Nat, retries : Nat, pages : Nat]]
           /\ \A c, d \in slotHolder : c = d
           /\ \A c \in Client : ClientInv(c)
BY ClientAssumption DEF ClientIInv, ClientTypes, ClientInv

LEMMA ClientInitially == ClientInit => ClientIInv
<1> SUFFICES ASSUME ClientInit PROVE ClientIInv
  OBVIOUS
<1> USE ClientAssumption
<1>1. ClientTypes
  <2>1. slotHolder \subseteq Client /\ sinceRequest \in 0..INTERVAL
    BY DEF ClientInit
  <2>2. fetcher = [c \in Client |-> fetcher[c]]
    BY DEF ClientInit
  <2>3. usedKeys \in [Client -> SUBSET (1..KEYS)] /\ nextKey \in [Client -> 0..KEYS]
    BY DEF ClientInit
  <2>4. yielded \in [Client -> Seq(Page)]
    <3>1. <<>> \in Seq(Page)
      OBVIOUS
    <3>2. QED
      BY <3>1 DEF ClientInit
  <2>5. counters \in [Client -> [requests : Nat, retries : Nat, pages : Nat]]
    BY DEF ClientInit
  <2>6. QED
    BY <2>1, <2>2, <2>3, <2>4, <2>5 DEF ClientTypes
<1>2. \A c \in Client : FetcherInv(c) /\ SlotInv(c)
  BY DEF ClientInit, FetcherInv, SlotInv, Ready, IsFetcher
<1>3. \A c \in Client : RequestInv(c)
  <2> SUFFICES ASSUME NEW c \in Client PROVE RequestInv(c)
    OBVIOUS
  <2>1. fetcher[c].at = "queue"
    BY DEF ClientInit, Ready
  <2>2. counters[c].requests = 0 /\ counters[c].pages = 0 /\ counters[c].retries = 0
    BY DEF ClientInit
  <2>3. QED
    BY <2>1, <2>2 DEF RequestInv, Failure
<1>4. \A c \in Client : PageInv(c)
  BY DEF ClientInit, PageInv, Ready
<1>5. QED
  BY <1>1, <1>2, <1>3, <1>4 DEF ClientIInv, ClientInit

\* A client an action does not touch is as it was, unless it waits for a slot and the time changed.
LEMMA OtherClient ==
    ASSUME NEW d \in Client, ClientInv(d),
           fetcher'[d] = fetcher[d], counters'[d] = counters[d], yielded'[d] = yielded[d],
           nextKey'[d] = nextKey[d], usedKeys'[d] = usedKeys[d],
           d \in slotHolder' <=> d \in slotHolder,
           sinceRequest' = sinceRequest \/ d \notin slotHolder
    PROVE  ClientInv(d)'
<1>1. FetcherInv(d)'
  BY DEF ClientInv, FetcherInv
<1>2. SlotInv(d)'
  BY DEF ClientInv, SlotInv, FetcherInv
<1>3. RequestInv(d)'
  BY DEF ClientInv, RequestInv
<1>4. PageInv(d)'
  BY DEF ClientInv, PageInv
<1>5. QED
  BY <1>1, <1>2, <1>3, <1>4 DEF ClientInv

\* What an action of one client has to show.
LEMMA OneClient ==
    ASSUME ClientIInv, NEW c \in Client, ClientTypes', ClientInv(c)',
           \A d \in Client \ {c} : fetcher'[d] = fetcher[d] /\ counters'[d] = counters[d],
           \A d \in Client \ {c} : yielded'[d] = yielded[d] /\ nextKey'[d] = nextKey[d],
           \A d \in Client \ {c} : usedKeys'[d] = usedKeys[d],
           slotHolder' \subseteq slotHolder \/ slotHolder' = {c},
           slotHolder \subseteq slotHolder' \cup {c},
           sinceRequest' = sinceRequest \/ slotHolder \subseteq {c}
    PROVE  ClientIInv'
<1>1. \A d, e \in slotHolder' : d = e
  BY ClientParts
<1>2. ASSUME NEW d \in Client \ {c} PROVE ClientInv(d)'
  <2>1. ClientInv(d)
    BY ClientParts
  <2>2. QED
    BY <2>1, OtherClient
<1>3. \A d \in Client : ClientInv(d)'
  BY <1>2
<1>4. QED
  BY <1>1, <1>3 DEF ClientIInv, ClientInv

LEMMA Replaced ==
    ASSUME NEW S, NEW f, f = [x \in S |-> f[x]], NEW c \in S, NEW v, NEW g, g = [f EXCEPT ![c] = v]
    PROVE  g[c] = v /\ g = [x \in S |-> g[x]] /\ \A d \in S \ {c} : g[d] = f[d]
OBVIOUS

LEMMA FieldSet ==
    ASSUME NEW r, IsFetcher(r), NEW v
    PROVE  [r EXCEPT !.at = v] = [at |-> v, pause |-> r.pause, attempt |-> r.attempt]
BY DEF IsFetcher

\* What is left to show of an action that takes a client to another place and leaves its pages.
LEMMA ClientMoves ==
    ASSUME ClientIInv, NEW c \in Client, NEW r,
           fetcher' = [fetcher EXCEPT ![c] = r], UNCHANGED <<usedKeys, nextKey, yielded>>,
           slotHolder' \subseteq Client, sinceRequest' \in 0..INTERVAL,
           counters' \in [Client -> [requests : Nat, retries : Nat, pages : Nat]],
           \A d \in Client \ {c} : counters'[d] = counters[d],
           slotHolder' \subseteq slotHolder \/ slotHolder' = {c},
           slotHolder \subseteq slotHolder' \cup {c},
           sinceRequest' = sinceRequest \/ slotHolder \subseteq {c},
           fetcher[c].at # "whole", r.at # "whole",
           fetcher'[c] = r => FetcherInv(c)' /\ SlotInv(c)' /\ RequestInv(c)'
    PROVE  ClientIInv'
<1>1. fetcher'[c] = r /\ fetcher' = [d \in Client |-> fetcher'[d]]
      /\ \A d \in Client \ {c} : fetcher'[d] = fetcher[d]
  BY ClientParts, Replaced
<1>2. ClientTypes'
  BY <1>1, ClientParts DEF ClientTypes
<1>3. PageInv(c)
  BY ClientParts DEF ClientInv
<1>4. PageInv(c)'
  BY <1>1, <1>3 DEF PageInv
<1>5. ClientInv(c)'
  BY <1>1, <1>4 DEF ClientInv
<1>6. QED
  BY <1>1, <1>2, <1>5, OneClient

LEMMA QueueForSlotKeeps ==
    ASSUME ClientIInv, NEW c \in Client, QueueForSlot(c)
    PROVE  ClientIInv'
<1> DEFINE r == [at |-> "slot", pause |-> INTERVAL - sinceRequest, attempt |-> fetcher[c].attempt]
<1>1. FetcherInv(c) /\ RequestInv(c) /\ fetcher[c].at = "queue" /\ slotHolder = {}
  BY ClientParts DEF ClientInv, QueueForSlot, SlotFree
<1>2. fetcher' = [fetcher EXCEPT ![c] = r]
  <2>1. [[fetcher[c] EXCEPT !.at = "slot"] EXCEPT !.pause = INTERVAL - sinceRequest] = r
    <3>1. [fetcher[c] EXCEPT !.at = "slot"]
            = [at |-> "slot", pause |-> fetcher[c].pause, attempt |-> fetcher[c].attempt]
      BY <1>1, FieldSet DEF FetcherInv
    <3>2. [[at |-> "slot", pause |-> fetcher[c].pause, attempt |-> fetcher[c].attempt]
              EXCEPT !.pause = INTERVAL - sinceRequest] = r
      OBVIOUS
    <3>3. QED
      BY <3>1, <3>2, Zenon
  <2>2. fetcher' = [fetcher EXCEPT ![c] = [[fetcher[c] EXCEPT !.at = "slot"] EXCEPT !.pause = INTERVAL - sinceRequest]]
    BY ClientParts DEF QueueForSlot
  <2>3. QED
    BY <2>1, <2>2
<1>3. IsFetcher(r) /\ r.at = "slot" /\ r.attempt = fetcher[c].attempt /\ r.pause = INTERVAL - sinceRequest
  BY DEF IsFetcher
<1> HIDE DEF r
<1>4. slotHolder' = {c} /\ sinceRequest' = sinceRequest /\ UNCHANGED <<counters, usedKeys, nextKey, yielded>>
  BY DEF QueueForSlot, fetchVars
<1>5. ASSUME fetcher'[c] = r PROVE FetcherInv(c)' /\ SlotInv(c)' /\ RequestInv(c)'
  <2>1. FetcherInv(c)'
    BY <1>1, <1>3, <1>4, <1>5 DEF FetcherInv
  <2>2. SlotInv(c)'
    BY <1>3, <1>4, <1>5, ClientParts DEF SlotInv
  <2>3. RequestInv(c)'
    BY <1>1, <1>3, <1>4, <1>5 DEF RequestInv, Failure
  <2>4. QED
    BY <2>1, <2>2, <2>3
<1>6. QED
  BY <1>1, <1>2, <1>3, <1>4, <1>5, ClientParts, ClientMoves

LEMMA Counted ==
    ASSUME NEW k \in [Client -> [requests : Nat, retries : Nat, pages : Nat]], NEW c \in Client
    PROVE  /\ k[c].requests \in Nat /\ k[c].retries \in Nat /\ k[c].pages \in Nat
           /\ [k EXCEPT ![c].requests = @ + 1] \in [Client -> [requests : Nat, retries : Nat, pages : Nat]]
           /\ [k EXCEPT ![c].retries = @ + 1] \in [Client -> [requests : Nat, retries : Nat, pages : Nat]]
           /\ [k EXCEPT ![c].pages = @ + 1] \in [Client -> [requests : Nat, retries : Nat, pages : Nat]]
<1> DEFINE Counter == [requests : Nat, retries : Nat, pages : Nat]
<1>1. k[c] \in Counter
  OBVIOUS
<1>2. k[c].requests \in Nat /\ k[c].retries \in Nat /\ k[c].pages \in Nat
  BY <1>1
<1>3. [k[c] EXCEPT !.requests = k[c].requests + 1] \in Counter
  BY <1>1, <1>2
<1>4. [k[c] EXCEPT !.retries = k[c].retries + 1] \in Counter
  BY <1>1, <1>2
<1>5. [k[c] EXCEPT !.pages = k[c].pages + 1] \in Counter
  BY <1>1, <1>2
<1> HIDE DEF Counter
<1>6. ASSUME NEW v \in Counter PROVE [k EXCEPT ![c] = v] \in [Client -> Counter]
  BY DEF Counter
<1>7. QED
  BY <1>2, <1>3, <1>4, <1>5, <1>6 DEF Counter

LEMMA SendRequestKeeps ==
    ASSUME ClientIInv, NEW c \in Client, SendRequest(c)
    PROVE  ClientIInv'
<1> DEFINE r == [at |-> "sent", pause |-> fetcher[c].pause, attempt |-> fetcher[c].attempt]
<1>1. FetcherInv(c) /\ RequestInv(c) /\ fetcher[c].at = "slot"
  BY ClientParts DEF ClientInv, SendRequest
<1>2. slotHolder = {c} /\ 0 \in 0..INTERVAL
  BY <1>1, ClientParts DEF FetcherInv
<1>3. fetcher' = [fetcher EXCEPT ![c] = r]
  <2>1. [fetcher[c] EXCEPT !.at = "sent"] = r
    BY <1>1, FieldSet DEF FetcherInv
  <2>2. fetcher' = [fetcher EXCEPT ![c] = [fetcher[c] EXCEPT !.at = "sent"]]
    BY ClientParts DEF SendRequest
  <2>3. QED
    BY <2>1, <2>2
<1>4. IsFetcher(r) /\ r.at = "sent" /\ r.attempt = fetcher[c].attempt
  BY DEF IsFetcher
<1> HIDE DEF r
<1>5. slotHolder' = {} /\ sinceRequest' = 0 /\ UNCHANGED <<usedKeys, nextKey, yielded>>
      /\ counters' = [counters EXCEPT ![c].requests = @ + 1]
  BY DEF SendRequest
<1>6. counters' \in [Client -> [requests : Nat, retries : Nat, pages : Nat]]
  BY <1>5, ClientParts, Counted
<1>7. /\ counters'[c].requests = counters[c].requests + 1
      /\ counters'[c].retries = counters[c].retries /\ counters'[c].pages = counters[c].pages
      /\ \A d \in Client \ {c} : counters'[d] = counters[d]
  BY <1>5, ClientParts
<1>8. counters[c].requests \in Nat /\ counters[c].retries \in Nat /\ counters[c].pages \in Nat
  BY ClientParts, Counted
<1>9. ASSUME fetcher'[c] = r PROVE FetcherInv(c)' /\ SlotInv(c)' /\ RequestInv(c)'
  <2>1. FetcherInv(c)' /\ SlotInv(c)'
    BY <1>1, <1>4, <1>5, <1>9 DEF FetcherInv, SlotInv
  <2>2. counters[c].requests = counters[c].pages + counters[c].retries
    BY <1>1 DEF RequestInv, Failure
  <2>3. counters'[c].requests = counters'[c].pages + counters'[c].retries + 1
    BY <1>7, <1>8, <2>2
  <2>4. RequestInv(c)'
    BY <1>4, <1>9, <2>3 DEF RequestInv, Failure
  <2>5. QED
    BY <2>1, <2>4
<1>10. QED
  BY <1>1, <1>2, <1>3, <1>4, <1>5, <1>6, <1>7, <1>9, ClientMoves

LEMMA AtLimit == \A n \in Nat : \A a \in 1..n : ~(a < n) => a = n
OBVIOUS

LEMMA RequestFailsKeeps ==
    ASSUME ClientIInv, NEW c \in Client, NEW failure \in Failure, RequestFails(c, failure)
    PROVE  ClientIInv'
<1>1. FetcherInv(c) /\ RequestInv(c) /\ fetcher[c].at = "sent" /\ c \notin slotHolder
      /\ fetcher[c].attempt \in 1..ATTEMPTS
  BY ClientParts DEF ClientInv, RequestFails, FetcherInv
<1>2. UNCHANGED <<slotHolder, sinceRequest, usedKeys, nextKey, yielded>>
  BY DEF RequestFails
<1>3. counters[c].requests \in Nat /\ counters[c].retries \in Nat /\ counters[c].pages \in Nat
  BY ClientParts, Counted
<1>4. counters[c].requests = counters[c].pages + counters[c].retries + 1
  BY <1>1 DEF RequestInv, Failure
<1>5. ASSUME Retryable(failure) /\ fetcher[c].attempt < ATTEMPTS PROVE ClientIInv'
  <2> DEFINE r == [at |-> "pause", pause |-> PauseAfter(failure, fetcher[c].attempt),
                   attempt |-> fetcher[c].attempt + 1]
  <2>1. fetcher' = [fetcher EXCEPT ![c] = r] /\ counters' = [counters EXCEPT ![c].retries = @ + 1]
    BY <1>5, ClientParts DEF RequestFails
  <2>2. IsFetcher(r) /\ r.at = "pause" /\ r.attempt = fetcher[c].attempt + 1
    BY DEF IsFetcher
  <2> HIDE DEF r
  <2>3. r.attempt \in 1..ATTEMPTS
    BY <1>1, <1>5, <2>2, ClientAssumption
  <2>4. counters' \in [Client -> [requests : Nat, retries : Nat, pages : Nat]]
    BY <2>1, ClientParts, Counted
  <2>5. /\ counters'[c].retries = counters[c].retries + 1
        /\ counters'[c].requests = counters[c].requests /\ counters'[c].pages = counters[c].pages
        /\ \A d \in Client \ {c} : counters'[d] = counters[d]
    BY <2>1, ClientParts
  <2>6. ASSUME fetcher'[c] = r PROVE FetcherInv(c)' /\ SlotInv(c)' /\ RequestInv(c)'
    <3>1. FetcherInv(c)' /\ SlotInv(c)'
      BY <1>1, <1>2, <2>2, <2>3, <2>6 DEF FetcherInv, SlotInv
    <3>2. counters'[c].requests = counters'[c].pages + counters'[c].retries
      BY <1>3, <1>4, <2>5
    <3>3. RequestInv(c)'
      BY <2>2, <2>6, <3>2 DEF RequestInv, Failure
    <3>4. QED
      BY <3>1, <3>3
  <2>7. QED
    BY <1>1, <1>2, <2>1, <2>2, <2>4, <2>5, <2>6, ClientParts, ClientMoves
<1>6. ASSUME ~(Retryable(failure) /\ fetcher[c].attempt < ATTEMPTS) PROVE ClientIInv'
  <2> DEFINE r == [at |-> failure, pause |-> fetcher[c].pause, attempt |-> fetcher[c].attempt]
  <2>1. fetcher' = [fetcher EXCEPT ![c] = r]
    <3>1. [fetcher[c] EXCEPT !.at = failure] = r
      BY <1>1, FieldSet DEF FetcherInv
    <3>2. fetcher' = [fetcher EXCEPT ![c] = [fetcher[c] EXCEPT !.at = failure]]
      BY <1>6, ClientParts DEF RequestFails
    <3>3. QED
      BY <3>1, <3>2
  <2>2. IsFetcher(r) /\ r.at = failure /\ r.attempt = fetcher[c].attempt
    BY DEF IsFetcher
  <2> HIDE DEF r
  <2>3. UNCHANGED counters
    BY <1>6 DEF RequestFails
  <2>4. r.at \in {"transport", "rate limit", "server"} => r.attempt = ATTEMPTS
    <3>1. fetcher[c].attempt \in 1..ATTEMPTS /\ ATTEMPTS \in Nat
      BY <1>1, ClientAssumption
    <3>2. r.at \in {"transport", "rate limit", "server"} => ~(fetcher[c].attempt < ATTEMPTS)
      <4>1. r.at \in {"transport", "rate limit", "server"} => Retryable(failure)
        BY <2>2 DEF Retryable
      <4>2. QED
        BY <1>6, <4>1
    <3>3. r.at \in {"transport", "rate limit", "server"} => fetcher[c].attempt = ATTEMPTS
      BY <3>1, <3>2, AtLimit, Zenon
    <3>4. QED
      BY <2>2, <3>3
  <2>5. ASSUME fetcher'[c] = r PROVE FetcherInv(c)' /\ SlotInv(c)' /\ RequestInv(c)'
    <3>1. FetcherInv(c)' /\ SlotInv(c)'
      BY <1>1, <1>2, <2>2, <2>5 DEF FetcherInv, SlotInv, Failure, FetchOver
    <3>2. RequestInv(c)'
      BY <1>4, <2>2, <2>3, <2>4, <2>5 DEF RequestInv
    <3>3. QED
      BY <3>1, <3>2
  <2>6. r.at # "whole"
    BY <2>2 DEF Failure
  <2>7. QED
    BY <1>1, <1>2, <2>1, <2>3, <2>5, <2>6, ClientParts, ClientMoves
<1>7. QED
  BY <1>5, <1>6

LEMMA EndPauseKeeps ==
    ASSUME ClientIInv, NEW c \in Client, EndPause(c)
    PROVE  ClientIInv'
<1> DEFINE r == [at |-> "queue", pause |-> fetcher[c].pause, attempt |-> fetcher[c].attempt]
<1>1. FetcherInv(c) /\ RequestInv(c) /\ fetcher[c].at = "pause"
  BY ClientParts DEF ClientInv, EndPause
<1>2. UNCHANGED <<slotHolder, sinceRequest, counters, usedKeys, nextKey, yielded>>
  BY DEF EndPause, fetchVars
<1>3. fetcher' = [fetcher EXCEPT ![c] = r]
  <2>1. [fetcher[c] EXCEPT !.at = "queue"] = r
    BY <1>1, FieldSet DEF FetcherInv
  <2>2. fetcher' = [fetcher EXCEPT ![c] = [fetcher[c] EXCEPT !.at = "queue"]]
    BY ClientParts DEF EndPause
  <2>3. QED
    BY <2>1, <2>2
<1>4. IsFetcher(r) /\ r.at = "queue" /\ r.attempt = fetcher[c].attempt
  BY DEF IsFetcher
<1> HIDE DEF r
<1>5. ASSUME fetcher'[c] = r PROVE FetcherInv(c)' /\ SlotInv(c)' /\ RequestInv(c)'
  <2>1. FetcherInv(c)' /\ SlotInv(c)'
    BY <1>1, <1>2, <1>4, <1>5 DEF FetcherInv, SlotInv
  <2>2. RequestInv(c)'
    BY <1>1, <1>2, <1>4, <1>5 DEF RequestInv, Failure
  <2>3. QED
    BY <2>1, <2>2
<1>6. QED
  BY <1>1, <1>2, <1>3, <1>4, <1>5, ClientParts, ClientMoves

LEMMA Appended ==
    ASSUME NEW T, NEW q \in Seq(T), NEW e \in T
    PROVE  /\ Append(q, e) \in Seq(T) /\ Len(Append(q, e)) = Len(q) + 1 /\ Len(q) \in Nat
           /\ Append(q, e) # <<>> /\ DOMAIN Append(q, e) = 1..(Len(q) + 1) /\ DOMAIN q = 1..Len(q)
           /\ Append(q, e)[Len(q) + 1] = e /\ \A i \in 1..Len(q) : Append(q, e)[i] = q[i]
<1>1. Append(q, e) \in Seq(T) /\ Len(Append(q, e)) = Len(q) + 1 /\ Len(q) \in Nat
  OBVIOUS
<1>2. Append(q, e) # <<>>
  BY <1>1
<1>3. DOMAIN Append(q, e) = 1..(Len(q) + 1) /\ DOMAIN q = 1..Len(q)
  BY <1>1
<1>4. Append(q, e)[Len(q) + 1] = e
  OBVIOUS
<1>5. \A i \in 1..Len(q) : Append(q, e)[i] = q[i]
  OBVIOUS
<1>6. QED
  BY <1>1, <1>2, <1>3, <1>4, <1>5

\* What a page leads to: it ends in a cycle, or is the next one handed over.
LEMMA TakePageKeeps ==
    ASSUME ClientIInv, NEW c \in Client, NEW key \in 0..KEYS, TakePage(c, key)
    PROVE  ClientIInv'
<1>1. FetcherInv(c) /\ RequestInv(c) /\ PageInv(c) /\ fetcher[c].at = "sent" /\ c \notin slotHolder
  BY ClientParts DEF ClientInv, TakePage, FetcherInv
<1>2. slotHolder' = slotHolder /\ sinceRequest' = sinceRequest
      /\ counters' = [counters EXCEPT ![c].pages = @ + 1]
  BY DEF TakePage
<1>3. counters' \in [Client -> [requests : Nat, retries : Nat, pages : Nat]]
  BY <1>2, ClientParts, Counted
<1>4. /\ counters'[c].pages = counters[c].pages + 1
      /\ counters'[c].requests = counters[c].requests /\ counters'[c].retries = counters[c].retries
      /\ \A d \in Client \ {c} : counters'[d] = counters[d]
  BY <1>2, ClientParts
<1>5. counters'[c].requests = counters'[c].pages + counters'[c].retries
  <2>1. counters[c].requests \in Nat /\ counters[c].retries \in Nat /\ counters[c].pages \in Nat
    BY ClientParts, Counted
  <2>2. counters[c].requests = counters[c].pages + counters[c].retries + 1
    BY <1>1 DEF RequestInv, Failure
  <2>3. QED
    BY <1>4, <2>1, <2>2
<1>6. CASE key # 0 /\ Cycles(c, key)
  <2> DEFINE r == [at |-> "cycle", pause |-> fetcher[c].pause, attempt |-> fetcher[c].attempt]
  <2>1. fetcher' = [fetcher EXCEPT ![c] = r]
    <3>1. [fetcher[c] EXCEPT !.at = "cycle"] = r
      BY <1>1, FieldSet DEF FetcherInv
    <3>2. fetcher' = [fetcher EXCEPT ![c] = [fetcher[c] EXCEPT !.at = "cycle"]]
      BY <1>6, ClientParts DEF TakePage
    <3>3. QED
      BY <3>1, <3>2
  <2>2. IsFetcher(r) /\ r.at = "cycle" /\ r.attempt = fetcher[c].attempt
    BY DEF IsFetcher
  <2> HIDE DEF r
  <2>3. UNCHANGED <<usedKeys, nextKey, yielded>>
    BY <1>6 DEF TakePage
  <2>4. ASSUME fetcher'[c] = r PROVE FetcherInv(c)' /\ SlotInv(c)' /\ RequestInv(c)'
    <3>1. FetcherInv(c)' /\ SlotInv(c)'
      BY <1>1, <1>2, <2>2, <2>4 DEF FetcherInv, SlotInv, FetchOver
    <3>2. RequestInv(c)'
      BY <1>5, <2>2, <2>4 DEF RequestInv, Failure
    <3>3. QED
      BY <3>1, <3>2
  <2>5. QED
    BY <1>1, <1>2, <1>3, <1>4, <2>1, <2>2, <2>3, <2>4, ClientParts, ClientMoves
<1>7. ASSUME ~(key # 0 /\ Cycles(c, key)) PROVE ClientIInv'
  <2> DEFINE r == IF key = 0
                  THEN [at |-> "whole", pause |-> fetcher[c].pause, attempt |-> fetcher[c].attempt] ELSE Ready
             ps == yielded[c]
             page == <<nextKey[c], key>>
  <2>1. fetcher' = [fetcher EXCEPT ![c] = r]
    <3>1. [fetcher[c] EXCEPT !.at = "whole"]
            = [at |-> "whole", pause |-> fetcher[c].pause, attempt |-> fetcher[c].attempt]
      BY <1>1, FieldSet DEF FetcherInv
    <3>2. fetcher' = [fetcher EXCEPT ![c] = IF key = 0 THEN [fetcher[c] EXCEPT !.at = "whole"] ELSE Ready]
      BY <1>7, ClientParts DEF TakePage
    <3>3. QED
      BY <3>1, <3>2
  <2>2. /\ IsFetcher(r) /\ r.at = (IF key = 0 THEN "whole" ELSE "queue")
        /\ r.attempt = (IF key = 0 THEN fetcher[c].attempt ELSE 1)
    BY DEF IsFetcher, Ready
  <2>3. /\ yielded' = [yielded EXCEPT ![c] = Append(ps, page)]
        /\ nextKey' = [nextKey EXCEPT ![c] = key]
        /\ usedKeys' = [usedKeys EXCEPT ![c] = IF key = 0 THEN usedKeys[c] ELSE usedKeys[c] \cup {key}]
        /\ key # 0 => key \notin usedKeys[c]
    BY <1>7, ClientParts DEF TakePage, Cycles
  <2>4. ps \in Seq(Page) /\ page \in Page /\ usedKeys[c] \in SUBSET (1..KEYS) /\ nextKey[c] \in 0..KEYS
    BY ClientParts DEF Page
  <2>5. /\ Append(ps, page) \in Seq(Page) /\ Len(Append(ps, page)) = Len(ps) + 1 /\ Len(ps) \in Nat
        /\ Append(ps, page) # <<>> /\ DOMAIN Append(ps, page) = 1..(Len(ps) + 1) /\ DOMAIN ps = 1..Len(ps)
        /\ Append(ps, page)[Len(ps) + 1] = page /\ \A i \in 1..Len(ps) : Append(ps, page)[i] = ps[i]
    <3>1. PICK T : T = Page
      OBVIOUS
    <3>2. ps \in Seq(T) /\ page \in T
      BY <2>4, <3>1
    <3> HIDE DEF page
    <3>3. /\ Append(ps, page) \in Seq(T) /\ Len(Append(ps, page)) = Len(ps) + 1 /\ Len(ps) \in Nat
          /\ Append(ps, page) # <<>> /\ DOMAIN Append(ps, page) = 1..(Len(ps) + 1)
          /\ DOMAIN ps = 1..Len(ps) /\ Append(ps, page)[Len(ps) + 1] = page
          /\ \A i \in 1..Len(ps) : Append(ps, page)[i] = ps[i]
      BY <3>2, Appended
    <3>4. QED
      BY <3>1, <3>3, Zenon
  <2>6. ps = <<>> <=> Len(ps) = 0
    BY <2>4
  <2>7. page[1] = nextKey[c] /\ page[2] = key
    OBVIOUS
  <2> HIDE DEF r, ps, page
  <2>8. fetcher'[c] = r /\ fetcher' = [d \in Client |-> fetcher'[d]]
        /\ \A d \in Client \ {c} : fetcher'[d] = fetcher[d]
    BY <2>1, ClientParts, Replaced
  <2>9. ClientTypes'
    <3>1. usedKeys' \in [Client -> SUBSET (1..KEYS)] /\ nextKey' \in [Client -> 0..KEYS]
      <4>1. (IF key = 0 THEN usedKeys[c] ELSE usedKeys[c] \cup {key}) \in SUBSET (1..KEYS)
        BY <2>4
      <4>2. QED
        BY <2>3, <4>1, ClientParts
    <3>2. yielded' \in [Client -> Seq(Page)]
      BY <2>3, <2>5, ClientParts
    <3>3. QED
      BY <1>2, <1>3, <2>8, <3>1, <3>2, ClientParts DEF ClientTypes
  <2>10. FetcherInv(c)' /\ SlotInv(c)'
    BY <1>1, <1>2, <2>2, <2>8, ClientAssumption DEF FetcherInv, SlotInv, FetchOver
  <2>11. RequestInv(c)'
    BY <1>5, <2>2, <2>8 DEF RequestInv, Failure
  <2>12. PageInv(c)'
    <3> DEFINE qs == Append(ps, page)
               n == Len(ps) + 1
               used == usedKeys'[c] \cup {0}
    <3>1. yielded'[c] = qs /\ nextKey'[c] = key
          /\ usedKeys'[c] = (IF key = 0 THEN usedKeys[c] ELSE usedKeys[c] \cup {key})
      BY <2>3, ClientParts
    <3>2. /\ nextKey[c] = (IF ps = <<>> THEN 0 ELSE ps[Len(ps)][2])
          /\ nextKey[c] \in usedKeys[c] \cup {0}
          /\ \A i \in 1..Len(ps) : ps[i][1] \in usedKeys[c] \cup {0}
          /\ \A i \in 1..Len(ps) : ps[i][1] = (IF i = 1 THEN 0 ELSE ps[i - 1][2])
          /\ \A i, j \in 1..Len(ps) : ps[i][1] = ps[j][1] => i = j
          /\ \A i \in 1..Len(ps) : ps[i][1] # nextKey[c]
      BY <1>1, <2>5 DEF PageInv, ps
    <3>3. /\ qs # <<>> /\ Len(qs) = n /\ DOMAIN qs = 1..n /\ n \in Nat /\ n >= 1
          /\ qs[n][1] = nextKey[c] /\ qs[n][2] = key
          /\ \A i \in 1..n : i # n => i \in 1..Len(ps) /\ qs[i] = ps[i]
      BY <2>5, <2>7
    <3> HIDE DEF qs, n
    <3>4. key \in used /\ \A i \in 1..n : qs[i][1] \in used
      <4>1. usedKeys[c] \cup {0} \subseteq used /\ key \in used
        BY <3>1
      <4> HIDE DEF used
      <4>2. ASSUME NEW i \in 1..n PROVE qs[i][1] \in used
        <5>1. CASE i = n
          BY <3>2, <3>3, <4>1, <5>1
        <5>2. CASE i # n
          <6>1. i \in 1..Len(ps) /\ qs[i] = ps[i]
            BY <3>3, <5>2
          <6>2. QED
            BY <3>2, <4>1, <6>1
        <5>3. QED
          BY <5>1, <5>2
      <4>3. QED
        BY <4>1, <4>2
    <3>5. \A i \in 1..n : qs[i][1] = (IF i = 1 THEN 0 ELSE qs[i - 1][2])
      <4> SUFFICES ASSUME NEW i \in 1..n PROVE qs[i][1] = (IF i = 1 THEN 0 ELSE qs[i - 1][2])
        OBVIOUS
      <4>1. n = Len(ps) + 1 /\ Len(ps) \in Nat
        BY <2>5 DEF n
      <4>2. i # 1 => i - 1 \in 1..n /\ i - 1 # n
        BY <4>1
      <4>3. i # 1 => qs[i - 1] = ps[i - 1]
        BY <4>2, <3>3
      <4>4. CASE i # n
        BY <4>3, <4>4, <3>2, <3>3
      <4>5. CASE i = n
        <5>1. i = 1 => ps = <<>>
          BY <4>1, <4>5, <2>6
        <5>2. i # 1 => ps # <<>> /\ Len(ps) = i - 1
          BY <4>1, <4>5, <2>6
        <5>3. QED
          BY <4>3, <4>5, <5>1, <5>2, <3>2, <3>3
      <4>6. QED
        BY <4>4, <4>5
    <3>6. \A i, j \in 1..n : qs[i][1] = qs[j][1] => i = j
      BY <3>2, <3>3
    <3>7. key # 0 => \A i \in 1..n : qs[i][1] # key
      <4>1. key # 0 => key \notin usedKeys[c] \cup {0}
        BY <2>3
      <4>2. QED
        BY <4>1, <3>2, <3>3
    <3>8. qs[Len(qs)][2] = key
      BY <3>3
    <3>9. fetcher'[c].at = "whole" <=> key = 0
      BY <2>2, <2>8
    <3>10. QED
      BY <3>1, <3>3, <3>4, <3>5, <3>6, <3>7, <3>8, <3>9 DEF PageInv
  <2>13. ClientInv(c)'
    BY <2>10, <2>11, <2>12 DEF ClientInv
  <2>14. \A d \in Client \ {c} : yielded'[d] = yielded[d] /\ nextKey'[d] = nextKey[d] /\ usedKeys'[d] = usedKeys[d]
    BY <2>3, ClientParts
  <2>15. QED
    BY <1>2, <1>4, <2>8, <2>9, <2>13, <2>14, ClientParts, OneClient
<1>8. QED
  BY <1>6, <1>7

LEMMA TimeElapsesKeeps ==
    ASSUME ClientIInv, TimeElapses
    PROVE  ClientIInv'
<1>1. /\ sinceRequest' \in 0..INTERVAL
      /\ sinceRequest' = INTERVAL \/ sinceRequest' = sinceRequest + 1
  BY ClientParts DEF TimeElapses, Least
<1>2. UNCHANGED <<slotHolder, counters, usedKeys, nextKey, yielded>>
      /\ fetcher' = [c \in Client |-> [fetcher[c] EXCEPT !.pause = IF fetcher[c].pause = 0 THEN 0 ELSE fetcher[c].pause - 1]]
  BY DEF TimeElapses, fetchVars
<1>3. ASSUME NEW c \in Client
      PROVE  /\ fetcher'[c].at = fetcher[c].at /\ fetcher'[c].attempt = fetcher[c].attempt /\ IsFetcher(fetcher'[c])
             /\ fetcher'[c].pause = (IF fetcher[c].pause = 0 THEN 0 ELSE fetcher[c].pause - 1)
  <2> DEFINE p == IF fetcher[c].pause = 0 THEN 0 ELSE fetcher[c].pause - 1
  <2>1. IsFetcher(fetcher[c])
    BY ClientParts DEF ClientInv, FetcherInv
  <2>2. fetcher'[c] = [fetcher[c] EXCEPT !.pause = p]
    BY <1>2
  <2> HIDE DEF p
  <2>3. fetcher'[c] = [at |-> fetcher[c].at, pause |-> p, attempt |-> fetcher[c].attempt]
    BY <2>1, <2>2 DEF IsFetcher
  <2>4. QED
    BY <2>3 DEF IsFetcher, p
<1>4. ClientTypes'
  <2>1. fetcher' = [c \in Client |-> fetcher'[c]]
    BY <1>2
  <2>2. QED
    BY <1>1, <1>2, <2>1, ClientParts DEF ClientTypes
<1>5. ASSUME NEW c \in Client PROVE ClientInv(c)'
  <2>1. ClientInv(c)
    BY ClientParts
  <2>2. FetcherInv(c)'
    BY <1>2, <1>3, <2>1 DEF ClientInv, FetcherInv
  <2>3. SlotInv(c)'
    <3> SUFFICES ASSUME fetcher'[c].at = "slot"
                 PROVE  fetcher'[c].pause \in 0..INTERVAL /\ fetcher'[c].pause + sinceRequest' >= INTERVAL
      BY DEF SlotInv
    <3>1. fetcher[c].pause \in 0..INTERVAL /\ fetcher[c].pause + sinceRequest >= INTERVAL
      BY <1>3, <2>1 DEF ClientInv, SlotInv
    <3>2. \A p \in 0..INTERVAL : p + sinceRequest >= INTERVAL =>
              /\ (IF p = 0 THEN 0 ELSE p - 1) \in 0..INTERVAL
              /\ (IF p = 0 THEN 0 ELSE p - 1) + sinceRequest' >= INTERVAL
      BY <1>1, ClientParts
    <3>3. QED
      BY <1>3, <3>1, <3>2, Zenon
  <2>4. RequestInv(c)'
    BY <1>2, <1>3, <2>1 DEF ClientInv, RequestInv
  <2>5. PageInv(c)'
    BY <1>2, <1>3, <2>1 DEF ClientInv, PageInv
  <2>6. QED
    BY <2>2, <2>3, <2>4, <2>5 DEF ClientInv
<1>6. QED
  BY <1>2, <1>4, <1>5, ClientParts DEF ClientIInv, ClientInv

LEMMA ClientInductive == ClientIInv /\ [ClientNext]_clientVars => ClientIInv'
<1> SUFFICES ASSUME ClientIInv, [ClientNext]_clientVars PROVE ClientIInv'
  OBVIOUS
<1>1. ASSUME NEW c \in Client, ClientStep(c) PROVE ClientIInv'
  <2>1. ASSUME NEW failure \in Failure, RequestFails(c, failure) PROVE ClientIInv'
    BY <2>1, RequestFailsKeeps
  <2>2. ASSUME NEW key \in 0..KEYS, TakePage(c, key) PROVE ClientIInv'
    BY <2>2, TakePageKeeps
  <2>3. (QueueForSlot(c) \/ SendRequest(c) \/ EndPause(c)) => ClientIInv'
    BY QueueForSlotKeeps, SendRequestKeeps, EndPauseKeeps
  <2>4. QED
    BY <1>1, <2>1, <2>2, <2>3 DEF ClientStep
<1>2. CASE UNCHANGED clientVars
  <2>1. ClientTypes'
    BY <1>2, ClientParts DEF clientVars, ClientTypes
  <2>2. ASSUME NEW d \in Client PROVE ClientInv(d)'
    <3>1. ClientInv(d)
      BY ClientParts
    <3>2. QED
      BY <1>2, <3>1, OtherClient DEF clientVars
  <2>3. \A c, d \in slotHolder' : c = d
    BY <1>2, ClientParts DEF clientVars
  <2>4. QED
    BY <2>1, <2>2, <2>3 DEF ClientIInv, ClientInv
<1>3. QED
  BY <1>1, <1>2, TimeElapsesKeeps DEF ClientNext

LEMMA ClientSafe == ClientIInv => ClientTypeOK /\ FetchingSound
<1> SUFFICES ASSUME ClientIInv PROVE ClientTypeOK /\ FetchingSound
  OBVIOUS
<1>1. \A c \in Client : FetcherInv(c) /\ SlotInv(c) /\ RequestInv(c) /\ PageInv(c)
  BY ClientParts DEF ClientInv
<1>2. ClientTypeOK
  BY <1>1, ClientParts DEF ClientTypeOK, FetcherInv
<1>3. SpacedOut
  <2> SUFFICES ASSUME NEW c \in Client, fetcher[c].at = "slot", fetcher[c].pause = 0
               PROVE  sinceRequest = INTERVAL
    BY DEF SpacedOut
  <2>1. 0 + sinceRequest >= INTERVAL
    BY <1>1 DEF SlotInv
  <2>2. QED
    BY <2>1, ClientParts
<1>4. PagesConsecutive
  BY <1>1 DEF PageInv, PagesConsecutive
<1>5. RequestsCounted
  <2> SUFFICES ASSUME NEW c \in Client
               PROVE  /\ counters[c].requests = counters[c].pages + counters[c].retries
                           + (IF fetcher[c].at \in Failure \cup {"sent"} THEN 1 ELSE 0)
                      /\ fetcher[c].at \in {"transport", "rate limit", "server"} => fetcher[c].attempt = ATTEMPTS
    BY DEF RequestsCounted
  <2>1. counters[c].requests \in Nat /\ counters[c].retries \in Nat /\ counters[c].pages \in Nat
    BY ClientParts, Counted
  <2>2. RequestInv(c)
    BY <1>1
  <2>3. counters[c].requests = counters[c].pages + counters[c].retries
           + (IF fetcher[c].at \in Failure \cup {"sent"} THEN 1 ELSE 0)
    <3>1. CASE fetcher[c].at \in Failure \cup {"sent"}
      BY <2>2, <3>1 DEF RequestInv
    <3>2. CASE fetcher[c].at \notin Failure \cup {"sent"}
      <4>1. counters[c].requests = counters[c].pages + counters[c].retries
        BY <2>2, <3>2 DEF RequestInv
      <4>2. counters[c].pages + counters[c].retries = counters[c].pages + counters[c].retries + 0
        BY <2>1
      <4>3. QED
        BY <3>2, <4>1, <4>2
    <3>3. QED
      BY <3>1, <3>2
  <2>4. fetcher[c].at \in {"transport", "rate limit", "server"} => fetcher[c].attempt = ATTEMPTS
    BY <2>2 DEF RequestInv
  <2>5. QED
    BY <2>3, <2>4
<1>6. QED
  BY <1>2, <1>3, <1>4, <1>5 DEF FetchingSound

\* However many programs fetch at once and whatever the server answers: requests keep their
\* distance, pages come consecutively and once, a fetching without a further key alone is
\* whole, and every request is accounted for.
THEOREM AlwaysFetchedSoundly == ClientSpec => [](ClientTypeOK /\ FetchingSound)
BY ClientInitially, ClientInductive, ClientSafe, PTL DEF ClientSpec
-----------------------------------------------------------------------------
(* The judgement of the market: the inductive invariant, in named parts *)

RegimeTypes ==
    /\ index \in {"nikkei", "vix", "judge", "over"}
    /\ tries \in 0..MAX_ATTEMPTS
    /\ lastBars \in SUBSET Session /\ bestDays \in SUBSET Session
    /\ nikkei \in SUBSET Session /\ vix \in SUBSET Session /\ filled \in SUBSET Session
    /\ answers \subseteq SUBSET Session

\* A series is settled on days that end with the session before.
SettledInv ==
    /\ index = "vix" => UpToDate(nikkei)
    /\ index = "judge" => UpToDate(nikkei) /\ UpToDate(vix) /\ bestDays = {}
    /\ Judged => UpToDate(nikkei) /\ UpToDate(vix)

FilledInv ==
    /\ index = "nikkei" => filled = {}
    /\ filled # {} => HISTORY \in filled /\ \A d \in filled, e \in nikkei \ filled : e < d

BestInv ==
    /\ bestDays # {} => bestDays \in answers /\ UpToDate(bestDays)
    /\ \A a \in answers : UpToDate(a) =>
           bestDays # {} /\ Cardinality(Missing(bestDays)) <= Cardinality(Missing(a))

Assessment(volatility, fear, jumped, trending) ==
    [regime |-> Regime[Relieved(Calculated(volatility, fear, jumped), trending)], available |-> TRUE,
     reason |-> "none", before |-> Regime[Calculated(volatility, fear, jumped)], volatility |-> volatility,
     fear |-> fear, jumped |-> jumped, trending |-> trending, filled |-> filled]

\* What is told is computed from what was read, or that nothing could be.
ToldInv ==
    /\ index # "over" => assessment = NotYet
    /\ \/ \E why \in {"none", "error", "stale", "few"} : assessment = Unavailable(why)
       \/ /\ Judged
          /\ \E volatility, fear \in Reading, jumped, trending \in BOOLEAN :
                assessment = Assessment(volatility, fear, jumped, trending)

RegimeIInv == RegimeTypes /\ SettledInv /\ FilledInv /\ BestInv /\ ToldInv

LEMMA RegimeConstants ==
    /\ HISTORY \in Nat /\ HISTORY >= 2 /\ OLDER \in Nat /\ WINDOW \in Nat /\ WINDOW >= 1 /\ MAX_ATTEMPTS \in Nat \ {0}
    /\ HIGH \in Nat /\ EXTREME \in Nat /\ HIGH < EXTREME
BY HistoryAssumption

\* The newest of some days is one of them, and none is newer.
LEMMA Newest ==
    ASSUME NEW D \in SUBSET Session, D # {}
    PROVE  Max(D) \in D /\ \A d \in D : Max(D) >= d
<1> DEFINE Ages == {HISTORY + 1 - d : d \in D}
           Less == {mn \in Nat \X Nat : mn[1] < mn[2]}
<1>1. HISTORY \in Nat /\ OLDER \in Nat /\ D \subseteq 1 - OLDER..HISTORY + 1
  BY RegimeConstants DEF Session
<1>2. Ages \subseteq Nat /\ Ages # {}
  <2>1. ASSUME NEW d \in D PROVE HISTORY + 1 - d \in Nat
    <3>1. d \in 1 - OLDER..HISTORY + 1
      BY <1>1
    <3>2. HISTORY \in Nat /\ OLDER \in Nat
      BY <1>1
    <3>3. QED
      BY <3>1, <3>2
  <2>2. PICK d \in D : TRUE
    OBVIOUS
  <2>3. HISTORY + 1 - d \in Ages
    OBVIOUS
  <2>4. QED
    BY <2>1, <2>3, Zenon
<1>3. IsWellFoundedOn(Less, Nat)
  BY NatLessThanWellFounded DEF OpToRel
<1>4. PICK n \in Ages : \A m \in Ages : ~(<<m, n>> \in Less)
  <2> HIDE DEF Ages, Less
  <2> QED
    BY <1>2, <1>3, WFMin
<1>5. \A m \in Ages : ~(m < n)
  BY <1>2, <1>4
<1>6. PICK x \in D : n = HISTORY + 1 - x
  OBVIOUS
<1>7. \A y \in D : x >= y
  <2> SUFFICES ASSUME NEW y \in D PROVE x >= y
    OBVIOUS
  <2>1. ~(HISTORY + 1 - y < HISTORY + 1 - x)
    BY <1>5, <1>6
  <2>2. QED
    BY <1>1, <2>1
<1>8. \E y \in D : \A z \in D : y >= z
  BY <1>7
<1>9. QED
  BY <1>8, Zenon DEF Max

\* How many of the days needed an answer lacks is a number.
LEMMA MissingCounted ==
    ASSUME NEW D
    PROVE  /\ IsFiniteSet(Missing(D)) /\ Cardinality(Missing(D)) \in Nat
           /\ IsFiniteSet(Missing(D)') /\ Cardinality(Missing(D)') \in Nat
<1>1. IsFiniteSet(1..HISTORY) /\ IsFiniteSet({HISTORY})
  <2>1. 1 \in Int /\ HISTORY \in Int
    BY RegimeConstants
  <2>2. IsFiniteSet(1..HISTORY)
    BY <2>1, FS_Interval
  <2>3. IsFiniteSet({HISTORY})
    BY FS_Singleton
  <2>4. QED
    BY <2>2, <2>3
<1>2. IsFiniteSet(Needed) /\ IsFiniteSet(Needed')
  BY <1>1 DEF Needed
<1>3. Missing(D) \in SUBSET Needed /\ Missing(D)' \in SUBSET Needed'
  BY DEF Missing
<1>4. IsFiniteSet(Missing(D)) /\ IsFiniteSet(Missing(D)')
  BY <1>2, <1>3, FS_Subset
<1>5. QED
  BY <1>4, FS_CardinalityType

LEMMA RegimeInitially == RegimeInit => RegimeIInv
<1> SUFFICES ASSUME RegimeInit PROVE RegimeIInv
  OBVIOUS
<1>1. RegimeTypes
  BY RegimeConstants DEF RegimeInit, RegimeTypes
<1>2. SettledInv /\ FilledInv /\ BestInv
  BY DEF RegimeInit, SettledInv, FilledInv, BestInv, Judged
<1>3. ToldInv
  BY Zenon DEF RegimeInit, ToldInv, NotYet
<1>4. QED
  BY <1>1, <1>2, <1>3 DEF RegimeIInv

\* A series is settled: the next one begins anew.
LEMMA Settled ==
    ASSUME RegimeIInv, NEW days \in SUBSET Session, UpToDate(days), SettleSeries(days),
           index \in {"nikkei", "vix"}, assessment' = assessment,
           filled' \in SUBSET Session,
           index = "vix" => filled' = filled,
           filled' # {} /\ index = "nikkei" => HISTORY \in filled' /\ \A d \in filled', e \in days \ filled' : e < d
    PROVE  RegimeIInv'
<1>1. /\ tries' = 0 /\ lastBars' = {} /\ bestDays' = {} /\ answers' = {}
      /\ \/ index = "nikkei" /\ nikkei' = days /\ index' = "vix" /\ vix' = vix
         \/ index = "vix" /\ vix' = days /\ index' = "judge" /\ nikkei' = nikkei
  BY DEF SettleSeries
<1>2. RegimeTypes'
  BY <1>1, RegimeConstants DEF RegimeIInv, RegimeTypes
<1>3. SettledInv'
  BY <1>1 DEF RegimeIInv, SettledInv, Judged, UpToDate
<1>4. FilledInv'
  BY <1>1 DEF RegimeIInv, FilledInv
<1>5. BestInv'
  BY <1>1 DEF BestInv
<1>6. ToldInv'
  <2>1. assessment' = NotYet /\ index' # "over"
    BY <1>1 DEF RegimeIInv, ToldInv
  <2>2. QED
    BY <2>1, Zenon DEF ToldInv, NotYet, Unavailable
<1>7. QED
  BY <1>2, <1>3, <1>4, <1>5, <1>6 DEF RegimeIInv

\* The day is told to be dangerous for want of data.
LEMMA ToldUnavailable ==
    ASSUME RegimeIInv, NEW why \in {"error", "stale", "few"}, Tell(Unavailable(why)),
           UNCHANGED <<tries, lastBars, bestDays, answers, nikkei, vix, filled>>
    PROVE  RegimeIInv'
<1>1. assessment' = Unavailable(why) /\ index' = "over"
  BY DEF Tell
<1>2. ~Judged'
  BY <1>1 DEF Judged, Unavailable
<1>3. RegimeTypes'
  BY <1>1 DEF RegimeIInv, RegimeTypes
<1>4. SettledInv' /\ FilledInv'
  BY <1>1, <1>2 DEF RegimeIInv, SettledInv, FilledInv
<1>5. BestInv'
  <2>1. bestDays # {} => bestDays \in answers /\ UpToDate(bestDays)
    BY DEF RegimeIInv, BestInv
  <2>2. \A a \in answers : UpToDate(a) => bestDays # {}
    BY DEF RegimeIInv, BestInv
  <2>3. bestDays # {} => Missing(bestDays)' = {}
    <3> SUFFICES ASSUME bestDays # {} PROVE Missing(bestDays)' = {}
      OBVIOUS
    <3>1. bestDays \in SUBSET Session /\ Max(bestDays) = HISTORY
      BY <2>1 DEF RegimeIInv, RegimeTypes, UpToDate
    <3>2. HISTORY \in bestDays
      BY <3>1, Newest
    <3>3. QED
      BY <1>1, <3>2 DEF Missing, Needed
  <2>4. \A a \in answers : UpToDate(a) => Cardinality(Missing(bestDays)') <= Cardinality(Missing(a)')
    BY <2>2, <2>3, FS_EmptySet, MissingCounted
  <2>5. QED
    BY <2>1, <2>2, <2>4 DEF BestInv, UpToDate, Missing, Needed
<1>6. ToldInv'
  BY <1>1, Zenon DEF ToldInv
<1>7. QED
  BY <1>3, <1>4, <1>5, <1>6 DEF RegimeIInv

LEMMA FetchDaysKeeps ==
    ASSUME RegimeIInv, NEW days \in Offered, FetchDays(days)
    PROVE  RegimeIInv'
<1>1. days \in SUBSET Session
  BY RegimeConstants DEF Offered, Session
<1>2. index \in {"nikkei", "vix"} /\ tries < MAX_ATTEMPTS /\ filled' = filled /\ assessment' = assessment
  BY DEF FetchDays
<1>3. CASE UpToDate(days) /\ Missing(days) = {}
  <2>1. SettleSeries(days)
    BY <1>3 DEF FetchDays
  <2>2. index = "nikkei" => filled = {}
    BY DEF RegimeIInv, FilledInv
  <2>3. filled \in SUBSET Session
    BY DEF RegimeIInv, RegimeTypes
  <2>4. QED
    BY <1>1, <1>2, <1>3, <2>1, <2>2, <2>3, Settled
<1>4. CASE ~(UpToDate(days) /\ Missing(days) = {})
  <2>1. /\ tries' = tries + 1 /\ lastBars' = days /\ answers' = answers \cup {days}
        /\ bestDays' = IF UpToDate(days) /\ Better(days) THEN days ELSE bestDays
        /\ index' = index /\ nikkei' = nikkei /\ vix' = vix
    BY <1>4 DEF FetchDays
  <2>2. RegimeTypes'
    BY <1>1, <1>2, <2>1, RegimeConstants DEF RegimeIInv, RegimeTypes
  <2>3. SettledInv' /\ FilledInv'
    BY <1>2, <2>1 DEF RegimeIInv, SettledInv, FilledInv, Judged, UpToDate
  <2>4. ToldInv'
    <3>1. assessment' = NotYet /\ index' # "over"
      BY <1>2, <2>1 DEF RegimeIInv, ToldInv
    <3>2. QED
      BY <3>1, Zenon DEF ToldInv, NotYet
  <2>5. BestInv'
    <3>1. \A a : Missing(a)' = Missing(a)
      BY <2>1 DEF Missing, Needed
    <3>2. \A a : Cardinality(Missing(a)) \in Nat
      BY MissingCounted
    <3>3. BestInv
      BY DEF RegimeIInv
    <3>4. bestDays' # {} => bestDays' \in answers' /\ UpToDate(bestDays')
      BY <2>1, <3>3 DEF BestInv
    <3>5. \A a \in answers' : UpToDate(a) =>
              bestDays' # {} /\ Cardinality(Missing(bestDays')) <= Cardinality(Missing(a))
      <4>1. CASE UpToDate(days) /\ Better(days)
        <5>1. bestDays' = days /\ days # {}
          BY <2>1, <4>1 DEF UpToDate
        <5>2. bestDays = {} \/ Cardinality(Missing(days)) < Cardinality(Missing(bestDays))
          BY <4>1 DEF Better
        <5>3. \A a \in answers : UpToDate(a) =>
                  bestDays # {} /\ Cardinality(Missing(bestDays)) <= Cardinality(Missing(a))
          BY <3>3 DEF BestInv
        <5> DEFINE Gaps(d) == Cardinality(Missing(d))
        <5>4. \A d : Gaps(d) \in Nat
          BY <3>2
        <5>5. bestDays = {} \/ Gaps(days) < Gaps(bestDays)
          BY <5>2
        <5>6. \A a \in answers : UpToDate(a) => bestDays # {} /\ Gaps(bestDays) <= Gaps(a)
          BY <5>3
        <5> HIDE DEF Gaps
        <5>7. \A a \in answers \cup {days} : UpToDate(a) => Gaps(days) <= Gaps(a)
          BY <5>4, <5>5, <5>6
        <5>8. QED
          BY <2>1, <5>1, <5>7 DEF Gaps
      <4>2. CASE ~(UpToDate(days) /\ Better(days))
        <5>1. bestDays' = bestDays
          BY <2>1, <4>2
        <5>2. UpToDate(days) => bestDays # {} /\ Cardinality(Missing(bestDays)) <= Cardinality(Missing(days))
          BY <4>2, <3>2 DEF Better
        <5>3. QED
          BY <2>1, <5>1, <5>2, <3>3 DEF BestInv
      <4>3. QED
        BY <4>1, <4>2
    <3>6. Missing(bestDays)' = Missing(bestDays')
      BY <2>1 DEF Missing, Needed
    <3>7. \A a \in answers' : UpToDate(a) =>
              bestDays' # {} /\ Cardinality(Missing(bestDays)') <= Cardinality(Missing(a)')
      BY <3>1, <3>5, <3>6
    <3>8. QED
      BY <3>4, <3>7 DEF BestInv, UpToDate, Missing, Needed
  <2>6. QED
    BY <2>2, <2>3, <2>4, <2>5 DEF RegimeIInv
<1>5. QED
  BY <1>3, <1>4

LEMMA TakeBestKeeps == RegimeIInv /\ TakeBest => RegimeIInv'
<1> SUFFICES ASSUME RegimeIInv, TakeBest PROVE RegimeIInv'
  OBVIOUS
<1>1. bestDays \in SUBSET Session /\ UpToDate(bestDays) /\ SettleSeries(bestDays) /\ index \in {"nikkei", "vix"}
  BY DEF RegimeIInv, RegimeTypes, BestInv, TakeBest
<1>2. filled' = filled /\ assessment' = assessment /\ filled \in SUBSET Session
  BY DEF RegimeIInv, RegimeTypes, TakeBest
<1>3. index = "nikkei" => filled = {}
  BY DEF RegimeIInv, FilledInv
<1>4. QED
  BY <1>1, <1>2, <1>3, Settled

LEMMA FillFromMinutesKeeps ==
    ASSUME RegimeIInv, NEW extra \in SUBSET (1..HISTORY), FillFromMinutes(extra)
    PROVE  RegimeIInv'
<1>1. CASE HISTORY \notin extra
  <2>1. /\ Tell(Unavailable("stale"))
        /\ UNCHANGED <<tries, lastBars, bestDays, answers, nikkei, vix, filled>>
    BY <1>1 DEF FillFromMinutes
  <2>2. QED
    BY <2>1, ToldUnavailable
<1>2. CASE HISTORY \in extra
  <2> DEFINE days == lastBars \cup extra
  <2>1. /\ index \in {"nikkei", "vix"} /\ extra \subseteq Fillable /\ SettleSeries(days)
        /\ filled' = extra /\ assessment' = assessment
    BY <1>2 DEF FillFromMinutes
  <2>2. /\ index = "nikkei" /\ lastBars # {} /\ lastBars \in SUBSET Session
        /\ \A d \in extra : d > Max(lastBars) /\ d \in 1..HISTORY
    BY <1>2, <2>1 DEF Fillable, Needed, RegimeIInv, RegimeTypes
  <2>3. Max(lastBars) \in Session /\ \A e \in lastBars : Max(lastBars) >= e /\ e \in Session
    BY <2>2, Newest
  <2>4. \A d \in extra, e \in lastBars : e < d
    BY <2>2, <2>3, RegimeConstants DEF Session
  <2>5. days \in SUBSET Session /\ days # {} /\ extra \in SUBSET Session
    BY <1>2, <2>2, RegimeConstants DEF Session
  <2>6. Max(days) = HISTORY
    <3>1. Max(days) \in days /\ \A d \in days : Max(days) >= d
      BY <2>5, Newest
    <3>2. \A d \in days : d <= HISTORY /\ d \in Int
      BY <1>2, <2>2, <2>4, RegimeConstants DEF Session
    <3>3. HISTORY \in days
      BY <1>2
    <3> HIDE DEF days
    <3>4. Max(days) \in Int /\ Max(days) <= HISTORY
      BY <3>1, <3>2
    <3>5. Max(days) >= HISTORY
      BY <3>1, <3>3
    <3>6. QED
      BY <3>4, <3>5, RegimeConstants
  <2>7. UpToDate(days)
    BY <2>5, <2>6 DEF UpToDate
  <2>8. \A d \in extra, e \in days \ extra : e < d
    BY <2>4
  <2> HIDE DEF days
  <2>9. QED
    BY <1>2, <2>1, <2>2, <2>5, <2>7, <2>8, Settled
<1>3. QED
  BY <1>1, <1>2

LEMMA AssessKeeps ==
    ASSUME RegimeIInv, NEW volatility \in Reading, NEW fear \in Reading, NEW jumped \in BOOLEAN,
           NEW trending \in BOOLEAN, Assess(volatility, fear, jumped, trending)
    PROVE  RegimeIInv'
<1>1. CASE Cardinality(nikkei) < WINDOW + 1
  <2>1. /\ Tell(Unavailable("few"))
        /\ UNCHANGED <<tries, lastBars, bestDays, answers, nikkei, vix, filled>>
    BY <1>1 DEF Assess
  <2>2. QED
    BY <2>1, ToldUnavailable
<1>2. CASE ~(Cardinality(nikkei) < WINDOW + 1)
  <2>1. /\ index = "judge" /\ index' = "over"
        /\ UNCHANGED <<tries, lastBars, bestDays, answers, nikkei, vix, filled>>
    BY <1>2 DEF Assess, Tell
  <2>2. assessment' = Assessment(volatility, fear, jumped, trending)
    BY <1>2 DEF Assess, Tell, Assessment
  <2>3. assessment' = Assessment(volatility, fear, jumped, trending)'
    BY <2>1, <2>2 DEF Assessment
  <2>4. assessment'.available
    BY <2>2 DEF Assessment
  <2>5. RegimeTypes'
    BY <2>1 DEF RegimeIInv, RegimeTypes
  <2>6. SettledInv' /\ FilledInv'
    BY <2>1 DEF RegimeIInv, SettledInv, FilledInv, UpToDate
  <2>7. bestDays' = {} /\ \A a \in answers' : ~UpToDate(a)
    BY <2>1 DEF RegimeIInv, SettledInv, BestInv
  <2>8. BestInv'
    BY <2>7 DEF BestInv, UpToDate
  <2>9. ToldInv'
    <3>1. Judged'
      BY <2>1, <2>4 DEF Judged
    <3>2. index' = "over"
      BY <2>1
    <3>3. QED
      BY <2>3, <3>1, <3>2, Zenon DEF ToldInv
  <2>10. QED
    BY <2>5, <2>6, <2>8, <2>9 DEF RegimeIInv
<1>3. QED
  BY <1>1, <1>2

LEMMA RegimeInductive == RegimeIInv /\ [RegimeNext]_regimeVars => RegimeIInv'
<1> SUFFICES ASSUME RegimeIInv, [RegimeNext]_regimeVars PROVE RegimeIInv'
  OBVIOUS
<1>1. ASSUME NEW days \in Offered, FetchDays(days) PROVE RegimeIInv'
  BY <1>1, FetchDaysKeeps
<1>2. ASSUME JudgementRaises PROVE RegimeIInv'
  BY <1>2, ToldUnavailable DEF JudgementRaises
<1>3. ASSUME NEW extra \in SUBSET (1..HISTORY), FillFromMinutes(extra) PROVE RegimeIInv'
  BY <1>3, FillFromMinutesKeeps
<1>4. ASSUME NEW volatility \in Reading, NEW fear \in Reading, NEW jumped \in BOOLEAN,
             NEW trending \in BOOLEAN, Assess(volatility, fear, jumped, trending)
      PROVE  RegimeIInv'
  BY <1>4, AssessKeeps
<1>5. ASSUME UNCHANGED regimeVars PROVE RegimeIInv'
  <2>1. RegimeTypes' /\ SettledInv' /\ FilledInv'
    BY <1>5 DEF regimeVars, RegimeIInv, RegimeTypes, SettledInv, FilledInv, Judged, UpToDate
  <2>2. BestInv'
    BY <1>5 DEF regimeVars, RegimeIInv, BestInv, UpToDate, Missing, Needed
  <2>3. ToldInv'
    <3>1. index' = index /\ assessment' = assessment /\ nikkei' = nikkei /\ filled' = filled
      BY <1>5 DEF regimeVars
    <3>2. ToldInv
      BY DEF RegimeIInv
    <3>3. Judged' = Judged /\ \A v, x, j, t : Assessment(v, x, j, t)' = Assessment(v, x, j, t)
      BY <3>1 DEF Judged, Assessment
    <3> HIDE DEF Judged, Assessment
    <3>4. QED
      BY <3>1, <3>2, <3>3, Zenon DEF ToldInv
  <2>4. QED
    BY <2>1, <2>2, <2>3 DEF RegimeIInv
<1>6. QED
  BY <1>1, <1>2, <1>3, <1>4, <1>5, TakeBestKeeps DEF RegimeNext

LEMMA OfTwo ==
    ASSUME NEW m \in Int, NEW n \in Int
    PROVE  Max({m, n}) = (IF m >= n THEN m ELSE n) /\ Min({m, n}) = (IF m <= n THEN m ELSE n)
<1>1. Max({m, n}) = (IF m >= n THEN m ELSE n)
  <2> DEFINE b == IF m >= n THEN m ELSE n
  <2>1. b \in {m, n} /\ \A y \in {m, n} : b >= y
    OBVIOUS
  <2>2. Max({m, n}) \in {m, n} /\ \A y \in {m, n} : Max({m, n}) >= y
    BY <2>1, Zenon DEF Max
  <2> HIDE DEF b
  <2>3. Max({m, n}) \in Int /\ Max({m, n}) >= b /\ b >= Max({m, n}) /\ b \in Int
    BY <2>1, <2>2
  <2>4. Max({m, n}) = b
    BY <2>3
  <2>5. QED
    BY <2>4 DEF b
<1>2. Min({m, n}) = (IF m <= n THEN m ELSE n)
  <2> DEFINE b == IF m <= n THEN m ELSE n
  <2>1. b \in {m, n} /\ \A y \in {m, n} : b <= y
    OBVIOUS
  <2>2. Min({m, n}) \in {m, n} /\ \A y \in {m, n} : Min({m, n}) <= y
    BY <2>1, Zenon DEF Min
  <2> HIDE DEF b
  <2>3. Min({m, n}) \in Int /\ Min({m, n}) <= b /\ b <= Min({m, n}) /\ b \in Int
    BY <2>1, <2>2
  <2>4. Min({m, n}) = b
    BY <2>3
  <2>5. QED
    BY <2>4 DEF b
<1>3. QED
  BY <1>1, <1>2

LEMMA SeverityOf ==
    ASSUME NEW i \in 1..3
    PROVE  /\ Regime[i] \in {Regime[j] : j \in DOMAIN Regime} /\ Severity(Regime[i]) = i
           /\ Regime[i] = "NORMAL" <=> i = 1
<1>1. Regime[1] = "NORMAL" /\ Regime[2] = "CAUTION" /\ Regime[3] = "DANGER" /\ DOMAIN Regime = 1..3
  BY DEF Regime
<1>2. \A j, k \in 1..3 : Regime[j] = Regime[k] => j = k
  BY <1>1
<1>3. Severity(Regime[i]) \in 1..3 /\ Regime[Severity(Regime[i])] = Regime[i]
  <2>1. \E j \in DOMAIN Regime : Regime[j] = Regime[i]
    BY <1>1
  <2>2. Severity(Regime[i]) \in DOMAIN Regime /\ Regime[Severity(Regime[i])] = Regime[i]
    BY <2>1, Zenon DEF Severity
  <2>3. QED
    BY <1>1, <2>2
<1>4. QED
  BY <1>1, <1>2, <1>3

\* How bad it gets, of the readings: extreme is the worst, and relieved by one level at most.
LEMMA CalculatedFrom ==
    ASSUME NEW volatility \in Reading, NEW fear \in Reading, NEW jumped \in BOOLEAN, NEW trending \in BOOLEAN
    PROVE  LET severity == Calculated(volatility, fear, jumped)
               final == Relieved(severity, trending)
               worse == Max({Classified(volatility), Classified(fear)})
           IN  /\ severity \in 1..3 /\ final \in 1..3 /\ worse \in 1..3 /\ worse <= severity
               /\ volatility >= EXTREME \/ fear >= EXTREME => final >= 2
               /\ ~trending => final = severity
<1> DEFINE severity == Calculated(volatility, fear, jumped)
           final == Relieved(severity, trending)
           m == Classified(volatility)
           n == Classified(fear)
           worse == Max({m, n})
<1>1. m \in 1..3 /\ n \in 1..3
  BY DEF Classified
<1>2. volatility >= EXTREME \/ fear >= EXTREME => m = 3 \/ n = 3
  BY DEF Classified
<1>3. worse = (IF m >= n THEN m ELSE n)
  <2> HIDE DEF m, n
  <2> QED
    BY <1>1, OfTwo
<1>4. severity = (IF jumped THEN Min({worse + 1, 3}) ELSE worse)
  BY DEF Calculated
<1>5. final = (IF trending THEN Max({severity - 1, 1}) ELSE severity)
  BY DEF Relieved
<1> HIDE DEF m, n
<1>6. worse \in 1..3 /\ (m = 3 \/ n = 3 => worse = 3)
  BY <1>1, <1>3
<1> HIDE DEF worse
<1>7. severity = (IF jumped THEN (IF worse + 1 <= 3 THEN worse + 1 ELSE 3) ELSE worse)
  BY <1>4, <1>6, OfTwo
<1>8. severity \in 1..3 /\ worse <= severity
  BY <1>6, <1>7
<1> HIDE DEF severity
<1>9. final = (IF trending THEN (IF severity - 1 >= 1 THEN severity - 1 ELSE 1) ELSE severity)
  BY <1>5, <1>8, OfTwo
<1>10. final \in 1..3 /\ (~trending => final = severity) /\ (severity = 3 => final >= 2)
  BY <1>8, <1>9
<1>11. volatility >= EXTREME \/ fear >= EXTREME => final >= 2
  BY <1>2, <1>6, <1>8, <1>10
<1>12. QED
  BY <1>6, <1>8, <1>10, <1>11 DEF severity, worse, m, n

LEMMA RegimeSafe == RegimeIInv => RegimeTypeOK /\ RegimeSound
<1> SUFFICES ASSUME RegimeIInv PROVE RegimeTypeOK /\ RegimeSound
  OBVIOUS
<1>1. assessment.regime \in {Regime[j] : j \in DOMAIN Regime}
  <2>1. ASSUME NEW why, assessment = Unavailable(why) PROVE assessment.regime \in {Regime[j] : j \in DOMAIN Regime}
    <3>1. assessment.regime = Regime[3]
      BY <2>1 DEF Unavailable, Regime
    <3>2. QED
      BY <3>1, SeverityOf
  <2>2. ASSUME NEW volatility \in Reading, NEW fear \in Reading, NEW jumped \in BOOLEAN, NEW trending \in BOOLEAN,
               assessment = Assessment(volatility, fear, jumped, trending)
        PROVE  assessment.regime \in {Regime[j] : j \in DOMAIN Regime}
    BY <2>2, CalculatedFrom, SeverityOf DEF Assessment
  <2>3. QED
    BY <2>1, <2>2, Zenon DEF RegimeIInv, ToldInv
<1>2. RegimeTypeOK
  BY <1>1 DEF RegimeIInv, RegimeTypes, RegimeTypeOK
<1>3. JudgedFresh
  BY DEF RegimeIInv, SettledInv, JudgedFresh, UpToDate
<1>4. BestTaken
  BY DEF RegimeIInv, BestInv, BestTaken
<1>5. ASSUME Judged
      PROVE  \E volatility, fear \in Reading, jumped, trending \in BOOLEAN :
                assessment = Assessment(volatility, fear, jumped, trending)
  <2>1. \A why : ~Unavailable(why).available
    BY DEF Unavailable
  <2>2. QED
    BY <1>5, <2>1, Zenon DEF RegimeIInv, ToldInv, Judged
<1>6. FilledAtTheEnd
  <2>1. Judged => assessment.filled = filled
    BY <1>5 DEF Assessment
  <2>2. QED
    BY <2>1 DEF RegimeIInv, FilledInv, FilledAtTheEnd
<1>7. ReliefBounded
  <2> SUFFICES ASSUME Judged
               PROVE  /\ assessment.volatility >= EXTREME \/ assessment.fear >= EXTREME
                             => assessment.regime # "NORMAL"
                      /\ assessment.regime = assessment.before =>
                             Severity(assessment.regime) >= Max({Classified(assessment.volatility),
                                                                 Classified(assessment.fear)})
    BY DEF ReliefBounded
  <2>1. PICK volatility \in Reading, fear \in Reading, jumped \in BOOLEAN, trending \in BOOLEAN :
                assessment = Assessment(volatility, fear, jumped, trending)
    BY <1>5
  <2> DEFINE severity == Calculated(volatility, fear, jumped)
             final == Relieved(severity, trending)
             worse == Max({Classified(volatility), Classified(fear)})
  <2>2. /\ severity \in 1..3 /\ final \in 1..3 /\ worse \in 1..3 /\ worse <= severity
        /\ volatility >= EXTREME \/ fear >= EXTREME => final >= 2
        /\ ~trending => final = severity
    BY CalculatedFrom
  <2>3. /\ assessment.volatility = volatility /\ assessment.fear = fear
        /\ assessment.regime = Regime[final] /\ assessment.before = Regime[severity]
    BY <2>1 DEF Assessment
  <2> HIDE DEF severity, final
  <2>4. Severity(Regime[final]) = final /\ Severity(Regime[severity]) = severity /\ (Regime[final] = "NORMAL" <=> final = 1)
    BY <2>2, SeverityOf
  <2>5. assessment.volatility >= EXTREME \/ assessment.fear >= EXTREME => assessment.regime # "NORMAL"
    BY <2>2, <2>3, <2>4
  <2>6. assessment.regime = assessment.before => Severity(assessment.regime) >= worse
    BY <2>2, <2>3, <2>4
  <2>7. QED
    BY <2>3, <2>5, <2>6
<1>8. QED
  BY <1>2, <1>3, <1>4, <1>6, <1>7 DEF RegimeSound

\* Whatever the answers about the Nikkei and the VIX are and however many: what is judged ends
\* with the session before, minutes fill only its end, the most complete fresh answer is taken,
\* and a trend relieves one level, whatever is missing of the history.
THEOREM AlwaysRegimeSound == RegimeSpec => [](RegimeTypeOK /\ RegimeSound)
BY RegimeInitially, RegimeInductive, RegimeSafe, PTL DEF RegimeSpec
-----------------------------------------------------------------------------
(* What the loop decides about a symbol: the inductive invariant, in named parts *)

DecisionTypes ==
    /\ regime \in Assessed
    /\ part \in {"session", "closing", "stopping", "closed", "over"}
    /\ lots \in [Stock -> Nat] /\ cost \in [Stock -> Nat]
    /\ highs \in [Stock -> Nat] /\ peak \in [Stock -> Nat]
    /\ funds \in Nat
    /\ boughtToday \subseteq Stock /\ soldToday \subseteq Stock /\ lastValid \subseteq Stock
    /\ unheld \subseteq Stock /\ unresolved \subseteq Stock

\* What is held has a cost, and its highest price is the one remembered or, before there is one,
\* the cost; of what is not held nothing is remembered.
LotInv(s) ==
    /\ lots[s] > 0 => cost[s] > 0
    /\ lots[s] = 0 => cost[s] = 0 /\ highs[s] = 0
    /\ peak[s] = (IF highs[s] = 0 THEN cost[s] ELSE highs[s])

\* At the end of the day every lot has a price.
ClosingInv ==
    /\ part = "closing" => unresolved = {}
    /\ part = "closed" => \A s \in Stock : lots[s] = 0

DecisionIInv == DecisionTypes /\ (\A s \in Stock : LotInv(s)) /\ ClosingInv

LEMMA DecisionConstants ==
    /\ IsFiniteSet(Stock) /\ Quote \subseteq Nat \ {0}
    /\ LOCK_TRIGGER \in Nat /\ Funds \in Nat /\ Limit \in Nat /\ Slots \in Nat \ {0}
    /\ \A level \in Assessed : StopMultiplier[level] \in Nat \ {0} /\ LockMultiplier[level] \in Nat \ {0}
BY SymbolDecisionAssumption

LEMMA Division ==
    ASSUME NEW a \in Nat, NEW b \in Nat \ {0}
    PROVE  /\ a \div b \in Nat /\ (a \div b) * b <= a /\ a \div b <= a
           /\ a >= b => a \div b >= 1
<1> DEFINE q == a \div b
           r == a % b
<1>1. q \in Int /\ r \in 0..b - 1 /\ a = b * q + r
  OBVIOUS
<1> HIDE DEF q, r
<1>2. b * q <= a /\ a < b * q + b
  BY <1>1
<1>3. q \in Nat
  <2> SUFFICES ASSUME q <= -1 PROVE FALSE
    BY <1>1
  <2>1. b * q <= b * (-1)
    BY <1>1
  <2>2. b * (-1) = -b
    OBVIOUS
  <2>3. b * q \in Int
    BY <1>1
  <2>4. QED
    BY <1>2, <2>1, <2>2, <2>3
<1>4. q <= b * q
  BY <1>3
<1>5. a >= b => q >= 1
  <2> SUFFICES ASSUME a >= b, q = 0 PROVE FALSE
    BY <1>3
  <2>1. b * q = 0
    OBVIOUS
  <2>2. QED
    BY <1>2, <2>1
<1>6. q * b = b * q
  BY <1>1
<1>7. QED
  BY <1>2, <1>3, <1>4, <1>5, <1>6 DEF q

LEMMA InputFacts ==
    ASSUME NEW in \in Input
    PROVE  /\ in.price \in Nat /\ in.price >= 1 /\ in.price \in Quote
           /\ in.level \in Assessed \cup {"unknown"} /\ in.gate \in Gate
<1>1. in.price \in Quote /\ in.level \in Assessed \cup {"unknown"} /\ in.gate \in Gate
  <2>1. in \in [price : Quote, rsi : Rsi, level : Assessed \cup {"unknown"}, gate : Gate]
    BY DEF Input
  <2>2. QED
    BY <2>1
<1>2. \A p \in Quote : p \in Nat /\ p >= 1
  BY DecisionConstants
<1>3. QED
  BY <1>1, <1>2

\* What is bought is paid for by the share of the cash and within the limit of an order.
LEMMA QuantityFits ==
    ASSUME funds \in Nat, lots \in [Stock -> Nat], NEW in \in Input
    PROVE  /\ Quantity(in) \in Nat
           /\ in.price * Quantity(in) <= funds /\ in.price * Quantity(in) <= Limit
           /\ in.level = "DANGER" => Quantity(in) = 0
<1> DEFINE price == in.price
           q == BuyQuantity(in.price)
<1>1. price \in Nat \ {0}
  BY InputFacts
<1>2. FreeSlots \in Nat \ {0}
  <2>1. Positions \in SUBSET Stock
    BY DEF Positions
  <2>2. Cardinality(Positions) \in Nat
    BY <2>1, DecisionConstants, FS_Subset, FS_CardinalityType
  <2>3. QED
    BY <2>2, DecisionConstants DEF FreeSlots, Greater
<1>3. Budget \in Nat /\ Budget <= funds /\ Budget <= Limit
  <2>1. funds \div FreeSlots \in Nat /\ funds \div FreeSlots <= funds
    BY <1>2, Division
  <2>2. QED
    BY <2>1, DecisionConstants DEF Budget, Lesser
<1>4. q \in Nat /\ q * price <= Budget
  BY <1>1, <1>3, Division DEF BuyQuantity
<1> HIDE DEF price, q
<1>5. q \div 2 \in Nat /\ q \div 2 <= q
  BY <1>4, Division
<1>6. Adjusted(q, in.level) \in Nat /\ Adjusted(q, in.level) <= q
      /\ (in.level = "DANGER" => Adjusted(q, in.level) = 0)
  BY <1>4, <1>5, InputFacts DEF Adjusted, Greater, Assessed
<1>7. \A n \in Nat : n <= q => price * n <= q * price
  BY <1>1, <1>4
<1>8. price * Adjusted(q, in.level) <= q * price
  BY <1>6, <1>7
<1>9. price * Adjusted(q, in.level) \in Nat /\ q * price \in Nat
  BY <1>1, <1>4, <1>6
<1>10. price * Adjusted(q, in.level) <= funds /\ price * Adjusted(q, in.level) <= Limit
  BY <1>3, <1>4, <1>8, <1>9, DecisionConstants
<1>11. QED
  BY <1>6, <1>10 DEF Quantity, price, q

LEMMA Outcomes ==
    ASSUME NEW s \in Stock, NEW in \in Input
    PROVE  /\ Outcome(s, in) = "sold" => Signal(s, in) = "SELL" /\ Held(s) /\ s \notin soldToday
           /\ Outcome(s, in) = "bought" =>
                  /\ Signal(s, in) = "BUY" /\ Quantity(in) # 0
                  /\ ~(in.price * Quantity(in) > funds) /\ regime # "DANGER" /\ ~Full(s)
           /\ Signal(s, in) \in {"SELL", "BUY", "none"}
<1>1. Signal(s, in) \in {"SELL", "BUY", "none"}
  BY DEF Signal
<1>2. Outcome(s, in) = "sold" => Signal(s, in) = "SELL" /\ Held(s) /\ s \notin soldToday
  BY <1>1 DEF Outcome, Sale, Purchase
<1>3. ASSUME Outcome(s, in) = "bought" PROVE Signal(s, in) = "BUY" /\ Purchase(s, in) = "bought"
  BY <1>1, <1>3 DEF Outcome, Sale
<1>4. ASSUME Purchase(s, in) = "bought"
      PROVE  /\ Quantity(in) # 0
             /\ ~(in.price * Quantity(in) > funds) /\ regime # "DANGER" /\ ~Full(s)
  BY <1>4 DEF Purchase
<1>5. QED
  BY <1>1, <1>2, <1>3, <1>4

LEMMA DecisionParts ==
    ASSUME DecisionIInv
    PROVE  /\ regime \in Assessed /\ part \in {"session", "closing", "stopping", "closed", "over"}
           /\ lots \in [Stock -> Nat] /\ cost \in [Stock -> Nat]
           /\ highs \in [Stock -> Nat] /\ peak \in [Stock -> Nat] /\ funds \in Nat
           /\ boughtToday \subseteq Stock /\ soldToday \subseteq Stock /\ lastValid \subseteq Stock
           /\ unheld \subseteq Stock /\ unresolved \subseteq Stock
           /\ \A s \in Stock : LotInv(s)
           /\ part = "closing" => unresolved = {}
           /\ part = "closed" => \A s \in Stock : lots[s] = 0
BY DEF DecisionIInv, DecisionTypes, ClosingInv

LEMMA DecisionInitially == DecisionInit => DecisionIInv
<1> SUFFICES ASSUME DecisionInit PROVE DecisionIInv
  OBVIOUS
<1>1. PICK overnight \in SUBSET Stock, price \in Quote :
          /\ lots = [s \in Stock |-> IF s \in overnight THEN 1 ELSE 0]
          /\ cost = [s \in Stock |-> IF s \in overnight THEN price ELSE 0]
  BY DEF DecisionInit
<1>2. price \in Nat /\ price > 0
  BY DecisionConstants
<1>3. lots \in [Stock -> Nat] /\ cost \in [Stock -> Nat] /\ peak = cost /\ highs = [s \in Stock |-> 0]
  BY <1>1, <1>2 DEF DecisionInit
<1>4. DecisionTypes
  BY <1>3, DecisionConstants DEF DecisionInit, DecisionTypes
<1>5. \A s \in Stock : LotInv(s)
  BY <1>1, <1>2, <1>3 DEF LotInv
<1>6. QED
  BY <1>4, <1>5 DEF DecisionIInv, ClosingInv, DecisionInit

\* What is sold is nowhere remembered.
LEMMA SellKeeps ==
    ASSUME DecisionIInv, NEW s \in Stock, NEW price \in Quote, Sell(s, price)
    PROVE  /\ lots' \in [Stock -> Nat] /\ cost' \in [Stock -> Nat]
           /\ highs' \in [Stock -> Nat] /\ peak' \in [Stock -> Nat] /\ funds' \in Nat
           /\ boughtToday' \subseteq Stock /\ soldToday' \subseteq Stock
           /\ \A t \in Stock : LotInv(t)'
<1>1. lots' \in [Stock -> Nat] /\ cost' \in [Stock -> Nat] /\ highs' \in [Stock -> Nat] /\ peak' \in [Stock -> Nat]
  BY DecisionParts DEF Sell
<1>2. lots'[s] = 0 /\ cost'[s] = 0 /\ highs'[s] = 0 /\ peak'[s] = 0
  BY DecisionParts DEF Sell
<1>3. \A t \in Stock \ {s} : lots'[t] = lots[t] /\ cost'[t] = cost[t] /\ highs'[t] = highs[t] /\ peak'[t] = peak[t]
  BY DecisionParts DEF Sell
<1>4. funds' \in Nat
  <2>1. lots[s] \in Nat /\ price \in Nat /\ funds' = funds + lots[s] * price
    BY DecisionParts, DecisionConstants DEF Sell
  <2>2. lots[s] * price \in Nat
    BY <2>1
  <2>3. QED
    BY <2>1, <2>2, DecisionParts
<1>5. boughtToday' \subseteq Stock /\ soldToday' \subseteq Stock
  BY DecisionParts DEF Sell
<1>6. \A t \in Stock : LotInv(t)'
  BY <1>2, <1>3, DecisionParts DEF LotInv
<1>7. QED
  BY <1>1, <1>4, <1>5, <1>6

LEMMA Averaged ==
    ASSUME NEW c \in Nat, NEW m \in Nat, NEW p \in Nat \ {0}, NEW n \in Nat \ {0}, m > 0 => c > 0
    PROVE  (m * c + p * n) \div (m + n) \in Nat \ {0}
<1>1. m * c \in Nat /\ p * n \in Nat /\ m + n \in Nat \ {0}
  OBVIOUS
<1>2. m * c >= m
  <2>1. CASE m = 0
    BY <2>1
  <2>2. CASE m > 0
    BY <2>2
  <2>3. QED
    BY <2>1, <2>2
<1>3. p * n >= n
  OBVIOUS
<1> DEFINE a == m * c + p * n
           b == m + n
<1>4. a \in Nat /\ b \in Nat \ {0} /\ a >= b
  BY <1>1, <1>2, <1>3
<1> HIDE DEF a, b
<1>5. a \div b \in Nat /\ a \div b >= 1
  BY <1>4, Division
<1>6. QED
  BY <1>5 DEF a, b

\* What is bought has a cost, and the price of the purchase is its highest.
LEMMA BuyKeeps ==
    ASSUME DecisionIInv, NEW s \in Stock, NEW price \in Quote, NEW quantity \in Nat \ {0},
           price * quantity <= funds, Buy(s, price, quantity)
    PROVE  /\ lots' \in [Stock -> Nat] /\ cost' \in [Stock -> Nat]
           /\ highs' \in [Stock -> Nat] /\ peak' \in [Stock -> Nat] /\ funds' \in Nat
           /\ boughtToday' \subseteq Stock /\ soldToday' \subseteq Stock
           /\ \A t \in Stock : LotInv(t)'
<1> DEFINE mean == (lots[s] * cost[s] + price * quantity) \div (lots[s] + quantity)
<1>1. price \in Nat \ {0} /\ lots[s] \in Nat /\ cost[s] \in Nat /\ (lots[s] > 0 => cost[s] > 0)
  BY DecisionParts, DecisionConstants DEF LotInv
<1>2. mean \in Nat \ {0}
  BY <1>1, Averaged
<1>3. /\ lots' = [lots EXCEPT ![s] = lots[s] + quantity] /\ cost' = [cost EXCEPT ![s] = mean]
      /\ highs' = [highs EXCEPT ![s] = price] /\ peak' = [peak EXCEPT ![s] = price]
      /\ funds' = funds - price * quantity
  BY DEF Buy
<1> HIDE DEF mean
<1>4. lots' \in [Stock -> Nat] /\ cost' \in [Stock -> Nat] /\ highs' \in [Stock -> Nat] /\ peak' \in [Stock -> Nat]
  BY <1>1, <1>2, <1>3, DecisionParts
<1>5. lots'[s] = lots[s] + quantity /\ cost'[s] = mean /\ highs'[s] = price /\ peak'[s] = price
  BY <1>3, DecisionParts
<1>6. \A t \in Stock \ {s} : lots'[t] = lots[t] /\ cost'[t] = cost[t] /\ highs'[t] = highs[t] /\ peak'[t] = peak[t]
  BY <1>3, DecisionParts
<1>7. LotInv(s)'
  BY <1>1, <1>2, <1>5 DEF LotInv
<1>8. \A t \in Stock \ {s} : LotInv(t)'
  BY <1>6, DecisionParts DEF LotInv
<1>9. funds' \in Nat
  <2>1. price * quantity \in Nat
    BY <1>1
  <2>2. QED
    BY <1>3, <2>1, DecisionParts
<1>10. boughtToday' \subseteq Stock /\ soldToday' \subseteq Stock
  BY DecisionParts DEF Buy
<1>11. QED
  BY <1>4, <1>7, <1>8, <1>9, <1>10

\* The highest price of what is held, taken from the cost before one is remembered.
LEMMA HighIsPeak ==
    ASSUME DecisionIInv, NEW s \in Stock, NEW in \in Input
    PROVE  High(s, in) = Greater(peak[s], in.price) /\ High(s, in) \in Nat /\ High(s, in) > 0
<1>1. peak[s] = (IF highs[s] = 0 THEN cost[s] ELSE highs[s]) /\ peak[s] \in Nat
  BY DecisionParts DEF LotInv
<1>2. in.price \in Nat /\ in.price >= 1
  BY InputFacts
<1>3. High(s, in) = Greater(peak[s], in.price)
  BY <1>1 DEF High
<1>4. QED
  BY <1>1, <1>2, <1>3 DEF Greater

LEMMA FollowKeeps ==
    ASSUME DecisionIInv, NEW s \in Stock, NEW in \in Input, Follow(s, in)
    PROVE  /\ lots' \in [Stock -> Nat] /\ cost' \in [Stock -> Nat]
           /\ highs' \in [Stock -> Nat] /\ peak' \in [Stock -> Nat] /\ funds' \in Nat
           /\ boughtToday' \subseteq Stock /\ soldToday' \subseteq Stock
           /\ \A t \in Stock : LotInv(t)'
<1>1. UNCHANGED <<lots, cost, funds, boughtToday, soldToday>>
  BY DEF Follow
<1>2. CASE ~Watched(s, in)
  BY <1>1, <1>2, DecisionParts DEF Follow, LotInv
<1>3. CASE Watched(s, in)
  <2>1. /\ highs' = [highs EXCEPT ![s] = High(s, in)] /\ lots[s] > 0
        /\ peak' = [peak EXCEPT ![s] = High(s, in)]
    BY <1>3, HighIsPeak DEF Follow, Watched, Held
  <2>2. High(s, in) \in Nat /\ High(s, in) > 0
    BY HighIsPeak
  <2>3. highs' \in [Stock -> Nat] /\ peak' \in [Stock -> Nat] /\ highs'[s] = High(s, in) /\ peak'[s] = High(s, in)
        /\ \A t \in Stock \ {s} : highs'[t] = highs[t] /\ peak'[t] = peak[t]
    BY <2>1, <2>2, DecisionParts
  <2>4. LotInv(s)'
    BY <1>1, <2>1, <2>2, <2>3, DecisionParts DEF LotInv
  <2>5. \A t \in Stock \ {s} : LotInv(t)'
    BY <1>1, <2>3, DecisionParts DEF LotInv
  <2>6. QED
    BY <1>1, <2>3, <2>4, <2>5, DecisionParts
<1>4. QED
  BY <1>2, <1>3

LEMMA JudgeKeeps ==
    ASSUME DecisionIInv, NEW s \in Stock, NEW in \in Input, Judge(s, in)
    PROVE  DecisionIInv'
<1>1. /\ part = "session" /\ lastValid' = lastValid \cup {s} /\ ObserveMissing(s, in)
      /\ UNCHANGED <<regime, unresolved>>
      /\ part' = (IF Outcome(s, in) = "killed" THEN "over" ELSE part)
  BY DEF Judge
<1>2. /\ lots' \in [Stock -> Nat] /\ cost' \in [Stock -> Nat]
      /\ highs' \in [Stock -> Nat] /\ peak' \in [Stock -> Nat] /\ funds' \in Nat
      /\ boughtToday' \subseteq Stock /\ soldToday' \subseteq Stock
      /\ \A t \in Stock : LotInv(t)'
  <2>1. CASE Outcome(s, in) = "sold"
    <3>1. Sell(s, in.price)
      BY <2>1 DEF Judge
    <3>2. QED
      BY <3>1, InputFacts, SellKeeps
  <2>2. CASE Outcome(s, in) = "bought"
    <3>1. Buy(s, in.price, Quantity(in))
      BY <2>2 DEF Judge
    <3>2. Quantity(in) \in Nat \ {0} /\ in.price * Quantity(in) <= funds
      BY <2>2, Outcomes, QuantityFits, DecisionParts
    <3>3. QED
      BY <3>1, <3>2, InputFacts, BuyKeeps
  <2>3. CASE Outcome(s, in) # "sold" /\ Outcome(s, in) # "bought"
    <3>1. Follow(s, in)
      BY <2>3 DEF Judge
    <3>2. QED
      BY <3>1, FollowKeeps
  <2>4. QED
    BY <2>1, <2>2, <2>3
<1>3. unheld' \subseteq Stock /\ lastValid' \subseteq Stock
  BY <1>1, DecisionParts DEF ObserveMissing
<1>4. part' \in {"session", "over"} /\ regime' = regime /\ unresolved' = unresolved
  BY <1>1
<1>5. QED
  BY <1>2, <1>3, <1>4, DecisionParts DEF DecisionIInv, DecisionTypes, ClosingInv

LEMMA RestartKeeps == DecisionIInv /\ Restart => DecisionIInv'
<1> SUFFICES ASSUME DecisionIInv, Restart PROVE DecisionIInv'
  OBVIOUS
<1>1. /\ part' = "session" /\ regime' \in Assessed /\ highs' = [s \in Stock |-> 0] /\ peak' = cost
      /\ lastValid' = {} /\ unheld' = {} /\ unresolved' = {}
      /\ UNCHANGED <<lots, cost, funds, boughtToday, soldToday>>
  BY DEF Restart
<1>2. \A s \in Stock : LotInv(s)'
  BY <1>1, DecisionParts DEF LotInv
<1>3. QED
  BY <1>1, <1>2, DecisionParts DEF DecisionIInv, DecisionTypes, ClosingInv

LEMMA BeginLiquidationKeeps == DecisionIInv /\ BeginLiquidation => DecisionIInv'
<1> SUFFICES ASSUME DecisionIInv, BeginLiquidation PROVE DecisionIInv'
  OBVIOUS
<1>1. /\ part' \in {"closing", "stopping"} /\ unresolved' = {}
      /\ UNCHANGED <<regime, lots, cost, funds, highs, boughtToday, soldToday, lastValid, unheld, peak>>
  BY DEF BeginLiquidation
<1>2. \A s \in Stock : LotInv(s)'
  BY <1>1, DecisionParts DEF LotInv
<1>3. QED
  BY <1>1, <1>2, DecisionParts DEF DecisionIInv, DecisionTypes, ClosingInv

LEMMA SellLotKeeps ==
    ASSUME DecisionIInv, NEW s \in Stock, SellLot(s)
    PROVE  DecisionIInv'
<1>1. PICK price \in Quote : Sell(s, price) /\ (lastValid' = lastValid \/ lastValid' = lastValid \cup {s})
  BY DEF SellLot
<1>2. part \in {"closing", "stopping"} /\ UNCHANGED <<regime, part, unheld, unresolved>>
  BY DEF SellLot
<1>3. /\ lots' \in [Stock -> Nat] /\ cost' \in [Stock -> Nat]
      /\ highs' \in [Stock -> Nat] /\ peak' \in [Stock -> Nat] /\ funds' \in Nat
      /\ boughtToday' \subseteq Stock /\ soldToday' \subseteq Stock
      /\ \A t \in Stock : LotInv(t)'
  BY <1>1, SellKeeps
<1>4. lastValid' \subseteq Stock
  BY <1>1, DecisionParts
<1>5. QED
  BY <1>2, <1>3, <1>4, DecisionParts DEF DecisionIInv, DecisionTypes, ClosingInv

\* At the end of the day no lot is left: it has a cost at least.
LEMMA LeaveLotKeeps ==
    ASSUME DecisionIInv, NEW s \in Stock, LeaveLot(s)
    PROVE  DecisionIInv'
<1>1. /\ part' = part /\ part \in {"closing", "stopping"} /\ unresolved' = unresolved \cup {s}
      /\ UNCHANGED <<regime, lots, cost, funds, highs, boughtToday, soldToday, lastValid, unheld, peak>>
  BY DEF LeaveLot
<1>2. part = "stopping"
  <2>1. lots[s] > 0 => cost[s] > 0
    BY DecisionParts DEF LotInv
  <2>2. lots[s] > 0 /\ (part = "stopping" \/ ~(cost[s] > 0))
    BY DEF LeaveLot, Held, PriceKnown
  <2>3. QED
    BY <2>1, <2>2
<1>3. \A t \in Stock : LotInv(t)'
  BY <1>1, DecisionParts DEF LotInv
<1>4. QED
  BY <1>1, <1>2, <1>3, DecisionParts DEF DecisionIInv, DecisionTypes, ClosingInv

LEMMA FinishLiquidationKeeps == DecisionIInv /\ FinishLiquidation => DecisionIInv'
<1> SUFFICES ASSUME DecisionIInv, FinishLiquidation PROVE DecisionIInv'
  OBVIOUS
<1>1. /\ part \in {"closing", "stopping"} /\ part' = (IF part = "closing" THEN "closed" ELSE "over")
      /\ UNCHANGED <<regime, lots, cost, funds, highs, boughtToday, soldToday, lastValid, unheld,
                     unresolved, peak>>
  BY DEF FinishLiquidation
<1>2. part' = "closed" => \A s \in Stock : lots'[s] = 0
  <2> SUFFICES ASSUME part' = "closed", NEW s \in Stock PROVE lots'[s] = 0
    OBVIOUS
  <2>1. unresolved = {}
    BY <1>1, DecisionParts
  <2>2. s \notin Positions
    BY <2>1 DEF FinishLiquidation
  <2>3. lots[s] \in Nat /\ ~(lots[s] > 0)
    BY <2>2, DecisionParts DEF Positions, Held
  <2>4. QED
    BY <1>1, <2>3
<1>3. \A t \in Stock : LotInv(t)'
  BY <1>1, DecisionParts DEF LotInv
<1>4. part' \in {"closed", "over"}
  BY <1>1
<1>5. QED
  BY <1>1, <1>2, <1>3, <1>4, DecisionParts DEF DecisionIInv, DecisionTypes, ClosingInv

LEMMA DecisionInductive == DecisionIInv /\ [DecisionNext]_decisionVars => DecisionIInv'
<1> SUFFICES ASSUME DecisionIInv, [DecisionNext]_decisionVars PROVE DecisionIInv'
  OBVIOUS
<1>1. ASSUME NEW s \in Stock, NEW in \in Input, Judge(s, in) PROVE DecisionIInv'
  BY <1>1, JudgeKeeps
<1>2. ASSUME NEW s \in Stock, SellLot(s) \/ LeaveLot(s) PROVE DecisionIInv'
  BY <1>2, SellLotKeeps, LeaveLotKeeps
<1>3. ASSUME UNCHANGED decisionVars PROVE DecisionIInv'
  <2>1. \A t \in Stock : LotInv(t)'
    BY <1>3, DecisionParts DEF decisionVars, LotInv
  <2>2. QED
    BY <1>3, <2>1, DecisionParts DEF decisionVars, DecisionIInv, DecisionTypes, ClosingInv
<1>4. QED
  BY <1>1, <1>2, <1>3, RestartKeeps, BeginLiquidationKeeps, FinishLiquidationKeeps DEF DecisionNext

LEMMA StopsSound ==
    ASSUME DecisionIInv, NEW s \in Stock, NEW in \in Input
    PROVE  StopsCarriedOut(s, in, Outcome(s, in))
<1> DEFINE far == Greater(StopMultiplier[in.level], LockMultiplier[in.level])
           near == Lesser(StopMultiplier[in.level], LockMultiplier[in.level])
           best == Greater(peak[s], in.price)
           width == Multiplier(s, in)
<1> SUFFICES ASSUME Held(s), in.level # "unknown"
             PROVE  /\ in.price + far <= best /\ s \notin soldToday /\ in.gate # "apiUnknown"
                          => Outcome(s, in) = "sold"
                    /\ Outcome(s, in) = "sold" /\ ~RegularExit(in) => in.price + near <= best
  BY DEF StopsCarriedOut
<1>1. in.level \in Assessed /\ in.price \in Nat
  BY InputFacts
<1>2. StopMultiplier[in.level] \in Nat /\ LockMultiplier[in.level] \in Nat
  BY <1>1, DecisionConstants
<1>3. far \in Nat /\ near \in Nat /\ width \in Nat /\ near <= width /\ width <= far
  BY <1>2 DEF Greater, Lesser, Multiplier
<1>4. High(s, in) = best /\ best \in Nat
  BY HighIsPeak
<1>5. StopDue(s, in) <=> ~RegularExit(in) /\ in.price <= best - width
  BY <1>4 DEF StopDue, Watched
<1> HIDE DEF far, near, width, best
<1>6. ASSUME in.price + far <= best, s \notin soldToday, in.gate # "apiUnknown"
      PROVE  Outcome(s, in) = "sold"
  <2>1. in.price <= best - width
    BY <1>1, <1>3, <1>4, <1>6
  <2>2. Signal(s, in) = "SELL"
    BY <1>5, <2>1 DEF Signal
  <2>3. QED
    BY <1>6, <2>2 DEF Outcome, Sale
<1>7. ASSUME Outcome(s, in) = "sold", ~RegularExit(in)
      PROVE  in.price + near <= best
  <2>1. Signal(s, in) = "SELL"
    BY <1>7, Outcomes
  <2>2. StopDue(s, in)
    BY <1>7, <2>1 DEF Signal
  <2>3. in.price <= best - width
    BY <1>5, <2>2
  <2>4. QED
    BY <1>1, <1>3, <1>4, <2>3
<1>8. QED
  BY <1>6, <1>7

LEMMA RefusalsSound ==
    ASSUME DecisionIInv, NEW s \in Stock, NEW in \in Input
    PROVE  RefusalsTold(s, in, Outcome(s, in))
<1> DEFINE outcome == Outcome(s, in)
           skips == Skips(s, in)
<1>1. Quantity(in) \in Nat /\ in.price * Quantity(in) <= funds /\ in.price * Quantity(in) <= Limit
      /\ (in.level = "DANGER" => Quantity(in) = 0)
  BY DecisionParts, QuantityFits
<1>2. in.price * Quantity(in) \in Nat /\ Limit \in Nat
  BY <1>1, InputFacts, DecisionConstants
<1>3. outcome # "amountLimit"
  <2>1. ~(in.price * Quantity(in) > Limit)
    BY <1>1, <1>2
  <2>2. Sale(s) # "amountLimit" /\ Purchase(s, in) # "amountLimit"
    BY <2>1 DEF Sale, Purchase
  <2>3. QED
    BY <2>2 DEF Outcome
<1>4. \/ outcome \in {"noSignal", "sold", "bought", "killed"}
      \/ Journaled(s, outcome)
      \/ s \in unheld
  BY DEF Outcome, Sale, Purchase, Journaled
<1>5. SkippedForAtr(s, in) => Signal(s, in) = "BUY" /\ Quantity(in) = 0
  BY <1>1 DEF SkippedForAtr
<1>6. SkippedForRegime(s, in) => Quantity(in) # 0 /\ outcome = "regimeDanger" /\ Signal(s, in) # "none"
  BY <1>1 DEF SkippedForRegime, Outcome
<1>7. SkippedForStrength(s, in) => Signal(s, in) = "none" /\ outcome = "noSignal"
  BY DEF SkippedForStrength, Outcome
<1>8. outcome = "bought" => Signal(s, in) = "BUY" /\ Quantity(in) # 0
  BY Outcomes
<1> HIDE DEF outcome
<1>9. outcome = "bought" => skips = {}
  BY <1>5, <1>6, <1>7, <1>8 DEF Skips
<1>10. Cardinality(skips) <= 1
  <2>1. skips = {} \/ \E event \in {"ATR_DANGER_SKIP", "MARKET_REGIME_DANGER_SKIP",
                                     "MARKET_REGIME_CAUTION_RSI_FILTER"} : skips = {event}
    BY <1>5, <1>6, <1>7 DEF Skips
  <2> HIDE DEF skips
  <2>2. skips = {} => Cardinality(skips) = 0
    BY FS_EmptySet, Zenon
  <2>3. ASSUME NEW event, skips = {event} PROVE Cardinality(skips) = 1
    BY <2>3, FS_Singleton, Zenon
  <2>4. Cardinality(skips) = 0 \/ Cardinality(skips) = 1
    BY <2>1, <2>2, <2>3
  <2>5. QED
    BY <2>4
<1>11. QED
  BY <1>1, <1>3, <1>4, <1>9, <1>10 DEF RefusalsTold, outcome

LEMMA DecisionSafe == DecisionIInv => DecisionTypeOK /\ DecisionSound
<1> SUFFICES ASSUME DecisionIInv PROVE DecisionTypeOK /\ DecisionSound
  OBVIOUS
<1>1. DecisionTypeOK
  BY DEF DecisionIInv, DecisionTypes, DecisionTypeOK
<1>2. HighsOfHeld
  BY DecisionParts DEF HighsOfHeld, Held, LotInv
<1>3. NothingLeft
  BY DecisionParts DEF NothingLeft, Positions, Held
<1>4. \A s \in Stock, in \in Input :
          StopsCarriedOut(s, in, Outcome(s, in)) /\ RefusalsTold(s, in, Outcome(s, in))
  BY StopsSound, RefusalsSound
<1>5. QED
  BY <1>1, <1>2, <1>3, <1>4 DEF DecisionSound

\* Whatever the prices, the strengths and the levels are and whenever the process restarts: a stop
\* that is due is carried out and none that is not, each refusal is told once, no stop follows an
\* earlier lot, an order is within the cash and the limit, and nothing is left at the end of the day.
THEOREM AlwaysDecidedSoundly == DecisionSpec => [](DecisionTypeOK /\ DecisionSound)
BY DecisionInitially, DecisionInductive, DecisionSafe, PTL DEF DecisionSpec

-----------------------------------------------------------------------------
(* Snapshots of a backtest *)

Mode == {"filtering", "minute", "fixed"}
Snapshots == 1..Len(snapshots)
Asked(t) == Range(Needs(t))
Obtained == Asked(test) \ Range(unread)

DayFiles == UNION {[S -> Nat] : S \in SUBSET FilteringDate}
InputValue == {<<>>} \cup {<<v>> : v \in Nat} \cup DayFiles
Inputs == [InputName -> InputValue]
RunTerms == [mode : Mode, fine : BOOLEAN, compared : BOOLEAN, of : Nat]
Used == Inputs \X Nat
Snapshot == [kept : Inputs, digest : Nat, damaged : BOOLEAN, terms : RunTerms,
             result : {<<>>} \cup Used]
RunResult == [snapshot : Nat, warned : BOOLEAN, shifted : BOOLEAN,
              used : {<<>>} \cup {<<v>> : v \in Nat} \cup Used]

SnapshotTypes ==
    /\ changesLeft \in 0..MaxChanges /\ testsLeft \in 0..MaxTests
    /\ published \in [FilteringDate -> Nat] /\ feed \in Nat /\ minuteBars \in Nat
    /\ snapshots \in Seq(Snapshot)
    /\ partial \in Inputs /\ loaded \in Inputs
    /\ testPhase \in {"idle", "read", "save", "seal", "simulate"}
    /\ test \in RunTerms /\ unread \in Seq(InputName) /\ inputs \in Inputs
    /\ testResult \in RunResult
    /\ test.of <= Len(snapshots) /\ testResult.snapshot <= Len(snapshots)

\* A live run saves; only before it is saved does it count as one that may become a snapshot.
PhaseInv ==
    /\ testPhase \in {"save", "seal"} => test.of = 0
    /\ testPhase \in {"read", "save", "seal"} /\ test.of = 0 => testResult.snapshot = 0
    /\ Len(snapshots) + testsLeft + (IF testPhase \in {"read", "save", "seal"} THEN 1 ELSE 0) <= MaxTests

\* What a run has obtained, and nothing else, is there.
ObtainedInv ==
    testPhase # "idle" =>
        /\ Range(unread) \subseteq Asked(test)
        /\ testPhase # "read" => unread = <<>>
        /\ \A n \in InputName \ Asked(test) : inputs[n] = <<>>
        /\ test.of = 0 => \A n \in Obtained \ {"days"} : inputs[n] # <<>>

\* The filtering files a live run has read are those that will be copied, unless it was noted.
FilesInv ==
    testPhase \in {"read", "save"} /\ test.of = 0 /\ ~testResult.shifted /\ inputs["days"] # <<>> =>
        inputs["days"] = FilesNow

\* The temporary directory holds what the run obtained and nothing of an earlier one.
DirectoryInv ==
    testPhase = "seal" =>
        /\ \A n \in InputName \ {"days"} : partial[n] = inputs[n]
        /\ inputs["days"] = <<>> => partial["days"] = <<>>
        /\ ~testResult.shifted => partial["days"] = inputs["days"]
        /\ \E d \in Nat : /\ testResult.used = <<d>>
                          /\ ~testResult.shifted => d = Digest(test, inputs["days"])

\* A run that has become a snapshot is about to tell it its result.
SealedInv ==
    testPhase = "simulate" /\ test.of = 0 /\ testResult.snapshot # 0 =>
        LET s == snapshots[testResult.snapshot]
        IN  /\ s.terms = [test EXCEPT !.of = 0]
            /\ ~testResult.shifted => /\ s.digest = Digest(test, inputs["days"])
                                      /\ ~s.damaged => s.kept = inputs

\* A snapshot that is not damaged holds what the run that kept it has used.
KeptOf(s) ==
    s.result # <<>> =>
        /\ s.result[2] = s.digest
        /\ ~s.damaged => s.kept = s.result[1]
        /\ \A n \in InputName \ Asked(s.terms) : s.result[1][n] = <<>>

WholeOf(s) ==
    /\ \A n \in Asked(s.terms) \ {"days"} : s.kept[n] # <<>>
    /\ s.terms.mode # "filtering" => s.kept["days"] = <<>>
    /\ s.kept["regime"] # <<>> => s.terms.compared

KeptSound == \A k \in Snapshots : KeptOf(snapshots[k]) /\ WholeOf(snapshots[k])

\* A run of a snapshot reads what was kept before the damage, or it was noted.
ReplayOf(s) ==
    /\ test.mode = s.terms.mode /\ test.fine = s.terms.fine
    /\ s.terms.compared => test.compared
    /\ \A n \in Obtained \ {"days"} : inputs[n] = loaded[n]
    /\ s.result # <<>> =>
           /\ \A n \in InputName \ {"days"} : loaded[n] = s.result[1][n]
           /\ ~testResult.shifted =>
                 /\ testPhase = "read" => s.kept["days"] = s.result[1]["days"]
                 /\ "days" \in Obtained => inputs["days"] = s.result[1]["days"]
    /\ testPhase = "simulate" /\ ~testResult.warned /\ ~testResult.shifted =>
           Digest(test, inputs["days"]) = s.digest

ReplayInv == testPhase # "idle" /\ test.of # 0 => ReplayOf(snapshots[test.of])

SnapshotIInv ==
    /\ SnapshotTypes
    /\ PhaseInv /\ ObtainedInv /\ FilesInv /\ DirectoryInv /\ SealedInv /\ KeptSound /\ ReplayInv
    /\ SameInputs

LEMMA SnapshotParts ==
    ASSUME SnapshotIInv
    PROVE  /\ SnapshotTypes /\ PhaseInv /\ ObtainedInv /\ FilesInv /\ DirectoryInv /\ SealedInv
           /\ KeptSound /\ ReplayInv /\ SameInputs
BY DEF SnapshotIInv

LEMMA SnapshotFields ==
    ASSUME NEW s \in Snapshot
    PROVE  /\ s.kept \in Inputs /\ s.digest \in Nat /\ s.damaged \in BOOLEAN
           /\ s.terms \in RunTerms /\ s.result \in {<<>>} \cup Used
           /\ s = [kept |-> s.kept, digest |-> s.digest, damaged |-> s.damaged, terms |-> s.terms,
                   result |-> s.result]
BY DEF Snapshot

LEMMA SnapshotAt ==
    ASSUME snapshots \in Seq(Snapshot)
    PROVE  /\ Len(snapshots) \in Nat /\ DOMAIN snapshots = Snapshots
           /\ \A k \in Snapshots : snapshots[k] \in Snapshot
BY DEF Snapshots

LEMMA RunFields ==
    ASSUME NEW t \in RunTerms
    PROVE  /\ t.mode \in Mode /\ t.fine \in BOOLEAN /\ t.compared \in BOOLEAN /\ t.of \in Nat
           /\ t = [mode |-> t.mode, fine |-> t.fine, compared |-> t.compared, of |-> t.of]
BY DEF RunTerms

LEMMA ResultFields ==
    ASSUME NEW r \in RunResult
    PROVE  /\ r.snapshot \in Nat /\ r.warned \in BOOLEAN /\ r.shifted \in BOOLEAN
           /\ r.used \in {<<>>} \cup {<<v>> : v \in Nat} \cup Used
           /\ r = [snapshot |-> r.snapshot, warned |-> r.warned, shifted |-> r.shifted, used |-> r.used]
BY DEF RunResult

LEMMA NoInputType ==
    /\ NoInput \in Inputs /\ \A n \in InputName : NoInput[n] = <<>>
    /\ NoResult \in RunResult /\ Idle \in RunTerms
<1>1. NoInput \in Inputs /\ \A n \in InputName : NoInput[n] = <<>>
  BY DEF NoInput, Inputs, InputValue
<1>2. NoResult \in RunResult
  BY DEF NoResult, RunResult
<1>3. Idle \in RunTerms
  BY DEF Idle, RunTerms, Mode
<1>4. QED
  BY <1>1, <1>2, <1>3

RegimeOf(t) == IF t.compared THEN {"regime"} ELSE {}

LEMMA OfTwoNames ==
    ASSUME NEW a, NEW b
    PROVE  Range(<<a, b>>) = {a, b}
<1> DEFINE q == <<a, b>>
<1>1. DOMAIN q = {1, 2}
  <2>1. DOMAIN q = 1..2
    OBVIOUS
  <2>2. 1..2 = {1, 2}
    OBVIOUS
  <2>3. QED
    BY <2>1, <2>2, Zenon
<1>2. q[1] = a /\ q[2] = b
  OBVIOUS
<1> HIDE DEF q
<1>3. Range(q) = {a, b}
  BY <1>1, <1>2 DEF Range
<1>4. QED
  BY <1>3 DEF q

LEMMA OfOneName ==
    ASSUME NEW a
    PROVE  Range(<<a>>) = {a}
<1> DEFINE q == <<a>>
<1>1. DOMAIN q = {1}
  <2>1. DOMAIN q = 1..1
    OBVIOUS
  <2>2. 1..1 = {1}
    OBVIOUS
  <2>3. QED
    BY <2>1, <2>2, Zenon
<1>2. q[1] = a
  OBVIOUS
<1> HIDE DEF q
<1>3. Range(q) = {a}
  BY <1>1, <1>2 DEF Range
<1>4. QED
  BY <1>3 DEF q

LEMMA TwoJoined ==
    ASSUME NEW T, NEW p \in Seq(T), NEW q \in Seq(T), p # <<>>
    PROVE  p \o q \in Seq(T) /\ p \o q # <<>> /\ Range(p \o q) = Range(p) \cup Range(q)
<1>1. Len(p) \in Nat /\ Len(p) # 0 /\ Len(q) \in Nat
  OBVIOUS
<1>2. p \o q \in Seq(T) /\ Len(p \o q) = Len(p) + Len(q) /\ Range(p \o q) = Range(p) \cup Range(q)
  BY RangeOfJoined
<1>3. QED
  BY <1>1, <1>2

LEMMA AskedOf ==
    ASSUME NEW t \in RunTerms
    PROVE  /\ Needs(t) \in Seq(InputName) /\ Needs(t) # <<>>
           /\ t.mode = "filtering" => Asked(t) = {"days"} \cup {"history", "ohlc"} \cup RegimeOf(t)
           /\ t.mode = "minute" => Asked(t) = {"symbols", "closes"} \cup {"history", "ohlc"} \cup RegimeOf(t)
           /\ t.mode = "fixed" => Asked(t) = {"symbols", "closes"}
<1> DEFINE extra == IF t.compared THEN <<"regime">> ELSE <<>>
           dated == <<"history", "ohlc">> \o extra
<1>1. extra \in Seq(InputName) /\ Range(extra) = RegimeOf(t)
  <2>1. CASE t.compared
    <3>1. extra = <<"regime">> /\ <<"regime">> \in Seq(InputName)
      BY <2>1 DEF InputName
    <3>2. QED
      BY <2>1, <3>1, OfOneName DEF RegimeOf
  <2>2. CASE ~t.compared
    <3>1. extra = <<>> /\ <<>> \in Seq(InputName)
      BY <2>2
    <3>2. DOMAIN <<>> = {}
      OBVIOUS
    <3>3. Range(extra) = {}
      BY <3>1, <3>2 DEF Range
    <3>4. QED
      BY <2>2, <3>1, <3>3 DEF RegimeOf
  <2>3. QED
    BY <2>1, <2>2
<1>2. /\ <<"history", "ohlc">> \in Seq(InputName) /\ <<"history", "ohlc">> # <<>>
      /\ <<"days">> \in Seq(InputName) /\ <<"days">> # <<>>
      /\ <<"symbols", "closes">> \in Seq(InputName) /\ <<"symbols", "closes">> # <<>>
  BY DEF InputName
<1> HIDE DEF extra
<1> DEFINE pair == <<"history", "ohlc">>
           first == <<"days">>
           both == <<"symbols", "closes">>
<1>9. /\ Range(pair) = {"history", "ohlc"} /\ Range(first) = {"days"}
      /\ Range(both) = {"symbols", "closes"}
  BY OfTwoNames, OfOneName
<1>10. pair \in Seq(InputName) /\ pair # <<>> /\ first \in Seq(InputName) /\ first # <<>>
       /\ both \in Seq(InputName) /\ both # <<>>
  BY <1>2
<1>12. dated = pair \o extra
  OBVIOUS
<1> HIDE DEF pair, first, both, dated
<1>3. dated \in Seq(InputName) /\ Range(dated) = {"history", "ohlc"} \cup RegimeOf(t)
  <2>1. /\ pair \o extra \in Seq(InputName) /\ pair \o extra # <<>>
        /\ Range(pair \o extra) = Range(pair) \cup Range(extra)
    BY <1>1, <1>10, TwoJoined
  <2>2. QED
    BY <1>1, <1>9, <1>12, <2>1
<1>4. /\ t.mode = "filtering" => Needs(t) = <<"days">> \o dated
      /\ t.mode = "minute" => Needs(t) = <<"symbols", "closes">> \o dated
      /\ t.mode = "fixed" => Needs(t) = <<"symbols", "closes">>
  BY DEF Needs, extra, dated
<1>11. /\ t.mode = "filtering" => Needs(t) = first \o dated
       /\ t.mode = "minute" => Needs(t) = both \o dated
  BY <1>4 DEF first, both
<1>5. CASE t.mode = "filtering"
  <2>1. /\ Needs(t) \in Seq(InputName) /\ Needs(t) # <<>>
        /\ Range(Needs(t)) = {"days"} \cup Range(dated)
    <3>1. /\ first \o dated \in Seq(InputName) /\ first \o dated # <<>>
          /\ Range(first \o dated) = Range(first) \cup Range(dated)
      <4>1. dated \in Seq(InputName)
        BY <1>3
      <4>2. QED
        BY <4>1, <1>10, TwoJoined
    <3>2. QED
      BY <1>9, <1>11, <1>5, <3>1
  <2>2. QED
    BY <1>3, <1>5, <2>1 DEF Asked
<1>6. CASE t.mode = "minute"
  <2>1. /\ Needs(t) \in Seq(InputName) /\ Needs(t) # <<>>
        /\ Range(Needs(t)) = {"symbols", "closes"} \cup Range(dated)
    <3>1. /\ both \o dated \in Seq(InputName) /\ both \o dated # <<>>
          /\ Range(both \o dated) = Range(both) \cup Range(dated)
      <4>1. dated \in Seq(InputName)
        BY <1>3
      <4>2. QED
        BY <4>1, <1>10, TwoJoined
    <3>2. QED
      BY <1>9, <1>11, <1>6, <3>1
  <2>2. QED
    BY <1>3, <1>6, <2>1 DEF Asked
<1>7. CASE t.mode = "fixed"
  BY <1>2, <1>4, <1>7, OfTwoNames DEF Asked
<1>8. QED
  BY <1>5, <1>6, <1>7, RunFields DEF Mode

\* A run of a snapshot needs what the first run needed, and perhaps the market regime.
LEMMA AskedMore ==
    ASSUME NEW t \in RunTerms, NEW u \in RunTerms, t.mode = u.mode, u.compared => t.compared
    PROVE  /\ Asked(u) \subseteq Asked(t) /\ Asked(t) \subseteq Asked(u) \cup {"regime"}
           /\ Asked(t) \subseteq InputName
BY AskedOf, RunFields DEF InputName, Mode, RegimeOf

LEMMA AskedLive ==
    ASSUME NEW t \in RunTerms
    PROVE  /\ t.mode # "filtering" => "days" \notin Asked(t)
           /\ "regime" \in Asked(t) => t.compared
           /\ Asked([t EXCEPT !.of = 0]) = Asked(t) /\ [t EXCEPT !.of = 0] \in RunTerms
<1>1. [t EXCEPT !.of = 0] = [mode |-> t.mode, fine |-> t.fine, compared |-> t.compared, of |-> 0]
  BY RunFields
<1>2. [t EXCEPT !.of = 0] \in RunTerms
  BY <1>1, RunFields DEF RunTerms
<1>3. Needs([t EXCEPT !.of = 0]) = Needs(t)
  BY <1>1 DEF Needs
<1>4. QED
  BY <1>2, <1>3, AskedOf, RunFields DEF Asked, Mode, RegimeOf

LEMMA KeptStays == ASSUME KeptSound, UNCHANGED snapshots PROVE KeptSound'
BY DEF KeptSound, Snapshots

LEMMA SnapshotInitially == SnapshotInit => SnapshotIInv
<1> SUFFICES ASSUME SnapshotInit PROVE SnapshotIInv
  OBVIOUS
<1>1. /\ changesLeft = MaxChanges /\ testsLeft = MaxTests /\ snapshots = <<>> /\ Len(snapshots) = 0
      /\ published = [d \in FilteringDate |-> 1] /\ feed = 1 /\ minuteBars = 1
      /\ partial = NoInput /\ loaded = NoInput /\ testPhase = "idle" /\ test = Idle
      /\ unread = <<>> /\ inputs = NoInput /\ testResult = NoResult
  BY DEF SnapshotInit
<1>2. test.of = 0 /\ testResult.snapshot = 0
  BY <1>1 DEF Idle, NoResult
<1>3. SnapshotTypes
  BY <1>1, <1>2, NoInputType, SnapshotAssumption DEF SnapshotTypes
<1>4. PhaseInv /\ ObtainedInv /\ FilesInv /\ DirectoryInv /\ SealedInv /\ ReplayInv
  BY <1>1, SnapshotAssumption DEF PhaseInv, ObtainedInv, FilesInv, DirectoryInv, SealedInv, ReplayInv, ReplayOf
<1>5. KeptSound
  BY <1>1 DEF KeptSound, Snapshots
<1>6. SameInputs
  BY <1>2 DEF SameInputs, Repeated
<1>7. QED
  BY <1>3, <1>4, <1>5, <1>6 DEF SnapshotIInv

\* A run that ends by an error or a death leaves the snapshots as they are.
LEMMA TestEnds ==
    ASSUME SnapshotIInv, testPhase' = "idle", test' = Idle, unread' = <<>>, inputs' = NoInput,
           testResult' = NoResult,
           UNCHANGED <<changesLeft, testsLeft, sourceVars, snapshots, partial, loaded>>
    PROVE  SnapshotIInv'
<1>1. test'.of = 0 /\ testResult'.snapshot = 0
  BY DEF Idle, NoResult
<1>2. SnapshotTypes'
  BY <1>1, NoInputType, SnapshotParts DEF SnapshotTypes, sourceVars
<1>3. PhaseInv'
  <2>1. /\ Len(snapshots) \in Nat /\ testsLeft \in Nat /\ MaxTests \in Nat
        /\ Len(snapshots) + testsLeft + 0 <= MaxTests
    BY SnapshotParts, SnapshotAt, SnapshotAssumption DEF PhaseInv, SnapshotTypes
  <2>2. QED
    BY <1>1, <2>1 DEF PhaseInv
<1>4. ObtainedInv' /\ FilesInv' /\ DirectoryInv' /\ SealedInv' /\ ReplayInv'
  BY <1>1 DEF ObtainedInv, FilesInv, DirectoryInv, SealedInv, ReplayInv, ReplayOf
<1>5. KeptSound'
  BY KeptStays, SnapshotParts
<1>6. SameInputs'
  BY <1>1 DEF SameInputs, Repeated
<1>7. QED
  BY <1>2, <1>3, <1>4, <1>5, <1>6 DEF SnapshotIInv

\* A change of a source is noted, or is not of what the run has read of it.
LEMMA ShiftsKeeps ==
    ASSUME SnapshotIInv, NEW noted \in BOOLEAN, testResult.shifted => noted,
           testResult' = [testResult EXCEPT !.shifted = noted],
           changesLeft' \in 0..MaxChanges, published' \in [FilteringDate -> Nat], feed' \in Nat,
           minuteBars' \in Nat,
           UNCHANGED <<testsLeft, snapshots, partial, loaded, testPhase, test, unread, inputs>>,
           ~noted /\ testPhase \in {"read", "save"} /\ test.of = 0 /\ inputs["days"] # <<>> =>
               FilesNow' = FilesNow,
           ~noted /\ testPhase \in {"seal", "simulate"} =>
               Digest(test, inputs["days"])' = Digest(test, inputs["days"])
    PROVE  SnapshotIInv'
<1>1. /\ testResult' \in RunResult /\ testResult'.snapshot = testResult.snapshot
      /\ testResult'.warned = testResult.warned /\ testResult'.used = testResult.used
      /\ ~testResult'.shifted => ~noted /\ ~testResult.shifted
  <2>1. testResult' = [snapshot |-> testResult.snapshot, warned |-> testResult.warned,
                       shifted |-> noted, used |-> testResult.used]
    BY SnapshotParts, ResultFields DEF SnapshotTypes
  <2>2. QED
    BY <2>1, SnapshotParts, ResultFields DEF SnapshotTypes, RunResult
<1>2. SnapshotTypes'
  BY <1>1, SnapshotParts DEF SnapshotTypes
<1>3. PhaseInv'
  BY SnapshotParts DEF PhaseInv
<1>4. ObtainedInv'
  BY SnapshotParts DEF ObtainedInv, Obtained, Asked, Needs
<1>5. FilesInv'
  BY <1>1, SnapshotParts DEF FilesInv
<1>6. DirectoryInv'
  <2> SUFFICES ASSUME testPhase = "seal" PROVE DirectoryInv'
    BY DEF DirectoryInv
  <2>1. PICK d \in Nat : /\ testResult.used = <<d>>
                         /\ ~testResult.shifted => d = Digest(test, inputs["days"])
    BY SnapshotParts DEF DirectoryInv
  <2>2. ~testResult'.shifted => d = Digest(test, inputs["days"])'
    BY <1>1, <2>1
  <2>3. /\ \A n \in InputName \ {"days"} : partial'[n] = inputs'[n]
        /\ inputs'["days"] = <<>> => partial'["days"] = <<>>
        /\ ~testResult'.shifted => partial'["days"] = inputs'["days"]
    BY <1>1, SnapshotParts DEF DirectoryInv
  <2>4. QED
    BY <1>1, <2>1, <2>2, <2>3 DEF DirectoryInv
<1>7. SealedInv'
  BY <1>1, SnapshotParts DEF SealedInv
<1>8. KeptSound'
  BY KeptStays, SnapshotParts
<1>9. ReplayInv'
  BY <1>1, SnapshotParts DEF ReplayInv, ReplayOf, Obtained, Asked, Needs
<1>10. SameInputs'
  BY <1>1, SnapshotParts DEF SameInputs, Repeated
<1>11. QED
  BY <1>2, <1>3, <1>4, <1>5, <1>6, <1>7, <1>8, <1>9, <1>10 DEF SnapshotIInv

LEMMA SourceChangesKeeps == ASSUME SnapshotIInv, SourceChanges PROVE SnapshotIInv'
<1> DEFINE noticed == test.of = 0 /\ inputs["days"] # <<>> /\ testPhase \in {"read", "save"}
           measured == test.fine /\ testPhase \in {"seal", "simulate"}
<1>1. /\ changesLeft' \in 0..MaxChanges
      /\ UNCHANGED <<testsLeft, snapshots, partial, loaded, testPhase, test, unread, inputs>>
  BY SnapshotParts, SnapshotAssumption DEF SourceChanges, SnapshotTypes
<1>2. /\ published \in [FilteringDate -> Nat] /\ feed \in Nat /\ minuteBars \in Nat
      /\ testResult \in RunResult /\ testResult.shifted \in BOOLEAN
  BY SnapshotParts, ResultFields DEF SnapshotTypes
<1>3. CASE \E d \in FilteringDate, v \in {0, 2} :
              published' = [published EXCEPT ![d] = v] /\ Shifts("days") /\ UNCHANGED <<feed, minuteBars>>
  <2>1. published' \in [FilteringDate -> Nat] /\ UNCHANGED <<feed, minuteBars>>
    BY <1>2, <1>3
  <2>2. testResult' = [testResult EXCEPT !.shifted = testResult.shifted \/ noticed]
    BY <1>2, <1>3 DEF Shifts
  <2>3. Digest(test, inputs["days"])' = Digest(test, inputs["days"])
    BY <1>1, <2>1 DEF Digest
  <2>4. (testResult.shifted \/ noticed) \in BOOLEAN
    OBVIOUS
  <2>5. ~(testResult.shifted \/ noticed) /\ testPhase \in {"read", "save"} /\ test.of = 0 /\ inputs["days"] # <<>> =>
            FilesNow' = FilesNow
    OBVIOUS
  <2> HIDE DEF noticed
  <2>6. QED
    BY <1>1, <1>2, <2>1, <2>2, <2>3, <2>4, <2>5, ShiftsKeeps
<1>4. CASE feed' = feed + 1 /\ UNCHANGED <<published, minuteBars, testResult>>
  <2>1. testResult' = [testResult EXCEPT !.shifted = testResult.shifted]
    BY <1>2, <1>4, ResultFields
  <2>2. Digest(test, inputs["days"])' = Digest(test, inputs["days"]) /\ FilesNow' = FilesNow
    BY <1>1, <1>4 DEF Digest, FilesNow
  <2>3. published' \in [FilteringDate -> Nat] /\ feed' \in Nat /\ minuteBars' \in Nat
    BY <1>2, <1>4
  <2>4. QED
    BY <1>1, <1>2, <2>1, <2>2, <2>3, ShiftsKeeps
<1>5. CASE minuteBars' = minuteBars + 1 /\ Shifts("minutes") /\ UNCHANGED <<published, feed>>
  <2>1. testResult' = [testResult EXCEPT !.shifted = testResult.shifted \/ measured]
    BY <1>2, <1>5 DEF Shifts
  <2>2. FilesNow' = FilesNow
    BY <1>5 DEF FilesNow
  <2>3. ~(testResult.shifted \/ measured) /\ testPhase \in {"seal", "simulate"} =>
            Digest(test, inputs["days"])' = Digest(test, inputs["days"])
    BY <1>1 DEF Digest
  <2>4. (testResult.shifted \/ measured) \in BOOLEAN
    OBVIOUS
  <2>5. published' \in [FilteringDate -> Nat] /\ feed' \in Nat /\ minuteBars' \in Nat
    BY <1>2, <1>5
  <2> HIDE DEF measured
  <2>6. QED
    BY <1>1, <1>2, <2>1, <2>2, <2>3, <2>4, <2>5, ShiftsKeeps
<1>6. QED
  BY <1>3, <1>4, <1>5 DEF SourceChanges

LEMMA ReplacedAt ==
    ASSUME NEW T, NEW q \in Seq(T), NEW k \in 1..Len(q), NEW e \in T, NEW r, r = [q EXCEPT ![k] = e]
    PROVE  /\ r \in Seq(T) /\ Len(r) = Len(q) /\ r[k] = e
           /\ \A j \in 1..Len(q) : j # k => r[j] = q[j]
OBVIOUS

LEMMA FileDamagedKeeps ==
    ASSUME SnapshotIInv, NEW k \in DOMAIN snapshots, FileDamaged(k)
    PROVE  SnapshotIInv'
<1> DEFINE s == snapshots[k]
<1>1. PICK n \in InputName :
        /\ snapshots[k].kept[n] # <<>>
        /\ snapshots' = [snapshots EXCEPT ![k] = [@ EXCEPT !.damaged = TRUE, !.kept[n] = <<0>>]]
        /\ testResult' = [testResult EXCEPT !.shifted =
                             @ \/ (n = "days" /\ test.of = k /\ testPhase = "read")]
  BY DEF FileDamaged
<1>2. /\ changesLeft' \in 0..MaxChanges
      /\ UNCHANGED <<testsLeft, sourceVars, partial, loaded, testPhase, test, unread, inputs>>
  BY SnapshotParts, SnapshotAssumption DEF FileDamaged, SnapshotTypes
<1>3. k \in 1..Len(snapshots) /\ k \in Snapshots /\ s \in Snapshot /\ snapshots \in Seq(Snapshot)
  BY SnapshotParts, SnapshotAt DEF SnapshotTypes, Snapshots
<1>4. /\ s.kept \in Inputs /\ s.digest \in Nat /\ s.terms \in RunTerms
      /\ s.result \in {<<>>} \cup Used
  BY <1>3, SnapshotFields
<1>22. PICK b \in BOOLEAN :
           b /\ [s EXCEPT !.damaged = TRUE, !.kept[n] = <<0>>] = [s EXCEPT !.damaged = b, !.kept[n] = <<0>>]
  OBVIOUS
<1> DEFINE damagedKept == [s.kept EXCEPT ![n] = <<0>>]
           hurt == [kept |-> damagedKept, digest |-> s.digest, damaged |-> b, terms |-> s.terms,
                    result |-> s.result]
<1>5. <<0>> \in InputValue /\ <<0>> # <<>>
  BY DEF InputValue
<1>6. /\ damagedKept \in Inputs /\ damagedKept[n] = <<0>>
      /\ \A m \in InputName \ {n} : damagedKept[m] = s.kept[m]
  BY <1>4, <1>5 DEF Inputs
<1>7. hurt \in Snapshot
  BY <1>4, <1>6, <1>22 DEF Snapshot
<1>8. snapshots' = [snapshots EXCEPT ![k] = hurt]
  <2>1. [s EXCEPT !.damaged = b, !.kept[n] = <<0>>] = hurt
    <3> DEFINE h == [kept |-> s.kept, digest |-> s.digest, damaged |-> b, terms |-> s.terms,
                     result |-> s.result]
    <3> HIDE DEF s
    <3>1. [s EXCEPT !.damaged = b] = h
      BY <1>3, SnapshotFields
    <3>2. [h EXCEPT !.kept[n] = <<0>>] = hurt
      OBVIOUS
    <3> HIDE DEF h, hurt
    <3>3. QED
      BY <3>1, <3>2, Zenon
  <2>2. snapshots' = [snapshots EXCEPT ![k] = [s EXCEPT !.damaged = TRUE, !.kept[n] = <<0>>]]
    BY <1>1, <1>3
  <2>3. QED
    BY <1>22, <2>1, <2>2
<1> HIDE DEF damagedKept
<1>9. /\ hurt.kept = damagedKept /\ hurt.damaged = b /\ b /\ hurt.digest = s.digest
      /\ hurt.terms = s.terms /\ hurt.result = s.result
  BY <1>22
<1> HIDE DEF hurt, s
<1>10. /\ snapshots' \in Seq(Snapshot) /\ Len(snapshots') = Len(snapshots) /\ Snapshots' = Snapshots
       /\ snapshots'[k] = hurt /\ \A j \in Snapshots : j # k => snapshots'[j] = snapshots[j]
  BY <1>3, <1>7, <1>8, ReplacedAt DEF Snapshots
<1>11. \A j \in Snapshots : /\ snapshots'[j].digest = snapshots[j].digest
                            /\ snapshots'[j].terms = snapshots[j].terms
                            /\ snapshots'[j].result = snapshots[j].result
                            /\ ~snapshots'[j].damaged => snapshots'[j] = snapshots[j]
                            /\ j # k \/ n # "days" => snapshots'[j].kept["days"] = snapshots[j].kept["days"]
  <2>1. TAKE j \in Snapshots
  <2>2. CASE j = k
    <3>1. n # "days" => hurt.kept["days"] = s.kept["days"]
      BY <1>6, <1>9 DEF InputName
    <3>2. QED
      BY <1>9, <1>10, <2>2, <3>1 DEF s
  <2>3. CASE j # k
    BY <1>10, <2>3
  <2>4. QED
    BY <2>2, <2>3
<1>12. /\ testResult' \in RunResult /\ testResult'.snapshot = testResult.snapshot
       /\ testResult'.warned = testResult.warned /\ testResult'.used = testResult.used
       /\ ~testResult'.shifted => ~testResult.shifted /\ ~(n = "days" /\ test.of = k /\ testPhase = "read")
  <2> DEFINE noted == testResult.shifted \/ (n = "days" /\ test.of = k /\ testPhase = "read")
  <2>1. noted \in BOOLEAN /\ testResult \in RunResult
    BY SnapshotParts, ResultFields DEF SnapshotTypes
  <2>2. testResult' = [testResult EXCEPT !.shifted = noted]
    BY <1>1
  <2>3. ~noted => ~testResult.shifted /\ ~(n = "days" /\ test.of = k /\ testPhase = "read")
    OBVIOUS
  <2> HIDE DEF noted
  <2>4. testResult' = [snapshot |-> testResult.snapshot, warned |-> testResult.warned,
                       shifted |-> noted, used |-> testResult.used]
    BY <2>1, <2>2, ResultFields
  <2>5. QED
    BY <2>1, <2>3, <2>4, ResultFields DEF RunResult
<1>13. SnapshotTypes'
  BY <1>2, <1>10, <1>12, SnapshotParts DEF SnapshotTypes, sourceVars
<1>14. PhaseInv'
  BY <1>2, <1>10, <1>12, SnapshotParts DEF PhaseInv
<1>15. ObtainedInv'
  BY <1>2, SnapshotParts DEF ObtainedInv, Obtained, Asked, Needs
<1>16. FilesInv' /\ DirectoryInv'
  <2>1. FilesNow' = FilesNow /\ Digest(test, inputs["days"])' = Digest(test, inputs["days"])
    BY <1>2 DEF FilesNow, Digest, sourceVars
  <2>2. FilesInv'
    BY <1>2, <1>12, <2>1, SnapshotParts DEF FilesInv
  <2>3. ASSUME testPhase = "seal" PROVE DirectoryInv'
    <3>1. PICK d \in Nat : /\ testResult.used = <<d>>
                           /\ ~testResult.shifted => d = Digest(test, inputs["days"])
      BY <2>3, SnapshotParts DEF DirectoryInv
    <3>2. ~testResult'.shifted => d = Digest(test, inputs["days"])'
      BY <1>12, <2>1, <3>1
    <3>3. /\ \A m \in InputName \ {"days"} : partial'[m] = inputs'[m]
          /\ inputs'["days"] = <<>> => partial'["days"] = <<>>
          /\ ~testResult'.shifted => partial'["days"] = inputs'["days"]
      BY <1>2, <1>12, <2>3, SnapshotParts DEF DirectoryInv
    <3>4. QED
      BY <1>12, <3>1, <3>2, <3>3 DEF DirectoryInv
  <2>4. ASSUME testPhase # "seal" PROVE DirectoryInv'
    BY <1>2, <2>4 DEF DirectoryInv
  <2>5. QED
    BY <2>2, <2>3, <2>4
<1>17. SealedInv'
  <2> SUFFICES ASSUME testPhase = "simulate", test.of = 0, testResult.snapshot # 0
               PROVE  SealedInv'
    BY <1>2, <1>12 DEF SealedInv
  <2>1. testResult.snapshot \in Snapshots
    BY SnapshotParts, ResultFields, SnapshotAt DEF SnapshotTypes, Snapshots
  <2>2. Digest(test, inputs["days"])' = Digest(test, inputs["days"])
    BY <1>2 DEF Digest, sourceVars
  <2>3. QED
    BY <1>2, <1>11, <1>12, <2>1, <2>2, SnapshotParts DEF SealedInv
<1>18. KeptSound'
  <2>1. KeptOf(s) /\ WholeOf(s)
    BY <1>3, SnapshotParts DEF KeptSound, s
  <2>2. KeptOf(hurt)
    BY <1>9, <2>1 DEF KeptOf
  <2>3. s.kept[n] # <<>>
    BY <1>1 DEF s
  <2>4. Asked(s.terms) \subseteq InputName
    BY <1>4, AskedMore
  <2>5. WholeOf(hurt)
    <3>1. \A m \in InputName : hurt.kept[m] # <<>> <=> s.kept[m] # <<>>
      BY <1>5, <1>6, <1>9, <2>3
    <3>2. "days" \in InputName /\ "regime" \in InputName
      BY DEF InputName
    <3>3. QED
      BY <1>9, <2>1, <2>4, <3>1, <3>2 DEF WholeOf
  <2>6. ASSUME NEW j \in Snapshots PROVE KeptOf(snapshots'[j]) /\ WholeOf(snapshots'[j])
    BY <1>10, <2>2, <2>5, SnapshotParts DEF KeptSound
  <2>7. QED
    BY <1>10, <2>6 DEF KeptSound
<1>19. ReplayInv'
  <2> SUFFICES ASSUME testPhase # "idle", test.of # 0 PROVE ReplayInv'
    BY <1>2 DEF ReplayInv, ReplayOf
  <2>1. test.of \in Snapshots
    BY SnapshotParts, RunFields, SnapshotAt DEF SnapshotTypes, Snapshots
  <2>2. Digest(test, inputs["days"])' = Digest(test, inputs["days"]) /\ Obtained' = Obtained
    BY <1>2 DEF Digest, sourceVars, Obtained, Asked, Needs
  <2>3. ~testResult'.shifted /\ testPhase = "read" =>
            snapshots'[test.of].kept["days"] = snapshots[test.of].kept["days"]
    BY <1>11, <1>12, <2>1
  <2>4. QED
    BY <1>2, <1>11, <1>12, <2>1, <2>2, <2>3, SnapshotParts DEF ReplayInv, ReplayOf
<1>20. SameInputs'
  <2> SUFFICES ASSUME Repeated PROVE SameInputs'
    BY <1>2, <1>12 DEF SameInputs, Repeated
  <2>1. test.of \in Snapshots
    BY SnapshotParts, RunFields, SnapshotAt DEF SnapshotTypes, Snapshots, Repeated
  <2>2. QED
    BY <1>2, <1>11, <1>12, <2>1, SnapshotParts DEF SameInputs, Repeated
<1>21. QED
  BY <1>13, <1>14, <1>15, <1>16, <1>17, <1>18, <1>19, <1>20 DEF SnapshotIInv

LEMMA StartTestKeeps ==
    ASSUME SnapshotIInv, NEW mode \in Mode, NEW fine \in BOOLEAN, NEW compared \in BOOLEAN,
           StartTest(mode, fine, compared)
    PROVE  SnapshotIInv'
<1> DEFINE t == [mode |-> mode, fine |-> fine, compared |-> compared, of |-> 0]
<1>1. /\ testPhase = "idle" /\ testsLeft > 0 /\ testsLeft' = testsLeft - 1 /\ test' = t
      /\ testPhase' = "read" /\ unread' = Needs(t) /\ inputs' = NoInput /\ testResult' = NoResult
      /\ UNCHANGED <<changesLeft, sourceVars, snapshots, partial, loaded>>
  BY DEF StartTest
<1>2. t \in RunTerms /\ t.of = 0
  BY DEF RunTerms
<1> HIDE DEF t
<1>3. Needs(t) \in Seq(InputName) /\ testResult'.snapshot = 0 /\ testResult'.used = <<>>
  BY <1>1, <1>2, AskedOf DEF NoResult
<1>12. testsLeft' \in 0..MaxTests
  BY <1>1, SnapshotParts, SnapshotAssumption DEF SnapshotTypes
<1>4. SnapshotTypes'
  <2>1. test'.of <= Len(snapshots') /\ testResult'.snapshot <= Len(snapshots')
    BY <1>1, <1>2, <1>3, SnapshotParts, SnapshotAt DEF SnapshotTypes
  <2>2. QED
    BY <1>1, <1>2, <1>3, <1>12, <2>1, NoInputType, SnapshotParts DEF SnapshotTypes, sourceVars
<1>5. PhaseInv'
  <2>1. /\ Len(snapshots) \in Nat /\ testsLeft \in Nat /\ MaxTests \in Nat
        /\ Len(snapshots) + testsLeft + 0 <= MaxTests
    BY <1>1, SnapshotParts, SnapshotAt, SnapshotAssumption DEF PhaseInv, SnapshotTypes
  <2>2. QED
    BY <1>1, <1>2, <1>3, <2>1 DEF PhaseInv
<1>6. ObtainedInv'
  <2>1. Asked(test') = Asked(t) /\ Range(unread') = Asked(t) /\ Obtained' = {}
    BY <1>1 DEF Asked, Obtained
  <2>2. QED
    BY <1>1, <2>1, NoInputType DEF ObtainedInv
<1>7. FilesInv'
  BY <1>1, NoInputType DEF FilesInv, InputName
<1>8. DirectoryInv' /\ SealedInv' /\ ReplayInv'
  BY <1>1, <1>2 DEF DirectoryInv, SealedInv, ReplayInv, ReplayOf
<1>9. KeptSound'
  BY <1>1, KeptStays, SnapshotParts
<1>10. SameInputs'
  BY <1>1 DEF SameInputs, Repeated
<1>11. QED
  BY <1>4, <1>5, <1>6, <1>7, <1>8, <1>9, <1>10 DEF SnapshotIInv

LEMMA StartReplayKeeps ==
    ASSUME SnapshotIInv, NEW k \in DOMAIN snapshots, NEW compared \in BOOLEAN, StartReplay(k, compared)
    PROVE  SnapshotIInv'
<1> DEFINE s == snapshots[k]
<1>1. /\ testPhase = "idle" /\ testsLeft > 0 /\ testsLeft' = testsLeft - 1 /\ inputs' = NoInput
      /\ UNCHANGED <<changesLeft, sourceVars, snapshots, partial>>
  BY DEF StartReplay
<1>2. k \in Snapshots /\ s \in Snapshot /\ k # 0 /\ k \in Nat /\ k <= Len(snapshots) /\ Len(snapshots) \in Nat
  BY SnapshotParts, SnapshotAt DEF SnapshotTypes, Snapshots
<1>3. /\ s.kept \in Inputs /\ s.digest \in Nat /\ s.terms \in RunTerms /\ s.damaged \in BOOLEAN
  BY <1>2, SnapshotFields
<1>4. KeptOf(s)
  BY <1>2, SnapshotParts DEF KeptSound
<1>5. /\ testsLeft \in Nat /\ testsLeft' \in 0..MaxTests /\ MaxTests \in Nat
      /\ Len(snapshots) + testsLeft + 0 <= MaxTests
  BY <1>1, SnapshotParts, SnapshotAt, SnapshotAssumption DEF PhaseInv, SnapshotTypes
<1>6. KeptSound'
  BY <1>1, KeptStays, SnapshotParts
<1>7. ASSUME ~Loadable(k) PROVE SnapshotIInv'
  <2>1. /\ UNCHANGED <<test, testPhase, unread, loaded>>
        /\ testResult' = [NoResult EXCEPT !.snapshot = 0]
    BY <1>7 DEF StartReplay
  <2>2. testResult' = NoResult
    BY <2>1 DEF NoResult
  <2>3. testResult'.snapshot = 0 /\ testResult'.used = <<>>
    BY <2>2 DEF NoResult
  <2>9. /\ test' \in RunTerms /\ unread' \in Seq(InputName) /\ loaded' \in Inputs
        /\ testPhase' \in {"idle", "read", "save", "seal", "simulate"}
        /\ test'.of <= Len(snapshots') /\ testResult'.snapshot <= Len(snapshots')
    BY <1>1, <1>2, <2>1, <2>3, SnapshotParts DEF SnapshotTypes
  <2>4. SnapshotTypes'
    BY <1>1, <1>5, <2>2, <2>9, NoInputType, SnapshotParts DEF SnapshotTypes, sourceVars
  <2>5. PhaseInv'
    BY <1>1, <1>5, <2>1, <2>3 DEF PhaseInv
  <2>6. ObtainedInv' /\ FilesInv' /\ DirectoryInv' /\ SealedInv' /\ ReplayInv'
    BY <1>1, <2>1 DEF ObtainedInv, FilesInv, DirectoryInv, SealedInv, ReplayInv, ReplayOf
  <2>7. SameInputs'
    BY <2>3 DEF SameInputs, Repeated
  <2>8. QED
    BY <1>6, <2>4, <2>5, <2>6, <2>7 DEF SnapshotIInv
<1>8. ASSUME Loadable(k) PROVE SnapshotIInv'
  <2> DEFINE more == s.terms.compared \/ compared
             t == [mode |-> s.terms.mode, fine |-> s.terms.fine, compared |-> more, of |-> k]
  <2>1. /\ test' = [s.terms EXCEPT !.of = k, !.compared = @ \/ compared]
        /\ testPhase' = "read" /\ unread' = Needs(test') /\ loaded' = s.kept
        /\ testResult' = [NoResult EXCEPT !.snapshot = k]
    BY <1>8 DEF StartReplay
  <2>2. more \in BOOLEAN
    OBVIOUS
  <2>3. test' = t
    <3> DEFINE a == [mode |-> s.terms.mode, fine |-> s.terms.fine, compared |-> s.terms.compared,
                     of |-> k]
    <3> HIDE DEF s
    <3>1. [s.terms EXCEPT !.of = k] = a
      BY <1>3, RunFields
    <3>2. a.compared = s.terms.compared
      OBVIOUS
    <3>3. [a EXCEPT !.compared = more] = t
      BY <2>2
    <3>4. test' = [[s.terms EXCEPT !.of = k] EXCEPT !.compared = @ \/ compared]
      BY <2>1
    <3>5. test' = [a EXCEPT !.compared = @ \/ compared]
      BY <3>1, <3>4
    <3>6. [a EXCEPT !.compared = @ \/ compared] = [a EXCEPT !.compared = more]
      BY <3>2
    <3>7. QED
      BY <3>3, <3>5, <3>6
  <2>4. /\ t \in RunTerms /\ t.of = k /\ t.mode = s.terms.mode /\ t.fine = s.terms.fine
        /\ s.terms.compared => t.compared
    BY <1>2, <1>3, <2>2, RunFields DEF RunTerms
  <2> HIDE DEF t, more
  <2>5. testResult' = [snapshot |-> k, warned |-> FALSE, shifted |-> FALSE, used |-> <<>>]
    BY <2>1 DEF NoResult
  <2>6. /\ testResult' \in RunResult /\ testResult'.snapshot = k /\ ~testResult'.shifted
    BY <1>2, <2>5 DEF RunResult
  <2>7. unread' = Needs(t) /\ Needs(t) \in Seq(InputName)
    BY <2>1, <2>3, <2>4, AskedOf
  <2>8. SnapshotTypes'
    BY <1>1, <1>2, <1>3, <1>5, <2>1, <2>3, <2>4, <2>6, <2>7, NoInputType, SnapshotParts DEF SnapshotTypes, sourceVars
  <2>9. PhaseInv'
    BY <1>1, <1>2, <1>5, <2>1, <2>3, <2>4 DEF PhaseInv
  <2>10. Asked(test') = Asked(t) /\ Range(unread') = Asked(t) /\ Obtained' = {}
    BY <2>3, <2>7 DEF Asked, Obtained
  <2>11. ObtainedInv'
    BY <1>1, <2>1, <2>10, NoInputType DEF ObtainedInv
  <2>12. FilesInv' /\ DirectoryInv' /\ SealedInv'
    BY <1>2, <2>1, <2>3, <2>4 DEF FilesInv, DirectoryInv, SealedInv
  <2>13. ReplayInv'
    <3>1. s.result # <<>> => s.kept = s.result[1]
      BY <1>4, <1>8 DEF KeptOf, Loadable
    <3>2. snapshots'[test'.of] = s
      BY <1>1, <2>3, <2>4
    <3> HIDE DEF s
    <3>3. QED
      BY <2>1, <2>3, <2>4, <2>6, <2>10, <3>1, <3>2 DEF ReplayInv, ReplayOf
  <2>14. SameInputs'
    BY <2>1 DEF SameInputs, Repeated
  <2>15. QED
    BY <1>6, <2>8, <2>9, <2>11, <2>12, <2>13, <2>14 DEF SnapshotIInv
<1>9. QED
  BY <1>7, <1>8

LEMMA FilesNowType == ASSUME SnapshotTypes PROVE FilesNow \in DayFiles
<1> DEFINE held == {d \in FilteringDate : published[d] # 0}
<1>1. FilesNow = [d \in held |-> published[d]]
  BY DEF FilesNow, Restrict
<1>2. held \in SUBSET FilteringDate /\ [d \in held |-> published[d]] \in [held -> Nat]
  BY DEF SnapshotTypes
<1> HIDE DEF held
<1>3. QED
  BY <1>1, <1>2 DEF DayFiles

\* The next input is taken.
LEMMA TakenKeeps ==
    ASSUME SnapshotIInv, testPhase = "read", unread # <<>>, NEW taken \in InputValue,
           taken = (IF test.of # 0 THEN Stored(test.of, Head(unread))
                    ELSE IF Head(unread) = "days" THEN FilesNow ELSE <<feed>>),
           inputs' = [inputs EXCEPT ![Head(unread)] = taken], unread' = Tail(unread),
           UNCHANGED <<testPhase, test, testResult, changesLeft, testsLeft, sourceVars, snapshots, partial, loaded>>
    PROVE  SnapshotIInv'
<1> DEFINE name == Head(unread)
<1>1. /\ unread \in Seq(InputName) /\ inputs \in Inputs /\ testPhase' = "read" /\ UNCHANGED <<test, testResult>>
  BY SnapshotParts DEF SnapshotTypes
<1>2. name \in InputName /\ unread' \in Seq(InputName) /\ Range(unread) = {name} \cup Range(unread')
  BY <1>1, RangeOfTail
<1>3. /\ inputs' \in Inputs /\ inputs'[name] = taken /\ \A n \in InputName : n # name => inputs'[n] = inputs[n]
  BY <1>1, <1>2 DEF Inputs
<1> HIDE DEF name
<1>4. Asked(test') = Asked(test)
  BY <1>1
<1>5. /\ name \in Asked(test) /\ Range(unread') \subseteq Asked(test) /\ Obtained' \subseteq Obtained \cup {name}
      /\ Asked(test) \subseteq InputName
  BY <1>1, <1>2, <1>4, SnapshotParts, AskedMore DEF ObtainedInv, Obtained, SnapshotTypes
<1>6. SnapshotTypes'
  BY <1>1, <1>2, <1>3, SnapshotParts DEF SnapshotTypes, sourceVars
<1>7. PhaseInv'
  BY <1>1, SnapshotParts DEF PhaseInv
<1>8. ObtainedInv'
  <2>1. \A n \in InputName \ Asked(test) : inputs'[n] = <<>>
    BY <1>1, <1>3, <1>5, SnapshotParts DEF ObtainedInv
  <2>2. ASSUME test.of = 0, NEW n \in Obtained' \ {"days"} PROVE inputs'[n] # <<>>
    <3>1. CASE n = name
      <4>1. taken = <<feed>>
        BY <2>2, <3>1 DEF name
      <4>2. <<feed>> # <<>>
        OBVIOUS
      <4>3. QED
        BY <1>3, <3>1, <4>1, <4>2
    <3>2. CASE n # name
      BY <1>1, <1>3, <1>5, <2>2, <3>2, SnapshotParts DEF ObtainedInv
    <3>3. QED
      BY <3>1, <3>2
  <2>3. QED
    BY <1>1, <1>4, <1>5, <2>1, <2>2 DEF ObtainedInv
<1>9. FilesInv'
  <2>1. FilesNow' = FilesNow
    BY DEF FilesNow, sourceVars
  <2>2. CASE name = "days"
    BY <1>1, <1>3, <2>1, <2>2 DEF FilesInv, name
  <2>3. CASE name # "days"
    BY <1>1, <1>3, <2>1, <2>3, SnapshotParts DEF FilesInv, InputName
  <2>4. QED
    BY <2>2, <2>3
<1>10. DirectoryInv' /\ SealedInv'
  BY <1>1 DEF DirectoryInv, SealedInv
<1>11. KeptSound'
  BY KeptStays, SnapshotParts
<1>12. ReplayInv'
  <2> SUFFICES ASSUME test.of # 0 PROVE ReplayInv'
    BY <1>1 DEF ReplayInv, ReplayOf
  <2>0. PICK s : s = snapshots[test.of]
    OBVIOUS
  <2>1. /\ test.mode = s.terms.mode /\ test.fine = s.terms.fine /\ (s.terms.compared => test.compared)
        /\ \A n \in Obtained \ {"days"} : inputs[n] = loaded[n]
        /\ s.result # <<>> =>
               /\ \A n \in InputName \ {"days"} : loaded[n] = s.result[1][n]
               /\ ~testResult.shifted =>
                     /\ s.kept["days"] = s.result[1]["days"]
                     /\ "days" \in Obtained => inputs["days"] = s.result[1]["days"]
    BY <1>1, <2>0, SnapshotParts DEF ReplayInv, ReplayOf
  <2>2. taken = IF name = "days" THEN s.kept["days"] ELSE loaded[name]
    BY <2>0 DEF Stored, name
  <2>3. snapshots'[test'.of] = s
    BY <1>1, <2>0
  <2>4. \A n \in Obtained' \ {"days"} : inputs'[n] = loaded'[n]
    BY <1>3, <1>5, <2>1, <2>2 DEF Obtained
  <2>5. s.result # <<>> /\ ~testResult.shifted /\ "days" \in Obtained' => inputs'["days"] = s.result[1]["days"]
    BY <1>3, <1>5, <2>1, <2>2 DEF InputName
  <2>6. /\ test'.mode = s.terms.mode /\ test'.fine = s.terms.fine /\ (s.terms.compared => test'.compared)
        /\ s.result # <<>> =>
               /\ \A n \in InputName \ {"days"} : loaded'[n] = s.result[1][n]
               /\ ~testResult'.shifted =>
                     /\ s.kept["days"] = s.result[1]["days"]
                     /\ "days" \in Obtained' => inputs'["days"] = s.result[1]["days"]
    BY <1>1, <2>1, <2>5
  <2>7. testPhase' = "read"
    BY <1>1
  <2>8. ReplayOf(s)'
    BY <2>4, <2>6, <2>7 DEF ReplayOf
  <2>9. QED
    BY <2>3, <2>8 DEF ReplayInv, ReplayOf
<1>13. SameInputs'
  BY <1>1 DEF SameInputs, Repeated
<1>14. QED
  BY <1>6, <1>7, <1>8, <1>9, <1>10, <1>11, <1>12, <1>13 DEF SnapshotIInv

LEMMA ObtainKeeps == ASSUME SnapshotIInv, Obtain PROVE SnapshotIInv'
<1> DEFINE name == Head(unread)
           taken == IF test.of # 0 THEN Stored(test.of, name)
                    ELSE IF name = "days" THEN FilesNow ELSE <<feed>>
<1>1. /\ testPhase = "read" /\ unread # <<>>
      /\ UNCHANGED <<changesLeft, testsLeft, sourceVars, snapshots, partial, loaded>>
  BY DEF Obtain
<1>2. CASE /\ testPhase' = "idle" /\ test' = Idle /\ unread' = <<>> /\ inputs' = NoInput
           /\ testResult' = NoResult
  BY <1>1, <1>2, TestEnds
<1>3. CASE /\ inputs' = [inputs EXCEPT ![name] = taken] /\ unread' = Tail(unread)
           /\ UNCHANGED <<testPhase, test, testResult>>
  <2>1. name \in InputName
    BY <1>1, SnapshotParts, RangeOfTail DEF SnapshotTypes
  <2>2. taken \in InputValue
    <3>1. CASE test.of # 0
      <4>1. test.of \in Snapshots
        BY <3>1, SnapshotParts, RunFields, SnapshotAt DEF SnapshotTypes, Snapshots
      <4>2. snapshots[test.of].kept \in Inputs /\ loaded \in Inputs
        BY <4>1, SnapshotParts, SnapshotAt, SnapshotFields DEF SnapshotTypes
      <4>3. QED
        BY <2>1, <3>1, <4>2 DEF Stored, Inputs
    <3>2. CASE test.of = 0
      <4>1. FilesNow \in InputValue
        BY SnapshotParts, FilesNowType DEF InputValue
      <4>2. <<feed>> \in InputValue
        BY SnapshotParts DEF InputValue, SnapshotTypes
      <4>3. QED
        BY <3>2, <4>1, <4>2
    <3>3. QED
      BY <3>1, <3>2
  <2>3. QED
    BY <1>1, <1>3, <2>2, TakenKeeps
<1>4. QED
  BY <1>2, <1>3 DEF Obtain

LEMMA DigestType ==
    ASSUME SnapshotTypes
    PROVE  Digest(test, inputs["days"]) \in Nat
BY DEF Digest, SnapshotTypes

\* All the inputs a run asks for are there.
LEMMA AllObtained ==
    ASSUME SnapshotIInv, testPhase # "idle", unread = <<>>
    PROVE  /\ Obtained = Asked(test) /\ Asked(test) \subseteq InputName
           /\ \A n \in InputName \ Asked(test) : inputs[n] = <<>>
           /\ test.of = 0 => \A n \in Asked(test) \ {"days"} : inputs[n] # <<>>
<1>1. DOMAIN <<>> = {}
  OBVIOUS
<1>2. Range(unread) = {}
  BY <1>1 DEF Range
<1>3. Obtained = Asked(test)
  BY <1>2 DEF Obtained
<1>4. QED
  BY <1>3, SnapshotParts, AskedMore DEF ObtainedInv, SnapshotTypes

LEMMA CheckpointKeeps == ASSUME SnapshotIInv, Checkpoint PROVE SnapshotIInv'
<1>1. /\ testPhase = "read" /\ unread = <<>>
      /\ UNCHANGED <<changesLeft, testsLeft, sourceVars, snapshots, partial, loaded, test, unread, inputs>>
  BY DEF Checkpoint
<1>2. Digest(test, inputs["days"])' = Digest(test, inputs["days"]) /\ FilesNow' = FilesNow
  BY <1>1 DEF Digest, FilesNow, sourceVars
<1>3. Asked(test)' = Asked(test) /\ Obtained' = Obtained
  BY <1>1 DEF Asked, Needs, Obtained
<1>4. KeptSound'
  BY <1>1, KeptStays, SnapshotParts
<1>5. ObtainedInv'
  BY <1>1, <1>3, SnapshotParts DEF ObtainedInv
<1>6. Len(snapshots) \in Nat /\ testsLeft \in Nat /\ MaxTests \in Nat /\ Len(snapshots) + testsLeft + 1 <= MaxTests
  BY <1>1, SnapshotParts, SnapshotAt, SnapshotAssumption DEF PhaseInv, SnapshotTypes
<1>7. CASE test.of # 0
  <2> DEFINE told == Digest(test, inputs["days"]) # snapshots[test.of].digest
  <2>1. testPhase' = "simulate" /\ testResult' = [testResult EXCEPT !.warned = told]
    BY <1>7 DEF Checkpoint
  <2>2. told \in BOOLEAN /\ (~told => Digest(test, inputs["days"]) = snapshots[test.of].digest)
    OBVIOUS
  <2> HIDE DEF told
  <2>3. testResult' = [snapshot |-> testResult.snapshot, warned |-> told,
                       shifted |-> testResult.shifted, used |-> testResult.used]
    BY <2>1, <2>2, SnapshotParts, ResultFields DEF SnapshotTypes
  <2>4. /\ testResult' \in RunResult /\ testResult'.snapshot = testResult.snapshot
        /\ testResult'.warned = told /\ testResult'.shifted = testResult.shifted
    BY <2>2, <2>3, SnapshotParts, ResultFields DEF SnapshotTypes, RunResult
  <2>5. SnapshotTypes'
    BY <1>1, <2>1, <2>4, SnapshotParts DEF SnapshotTypes, sourceVars
  <2>6. PhaseInv'
    BY <1>1, <1>6, <2>1 DEF PhaseInv
  <2>7. FilesInv' /\ DirectoryInv' /\ SealedInv'
    BY <1>1, <1>7, <2>1 DEF FilesInv, DirectoryInv, SealedInv
  <2>8. ReplayInv'
    <3>1. ReplayOf(snapshots[test.of])
      BY <1>1, <1>7, SnapshotParts DEF ReplayInv
    <3>2. QED
      BY <1>1, <1>2, <1>3, <2>1, <2>2, <2>4, <3>1 DEF ReplayInv, ReplayOf
  <2>9. SameInputs'
    BY <2>1 DEF SameInputs, Repeated
  <2>10. QED
    BY <1>4, <1>5, <2>5, <2>6, <2>7, <2>8, <2>9 DEF SnapshotIInv
<1>8. CASE test.of = 0
  <2>1. testPhase' = "save" /\ UNCHANGED testResult
    BY <1>8 DEF Checkpoint
  <2>2. SnapshotTypes'
    BY <1>1, <2>1, SnapshotParts DEF SnapshotTypes, sourceVars
  <2>3. PhaseInv'
    BY <1>1, <1>6, <1>8, <2>1, SnapshotParts DEF PhaseInv
  <2>4. FilesInv'
    BY <1>1, <1>2, <2>1, SnapshotParts DEF FilesInv
  <2>5. DirectoryInv' /\ SealedInv' /\ ReplayInv' /\ SameInputs'
    BY <1>1, <1>8, <2>1 DEF DirectoryInv, SealedInv, ReplayInv, SameInputs, Repeated
  <2>6. QED
    BY <1>4, <1>5, <2>2, <2>3, <2>4, <2>5 DEF SnapshotIInv
<1>9. QED
  BY <1>7, <1>8

LEMMA CopiedType ==
    ASSUME SnapshotTypes
    PROVE  /\ WrittenOver(Copied, Emptied["days"]) \in InputValue
           /\ inputs["days"] = FilesNow => WrittenOver(Copied, Emptied["days"]) = inputs["days"]
<1>1. Emptied["days"] = <<>> /\ DOMAIN <<>> = {}
  BY NoInputType DEF Emptied, InputName
<1> DEFINE both == DOMAIN FilesNow \cap DOMAIN inputs["days"]
<1>2. Copied = [d \in both |-> FilesNow[d]]
  BY DEF Copied, Restrict
<1>3. DOMAIN Copied = both /\ \A d \in both : Copied[d] = FilesNow[d]
  BY <1>2
<1>4. WrittenOver(Copied, Emptied["days"]) = [d \in both |-> FilesNow[d]]
  BY <1>1, <1>3 DEF WrittenOver
<1>5. PICK S \in SUBSET FilteringDate : FilesNow \in [S -> Nat]
  BY FilesNowType DEF DayFiles
<1>6. both \in SUBSET FilteringDate /\ [d \in both |-> FilesNow[d]] \in [both -> Nat]
  BY <1>5
<1>7. [d \in both |-> FilesNow[d]] \in InputValue
  BY <1>6 DEF InputValue, DayFiles
<1>8. ASSUME inputs["days"] = FilesNow PROVE [d \in both |-> FilesNow[d]] = inputs["days"]
  BY <1>5, <1>8
<1>9. QED
  BY <1>4, <1>7, <1>8

LEMMA UsedAs ==
    ASSUME testResult \in RunResult,
           NEW used \in {<<>>} \cup {<<v>> : v \in Nat} \cup Used,
           testResult' = [testResult EXCEPT !.used = used]
    PROVE  /\ testResult' \in RunResult /\ testResult'.snapshot = testResult.snapshot
           /\ testResult'.warned = testResult.warned /\ testResult'.shifted = testResult.shifted
           /\ testResult'.used = used
<1>1. testResult' = [snapshot |-> testResult.snapshot, warned |-> testResult.warned,
                     shifted |-> testResult.shifted, used |-> used]
  BY ResultFields
<1>2. QED
  BY <1>1, ResultFields DEF RunResult

LEMMA WriteInputsKeeps == ASSUME SnapshotIInv, WriteInputs PROVE SnapshotIInv'
<1> DEFINE d == Digest(test, inputs["days"])
           files == WrittenOver(Copied, Emptied["days"])
<1>1. /\ testPhase = "save" /\ testPhase' = "seal"
      /\ UNCHANGED <<changesLeft, testsLeft, sourceVars, snapshots, loaded, test, unread, inputs>>
      /\ testResult' = [testResult EXCEPT !.used = <<d>>]
  BY DEF WriteInputs
<1>2. partial' = [n \in InputName |-> IF inputs[n] = <<>> THEN Emptied[n]
                                      ELSE IF n = "days" THEN WrittenOver(Copied, Emptied[n]) ELSE inputs[n]]
  BY DEF WriteInputs
<1>3. test.of = 0 /\ testResult.snapshot = 0
  BY <1>1, SnapshotParts DEF PhaseInv
<1>4. d \in Nat /\ d' = d
  BY <1>1, SnapshotParts, DigestType DEF Digest, sourceVars
<1>5. files \in InputValue /\ (inputs["days"] = FilesNow => files = inputs["days"])
  BY SnapshotParts, CopiedType
<1>6. \A n \in InputName : Emptied[n] = <<>>
  BY NoInputType DEF Emptied
<1>7. ~testResult.shifted /\ inputs["days"] # <<>> => inputs["days"] = FilesNow
  BY <1>1, <1>3, SnapshotParts DEF FilesInv
<1> HIDE DEF files
<1>8. \A n \in InputName : partial'[n] = IF inputs[n] = <<>> THEN <<>>
                                         ELSE IF n = "days" THEN files ELSE inputs[n]
  BY <1>2, <1>6 DEF files
<1>9. \A n \in InputName : inputs[n] \in InputValue /\ <<>> \in InputValue
  BY SnapshotParts DEF SnapshotTypes, Inputs, InputValue
<1>10. partial' \in Inputs
  <2>1. \A n \in InputName : partial'[n] \in InputValue
    BY <1>5, <1>8, <1>9
  <2>2. partial' = [n \in InputName |-> partial'[n]]
    BY <1>2
  <2>3. QED
    BY <2>1, <2>2 DEF Inputs
<1>11. <<d>> \in {<<v>> : v \in Nat}
  BY <1>4
<1> HIDE DEF d
<1>12. /\ testResult' \in RunResult /\ testResult'.snapshot = testResult.snapshot
       /\ testResult'.shifted = testResult.shifted /\ testResult'.used = <<d>>
  <2>1. <<d>> \in {<<>>} \cup {<<v>> : v \in Nat} \cup Used /\ testResult \in RunResult
    BY <1>11, SnapshotParts DEF SnapshotTypes
  <2>2. QED
    BY <1>1, <2>1, UsedAs
<1>13. SnapshotTypes'
  BY <1>1, <1>10, <1>12, SnapshotParts DEF SnapshotTypes, sourceVars
<1>14. PhaseInv'
  BY <1>1, <1>3, <1>12, SnapshotParts DEF PhaseInv
<1>15. ObtainedInv'
  BY <1>1, SnapshotParts DEF ObtainedInv, Obtained, Asked, Needs
<1>16. DirectoryInv'
  <2>1. \A n \in InputName \ {"days"} : partial'[n] = inputs[n]
    BY <1>8
  <2>2. inputs["days"] = <<>> => partial'["days"] = <<>>
    BY <1>8 DEF InputName
  <2>3. ~testResult'.shifted => partial'["days"] = inputs["days"]
    BY <1>5, <1>7, <1>8, <1>12 DEF InputName
  <2>4. d = Digest(test, inputs["days"])'
    BY <1>4 DEF d
  <2>5. QED
    BY <1>1, <1>4, <1>12, <2>1, <2>2, <2>3, <2>4 DEF DirectoryInv
<1>17. FilesInv' /\ SealedInv' /\ ReplayInv' /\ SameInputs'
  BY <1>1, <1>3 DEF FilesInv, SealedInv, ReplayInv, SameInputs, Repeated
<1>18. KeptSound'
  BY <1>1, KeptStays, SnapshotParts
<1>19. QED
  BY <1>13, <1>14, <1>15, <1>16, <1>17, <1>18 DEF SnapshotIInv

LEMMA SnapshotFailsKeeps == ASSUME SnapshotIInv, SnapshotFails PROVE SnapshotIInv'
<1>1. /\ testPhase \in {"save", "seal"} /\ testPhase' = "simulate"
      /\ partial' \in {NoInput, partial} /\ testResult' = [testResult EXCEPT !.used = <<>>]
      /\ UNCHANGED <<changesLeft, testsLeft, sourceVars, snapshots, loaded, test, unread, inputs>>
  BY DEF SnapshotFails
<1>2. test.of = 0 /\ testResult.snapshot = 0
  BY <1>1, SnapshotParts DEF PhaseInv
<1>3. testResult' \in RunResult /\ testResult'.snapshot = testResult.snapshot
  <2>1. <<>> \in {<<>>} \cup {<<v>> : v \in Nat} \cup Used /\ testResult \in RunResult
    BY SnapshotParts DEF SnapshotTypes
  <2>2. QED
    BY <1>1, <2>1, UsedAs
<1>4. partial' \in Inputs
  BY <1>1, NoInputType, SnapshotParts DEF SnapshotTypes
<1>5. SnapshotTypes'
  BY <1>1, <1>3, <1>4, SnapshotParts DEF SnapshotTypes, sourceVars
<1>6. PhaseInv'
  <2>1. Len(snapshots) \in Nat /\ testsLeft \in Nat /\ MaxTests \in Nat /\ Len(snapshots) + testsLeft + 1 <= MaxTests
    BY <1>1, SnapshotParts, SnapshotAt, SnapshotAssumption DEF PhaseInv, SnapshotTypes
  <2>2. QED
    BY <1>1, <2>1 DEF PhaseInv
<1>7. ObtainedInv'
  BY <1>1, SnapshotParts DEF ObtainedInv, Obtained, Asked, Needs
<1>8. FilesInv' /\ DirectoryInv' /\ SealedInv' /\ ReplayInv' /\ SameInputs'
  BY <1>1, <1>2, <1>3 DEF FilesInv, DirectoryInv, SealedInv, ReplayInv, SameInputs, Repeated
<1>9. KeptSound'
  BY <1>1, KeptStays, SnapshotParts
<1>10. QED
  BY <1>5, <1>6, <1>7, <1>8, <1>9 DEF SnapshotIInv

LEMMA SealKeeps == ASSUME SnapshotIInv, Seal PROVE SnapshotIInv'
<1> DEFINE n == Len(snapshots) + 1
           unlinked == [test EXCEPT !.of = 0]
<1>1. /\ testPhase = "seal" /\ testPhase' = "simulate" /\ partial' = NoInput
      /\ testResult' = [testResult EXCEPT !.snapshot = Len(snapshots'), !.used = <<>>]
      /\ UNCHANGED <<changesLeft, testsLeft, sourceVars, loaded, test, unread, inputs>>
  BY DEF Seal
<1>2. test.of = 0 /\ testResult.snapshot = 0 /\ unread = <<>>
  BY <1>1, SnapshotParts DEF PhaseInv, ObtainedInv
<1>3. PICK d \in Nat : /\ testResult.used = <<d>>
                       /\ ~testResult.shifted => d = Digest(test, inputs["days"])
  BY <1>1, SnapshotParts DEF DirectoryInv
<1>4. PICK b \in BOOLEAN : ~b /\ b = FALSE
  OBVIOUS
<1> DEFINE made == [kept |-> partial, digest |-> d, damaged |-> b, terms |-> unlinked, result |-> <<>>]
<1>5. snapshots' = Append(snapshots, made)
  <2>1. testResult.used[1] = d
    BY <1>3
  <2>2. snapshots' = Append(snapshots, [kept |-> partial, digest |-> testResult.used[1], damaged |-> FALSE,
                                        terms |-> [test EXCEPT !.of = 0], result |-> <<>>])
    BY DEF Seal
  <2>3. QED
    BY <1>4, <2>1, <2>2
<1>6. unlinked \in RunTerms /\ Asked(unlinked) = Asked(test)
  BY SnapshotParts, AskedLive DEF SnapshotTypes
<1>14. unlinked.mode = test.mode /\ unlinked.compared = test.compared
  BY SnapshotParts, RunFields DEF SnapshotTypes
<1> HIDE DEF unlinked
<1>7. made \in Snapshot
  BY <1>6, SnapshotParts DEF Snapshot, SnapshotTypes
<1>8. /\ made.kept = partial /\ made.digest = d /\ ~made.damaged /\ made.terms = unlinked /\ made.result = <<>>
  BY <1>4
<1> HIDE DEF made
<1>9. /\ snapshots' \in Seq(Snapshot) /\ Len(snapshots') = n /\ Snapshots' = Snapshots \cup {n}
      /\ snapshots'[n] = made /\ \A j \in Snapshots : snapshots'[j] = snapshots[j]
      /\ Len(snapshots) \in Nat /\ n \in Nat
  <2>1. snapshots \in Seq(Snapshot) /\ Len(snapshots) \in Nat
    BY SnapshotParts, SnapshotAt DEF SnapshotTypes
  <2>2. /\ snapshots' \in Seq(Snapshot) /\ Len(snapshots') = Len(snapshots) + 1
        /\ snapshots'[Len(snapshots) + 1] = made
        /\ \A j \in 1..Len(snapshots) : snapshots'[j] = snapshots[j]
    BY <1>5, <1>7, <2>1, Appended
  <2>3. QED
    BY <2>1, <2>2 DEF Snapshots
<1>10. /\ testResult' \in RunResult /\ testResult'.snapshot = n /\ testResult'.shifted = testResult.shifted
  <2> DEFINE r == [snapshot |-> n, warned |-> testResult.warned, shifted |-> testResult.shifted,
                   used |-> testResult.used]
             e == [snapshot |-> n, warned |-> testResult.warned, shifted |-> testResult.shifted,
                   used |-> <<>>]
  <2>1. testResult \in RunResult
    BY SnapshotParts DEF SnapshotTypes
  <2>2. [testResult EXCEPT !.snapshot = n] = r
    BY <2>1, ResultFields
  <2>3. [r EXCEPT !.used = <<>>] = e
    OBVIOUS
  <2>4. testResult' = [testResult EXCEPT !.snapshot = n, !.used = <<>>]
    BY <1>1, <1>9
  <2>5. testResult' = e
    <3> HIDE DEF r, e, n
    <3>1. QED
      BY <2>2, <2>3, <2>4, Zenon
  <2>6. QED
    BY <1>9, <2>1, <2>5, ResultFields DEF RunResult
<1>11. Digest(test, inputs["days"])' = Digest(test, inputs["days"])
  BY <1>1 DEF Digest, sourceVars
<1>12. /\ \A m \in InputName \ Asked(test) : inputs[m] = <<>>
       /\ \A m \in Asked(test) \ {"days"} : inputs[m] # <<>>
       /\ Asked(test) \subseteq InputName
  BY <1>1, <1>2, AllObtained
<1>13. /\ \A m \in InputName \ {"days"} : partial[m] = inputs[m]
       /\ inputs["days"] = <<>> => partial["days"] = <<>>
       /\ ~testResult.shifted => partial["days"] = inputs["days"]
  BY <1>1, SnapshotParts DEF DirectoryInv
<1>15. SnapshotTypes'
  <2>1. test'.of <= Len(snapshots') /\ testResult'.snapshot <= Len(snapshots')
    BY <1>1, <1>2, <1>9, <1>10
  <2>2. QED
    BY <1>1, <1>9, <1>10, <2>1, NoInputType, SnapshotParts DEF SnapshotTypes, sourceVars
<1>16. PhaseInv'
  <2>1. testsLeft \in Nat /\ MaxTests \in Nat /\ Len(snapshots) + testsLeft + 1 <= MaxTests
    BY <1>1, SnapshotParts, SnapshotAssumption DEF PhaseInv, SnapshotTypes
  <2>2. QED
    BY <1>1, <1>9, <2>1 DEF PhaseInv
<1>17. ObtainedInv'
  BY <1>1, SnapshotParts DEF ObtainedInv, Obtained, Asked, Needs
<1>18. FilesInv' /\ DirectoryInv' /\ ReplayInv' /\ SameInputs'
  BY <1>1, <1>2 DEF FilesInv, DirectoryInv, ReplayInv, SameInputs, Repeated
<1>19. SealedInv'
  <2>1. snapshots'[testResult'.snapshot] = made
    BY <1>9, <1>10
  <2>2. ~testResult'.shifted => made.digest = Digest(test, inputs["days"])'
    BY <1>3, <1>8, <1>10, <1>11
  <2>3. ASSUME ~testResult'.shifted PROVE made.kept = inputs'
    <3>1. \A m \in InputName : partial[m] = inputs[m]
      BY <1>10, <1>13, <2>3
    <3>2. partial \in [InputName -> InputValue] /\ inputs \in [InputName -> InputValue]
      BY SnapshotParts DEF SnapshotTypes, Inputs
    <3>3. partial = inputs
      BY <3>1, <3>2
    <3>4. QED
      BY <1>1, <1>8, <3>3
  <2>4. made.terms = [test' EXCEPT !.of = 0]
    BY <1>1, <1>8 DEF unlinked
  <2>5. QED
    BY <2>1, <2>2, <2>3, <2>4 DEF SealedInv
<1>20. KeptSound'
  <2>1. KeptOf(made)
    BY <1>8 DEF KeptOf
  <2>2. WholeOf(made)
    <3>1. \A m \in Asked(made.terms) \ {"days"} : made.kept[m] # <<>>
      BY <1>6, <1>8, <1>12, <1>13
    <3>2. made.terms.mode # "filtering" => made.kept["days"] = <<>>
      <4>1. test.mode # "filtering" => "days" \notin Asked(test)
        BY SnapshotParts, AskedLive DEF SnapshotTypes
      <4>2. QED
        BY <1>8, <1>12, <1>13, <1>14, <4>1 DEF InputName
    <3>3. made.kept["regime"] # <<>> => made.terms.compared
      <4>1. "regime" \in Asked(test) => test.compared
        BY SnapshotParts, AskedLive DEF SnapshotTypes
      <4>2. "regime" \in InputName \ {"days"}
        BY DEF InputName
      <4>3. QED
        BY <1>8, <1>12, <1>13, <1>14, <4>1, <4>2
    <3>4. QED
      BY <3>1, <3>2, <3>3 DEF WholeOf
  <2>3. ASSUME NEW k \in Snapshots' PROVE KeptOf(snapshots'[k]) /\ WholeOf(snapshots'[k])
    <3>1. CASE k = n
      BY <1>9, <2>1, <2>2, <3>1
    <3>2. CASE k # n
      <4>1. k \in Snapshots
        BY <1>9, <2>3, <3>2
      <4>2. QED
        BY <1>9, <4>1, SnapshotParts DEF KeptSound
    <3>3. QED
      BY <3>1, <3>2
  <2>4. QED
    BY <2>3 DEF KeptSound
<1>21. QED
  BY <1>15, <1>16, <1>17, <1>18, <1>19, <1>20 DEF SnapshotIInv

\* What a run used is what it has obtained, and the digest of the minute bars it read.
LEMMA UsedType ==
    ASSUME SnapshotTypes
    PROVE  <<inputs, Digest(test, inputs["days"])>> \in Used
BY DigestType DEF SnapshotTypes, Used

LEMMA SimulateKeeps == ASSUME SnapshotIInv, Simulate PROVE SnapshotIInv'
<1> DEFINE d == Digest(test, inputs["days"])
           used == <<inputs, d>>
<1>1. /\ testPhase = "simulate" /\ testPhase' = "idle" /\ unread' = <<>> /\ inputs' = NoInput
      /\ testResult' = [testResult EXCEPT !.used = used]
      /\ UNCHANGED <<changesLeft, testsLeft, sourceVars, partial, loaded, test>>
  BY DEF Simulate
<1>2. used \in Used /\ used[1] = inputs /\ used[2] = d /\ used # <<>>
  BY SnapshotParts, UsedType
<1> HIDE DEF used, d
<1>3. /\ testResult' \in RunResult /\ testResult'.snapshot = testResult.snapshot
      /\ testResult'.warned = testResult.warned /\ testResult'.shifted = testResult.shifted
      /\ testResult'.used = used
  <2>1. used \in {<<>>} \cup {<<v>> : v \in Nat} \cup Used /\ testResult \in RunResult
    BY <1>2, SnapshotParts DEF SnapshotTypes
  <2>2. QED
    BY <1>1, <2>1, UsedAs
<1>4. unread = <<>>
  BY <1>1, SnapshotParts DEF ObtainedInv
<1>5. /\ Obtained = Asked(test) /\ Asked(test) \subseteq InputName
      /\ \A n \in InputName \ Asked(test) : inputs[n] = <<>>
  BY <1>1, <1>4, AllObtained
<1>6. /\ Len(snapshots) \in Nat /\ testsLeft \in Nat /\ MaxTests \in Nat
      /\ Len(snapshots) + testsLeft + 0 <= MaxTests
  BY <1>1, SnapshotParts, SnapshotAt, SnapshotAssumption DEF PhaseInv, SnapshotTypes
<1>7. ObtainedInv' /\ FilesInv' /\ DirectoryInv' /\ SealedInv' /\ ReplayInv'
  BY <1>1 DEF ObtainedInv, FilesInv, DirectoryInv, SealedInv, ReplayInv
<1>8. CASE ~(testResult.snapshot # 0 /\ test.of = 0)
  <2>1. snapshots' = snapshots
    BY <1>8 DEF Simulate
  <2>2. SnapshotTypes'
    BY <1>1, <1>3, <2>1, NoInputType, SnapshotParts DEF SnapshotTypes, sourceVars
  <2>3. PhaseInv'
    BY <1>1, <1>6, <2>1 DEF PhaseInv
  <2>4. KeptSound'
    BY <2>1, KeptStays, SnapshotParts
  <2>5. SameInputs'
    <3> SUFFICES ASSUME test.of # 0, ~testResult.warned, ~testResult.shifted,
                        snapshots[test.of].result # <<>>
                 PROVE  LET first == snapshots[test.of].result
                        IN  /\ used[2] = first[2]
                            /\ \A n \in InputName \ {"regime"} : used[1][n] = first[1][n]
                            /\ first[1]["regime"] # <<>> => used[1]["regime"] = first[1]["regime"]
      BY <1>1, <1>3, <2>1 DEF SameInputs, Repeated
    <3>1. PICK s : s = snapshots[test.of]
      OBVIOUS
    <3>2. test.of \in Snapshots
      BY SnapshotParts, RunFields, SnapshotAt DEF SnapshotTypes, Snapshots
    <3>3. /\ s.result[2] = s.digest /\ \A n \in InputName \ Asked(s.terms) : s.result[1][n] = <<>>
      BY <3>1, <3>2, SnapshotParts DEF KeptSound, KeptOf
    <3>4. s \in Snapshot /\ s.terms \in RunTerms /\ test \in RunTerms
      BY <3>1, <3>2, SnapshotParts, SnapshotAt, SnapshotFields DEF SnapshotTypes
    <3>5. ReplayOf(s)
      BY <1>1, <3>1, SnapshotParts DEF ReplayInv
    <3>6. /\ test.mode = s.terms.mode /\ (s.terms.compared => test.compared)
          /\ \A n \in Obtained \ {"days"} : inputs[n] = loaded[n]
          /\ \A n \in InputName \ {"days"} : loaded[n] = s.result[1][n]
          /\ "days" \in Obtained => inputs["days"] = s.result[1]["days"]
          /\ d = s.digest
      BY <1>1, <3>1, <3>5 DEF ReplayOf, d
    <3>7. Asked(s.terms) \subseteq Asked(test) /\ Asked(test) \subseteq Asked(s.terms) \cup {"regime"}
      BY <3>4, <3>6, AskedMore
    <3>8. \A n \in Asked(test) : inputs[n] = s.result[1][n]
      BY <1>5, <3>6
    <3>9. \A n \in InputName \ {"regime"} : inputs[n] = s.result[1][n]
      <4>1. TAKE n \in InputName \ {"regime"}
      <4>2. CASE n \in Asked(test)
        BY <3>8, <4>2
      <4>3. CASE n \notin Asked(test)
        BY <1>5, <3>3, <3>7, <4>3
      <4>4. QED
        BY <4>2, <4>3
    <3>10. s.result[1]["regime"] # <<>> => inputs["regime"] = s.result[1]["regime"]
      BY <3>3, <3>7, <3>8 DEF InputName
    <3>11. QED
      BY <1>2, <3>1, <3>3, <3>6, <3>9, <3>10
  <2>6. QED
    BY <1>7, <2>2, <2>3, <2>4, <2>5 DEF SnapshotIInv
<1>9. CASE testResult.snapshot # 0 /\ test.of = 0
  <2> DEFINE k == testResult.snapshot
             s == snapshots[k]
             told == IF testResult.shifted THEN <<>> ELSE used
             done == [kept |-> s.kept, digest |-> s.digest, damaged |-> s.damaged, terms |-> s.terms,
                      result |-> told]
  <2>1. snapshots \in Seq(Snapshot) /\ k \in Snapshots /\ k \in 1..Len(snapshots) /\ s \in Snapshot
    BY <1>9, SnapshotParts, ResultFields, SnapshotAt DEF SnapshotTypes, Snapshots
  <2>2. snapshots' = [snapshots EXCEPT ![k].result = told]
    <3>1. snapshots' = [snapshots EXCEPT ![testResult.snapshot].result =
                            IF testResult.shifted THEN <<>> ELSE testResult'.used]
      BY <1>9, Zenon DEF Simulate
    <3>2. (IF testResult.shifted THEN <<>> ELSE testResult'.used) = told
      BY <1>3
    <3> HIDE DEF told
    <3>3. QED
      BY <3>1, <3>2, Zenon
  <2>3. /\ s.kept \in Inputs /\ s.digest \in Nat /\ s.damaged \in BOOLEAN /\ s.terms \in RunTerms
    BY <2>1, SnapshotFields
  <2>4. told \in {<<>>} \cup Used
    BY <1>2
  <2>5. done \in Snapshot
    BY <2>3, <2>4 DEF Snapshot
  <2>6. [s EXCEPT !.result = told] = done
    <3> HIDE DEF s, told
    <3>1. QED
      BY <2>1, SnapshotFields
  <2>7. snapshots' = [snapshots EXCEPT ![k] = done]
    BY <2>1, <2>2, <2>6
  <2>8. /\ done.kept = s.kept /\ done.digest = s.digest /\ done.terms = s.terms /\ done.result = told
        /\ (done.damaged <=> s.damaged)
    BY <2>3
  <2> HIDE DEF done
  <2>9. /\ snapshots' \in Seq(Snapshot) /\ Len(snapshots') = Len(snapshots) /\ Snapshots' = Snapshots
        /\ snapshots'[k] = done /\ \A j \in Snapshots : j # k => snapshots'[j] = snapshots[j]
    BY <2>1, <2>5, <2>7, ReplacedAt DEF Snapshots
  <2>10. /\ s.terms = [test EXCEPT !.of = 0]
         /\ ~testResult.shifted => s.digest = d /\ (~s.damaged => s.kept = inputs)
    BY <1>1, <1>9, SnapshotParts DEF SealedInv, d
  <2>11. Asked(s.terms) = Asked(test)
    BY <2>10, SnapshotParts, AskedLive DEF SnapshotTypes
  <2> HIDE DEF s
  <2>12. KeptOf(done)
    <3>1. told # <<>> => ~testResult.shifted /\ told = used
      OBVIOUS
    <3> HIDE DEF told
    <3>2. QED
      BY <1>2, <1>5, <2>8, <2>10, <2>11, <3>1 DEF KeptOf
  <2>13. WholeOf(done)
    <3>1. WholeOf(s)
      BY <2>1, SnapshotParts DEF KeptSound, s
    <3>2. QED
      BY <2>8, <3>1 DEF WholeOf
  <2>14. KeptSound'
    <3>1. ASSUME NEW j \in Snapshots' PROVE KeptOf(snapshots'[j]) /\ WholeOf(snapshots'[j])
      BY <2>9, <2>12, <2>13, SnapshotParts DEF KeptSound
    <3>2. QED
      BY <3>1 DEF KeptSound
  <2>15. SnapshotTypes'
    BY <1>1, <1>3, <2>9, NoInputType, SnapshotParts DEF SnapshotTypes, sourceVars
  <2>16. PhaseInv'
    BY <1>1, <1>6, <2>9 DEF PhaseInv
  <2>17. SameInputs'
    BY <1>1, <1>9 DEF SameInputs, Repeated
  <2>18. QED
    BY <1>7, <2>14, <2>15, <2>16, <2>17 DEF SnapshotIInv
<1>10. QED
  BY <1>8, <1>9

LEMMA SnapshotStutters == ASSUME SnapshotIInv, UNCHANGED snapshotVars PROVE SnapshotIInv'
<1>1. /\ UNCHANGED <<changesLeft, testsLeft, published, feed, minuteBars, snapshots, partial, loaded>>
      /\ UNCHANGED <<testPhase, test, unread, inputs, testResult>>
  BY DEF snapshotVars
<1>2. SnapshotTypes' /\ PhaseInv' /\ KeptSound'
  BY <1>1, KeptStays, SnapshotParts DEF SnapshotTypes, PhaseInv
<1>3. /\ Digest(test, inputs["days"])' = Digest(test, inputs["days"]) /\ FilesNow' = FilesNow
      /\ Obtained' = Obtained /\ Asked(test)' = Asked(test)
  BY <1>1 DEF Digest, FilesNow, Obtained, Asked, Needs
<1>4. ObtainedInv' /\ FilesInv'
  BY <1>1, <1>3, SnapshotParts DEF ObtainedInv, FilesInv
<1>5. DirectoryInv'
  <2>1. CASE testPhase # "seal"
    BY <1>1, <2>1 DEF DirectoryInv
  <2>2. CASE testPhase = "seal"
    <3>1. PICK d \in Nat : /\ testResult.used = <<d>>
                           /\ ~testResult.shifted => d = Digest(test, inputs["days"])
      BY <2>2, SnapshotParts DEF DirectoryInv
    <3>2. ~testResult'.shifted => d = Digest(test, inputs["days"])'
      BY <1>1, <1>3, <3>1
    <3>3. /\ \A n \in InputName \ {"days"} : partial'[n] = inputs'[n]
          /\ inputs'["days"] = <<>> => partial'["days"] = <<>>
          /\ ~testResult'.shifted => partial'["days"] = inputs'["days"]
      BY <1>1, <2>2, SnapshotParts DEF DirectoryInv
    <3>4. QED
      BY <1>1, <3>1, <3>2, <3>3 DEF DirectoryInv
  <2>3. QED
    BY <2>1, <2>2
<1>6. SealedInv' /\ SameInputs'
  BY <1>1, <1>3, SnapshotParts DEF SealedInv, SameInputs, Repeated
<1>7. ReplayInv'
  BY <1>1, <1>3, SnapshotParts DEF ReplayInv, ReplayOf
<1>8. QED
  BY <1>2, <1>4, <1>5, <1>6, <1>7 DEF SnapshotIInv

LEMMA SnapshotInductive == SnapshotIInv /\ [SnapshotNext]_snapshotVars => SnapshotIInv'
<1> SUFFICES ASSUME SnapshotIInv, [SnapshotNext]_snapshotVars PROVE SnapshotIInv'
  OBVIOUS
<1>1. ASSUME NEW k \in DOMAIN snapshots, FileDamaged(k) PROVE SnapshotIInv'
  BY <1>1, FileDamagedKeeps
<1>2. ASSUME NEW mode \in Mode, NEW fine \in BOOLEAN, NEW compared \in BOOLEAN,
             StartTest(mode, fine, compared)
      PROVE  SnapshotIInv'
  BY <1>2, StartTestKeeps
<1>3. ASSUME NEW k \in DOMAIN snapshots, NEW compared \in BOOLEAN, StartReplay(k, compared)
      PROVE  SnapshotIInv'
  BY <1>3, StartReplayKeeps
<1>4. CASE ObtainRaises
  BY <1>4, TestEnds DEF ObtainRaises
<1>5. CASE TestDies
  BY <1>5, TestEnds DEF TestDies
<1>6. CASE UNCHANGED snapshotVars
  BY <1>6, SnapshotStutters
<1>7. QED
  BY <1>1, <1>2, <1>3, <1>4, <1>5, <1>6, SourceChangesKeeps, ObtainKeeps, CheckpointKeeps,
     WriteInputsKeeps, SealKeeps, SnapshotFailsKeeps, SimulateKeeps DEF SnapshotNext, Mode

LEMMA SnapshotSafe == SnapshotIInv => SnapshotTypeOK /\ ReplaySound
<1> SUFFICES ASSUME SnapshotIInv PROVE SnapshotTypeOK /\ ReplaySound
  OBVIOUS
<1>1. /\ Len(snapshots) \in Nat /\ testsLeft \in Nat /\ MaxTests \in Nat /\ Len(snapshots) + testsLeft <= MaxTests
  BY SnapshotParts, SnapshotAt, SnapshotAssumption DEF PhaseInv, SnapshotTypes
<1>2. test.of \in Nat /\ testResult.snapshot \in Nat
  BY SnapshotParts, RunFields, ResultFields DEF SnapshotTypes
<1>3. SnapshotTypeOK
  BY <1>1, <1>2, SnapshotParts DEF SnapshotTypeOK, SnapshotTypes
<1>4. Whole
  <2>1. DOMAIN snapshots = Snapshots
    BY SnapshotParts, SnapshotAt DEF SnapshotTypes
  <2>2. \A k \in Snapshots : WholeOf(snapshots[k])
    BY SnapshotParts DEF KeptSound
  <2>3. QED
    BY <2>1, <2>2 DEF Whole, WholeOf, Asked
<1>5. QED
  BY <1>3, <1>4, SnapshotParts DEF ReplaySound

\* Of the saved runs of BacktestSnapshot: a run of a snapshot that ends without a warning has
\* used what the run that kept it used, and every kept snapshot has all that its run needs,
\* whatever changed at the sources, failed, died or was damaged in between.
THEOREM AlwaysReplayedSoundly == SnapshotSpec => [](SnapshotTypeOK /\ ReplaySound)
<1>1. SnapshotSpec => []SnapshotIInv
  BY SnapshotInitially, SnapshotInductive, PTL DEF SnapshotSpec
<1>2. QED
  BY <1>1, SnapshotSafe, PTL

-----------------------------------------------------------------------------
(* Backtest. The invariant of the accounts goes through the folds over the symbols of a    *)
(* minute: FoldKeeps carries what holds of the book from one symbol to the next.          *)

Reason == {"ATR_DANGER_SKIP", "MARKET_REGIME_DANGER_SKIP", "MARKET_REGIME_CAUTION_RSI_FILTER"}

Book == [cash : Nat, qty : [Replays -> Nat], paid : [Replays -> Nat], entry : [Replays -> Nat],
         top : [Replays -> Nat], since : [Replays -> Nat], realized : Int,
         noted : SUBSET (Reason \X Replays), left : SUBSET Replays]

\* What no action changes, and what is chosen for a day.
InputTypes ==
    /\ terms \in Terms
    /\ series \in Series
    /\ climate \in [regime : Climate, level : Climate \cup {"unknown"}, active : SUBSET Replays]

BarsUpTo(s, k) == {i \in 1..k : series[s][i] # 0}

Balanced(b) == b.cash + SumOver(b.paid, Replays) = StartingCash + b.realized
Sound(b) == Balanced(b) /\ \A s \in Replays : b.qty[s] = 0 => b.paid[s] = 0

LEMMA BacktestConstants ==
    /\ Instants \in Nat /\ Instants >= 1 /\ Sessions \in Nat /\ Sessions >= 1 /\ TARGET \in Nat /\ TARGET >= 1
    /\ FIXED_QTY \in Nat
    /\ FEE \in Nat /\ FEE <= 100 /\ SLIPPAGE \in Nat /\ SLIPPAGE <= 100
    /\ ATR \in Nat /\ LOCK \in Nat /\ StartingCash \in Nat /\ CAP \in Nat /\ MIN_CLOSES \in Nat
BY BacktestAssumption

LEMMA ReplayedSymbols ==
    /\ Len(Replayed) \in Nat /\ DOMAIN Replayed = 1..Len(Replayed)
    /\ Replayed \in [1..Len(Replayed) -> Replays]
    /\ \A s \in Replays : \E k \in 1..Len(Replayed) : Replayed[k] = s
    /\ \A j, k \in 1..Len(Replayed) : Replayed[j] = Replayed[k] => j = k
    /\ IsFiniteSet(Replays)
<1>1. Replayed \in Seq(Replays)
  BY BacktestAssumption
<1>2. /\ Len(Replayed) \in Nat /\ DOMAIN Replayed = 1..Len(Replayed)
      /\ Replayed \in [1..Len(Replayed) -> Replays]
  BY <1>1
<1>3. \A s \in Replays : \E k \in 1..Len(Replayed) : Replayed[k] = s
  BY <1>2 DEF Replays, ToSet
<1>4. \A j, k \in 1..Len(Replayed) : Replayed[j] = Replayed[k] => j = k
  BY <1>2, BacktestAssumption DEF IsInjective
<1>5. IsFiniteSet(Replays)
  <2>1. Replayed \in Surjection(1..Len(Replayed), Replays)
    BY <1>2, <1>3 DEF Surjection
  <2>2. QED
    BY <1>2, <2>1, FS_Interval, FS_Surjection
<1>6. QED
  BY <1>2, <1>3, <1>4, <1>5

LEMMA CourseType ==
    ASSUME InputTypes, NEW s \in Replays
    PROVE  series[s] \in [1..Instants -> Nat]
<1>1. Tape \subseteq [1..Instants -> Nat]
  BY BacktestAssumption
<1>2. QED
  BY <1>1 DEF InputTypes, Series

LEMMA Hundredth ==
    ASSUME NEW n \in Nat, NEW m \in Nat, m <= 100 * n
    PROVE  m \div 100 \in Nat /\ m \div 100 <= n
OBVIOUS

\* A fee is at most what it is a fee of.
LEMMA FeeType ==
    ASSUME NEW n \in Nat
    PROVE  Fee(n) \in Nat /\ Fee(n) <= n
<1>1. n * FEE \in Nat /\ n * FEE <= 100 * n
  <2>1. FEE \in Nat /\ FEE <= 100
    BY BacktestConstants
  <2>2. n * FEE \in Nat
    BY <2>1
  <2>3. n * (100 - FEE) \in Nat
    BY <2>1
  <2>4. n * FEE + n * (100 - FEE) = 100 * n
    BY <2>1
  <2>5. QED
    BY <2>2, <2>3, <2>4
<1>2. QED
  BY <1>1, Hundredth DEF Fee

\* The bar of the execution is one of the day, at or after that of the signal.
LEMMA FillType ==
    ASSUME InputTypes, NEW s \in Replays, NEW i \in 1..Instants, series[s][i] # 0, NEW side
    PROVE  Fill(side, s, i) \in Nat
<1> DEFINE priced == {j \in i..Instants : series[s][j] # 0}
           near == {j \in priced : Cardinality({k \in priced : k < j}) <= terms.delay}
<1>1. Instants \in Nat /\ SLIPPAGE \in Nat /\ SLIPPAGE <= 100 /\ series[s] \in [1..Instants -> Nat]
  BY BacktestConstants, CourseType
<1>2. terms.delay \in Nat
  <2>1. Terms \subseteq [order : {"market", "limit"}, delay : Nat, overnight : BOOLEAN,
                       targeted : BOOLEAN, daily : BOOLEAN, stop : 0..100]
    BY BacktestAssumption
  <2>2. QED
    BY <2>1 DEF InputTypes
<1>3. i \in near
  <2>1. i \in priced
    BY <1>1
  <2>2. {k \in priced : k < i} = {}
    BY <1>1
  <2>3. Cardinality({k \in priced : k < i}) = 0
    BY <2>2, FS_EmptySet
  <2> HIDE DEF priced
  <2>4. QED
    BY <1>2, <2>1, <2>3
<1>4. near \in SUBSET (0..Instants) /\ near \in SUBSET (1..Instants)
  BY <1>1
<1>5. Max(near) \in 1..Instants
  <2> HIDE DEF near
  <2>1. near # {}
    BY <1>3
  <2>2. Max(near) \in near
    BY <1>1, <1>4, <2>1, Largest
  <2>3. QED
    BY <1>4, <2>2
<1>6. Delayed(s, i) \in Nat
  <2>1. Delayed(s, i) = series[s][Max(near)]
    BY DEF Delayed
  <2> HIDE DEF near
  <2>2. QED
    BY <1>1, <1>5, <2>1
<1>7. ASSUME NEW p \in Nat, NEW m \in 0..200 PROVE (p * m) \div 100 \in Nat
  <2>1. p * m \in Nat
    OBVIOUS
  <2>2. QED
    BY <2>1
<1>8. 100 + SLIPPAGE \in 0..200 /\ 100 - SLIPPAGE \in 0..200
  BY <1>1
<1>9. series[s][i] \in Nat
  BY <1>1
<1>10. QED
  BY <1>6, <1>7, <1>8, <1>9 DEF Fill

\* What is sold of a symbol, for the price of a bar.
Amount(b, s, i) == Fill("SELL", s, i) * b.qty[s]

\* What a sale changes but the money.
SaleOf(b, d, s) ==
    /\ d.qty = [b.qty EXCEPT ![s] = 0] /\ d.paid = [b.paid EXCEPT ![s] = 0]
    /\ d.since = [b.since EXCEPT ![s] = 0]
    /\ d.noted = b.noted
    /\ d.left = b.left \cup {s}

\* A sale with what is then in cash and has been realized
SoldFor(b, d, s, e, n) == d.cash = e /\ d.realized = n /\ SaleOf(b, d, s)

LEMMA BookSold ==
    ASSUME NEW b \in Book, NEW s \in Replays, NEW e, NEW n, NEW d,
           d = [b EXCEPT !.cash = e, !.realized = n, !.qty[s] = 0, !.paid[s] = 0, !.entry[s] = 0,
                         !.top[s] = 0, !.since[s] = 0, !.left = @ \cup {s}]
    PROVE  SoldFor(b, d, s, e, n)
<1>1. d.cash = e /\ d.realized = n
  BY DEF Book
<1>2. d.qty = [b.qty EXCEPT ![s] = 0] /\ d.paid = [b.paid EXCEPT ![s] = 0]
  BY DEF Book
<1>3. d.since = [b.since EXCEPT ![s] = 0]
  BY DEF Book
<1>4. d.noted = b.noted /\ d.left = b.left \cup {s}
  BY DEF Book
<1>5. QED
  BY <1>1, <1>2, <1>3, <1>4 DEF SoldFor, SaleOf

LEMMA ClosedFields ==
    ASSUME NEW b \in Book, NEW s \in Replays, NEW i
    PROVE  /\ SaleOf(b, Closed(b, s, i), s)
           /\ Closed(b, s, i).cash = b.cash + Amount(b, s, i) - Fee(Amount(b, s, i))
           /\ Closed(b, s, i).realized = b.realized + Amount(b, s, i) - Fee(Amount(b, s, i)) - b.paid[s]
<1>1. PICK e, n : /\ e = b.cash + Amount(b, s, i) - Fee(Amount(b, s, i))
                  /\ n = b.realized + Amount(b, s, i) - Fee(Amount(b, s, i)) - b.paid[s]
  OBVIOUS
<1>2. PICK d : d = Closed(b, s, i)
  OBVIOUS
<1>3. d = [b EXCEPT !.cash = e, !.realized = n, !.qty[s] = 0, !.paid[s] = 0, !.entry[s] = 0,
                    !.top[s] = 0, !.since[s] = 0, !.left = @ \cup {s}]
  BY <1>1, <1>2, Zenon DEF Closed, Amount
<1>4. SoldFor(b, d, s, e, n)
  BY <1>3, BookSold, Zenon
<1>5. QED
  BY <1>1, <1>2, <1>4, Zenon DEF SoldFor

\* What a sale brings is at least nothing.
LEMMA Proceeds ==
    ASSUME InputTypes, NEW b \in Book, NEW s \in Replays, NEW i \in 1..Instants, series[s][i] # 0
    PROVE  /\ Amount(b, s, i) \in Nat /\ Fee(Amount(b, s, i)) \in Nat
           /\ Amount(b, s, i) - Fee(Amount(b, s, i)) \in Nat
<1> DEFINE amount == Amount(b, s, i)
<1>1. Fill("SELL", s, i) \in Nat /\ b.qty[s] \in Nat
  BY FillType DEF Book
<1>2. amount \in Nat
  BY <1>1 DEF Amount
<1>3. Fee(amount) \in Nat /\ Fee(amount) <= amount
  BY <1>2, FeeType
<1>4. QED
  BY <1>2, <1>3

LEMMA BookAfterSale ==
    ASSUME NEW b \in Book, NEW s \in Replays, NEW e \in Nat, NEW n \in Int
    PROVE  [b EXCEPT !.cash = e, !.realized = n, !.qty[s] = 0, !.paid[s] = 0, !.entry[s] = 0,
                     !.top[s] = 0, !.since[s] = 0, !.left = @ \cup {s}] \in Book
BY DEF Book

LEMMA ClosedType ==
    ASSUME InputTypes, NEW b \in Book, NEW s \in Replays, NEW i \in 1..Instants, series[s][i] # 0
    PROVE  Closed(b, s, i) \in Book
<1> DEFINE amount == Amount(b, s, i)
           c1 == b.cash + amount - Fee(amount)
           c2 == b.realized + amount - Fee(amount) - b.paid[s]
<1>1. c1 \in Nat /\ c2 \in Int
  <2>1. amount \in Nat /\ Fee(amount) \in Nat /\ amount - Fee(amount) \in Nat
    BY Proceeds
  <2>2. b.cash \in Nat /\ b.realized \in Int /\ b.paid[s] \in Nat
    BY DEF Book
  <2>3. QED
    BY <2>1, <2>2
<1>2. Closed(b, s, i) = [b EXCEPT !.cash = c1, !.realized = c2, !.qty[s] = 0, !.paid[s] = 0, !.entry[s] = 0,
                                  !.top[s] = 0, !.since[s] = 0, !.left = @ \cup {s}]
  BY Zenon DEF Closed, Book, Amount
<1> HIDE DEF c1, c2
<1>3. QED
  <2>1. [b EXCEPT !.cash = c1, !.realized = c2, !.qty[s] = 0, !.paid[s] = 0, !.entry[s] = 0,
                  !.top[s] = 0, !.since[s] = 0, !.left = @ \cup {s}] \in Book
    BY <1>1, BookAfterSale
  <2>2. QED
    BY <1>2, <2>1

LEMMA ClosedSound ==
    ASSUME InputTypes, NEW b \in Book, NEW s \in Replays, NEW i \in 1..Instants, series[s][i] # 0, Sound(b)
    PROVE  Sound(Closed(b, s, i))
<1>1. SaleOf(b, Closed(b, s, i), s)
  BY ClosedFields
<1>2. /\ Closed(b, s, i).cash = b.cash + Amount(b, s, i) - Fee(Amount(b, s, i))
      /\ Closed(b, s, i).realized = b.realized + Amount(b, s, i) - Fee(Amount(b, s, i)) - b.paid[s]
  BY ClosedFields, Zenon
<1>3. PICK d, amount : d = Closed(b, s, i) /\ amount = Amount(b, s, i)
  OBVIOUS
<1>4. /\ d.cash = b.cash + amount - Fee(amount)
      /\ d.realized = b.realized + amount - Fee(amount) - b.paid[s]
      /\ d.qty = [b.qty EXCEPT ![s] = 0] /\ d.paid = [b.paid EXCEPT ![s] = 0]
  BY <1>1, <1>2, <1>3, Zenon DEF SaleOf
<1>5. amount \in Nat /\ Fee(amount) \in Nat
  BY <1>3, Proceeds
<1>6. /\ b.cash \in Nat /\ b.realized \in Int /\ b.paid \in [Replays -> Nat] /\ b.qty \in [Replays -> Nat]
       /\ StartingCash \in Nat
  BY BacktestConstants DEF Book
<1>7. SumOver(d.paid, Replays) = SumOver(b.paid, Replays) - b.paid[s]
  <2>1. b.paid \in [Replays -> Int] /\ d.paid \in [Replays -> Int] /\ d.paid[s] = 0
        /\ \A r \in Replays \ {s} : b.paid[r] = d.paid[r]
    BY <1>4, <1>6
  <2>2. IsFiniteSet(Replays)
    BY ReplayedSymbols
  <2>3. SumOver(d.paid, Replays) = SumOver(b.paid, Replays) + d.paid[s] - b.paid[s]
    BY <2>1, <2>2, SumDiffers
  <2>4. SumOver(b.paid, Replays) \in Int
    BY <2>1, <2>2, SumType
  <2>5. QED
    BY <1>6, <2>1, <2>3, <2>4
<1>8. SumOver(b.paid, Replays) \in Int
  <2>1. b.paid \in [Replays -> Int]
    BY <1>6
  <2>2. QED
    BY <2>1, ReplayedSymbols, SumType
<1>9. Balanced(d)
  <2>1. b.paid[s] \in Nat
    BY <1>6
  <2>2. QED
    BY <1>4, <1>5, <1>6, <1>7, <1>8, <2>1 DEF Balanced, Sound
<1>10. ASSUME NEW r \in Replays, d.qty[r] = 0 PROVE d.paid[r] = 0
  <2>1. CASE r = s
    BY <1>4, <1>6, <2>1
  <2>2. CASE r # s
    BY <1>4, <1>6, <1>10, <2>2 DEF Sound
  <2>3. QED
    BY <2>1, <2>2
<1>11. QED
  BY <1>3, <1>9, <1>10 DEF Sound

LEMMA RaisedFields ==
    ASSUME InputTypes, NEW b \in Book, NEW s \in Replays, NEW i \in 1..Instants
    PROVE  /\ Raised(b, s, i) \in Book
           /\ Raised(b, s, i).cash = b.cash /\ Raised(b, s, i).realized = b.realized
           /\ Raised(b, s, i).qty = b.qty /\ Raised(b, s, i).paid = b.paid
           /\ Raised(b, s, i).since = b.since
           /\ Raised(b, s, i).noted = b.noted /\ Raised(b, s, i).left = b.left
<1>1. series[s][i] \in Nat
  BY CourseType
<1>2. CASE b.qty[s] > 0 /\ series[s][i] > b.top[s]
  <2>1. PICK p \in Nat : p = series[s][i]
    BY <1>1
  <2>2. PICK d : d = Raised(b, s, i)
    OBVIOUS
  <2>3. d = [b EXCEPT !.top[s] = p]
    BY <1>2, <2>1, <2>2 DEF Raised
  <2>4. d \in Book
    BY <2>3 DEF Book
  <2>5. d.cash = b.cash /\ d.realized = b.realized /\ d.qty = b.qty
    BY <2>3 DEF Book
  <2>6. d.paid = b.paid /\ d.since = b.since
    BY <2>3 DEF Book
  <2>7. d.noted = b.noted /\ d.left = b.left
    BY <2>3 DEF Book
  <2>8. QED
    BY <2>2, <2>4, <2>5, <2>6, <2>7
<1>3. CASE ~(b.qty[s] > 0 /\ series[s][i] > b.top[s])
  BY <1>3 DEF Raised
<1>4. QED
  BY <1>2, <1>3

LEMMA RaisedSound ==
    ASSUME InputTypes, NEW b \in Book, NEW s \in Replays, NEW i \in 1..Instants, Sound(b)
    PROVE  Sound(Raised(b, s, i))
<1>1. PICK d : d = Raised(b, s, i)
  OBVIOUS
<1>2. d.cash = b.cash /\ d.realized = b.realized /\ d.qty = b.qty /\ d.paid = b.paid
  BY <1>1, RaisedFields
<1>3. Sound(d)
  BY <1>2 DEF Sound, Balanced
<1>4. QED
  BY <1>1, <1>3

\* What is paid for so many of a symbol, at the price of a bar.
Expense(s, i, quantity) == Fill("BUY", s, i) * quantity

\* What a purchase changes but the money.
PurchaseOf(b, d, s, i, quantity) ==
    /\ d.qty = [b.qty EXCEPT ![s] = quantity]
    /\ d.since = [b.since EXCEPT ![s] = i]
    /\ d.noted = b.noted /\ d.left = b.left

LEMMA Expenses ==
    ASSUME InputTypes, NEW s \in Replays, NEW i \in 1..Instants, series[s][i] # 0, NEW quantity \in Nat
    PROVE  Expense(s, i, quantity) \in Nat /\ Fee(Expense(s, i, quantity)) \in Nat
<1>1. Fill("BUY", s, i) \in Nat
  BY FillType
<1>2. Expense(s, i, quantity) \in Nat
  BY <1>1 DEF Expense
<1>3. QED
  BY <1>2, FeeType

LEMMA BookAfterPurchase ==
    ASSUME NEW b \in Book, NEW s \in Replays, NEW e \in Nat, NEW p \in Nat, NEW n \in Nat, NEW i \in Nat,
           NEW quantity \in Nat
    PROVE  [b EXCEPT !.cash = e, !.qty[s] = quantity, !.paid[s] = p, !.entry[s] = n, !.top[s] = n,
                     !.since[s] = i] \in Book
BY DEF Book

LEMMA BookPurchased ==
    ASSUME NEW b \in Book, NEW s \in Replays, NEW e, NEW p, NEW n, NEW i, NEW quantity, NEW d,
           d = [b EXCEPT !.cash = e, !.qty[s] = quantity, !.paid[s] = p, !.entry[s] = n, !.top[s] = n,
                         !.since[s] = i]
    PROVE  PurchaseOf(b, d, s, i, quantity)
<1>1. d.qty = [b.qty EXCEPT ![s] = quantity] /\ d.since = [b.since EXCEPT ![s] = i]
  BY DEF Book
<1>2. d.noted = b.noted /\ d.left = b.left
  BY DEF Book
<1>3. QED
  BY <1>1, <1>2 DEF PurchaseOf

\* A purchase leaves everything as it was, or it is of the quantity and paid for in full.
LEMMA AcquiredSound ==
    ASSUME InputTypes, NEW b \in Book, NEW s \in Replays, NEW i \in 1..Instants, series[s][i] # 0,
           NEW quantity \in Nat
    PROVE  /\ Acquired(b, s, i, quantity) \in Book
           /\ Sound(b) /\ b.qty[s] = 0 => Sound(Acquired(b, s, i, quantity))
           /\ \/ Acquired(b, s, i, quantity) = b
              \/ quantity > 0 /\ PurchaseOf(b, Acquired(b, s, i, quantity), s, i, quantity)
<1>1. CASE quantity = 0 \/ ~Payable(b, s, i, quantity)
  BY <1>1 DEF Acquired
<1>2. CASE quantity # 0 /\ Payable(b, s, i, quantity)
  <2>1. PICK amount : amount = Expense(s, i, quantity)
    OBVIOUS
  <2>2. PICK fee : fee = Fee(amount)
    OBVIOUS
  <2>3. PICK n \in Nat : n = Fill("BUY", s, i)
    BY FillType
  <2>4. PICK d : d = Acquired(b, s, i, quantity)
    OBVIOUS
  <2>5. amount \in Nat /\ fee \in Nat
    BY <2>1, <2>2, Expenses
  <2>6. b.cash >= amount + fee
    BY <1>2, <2>1, <2>2 DEF Payable, Expense
  <2>7. b.cash \in Nat /\ i \in Nat /\ b.realized \in Int /\ StartingCash \in Nat
    BY BacktestConstants DEF Book
  <2>8. b.cash - amount - fee \in Nat /\ amount + fee \in Nat
    BY <2>5, <2>6, <2>7
  <2>9. d = [b EXCEPT !.cash = b.cash - amount - fee, !.qty[s] = quantity, !.paid[s] = amount + fee,
                      !.entry[s] = n, !.top[s] = n, !.since[s] = i]
    <3>1. Acquired(b, s, i, quantity) =
              [b EXCEPT !.cash = b.cash - Expense(s, i, quantity) - Fee(Expense(s, i, quantity)),
                        !.qty[s] = quantity,
                        !.paid[s] = Expense(s, i, quantity) + Fee(Expense(s, i, quantity)),
                        !.entry[s] = Fill("BUY", s, i), !.top[s] = Fill("BUY", s, i), !.since[s] = i]
      BY <1>2, Zenon DEF Acquired, Expense, Book
    <3>2. QED
      BY <2>1, <2>2, <2>3, <2>4, <3>1, Zenon
  <2>10. PICK e \in Nat, p \in Nat : e = b.cash - amount - fee /\ p = amount + fee
    BY <2>8
  <2>11. d = [b EXCEPT !.cash = e, !.qty[s] = quantity, !.paid[s] = p, !.entry[s] = n, !.top[s] = n,
                       !.since[s] = i]
    BY <2>9, <2>10, Zenon
  <2>12. d \in Book
    <3>1. [b EXCEPT !.cash = e, !.qty[s] = quantity, !.paid[s] = p, !.entry[s] = n, !.top[s] = n,
                    !.since[s] = i] \in Book
      BY <2>7, BookAfterPurchase
    <3>2. QED
      BY <2>11, <3>1
  <2>13. PurchaseOf(b, d, s, i, quantity)
    BY <2>11, BookPurchased, Zenon
  <2>14. d.cash = e /\ d.paid = [b.paid EXCEPT ![s] = p] /\ d.realized = b.realized
    <3>1. d.cash = e
      BY <2>11 DEF Book
    <3>2. d.paid = [b.paid EXCEPT ![s] = p]
      BY <2>11 DEF Book
    <3>3. d.realized = b.realized
      BY <2>11 DEF Book
    <3>4. QED
      BY <3>1, <3>2, <3>3
  <2>15. d.qty = [b.qty EXCEPT ![s] = quantity]
    BY <2>13 DEF PurchaseOf
  <2>16. b.paid \in [Replays -> Nat] /\ b.qty \in [Replays -> Nat]
    BY DEF Book
  <2>17. ASSUME Sound(b), b.qty[s] = 0 PROVE Sound(d)
    <3>1. b.paid \in [Replays -> Int] /\ d.paid \in [Replays -> Int] /\ d.paid[s] = p /\ b.paid[s] = 0
          /\ \A r \in Replays \ {s} : b.paid[r] = d.paid[r]
      BY <2>14, <2>16, <2>17 DEF Sound
    <3>2. IsFiniteSet(Replays)
      BY ReplayedSymbols
    <3>3. SumOver(d.paid, Replays) = SumOver(b.paid, Replays) + d.paid[s] - b.paid[s]
      BY <3>1, <3>2, SumDiffers
    <3>4. SumOver(b.paid, Replays) \in Int
      BY <3>1, <3>2, SumType
    <3>5. Balanced(d)
      BY <2>5, <2>7, <2>10, <2>14, <2>17, <3>1, <3>3, <3>4 DEF Balanced, Sound
    <3>6. ASSUME NEW r \in Replays, d.qty[r] = 0 PROVE d.paid[r] = 0
      <4>1. r # s
        BY <1>2, <2>15, <2>16, <3>6
      <4>2. QED
        BY <2>14, <2>15, <2>16, <2>17, <3>6, <4>1 DEF Sound
    <3>7. QED
      BY <3>5, <3>6 DEF Sound
  <2>18. QED
    BY <1>2, <2>4, <2>12, <2>13, <2>17
<1>3. QED
  BY <1>1, <1>2

LEMMA OpenFinite ==
    ASSUME NEW b
    PROVE  IsFiniteSet(OpenPositions(b)) /\ Cardinality(OpenPositions(b)) \in Nat
<1>1. OpenPositions(b) \subseteq Replays
  BY DEF OpenPositions
<1>2. QED
  BY <1>1, ReplayedSymbols, FS_Subset, FS_CardinalityType

LEMMA SharedType ==
    ASSUME NEW b \in Book, NEW p \in Nat, p # 0
    PROVE  Shared(b, p) \in Nat
<1> DEFINE open == Cardinality(OpenPositions(b))
           slots == IF open < TARGET THEN TARGET - open ELSE 1
           budget == b.cash \div slots
<1>1. open \in Nat /\ TARGET \in Nat /\ CAP \in Nat /\ b.cash \in Nat
  BY OpenFinite, BacktestConstants DEF Book
<1>2. slots \in Nat /\ slots > 0
  <2> HIDE DEF open
  <2> QED
    BY <1>1
<1>3. ASSUME NEW m \in Nat, NEW n \in Nat, n > 0 PROVE m \div n \in Nat
  BY <1>3
<1>4. budget \in Nat
  <2> HIDE DEF slots
  <2> QED
    BY <1>1, <1>2, <1>3
<1>5. Shared(b, p) = (IF budget <= CAP THEN budget ELSE CAP) \div p
  BY DEF Shared
<1> HIDE DEF budget
<1>6. QED
  BY <1>1, <1>3, <1>4, <1>5

LEMMA ReducedType ==
    ASSUME NEW n \in Nat, NEW volatility
    PROVE  Reduced(n, volatility) \in Nat
<1>1. CASE n > 1
  <2>1. n \div 2 \in Nat
    OBVIOUS
  <2>2. QED
    BY <2>1 DEF Reduced
<1>2. CASE ~(n > 1)
  BY <1>2 DEF Reduced
<1>3. QED
  BY <1>1, <1>2

-----------------------------------------------------------------------------
\* d is b after sales, and nothing else that a property tells apart.
OnlySold(b, d) ==
    /\ d \in Book
    /\ Sound(b) => Sound(d)
    /\ d.noted = b.noted
    /\ \A r \in Replays : d.qty[r] > 0 => d.qty[r] = b.qty[r] /\ d.since[r] = b.since[r]
    /\ \A r \in d.left : r \in b.left \/ d.qty[r] = 0

LEMMA OnlySoldTwice ==
    ASSUME NEW b \in Book, NEW c, NEW d, OnlySold(b, c), OnlySold(c, d)
    PROVE  OnlySold(b, d)
<1>1. c \in Book /\ d \in Book
  BY DEF OnlySold
<1>2. (Sound(b) => Sound(d)) /\ d.noted = b.noted
  BY DEF OnlySold
<1>3. ASSUME NEW r \in Replays, d.qty[r] > 0 PROVE d.qty[r] = b.qty[r] /\ d.since[r] = b.since[r]
  BY <1>3 DEF OnlySold
<1>4. ASSUME NEW r \in d.left PROVE r \in b.left \/ d.qty[r] = 0
  <2>1. r \in Replays /\ d.qty[r] \in Nat /\ c.qty[r] \in Nat
    BY <1>1 DEF Book
  <2>2. QED
    BY <2>1 DEF OnlySold
<1>5. QED
  BY <1>1, <1>2, <1>3, <1>4 DEF OnlySold

LEMMA NothingSold == ASSUME NEW b \in Book PROVE OnlySold(b, b)
BY DEF OnlySold

LEMMA SaleOnly ==
    ASSUME InputTypes, NEW b \in Book, NEW s \in Replays, NEW i \in 1..Instants, series[s][i] # 0
    PROVE  /\ OnlySold(b, Closed(b, s, i))
           /\ Closed(b, s, i).qty[s] = 0
           /\ Closed(b, s, i).left = b.left \cup {s}
           /\ \A r \in Replays : b.qty[r] = 0 => Closed(b, s, i).qty[r] = 0
<1>1. Closed(b, s, i) \in Book /\ (Sound(b) => Sound(Closed(b, s, i)))
  BY ClosedType, ClosedSound
<1>2. SaleOf(b, Closed(b, s, i), s)
  BY ClosedFields
<1>3. PICK d : d = Closed(b, s, i)
  OBVIOUS
<1>4. d \in Book /\ (Sound(b) => Sound(d)) /\ SaleOf(b, d, s)
  BY <1>1, <1>2, <1>3
<1>5. b.qty \in [Replays -> Nat] /\ b.since \in [Replays -> Nat]
  BY DEF Book
<1>6. OnlySold(b, d)
  BY <1>4, <1>5 DEF OnlySold, SaleOf
<1>7. d.qty[s] = 0 /\ d.left = b.left \cup {s} /\ \A r \in Replays : b.qty[r] = 0 => d.qty[r] = 0
  BY <1>4, <1>5 DEF SaleOf
<1>8. QED
  BY <1>3, <1>6, <1>7

LEMMA RiseOnly ==
    ASSUME InputTypes, NEW b \in Book, NEW s \in Replays, NEW i \in 1..Instants
    PROVE  OnlySold(b, Raised(b, s, i)) /\ Raised(b, s, i).left = b.left /\ Raised(b, s, i).qty = b.qty
<1>1. PICK d : d = Raised(b, s, i)
  OBVIOUS
<1>2. d \in Book /\ d.noted = b.noted /\ d.left = b.left /\ d.qty = b.qty /\ d.since = b.since
  BY <1>1, RaisedFields
<1>3. Sound(b) => Sound(d)
  BY <1>1, RaisedSound
<1>4. OnlySold(b, d)
  BY <1>2, <1>3 DEF OnlySold
<1>5. QED
  BY <1>1, <1>2, <1>4

LEMMA StopOnly ==
    ASSUME InputTypes, instant \in 1..Instants, NEW b \in Book, NEW s \in Replays
    PROVE  OnlySold(b, Stopped(b, s))
<1>1. PICK d : d = Raised(b, s, instant)
  OBVIOUS
<1>2. d \in Book /\ OnlySold(b, d)
  BY <1>1, RiseOnly DEF OnlySold
<1>3. CASE series[s][instant] # 0 /\ StopReached(d, s, instant, climate.level)
  <2>1. OnlySold(d, Closed(d, s, instant))
    BY <1>2, <1>3, SaleOnly
  <2>2. Stopped(b, s) = Closed(d, s, instant)
    BY <1>1, <1>3 DEF Stopped
  <2>3. QED
    BY <1>2, <2>1, <2>2, OnlySoldTwice
<1>4. CASE ~(series[s][instant] # 0 /\ StopReached(d, s, instant, climate.level))
  <2>1. Stopped(b, s) = d
    BY <1>1, <1>4 DEF Stopped
  <2>2. QED
    BY <1>2, <2>1
<1>5. QED
  BY <1>3, <1>4

LEMMA SellOnly ==
    ASSUME InputTypes, instant \in 1..Instants, NEW b \in Book, NEW s \in Replays, series[s][instant] # 0
    PROVE  OnlySold(b, SellSignal(b, s)) /\ SellSignal(b, s).left \subseteq b.left \cup {s}
<1>1. CASE b.qty[s] > 0
  <2>1. SellSignal(b, s) = Closed(b, s, instant)
    BY <1>1 DEF SellSignal
  <2>2. OnlySold(b, Closed(b, s, instant)) /\ Closed(b, s, instant).left = b.left \cup {s}
    BY SaleOnly
  <2>3. QED
    BY <2>1, <2>2
<1>2. CASE ~(b.qty[s] > 0)
  <2>1. SellSignal(b, s) = b
    BY <1>2 DEF SellSignal
  <2>2. QED
    BY <2>1, NothingSold
<1>3. QED
  BY <1>1, <1>2

\* The last bar is at or after any.
LEMMA LastBarType ==
    ASSUME InputTypes, NEW s \in Replays
    PROVE  /\ LastBar(s) \in 0..Instants
           /\ LastBar(s) > 0 => series[s][LastBar(s)] # 0
           /\ \A i \in 1..Instants : series[s][i] # 0 => LastBar(s) >= i
<1> DEFINE priced == {0} \cup {i \in 1..Instants : series[s][i] # 0}
<1>1. Instants \in Nat
  BY BacktestConstants
<1>2. priced \in SUBSET (0..Instants) /\ priced # {}
  BY <1>1
<1>3. Max(priced) \in priced /\ \A i \in priced : Max(priced) >= i
  <2> HIDE DEF priced
  <2> QED
    BY <1>1, <1>2, Largest
<1>4. LastBar(s) = Max(priced)
  BY DEF LastBar
<1>5. PICK n : n = Max(priced)
  OBVIOUS
<1>6. n \in priced /\ (\A i \in priced : n >= i) /\ LastBar(s) = n
  BY <1>3, <1>4, <1>5
<1>7. n \in 0..Instants /\ (n > 0 => series[s][n] # 0)
  BY <1>1, <1>6
<1>8. \A i \in 1..Instants : series[s][i] # 0 => n >= i
  BY <1>6
<1>9. QED
  BY <1>6, <1>7, <1>8

LEMMA LotOnly ==
    ASSUME InputTypes, NEW b \in Book, NEW s \in Replays
    PROVE  /\ OnlySold(b, LotSold(b, s))
           /\ LotSold(b, s).qty[s] > 0 => LastBar(s) = 0
           /\ \A r \in Replays : b.qty[r] = 0 => LotSold(b, s).qty[r] = 0
<1>1. CASE b.qty[s] > 0 /\ LastBar(s) > 0
  <2>1. PICK i \in 1..Instants : i = LastBar(s) /\ series[s][i] # 0
    BY <1>1, LastBarType
  <2>2. LotSold(b, s) = Closed(b, s, i)
    BY <1>1, <2>1 DEF LotSold
  <2>3. /\ OnlySold(b, Closed(b, s, i)) /\ Closed(b, s, i).qty[s] = 0
        /\ \A r \in Replays : b.qty[r] = 0 => Closed(b, s, i).qty[r] = 0
    BY <2>1, SaleOnly
  <2>4. QED
    BY <2>2, <2>3
<1>2. CASE ~(b.qty[s] > 0 /\ LastBar(s) > 0)
  <2>1. LotSold(b, s) = b
    BY <1>2 DEF LotSold
  <2>2. LastBar(s) \in Nat
    BY LastBarType
  <2>3. QED
    BY <1>2, <2>1, <2>2, NothingSold
<1>3. QED
  BY <1>1, <1>2

-----------------------------------------------------------------------------
(* What holds of the book before the first symbol, and goes on from each to the next, holds *)
(* after the last one: FoldKeeps for each of the folds.                                     *)

LEMMA StopsKeep ==
    ASSUME NEW b \in Book, \A c \in Book, s \in Replays : Stopped(c, s) \in Book,
           NEW P, <<0, b>> \in P,
           \A k \in 1..Len(Replayed) : \A c \in Book :
               <<k - 1, c>> \in P => <<k, Stopped(c, Replayed[k])>> \in P
    PROVE  StopsDone(b) \in Book /\ <<Len(Replayed), StopsDone(b)>> \in P
<1> DEFINE step == [cs \in Book \X Replays |-> Stopped(cs[1], cs[2])]
           g == CHOOSE g : g = [T \in SUBSET (DOMAIN Replayed) |->
                                   IF T = {} THEN b ELSE Stopped(g[T \ {Max(T)}], Replayed[Max(T)])]
<1>1. StopsDone(b) = g[DOMAIN Replayed]
  BY SMTT(20) DEF StopsDone, FoldLeft, MapThenFoldSet
<1>2. PICK n \in Nat : n = Len(Replayed)
  BY ReplayedSymbols
<1>3. DOMAIN Replayed = 1..n /\ Replayed \in [1..n -> Replays]
  BY <1>2, ReplayedSymbols
<1>4. step \in [Book \X Replays -> Book]
  OBVIOUS
<1>5. \A c \in Book, s \in Replays : step[<<c, s>>] = Stopped(c, s)
  OBVIOUS
<1> HIDE DEF step
<1>6. PICK h \in [SUBSET (1..n) -> Book] : Folds(h, step, b, Replayed, n)
  BY <1>3, <1>4, FoldsExist
<1>7. ASSUME NEW T \in SUBSET (1..n), T # {} PROVE Max(T) \in 1..n /\ Replayed[Max(T)] \in Replays
  <2>1. T \in SUBSET (0..n)
    OBVIOUS
  <2>2. Max(T) \in T
    BY <1>7, <2>1, Largest
  <2>3. QED
    BY <1>3, <2>2
<1>8. h = [T \in SUBSET (DOMAIN Replayed) |->
              IF T = {} THEN b ELSE Stopped(h[T \ {Max(T)}], Replayed[Max(T)])]
  <2>1. ASSUME NEW T \in SUBSET (1..n)
        PROVE  h[T] = IF T = {} THEN b ELSE Stopped(h[T \ {Max(T)}], Replayed[Max(T)])
    <3>1. CASE T = {}
      BY <1>6, <3>1 DEF Folds
    <3>2. CASE T # {}
      <4>1. h[T \ {Max(T)}] \in Book /\ Replayed[Max(T)] \in Replays
        BY <1>6, <1>7, <3>2
      <4>2. h[T] = step[<<h[T \ {Max(T)}], Replayed[Max(T)]>>]
        BY <1>6, <3>2 DEF Folds
      <4>3. QED
        BY <1>5, <3>2, <4>1, <4>2
    <3>3. QED
      BY <3>1, <3>2
  <2>2. QED
    BY <1>3, <1>6, <2>1
<1>9. g = [T \in SUBSET (DOMAIN Replayed) |->
              IF T = {} THEN b ELSE Stopped(g[T \ {Max(T)}], Replayed[Max(T)])]
  BY <1>8, Zenon
<1> HIDE DEF g
<1>10. g[{}] = b
  BY <1>9
<1>11. ASSUME NEW T \in SUBSET (1..n), T # {}, g[T \ {Max(T)}] \in Book
       PROVE  g[T] = step[<<g[T \ {Max(T)}], Replayed[Max(T)]>>]
  <2>1. Replayed[Max(T)] \in Replays
    BY <1>7, <1>11
  <2>2. g[T] = Stopped(g[T \ {Max(T)}], Replayed[Max(T)])
    BY <1>3, <1>9, <1>11
  <2>3. QED
    BY <1>5, <1>11, <2>1, <2>2
<1>12. ASSUME NEW k \in 1..n, NEW c \in Book, <<k - 1, c>> \in P
       PROVE  <<k, step[<<c, Replayed[k]>>]>> \in P
  <2>1. Replayed[k] \in Replays
    BY <1>3
  <2>2. QED
    BY <1>2, <1>5, <1>12, <2>1
<1>13. Carries(P, Book, Replays, g, step, b, Replayed, n)
  BY <1>3, <1>4, <1>10, <1>11, <1>12 DEF Carries
<1>14. g[1..n] \in Book /\ <<n, g[1..n]>> \in P
  BY <1>13, FoldKeeps
<1>15. QED
  BY <1>1, <1>2, <1>3, <1>14, SMTT(20)

LEMMA SalesKeep ==
    ASSUME NEW signal, NEW b \in Book, \A c \in Book, s \in Replays : (IF signal[s] = "SELL" THEN SellSignal(c, s) ELSE c) \in Book,
           NEW P, <<0, b>> \in P,
           \A k \in 1..Len(Replayed) : \A c \in Book :
               <<k - 1, c>> \in P => <<k, (IF signal[Replayed[k]] = "SELL" THEN SellSignal(c, Replayed[k]) ELSE c)>> \in P
    PROVE  SalesDone(b, signal) \in Book /\ <<Len(Replayed), SalesDone(b, signal)>> \in P
<1> DEFINE step == [cs \in Book \X Replays |-> (IF signal[cs[2]] = "SELL" THEN SellSignal(cs[1], cs[2]) ELSE cs[1])]
           g == CHOOSE g : g = [T \in SUBSET (DOMAIN Replayed) |->
                                   IF T = {} THEN b ELSE (IF signal[Replayed[Max(T)]] = "SELL" THEN SellSignal(g[T \ {Max(T)}], Replayed[Max(T)]) ELSE g[T \ {Max(T)}])]
<1>1. SalesDone(b, signal) = g[DOMAIN Replayed]
  BY SMTT(20) DEF SalesDone, FoldLeft, MapThenFoldSet
<1>2. PICK n \in Nat : n = Len(Replayed)
  BY ReplayedSymbols
<1>3. DOMAIN Replayed = 1..n /\ Replayed \in [1..n -> Replays]
  BY <1>2, ReplayedSymbols
<1>4. step \in [Book \X Replays -> Book]
  OBVIOUS
<1>5. \A c \in Book, s \in Replays : step[<<c, s>>] = (IF signal[s] = "SELL" THEN SellSignal(c, s) ELSE c)
  OBVIOUS
<1> HIDE DEF step
<1>6. PICK h \in [SUBSET (1..n) -> Book] : Folds(h, step, b, Replayed, n)
  BY <1>3, <1>4, FoldsExist
<1>7. ASSUME NEW T \in SUBSET (1..n), T # {} PROVE Max(T) \in 1..n /\ Replayed[Max(T)] \in Replays
  <2>1. T \in SUBSET (0..n)
    OBVIOUS
  <2>2. Max(T) \in T
    BY <1>7, <2>1, Largest
  <2>3. QED
    BY <1>3, <2>2
<1>8. h = [T \in SUBSET (DOMAIN Replayed) |->
              IF T = {} THEN b ELSE (IF signal[Replayed[Max(T)]] = "SELL" THEN SellSignal(h[T \ {Max(T)}], Replayed[Max(T)]) ELSE h[T \ {Max(T)}])]
  <2>1. ASSUME NEW T \in SUBSET (1..n)
        PROVE  h[T] = IF T = {} THEN b ELSE (IF signal[Replayed[Max(T)]] = "SELL" THEN SellSignal(h[T \ {Max(T)}], Replayed[Max(T)]) ELSE h[T \ {Max(T)}])
    <3>1. CASE T = {}
      BY <1>6, <3>1 DEF Folds
    <3>2. CASE T # {}
      <4>1. h[T \ {Max(T)}] \in Book /\ Replayed[Max(T)] \in Replays
        BY <1>6, <1>7, <3>2
      <4>2. h[T] = step[<<h[T \ {Max(T)}], Replayed[Max(T)]>>]
        BY <1>6, <3>2 DEF Folds
      <4>3. QED
        BY <1>5, <3>2, <4>1, <4>2
    <3>3. QED
      BY <3>1, <3>2
  <2>2. QED
    BY <1>3, <1>6, <2>1
<1>9. g = [T \in SUBSET (DOMAIN Replayed) |->
              IF T = {} THEN b ELSE (IF signal[Replayed[Max(T)]] = "SELL" THEN SellSignal(g[T \ {Max(T)}], Replayed[Max(T)]) ELSE g[T \ {Max(T)}])]
  BY <1>8, Zenon
<1> HIDE DEF g
<1>10. g[{}] = b
  BY <1>9
<1>11. ASSUME NEW T \in SUBSET (1..n), T # {}, g[T \ {Max(T)}] \in Book
       PROVE  g[T] = step[<<g[T \ {Max(T)}], Replayed[Max(T)]>>]
  <2>1. Replayed[Max(T)] \in Replays
    BY <1>7, <1>11
  <2>2. g[T] = (IF signal[Replayed[Max(T)]] = "SELL" THEN SellSignal(g[T \ {Max(T)}], Replayed[Max(T)]) ELSE g[T \ {Max(T)}])
    BY <1>3, <1>9, <1>11
  <2>3. QED
    BY <1>5, <1>11, <2>1, <2>2
<1>12. ASSUME NEW k \in 1..n, NEW c \in Book, <<k - 1, c>> \in P
       PROVE  <<k, step[<<c, Replayed[k]>>]>> \in P
  <2>1. Replayed[k] \in Replays
    BY <1>3
  <2>2. QED
    BY <1>2, <1>5, <1>12, <2>1
<1>13. Carries(P, Book, Replays, g, step, b, Replayed, n)
  BY <1>3, <1>4, <1>10, <1>11, <1>12 DEF Carries
<1>14. g[1..n] \in Book /\ <<n, g[1..n]>> \in P
  BY <1>13, FoldKeeps
<1>15. QED
  BY <1>1, <1>2, <1>3, <1>14, SMTT(20)

LEMMA PurchasesKeep ==
    ASSUME NEW signal, NEW b \in Book, \A c \in Book, s \in Replays : (IF signal[s] = "BUY" THEN BuySignal(c, s) ELSE c) \in Book,
           NEW P, <<0, b>> \in P,
           \A k \in 1..Len(Replayed) : \A c \in Book :
               <<k - 1, c>> \in P => <<k, (IF signal[Replayed[k]] = "BUY" THEN BuySignal(c, Replayed[k]) ELSE c)>> \in P
    PROVE  PurchasesDone(b, signal) \in Book /\ <<Len(Replayed), PurchasesDone(b, signal)>> \in P
<1> DEFINE step == [cs \in Book \X Replays |-> (IF signal[cs[2]] = "BUY" THEN BuySignal(cs[1], cs[2]) ELSE cs[1])]
           g == CHOOSE g : g = [T \in SUBSET (DOMAIN Replayed) |->
                                   IF T = {} THEN b ELSE (IF signal[Replayed[Max(T)]] = "BUY" THEN BuySignal(g[T \ {Max(T)}], Replayed[Max(T)]) ELSE g[T \ {Max(T)}])]
<1>1. PurchasesDone(b, signal) = g[DOMAIN Replayed]
  BY SMTT(20) DEF PurchasesDone, FoldLeft, MapThenFoldSet
<1>2. PICK n \in Nat : n = Len(Replayed)
  BY ReplayedSymbols
<1>3. DOMAIN Replayed = 1..n /\ Replayed \in [1..n -> Replays]
  BY <1>2, ReplayedSymbols
<1>4. step \in [Book \X Replays -> Book]
  OBVIOUS
<1>5. \A c \in Book, s \in Replays : step[<<c, s>>] = (IF signal[s] = "BUY" THEN BuySignal(c, s) ELSE c)
  OBVIOUS
<1> HIDE DEF step
<1>6. PICK h \in [SUBSET (1..n) -> Book] : Folds(h, step, b, Replayed, n)
  BY <1>3, <1>4, FoldsExist
<1>7. ASSUME NEW T \in SUBSET (1..n), T # {} PROVE Max(T) \in 1..n /\ Replayed[Max(T)] \in Replays
  <2>1. T \in SUBSET (0..n)
    OBVIOUS
  <2>2. Max(T) \in T
    BY <1>7, <2>1, Largest
  <2>3. QED
    BY <1>3, <2>2
<1>8. h = [T \in SUBSET (DOMAIN Replayed) |->
              IF T = {} THEN b ELSE (IF signal[Replayed[Max(T)]] = "BUY" THEN BuySignal(h[T \ {Max(T)}], Replayed[Max(T)]) ELSE h[T \ {Max(T)}])]
  <2>1. ASSUME NEW T \in SUBSET (1..n)
        PROVE  h[T] = IF T = {} THEN b ELSE (IF signal[Replayed[Max(T)]] = "BUY" THEN BuySignal(h[T \ {Max(T)}], Replayed[Max(T)]) ELSE h[T \ {Max(T)}])
    <3>1. CASE T = {}
      BY <1>6, <3>1 DEF Folds
    <3>2. CASE T # {}
      <4>1. h[T \ {Max(T)}] \in Book /\ Replayed[Max(T)] \in Replays
        BY <1>6, <1>7, <3>2
      <4>2. h[T] = step[<<h[T \ {Max(T)}], Replayed[Max(T)]>>]
        BY <1>6, <3>2 DEF Folds
      <4>3. QED
        BY <1>5, <3>2, <4>1, <4>2
    <3>3. QED
      BY <3>1, <3>2
  <2>2. QED
    BY <1>3, <1>6, <2>1
<1>9. g = [T \in SUBSET (DOMAIN Replayed) |->
              IF T = {} THEN b ELSE (IF signal[Replayed[Max(T)]] = "BUY" THEN BuySignal(g[T \ {Max(T)}], Replayed[Max(T)]) ELSE g[T \ {Max(T)}])]
  BY <1>8, Zenon
<1> HIDE DEF g
<1>10. g[{}] = b
  BY <1>9
<1>11. ASSUME NEW T \in SUBSET (1..n), T # {}, g[T \ {Max(T)}] \in Book
       PROVE  g[T] = step[<<g[T \ {Max(T)}], Replayed[Max(T)]>>]
  <2>1. Replayed[Max(T)] \in Replays
    BY <1>7, <1>11
  <2>2. g[T] = (IF signal[Replayed[Max(T)]] = "BUY" THEN BuySignal(g[T \ {Max(T)}], Replayed[Max(T)]) ELSE g[T \ {Max(T)}])
    BY <1>3, <1>9, <1>11
  <2>3. QED
    BY <1>5, <1>11, <2>1, <2>2
<1>12. ASSUME NEW k \in 1..n, NEW c \in Book, <<k - 1, c>> \in P
       PROVE  <<k, step[<<c, Replayed[k]>>]>> \in P
  <2>1. Replayed[k] \in Replays
    BY <1>3
  <2>2. QED
    BY <1>2, <1>5, <1>12, <2>1
<1>13. Carries(P, Book, Replays, g, step, b, Replayed, n)
  BY <1>3, <1>4, <1>10, <1>11, <1>12 DEF Carries
<1>14. g[1..n] \in Book /\ <<n, g[1..n]>> \in P
  BY <1>13, FoldKeeps
<1>15. QED
  BY <1>1, <1>2, <1>3, <1>14, SMTT(20)

LEMMA LotsKeep ==
    ASSUME NEW b \in Book, \A c \in Book, s \in Replays : LotSold(c, s) \in Book,
           NEW P, <<0, b>> \in P,
           \A k \in 1..Len(Replayed) : \A c \in Book :
               <<k - 1, c>> \in P => <<k, LotSold(c, Replayed[k])>> \in P
    PROVE  LotsSold(b) \in Book /\ <<Len(Replayed), LotsSold(b)>> \in P
<1> DEFINE step == [cs \in Book \X Replays |-> LotSold(cs[1], cs[2])]
           g == CHOOSE g : g = [T \in SUBSET (DOMAIN Replayed) |->
                                   IF T = {} THEN b ELSE LotSold(g[T \ {Max(T)}], Replayed[Max(T)])]
<1>1. LotsSold(b) = g[DOMAIN Replayed]
  BY DEF LotsSold, FoldLeft, MapThenFoldSet
<1>2. PICK n \in Nat : n = Len(Replayed)
  BY ReplayedSymbols
<1>3. DOMAIN Replayed = 1..n /\ Replayed \in [1..n -> Replays]
  BY <1>2, ReplayedSymbols
<1>4. step \in [Book \X Replays -> Book]
  OBVIOUS
<1>5. \A c \in Book, s \in Replays : step[<<c, s>>] = LotSold(c, s)
  OBVIOUS
<1> HIDE DEF step
<1>6. PICK h \in [SUBSET (1..n) -> Book] : Folds(h, step, b, Replayed, n)
  BY <1>3, <1>4, FoldsExist
<1>7. ASSUME NEW T \in SUBSET (1..n), T # {} PROVE Max(T) \in 1..n /\ Replayed[Max(T)] \in Replays
  <2>1. T \in SUBSET (0..n)
    OBVIOUS
  <2>2. Max(T) \in T
    BY <1>7, <2>1, Largest
  <2>3. QED
    BY <1>3, <2>2
<1>8. h = [T \in SUBSET (DOMAIN Replayed) |->
              IF T = {} THEN b ELSE LotSold(h[T \ {Max(T)}], Replayed[Max(T)])]
  <2>1. ASSUME NEW T \in SUBSET (1..n)
        PROVE  h[T] = IF T = {} THEN b ELSE LotSold(h[T \ {Max(T)}], Replayed[Max(T)])
    <3>1. CASE T = {}
      BY <1>6, <3>1 DEF Folds
    <3>2. CASE T # {}
      <4>1. h[T \ {Max(T)}] \in Book /\ Replayed[Max(T)] \in Replays
        BY <1>6, <1>7, <3>2
      <4>2. h[T] = step[<<h[T \ {Max(T)}], Replayed[Max(T)]>>]
        BY <1>6, <3>2 DEF Folds
      <4>3. QED
        BY <1>5, <3>2, <4>1, <4>2
    <3>3. QED
      BY <3>1, <3>2
  <2>2. QED
    BY <1>3, <1>6, <2>1
<1>9. g = [T \in SUBSET (DOMAIN Replayed) |->
              IF T = {} THEN b ELSE LotSold(g[T \ {Max(T)}], Replayed[Max(T)])]
  BY <1>8, Zenon
<1> HIDE DEF g
<1>10. g[{}] = b
  BY <1>9
<1>11. ASSUME NEW T \in SUBSET (1..n), T # {}, g[T \ {Max(T)}] \in Book
       PROVE  g[T] = step[<<g[T \ {Max(T)}], Replayed[Max(T)]>>]
  <2>1. Replayed[Max(T)] \in Replays
    BY <1>7, <1>11
  <2>2. g[T] = LotSold(g[T \ {Max(T)}], Replayed[Max(T)])
    BY <1>3, <1>9, <1>11
  <2>3. QED
    BY <1>5, <1>11, <2>1, <2>2
<1>12. ASSUME NEW k \in 1..n, NEW c \in Book, <<k - 1, c>> \in P
       PROVE  <<k, step[<<c, Replayed[k]>>]>> \in P
  <2>1. Replayed[k] \in Replays
    BY <1>3
  <2>2. QED
    BY <1>2, <1>5, <1>12, <2>1
<1>13. Carries(P, Book, Replays, g, step, b, Replayed, n)
  BY <1>3, <1>4, <1>10, <1>11, <1>12 DEF Carries
<1>14. g[1..n] \in Book /\ <<n, g[1..n]>> \in P
  BY <1>13, FoldKeeps
<1>15. QED
  BY <1>1, <1>2, <1>3, <1>14, SMTT(20)

-----------------------------------------------------------------------------
(* The invariant *)

\* What is held was bought at a bar up to k, on as many earlier bars as the signal needs.
HeldBy(b, k) ==
    \A s \in Replays : b.qty[s] > 0 =>
        /\ ~terms.overnight => b.since[s] \in 1..k /\ series[s][b.since[s]] # 0
        /\ session = 1 /\ ~terms.daily => Cardinality(BarsUpTo(s, b.since[s] - 1)) >= MIN_CLOSES

\* Not more positions than the target, when there is one
FewOpen(b) == terms.targeted => Cardinality(OpenPositions(b)) <= TARGET

BacktestTypes ==
    /\ InputTypes
    /\ method \in {"replay", "fixed"}
    /\ method = "replay" => session \in 1..Sessions + 1 /\ instant \in 1..Instants + 1
    /\ method = "fixed" => /\ session \in 1..Len(Replayed) + 1 /\ instant \in 1..Instants
                           /\ \A s \in Replays, i \in 1..Instants : series[s][i] # 0
    /\ seen \in [Replays -> Nat]
    /\ book \in Book

MinuteInv ==
    method = "replay" =>
        /\ HeldBy(book, instant - 1)
        /\ FewOpen(book)
        /\ session = 1 => \A s \in Replays : seen[s] = Cardinality(BarsUpTo(s, instant - 1))

DayLotInv ==
    method = "fixed" /\ ~terms.overnight =>
        \A k \in DOMAIN Replayed :
            book.qty[Replayed[k]] > 0 =>
                k <= session /\ book.since[Replayed[k]] = IF k < session THEN Instants ELSE instant - 1

\* TradesTold, with the reasons compared in pairs.
ToldOnce(b, k) ==
    /\ \A n \in b.noted, m \in b.noted : n[2] = m[2] => n = m
    /\ \A s \in Replays :
           /\ b.qty[s] > 0 /\ b.since[s] = k /\ ~terms.overnight => \A n \in b.noted : n[2] # s
           /\ s \in b.left => b.qty[s] = 0

BacktestIInv ==
    /\ BacktestTypes
    /\ Sound(book)
    /\ MinuteInv
    /\ DayLotInv
    /\ method = "replay" /\ instant > 1 => ToldOnce(book, instant - 1)

LEMMA SoldKeeps ==
    ASSUME NEW b \in Book, NEW d, OnlySold(b, d), NEW k, HeldBy(b, k), FewOpen(b)
    PROVE  HeldBy(d, k) /\ FewOpen(d)
<1>1. d \in Book /\ \A r \in Replays : d.qty[r] > 0 => d.qty[r] = b.qty[r] /\ d.since[r] = b.since[r]
  BY DEF OnlySold
<1>2. HeldBy(d, k)
  <2>1. ASSUME NEW s \in Replays, d.qty[s] > 0 PROVE b.qty[s] > 0 /\ d.since[s] = b.since[s]
    BY <1>1, <2>1
  <2>2. QED
    BY <2>1 DEF HeldBy
<1>3. OpenPositions(d) \subseteq OpenPositions(b)
  BY <1>1 DEF OpenPositions
<1>4. Cardinality(OpenPositions(d)) <= Cardinality(OpenPositions(b))
  BY <1>3, OpenFinite, FS_Subset
<1>5. Cardinality(OpenPositions(d)) \in Nat /\ Cardinality(OpenPositions(b)) \in Nat /\ TARGET \in Nat
  BY OpenFinite, BacktestConstants
<1>6. QED
  BY <1>2, <1>4, <1>5 DEF FewOpen

LEMMA StopsOnly ==
    ASSUME InputTypes, instant \in 1..Instants, NEW b \in Book
    PROVE  OnlySold(b, StopsDone(b))
<1> DEFINE P == {kc \in Nat \X Book : OnlySold(b, kc[2])}
<1>1. \A c \in Book, s \in Replays : Stopped(c, s) \in Book
  <2>1. ASSUME NEW c \in Book, NEW s \in Replays PROVE Stopped(c, s) \in Book
    BY StopOnly DEF OnlySold
  <2>2. QED
    BY <2>1
<1>2. <<0, b>> \in P
  BY NothingSold
<1>3. ASSUME NEW k \in 1..Len(Replayed), NEW c \in Book, <<k - 1, c>> \in P
      PROVE  <<k, Stopped(c, Replayed[k])>> \in P
  <2>1. k \in Nat /\ Replayed[k] \in Replays
    BY ReplayedSymbols
  <2>2. OnlySold(b, c) /\ OnlySold(c, Stopped(c, Replayed[k]))
    BY <1>3, <2>1, StopOnly
  <2>3. OnlySold(b, Stopped(c, Replayed[k]))
    BY <2>2, OnlySoldTwice
  <2>4. Stopped(c, Replayed[k]) \in Book
    BY <1>1, <2>1
  <2>5. QED
    BY <2>1, <2>3, <2>4
<1> HIDE DEF P
<1>4. <<Len(Replayed), StopsDone(b)>> \in P
  BY <1>1, <1>2, <1>3, StopsKeep
<1>5. QED
  BY <1>4 DEF P

LEMMA SalesOnly ==
    ASSUME InputTypes, instant \in 1..Instants, NEW b \in Book, NEW signal,
           \A s \in Replays : signal[s] = "SELL" => series[s][instant] # 0
    PROVE  /\ OnlySold(b, SalesDone(b, signal))
           /\ \A r \in SalesDone(b, signal).left : r \in b.left \/ signal[r] = "SELL"
<1> DEFINE Step(c, s) == IF signal[s] = "SELL" THEN SellSignal(c, s) ELSE c
           Named(c) == \A r \in c.left : r \in b.left \/ signal[r] = "SELL"
           P == {kc \in Nat \X Book : OnlySold(b, kc[2]) /\ Named(kc[2])}
<1>1. ASSUME NEW c \in Book, NEW s \in Replays
      PROVE  Step(c, s) \in Book /\ OnlySold(c, Step(c, s))
             /\ (signal[s] = "SELL" => Step(c, s).left \subseteq c.left \cup {s})
             /\ (signal[s] # "SELL" => Step(c, s).left = c.left)
  <2>1. CASE signal[s] = "SELL"
    <3>1. OnlySold(c, SellSignal(c, s)) /\ SellSignal(c, s).left \subseteq c.left \cup {s}
      BY <2>1, SellOnly
    <3>2. QED
      BY <2>1, <3>1 DEF OnlySold
  <2>2. CASE signal[s] # "SELL"
    BY <2>2, NothingSold
  <2>3. QED
    BY <2>1, <2>2
<1>2. <<0, b>> \in P
  BY NothingSold
<1>3. ASSUME NEW k \in 1..Len(Replayed), NEW c \in Book, <<k - 1, c>> \in P
      PROVE  <<k, Step(c, Replayed[k])>> \in P
  <2>1. k \in Nat /\ Replayed[k] \in Replays
    BY ReplayedSymbols
  <2>2. PICK d : d = Step(c, Replayed[k])
    OBVIOUS
  <2>3. OnlySold(b, c) /\ Named(c)
    BY <1>3
  <2> HIDE DEF Step
  <2>4. /\ d \in Book /\ OnlySold(c, d)
        /\ signal[Replayed[k]] = "SELL" => d.left \subseteq c.left \cup {Replayed[k]}
        /\ signal[Replayed[k]] # "SELL" => d.left = c.left
    BY <1>1, <2>1, <2>2
  <2>5. OnlySold(b, d)
    BY <2>3, <2>4, OnlySoldTwice
  <2>6. Named(d)
    BY <2>3, <2>4
  <2>7. QED
    BY <2>1, <2>2, <2>4, <2>5, <2>6
<1>4. \A c \in Book, s \in Replays : (IF signal[s] = "SELL" THEN SellSignal(c, s) ELSE c) \in Book
  BY <1>1
<1>5. \A k \in 1..Len(Replayed) : \A c \in Book :
          <<k - 1, c>> \in P =>
              <<k, IF signal[Replayed[k]] = "SELL" THEN SellSignal(c, Replayed[k]) ELSE c>> \in P
  <2> HIDE DEF P
  <2> QED
    BY <1>3
<1> HIDE DEF P
<1>6. <<Len(Replayed), SalesDone(b, signal)>> \in P
  BY <1>2, <1>4, <1>5, SalesKeep
<1>7. QED
  BY <1>6 DEF P

LEMMA LotsOnly ==
    ASSUME InputTypes, NEW b \in Book
    PROVE  /\ OnlySold(b, LotsSold(b))
           /\ \A s \in Replays : LotsSold(b).qty[s] > 0 => LastBar(s) = 0
<1> DEFINE Passed(k, c) == \A j \in 1..k : c.qty[Replayed[j]] > 0 => LastBar(Replayed[j]) = 0
           P == {kc \in Nat \X Book : OnlySold(b, kc[2]) /\ Passed(kc[1], kc[2])}
<1>1. \A c \in Book, s \in Replays : LotSold(c, s) \in Book
  <2>1. ASSUME NEW c \in Book, NEW s \in Replays PROVE LotSold(c, s) \in Book
    BY LotOnly DEF OnlySold
  <2>2. QED
    BY <2>1
<1>2. <<0, b>> \in P
  <2>1. 1..0 = {}
    OBVIOUS
  <2>2. QED
    BY <2>1, NothingSold
<1>3. ASSUME NEW k \in 1..Len(Replayed), NEW c \in Book, <<k - 1, c>> \in P
      PROVE  <<k, LotSold(c, Replayed[k])>> \in P
  <2>1. k \in Nat /\ Replayed[k] \in Replays /\ Replayed \in [1..Len(Replayed) -> Replays] /\ Len(Replayed) \in Nat
    BY ReplayedSymbols
  <2>2. PICK d : d = LotSold(c, Replayed[k])
    OBVIOUS
  <2>3. /\ d \in Book /\ OnlySold(c, d) /\ (d.qty[Replayed[k]] > 0 => LastBar(Replayed[k]) = 0)
        /\ \A r \in Replays : c.qty[r] = 0 => d.qty[r] = 0
    BY <1>1, <2>1, <2>2, LotOnly
  <2>4. OnlySold(b, c) /\ Passed(k - 1, c)
    BY <1>3
  <2>5. OnlySold(b, d)
    BY <2>3, <2>4, OnlySoldTwice
  <2>6. ASSUME NEW j \in 1..k, d.qty[Replayed[j]] > 0 PROVE LastBar(Replayed[j]) = 0
    <3>1. CASE j = k
      BY <2>3, <2>6, <3>1
    <3>2. CASE j # k
      <4>1. j \in 1..(k - 1) /\ Replayed[j] \in Replays
        BY <2>1, <3>2
      <4>2. c.qty[Replayed[j]] > 0
        <5>1. c.qty[Replayed[j]] \in Nat
          BY <4>1 DEF Book
        <5>2. d.qty[Replayed[j]] # 0
          BY <2>6
        <5>3. QED
          BY <2>3, <4>1, <5>1, <5>2
      <4>3. QED
        BY <2>4, <4>1, <4>2
    <3>3. QED
      BY <3>1, <3>2
  <2>7. QED
    BY <2>1, <2>2, <2>3, <2>5, <2>6
<1> HIDE DEF P
<1>4. <<Len(Replayed), LotsSold(b)>> \in P
  BY <1>1, <1>2, <1>3, LotsKeep
<1>5. OnlySold(b, LotsSold(b)) /\ Passed(Len(Replayed), LotsSold(b))
  BY <1>4 DEF P
<1>6. QED
  BY <1>5, ReplayedSymbols

\* At most one reason for a skipped purchase, and none when there is a purchase.
LEMMA SkipOnce ==
    ASSUME NEW b, NEW s \in Replays, NEW base, NEW quantity \in Nat
    PROVE  /\ SkipNoted(b, s, base, quantity) \subseteq Reason \X {s}
           /\ \A n \in SkipNoted(b, s, base, quantity), m \in SkipNoted(b, s, base, quantity) : n = m
           /\ quantity > 0 /\ climate.regime # "DANGER" => SkipNoted(b, s, base, quantity) = {}
BY DEF SkipNoted, Reason

\* What holds of the book before and after a purchase.
BookSound(b) ==
    /\ Sound(b)
    /\ HeldBy(b, instant)
    /\ FewOpen(b)
    /\ ToldOnce(b, instant)

LEMMA NotedBook ==
    ASSUME NEW b \in Book, NEW more \in SUBSET (Reason \X Replays)
    PROVE  [b EXCEPT !.noted = @ \cup more] \in Book
BY DEF Book

\* A skipped purchase is told of, and that is all.
LEMMA SkipKeeps ==
    ASSUME NEW b \in Book, BookSound(b), NEW s \in Replays, b.qty[s] = 0, \A n \in b.noted : n[2] # s,
           NEW more, more \subseteq Reason \X {s}, \A n \in more, m \in more : n = m,
           NEW d, d = [b EXCEPT !.noted = @ \cup more]
    PROVE  /\ d \in Book /\ BookSound(d) /\ d.left = b.left /\ d.qty = b.qty /\ d.noted = b.noted \cup more
<1>1. more \in SUBSET (Reason \X Replays) /\ \A n \in more : n[2] = s
  OBVIOUS
<1>2. /\ d \in Book /\ d.noted = b.noted \cup more /\ d.left = b.left
      /\ d.qty = b.qty /\ d.since = b.since
      /\ d.cash = b.cash /\ d.paid = b.paid /\ d.realized = b.realized
  <2>1. d \in Book
    BY <1>1, NotedBook
  <2>2. d.noted = b.noted \cup more /\ d.left = b.left
    BY DEF Book
  <2>3. d.qty = b.qty /\ d.since = b.since
    BY DEF Book
  <2>4. d.cash = b.cash /\ d.paid = b.paid /\ d.realized = b.realized
    BY DEF Book
  <2>5. QED
    BY <2>1, <2>2, <2>3, <2>4
<1>3. Sound(d)
  BY <1>2 DEF BookSound, Sound, Balanced
<1>4. HeldBy(d, instant)
  BY <1>2 DEF BookSound, HeldBy
<1>5. FewOpen(d)
  <2>1. OpenPositions(d) = OpenPositions(b)
    BY <1>2 DEF OpenPositions
  <2>2. QED
    BY <2>1 DEF BookSound, FewOpen
<1>6. \A n \in d.noted, m \in d.noted : n[2] = m[2] => n = m
  <2>1. \A n \in b.noted, m \in b.noted : n[2] = m[2] => n = m
    BY DEF BookSound, ToldOnce
  <2>2. QED
    BY <1>1, <1>2, <2>1
<1>7. ASSUME NEW r \in Replays, d.qty[r] > 0, d.since[r] = instant, ~terms.overnight, NEW n \in d.noted
      PROVE  n[2] # r
  <2>1. r # s
    BY <1>2, <1>7
  <2>2. n \in b.noted => n[2] # r
    BY <1>2, <1>7 DEF BookSound, ToldOnce
  <2>3. QED
    BY <1>1, <1>2, <2>1, <2>2
<1>8. \A r \in d.left : r \in Replays => d.qty[r] = 0
  BY <1>2 DEF BookSound, ToldOnce
<1>9. ToldOnce(d, instant)
  BY <1>6, <1>7, <1>8 DEF ToldOnce
<1>10. QED
  BY <1>2, <1>3, <1>4, <1>5, <1>9 DEF BookSound

\* A position more than there were is one more of them.
LEMMA OneMoreOpen ==
    ASSUME NEW b, NEW d, NEW s \in Replays, b.qty[s] = 0, d.qty[s] > 0,
           \A r \in Replays : r # s => d.qty[r] = b.qty[r]
    PROVE  Cardinality(OpenPositions(d)) = Cardinality(OpenPositions(b)) + 1
<1>1. s \notin OpenPositions(b)
  BY DEF OpenPositions
<1>2. OpenPositions(d) \subseteq OpenPositions(b) \cup {s}
  BY DEF OpenPositions
<1>3. OpenPositions(b) \cup {s} \subseteq OpenPositions(d)
  BY DEF OpenPositions
<1>4. OpenPositions(d) = OpenPositions(b) \cup {s}
  BY <1>2, <1>3
<1>5. IsFiniteSet(OpenPositions(b))
  BY OpenFinite
<1>6. QED
  BY <1>1, <1>4, <1>5, FS_AddElement

\* A purchase within the number of positions, of what nothing was told of.
LEMMA PurchaseKeeps ==
    ASSUME NEW b \in Book, NEW d \in Book, BookSound(b), Sound(d), NEW s \in Replays, NEW quantity \in Nat,
           quantity > 0, PurchaseOf(b, d, s, instant, quantity), instant \in 1..Instants,
           b.qty[s] = 0, s \notin b.left, \A n \in b.noted : n[2] # s, WithinTarget(b),
           series[s][instant] # 0, session = 1 /\ ~terms.daily => Cardinality(BarsUpTo(s, instant - 1)) >= MIN_CLOSES
    PROVE  BookSound(d) /\ d.left = b.left /\ d.noted = b.noted
<1>1. b.qty \in [Replays -> Nat] /\ b.since \in [Replays -> Nat]
  BY DEF Book
<1>2. /\ d.noted = b.noted /\ d.left = b.left
      /\ d.qty[s] = quantity /\ d.since[s] = instant
      /\ \A r \in Replays : r # s => d.qty[r] = b.qty[r] /\ d.since[r] = b.since[r]
  BY <1>1 DEF PurchaseOf
<1>3. HeldBy(d, instant)
  <2>1. instant \in 1..instant
    BY BacktestConstants
  <2>2. ASSUME NEW r \in Replays, d.qty[r] > 0
        PROVE  /\ ~terms.overnight => d.since[r] \in 1..instant /\ series[r][d.since[r]] # 0
               /\ session = 1 /\ ~terms.daily => Cardinality(BarsUpTo(r, d.since[r] - 1)) >= MIN_CLOSES
    <3>1. CASE r = s
      BY <1>2, <2>1, <3>1
    <3>2. CASE r # s
      <4>1. d.since[r] = b.since[r] /\ b.qty[r] > 0
        BY <1>2, <2>2, <3>2
      <4>2. QED
        BY <4>1 DEF BookSound, HeldBy
    <3>3. QED
      BY <3>1, <3>2
  <2>3. QED
    BY <2>2 DEF HeldBy
<1>4. FewOpen(d)
  <2>1. b.qty[s] = 0 /\ d.qty[s] > 0 /\ \A r \in Replays : r # s => d.qty[r] = b.qty[r]
    BY <1>2
  <2>2. Cardinality(OpenPositions(d)) = Cardinality(OpenPositions(b)) + 1
    BY <2>1, OneMoreOpen
  <2>3. Cardinality(OpenPositions(b)) \in Nat /\ TARGET \in Nat
    BY OpenFinite, BacktestConstants
  <2>4. QED
    BY <2>2, <2>3 DEF WithinTarget, FewOpen
<1>5. \A n \in d.noted, m \in d.noted : n[2] = m[2] => n = m
  BY <1>2 DEF BookSound, ToldOnce
<1>6. ASSUME NEW r \in Replays, d.qty[r] > 0, d.since[r] = instant, ~terms.overnight, NEW n \in d.noted
      PROVE  n[2] # r
  <2>1. CASE r = s
    BY <1>2, <2>1
  <2>2. CASE r # s
    BY <1>2, <1>6, <2>2 DEF BookSound, ToldOnce
  <2>3. QED
    BY <2>1, <2>2
<1>7. \A r \in Replays : r \in d.left => d.qty[r] = 0
  BY <1>2 DEF BookSound, ToldOnce
<1>8. ToldOnce(d, instant)
  BY <1>5, <1>6, <1>7 DEF ToldOnce
<1>9. QED
  BY <1>2, <1>3, <1>4, <1>8 DEF BookSound

LEMMA BuySignalKeeps ==
    ASSUME InputTypes, instant \in 1..Instants, NEW b \in Book, BookSound(b), NEW s \in Replays,
           series[s][instant] # 0, session = 1 /\ ~terms.daily => Cardinality(BarsUpTo(s, instant - 1)) >= MIN_CLOSES,
           s \notin b.left, \A n \in b.noted : n[2] # s
    PROVE  /\ BookSound(BuySignal(b, s)) /\ BuySignal(b, s).left = b.left
           /\ \A n \in BuySignal(b, s).noted : n \in b.noted \/ n[2] = s
<1>1. CASE b.qty[s] > 0 \/ ~WithinTarget(b)
  BY <1>1 DEF BuySignal
<1>2. CASE ~(b.qty[s] > 0 \/ ~WithinTarget(b))
  <2>1. b.qty[s] = 0 /\ WithinTarget(b)
    <3>1. b.qty[s] \in Nat
      BY DEF Book
    <3>2. QED
      BY <1>2, <3>1
  <2>2. PICK base \in Nat :
           base = IF terms.targeted THEN Shared(b, series[s][instant]) ELSE FIXED_QTY
    <3>1. series[s][instant] \in Nat
      BY CourseType
    <3>2. Shared(b, series[s][instant]) \in Nat /\ FIXED_QTY \in Nat
      BY <3>1, SharedType, BacktestConstants
    <3>3. QED
      BY <3>2
  <2>3. PICK quantity \in Nat : quantity = Reduced(base, climate.level)
    BY ReducedType
  <2>4. PICK more : more = SkipNoted(b, s, base, quantity)
    OBVIOUS
  <2>5. /\ more \subseteq Reason \X {s} /\ \A n \in more, m \in more : n = m
        /\ quantity > 0 /\ climate.regime # "DANGER" => more = {}
    BY <2>4, SkipOnce
  <2>6. PICK told : told = [b EXCEPT !.noted = @ \cup more]
    OBVIOUS
  <2>7. BuySignal(b, s) = IF climate.regime = "DANGER" THEN told ELSE Acquired(told, s, instant, quantity)
    BY <1>2, <2>2, <2>3, <2>4, <2>6 DEF BuySignal
  <2>8. told \in Book /\ BookSound(told) /\ told.left = b.left /\ told.qty = b.qty /\ told.noted = b.noted \cup more
    <3>1. b.qty[s] = 0
      BY <2>1
    <3>2. more \subseteq Reason \X {s} /\ \A n \in more, m \in more : n = m
      BY <2>5
    <3>3. QED
      BY <2>6, <3>1, <3>2, SkipKeeps, Z3
  <2>9. \A n \in told.noted : n \in b.noted \/ n[2] = s
    BY <2>5, <2>8
  <2>10. CASE climate.regime = "DANGER" \/ Acquired(told, s, instant, quantity) = told
    BY <2>7, <2>8, <2>9, <2>10
  <2>11. CASE climate.regime # "DANGER" /\ Acquired(told, s, instant, quantity) # told
    <3>1. PICK d : d = Acquired(told, s, instant, quantity)
      OBVIOUS
    <3>2. told.qty[s] = 0 /\ Sound(told)
      BY <2>1, <2>8 DEF BookSound
    <3>3. d \in Book /\ Sound(d) /\ quantity > 0 /\ PurchaseOf(told, d, s, instant, quantity)
      BY <2>8, <2>11, <3>1, <3>2, AcquiredSound
    <3>4. told.noted = b.noted
      BY <2>5, <2>8, <2>11, <3>3
    <3>5. WithinTarget(told)
      <4>1. OpenPositions(told) = OpenPositions(b)
        BY <2>8 DEF OpenPositions
      <4>2. QED
        BY <2>1, <4>1 DEF WithinTarget
    <3>6. BookSound(d) /\ d.left = told.left /\ d.noted = told.noted
      BY <2>1, <2>8, <3>2, <3>3, <3>4, <3>5, PurchaseKeeps
    <3>7. QED
      BY <2>7, <2>8, <2>11, <3>1, <3>4, <3>6
  <2>12. QED
    BY <2>10, <2>11
<1>3. QED
  BY <1>1, <1>2

LEMMA BuyType ==
    ASSUME InputTypes, instant \in 1..Instants, NEW b \in Book, NEW s \in Replays, series[s][instant] # 0
    PROVE  BuySignal(b, s) \in Book
<1>1. CASE b.qty[s] > 0 \/ ~WithinTarget(b)
  BY <1>1 DEF BuySignal
<1>2. CASE ~(b.qty[s] > 0 \/ ~WithinTarget(b))
  <2>1. PICK base \in Nat :
           base = IF terms.targeted THEN Shared(b, series[s][instant]) ELSE FIXED_QTY
    <3>1. series[s][instant] \in Nat
      BY CourseType
    <3>2. Shared(b, series[s][instant]) \in Nat /\ FIXED_QTY \in Nat
      BY <3>1, SharedType, BacktestConstants
    <3>3. QED
      BY <3>2
  <2>2. PICK quantity \in Nat : quantity = Reduced(base, climate.level)
    BY ReducedType
  <2>3. PICK more : more = SkipNoted(b, s, base, quantity)
    OBVIOUS
  <2>4. PICK told : told = [b EXCEPT !.noted = @ \cup more]
    OBVIOUS
  <2>5. told \in Book
    <3>1. more \in SUBSET (Reason \X Replays)
      BY <2>3, SkipOnce
    <3>2. QED
      BY <2>4, <3>1, NotedBook
  <2>6. BuySignal(b, s) = IF climate.regime = "DANGER" THEN told ELSE Acquired(told, s, instant, quantity)
    BY <1>2, <2>1, <2>2, <2>3, <2>4 DEF BuySignal
  <2>7. Acquired(told, s, instant, quantity) \in Book
    BY <2>5, AcquiredSound
  <2>8. QED
    BY <2>5, <2>6, <2>7
<1>3. QED
  BY <1>1, <1>2

\* A signal to buy is of a symbol with a bar, on enough earlier ones, that was not sold in
\* this minute and that nothing was told of.
Buyable(b, s) ==
    /\ series[s][instant] # 0
    /\ session = 1 /\ ~terms.daily => Cardinality(BarsUpTo(s, instant - 1)) >= MIN_CLOSES
    /\ s \notin b.left
    /\ \A n \in b.noted : n[2] # s

LEMMA PurchasesSound ==
    ASSUME InputTypes, instant \in 1..Instants, NEW b \in Book, BookSound(b), NEW signal,
           \A s \in Replays : signal[s] = "BUY" => Buyable(b, s)
    PROVE  PurchasesDone(b, signal) \in Book /\ BookSound(PurchasesDone(b, signal))
<1> DEFINE Step(c, s) == IF signal[s] = "BUY" THEN BuySignal(c, s) ELSE c
           Waiting(k, c) == \A j \in 1..Len(Replayed) :
               j > k /\ signal[Replayed[j]] = "BUY" => \A n \in c.noted : n[2] # Replayed[j]
           P == {kc \in Nat \X Book : BookSound(kc[2]) /\ kc[2].left = b.left /\ Waiting(kc[1], kc[2])}
<1>1. ASSUME NEW c \in Book, NEW s \in Replays PROVE Step(c, s) \in Book
  <2>1. CASE signal[s] = "BUY"
    <3>1. BuySignal(c, s) \in Book
      BY <2>1, BuyType DEF Buyable
    <3>2. QED
      BY <2>1, <3>1
  <2>2. CASE signal[s] # "BUY"
    BY <2>2
  <2>3. QED
    BY <2>1, <2>2
<1>2. <<0, b>> \in P
  <2>1. Waiting(0, b)
    BY ReplayedSymbols DEF Buyable
  <2>2. QED
    BY <2>1
<1>3. ASSUME NEW k \in 1..Len(Replayed), NEW c \in Book, <<k - 1, c>> \in P
      PROVE  <<k, Step(c, Replayed[k])>> \in P
  <2>1. /\ k \in Nat /\ Len(Replayed) \in Nat /\ Replayed[k] \in Replays
        /\ \A j \in 1..Len(Replayed) : Replayed[j] = Replayed[k] => j = k
    BY ReplayedSymbols
  <2>2. BookSound(c) /\ c.left = b.left /\ Waiting(k - 1, c)
    BY <1>3
  <2>3. PICK s \in Replays : s = Replayed[k]
    BY <2>1
  <2>4. PICK d \in Book : d = Step(c, s)
    BY <1>1
  <2>5. BookSound(d) /\ d.left = b.left /\ \A n \in d.noted : n \in c.noted \/ n[2] = s
    <3>1. CASE signal[s] = "BUY"
      <4>1. \A n \in c.noted : n[2] # s
        BY <2>1, <2>2, <2>3, <3>1
      <4>2. Buyable(b, s)
        BY <3>1
      <4>3. /\ BookSound(BuySignal(c, s)) /\ BuySignal(c, s).left = c.left
            /\ \A n \in BuySignal(c, s).noted : n \in c.noted \/ n[2] = s
        BY <2>2, <4>1, <4>2, BuySignalKeeps DEF Buyable
      <4>4. QED
        BY <2>2, <2>4, <3>1, <4>3
    <3>2. CASE signal[s] # "BUY"
      BY <2>2, <2>4, <3>2
    <3>3. QED
      BY <3>1, <3>2
  <2>6. Waiting(k, d)
    <3>1. ASSUME NEW j \in 1..Len(Replayed), j > k, signal[Replayed[j]] = "BUY", NEW n \in d.noted
          PROVE  n[2] # Replayed[j]
      <4>1. j > k - 1 /\ Replayed[j] # s
        BY <2>1, <2>3, <3>1
      <4>2. n \in c.noted => n[2] # Replayed[j]
        BY <2>2, <3>1, <4>1
      <4>3. QED
        BY <2>5, <4>1, <4>2
    <3>2. QED
      BY <3>1
  <2>7. QED
    BY <2>1, <2>3, <2>4, <2>5, <2>6
<1>4. \A c \in Book, s \in Replays : (IF signal[s] = "BUY" THEN BuySignal(c, s) ELSE c) \in Book
  BY <1>1
<1>5. \A k \in 1..Len(Replayed) : \A c \in Book :
          <<k - 1, c>> \in P => <<k, IF signal[Replayed[k]] = "BUY" THEN BuySignal(c, Replayed[k]) ELSE c>> \in P
  <2> HIDE DEF P
  <2> QED
    BY <1>3
<1> HIDE DEF P
<1>6. PurchasesDone(b, signal) \in Book /\ <<Len(Replayed), PurchasesDone(b, signal)>> \in P
  BY <1>2, <1>4, <1>5, PurchasesKeep
<1>7. QED
  BY <1>6 DEF P

-----------------------------------------------------------------------------
(* The steps *)

\* A day or a minute begins with nothing told of and nothing sold.
LEMMA BegunBook ==
    ASSUME NEW b \in Book, Sound(b), NEW d, d = [b EXCEPT !.noted = {}, !.left = {}]
    PROVE  d \in Book /\ Sound(d) /\ d.noted = {} /\ d.left = {} /\ d.qty = b.qty /\ d.since = b.since
<1>1. d \in Book
  BY DEF Book
<1>2. d.noted = {} /\ d.left = {}
  BY DEF Book
<1>3. d.qty = b.qty /\ d.since = b.since
  BY DEF Book
<1>4. d.cash = b.cash /\ d.paid = b.paid /\ d.realized = b.realized
  BY DEF Book
<1>5. Sound(d)
  BY <1>3, <1>4 DEF Sound, Balanced
<1>6. QED
  BY <1>1, <1>2, <1>3, <1>5

LEMMA BarsCounted ==
    ASSUME NEW s \in Replays, NEW k \in Nat, k >= 1
    PROVE  /\ Cardinality(BarsUpTo(s, k - 1)) \in Nat
           /\ Cardinality(BarsUpTo(s, k)) =
                  Cardinality(BarsUpTo(s, k - 1)) + (IF series[s][k] # 0 THEN 1 ELSE 0)
<1>1. IsFiniteSet(BarsUpTo(s, k - 1)) /\ k \notin BarsUpTo(s, k - 1)
  <2>1. BarsUpTo(s, k - 1) \subseteq 1..(k - 1)
    BY DEF BarsUpTo
  <2>2. IsFiniteSet(1..(k - 1)) /\ k \notin 1..(k - 1)
    BY FS_Interval
  <2>3. QED
    BY <2>1, <2>2, FS_Subset
<1>2. Cardinality(BarsUpTo(s, k - 1)) \in Nat
  BY <1>1, FS_CardinalityType
<1>3. CASE series[s][k] # 0
  <2>1. BarsUpTo(s, k) = BarsUpTo(s, k - 1) \cup {k}
    BY <1>3 DEF BarsUpTo
  <2>2. QED
    BY <1>1, <1>2, <1>3, <2>1, FS_AddElement
<1>4. CASE series[s][k] = 0
  <2>1. BarsUpTo(s, k) = BarsUpTo(s, k - 1)
    BY <1>4 DEF BarsUpTo
  <2>2. QED
    BY <1>2, <1>4, <2>1
<1>5. QED
  BY <1>3, <1>4

\* The book of a minute, from the sales to the purchases.
LEMMA MinuteSound ==
    ASSUME BacktestIInv, PassMinute
    PROVE  book' \in Book /\ BookSound(book')
<1>1. /\ InputTypes /\ method = "replay" /\ instant \in 1..Instants /\ book \in Book /\ Sound(book)
      /\ HeldBy(book, instant - 1) /\ FewOpen(book)
      /\ session = 1 => \A s \in Replays : seen[s] = Cardinality(BarsUpTo(s, instant - 1))
  BY BacktestConstants DEF BacktestIInv, BacktestTypes, MinuteInv, PassMinute
<1>2. PICK begun : begun = [book EXCEPT !.noted = {}, !.left = {}]
  OBVIOUS
<1>3. /\ begun \in Book /\ Sound(begun) /\ begun.noted = {} /\ begun.left = {}
      /\ begun.qty = book.qty /\ begun.since = book.since
  BY <1>1, <1>2, BegunBook
<1>4. PICK watched : watched = StopsDone(begun)
  OBVIOUS
<1>5. PICK signal \in Verdicts(watched) :
        book' = LET sold == SalesDone(watched, signal)
                    filtered == {<<"MARKET_REGIME_CAUTION_RSI_FILTER", s>> : s \in {r \in Replays : signal[r] = "weak"}}
                    told == [sold EXCEPT !.noted = @ \cup filtered]
                IN  PurchasesDone(told, signal)
  BY <1>2, <1>4, Zenon DEF PassMinute
<1>6. PICK sold : sold = SalesDone(watched, signal)
  OBVIOUS
<1>7. PICK filtered : filtered = {<<"MARKET_REGIME_CAUTION_RSI_FILTER", s>> : s \in {r \in Replays : signal[r] = "weak"}}
  OBVIOUS
<1>8. PICK told : told = [sold EXCEPT !.noted = @ \cup filtered]
  OBVIOUS
<1>9. book' = PurchasesDone(told, signal)
  BY <1>5, <1>6, <1>7, <1>8
<1>10. OnlySold(begun, watched) /\ watched \in Book
  BY <1>1, <1>3, <1>4, StopsOnly DEF OnlySold
<1>11. \A s \in Replays : signal[s] # "none" =>
          s \notin watched.left /\ series[s][instant] # 0 /\ Known(s)
  BY <1>5 DEF Verdicts
<1>12. /\ OnlySold(watched, sold) /\ sold \in Book
       /\ \A r \in sold.left : r \in watched.left \/ signal[r] = "SELL"
  <2>1. \A s \in Replays : signal[s] = "SELL" => series[s][instant] # 0
    BY <1>11
  <2>2. QED
    BY <1>1, <1>6, <1>10, <2>1, SalesOnly DEF OnlySold
<1>13. OnlySold(begun, sold)
  BY <1>3, <1>10, <1>12, OnlySoldTwice
<1>14. HeldBy(begun, instant - 1) /\ FewOpen(begun)
  <2>1. OpenPositions(begun) = OpenPositions(book)
    BY <1>3 DEF OpenPositions
  <2>2. QED
    BY <1>1, <1>3, <2>1 DEF HeldBy, FewOpen
<1>15. HeldBy(sold, instant - 1) /\ FewOpen(sold) /\ Sound(sold) /\ sold.noted = {}
       /\ \A r \in Replays : r \in sold.left => sold.qty[r] = 0
  BY <1>3, <1>13, <1>14, SoldKeeps DEF OnlySold
<1>16. filtered \in SUBSET (Reason \X Replays)
  BY <1>7 DEF Reason
<1>17. /\ told \in Book /\ told.noted = filtered /\ told.left = sold.left
       /\ told.qty = sold.qty /\ told.since = sold.since
       /\ told.cash = sold.cash /\ told.paid = sold.paid /\ told.realized = sold.realized
  <2>1. told \in Book
    BY <1>8, <1>12, <1>16, NotedBook
  <2>2. told.noted = filtered /\ told.left = sold.left
    BY <1>8, <1>12, <1>15 DEF Book
  <2>3. told.qty = sold.qty /\ told.since = sold.since
    BY <1>8, <1>12 DEF Book
  <2>4. told.cash = sold.cash /\ told.paid = sold.paid /\ told.realized = sold.realized
    BY <1>8, <1>12 DEF Book
  <2>5. QED
    BY <2>1, <2>2, <2>3, <2>4
<1>18. BookSound(told)
  <2>1. Sound(told)
    BY <1>15, <1>17 DEF Sound, Balanced
  <2>2. \A s \in Replays : told.qty[s] > 0 /\ ~terms.overnight => told.since[s] \in 1..(instant - 1)
    BY <1>15, <1>17 DEF HeldBy
  <2>3. HeldBy(told, instant)
    <3>1. 1..(instant - 1) \subseteq 1..instant
      BY <1>1, BacktestConstants
    <3>2. QED
      BY <1>15, <1>17, <3>1 DEF HeldBy
  <2>4. FewOpen(told)
    <3>1. OpenPositions(told) = OpenPositions(sold)
      BY <1>17 DEF OpenPositions
    <3>2. QED
      BY <1>15, <3>1 DEF FewOpen
  <2>5. ToldOnce(told, instant)
    <3>1. \A n \in told.noted, m \in told.noted : n[2] = m[2] => n = m
      BY <1>7, <1>17
    <3>2. instant \notin 1..(instant - 1)
      BY <1>1, BacktestConstants
    <3>3. QED
      BY <1>15, <1>17, <2>2, <3>1, <3>2 DEF ToldOnce
  <2>6. QED
    BY <2>1, <2>3, <2>4, <2>5 DEF BookSound
<1>19. ASSUME NEW s \in Replays, signal[s] = "BUY" PROVE Buyable(told, s)
  <2>1. s \notin watched.left /\ series[s][instant] # 0 /\ Known(s)
    BY <1>11, <1>19
  <2>2. s \notin told.left
    BY <1>12, <1>17, <1>19, <2>1
  <2>3. \A n \in told.noted : n[2] # s
    BY <1>7, <1>17, <1>19
  <2>4. QED
    BY <1>1, <2>1, <2>2, <2>3 DEF Buyable, Known
<1>20. QED
  BY <1>1, <1>9, <1>17, <1>18, <1>19, PurchasesSound

LEMMA BacktestBegins == BacktestInit => BacktestIInv
<1> SUFFICES ASSUME BacktestInit PROVE BacktestIInv
  OBVIOUS
<1>1. /\ method \in {"replay", "fixed"} /\ terms \in Terms /\ session = 1 /\ instant = 1 /\ seen = Zero
      /\ book = [cash |-> StartingCash, qty |-> Zero, paid |-> Zero, entry |-> Zero, top |-> Zero,
                 since |-> Zero, realized |-> 0, noted |-> {}, left |-> {}]
  BY DEF BacktestInit
<1>2. /\ series \in Series
      /\ method = "fixed" => \A s \in Replays, i \in 1..Instants : series[s][i] # 0
  <2>1. series \in IF method = "replay" THEN Series ELSE Gapless
    BY DEF BacktestInit
  <2>2. Gapless \subseteq Series
    BY DEF Gapless, Series
  <2>3. series \in Gapless => \A s \in Replays, i \in 1..Instants : series[s][i] # 0
    BY DEF Gapless
  <2>4. QED
    BY <2>1, <2>2, <2>3
<1>3. climate \in [regime : Climate, level : Climate \cup {"unknown"}, active : SUBSET Replays]
  <2>1. Climates \subseteq [regime : Climate, level : Climate \cup {"unknown"}, active : SUBSET Replays]
    BY BacktestAssumption
  <2>2. CASE method = "replay"
    BY <2>1, <2>2 DEF BacktestInit
  <2>3. CASE method # "replay"
    BY <2>3 DEF BacktestInit, Climate
  <2>4. QED
    BY <2>2, <2>3
<1>4. Zero \in [Replays -> Nat] /\ \A s \in Replays : Zero[s] = 0
  BY DEF Zero
<1>5. book \in Book
  BY <1>1, <1>4, BacktestConstants DEF Book
<1>6. BacktestTypes
  BY <1>1, <1>2, <1>3, <1>4, <1>5, BacktestConstants, ReplayedSymbols DEF BacktestTypes, InputTypes
<1>7. Sound(book)
  <2>1. SumOver(Zero, Replays) = 0
    BY ReplayedSymbols, SumOfNothing DEF Zero
  <2>2. QED
    BY <1>1, <1>4, <2>1, BacktestConstants DEF Sound, Balanced
<1>8. OpenPositions(book) = {} /\ \A s \in Replays : book.qty[s] = 0
  BY <1>1, <1>4 DEF OpenPositions
<1>9. MinuteInv
  <2>1. HeldBy(book, instant - 1)
    BY <1>8 DEF HeldBy
  <2>2. FewOpen(book)
    BY <1>8, FS_EmptySet, BacktestConstants DEF FewOpen
  <2>3. \A s \in Replays : BarsUpTo(s, instant - 1) = {}
    BY <1>1 DEF BarsUpTo
  <2>4. QED
    BY <1>1, <1>4, <2>1, <2>2, <2>3, FS_EmptySet DEF MinuteInv
<1>10. DayLotInv
  BY <1>8, ReplayedSymbols DEF DayLotInv
<1>11. QED
  BY <1>1, <1>6, <1>7, <1>9, <1>10 DEF BacktestIInv

LEMMA MinuteKeeps == BacktestIInv /\ PassMinute => BacktestIInv'
<1> SUFFICES ASSUME BacktestIInv, PassMinute PROVE BacktestIInv'
  OBVIOUS
<1>1. /\ method' = method /\ terms' = terms /\ session' = session /\ series' = series /\ climate' = climate
      /\ instant' = instant + 1 /\ seen' = [s \in Replays |-> seen[s] + (IF series[s][instant] # 0 THEN 1 ELSE 0)]
      /\ method = "replay" /\ instant <= Instants
  BY DEF PassMinute
<1>2. InputTypes /\ session \in 1..Sessions + 1 /\ instant \in 1..Instants /\ seen \in [Replays -> Nat]
  BY <1>1, BacktestConstants DEF BacktestIInv, BacktestTypes
<1>3. book' \in Book /\ BookSound(book')
  BY MinuteSound
<1>4. instant' - 1 = instant /\ instant' \in 1..Instants + 1
  BY <1>1, <1>2, BacktestConstants
<1>5. BacktestTypes'
  <2>1. InputTypes'
    BY <1>1, <1>2 DEF InputTypes
  <2>2. seen' \in [Replays -> Nat]
    BY <1>1, <1>2
  <2>3. QED
    BY <1>1, <1>2, <1>3, <1>4, <2>1, <2>2 DEF BacktestTypes
<1>6. Sound(book)'
  BY <1>3 DEF BookSound, Sound, Balanced
<1>7. MinuteInv'
  <2>1. HeldBy(book, instant - 1)'
    BY <1>1, <1>3, <1>4 DEF BookSound, HeldBy, BarsUpTo
  <2>2. FewOpen(book)'
    BY <1>1, <1>3 DEF BookSound, FewOpen, OpenPositions
  <2>3. ASSUME session = 1, NEW s \in Replays PROVE seen'[s] = Cardinality(BarsUpTo(s, instant))
    <3>1. seen[s] = Cardinality(BarsUpTo(s, instant - 1))
      BY <1>1, <2>3 DEF BacktestIInv, MinuteInv
    <3>2. instant \in Nat /\ instant >= 1
      BY <1>2
    <3>3. QED
      BY <1>1, <3>1, <3>2, BarsCounted
  <2>4. \A s \in Replays : BarsUpTo(s, instant - 1)' = BarsUpTo(s, instant)
    BY <1>1, <1>4 DEF BarsUpTo
  <2>5. QED
    BY <1>1, <2>1, <2>2, <2>3, <2>4 DEF MinuteInv
<1>8. DayLotInv'
  BY <1>1 DEF DayLotInv
<1>9. ToldOnce(book, instant - 1)'
  BY <1>1, <1>3, <1>4 DEF BookSound, ToldOnce
<1>10. QED
  BY <1>5, <1>6, <1>7, <1>8, <1>9 DEF BacktestIInv

LEMMA SessionKeeps == BacktestIInv /\ CloseSession => BacktestIInv'
<1> SUFFICES ASSUME BacktestIInv, CloseSession PROVE BacktestIInv'
  OBVIOUS
<1>1. /\ method' = method /\ terms' = terms /\ session' = session + 1 /\ seen' = seen
      /\ method = "replay" /\ session <= Sessions /\ instant > Instants
      /\ IF session < Sessions
         THEN instant' = 1 /\ series' \in Series /\ climate' \in Climates
         ELSE UNCHANGED <<instant, series, climate>>
  BY DEF CloseSession
<1>2. /\ InputTypes /\ session \in 1..Sessions + 1 /\ instant \in 1..Instants + 1 /\ seen \in [Replays -> Nat]
      /\ book \in Book /\ Sound(book) /\ HeldBy(book, instant - 1) /\ FewOpen(book)
  BY <1>1 DEF BacktestIInv, BacktestTypes, MinuteInv
<1>3. instant - 1 = Instants /\ session' \in 1..Sessions + 1 /\ session' # 1 /\ instant' \in 1..Instants + 1
  BY <1>1, <1>2, BacktestConstants
<1>4. PICK begun : begun = [book EXCEPT !.noted = {}, !.left = {}]
  OBVIOUS
<1>5. /\ begun \in Book /\ Sound(begun) /\ begun.noted = {} /\ begun.left = {}
      /\ begun.qty = book.qty /\ begun.since = book.since
  BY <1>2, <1>4, BegunBook
<1>6. HeldBy(begun, Instants) /\ FewOpen(begun)
  <2>1. OpenPositions(begun) = OpenPositions(book)
    BY <1>5 DEF OpenPositions
  <2>2. QED
    BY <1>2, <1>3, <1>5, <2>1 DEF HeldBy, FewOpen
<1>7. book' = IF terms.overnight THEN begun ELSE LotsSold(begun)
  BY <1>4 DEF CloseSession
<1>8. OnlySold(begun, book') /\ (~terms.overnight => \A s \in Replays : book'.qty[s] = 0)
  <2>1. CASE terms.overnight
    BY <1>5, <1>7, <2>1, NothingSold
  <2>2. CASE ~terms.overnight
    <3>1. OnlySold(begun, book') /\ \A s \in Replays : book'.qty[s] > 0 => LastBar(s) = 0
      BY <1>2, <1>5, <1>7, <2>2, LotsOnly
    <3>2. ASSUME NEW s \in Replays PROVE book'.qty[s] = 0
      <4>1. book' \in Book
        BY <3>1 DEF OnlySold
      <4>2. book'.qty[s] \in Nat
        BY <4>1 DEF Book
      <4>3. SUFFICES ASSUME book'.qty[s] > 0 PROVE FALSE
        BY <4>2
      <4>4. begun.qty[s] > 0
        BY <3>1, <4>3 DEF OnlySold
      <4>5. begun.since[s] \in 1..Instants /\ series[s][begun.since[s]] # 0
        BY <1>6, <2>2, <4>4 DEF HeldBy
      <4>6. LastBar(s) >= begun.since[s]
        BY <1>2, <4>5, LastBarType
      <4>7. LastBar(s) = 0
        BY <3>1, <4>3
      <4>8. QED
        BY <4>5, <4>6, <4>7
    <3>3. QED
      BY <3>1, <3>2
  <2>3. QED
    BY <2>1, <2>2
<1>9. book' \in Book /\ Sound(book') /\ book'.noted = {} /\ \A s \in book'.left : book'.qty[s] = 0
  BY <1>5, <1>8 DEF OnlySold
<1>10. FewOpen(book')
  BY <1>5, <1>6, <1>8, SoldKeeps
<1>11. BacktestTypes'
  <2>1. InputTypes'
    <3>1. Climates \subseteq [regime : Climate, level : Climate \cup {"unknown"}, active : SUBSET Replays]
      BY BacktestAssumption
    <3>2. QED
      BY <1>1, <1>2, <3>1 DEF InputTypes
  <2>2. QED
    BY <1>1, <1>2, <1>3, <1>9, <2>1 DEF BacktestTypes
<1>12. Sound(book)'
  BY <1>9 DEF Sound, Balanced
<1>13. MinuteInv'
  <2>1. HeldBy(book, instant - 1)'
    <3>1. ASSUME NEW s \in Replays, book'.qty[s] > 0 PROVE terms'.overnight
      BY <1>1, <1>8, <3>1
    <3>2. QED
      BY <1>3, <3>1 DEF HeldBy
  <2>2. FewOpen(book)'
    BY <1>1, <1>10 DEF FewOpen, OpenPositions
  <2>3. QED
    BY <1>3, <2>1, <2>2 DEF MinuteInv
<1>14. DayLotInv'
  BY <1>1 DEF DayLotInv
<1>15. ToldOnce(book, instant - 1)'
  BY <1>9 DEF ToldOnce
<1>16. QED
  BY <1>11, <1>12, <1>13, <1>14, <1>15 DEF BacktestIInv

\* What a day of a symbol does to the book: sales of the symbol, or one purchase of it after
\* what was held is sold.
LEMMA DayBook ==
    ASSUME BacktestTypes, Sound(book), DayLotInv, PassDay,
           NEW s \in Replays, s = Replayed[session]
    PROVE  \E d \in Book, n \in Nat :
               /\ OnlySold([book EXCEPT !.left = {}], d)
               /\ ~terms.overnight => d.qty[s] = 0
               /\ \/ OnlySold(d, book')
                  \/ /\ n > 0 /\ d.qty[s] = 0 /\ book' \in Book /\ Sound(book')
                     /\ PurchaseOf(d, book', s, instant, n)
<1>1. /\ InputTypes /\ instant \in 1..Instants /\ session \in 1..Len(Replayed) /\ book \in Book
      /\ series[s][instant] # 0 /\ method = "fixed"
  BY ReplayedSymbols DEF BacktestTypes, PassDay
<1>2. PICK begun : begun = [book EXCEPT !.left = {}]
  OBVIOUS
<1>3. begun \in Book /\ begun.qty = book.qty /\ begun.since = book.since /\ Sound(begun)
  <2>1. begun \in Book
    BY <1>1, <1>2 DEF Book
  <2>2. begun.qty = book.qty /\ begun.since = book.since
    BY <1>1, <1>2 DEF Book
  <2>3. begun.cash = book.cash /\ begun.paid = book.paid /\ begun.realized = book.realized
    BY <1>1, <1>2 DEF Book
  <2>4. QED
    BY <2>1, <2>2, <2>3 DEF Sound, Balanced
<1>4. PICK closed : closed = IF EndOfDayDue(begun, s) THEN Closed(begun, s, instant) ELSE begun
  OBVIOUS
<1>5. OnlySold(begun, closed) /\ closed \in Book /\ (~terms.overnight => closed.qty[s] = 0)
  <2>1. CASE EndOfDayDue(begun, s)
    <3>1. OnlySold(begun, Closed(begun, s, instant)) /\ Closed(begun, s, instant).qty[s] = 0
      BY <1>1, <1>3, SaleOnly
    <3>2. QED
      BY <1>4, <2>1, <3>1 DEF OnlySold
  <2>2. CASE ~EndOfDayDue(begun, s)
    <3>1. closed = begun
      BY <1>4, <2>2, Zenon
    <3>2. ~terms.overnight => begun.qty[s] = 0
      <4>1. SUFFICES ASSUME ~terms.overnight, begun.qty[s] # 0 PROVE FALSE
        OBVIOUS
      <4>2. book.qty[s] > 0
        BY <1>1, <1>3, <4>1 DEF Book
      <4>3. book.since[s] = instant - 1
        BY <1>1, <4>1, <4>2, ReplayedSymbols DEF DayLotInv
      <4>4. EndOfDayDue(begun, s)
        BY <1>1, <1>3, <4>1, <4>2, <4>3, BacktestConstants DEF EndOfDayDue
      <4>5. QED
        BY <2>2, <4>4
    <3>3. QED
      BY <1>3, <3>1, <3>2, NothingSold
  <2>3. QED
    BY <2>1, <2>2
<1>6. PICK d : d = Raised(closed, s, instant)
  OBVIOUS
<1>7. d \in Book /\ OnlySold(begun, d) /\ (~terms.overnight => d.qty[s] = 0) /\ Sound(d)
  <2>1. OnlySold(closed, d) /\ d.qty = closed.qty
    BY <1>1, <1>5, <1>6, RiseOnly
  <2>2. OnlySold(begun, d)
    BY <1>3, <1>5, <2>1, OnlySoldTwice
  <2>3. QED
    BY <1>3, <1>5, <2>1, <2>2 DEF OnlySold
<1>8. PICK level \in Climate \cup {"unknown"}, signal \in {"none", "BUY", "SELL"} :
        book' = CASE StopReached(d, s, instant, level) -> Closed(d, s, instant)
                  [] signal = "SELL" -> SellSignal(d, s)
                  [] signal = "BUY" /\ d.qty[s] = 0 -> Acquired(d, s, instant, Reduced(FIXED_QTY, level))
                  [] OTHER -> d
  <2>1. PICK level \in Climate \cup {"unknown"}, signal \in {"none", "BUY", "SELL"} :
          /\ signal # "none" => ~StopReached(d, s, instant, level) /\ instant > MIN_CLOSES
          /\ book' = CASE StopReached(d, s, instant, level) -> Closed(d, s, instant)
                       [] signal = "SELL" -> SellSignal(d, s)
                       [] signal = "BUY" /\ d.qty[s] = 0 -> Acquired(d, s, instant, Reduced(FIXED_QTY, level))
                       [] OTHER -> d
    BY <1>2, <1>4, <1>6, Zenon DEF PassDay
  <2>2. signal # "none" => ~StopReached(d, s, instant, level)
    BY <2>1
  <2>3. QED
    BY <2>1, Zenon
<1>9. PICK n : n = Reduced(FIXED_QTY, level)
  OBVIOUS
<1>10. n \in Nat
  BY <1>9, BacktestConstants, ReducedType
<1>11. \/ OnlySold(d, book')
       \/ n > 0 /\ d.qty[s] = 0 /\ book' \in Book /\ Sound(book') /\ PurchaseOf(d, book', s, instant, n)
  <2>1. \/ book' = Closed(d, s, instant) \/ book' = SellSignal(d, s)
        \/ d.qty[s] = 0 /\ book' = Acquired(d, s, instant, n)
        \/ book' = d
    BY <1>8, <1>9
  <2>2. CASE book' = Closed(d, s, instant)
    BY <1>1, <1>7, <2>2, SaleOnly
  <2>3. CASE book' = SellSignal(d, s)
    BY <1>1, <1>7, <2>3, SellOnly
  <2>4. CASE d.qty[s] = 0 /\ book' = Acquired(d, s, instant, n)
    <3>1. /\ book' \in Book /\ Sound(book')
          /\ book' = d \/ (n > 0 /\ PurchaseOf(d, book', s, instant, n))
      BY <1>1, <1>7, <1>10, <2>4, AcquiredSound
    <3>2. QED
      BY <1>7, <2>4, <3>1, NothingSold
  <2>5. CASE book' = d
    BY <1>7, <2>5, NothingSold
  <2>6. QED
    BY <2>1, <2>2, <2>3, <2>4, <2>5
<1>12. QED
  BY <1>2, <1>7, <1>10, <1>11

LEMMA DayKeeps == BacktestIInv /\ PassDay => BacktestIInv'
<1> SUFFICES ASSUME BacktestIInv, PassDay PROVE BacktestIInv'
  OBVIOUS
<1>1. /\ method' = method /\ terms' = terms /\ series' = series /\ climate' = climate /\ seen' = seen
      /\ method = "fixed" /\ session <= Len(Replayed) /\ instant <= Instants
      /\ \/ instant < Instants /\ instant' = instant + 1 /\ session' = session
         \/ ~(instant < Instants) /\ instant' = 1 /\ session' = session + 1
  BY DEF PassDay
<1>2. /\ BacktestTypes /\ Sound(book) /\ DayLotInv
      /\ InputTypes /\ session \in 1..Len(Replayed) /\ instant \in 1..Instants
      /\ seen \in [Replays -> Nat] /\ book \in Book
      /\ \A s \in Replays, i \in 1..Instants : series[s][i] # 0
  BY <1>1, ReplayedSymbols DEF BacktestIInv, BacktestTypes
<1>3. PICK s \in Replays : s = Replayed[session]
  BY <1>2, ReplayedSymbols
<1>4. PICK d \in Book, n \in Nat :
        /\ OnlySold([book EXCEPT !.left = {}], d)
        /\ ~terms.overnight => d.qty[s] = 0
        /\ \/ OnlySold(d, book')
           \/ /\ n > 0 /\ d.qty[s] = 0 /\ book' \in Book /\ Sound(book')
              /\ PurchaseOf(d, book', s, instant, n)
  BY <1>2, <1>3, DayBook
<1>5. PICK begun : begun = [book EXCEPT !.left = {}]
  OBVIOUS
<1>6. begun \in Book /\ begun.qty = book.qty /\ begun.since = book.since /\ Sound(begun)
  <2>1. begun \in Book
    BY <1>2, <1>5 DEF Book
  <2>2. begun.qty = book.qty /\ begun.since = book.since
    BY <1>2, <1>5 DEF Book
  <2>3. begun.cash = book.cash /\ begun.paid = book.paid /\ begun.realized = book.realized
    BY <1>2, <1>5 DEF Book
  <2>4. QED
    BY <1>2, <2>1, <2>2, <2>3 DEF Sound, Balanced
<1>7. OnlySold(begun, d) /\ Sound(d)
  BY <1>4, <1>5, <1>6 DEF OnlySold
<1>8. book' \in Book /\ Sound(book')
  BY <1>4, <1>7 DEF OnlySold
<1>9. BacktestTypes'
  <2>1. InputTypes'
    BY <1>1, <1>2 DEF InputTypes
  <2>2. session' \in 1..Len(Replayed) + 1 /\ instant' \in 1..Instants
    BY <1>1, <1>2, BacktestConstants, ReplayedSymbols
  <2>3. QED
    BY <1>1, <1>2, <1>8, <2>1, <2>2 DEF BacktestTypes
<1>10. Sound(book)'
  BY <1>8 DEF Sound, Balanced
<1>11. MinuteInv'
  BY <1>1 DEF MinuteInv
<1>12. DayLotInv'
  <2>1. ASSUME ~terms.overnight, NEW k \in 1..Len(Replayed), book'.qty[Replayed[k]] > 0
        PROVE  /\ k <= session'
               /\ book'.since[Replayed[k]] = IF k < session' THEN Instants ELSE instant' - 1
    <3>1. /\ k \in Nat /\ session \in Nat /\ instant \in Nat /\ Instants \in Nat /\ Replayed[k] \in Replays
          /\ Replayed[k] = s => k = session
      <4>1. Len(Replayed) \in Nat /\ Instants \in Nat
        BY ReplayedSymbols, BacktestConstants
      <4>2. Replayed[k] \in Replays
        BY <2>1, ReplayedSymbols
      <4>3. Replayed[k] = s => k = session
        BY <1>2, <1>3, <2>1, ReplayedSymbols
      <4>4. QED
        BY <1>2, <2>1, <4>1, <4>2, <4>3
    <3>2. PICK r \in Replays : r = Replayed[k]
      BY <3>1
    <3>3. CASE k = session
      <4>1. r = s /\ d.qty[r] = 0
        BY <1>3, <1>4, <2>1, <3>2, <3>3
      <4>2. ~OnlySold(d, book')
        BY <2>1, <3>2, <4>1 DEF OnlySold
      <4>3. PurchaseOf(d, book', s, instant, n)
        BY <1>4, <4>2
      <4>4. d.since \in [Replays -> Nat]
        BY DEF Book
      <4>5. book'.since[r] = instant
        BY <4>1, <4>3, <4>4 DEF PurchaseOf
      <4>6. QED
        BY <1>1, <1>2, <3>1, <3>2, <3>3, <4>5
    <3>4. CASE k # session
      <4>1. r # s
        BY <3>1, <3>2, <3>4
      <4>2. book'.qty[r] = d.qty[r] /\ book'.since[r] = d.since[r]
        <5>1. d.qty \in [Replays -> Nat] /\ d.since \in [Replays -> Nat]
          BY DEF Book
        <5>2. CASE OnlySold(d, book')
          BY <2>1, <3>2, <5>2 DEF OnlySold
        <5>3. CASE PurchaseOf(d, book', s, instant, n)
          BY <4>1, <5>1, <5>3 DEF PurchaseOf
        <5>4. QED
          BY <1>4, <5>2, <5>3
      <4>3. d.qty[r] = book.qty[r] /\ d.since[r] = book.since[r]
        BY <1>6, <1>7, <2>1, <3>2, <4>2 DEF OnlySold
      <4>4. book.qty[Replayed[k]] > 0
        BY <2>1, <3>2, <4>2, <4>3
      <4>5. k <= session /\ book.since[Replayed[k]] = IF k < session THEN Instants ELSE instant - 1
        BY <1>1, <1>2, <2>1, <4>4, ReplayedSymbols DEF DayLotInv
      <4>6. k < session /\ book'.since[Replayed[k]] = Instants
        BY <3>1, <3>2, <3>4, <4>2, <4>3, <4>5
      <4>7. k < session' /\ k <= session'
        BY <1>1, <3>1, <4>6
      <4>8. QED
        BY <4>6, <4>7
    <3>5. QED
      BY <3>3, <3>4
  <2>2. DOMAIN Replayed = 1..Len(Replayed)
    BY ReplayedSymbols
  <2>3. QED
    BY <1>1, <2>1, <2>2 DEF DayLotInv
<1>13. QED
  BY <1>1, <1>9, <1>10, <1>11, <1>12 DEF BacktestIInv

LEMMA BacktestIdles == BacktestIInv /\ UNCHANGED backtestVars => BacktestIInv'
<1> SUFFICES ASSUME BacktestIInv, UNCHANGED backtestVars PROVE BacktestIInv'
  OBVIOUS
<1>1. /\ method' = method /\ terms' = terms /\ session' = session /\ instant' = instant
      /\ series' = series /\ climate' = climate /\ seen' = seen /\ book' = book
  BY DEF backtestVars
<1>2. BacktestTypes'
  BY <1>1 DEF BacktestIInv, BacktestTypes, InputTypes
<1>3. Sound(book)'
  BY <1>1 DEF BacktestIInv, Sound, Balanced
<1>4. MinuteInv'
  <2>1. HeldBy(book, instant - 1)' <=> HeldBy(book, instant - 1)
    BY <1>1 DEF HeldBy, BarsUpTo
  <2>2. OpenPositions(book)' = OpenPositions(book)
    BY <1>1 DEF OpenPositions
  <2>3. \A s \in Replays : BarsUpTo(s, instant - 1)' = BarsUpTo(s, instant - 1)
    BY <1>1 DEF BarsUpTo
  <2>4. QED
    BY <1>1, <2>1, <2>2, <2>3 DEF BacktestIInv, MinuteInv, FewOpen
<1>5. DayLotInv'
  BY <1>1 DEF BacktestIInv, DayLotInv
<1>6. method' = "replay" /\ instant' > 1 => ToldOnce(book, instant - 1)'
  BY <1>1 DEF BacktestIInv, ToldOnce
<1>7. QED
  BY <1>2, <1>3, <1>4, <1>5, <1>6 DEF BacktestIInv

LEMMA BacktestMoves == BacktestIInv /\ [BacktestNext]_backtestVars => BacktestIInv'
BY MinuteKeeps, SessionKeeps, DayKeeps, BacktestIdles DEF BacktestNext

\* What the invariant is for.
LEMMA BacktestImplied == BacktestIInv => BacktestTypeOK /\ BacktestSound
<1> SUFFICES ASSUME BacktestIInv PROVE BacktestTypeOK /\ BacktestSound
  OBVIOUS
<1>1. /\ InputTypes /\ method \in {"replay", "fixed"} /\ seen \in [Replays -> Nat] /\ book \in Book
      /\ Sound(book)
      /\ method = "replay" => session \in 1..Sessions + 1 /\ instant \in 1..Instants + 1
      /\ method = "fixed" => session \in 1..Len(Replayed) + 1 /\ instant \in 1..Instants
  BY DEF BacktestIInv, BacktestTypes
<1>2. BacktestTypeOK
  <2>1. session \in 1..(Sessions + Len(Replayed) + 1) /\ instant \in 1..(Instants + 1)
    BY <1>1, BacktestConstants, ReplayedSymbols
  <2>2. {book.qty, book.paid, book.entry, book.top, book.since} \subseteq [Replays -> Nat]
    BY <1>1 DEF Book
  <2>3. book.cash \in Int /\ book.realized \in Int /\ book.left \subseteq Replays
    BY <1>1 DEF Book
  <2>4. QED
    BY <1>1, <2>1, <2>2, <2>3 DEF BacktestTypeOK
<1>3. BooksBalance
  <2>1. DOMAIN book.paid = Replays
    BY <1>1 DEF Book
  <2>2. SumOf(book.paid) = SumOver(book.paid, Replays)
    BY <2>1, Zenon DEF SumOf, SumOver
  <2>3. QED
    BY <1>1, <2>2 DEF Sound, Balanced, BooksBalance
<1>4. NeverOverdrawn
  BY <1>1 DEF Book, NeverOverdrawn
<1>5. FlatOvernight
  <2>1. ASSUME ~terms.overnight, method = "replay", instant = 1 PROVE book.qty = Zero
    <3>1. HeldBy(book, 0)
      BY <2>1 DEF BacktestIInv, MinuteInv
    <3>2. book.qty \in [Replays -> Nat]
      BY <1>1 DEF Book
    <3>3. \A s \in Replays : ~(book.qty[s] > 0)
      BY <2>1, <3>1 DEF HeldBy
    <3>4. \A s \in Replays : book.qty[s] = 0
      BY <3>2, <3>3
    <3>5. QED
      BY <3>2, <3>4 DEF Zero
  <2>2. QED
    BY <2>1 DEF FlatOvernight, BacktestIInv, DayLotInv
<1>6. TargetRespected
  BY DEF TargetRespected, BacktestIInv, MinuteInv, FewOpen
<1>7. NoLookAhead
  BY DEF NoLookAhead, BacktestIInv, MinuteInv, HeldBy, BarsUpTo, OpenPositions
<1>8. TradesTold
  <2> SUFFICES ASSUME method = "replay", instant > 1, NEW s \in Replays
               PROVE  LET reasons == {n \in book.noted : n[2] = s}
                          justBought == book.qty[s] > 0 /\ book.since[s] = instant - 1
                      IN  /\ Cardinality(reasons) <= 1
                          /\ justBought /\ ~terms.overnight => reasons = {}
                          /\ s \in book.left => book.qty[s] = 0
    BY DEF TradesTold
  <2>1. ToldOnce(book, instant - 1)
    BY DEF BacktestIInv
  <2>2. PICK reasons : reasons = {n \in book.noted : n[2] = s}
    OBVIOUS
  <2>3. \A n \in reasons, m \in reasons : n = m
    BY <2>1, <2>2 DEF ToldOnce
  <2>4. Cardinality(reasons) <= 1
    <3>1. CASE reasons = {}
      BY <3>1, FS_EmptySet
    <3>2. CASE reasons # {}
      <4>1. PICK n : reasons = {n}
        BY <2>3, <3>2
      <4>2. QED
        BY <4>1, FS_Singleton
    <3>3. QED
      BY <3>1, <3>2
  <2>5. book.qty[s] > 0 /\ book.since[s] = instant - 1 /\ ~terms.overnight => reasons = {}
    BY <2>1, <2>2 DEF ToldOnce
  <2>6. s \in book.left => book.qty[s] = 0
    BY <2>1 DEF ToldOnce
  <2>7. QED
    BY <2>2, <2>4, <2>5, <2>6
<1>9. QED
  BY <1>2, <1>3, <1>4, <1>5, <1>6, <1>7, <1>8 DEF BacktestSound

\* In every state of the simulations the results add up, no purchase is on credit, nothing is
\* held overnight that should not be, a target number of positions is kept, no signal of minutes
\* knows the future and every skipped purchase is told once: for every course of prices, every signal
\* and every volatility (simulate_timeseries_backtest and simulate_backtest).
THEOREM AlwaysBacktestedSoundly == BacktestSpec => [](BacktestTypeOK /\ BacktestSound)
<1>1. BacktestInit => BacktestIInv
  BY BacktestBegins
<1>2. BacktestIInv /\ [BacktestNext]_backtestVars => BacktestIInv'
  BY BacktestMoves
<1>3. BacktestIInv => BacktestTypeOK /\ BacktestSound
  BY BacktestImplied
<1>4. QED
  BY <1>1, <1>2, <1>3, PTL DEF BacktestSpec

=============================================================================
