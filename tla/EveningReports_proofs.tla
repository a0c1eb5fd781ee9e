----------------------- MODULE EveningReports_proofs ------------------------
(***************************************************************************)
(* Theorems about the other programs that tell of the days of the trading:  *)
(* the errors of a day, the analysis after the close, the recomputation of   *)
(* the reports and the comparison of the price bands; and about all of them  *)
(* together (MCEvening). For every value of the constants.                   *)
(***************************************************************************)
EXTENDS EveningPrograms_proofs

-----------------------------------------------------------------------------
(* The errors of a day (DayErrors) *)

ErrorLine == [kind : {"timeout", "error", "recovered", "final_failure"}, symbol : ErrorSymbol,
              id : ErrorSymbol \X Nat, open : BOOLEAN]
Outcomes == {"recovered", "final_failure"}

\* The outcomes that the log q tells are those of the requests, one of each.
FateOf(q, fates) ==
    /\ fates \subseteq (ErrorSymbol \X Nat) \X Outcomes
    /\ \A o \in Range(q) : o.kind \in Outcomes => <<o.id, o.kind>> \in fates
    /\ \A f \in fates : \E o \in Range(q) : o.id = f[1] /\ o.kind = f[2]
    /\ \A f \in fates, e \in fates : f[1] = e[1] => f[2] = e[2]

ErrorsRest ==
    /\ errorDay \in 1..(LastErrorDay + 1) /\ filteringNo \in 0..MaxFilterings /\ asking \in BOOLEAN
    /\ timedOut \subseteq ErrorSymbol /\ cameBack \subseteq timedOut
    /\ logLines \in Seq(ErrorLine)
    /\ \A f \in fate : f[1][2] <= filteringNo /\ (asking => f[1][2] < filteringNo)

\* e is a true report of a day on which h happened.
ToldOf(e, h) ==
    /\ e.form \in {"counted", "listed", "grouped", "none"}
    /\ h \in [recovered : Int, lost : Int, open : Int, others : Int]
    /\ Normalized(e).recorded = (e.form # "none")
    /\ Normalized(e).count \in Nat /\ Timeouts(Normalized(e)) \in Int /\ Normalized(e).others \in Int
    /\ Timeouts(Normalized(e)) + Normalized(e).others = Normalized(e).count
    /\ e.form # "none" => Normalized(e).count = h.recovered + h.lost + h.open + h.others
    /\ e.form = "none" => Normalized(e).count = 0
    /\ e.form = "counted" =>
          /\ Normalized(e).timeouts = [recovered |-> h.recovered, final_failure |-> h.lost, unrecorded |-> h.open]
          /\ Normalized(e).others = h.others

DaysTold(told, real, upTo) ==
    /\ DOMAIN told = ErrorDay /\ told = [d \in ErrorDay |-> told[d]]
    /\ DOMAIN real = ErrorDay /\ real = [d \in ErrorDay |-> real[d]]
    /\ \A d \in ErrorDay : d >= upTo => told[d] = NotTold
    /\ \A d \in ErrorDay : d < upTo => ToldOf(told[d], real[d])

ErrorsIInv == ErrorsRest /\ FateOf(logLines, fate) /\ DaysTold(toldErrors, happened, errorDay)

\* What the log tells of a request is what became of it.
LEMMA OutcomeTold ==
    ASSUME NEW q, NEW fates, FateOf(q, fates), NEW l
    PROVE  /\ OutcomeOf(q, l) = "recovered" <=> <<l.id, "recovered">> \in fates
           /\ OutcomeOf(q, l) = "final_failure" <=> <<l.id, "final_failure">> \in fates
           /\ OutcomeOf(q, l) = "unrecorded" <=>
                 <<l.id, "recovered">> \notin fates /\ <<l.id, "final_failure">> \notin fates
<1> DEFINE said == {o \in Range(q) : o.kind \in {"recovered", "final_failure"} /\ o.id = l.id}
<1>1. OutcomeOf(q, l) = IF said = {} THEN "unrecorded" ELSE (CHOOSE o \in said : TRUE).kind
  BY DEF OutcomeOf
<1>2. \A o \in said : o.kind \in Outcomes /\ <<l.id, o.kind>> \in fates
  BY DEF FateOf, Outcomes
<1>3. \A k \in Outcomes : <<l.id, k>> \in fates => \E o \in said : o.kind = k
  <2>1. SUFFICES ASSUME NEW k \in Outcomes, <<l.id, k>> \in fates PROVE \E o \in said : o.kind = k
    OBVIOUS
  <2>2. PICK f : f = <<l.id, k>>
    OBVIOUS
  <2>3. f \in fates /\ f[1] = l.id /\ f[2] = k
    BY <2>1, <2>2
  <2>4. PICK o \in Range(q) : o.id = f[1] /\ o.kind = f[2]
    BY <2>3 DEF FateOf
  <2>5. o \in said /\ o.kind = k
    BY <2>1, <2>3, <2>4 DEF Outcomes
  <2>6. QED
    BY <2>5
<1>4. \A k \in Outcomes, m \in Outcomes : <<l.id, k>> \in fates /\ <<l.id, m>> \in fates => k = m
  <2>1. SUFFICES ASSUME NEW k \in Outcomes, NEW m \in Outcomes, <<l.id, k>> \in fates, <<l.id, m>> \in fates
                 PROVE  k = m
    OBVIOUS
  <2>2. PICK f, e : f = <<l.id, k>> /\ e = <<l.id, m>>
    OBVIOUS
  <2>3. f \in fates /\ e \in fates /\ f[1] = e[1] /\ f[2] = k /\ e[2] = m
    BY <2>1, <2>2
  <2>4. f[2] = e[2]
    BY <2>3 DEF FateOf
  <2>5. QED
    BY <2>3, <2>4
<1>5. "recovered" \in Outcomes /\ "final_failure" \in Outcomes
  BY DEF Outcomes
<1> HIDE DEF said
<1>6. CASE said = {}
  <2>1. <<l.id, "recovered">> \notin fates /\ <<l.id, "final_failure">> \notin fates
    BY <1>3, <1>5, <1>6
  <2>2. OutcomeOf(q, l) = "unrecorded"
    BY <1>1, <1>6
  <2>3. QED
    BY <2>1, <2>2
<1>7. CASE said # {}
  <2>1. PICK o \in said : o = CHOOSE c \in said : TRUE
    BY <1>7
  <2>2. OutcomeOf(q, l) = o.kind /\ o.kind \in Outcomes /\ <<l.id, o.kind>> \in fates
    BY <1>1, <1>2, <1>7, <2>1
  <2>3. PICK k \in Outcomes : k = o.kind
    BY <2>2
  <2>4. OutcomeOf(q, l) = k /\ <<l.id, k>> \in fates /\ \A m \in Outcomes : <<l.id, m>> \in fates => k = m
    BY <1>4, <2>2, <2>3
  <2>5. CASE k = "recovered"
    BY <1>5, <2>4, <2>5
  <2>6. CASE k = "final_failure"
    BY <1>5, <2>4, <2>6
  <2>7. QED
    BY <2>3, <2>5, <2>6 DEF Outcomes
<1>8. QED
  BY <1>6, <1>7

\* The errors of a log are its timeouts, each of them recovered, given up or neither, and the others.
LEMMA LogAddsUp ==
    ASSUME NEW q \in Seq(ErrorLine), NEW fates, FateOf(q, fates)
    PROVE  LET R == Cardinality({i \in DOMAIN q : IsTimeout(q[i]) /\ <<q[i].id, "recovered">> \in fates})
               L == Cardinality({i \in DOMAIN q : IsTimeout(q[i]) /\ <<q[i].id, "final_failure">> \in fates})
               T == Cardinality({i \in DOMAIN q : IsTimeout(q[i])})
               O == Cardinality({i \in DOMAIN q : IsOther(q[i])})
           IN  /\ R \in Nat /\ L \in Nat /\ T \in Nat /\ O \in Nat
               /\ Counted(q, "recovered") = R /\ Counted(q, "final_failure") = L
               /\ Counted(q, "unrecorded") = T - R - L
               /\ OthersIn(q) = O /\ Len(Errors(q)) = T + O
<1> DEFINE IR == {i \in DOMAIN q : IsTimeout(q[i]) /\ <<q[i].id, "recovered">> \in fates}
           IL == {i \in DOMAIN q : IsTimeout(q[i]) /\ <<q[i].id, "final_failure">> \in fates}
           IU == {i \in DOMAIN q : IsTimeout(q[i]) /\ <<q[i].id, "recovered">> \notin fates
                                                  /\ <<q[i].id, "final_failure">> \notin fates}
           IT == {i \in DOMAIN q : IsTimeout(q[i])}
           IO == {i \in DOMAIN q : IsOther(q[i])}
           IE == {i \in DOMAIN q : IsTimeout(q[i]) \/ IsOther(q[i])}
           W == {l \in Range(q) : IsTimeout(l) \/ IsOther(l)}
<1>1. DOMAIN q = 1..Len(q) /\ Len(q) \in Nat
  OBVIOUS
<1>2. IsFiniteSet(1..Len(q))
  BY <1>1, FS_Interval
<1>3. IsFiniteSet(IT) /\ IsFiniteSet(IE)
  <2>1. IT \subseteq 1..Len(q) /\ IE \subseteq 1..Len(q)
    BY <1>1
  <2>2. QED
    BY <1>2, <2>1, FS_Subset
<1>4. IE = IT \cup IO /\ IT \cap IO = {}
  BY DEF IsTimeout, IsOther
<1>5. IT = IR \cup (IL \cup IU) /\ IR \cap (IL \cup IU) = {} /\ IL \cap IU = {}
  <2>1. \A i \in DOMAIN q : ~(<<q[i].id, "recovered">> \in fates /\ <<q[i].id, "final_failure">> \in fates)
    <3>1. SUFFICES ASSUME NEW i \in DOMAIN q, <<q[i].id, "recovered">> \in fates, <<q[i].id, "final_failure">> \in fates
                   PROVE  FALSE
      OBVIOUS
    <3>2. OutcomeOf(q, q[i]) = "recovered" /\ OutcomeOf(q, q[i]) = "final_failure"
      BY <3>1, OutcomeTold
    <3>3. QED
      BY <3>2
  <2>2. QED
    BY <2>1
<1>6. Counted(q, "recovered") = Cardinality(IR) /\ Counted(q, "final_failure") = Cardinality(IL)
      /\ Counted(q, "unrecorded") = Cardinality(IU)
  <2>1. {i \in DOMAIN q : IsTimeout(q[i]) /\ OutcomeOf(q, q[i]) = "recovered"} = IR
    BY OutcomeTold
  <2>2. {i \in DOMAIN q : IsTimeout(q[i]) /\ OutcomeOf(q, q[i]) = "final_failure"} = IL
    BY OutcomeTold
  <2>3. {i \in DOMAIN q : IsTimeout(q[i]) /\ OutcomeOf(q, q[i]) = "unrecorded"} = IU
    BY OutcomeTold
  <2>4. QED
    BY <2>1, <2>2, <2>3 DEF Counted, LinesWith
<1>7. OthersIn(q) = Cardinality(IO)
  BY DEF OthersIn, LinesWith
<1>8. Len(Errors(q)) = Cardinality(IE)
  <2>1. {i \in 1..Len(q) : q[i] \in W} = IE
    <3>1. \A i \in 1..Len(q) : q[i] \in Range(q)
      BY <1>1, ElementsAt
    <3>2. QED
      BY <1>1, <3>1
  <2>2. Len(Picked(q, W)) = Cardinality({i \in 1..Len(q) : q[i] \in W})
    BY PickedLength
  <2>3. QED
    BY <2>1, <2>2 DEF Errors
<1> HIDE DEF IR, IL, IU, IT, IO, IE
<1>9. /\ IsFiniteSet(IT) /\ IsFiniteSet(IO) /\ Cardinality(IT) \in Nat /\ Cardinality(IO) \in Nat
      /\ Cardinality(IE) = Cardinality(IT) + Cardinality(IO)
  BY <1>3, <1>4, PartsAddUp
<1>10. PICK rest : rest = IL \cup IU
  OBVIOUS
<1>11. /\ IsFiniteSet(IR) /\ IsFiniteSet(rest) /\ Cardinality(IR) \in Nat /\ Cardinality(rest) \in Nat
       /\ Cardinality(IT) = Cardinality(IR) + Cardinality(rest)
  <2>1. IR \cup rest = IT /\ IR \cap rest = {}
    BY <1>5, <1>10
  <2>2. QED
    BY <1>3, <2>1, PartsAddUp
<1>12. /\ Cardinality(IL) \in Nat /\ Cardinality(IU) \in Nat
       /\ Cardinality(rest) = Cardinality(IL) + Cardinality(IU)
  BY <1>5, <1>10, <1>11, PartsAddUp
<1>13. QED
  BY <1>6, <1>7, <1>8, <1>9, <1>11, <1>12 DEF IR, IL, IT, IO

\* Each form of the report is true of the log of the day.
LEMMA ReportIsTrue ==
    ASSUME ErrorsRest, FateOf(logLines, fate), NEW form
    PROVE  LET R == Cardinality({i \in DOMAIN logLines : IsTimeout(logLines[i]) /\ <<logLines[i].id, "recovered">> \in fate})
               L == Cardinality({i \in DOMAIN logLines : IsTimeout(logLines[i]) /\ <<logLines[i].id, "final_failure">> \in fate})
               T == Cardinality({i \in DOMAIN logLines : IsTimeout(logLines[i])})
           IN  ToldOf(Summarized(form), [recovered |-> R, lost |-> L, open |-> T - R - L, others |-> OthersIn(logLines)])
<1> DEFINE R == Cardinality({i \in DOMAIN logLines : IsTimeout(logLines[i]) /\ <<logLines[i].id, "recovered">> \in fate})
           L == Cardinality({i \in DOMAIN logLines : IsTimeout(logLines[i]) /\ <<logLines[i].id, "final_failure">> \in fate})
           T == Cardinality({i \in DOMAIN logLines : IsTimeout(logLines[i])})
           h == [recovered |-> R, lost |-> L, open |-> T - R - L, others |-> OthersIn(logLines)]
           e == Summarized(form)
<1>1. PICK O \in Nat : /\ O = OthersIn(logLines) /\ R \in Nat /\ L \in Nat /\ T \in Nat
                       /\ Counted(logLines, "recovered") = R /\ Counted(logLines, "final_failure") = L
                       /\ Counted(logLines, "unrecorded") = T - R - L
                       /\ Len(Errors(logLines)) = T + O
  <2>1. logLines \in Seq(ErrorLine)
    BY DEF ErrorsRest
  <2>2. QED
    BY <2>1, LogAddsUp
<1> HIDE DEF R, L, T
<1>2. PICK c \in Nat : c = T + O /\ c = Len(Errors(logLines))
  BY <1>1
<1>3. h \in [recovered : Int, lost : Int, open : Int, others : Int]
  BY <1>1
<1>4. h.recovered + h.lost + h.open + h.others = c
  BY <1>1, <1>2
<1>5. h.recovered = R /\ h.lost = L /\ h.open = T - R - L /\ h.others = O
  BY <1>1
<1> HIDE DEF h
<1>6. CASE form = "counted"
  <2>1. PICK t : t = [recovered |-> R, final_failure |-> L, unrecorded |-> T - R - L]
    OBVIOUS
  <2>2. [o \in {"recovered", "final_failure", "unrecorded"} |-> Counted(logLines, o)] = t
    BY <1>1, <2>1
  <2>3. e = [form |-> "counted", count |-> c, timeouts |-> t, others |-> O]
    BY <1>1, <1>2, <1>6, <2>2 DEF Summarized
  <2>4. e.form = "counted" /\ e.count = c /\ e.timeouts = t /\ e.others = O
    BY <2>3
  <2> HIDE DEF e
  <2>5. Normalized(e) = [recorded |-> TRUE, count |-> c, timeouts |-> t, others |-> O]
    BY <2>4 DEF Normalized, Normal
  <2>6. PICK n : n = Normalized(e)
    OBVIOUS
  <2>7. n.recorded = TRUE /\ n.count = c /\ n.timeouts = t /\ n.others = O
    BY <2>5, <2>6
  <2>8. Timeouts(n) = T
    BY <1>1, <2>1, <2>7 DEF Timeouts
  <2>9. ToldOf(e, h)
    <3>1. /\ e.form \in {"counted", "listed", "grouped", "none"} /\ e.form # "none"
          /\ Normalized(e).recorded = (e.form # "none")
      BY <2>4, <2>6, <2>7
    <3>2. /\ Normalized(e).count \in Nat /\ Timeouts(Normalized(e)) \in Int /\ Normalized(e).others \in Int
          /\ Timeouts(Normalized(e)) + Normalized(e).others = Normalized(e).count
      BY <1>1, <1>2, <2>6, <2>7, <2>8
    <3>3. Normalized(e).count = h.recovered + h.lost + h.open + h.others
      BY <1>4, <2>6, <2>7
    <3>4. t = [recovered |-> h.recovered, final_failure |-> h.lost, unrecorded |-> h.open]
      BY <1>5, <2>1
    <3>5. /\ Normalized(e).timeouts = [recovered |-> h.recovered, final_failure |-> h.lost, unrecorded |-> h.open]
          /\ Normalized(e).others = h.others
      BY <1>5, <2>6, <2>7, <3>4
    <3>6. QED
      BY <1>3, <3>1, <3>2, <3>3, <3>5 DEF ToldOf
  <2>10. QED
    BY <2>9 DEF e, h, R, L, T
<1>7. ASSUME NEW t \in Int, NEW k \in {"listed", "grouped"}, e.form = k, e.count = c,
             Normalized(e) = Normal(TRUE, c, Unresolved(t), c - t)
      PROVE  ToldOf(e, h)
  <2> HIDE DEF e
  <2>1. PICK n : n = Normalized(e)
    OBVIOUS
  <2>2. n.recorded = TRUE /\ n.count = c /\ n.others = c - t
        /\ n.timeouts = [recovered |-> 0, final_failure |-> 0, unrecorded |-> t]
    BY <1>7, <2>1 DEF Normal, Unresolved
  <2>3. Timeouts(n) = t
    BY <2>2 DEF Timeouts
  <2>4. t + (c - t) = c /\ c - t \in Int
    BY <1>2
  <2>5. QED
    BY <1>2, <1>3, <1>4, <1>7, <2>1, <2>2, <2>3, <2>4 DEF ToldOf
<1>8. \A m \in Nat : Min({m, c}) \in Int
  <2>1. SUFFICES ASSUME NEW m \in Nat PROVE Min({m, c}) \in Int
    OBVIOUS
  <2>2. {m, c} \in SUBSET Nat /\ {m, c} # {}
    BY <1>2
  <2>3. Min({m, c}) \in {m, c}
    BY <2>2, Smallest
  <2>4. QED
    BY <1>2, <2>3
<1>9. CASE form = "listed"
  <2> DEFINE all == Errors(logLines)
             messages == {[kind |-> l.kind, symbol |-> l.symbol] : l \in Range(all)}
             At(m) == Min({i \in DOMAIN all : all[i].kind = m.kind /\ all[i].symbol = m.symbol})
             first == {m \in messages : Cardinality({n \in messages : At(n) < At(m)}) < LISTED}
             late == {m \in first : m.kind = "timeout"}
  <2>1. e = [form |-> form, count |-> Len(all), messages |-> first]
    BY <1>9 DEF Summarized
  <2>2. IsFiniteSet(late)
    <3>1. all \in Seq(ErrorLine)
      BY PickedElements DEF Errors, ErrorsRest
    <3>2. DOMAIN all = 1..Len(all) /\ Len(all) \in Nat
      BY <3>1
    <3>3. IsFiniteSet(DOMAIN all)
      BY <3>2, FS_Interval
    <3>4. PICK f : f = [i \in DOMAIN all |-> [kind |-> all[i].kind, symbol |-> all[i].symbol]]
      OBVIOUS
    <3>5. f \in Surjection(DOMAIN all, messages)
      <4>1. \A i \in DOMAIN all : all[i] \in Range(all) /\ f[i] = [kind |-> all[i].kind, symbol |-> all[i].symbol]
        BY <3>4 DEF Range
      <4>2. f \in [DOMAIN all -> messages]
        BY <3>4, <4>1
      <4>3. ASSUME NEW m \in messages PROVE \E i \in DOMAIN all : f[i] = m
        <5>1. PICK l \in Range(all) : m = [kind |-> l.kind, symbol |-> l.symbol]
          OBVIOUS
        <5>2. PICK i \in DOMAIN all : all[i] = l
          BY <5>1 DEF Range
        <5>3. QED
          BY <4>1, <5>1, <5>2
      <4>4. QED
        BY <4>2, <4>3 DEF Surjection
    <3>6. IsFiniteSet(messages)
      BY <3>3, <3>5, FS_Surjection
    <3>7. late \subseteq messages
      OBVIOUS
    <3>8. QED
      BY <3>6, <3>7, FS_Subset
  <2> HIDE DEF first, late
  <2>3. PICK g : g = first
    OBVIOUS
  <2>4. PICK w : w = {m \in g : m.kind = "timeout"}
    OBVIOUS
  <2>5. IsFiniteSet(w)
    BY <2>2, <2>3, <2>4 DEF late
  <2>6. PICK z0 \in Nat : z0 = Cardinality(w)
    BY <2>5, FS_CardinalityType
  <2>7. PICK t \in Int : t = IF w # {} /\ w = g THEN c ELSE Min({z0, c})
    BY <1>2, <1>8, <2>6
  <2>8. e = [form |-> "listed", count |-> c, messages |-> g]
    BY <1>2, <1>9, <2>1, <2>3
  <2>9. e.form = "listed" /\ e.count = c /\ e.messages = g
    BY <2>8
  <2> HIDE DEF e
  <2>10. Normalized(e) = Normal(TRUE, c, Unresolved(t), c - t)
    BY <2>4, <2>6, <2>7, <2>9 DEF Normalized
  <2>11. ToldOf(e, h)
    BY <1>7, <2>9, <2>10
  <2>12. QED
    BY <2>11 DEF e, h, R, L, T
<1>10. CASE form = "grouped"
  <2>1. PICK t \in Int : t = Min({T, c})
    BY <1>1, <1>8
  <2>2. e = [form |-> "grouped", count |-> c, groups |-> [timeout |-> T, other |-> O]]
    BY <1>1, <1>2, <1>10 DEF Summarized
  <2>3. e.form = "grouped" /\ e.count = c /\ e.groups.timeout = T
    BY <2>2
  <2> HIDE DEF e
  <2>4. Normalized(e) = Normal(TRUE, c, Unresolved(t), c - t)
    BY <2>1, <2>3 DEF Normalized
  <2>5. ToldOf(e, h)
    BY <1>7, <2>3, <2>4
  <2>6. QED
    BY <2>5 DEF e, h, R, L, T
<1>11. CASE form \notin {"counted", "listed", "grouped"}
  <2>1. e = [form |-> "none", count |-> 0]
    BY <1>11 DEF Summarized
  <2>2. e.form = "none" /\ e.count = 0
    BY <2>1
  <2> HIDE DEF e
  <2>3. Normalized(e) = Normal(FALSE, 0, Unresolved(0), 0)
    <3>1. Normalized(e) = Normal(e.form # "none", e.count, Unresolved(0), e.count - 0)
      BY <2>2 DEF Normalized
    <3>2. e.count - 0 = 0 /\ (e.form # "none") = FALSE
      BY <2>2
    <3>3. QED
      BY <2>2, <3>1, <3>2
  <2>4. PICK n : n = Normalized(e)
    OBVIOUS
  <2>5. n.recorded = FALSE /\ n.count = 0 /\ n.others = 0
        /\ n.timeouts = [recovered |-> 0, final_failure |-> 0, unrecorded |-> 0]
    BY <2>3, <2>4 DEF Normal, Unresolved
  <2>6. Timeouts(n) = 0
    BY <2>5 DEF Timeouts
  <2>7. ToldOf(e, h)
    <3>1. e.form \in {"counted", "listed", "grouped", "none"} /\ e.form # "counted" /\ n.recorded = (e.form # "none")
      BY <2>2, <2>5
    <3>2. n.count \in Nat /\ Timeouts(n) \in Int /\ n.others \in Int /\ Timeouts(n) + n.others = n.count
      BY <2>5, <2>6
    <3>3. QED
      BY <1>3, <2>2, <2>4, <2>5, <3>1, <3>2 DEF ToldOf
  <2>8. QED
    BY <2>7 DEF e, h, R, L, T
<1>12. QED
  BY <1>6, <1>9, <1>10, <1>11

LEMMA ErrorConstants == IsFiniteSet(ErrorSymbol) /\ LastErrorDay \in Nat /\ MaxFilterings \in Nat
BY ErrorsAssumption

\* A line that tells no outcome leaves what became of the requests alone.
LEMMA FateKept ==
    ASSUME NEW q \in Seq(ErrorLine), NEW fates, FateOf(q, fates), NEW l, l.kind \notin Outcomes
    PROVE  FateOf(Append(q, l), fates)
<1>1. PICK r : r = Append(q, l)
  OBVIOUS
<1>2. Range(r) = Range(q) \cup {l}
  BY <1>1, RangeOfAppend
<1>3. FateOf(r, fates)
  BY <1>2 DEF FateOf
<1>4. QED
  BY <1>1, <1>3

\* The lines p tell the outcomes of the requests of run n for the symbols S, which are those added.
RunTold(p, S, came, n, added) ==
    /\ n \in Nat /\ S \subseteq ErrorSymbol /\ came \in [S -> Outcomes] /\ p \in Seq(ErrorLine)
    /\ \A o \in Range(p) : o.symbol \in S /\ o.id = <<o.symbol, n>> /\ o.kind = came[o.symbol]
    /\ \A s \in S : \E o \in Range(p) : o.symbol = s
    /\ \A f \in added : \E s \in S : f = <<<<s, n>>, came[s]>>
    /\ \A s \in S : <<<<s, n>>, came[s]>> \in added

\* The outcomes of the requests of a run, told at its end.
LEMMA FateTold ==
    ASSUME NEW q \in Seq(ErrorLine), NEW fates, FateOf(q, fates),
           NEW p, NEW S, NEW came, NEW n, NEW added, RunTold(p, S, came, n, added),
           \A f \in fates : f[1][2] < n,
           NEW r, r = q \o p, NEW g, g = fates \cup added
    PROVE  FateOf(r, g) /\ r \in Seq(ErrorLine) /\ \A f \in g : f[1][2] <= n
<1>1. /\ n \in Nat /\ S \subseteq ErrorSymbol /\ came \in [S -> Outcomes] /\ p \in Seq(ErrorLine)
      /\ \A o \in Range(p) : o.symbol \in S /\ o.id = <<o.symbol, n>> /\ o.kind = came[o.symbol]
      /\ \A s \in S : \E o \in Range(p) : o.symbol = s
      /\ \A f \in added : \E s \in S : f = <<<<s, n>>, came[s]>>
      /\ \A s \in S : <<<<s, n>>, came[s]>> \in added
  BY DEF RunTold
<1>2. r \in Seq(ErrorLine) /\ Range(r) = Range(q) \cup Range(p)
  BY <1>1, RangeOfJoined
<1>3. g = fates \cup added
  OBVIOUS
<1>4. ASSUME NEW f \in added PROVE \E s \in S : f[1] = <<s, n>> /\ f[1][2] = n /\ f[2] = came[s] /\ f \in (ErrorSymbol \X Nat) \X Outcomes
  <2>1. PICK s \in S : f = <<<<s, n>>, came[s]>>
    BY <1>1
  <2>2. s \in ErrorSymbol /\ came[s] \in Outcomes /\ n \in Nat
    BY <1>1
  <2>3. QED
    BY <2>1, <2>2
<1>5. ASSUME NEW f \in fates PROVE f[1][2] < n /\ f[1][2] \in Nat
  BY <1>1 DEF FateOf
<1>6. \A f \in g : f[1][2] <= n
  BY <1>1, <1>3, <1>4, <1>5
<1>7. g \subseteq (ErrorSymbol \X Nat) \X Outcomes
  BY <1>3, <1>4 DEF FateOf
<1>8. ASSUME NEW o \in Range(r), o.kind \in Outcomes PROVE <<o.id, o.kind>> \in g
  <2>1. CASE o \in Range(q)
    BY <1>3, <1>8, <2>1 DEF FateOf
  <2>2. CASE o \in Range(p)
    <3>1. PICK s \in S : s = o.symbol
      BY <1>1, <2>2
    <3>2. o.id = <<s, n>> /\ o.kind = came[s]
      BY <1>1, <2>2, <3>1
    <3>3. <<<<s, n>>, came[s]>> \in added
      BY <1>1
    <3>4. QED
      BY <1>3, <3>2, <3>3
  <2>3. QED
    BY <1>2, <2>1, <2>2
<1>9. ASSUME NEW f \in g PROVE \E o \in Range(r) : o.id = f[1] /\ o.kind = f[2]
  <2>1. CASE f \in fates
    BY <1>2, <2>1 DEF FateOf
  <2>2. CASE f \in added
    <3>1. PICK s \in S : f[1] = <<s, n>> /\ f[2] = came[s]
      BY <1>4, <2>2
    <3>2. PICK o \in Range(p) : o.symbol = s
      BY <1>1
    <3>3. QED
      BY <1>1, <1>2, <3>1, <3>2
  <2>3. QED
    BY <1>3, <2>1, <2>2
<1>10. ASSUME NEW f \in g, NEW e \in g, f[1] = e[1] PROVE f[2] = e[2]
  <2>1. CASE f \in fates /\ e \in fates
    BY <1>10, <2>1 DEF FateOf
  <2>2. CASE f \in added /\ e \in added
    <3>1. PICK s \in S : f[1] = <<s, n>> /\ f[2] = came[s]
      BY <1>4, <2>2
    <3>2. PICK u \in S : e[1] = <<u, n>> /\ e[2] = came[u]
      BY <1>4, <2>2
    <3>3. <<s, n>> = <<u, n>>
      BY <1>10, <3>1, <3>2
    <3>4. s = u
      BY <3>3
    <3>5. QED
      BY <3>1, <3>2, <3>4
  <2>3. CASE f \in fates /\ e \in added
    <3>1. f[1][2] < n /\ f[1][2] \in Nat /\ e[1][2] = n
      BY <1>4, <1>5, <2>3
    <3>2. QED
      BY <1>10, <3>1
  <2>4. CASE f \in added /\ e \in fates
    <3>1. e[1][2] < n /\ e[1][2] \in Nat /\ f[1][2] = n
      BY <1>4, <1>5, <2>4
    <3>2. QED
      BY <1>10, <3>1
  <2>5. QED
    BY <1>3, <2>1, <2>2, <2>3, <2>4
<1>11. FateOf(r, g)
  BY <1>7, <1>8, <1>9, <1>10 DEF FateOf
<1>12. QED
  BY <1>2, <1>6, <1>11

LEMMA ErrorsStart == ASSUME ErrorsInit PROVE ErrorsIInv
<1>2. ErrorsRest
  <2>1. errorDay \in 1..(LastErrorDay + 1) /\ filteringNo \in 0..MaxFilterings
    BY ErrorConstants DEF ErrorsInit
  <2>2. asking \in BOOLEAN /\ timedOut \subseteq ErrorSymbol /\ cameBack \subseteq timedOut /\ fate = {}
    BY DEF ErrorsInit
  <2>3. logLines = <<>>
    BY DEF ErrorsInit
  <2>4. QED
    BY <2>1, <2>2, <2>3 DEF ErrorsRest
<1>3. FateOf(logLines, fate)
  <2>1. PICK q, f : q = logLines /\ f = fate /\ q = <<>> /\ f = {}
    BY DEF ErrorsInit
  <2>2. Range(q) = {}
    BY <2>1 DEF Range
  <2>3. FateOf(q, f)
    BY <2>1, <2>2 DEF FateOf
  <2>4. QED
    BY <2>1, <2>3
<1>4. DaysTold(toldErrors, happened, errorDay)
  <2>1. \A d \in ErrorDay : d >= 1 /\ ~(d < 1)
    BY ErrorConstants DEF ErrorDay
  <2>2. PICK told, real : /\ told = toldErrors /\ real = happened
                          /\ told = [d \in ErrorDay |-> NotTold]
                          /\ real = [d \in ErrorDay |-> [recovered |-> 0, lost |-> 0, open |-> 0, others |-> 0]]
    BY DEF ErrorsInit
  <2>3. DOMAIN told = ErrorDay /\ DOMAIN real = ErrorDay /\ \A d \in ErrorDay : told[d] = NotTold
    BY <2>2
  <2>4. told = [d \in ErrorDay |-> told[d]] /\ real = [d \in ErrorDay |-> real[d]]
    BY <2>2
  <2>5. DaysTold(told, real, 1)
    BY <2>1, <2>3, <2>4 DEF DaysTold
  <2>6. QED
    BY <2>2, <2>5 DEF ErrorsInit
<1>5. QED
  BY <1>2, <1>3, <1>4 DEF ErrorsIInv

\* A line is logged that tells no outcome.
LEMMA LineLogged ==
    ASSUME ErrorsIInv, NEW l \in ErrorLine, l.kind \in {"timeout", "error"}, Log(l),
           UNCHANGED <<errorDay, filteringNo, asking, cameBack, fate, toldErrors, happened>>,
           timedOut' \subseteq ErrorSymbol, timedOut \subseteq timedOut'
    PROVE  ErrorsIInv'
<1>1. PICK q : q = logLines' /\ q = Append(logLines, l) /\ q \in Seq(ErrorLine)
  <2>1. logLines \in Seq(ErrorLine)
    BY DEF ErrorsIInv, ErrorsRest
  <2>2. Append(logLines, l) \in Seq(ErrorLine)
    BY <2>1
  <2>3. QED
    BY <2>2 DEF Log
<1>2. FateOf(q, fate)
  BY <1>1, FateKept DEF ErrorsIInv, ErrorsRest, Outcomes
<1>3. FateOf(logLines, fate)'
  BY <1>1, <1>2
<1>4. ErrorsRest'
  BY <1>1 DEF ErrorsIInv, ErrorsRest
<1>5. DaysTold(toldErrors, happened, errorDay)'
  BY DEF ErrorsIInv
<1>6. QED
  BY <1>3, <1>4, <1>5 DEF ErrorsIInv

LEMMA OutcomesTold == ASSUME ErrorsIInv, TellOutcomes PROVE ErrorsIInv'
<1> DEFINE Came(s) == IF s \in cameBack THEN "recovered" ELSE "final_failure"
           LineOf(i) == LET s == SetToSeq(timedOut)[i] IN OutcomeLine(s, Came(s))
           S == timedOut
           n == filteringNo
<1>1. S \in SUBSET ErrorSymbol /\ IsFiniteSet(S) /\ n \in Nat /\ logLines \in Seq(ErrorLine)
  <2>1. S \in SUBSET ErrorSymbol /\ n \in Nat /\ logLines \in Seq(ErrorLine)
    BY ErrorConstants DEF ErrorsIInv, ErrorsRest
  <2>2. QED
    BY <2>1, ErrorConstants, FS_Subset
<1>2. PICK came \in [S -> Outcomes] : \A s \in S : came[s] = Came(s)
  <2>1. [s \in S |-> Came(s)] \in [S -> Outcomes]
    BY DEF Outcomes
  <2>2. QED
    BY <2>1
<1>3. PICK q, k : /\ q = SetToSeq(S) /\ k = Cardinality(S) /\ q \in Seq(S) /\ Len(q) = k /\ Range(q) = S
  BY <1>1, SetAsSequence
<1>4. PICK p : p = [i \in 1..k |-> LineOf(i)]
  OBVIOUS
<1>5. /\ logLines' = logLines \o p
      /\ fate' = fate \cup {<<<<s, n>>, came[s]>> : s \in S}
  <2>1. logLines' = logLines \o p
    BY <1>3, <1>4 DEF TellOutcomes
  <2>2. fate' = fate \cup {<<RequestId(s), Came(s)>> : s \in S}
    BY DEF TellOutcomes
  <2>3. {<<RequestId(s), Came(s)>> : s \in S} = {<<<<s, n>>, came[s]>> : s \in S}
    BY <1>2 DEF RequestId
  <2>4. QED
    BY <2>1, <2>2, <2>3
<1>6. k \in Nat /\ DOMAIN q = 1..k /\ \A i \in 1..k : q[i] \in S
  BY <1>3
<1>7. ASSUME NEW i \in 1..k
      PROVE  /\ p[i] \in ErrorLine /\ p[i].symbol = q[i] /\ p[i].id = <<q[i], n>> /\ p[i].kind = came[q[i]]
  <2>1. PICK s \in S : s = q[i]
    BY <1>6
  <2>2. p[i] = [kind |-> came[s], symbol |-> s, id |-> <<s, n>>, open |-> TRUE]
    BY <1>2, <1>3, <1>4, <2>1 DEF OutcomeLine, RequestId
  <2>3. s \in ErrorSymbol /\ came[s] \in {"timeout", "error", "recovered", "final_failure"}
        /\ <<s, n>> \in ErrorSymbol \X Nat
    BY <1>1 DEF Outcomes
  <2>4. QED
    BY <2>1, <2>2, <2>3 DEF ErrorLine
<1>8. p \in Seq(ErrorLine) /\ DOMAIN p = 1..k
  BY <1>4, <1>6, <1>7
<1> HIDE DEF LineOf, Came
<1>9. ASSUME NEW o \in Range(p) PROVE o.symbol \in S /\ o.id = <<o.symbol, n>> /\ o.kind = came[o.symbol]
  <2>1. PICK i \in 1..k : p[i] = o
    BY <1>8 DEF Range
  <2>2. QED
    BY <1>6, <1>7, <2>1
<1>10. ASSUME NEW s \in S PROVE \E o \in Range(p) : o.symbol = s
  <2>1. PICK i \in 1..k : q[i] = s
    BY <1>3, <1>6 DEF Range
  <2>2. p[i] \in Range(p) /\ p[i].symbol = s
    BY <1>7, <1>8, <2>1 DEF Range
  <2>3. QED
    BY <2>2
<1>11. PICK added : added = {<<<<s, n>>, came[s]>> : s \in S}
  OBVIOUS
<1>12. \A f \in fate : f[1][2] < n
  BY DEF ErrorsIInv, ErrorsRest, TellOutcomes
<1>13. FateOf(logLines, fate)
  BY DEF ErrorsIInv
<1>14. PICK r, g : r = logLines' /\ g = fate' /\ r = logLines \o p /\ g = fate \cup added
  BY <1>5, <1>11
<1>21. /\ \A f \in added : \E s \in S : f = <<<<s, n>>, came[s]>>
       /\ \A s \in S : <<<<s, n>>, came[s]>> \in added
  BY <1>11
<1>20. /\ \A o \in Range(p) : o.symbol \in S /\ o.id = <<o.symbol, n>> /\ o.kind = came[o.symbol]
       /\ \A s \in S : \E o \in Range(p) : o.symbol = s
  BY <1>9, <1>10
<1>22. RunTold(p, S, came, n, added)
  BY <1>1, <1>8, <1>20, <1>21 DEF RunTold
<1> HIDE DEF S, n
<1>15. FateOf(r, g) /\ r \in Seq(ErrorLine) /\ \A f \in g : f[1][2] <= n
  BY <1>1, <1>12, <1>13, <1>14, <1>22, FateTold
<1>16. FateOf(logLines, fate)'
  BY <1>14, <1>15
<1>17. ErrorsRest'
  <2>1. /\ errorDay' \in 1..(LastErrorDay + 1) /\ filteringNo' = n /\ filteringNo' \in 0..MaxFilterings
        /\ timedOut' \subseteq ErrorSymbol /\ cameBack' \subseteq timedOut'
    BY DEF ErrorsIInv, ErrorsRest, TellOutcomes, n
  <2>2. asking' = FALSE
    BY DEF TellOutcomes
  <2>3. logLines' \in Seq(ErrorLine)
    BY <1>14, <1>15
  <2>4. ASSUME NEW f \in fate' PROVE f[1][2] <= filteringNo' /\ (asking' => f[1][2] < filteringNo')
    BY <1>14, <1>15, <2>1, <2>2
  <2>5. QED
    BY <2>1, <2>2, <2>3, <2>4 DEF ErrorsRest
<1>18. DaysTold(toldErrors, happened, errorDay)'
  BY DEF ErrorsIInv, TellOutcomes
<1>19. QED
  BY <1>16, <1>17, <1>18 DEF ErrorsIInv

LEMMA DayReported == ASSUME ErrorsIInv, NEW form, ReportErrors(form) PROVE ErrorsIInv'
<1> DEFINE R == Cardinality({i \in DOMAIN logLines : IsTimeout(logLines[i]) /\ <<logLines[i].id, "recovered">> \in fate})
           L == Cardinality({i \in DOMAIN logLines : IsTimeout(logLines[i]) /\ <<logLines[i].id, "final_failure">> \in fate})
           T == Cardinality({i \in DOMAIN logLines : IsTimeout(logLines[i])})
<1>1. PICK h, e : /\ h = [recovered |-> R, lost |-> L, open |-> T - R - L, others |-> OthersIn(logLines)]
                  /\ e = Summarized(form)
  OBVIOUS
<1>2. ToldOf(e, h)
  BY <1>1, ReportIsTrue DEF ErrorsIInv
<1>3. PICK told, real, k : /\ told = toldErrors /\ real = happened /\ k = errorDay /\ k \in ErrorDay
                           /\ DaysTold(told, real, k)
  BY DEF ErrorsIInv, ReportErrors
<1>4. PICK newTold, newReal : /\ newTold = toldErrors' /\ newReal = happened'
                              /\ newTold = [told EXCEPT ![k] = e] /\ newReal = [real EXCEPT ![k] = h]
  BY <1>1, <1>3 DEF ReportErrors, LinesWith
<1>5. k \in Nat /\ ErrorDay \subseteq Nat /\ k + 1 \in 1..(LastErrorDay + 1)
  BY <1>3, ErrorConstants DEF ErrorDay
<1>6. DaysTold(newTold, newReal, k + 1)
  <2>1. /\ DOMAIN newTold = ErrorDay /\ newTold = [d \in ErrorDay |-> newTold[d]]
        /\ DOMAIN newReal = ErrorDay /\ newReal = [d \in ErrorDay |-> newReal[d]]
    BY <1>3, <1>4 DEF DaysTold
  <2>2. ASSUME NEW d \in ErrorDay, d >= k + 1 PROVE newTold[d] = NotTold
    <3>1. d # k /\ d >= k
      BY <1>5, <2>2
    <3>2. QED
      BY <1>3, <1>4, <3>1 DEF DaysTold
  <2>3. ASSUME NEW d \in ErrorDay, d < k + 1 PROVE ToldOf(newTold[d], newReal[d])
    <3>1. CASE d = k
      <4>1. newTold[d] = e /\ newReal[d] = h
        BY <1>3, <1>4, <3>1 DEF DaysTold
      <4>2. QED
        BY <1>2, <4>1
    <3>2. CASE d # k
      <4>1. d < k
        BY <1>5, <2>3, <3>2
      <4>2. newTold[d] = told[d] /\ newReal[d] = real[d]
        BY <1>3, <1>4, <3>2 DEF DaysTold
      <4>3. ToldOf(told[d], real[d])
        BY <1>3, <4>1 DEF DaysTold
      <4>4. QED
        BY <4>2, <4>3
    <3>3. QED
      BY <3>1, <3>2
  <2>4. QED
    BY <2>1, <2>2, <2>3 DEF DaysTold
<1>7. DaysTold(toldErrors, happened, errorDay)'
  <2>1. errorDay' = k + 1
    BY <1>3 DEF ReportErrors
  <2>2. QED
    BY <1>4, <1>6, <2>1
<1>8. FateOf(logLines, fate)'
  <2>1. PICK q, f : q = logLines' /\ f = fate' /\ q = <<>> /\ f = {}
    BY DEF ReportErrors
  <2>2. Range(q) = {}
    BY <2>1 DEF Range
  <2>3. FateOf(q, f)
    BY <2>1, <2>2 DEF FateOf
  <2>4. QED
    BY <2>1, <2>3
<1>9. ErrorsRest'
  <2>1. errorDay' \in 1..(LastErrorDay + 1) /\ logLines' \in Seq(ErrorLine) /\ fate' = {}
    BY <1>3, <1>5 DEF ReportErrors
  <2>2. filteringNo' \in 0..MaxFilterings /\ asking' \in BOOLEAN /\ timedOut' = {} /\ cameBack' = {}
    BY ErrorConstants DEF ErrorsIInv, ErrorsRest, ReportErrors
  <2>3. QED
    BY <2>1, <2>2 DEF ErrorsRest
<1>10. QED
  BY <1>7, <1>8, <1>9 DEF ErrorsIInv

LEMMA ErrorsStep == ASSUME ErrorsIInv, [ErrorsNext]_errorVars PROVE ErrorsIInv'
<1>1. ASSUME StartAsking PROVE ErrorsIInv'
  <2>1. ErrorsRest'
    <3>1. \A f \in fate : f[1][2] \in Nat /\ f[1][2] <= filteringNo
      BY DEF ErrorsIInv, ErrorsRest, FateOf
    <3>2. filteringNo' = filteringNo + 1 /\ filteringNo \in Nat /\ filteringNo' \in 0..MaxFilterings
      BY <1>1, ErrorConstants DEF StartAsking, ErrorsIInv, ErrorsRest
    <3>3. \A f \in fate' : f[1][2] <= filteringNo' /\ f[1][2] < filteringNo'
      BY <1>1, <3>1, <3>2 DEF StartAsking
    <3>4. QED
      BY <1>1, <3>2, <3>3 DEF StartAsking, ErrorsIInv, ErrorsRest
  <2>2. QED
    BY <1>1, <2>1 DEF StartAsking, ErrorsIInv
<1>2. ASSUME NEW s \in ErrorSymbol, FetchTimesOut(s) PROVE ErrorsIInv'
  <2>1. PICK l : l = TimeoutLine(s, RequestId(s))
    OBVIOUS
  <2>2. filteringNo \in Nat /\ timedOut \subseteq ErrorSymbol
    BY ErrorConstants DEF ErrorsIInv, ErrorsRest
  <2>3. l = [kind |-> "timeout", symbol |-> s, id |-> <<s, filteringNo>>, open |-> TRUE]
    BY <2>1 DEF TimeoutLine, RequestId
  <2>4. <<s, filteringNo>> \in ErrorSymbol \X Nat
    BY <2>2
  <2>5. l \in ErrorLine /\ l.kind = "timeout"
    BY <2>3, <2>4 DEF ErrorLine
  <2>6. QED
    BY <1>2, <2>1, <2>2, <2>5, LineLogged DEF FetchTimesOut
<1>3. ASSUME NEW s \in ErrorSymbol, RefetchSucceeds(s) PROVE ErrorsIInv'
  BY <1>3 DEF RefetchSucceeds, ErrorsIInv, ErrorsRest
<1>4. ASSUME NEW s \in ErrorSymbol, LoopTimesOut(s) PROVE ErrorsIInv'
  <2>1. PICK l : l = TimeoutLine(s, <<s, 0>>)
    OBVIOUS
  <2>2. l = [kind |-> "timeout", symbol |-> s, id |-> <<s, 0>>, open |-> TRUE]
    BY <2>1 DEF TimeoutLine
  <2>3. l \in ErrorLine /\ l.kind = "timeout"
    BY <2>2 DEF ErrorLine
  <2>4. timedOut \subseteq ErrorSymbol
    BY DEF ErrorsIInv, ErrorsRest
  <2>5. QED
    BY <1>4, <2>1, <2>3, <2>4, LineLogged DEF LoopTimesOut
<1>5. ASSUME NEW s \in ErrorSymbol, NEW open \in BOOLEAN, OtherError(s, open) PROVE ErrorsIInv'
  <2>1. PICK l : l = [kind |-> "error", symbol |-> s, id |-> <<s, 0>>, open |-> open]
    OBVIOUS
  <2>2. l \in ErrorLine /\ l.kind = "error"
    BY <2>1 DEF ErrorLine
  <2>3. timedOut \subseteq ErrorSymbol
    BY DEF ErrorsIInv, ErrorsRest
  <2>4. QED
    BY <1>5, <2>1, <2>2, <2>3, LineLogged DEF OtherError
<1>6. ASSUME AskingDies PROVE ErrorsIInv'
  BY <1>6 DEF AskingDies, ErrorsIInv, ErrorsRest
<1>7. ASSUME UNCHANGED errorVars PROVE ErrorsIInv'
  BY <1>7 DEF errorVars, ErrorsIInv, ErrorsRest
<1>8. QED
  BY <1>1, <1>2, <1>3, <1>4, <1>5, <1>6, <1>7, OutcomesTold, DayReported DEF ErrorsNext

LEMMA ErrorsTyped == ASSUME ErrorsIInv PROVE ErrorsTypeOK
<1>1. /\ errorDay \in 1..(LastErrorDay + 1) /\ filteringNo \in 0..MaxFilterings /\ asking \in BOOLEAN
      /\ timedOut \subseteq ErrorSymbol /\ cameBack \subseteq timedOut /\ logLines \in Seq(ErrorLine)
  BY DEF ErrorsIInv, ErrorsRest
<1>2. ASSUME NEW l \in Range(logLines) PROVE l.kind \in {"timeout", "error", "recovered", "final_failure"}
  <2>1. l \in ErrorLine
    BY <1>1, ElementsAt
  <2>2. QED
    BY <2>1 DEF ErrorLine
<1>3. ASSUME NEW d \in ErrorDay PROVE (toldErrors[d] = NotTold) = (d >= errorDay)
  <2>1. CASE d >= errorDay
    BY <2>1 DEF ErrorsIInv, DaysTold
  <2>2. CASE ~(d >= errorDay)
    <3>1. d < errorDay
      BY <1>1, <2>2, ErrorConstants DEF ErrorDay
    <3>2. toldErrors[d].form # "unwritten"
      BY <3>1 DEF ErrorsIInv, DaysTold, ToldOf
    <3>3. toldErrors[d] # NotTold
      BY <3>2 DEF NotTold
    <3>4. QED
      BY <2>2, <3>3
  <2>3. QED
    BY <2>1, <2>2
<1>4. QED
  BY <1>1, <1>2, <1>3 DEF ErrorsTypeOK

LEMMA PeriodTold == ASSUME ErrorsIInv PROVE PeriodAddsUp
<1> DEFINE N(d) == Normalized(toldErrors[d])
           isKnown == {d \in Reported : toldErrors[d].form # "none"}
<1>1. IsFiniteSet(Reported) /\ Reported \subseteq ErrorDay
  <2>1. IsFiniteSet(ErrorDay)
    BY ErrorConstants, FS_Interval DEF ErrorDay
  <2>2. Reported \subseteq ErrorDay
    BY DEF Reported
  <2>3. QED
    BY <2>1, <2>2, FS_Subset
<1>2. ASSUME NEW d \in Reported PROVE ToldOf(toldErrors[d], happened[d])
  <2>1. ~(d >= errorDay) /\ d \in ErrorDay
    BY DEF Reported, ErrorsIInv, DaysTold
  <2>2. d < errorDay
    BY <2>1, ErrorConstants DEF ErrorDay, ErrorsIInv, ErrorsRest
  <2>3. QED
    BY <2>1, <2>2 DEF ErrorsIInv, DaysTold
<1>3. ASSUME NEW d \in Reported
      PROVE  /\ N(d).count \in Nat /\ Timeouts(N(d)) \in Int /\ N(d).others \in Int
             /\ N(d).count = Timeouts(N(d)) + N(d).others
             /\ toldErrors[d].form # "none" => N(d).count = Happened(d)
             /\ toldErrors[d].form = "none" => N(d).count = 0
  BY <1>2 DEF ToldOf, Happened
<1> HIDE DEF N
<1>4. PICK S, R : S = Reported /\ R = isKnown /\ R \in SUBSET S
  <2>1. isKnown \subseteq Reported
    OBVIOUS
  <2>2. QED
    BY <2>1
<1>5. PICK u, v, w, c : /\ u = [d \in S |-> N(d).count] /\ v = [d \in S |-> Timeouts(N(d))]
                        /\ w = [d \in S |-> N(d).others] /\ c = [d \in R |-> Happened(d)]
  OBVIOUS
<1>6. u \in [S -> Int] /\ v \in [S -> Int] /\ w \in [S -> Int] /\ \A d \in S : u[d] = v[d] + w[d]
  BY <1>3, <1>4, <1>5
<1>7. ASSUME NEW d \in R PROVE d \in S /\ c[d] = u[d] /\ c[d] \in Int
  BY <1>3, <1>4, <1>5
<1>8. c \in [R -> Int] /\ \A d \in R : c[d] = u[d]
  BY <1>5, <1>7
<1>9. \A d \in S \ R : u[d] = 0
  BY <1>3, <1>4, <1>5
<1>10. SumOver(u, S) = SumOver(v, S) + SumOver(w, S)
  BY <1>1, <1>4, <1>6, SumAdds
<1>11. SumOver(c, R) = SumOver(u, S)
  BY <1>1, <1>4, <1>6, <1>8, <1>9, SumWithin
<1>12. PICK D : D = {d \in S : N(d).count > 0}
  OBVIOUS
<1>13. Cardinality(D) <= Cardinality(R)
  <2>1. D \subseteq R
    BY <1>3, <1>4, <1>12
  <2>2. IsFiniteSet(R)
    BY <1>1, <1>4, FS_Subset
  <2>3. QED
    BY <2>1, <2>2, FS_Subset
<1>14. PICK season : season = Period(Reported)
  OBVIOUS
<1>15. /\ season.count = SumOver(u, S) /\ season.timeouts = SumOver(v, S) /\ season.others = SumOver(w, S)
       /\ season.days = Cardinality(D)
  <2>1. PICK k : k = [d \in S |-> Normalized(toldErrors[d])]
    OBVIOUS
  <2>2. \A d \in S : k[d] = N(d)
    BY <2>1 DEF N
  <2>3. /\ [d \in S |-> k[d].count] = u /\ [d \in S |-> Timeouts(k[d])] = v /\ [d \in S |-> k[d].others] = w
        /\ {d \in S : k[d].count > 0} = D
    BY <1>5, <1>12, <2>2
  <2>4. season = [count |-> SumUp([d \in S |-> k[d].count], S),
                  timeouts |-> SumUp([d \in S |-> Timeouts(k[d])], S),
                  recovered |-> SumUp([d \in S |-> k[d].timeouts.recovered], S),
                  others |-> SumUp([d \in S |-> k[d].others], S),
                  days |-> Cardinality({d \in S : k[d].count > 0})]
    BY <1>4, <1>14, <2>1 DEF Period
  <2>5. /\ season.count = SumUp(u, S) /\ season.timeouts = SumUp(v, S) /\ season.others = SumUp(w, S)
        /\ season.days = Cardinality(D)
    BY <2>3, <2>4
  <2>6. QED
    BY <2>5 DEF SumUp, SumOver
<1>16. SumUp(c, R) = SumOver(c, R)
  BY DEF SumUp, SumOver
<1>17. /\ season.count = SumUp([d \in R |-> Happened(d)], R)
       /\ season.timeouts + season.others = season.count
       /\ season.days <= Cardinality(R)
  BY <1>5, <1>10, <1>11, <1>13, <1>15, <1>16
<1>18. QED
  BY <1>4, <1>14, <1>17 DEF PeriodAddsUp

LEMMA ErrorsTold == ASSUME ErrorsIInv PROVE ErrorsSound
<1>1. ASSUME NEW d \in Reported PROVE ToldOf(toldErrors[d], happened[d])
  <2>1. ~(d >= errorDay) /\ d \in ErrorDay
    BY DEF Reported, ErrorsIInv, DaysTold
  <2>2. d < errorDay
    BY <2>1, ErrorConstants DEF ErrorDay, ErrorsIInv, ErrorsRest
  <2>3. QED
    BY <2>1, <2>2 DEF ErrorsIInv, DaysTold
<1>2. TimeoutsToldTruly
  BY <1>1 DEF TimeoutsToldTruly, ToldOf
<1>3. ErrorsAddUp
  <2>1. SUFFICES ASSUME NEW d \in Reported
                 PROVE  /\ Normalized(toldErrors[d]).recorded => Normalized(toldErrors[d]).count = Happened(d)
                        /\ Timeouts(Normalized(toldErrors[d])) + Normalized(toldErrors[d]).others = Normalized(toldErrors[d]).count
                        /\ Notice(Normalized(toldErrors[d])) = "none" => Happened(d) = 0
    BY DEF ErrorsAddUp
  <2>2. PICK e, n, h : e = toldErrors[d] /\ n = Normalized(e) /\ h = happened[d]
    OBVIOUS
  <2>3. ToldOf(e, h)
    BY <1>1, <2>2
  <2>4. Happened(d) = h.recovered + h.lost + h.open + h.others
    BY <2>2 DEF Happened
  <2>5. /\ n.recorded = (e.form # "none") /\ Timeouts(n) + n.others = n.count
        /\ e.form # "none" => n.count = h.recovered + h.lost + h.open + h.others
    BY <2>2, <2>3 DEF ToldOf
  <2>6. n.recorded => n.count = Happened(d)
    BY <2>4, <2>5
  <2>7. Notice(n) = "none" => n.recorded /\ n.count = 0
    BY DEF Notice
  <2>8. QED
    BY <2>2, <2>5, <2>6, <2>7
<1>4. QED
  BY <1>2, <1>3, PeriodTold DEF ErrorsSound

\* The errors of the days are always reported soundly: each timeout as what became of its own request,
\* no error lost or counted twice in any form of the report, and the totals of a period those of its days.
THEOREM AlwaysToldErrorsSoundly == ErrorsSpec => [](ErrorsTypeOK /\ ErrorsSound)
<1>1. ErrorsInit => ErrorsIInv
  BY ErrorsStart
<1>2. ErrorsIInv /\ [ErrorsNext]_errorVars => ErrorsIInv'
  BY ErrorsStep
<1>3. ErrorsIInv => ErrorsTypeOK /\ ErrorsSound
  BY ErrorsTyped, ErrorsTold
<1>4. QED
  BY <1>1, <1>2, <1>3, PTL DEF ErrorsSpec

-----------------------------------------------------------------------------
(* The analysis after the close (DailyAnalysis) *)

BandDay == PriceBand \X TradeDay
Verdicts == {"evaluated", "empty_selection", "selection_missing"}
Marked == [state |-> "cache_update_failed"]

\* What is told of each band and day, and those that left files: the selections alone decide it.
AllTold == [k \in BandDay |-> [state |-> State(k[1], k[2]), source |-> Origin(k[1], k[2])]]
Filed == {k \in BandDay : HasFiles(k[1], k[2])}

Grid(f) == DOMAIN f = PriceBand /\ \A b \in PriceBand : DOMAIN f[b] = TradeDay

RowsSound(rows, told) ==
    \A b \in PriceBand, d \in TradeDay : rows[b][d] # None =>
        /\ rows[b][d].told = told[<<b, d>>] /\ rows[b][d].state = told[<<b, d>>].state
        /\ b = "wide" /\ told[<<b, d>>].state = "evaluated" => rows[b][d].bars = TRUE

StatusSound(status, rows, told) ==
    \A b \in PriceBand, d \in TradeDay :
        /\ status[b][d] \in {None, Marked, told[<<b, d>>]}
        /\ status[b][d] = told[<<b, d>>] => rows[b][d] # None

SettledSound(done, rows, status, today) ==
    \A b \in PriceBand, d \in TradeDay : done[b][d] # None =>
        done[b][d] = rows[b][d] /\ d < today /\ status[b][d].state = "evaluated"

\* Where no save failed or is still due, the status file tells what the row tells.
Agree(rows, status, told, out, busy) ==
    \A b \in PriceBand, d \in TradeDay :
        rows[b][d] # None /\ <<b, d>> \notin out /\ <<b, d>> \notin busy => status[b][d] = told[<<b, d>>]

Busy == IF doing = "save" THEN {Head(toJudge)} ELSE {}

AnalysisRows ==
    /\ Grid(row) /\ Grid(bandStatus) /\ Grid(settledRow)
    /\ RowsSound(row, AllTold) /\ StatusSound(bandStatus, row, AllTold)
    /\ SettledSound(settledRow, row, bandStatus, tradeDay)
    /\ Agree(row, bandStatus, AllTold, excused, Busy)

\* What is still to be judged was not settled, and has its bars if it needs them.
DueSound(queued, done, today, there, told) ==
    \A k \in queued :
        /\ k[2] <= today /\ done[k[1]][k[2]] = None
        /\ k[1] = "wide" /\ told[k].state = "evaluated" => k \in there

\* The bars of what is not judged for good are there.
UpToDate(status, today, there, told) ==
    \A d \in 1..today :
        told[<<"wide", d>>].state = "evaluated" /\ (status["wide"][d].state = "evaluated" => d = today) =>
            <<"wide", d>> \in there

\* Each day with files is judged, or still to be judged, or its save failed.
Caught(queued, out, status, filed, today) ==
    \A k \in filed : k[2] <= today =>
        k \in queued \/ k \in out \/ status[k[1]][k[2]].state \in Verdicts

AnalysisQueue ==
    /\ toJudge \in Seq(BandDay)
    /\ doing \in {"idle", "refresh", "check"} => toJudge = <<>>
    /\ doing = "save" =>
          /\ toJudge # <<>> /\ judgement = AllTold[Head(toJudge)]
          /\ row[Head(toJudge)[1]][Head(toJudge)[2]] # None
    /\ doing \in {"idle", "refresh"} => refreshed = FALSE
    /\ doing \in {"check", "save"} => refreshed = TRUE
    /\ DueSound(Range(toJudge), settledRow, tradeDay, cached, AllTold)
    /\ doing = "check" => UpToDate(bandStatus, tradeDay, cached, AllTold)
    /\ doing \in {"bands", "save", "publish", "probe"} /\ refreshed =>
          Caught(Range(toJudge), excused, bandStatus, Filed, tradeDay)
    /\ doing \in {"publish", "probe"} /\ refreshed => toJudge = <<>>

AnalysisRest ==
    /\ tradeDay \in TradeDay /\ runsLeft \in 0..MaxAnalyses /\ mishaps \in 0..MaxMishaps
    /\ selections \in [TradeDay -> Mornings]
    /\ cached \subseteq BandDay /\ excused \subseteq BandDay /\ latest \subseteq cached
    /\ judgedRows \subseteq TradeDay
    /\ doing \in {"idle", "refresh", "check", "bands", "save", "publish", "probe"}
    /\ attempt \in Nat /\ refreshed \in BOOLEAN
    /\ attempt < IF doing = "refresh" THEN REFRESHES ELSE IF doing = "probe" THEN PROBES ELSE 1
    /\ announced \in [said : {"nothing", "published", "failed"}, of : TradeDay]

AnalysisSite ==
    /\ site.index = site.files
    /\ announced.said = "published" => announced.of \in site.files
    /\ doing = "probe" => tradeDay \in site.files

AnalysisIInv == AnalysisRest /\ AnalysisRows /\ AnalysisQueue /\ AnalysisSite

LEMMA AnalysisConstants ==
    /\ LastDay \in Nat /\ LastDay >= 1 /\ MaxAnalyses \in Nat /\ MaxMishaps \in Nat
    /\ REFRESHES \in Nat /\ REFRESHES >= 1 /\ PROBES \in Nat /\ PROBES >= 1
BY AnalysisAssumption

LEMMA AnalysisDays == 1 \in TradeDay /\ TradeDay \subseteq Nat /\ \A d \in TradeDay : 1..d \subseteq TradeDay /\ d \in 1..d
BY AnalysisConstants DEF TradeDay

\* What is told of a band and a day is a verdict, and where from.
LEMMA ToldType ==
    ASSUME NEW k \in BandDay
    PROVE  /\ AllTold[k].state \in Verdicts /\ AllTold[k].state = State(k[1], k[2])
           /\ AllTold[k].source = Origin(k[1], k[2])
           /\ AllTold[k] # None /\ AllTold[k] # Marked
<1>1. PICK t : t = [state |-> State(k[1], k[2]), source |-> Origin(k[1], k[2])]
  OBVIOUS
<1>2. AllTold[k] = t
  BY <1>1 DEF AllTold
<1>3. State(k[1], k[2]) \in Verdicts
  BY DEF State, Verdicts
<1>4. t.state = State(k[1], k[2]) /\ t.source = Origin(k[1], k[2])
  BY <1>1
<1>5. t.state # "none" /\ t.state # "cache_update_failed"
  BY <1>3, <1>4 DEF Verdicts
<1>6. t # None /\ t # Marked
  BY <1>5 DEF None, Marked
<1>7. QED
  BY <1>2, <1>3, <1>4, <1>6

LEMMA SelectionsTell == ASSUME selections' = selections PROVE AllTold' = AllTold /\ Filed' = Filed
BY DEF AllTold, Filed, BandDay, TradeDay, PriceBand, State, Origin, Chosen, AtNoon, Unscreened, HasFiles

\* One place of a table is changed.
Changed(g, f, b, d, v) == g = [f EXCEPT ![b][d] = v]

LEMMA GridChanged ==
    ASSUME NEW f, Grid(f), NEW b \in PriceBand, NEW d \in TradeDay, NEW v, NEW g, Changed(g, f, b, d, v)
    PROVE  /\ Grid(g) /\ g[b][d] = v
           /\ \A c \in PriceBand, e \in TradeDay : <<c, e>> # <<b, d>> => g[c][e] = f[c][e]
<1>1. DOMAIN f = PriceBand /\ \A c \in PriceBand : DOMAIN f[c] = TradeDay
  BY DEF Grid
<1>0. g = [f EXCEPT ![b][d] = v]
  BY DEF Changed
<1>2. DOMAIN g = PriceBand /\ g[b] = [f[b] EXCEPT ![d] = v] /\ \A c \in PriceBand : c # b => g[c] = f[c]
  BY <1>0, <1>1
<1>3. DOMAIN g[b] = TradeDay /\ g[b][d] = v /\ \A e \in TradeDay : e # d => g[b][e] = f[b][e]
  BY <1>1, <1>2
<1>4. ASSUME NEW c \in PriceBand PROVE DOMAIN g[c] = TradeDay
  BY <1>1, <1>2, <1>3
<1>5. ASSUME NEW c \in PriceBand, NEW e \in TradeDay, <<c, e>> # <<b, d>> PROVE g[c][e] = f[c][e]
  BY <1>2, <1>3, <1>5
<1>6. QED
  BY <1>2, <1>3, <1>4, <1>5 DEF Grid

LEMMA AnalysisStart == ASSUME AnalysisInit PROVE AnalysisIInv
<1>1. PICK table : table = [b \in PriceBand |-> [d \in TradeDay |-> None]]
                   /\ bandStatus = table /\ row = table /\ settledRow = table
  BY DEF AnalysisInit
<1>2. Grid(table) /\ \A b \in PriceBand, d \in TradeDay : table[b][d] = None
  BY <1>1 DEF Grid
<1>3. \A b \in PriceBand, d \in TradeDay : None # AllTold[<<b, d>>]
  BY ToldType DEF BandDay
<1>4. AnalysisRows
  BY <1>1, <1>2, <1>3 DEF AnalysisRows, RowsSound, StatusSound, SettledSound, Agree
<1>5. PICK q : q = toJudge /\ q = <<>>
  BY DEF AnalysisInit
<1>6. Range(q) = {} /\ q \in Seq(BandDay)
  BY <1>5 DEF Range
<1>7. AnalysisQueue
  BY <1>5, <1>6 DEF AnalysisInit, AnalysisQueue, DueSound
<1>8. AnalysisRest
  <2>1. tradeDay \in TradeDay /\ runsLeft \in 0..MaxAnalyses /\ mishaps \in 0..MaxMishaps
    BY AnalysisConstants, AnalysisDays DEF AnalysisInit
  <2>2. selections \in [TradeDay -> Mornings] /\ cached = {} /\ excused = {} /\ latest = {} /\ judgedRows = {}
    BY DEF AnalysisInit
  <2>3. doing = "idle" /\ attempt = 0 /\ refreshed = FALSE
    BY DEF AnalysisInit
  <2>4. announced = [said |-> "nothing", of |-> 1]
    BY DEF AnalysisInit, Announce
  <2>5. announced \in [said : {"nothing", "published", "failed"}, of : TradeDay]
    BY <2>4, AnalysisDays
  <2>6. attempt \in Nat /\ attempt < IF doing = "refresh" THEN REFRESHES ELSE IF doing = "probe" THEN PROBES ELSE 1
    BY <2>3
  <2>7. QED
    BY <2>1, <2>2, <2>3, <2>5, <2>6 DEF AnalysisRest
<1>9. AnalysisSite
  BY DEF AnalysisInit, AnalysisSite, Announce
<1>10. QED
  BY <1>4, <1>7, <1>8, <1>9 DEF AnalysisIInv

LEMMA MorningStep == ASSUME AnalysisIInv, NextMorning PROVE AnalysisIInv'
<1>1. AllTold' = AllTold /\ Filed' = Filed
  BY SelectionsTell DEF NextMorning
<1>2. PICK told, done, before, rows, status, today :
          /\ told = AllTold /\ done = settledRow' /\ before = settledRow /\ rows = row /\ status = bandStatus
          /\ today = tradeDay
          /\ done = [b \in PriceBand |-> [d \in TradeDay |->
                        IF d = today /\ status[b][d].state = "evaluated" THEN rows[b][d] ELSE before[b][d]]]
  BY DEF NextMorning
<1>3. today \in TradeDay /\ today + 1 \in TradeDay /\ today \in Nat /\ TradeDay \subseteq Nat
  BY <1>2, AnalysisConstants DEF AnalysisIInv, AnalysisRest, NextMorning, TradeDay
<1>4. SettledSound(before, rows, status, today) /\ StatusSound(status, rows, told)
  BY <1>2 DEF AnalysisIInv, AnalysisRows
<1>5. Grid(done)
  BY <1>2 DEF Grid
<1>6. SettledSound(done, rows, status, today + 1)
  <2>1. SUFFICES ASSUME NEW b \in PriceBand, NEW d \in TradeDay, done[b][d] # None
                 PROVE  done[b][d] = rows[b][d] /\ d < today + 1 /\ status[b][d].state = "evaluated"
    BY DEF SettledSound
  <2>2. CASE d = today /\ status[b][d].state = "evaluated"
    BY <1>2, <1>3, <2>2
  <2>3. CASE ~(d = today /\ status[b][d].state = "evaluated")
    <3>1. done[b][d] = before[b][d]
      BY <1>2, <2>3
    <3>2. QED
      BY <1>3, <1>4, <2>1, <3>1 DEF SettledSound
  <2>4. QED
    BY <2>2, <2>3
<1>7. AnalysisRows'
  <2>1. SettledSound(settledRow, row, bandStatus, tradeDay)'
    BY <1>2, <1>6 DEF NextMorning
  <2>2. Agree(row, bandStatus, AllTold, excused, Busy)'
    BY <1>1 DEF NextMorning, AnalysisIInv, AnalysisRows, Busy
  <2>3. Grid(row)' /\ Grid(bandStatus)' /\ Grid(settledRow)' /\ RowsSound(row, AllTold)' /\ StatusSound(bandStatus, row, AllTold)'
    BY <1>1, <1>2, <1>5 DEF NextMorning, AnalysisIInv, AnalysisRows
  <2>4. QED
    BY <2>1, <2>2, <2>3 DEF AnalysisRows
<1>8. AnalysisQueue'
  <2>1. toJudge' = <<>> /\ doing' = "idle" /\ refreshed' = FALSE
    BY DEF NextMorning, progressVars, AnalysisIInv, AnalysisQueue
  <2>2. PICK q : q = toJudge' /\ q = <<>>
    BY <2>1
  <2>3. Range(q) = {} /\ q \in Seq(BandDay)
    BY <2>2 DEF Range
  <2>4. QED
    BY <2>1, <2>2, <2>3 DEF AnalysisQueue, DueSound
<1>9. AnalysisRest'
  BY <1>2, <1>3 DEF NextMorning, progressVars, AnalysisIInv, AnalysisRest
<1>10. AnalysisSite'
  BY DEF NextMorning, AnalysisIInv, AnalysisSite
<1>11. QED
  BY <1>7, <1>8, <1>9, <1>10 DEF AnalysisIInv

\* The tables are left alone, and no save begins or ends.
LEMMA RowsKept ==
    ASSUME AnalysisRows, UNCHANGED <<tradeDay, selections, bandStatus, row, settledRow, excused>>,
           doing # "save", doing' # "save"
    PROVE  AnalysisRows'
<1>1. AllTold' = AllTold
  BY SelectionsTell
<1>2. Busy' = Busy
  BY DEF Busy
<1>3. QED
  BY <1>1, <1>2 DEF AnalysisRows

LEMMA StartStep == ASSUME AnalysisIInv, StartAnalysis PROVE AnalysisIInv'
<1>1. AnalysisRows'
  BY RowsKept DEF StartAnalysis, filesVars, AnalysisIInv
<1>2. AllTold' = AllTold
  BY SelectionsTell DEF StartAnalysis
<1>3. AnalysisQueue'
  BY <1>2 DEF StartAnalysis, progressVars, filesVars, AnalysisIInv, AnalysisQueue
<1>4. AnalysisRest'
  <2>1. attempt = 0 /\ refreshed' \in BOOLEAN
    BY DEF StartAnalysis, progressVars, AnalysisIInv, AnalysisRest
  <2>2. announced' \in [said : {"nothing", "published", "failed"}, of : TradeDay]
    BY DEF StartAnalysis, Announce, AnalysisIInv, AnalysisRest
  <2>3. attempt' = 0 /\ doing' = "refresh" /\ 0 < REFRESHES
    BY <2>1, AnalysisConstants DEF StartAnalysis, progressVars
  <2>4. runsLeft' \in 0..MaxAnalyses
    BY AnalysisConstants DEF StartAnalysis, AnalysisIInv, AnalysisRest
  <2>5. QED
    BY <2>1, <2>2, <2>3, <2>4 DEF StartAnalysis, progressVars, filesVars, AnalysisIInv, AnalysisRest
<1>5. AnalysisSite'
  BY DEF StartAnalysis, Announce, AnalysisIInv, AnalysisSite
<1>6. QED
  BY <1>1, <1>3, <1>4, <1>5 DEF AnalysisIInv

LEMMA EvaluatedChosen ==
    ASSUME NEW b, NEW d, State(b, d) = "evaluated"
    PROVE  Chosen(b, d) = "chosen" /\ HasFiles(b, d)
BY DEF State, HasFiles, Unscreened

\* Once the update has brought all it should, what is not judged for good has its bars.
LEMMA UpdateReaches ==
    ASSUME tradeDay \in TradeDay, NEW there, ToUpdate \subseteq there
    PROVE  UpToDate(bandStatus, tradeDay, there, AllTold)
<1>1. SUFFICES ASSUME NEW d \in 1..tradeDay, AllTold[<<"wide", d>>].state = "evaluated",
                      bandStatus["wide"][d].state = "evaluated" => d = tradeDay
               PROVE  <<"wide", d>> \in there
  BY DEF UpToDate
<1>2. PICK k \in BandDay : k = <<"wide", d>>
  BY AnalysisDays DEF BandDay, PriceBand
<1>3. AllTold[k].state = State(k[1], k[2]) /\ k[1] = "wide" /\ k[2] = d
  BY <1>2, ToldType
<1>4. State("wide", d) = "evaluated"
  BY <1>1, <1>2, <1>3
<1>5. Chosen("wide", d) = "chosen" /\ StillDue("wide", d)
  BY <1>1, <1>4, EvaluatedChosen DEF StillDue
<1>6. <<"wide", d>> \in ToUpdate
  BY <1>5 DEF ToUpdate
<1>7. QED
  BY <1>6

LEMMA RefreshStep ==
    ASSUME AnalysisIInv, NEW got \in SUBSET BandDay, NEW raises \in BOOLEAN, RefreshOnce(got, raises)
    PROVE  AnalysisIInv'
<1>1. PICK brought : brought = IF raises THEN {} ELSE latest \cup got
  OBVIOUS
<1>2. /\ doing = "refresh" /\ cached' = cached \cup got /\ latest' = brought
      /\ IF ToUpdate \subseteq brought
         THEN doing' = "check" /\ refreshed' = TRUE /\ attempt' = 0
         ELSE IF attempt + 1 = REFRESHES
         THEN doing' = "bands" /\ refreshed' = FALSE /\ attempt' = 0
         ELSE attempt' = attempt + 1 /\ UNCHANGED <<doing, refreshed>>
      /\ UNCHANGED <<tradeDay, runsLeft, mishaps, selections, judgedRows, bandStatus, row, excused,
                     settledRow, toJudge, judgement, site, announced>>
  BY <1>1, Zenon DEF RefreshOnce
<1>3. AllTold' = AllTold /\ Filed' = Filed
  BY <1>2, SelectionsTell
<1>4. toJudge' = <<>> /\ toJudge = <<>> /\ refreshed = FALSE
  BY <1>2 DEF AnalysisIInv, AnalysisQueue
<1>5. AnalysisRows'
  BY <1>2, RowsKept DEF AnalysisIInv
<1>6. /\ latest' \subseteq cached' /\ cached' \subseteq BandDay
      /\ attempt \in Nat /\ attempt < REFRESHES
  BY <1>1, <1>2 DEF AnalysisIInv, AnalysisRest
<1>7. AnalysisQueue'
  <2>1. PICK q : q = toJudge' /\ q = <<>>
    BY <1>4
  <2>2. Range(q) = {} /\ q \in Seq(BandDay)
    BY <2>1 DEF Range
  <2>3. DueSound(Range(q), settledRow', tradeDay', cached', AllTold')
    BY <2>2 DEF DueSound
  <2>4. doing' = "check" => UpToDate(bandStatus, tradeDay, cached, AllTold)'
    <3>1. SUFFICES ASSUME doing' = "check" PROVE UpToDate(bandStatus, tradeDay, cached, AllTold)'
      OBVIOUS
    <3>2. ToUpdate \subseteq brought
      BY <1>2, <3>1
    <3>3. PICK there : there = cached'
      OBVIOUS
    <3>4. ToUpdate \subseteq there
      BY <1>2, <1>6, <3>2, <3>3
    <3>5. UpToDate(bandStatus, tradeDay, there, AllTold)
      BY <3>4, UpdateReaches DEF AnalysisIInv, AnalysisRest
    <3>6. QED
      BY <1>2, <1>3, <3>3, <3>5
  <2>5. doing' \in {"check", "bands", "refresh"} /\ (refreshed' = TRUE <=> doing' = "check") /\ refreshed' \in BOOLEAN
    BY <1>2, <1>4
  <2>6. refreshed' = FALSE <=> doing' # "check"
    BY <2>5
  <2>7. QED
    BY <1>4, <2>1, <2>2, <2>3, <2>4, <2>5, <2>6 DEF AnalysisQueue
<1>8. AnalysisRest'
  <2>1. /\ attempt' \in Nat
        /\ attempt' < IF doing' = "refresh" THEN REFRESHES ELSE IF doing' = "probe" THEN PROBES ELSE 1
    BY <1>2, <1>6, AnalysisConstants
  <2>2. doing' \in {"check", "bands", "refresh"} /\ refreshed' \in BOOLEAN
    BY <1>2, <1>4
  <2>3. QED
    BY <1>2, <1>6, <2>1, <2>2 DEF AnalysisIInv, AnalysisRest
<1>9. AnalysisSite'
  BY <1>2 DEF AnalysisIInv, AnalysisSite
<1>10. QED
  BY <1>5, <1>7, <1>8, <1>9 DEF AnalysisIInv

\* The days of a band in order are those that are not judged for good.
LEMMA DaysToJudge ==
    ASSUME tradeDay \in TradeDay, NEW b \in PriceBand
    PROVE  /\ DaysOf(b) \in Seq(BandDay)
           /\ \A k \in BandDay : k \in Range(DaysOf(b)) <=>
                  k[1] = b /\ k[2] <= tradeDay /\ (HasFiles(b, k[2]) \/ k[2] = tradeDay) /\ ~ForGood(b, k[2])
<1> DEFINE due == {d \in 1..tradeDay : (HasFiles(b, d) \/ d = tradeDay) /\ ~ForGood(b, d)}
           wanted == {<<b, d>> : d \in due}
<1>1. tradeDay \in Nat /\ 1..tradeDay \subseteq TradeDay /\ TradeDay \subseteq Nat /\ \A d \in TradeDay : d >= 1
  BY AnalysisConstants DEF TradeDay
<1>2. PICK q : q = [d \in 1..tradeDay |-> <<b, d>>]
  OBVIOUS
<1>3. q \in Seq(BandDay) /\ Len(q) = tradeDay
  BY <1>1, <1>2 DEF BandDay
<1>4. PICK w : w = wanted
  OBVIOUS
<1>5. DaysOf(b) = Picked(q, w)
  BY <1>2, <1>4 DEF DaysOf
<1>6. Picked(q, w) \in Seq(BandDay) /\ Range(Picked(q, w)) = Range(q) \cap w
  BY <1>3, PickedElements
<1>7. ASSUME NEW k \in BandDay
      PROVE  k \in Range(q) \cap w <=>
                k[1] = b /\ k[2] <= tradeDay /\ (HasFiles(b, k[2]) \/ k[2] = tradeDay) /\ ~ForGood(b, k[2])
  <2>1. k = <<k[1], k[2]>> /\ k[2] \in TradeDay
    BY DEF BandDay
  <2>2. k \in w <=> k[1] = b /\ k[2] \in due
    <3>1. ASSUME k \in w PROVE k[1] = b /\ k[2] \in due
      <4>1. PICK d \in due : k = <<b, d>>
        BY <1>4, <3>1
      <4>2. QED
        BY <4>1
    <3>2. ASSUME k[1] = b, k[2] \in due PROVE k \in w
      BY <1>4, <2>1, <3>2
    <3>3. QED
      BY <3>1, <3>2
  <2>3. k[1] = b /\ k[2] \in due => k \in Range(q)
    <3>1. SUFFICES ASSUME k[1] = b, k[2] \in due PROVE k \in Range(q)
      OBVIOUS
    <3>2. k[2] \in 1..tradeDay /\ q[k[2]] = k
      BY <1>2, <2>1, <3>1
    <3>3. QED
      BY <1>3, <3>2, ElementsAt
  <2>4. k[2] \in 1..tradeDay <=> k[2] <= tradeDay
    BY <1>1, <2>1
  <2>5. QED
    BY <2>2, <2>3, <2>4
<1>8. QED
  BY <1>5, <1>6, <1>7

LEMMA CheckStep == ASSUME AnalysisIInv, NEW works \in BOOLEAN, CheckDay(works) PROVE AnalysisIInv'
<1>1. AllTold' = AllTold /\ Filed' = Filed
  BY SelectionsTell DEF CheckDay
<1>2. AnalysisRows'
  BY RowsKept DEF CheckDay, AnalysisIInv
<1>3. tradeDay \in TradeDay /\ TradeDay \subseteq Nat
  BY AnalysisDays DEF AnalysisIInv, AnalysisRest
<1>4. PICK q, r, s : /\ q = toJudge' /\ r = DaysOf("standard") /\ s = DaysOf("wide") /\ q = r \o s
  BY DEF CheckDay
<1>5. PriceBand = {"standard", "wide"}
  BY DEF PriceBand
<1>6. /\ r \in Seq(BandDay) /\ s \in Seq(BandDay)
      /\ \A k \in BandDay : k \in Range(r) <=>
            k[1] = "standard" /\ k[2] <= tradeDay /\ (HasFiles("standard", k[2]) \/ k[2] = tradeDay) /\ ~ForGood("standard", k[2])
      /\ \A k \in BandDay : k \in Range(s) <=>
            k[1] = "wide" /\ k[2] <= tradeDay /\ (HasFiles("wide", k[2]) \/ k[2] = tradeDay) /\ ~ForGood("wide", k[2])
  BY <1>3, <1>4, <1>5, DaysToJudge
<1>7. q \in Seq(BandDay) /\ Range(q) = Range(r) \cup Range(s)
  BY <1>4, <1>6, RangeOfJoined
<1>8. ASSUME NEW k \in BandDay
      PROVE  k \in Range(q) <=>
                k[2] <= tradeDay /\ (HasFiles(k[1], k[2]) \/ k[2] = tradeDay) /\ ~ForGood(k[1], k[2])
  <2>1. k[1] = "standard" \/ k[1] = "wide"
    BY <1>5 DEF BandDay
  <2>2. QED
    BY <1>6, <1>7, <2>1
<1>9. Range(q) \subseteq BandDay
  BY <1>7, ElementsAt
<1>10. doing = "check" /\ refreshed = TRUE /\ UpToDate(bandStatus, tradeDay, cached, AllTold)
  BY DEF CheckDay, AnalysisIInv, AnalysisQueue
<1>11. DueSound(Range(q), settledRow, tradeDay, cached, AllTold)
  <2>1. SUFFICES ASSUME NEW k \in Range(q)
                 PROVE  /\ k[2] <= tradeDay /\ settledRow[k[1]][k[2]] = None
                        /\ k[1] = "wide" /\ AllTold[k].state = "evaluated" => k \in cached
    BY DEF DueSound
  <2>2. k \in BandDay /\ k[1] \in PriceBand /\ k[2] \in TradeDay /\ k = <<k[1], k[2]>>
    BY <1>9 DEF BandDay
  <2>3. k[2] <= tradeDay /\ ~ForGood(k[1], k[2])
    BY <1>8, <2>1, <2>2
  <2>4. bandStatus[k[1]][k[2]].state = "evaluated" => k[2] = tradeDay
    BY <2>3 DEF ForGood
  <2>5. settledRow[k[1]][k[2]] = None
    <3>1. SUFFICES ASSUME settledRow[k[1]][k[2]] # None PROVE FALSE
      OBVIOUS
    <3>2. k[2] < tradeDay /\ bandStatus[k[1]][k[2]].state = "evaluated"
      BY <2>2, <3>1 DEF AnalysisIInv, AnalysisRows, SettledSound
    <3>3. QED
      BY <1>3, <2>4, <3>2
  <2>6. ASSUME k[1] = "wide", AllTold[k].state = "evaluated" PROVE k \in cached
    <3>1. k[2] \in 1..tradeDay /\ k = <<"wide", k[2]>>
      BY <1>3, <2>2, <2>3, <2>6, AnalysisConstants DEF TradeDay
    <3>2. QED
      BY <1>10, <2>4, <2>6, <3>1 DEF UpToDate
  <2>7. QED
    BY <2>3, <2>5, <2>6
<1>12. Caught(Range(q), excused, bandStatus, Filed, tradeDay)
  <2>1. SUFFICES ASSUME NEW k \in Filed, k[2] <= tradeDay, k \notin Range(q)
                 PROVE  bandStatus[k[1]][k[2]].state \in Verdicts
    BY DEF Caught
  <2>2. k \in BandDay /\ HasFiles(k[1], k[2])
    BY DEF Filed
  <2>3. ForGood(k[1], k[2])
    BY <1>8, <2>1, <2>2
  <2>4. QED
    BY <2>3 DEF ForGood, Verdicts
<1>13. AnalysisQueue'
  <2>1. doing' = "bands" /\ refreshed' = TRUE
    BY <1>10 DEF CheckDay
  <2>2. DueSound(Range(toJudge), settledRow, tradeDay, cached, AllTold)'
    BY <1>1, <1>4, <1>11 DEF CheckDay
  <2>3. Caught(Range(toJudge), excused, bandStatus, Filed, tradeDay)'
    BY <1>1, <1>4, <1>12 DEF CheckDay
  <2>4. toJudge' \in Seq(BandDay)
    BY <1>4, <1>7
  <2>5. QED
    BY <2>1, <2>2, <2>3, <2>4 DEF AnalysisQueue
<1>14. AnalysisRest'
  <2>1. judgedRows' \subseteq TradeDay
    BY <1>3 DEF CheckDay, AnalysisIInv, AnalysisRest
  <2>2. attempt' < IF doing' = "refresh" THEN REFRESHES ELSE IF doing' = "probe" THEN PROBES ELSE 1
    BY DEF CheckDay, AnalysisIInv, AnalysisRest
  <2>3. QED
    BY <2>1, <2>2 DEF CheckDay, AnalysisIInv, AnalysisRest
<1>15. AnalysisSite'
  BY DEF CheckDay, AnalysisIInv, AnalysisSite
<1>16. QED
  BY <1>2, <1>13, <1>14, <1>15 DEF AnalysisIInv

LEMMA StoreStep == ASSUME AnalysisIInv, StoreRow PROVE AnalysisIInv'
<1>1. AllTold' = AllTold /\ Filed' = Filed
  BY SelectionsTell DEF StoreRow
<1>2. PICK k, told : k = Head(toJudge) /\ told = AllTold /\ k \in BandDay /\ k \in Range(toJudge)
  BY RangeOfTail DEF StoreRow, AnalysisIInv, AnalysisQueue
<1>3. PICK b \in PriceBand, d \in TradeDay : b = k[1] /\ d = k[2] /\ k = <<b, d>>
  BY <1>2 DEF BandDay
<1>4. PICK t : t = told[k]
  OBVIOUS
<1>5. t = [state |-> State(b, d), source |-> Origin(b, d)]
  BY <1>2, <1>3, <1>4 DEF AllTold
<1>6. PICK r : /\ r = [told |-> t, state |-> t.state, bars |-> <<b, d>> \in cached \/ (b = "standard" /\ d \in judgedRows)]
               /\ row' = [row EXCEPT ![b][d] = r] /\ judgement' = t
  BY <1>2, <1>3, <1>5 DEF StoreRow
<1>7. r.told = t /\ r.state = t.state /\ (k \in cached => r.bars = TRUE)
  BY <1>3, <1>6
<1>8. r # None
  <2>1. r.state \in Verdicts
    BY <1>2, <1>4, <1>7, ToldType
  <2>2. r.state # "none"
    BY <2>1 DEF Verdicts
  <2>3. QED
    BY <2>2 DEF None
<1>9. settledRow[b][d] = None /\ (b = "wide" /\ t.state = "evaluated" => k \in cached)
  BY <1>2, <1>3, <1>4 DEF AnalysisIInv, AnalysisQueue, DueSound
<1>10. PICK rows, old, status, done : /\ rows = row' /\ old = row /\ status = bandStatus /\ done = settledRow
                                      /\ rows = [old EXCEPT ![b][d] = r]
  BY <1>6
<1>11. /\ Grid(old) /\ Grid(status) /\ Grid(done) /\ RowsSound(old, told) /\ StatusSound(status, old, told)
       /\ SettledSound(done, old, status, tradeDay) /\ Agree(old, status, told, excused, {})
  BY <1>2, <1>10 DEF AnalysisIInv, AnalysisRows, Busy, StoreRow
<1>12. /\ Grid(rows) /\ rows[b][d] = r
       /\ \A c \in PriceBand, e \in TradeDay : <<c, e>> # <<b, d>> => rows[c][e] = old[c][e]
  <2>1. Grid(old) /\ Changed(rows, old, b, d, r)
    BY <1>10, <1>11 DEF Changed
  <2>2. QED
    BY <2>1, GridChanged
<1>13. RowsSound(rows, told)
  <2>1. ASSUME NEW c \in PriceBand, NEW e \in TradeDay, rows[c][e] # None
        PROVE  /\ rows[c][e].told = told[<<c, e>>] /\ rows[c][e].state = told[<<c, e>>].state
               /\ c = "wide" /\ told[<<c, e>>].state = "evaluated" => rows[c][e].bars = TRUE
    <3>1. CASE <<c, e>> = <<b, d>>
      <4>1. c = b /\ e = d
        BY <3>1
      <4>2. rows[c][e] = r /\ told[<<c, e>>] = t
        BY <1>3, <1>4, <1>12, <4>1
      <4>3. QED
        BY <1>7, <1>9, <4>1, <4>2
    <3>2. CASE <<c, e>> # <<b, d>>
      BY <1>11, <1>12, <2>1, <3>2 DEF RowsSound
    <3>3. QED
      BY <3>1, <3>2
  <2>2. QED
    BY <2>1 DEF RowsSound
<1>14. StatusSound(status, rows, told)
  <2>1. ASSUME NEW c \in PriceBand, NEW e \in TradeDay
        PROVE  /\ status[c][e] \in {None, Marked, told[<<c, e>>]}
               /\ status[c][e] = told[<<c, e>>] => rows[c][e] # None
    <3>1. CASE <<c, e>> = <<b, d>>
      BY <1>8, <1>11, <1>12, <3>1 DEF StatusSound
    <3>2. CASE <<c, e>> # <<b, d>>
      BY <1>11, <1>12, <3>2 DEF StatusSound
    <3>3. QED
      BY <3>1, <3>2
  <2>2. QED
    BY <2>1 DEF StatusSound
<1>15. SettledSound(done, rows, status, tradeDay)
  <2>1. ASSUME NEW c \in PriceBand, NEW e \in TradeDay, done[c][e] # None
        PROVE  done[c][e] = rows[c][e] /\ e < tradeDay /\ status[c][e].state = "evaluated"
    <3>1. <<c, e>> # <<b, d>>
      BY <1>9, <1>10, <2>1
    <3>2. QED
      BY <1>11, <1>12, <2>1, <3>1 DEF SettledSound
  <2>2. QED
    BY <2>1 DEF SettledSound
<1>16. Agree(rows, status, told, excused, {k})
  <2>1. ASSUME NEW c \in PriceBand, NEW e \in TradeDay, rows[c][e] # None, <<c, e>> \notin excused, <<c, e>> \notin {k}
        PROVE  status[c][e] = told[<<c, e>>]
    <3>1. <<c, e>> # <<b, d>>
      BY <1>3, <2>1
    <3>2. rows[c][e] = old[c][e]
      BY <1>12, <3>1
    <3>3. QED
      BY <1>11, <2>1, <3>2 DEF Agree
  <2>2. QED
    BY <2>1 DEF Agree
<1>17. doing' = "save" /\ toJudge' = toJudge /\ Busy' = {k} /\ tradeDay' = tradeDay
  BY <1>2 DEF StoreRow, Busy
<1>18. AnalysisRows'
  <2>1. /\ Grid(row)' /\ Grid(bandStatus)' /\ Grid(settledRow)'
        /\ RowsSound(row, AllTold)' /\ StatusSound(bandStatus, row, AllTold)'
    BY <1>1, <1>2, <1>10, <1>11, <1>12, <1>13, <1>14 DEF StoreRow
  <2>2. SettledSound(settledRow, row, bandStatus, tradeDay)'
    BY <1>10, <1>15 DEF StoreRow
  <2>3. Agree(row, bandStatus, AllTold, excused, Busy)'
    BY <1>1, <1>2, <1>10, <1>16, <1>17 DEF StoreRow
  <2>4. QED
    BY <2>1, <2>2, <2>3 DEF AnalysisRows
<1>19. AnalysisQueue'
  <2>1. refreshed' = TRUE
    BY SMTT(30) DEF StoreRow, AnalysisIInv, AnalysisRest
  <2>2. /\ toJudge' # <<>> /\ judgement' = AllTold'[Head(toJudge')]
        /\ row'[Head(toJudge')[1]][Head(toJudge')[2]] # None
    BY <1>1, <1>2, <1>3, <1>4, <1>6, <1>8, <1>10, <1>12, <1>17 DEF StoreRow
  <2>3. DueSound(Range(toJudge), settledRow, tradeDay, cached, AllTold)'
    BY <1>1 DEF StoreRow, AnalysisIInv, AnalysisQueue
  <2>4. Caught(Range(toJudge), excused, bandStatus, Filed, tradeDay)'
    BY <1>1 DEF StoreRow, AnalysisIInv, AnalysisQueue
  <2>5. toJudge' \in Seq(BandDay)
    BY <1>17 DEF AnalysisIInv, AnalysisQueue
  <2>6. QED
    BY <1>17, <2>1, <2>2, <2>3, <2>4, <2>5 DEF AnalysisQueue
<1>20. AnalysisRest'
  <2>1. attempt' < IF doing' = "refresh" THEN REFRESHES ELSE IF doing' = "probe" THEN PROBES ELSE 1
    BY DEF StoreRow, AnalysisIInv, AnalysisRest
  <2>2. QED
    BY <2>1 DEF StoreRow, AnalysisIInv, AnalysisRest
<1>21. AnalysisSite'
  BY DEF StoreRow, AnalysisIInv, AnalysisSite
<1>22. QED
  BY <1>18, <1>19, <1>20, <1>21 DEF AnalysisIInv

LEMMA MarkStep ==
    ASSUME AnalysisIInv, NEW forgone \in SUBSET PriceBand, forgone = {} \/ mishaps < MaxMishaps, MarkFailed(forgone)
    PROVE  AnalysisIInv'
<1>1. AllTold' = AllTold /\ Filed' = Filed
  BY SelectionsTell DEF MarkFailed
<1>2. PICK status, old, marked, today : /\ status = bandStatus' /\ old = bandStatus /\ today = tradeDay
         /\ marked = {b \in PriceBand : old[b][today] = None} \ forgone
         /\ status = [b \in PriceBand |-> IF b \in marked THEN [old[b] EXCEPT ![today] = Marked] ELSE old[b]]
  <2>1. PICK old, marked, today : /\ old = bandStatus /\ today = tradeDay
                                  /\ marked = {b \in PriceBand : old[b][today] = None} \ forgone
    OBVIOUS
  <2>2. bandStatus' = [b \in PriceBand |-> IF b \in marked THEN [old[b] EXCEPT ![today] = Marked] ELSE old[b]]
    BY <2>1, Zenon DEF MarkFailed, Marked
  <2>3. QED
    BY <2>1, <2>2
<1>3. Grid(old) /\ StatusSound(old, row, AllTold) /\ SettledSound(settledRow, row, old, today)
      /\ Agree(row, old, AllTold, excused, Busy) /\ today \in TradeDay
  BY <1>2 DEF AnalysisIInv, AnalysisRows, AnalysisRest
<1>4. ASSUME NEW b \in PriceBand
      PROVE  /\ DOMAIN status[b] = TradeDay
             /\ \A d \in TradeDay : \/ status[b][d] = old[b][d]
                                    \/ status[b][d] = Marked /\ old[b][d] = None
  <2>1. DOMAIN old[b] = TradeDay
    BY <1>3 DEF Grid
  <2>2. CASE b \in marked
    <3>1. status[b] = [old[b] EXCEPT ![today] = Marked] /\ old[b][today] = None
      BY <1>2, <2>2
    <3>2. QED
      BY <2>1, <3>1
  <2>3. CASE b \notin marked
    BY <1>2, <2>1, <2>3
  <2>4. QED
    BY <2>2, <2>3
<1>5. Grid(status)
  BY <1>2, <1>4 DEF Grid
<1>6. StatusSound(status, row, AllTold)
  <2>1. ASSUME NEW b \in PriceBand, NEW d \in TradeDay
        PROVE  /\ status[b][d] \in {None, Marked, AllTold[<<b, d>>]}
               /\ status[b][d] = AllTold[<<b, d>>] => row[b][d] # None
    <3>1. AllTold[<<b, d>>] # Marked
      BY ToldType DEF BandDay
    <3>2. QED
      BY <1>3, <1>4, <3>1 DEF StatusSound
  <2>2. QED
    BY <2>1 DEF StatusSound
<1>7. None.state # "evaluated"
  BY DEF None
<1>8. SettledSound(settledRow, row, status, today)
  <2>1. ASSUME NEW b \in PriceBand, NEW d \in TradeDay, settledRow[b][d] # None
        PROVE  settledRow[b][d] = row[b][d] /\ d < today /\ status[b][d].state = "evaluated"
    BY <1>3, <1>4, <1>7, <2>1 DEF SettledSound
  <2>2. QED
    BY <2>1 DEF SettledSound
<1>9. Agree(row, status, AllTold, excused, Busy)
  <2>1. ASSUME NEW b \in PriceBand, NEW d \in TradeDay, row[b][d] # None, <<b, d>> \notin excused, <<b, d>> \notin Busy
        PROVE  status[b][d] = AllTold[<<b, d>>]
    <3>1. AllTold[<<b, d>>] # None
      BY ToldType DEF BandDay
    <3>2. old[b][d] = AllTold[<<b, d>>]
      BY <1>3, <2>1 DEF Agree
    <3>3. QED
      BY <1>4, <3>1, <3>2
  <2>2. QED
    BY <2>1 DEF Agree
<1>10. AnalysisRows'
  <2>1. Busy' = Busy
    BY DEF Busy, MarkFailed
  <2>2. Grid(row)' /\ Grid(bandStatus)' /\ Grid(settledRow)' /\ RowsSound(row, AllTold)' /\ StatusSound(bandStatus, row, AllTold)'
    BY <1>1, <1>2, <1>5, <1>6 DEF MarkFailed, AnalysisIInv, AnalysisRows
  <2>3. SettledSound(settledRow, row, bandStatus, tradeDay)'
    BY <1>2, <1>8 DEF MarkFailed
  <2>4. Agree(row, bandStatus, AllTold, excused, Busy)'
    BY <1>1, <1>2, <1>9, <2>1 DEF MarkFailed
  <2>5. QED
    BY <2>2, <2>3, <2>4 DEF AnalysisRows
<1>11. AnalysisQueue'
  <2>1. doing' = "publish" /\ refreshed' = FALSE
    BY DEF MarkFailed, progressVars, AnalysisIInv, AnalysisRest
  <2>2. DueSound(Range(toJudge), settledRow, tradeDay, cached, AllTold)'
    BY <1>1 DEF MarkFailed, progressVars, AnalysisIInv, AnalysisQueue
  <2>3. toJudge' \in Seq(BandDay)
    BY DEF MarkFailed, progressVars, AnalysisIInv, AnalysisQueue
  <2>4. QED
    BY <2>1, <2>2, <2>3 DEF AnalysisQueue
<1>12. AnalysisRest'
  <2>1. attempt' < IF doing' = "refresh" THEN REFRESHES ELSE IF doing' = "probe" THEN PROBES ELSE 1
    BY DEF MarkFailed, progressVars, AnalysisIInv, AnalysisRest
  <2>2. mishaps' \in 0..MaxMishaps
    BY AnalysisConstants DEF MarkFailed, AnalysisIInv, AnalysisRest
  <2>3. QED
    BY <2>1, <2>2 DEF MarkFailed, progressVars, AnalysisIInv, AnalysisRest
<1>13. AnalysisSite'
  BY DEF MarkFailed, AnalysisIInv, AnalysisSite
<1>14. QED
  BY <1>10, <1>11, <1>12, <1>13 DEF AnalysisIInv

LEMMA SaveStep ==
    ASSUME AnalysisIInv, NEW saved \in BOOLEAN, saved \/ mishaps < MaxMishaps, SaveStatus(saved)
    PROVE  AnalysisIInv'
<1>1. AllTold' = AllTold /\ Filed' = Filed
  BY SelectionsTell DEF SaveStatus
<1>2. toJudge \in Seq(BandDay) /\ toJudge # <<>> /\ doing = "save" /\ refreshed = TRUE
  BY DEF SaveStatus, AnalysisIInv, AnalysisQueue
<1>3. PICK k, rest, told : /\ k = Head(toJudge) /\ rest = Tail(toJudge) /\ told = AllTold /\ k \in BandDay
                           /\ rest \in Seq(BandDay) /\ Range(toJudge) = {k} \cup Range(rest)
  <2>1. /\ Head(toJudge) \in BandDay /\ Tail(toJudge) \in Seq(BandDay)
        /\ Range(toJudge) = {Head(toJudge)} \cup Range(Tail(toJudge))
    BY <1>2, RangeOfTail
  <2>2. QED
    BY <2>1
<1>4. PICK b \in PriceBand, d \in TradeDay : b = k[1] /\ d = k[2] /\ k = <<b, d>>
  BY <1>3 DEF BandDay
<1>5. PICK t : t = told[k] /\ judgement = t /\ row[b][d] # None /\ t.state \in Verdicts /\ t # None /\ t # Marked
  BY <1>2, <1>3, <1>4, ToldType DEF AnalysisIInv, AnalysisQueue
<1>6. PICK status, old, out, before : /\ status = bandStatus' /\ old = bandStatus /\ out = excused' /\ before = excused
          /\ status = (IF saved THEN [old EXCEPT ![b][d] = t] ELSE old)
          /\ out = (IF saved THEN before \ {k} ELSE before \cup {k})
  <2>1. /\ bandStatus' = (IF saved THEN [bandStatus EXCEPT ![b][d] = t] ELSE bandStatus)
        /\ excused' = (IF saved THEN excused \ {k} ELSE excused \cup {k})
    BY <1>3, <1>4, <1>5, Zenon DEF SaveStatus
  <2>2. QED
    BY <2>1
<1>7. /\ Grid(old) /\ StatusSound(old, row, told) /\ SettledSound(settledRow, row, old, tradeDay)
      /\ Agree(row, old, told, before, {k})
  BY <1>2, <1>3, <1>6 DEF AnalysisIInv, AnalysisRows, Busy
<1>8. settledRow[b][d] = None
  BY <1>3, <1>4 DEF AnalysisIInv, AnalysisQueue, DueSound
<1>9. /\ Grid(status)
      /\ \A c \in PriceBand, e \in TradeDay : <<c, e>> # <<b, d>> => status[c][e] = old[c][e]
      /\ \/ status[b][d] = t
         \/ status[b][d] = old[b][d] /\ k \in out
  <2>1. CASE saved
    <3>1. Changed(status, old, b, d, t)
      BY <1>6, <2>1 DEF Changed
    <3>2. QED
      BY <1>7, <3>1, GridChanged
  <2>2. CASE ~saved
    BY <1>6, <1>7, <2>2
  <2>3. QED
    BY <2>1, <2>2
<1>10. \A j : j # k => (j \in out <=> j \in before)
  BY <1>6
<1>11. StatusSound(status, row, told)
  <2>1. ASSUME NEW c \in PriceBand, NEW e \in TradeDay
        PROVE  /\ status[c][e] \in {None, Marked, told[<<c, e>>]}
               /\ status[c][e] = told[<<c, e>>] => row[c][e] # None
    <3>1. CASE <<c, e>> = <<b, d>>
      <4>1. c = b /\ e = d /\ told[<<c, e>>] = t
        BY <1>4, <1>5, <3>1
      <4>2. QED
        BY <1>5, <1>7, <1>9, <4>1 DEF StatusSound
    <3>2. CASE <<c, e>> # <<b, d>>
      BY <1>7, <1>9, <3>2 DEF StatusSound
    <3>3. QED
      BY <3>1, <3>2
  <2>2. QED
    BY <2>1 DEF StatusSound
<1>12. SettledSound(settledRow, row, status, tradeDay)
  <2>1. ASSUME NEW c \in PriceBand, NEW e \in TradeDay, settledRow[c][e] # None
        PROVE  settledRow[c][e] = row[c][e] /\ e < tradeDay /\ status[c][e].state = "evaluated"
    <3>1. <<c, e>> # <<b, d>>
      BY <1>8, <2>1
    <3>2. QED
      BY <1>7, <1>9, <2>1, <3>1 DEF SettledSound
  <2>2. QED
    BY <2>1 DEF SettledSound
<1>13. Agree(row, status, told, out, {})
  <2>1. ASSUME NEW c \in PriceBand, NEW e \in TradeDay, row[c][e] # None, <<c, e>> \notin out
        PROVE  status[c][e] = told[<<c, e>>]
    <3>1. CASE <<c, e>> = <<b, d>>
      <4>1. c = b /\ e = d /\ told[<<c, e>>] = t /\ <<c, e>> = k
        BY <1>4, <1>5, <3>1
      <4>2. QED
        BY <1>9, <2>1, <4>1
    <3>2. CASE <<c, e>> # <<b, d>>
      <4>1. <<c, e>> # k /\ <<c, e>> \notin before
        BY <1>4, <1>10, <2>1, <3>2
      <4>2. QED
        BY <1>7, <1>9, <2>1, <3>2, <4>1 DEF Agree
    <3>3. QED
      BY <3>1, <3>2
  <2>2. QED
    BY <2>1 DEF Agree
<1>14. Caught(Range(rest), out, status, Filed, tradeDay)
  <2>1. Caught(Range(toJudge), before, old, Filed, tradeDay)
    BY <1>2, <1>6 DEF AnalysisIInv, AnalysisQueue
  <2>2. ASSUME NEW j \in Filed, j[2] <= tradeDay
        PROVE  j \in Range(rest) \/ j \in out \/ status[j[1]][j[2]].state \in Verdicts
    <3>1. j \in BandDay /\ j[1] \in PriceBand /\ j[2] \in TradeDay /\ j = <<j[1], j[2]>>
      BY DEF Filed, BandDay
    <3>2. CASE j = k
      BY <1>4, <1>5, <1>9, <3>2
    <3>3. CASE j # k
      <4>1. j \in Range(rest) \/ j \in before \/ old[j[1]][j[2]].state \in Verdicts
        BY <1>3, <2>1, <2>2, <3>3 DEF Caught
      <4>2. status[j[1]][j[2]] = old[j[1]][j[2]]
        BY <1>4, <1>9, <3>1, <3>3
      <4>3. QED
        BY <1>10, <3>3, <4>1, <4>2
    <3>4. QED
      BY <3>2, <3>3
  <2>3. QED
    BY <2>2 DEF Caught
<1>15. doing' = "bands" /\ toJudge' = rest /\ Busy' = {} /\ refreshed' = TRUE /\ tradeDay' = tradeDay
       /\ row' = row /\ settledRow' = settledRow /\ cached' = cached
  BY <1>2, <1>3 DEF SaveStatus, Busy
<1>16. AnalysisRows'
  <2>1. Grid(row)' /\ Grid(bandStatus)' /\ Grid(settledRow)' /\ RowsSound(row, AllTold)'
    BY <1>1, <1>6, <1>9, <1>15 DEF AnalysisIInv, AnalysisRows
  <2>2. StatusSound(bandStatus, row, AllTold)' /\ SettledSound(settledRow, row, bandStatus, tradeDay)'
    BY <1>1, <1>3, <1>6, <1>11, <1>12, <1>15
  <2>3. Agree(row, bandStatus, AllTold, excused, Busy)'
    BY <1>1, <1>3, <1>6, <1>13, <1>15
  <2>4. QED
    BY <2>1, <2>2, <2>3 DEF AnalysisRows
<1>17. AnalysisQueue'
  <2>1. DueSound(Range(rest), settledRow, tradeDay, cached, AllTold)
    BY <1>3 DEF AnalysisIInv, AnalysisQueue, DueSound
  <2>2. DueSound(Range(toJudge), settledRow, tradeDay, cached, AllTold)'
    BY <1>1, <1>15, <2>1
  <2>3. Caught(Range(toJudge), excused, bandStatus, Filed, tradeDay)'
    BY <1>1, <1>6, <1>14, <1>15
  <2>4. QED
    BY <1>3, <1>15, <2>2, <2>3 DEF AnalysisQueue
<1>18. AnalysisRest'
  <2>1. attempt' < IF doing' = "refresh" THEN REFRESHES ELSE IF doing' = "probe" THEN PROBES ELSE 1
    BY DEF SaveStatus, AnalysisIInv, AnalysisRest
  <2>2. mishaps' \in 0..MaxMishaps
    <3>1. mishaps' = mishaps \/ (mishaps' = mishaps + 1 /\ mishaps < MaxMishaps)
      BY DEF SaveStatus
    <3>2. QED
      BY <3>1, AnalysisConstants DEF AnalysisIInv, AnalysisRest
  <2>3. excused' \subseteq BandDay
    BY <1>3, <1>6 DEF AnalysisIInv, AnalysisRest
  <2>4. QED
    BY <2>1, <2>2, <2>3 DEF SaveStatus, AnalysisIInv, AnalysisRest
<1>19. AnalysisSite'
  BY DEF SaveStatus, AnalysisIInv, AnalysisSite
<1>20. QED
  BY <1>16, <1>17, <1>18, <1>19 DEF AnalysisIInv

\* A row whose status was not written goes among the excused.
LEMMA DiesStep == ASSUME AnalysisIInv, AnalysisDies PROVE AnalysisIInv'
<1>1. AllTold' = AllTold
  BY SelectionsTell DEF AnalysisDies
<1>2. /\ doing' = "idle" /\ attempt' = 0 /\ latest' = {} /\ refreshed' = FALSE /\ toJudge' = <<>>
      /\ UNCHANGED <<tradeDay, runsLeft, selections, cached, judgedRows, bandStatus, row, settledRow, site, announced>>
  BY DEF AnalysisDies, Rest
<1>3. PICK out, busy, before : out = excused' /\ before = excused /\ busy = Busy /\ out = before \cup busy /\ Busy' = {}
  <2>1. excused' = excused \cup Busy
    BY Zenon DEF AnalysisDies, Busy
  <2>2. Busy' = {}
    BY <1>2 DEF Busy
  <2>3. QED
    BY <2>1, <2>2
<1>4. Agree(row, bandStatus, AllTold, out, {})
  <2>1. Agree(row, bandStatus, AllTold, before, busy)
    BY <1>3 DEF AnalysisIInv, AnalysisRows
  <2>2. \A j : j \notin out => j \notin before /\ j \notin busy
    BY <1>3
  <2>3. QED
    BY <2>1, <2>2 DEF Agree
<1>5. AnalysisRows'
  <2>1. Agree(row, bandStatus, AllTold, excused, Busy)'
    BY <1>1, <1>2, <1>3, <1>4
  <2>2. QED
    BY <1>1, <1>2, <2>1 DEF AnalysisIInv, AnalysisRows
<1>6. AnalysisQueue'
  <2>1. PICK q : q = toJudge' /\ q = <<>>
    BY <1>2
  <2>2. Range(q) = {} /\ q \in Seq(BandDay)
    BY <2>1 DEF Range
  <2>3. QED
    BY <1>2, <2>1, <2>2 DEF AnalysisQueue, DueSound
<1>7. AnalysisRest'
  <2>1. out \subseteq BandDay
    <3>1. busy \subseteq BandDay
      <4>1. CASE doing = "save"
        <5>1. toJudge \in Seq(BandDay) /\ toJudge # <<>>
          BY <4>1 DEF AnalysisIInv, AnalysisQueue
        <5>2. Head(toJudge) \in BandDay
          BY <5>1, RangeOfTail
        <5>3. QED
          BY <1>3, <4>1, <5>2 DEF Busy
      <4>2. CASE doing # "save"
        BY <1>3, <4>2 DEF Busy
      <4>3. QED
        BY <4>1, <4>2
    <3>2. QED
      BY <1>3, <3>1 DEF AnalysisIInv, AnalysisRest
  <2>2. mishaps' \in 0..MaxMishaps
    BY AnalysisConstants DEF AnalysisDies, AnalysisIInv, AnalysisRest
  <2>3. attempt' < IF doing' = "refresh" THEN REFRESHES ELSE IF doing' = "probe" THEN PROBES ELSE 1
    BY <1>2
  <2>4. refreshed' \in BOOLEAN /\ excused' \subseteq BandDay /\ latest' \subseteq cached' /\ cached' \subseteq BandDay
    BY <1>2, <1>3, <2>1 DEF AnalysisIInv, AnalysisRest
  <2>5. QED
    BY <1>2, <2>2, <2>3, <2>4 DEF AnalysisIInv, AnalysisRest
<1>8. AnalysisSite'
  BY <1>2 DEF AnalysisIInv, AnalysisSite
<1>9. QED
  BY <1>5, <1>6, <1>7, <1>8 DEF AnalysisIInv

LEMMA DoneStep == ASSUME AnalysisIInv, BandsDone PROVE AnalysisIInv'
<1>1. AllTold' = AllTold /\ Filed' = Filed
  BY SelectionsTell DEF BandsDone
<1>2. AnalysisRows'
  BY RowsKept DEF BandsDone, filesVars, AnalysisIInv
<1>3. AnalysisQueue'
  <2>1. doing = "bands" /\ doing' = "publish" /\ refreshed = TRUE /\ toJudge = <<>> /\ UNCHANGED <<refreshed, toJudge>>
    BY DEF BandsDone, progressVars, AnalysisIInv, AnalysisRest
  <2>2. Caught(Range(toJudge), excused, bandStatus, Filed, tradeDay)'
    BY <1>1, <2>1 DEF BandsDone, filesVars, AnalysisIInv, AnalysisQueue
  <2>3. DueSound(Range(toJudge), settledRow, tradeDay, cached, AllTold)'
    BY <1>1, <2>1 DEF BandsDone, filesVars, AnalysisIInv, AnalysisQueue
  <2>4. QED
    BY <2>1, <2>2, <2>3 DEF AnalysisIInv, AnalysisQueue
<1>4. AnalysisRest'
  <2>1. attempt' < IF doing' = "refresh" THEN REFRESHES ELSE IF doing' = "probe" THEN PROBES ELSE 1
    BY DEF BandsDone, progressVars, AnalysisIInv, AnalysisRest
  <2>2. QED
    BY <2>1 DEF BandsDone, progressVars, filesVars, AnalysisIInv, AnalysisRest
<1>5. AnalysisSite'
  BY DEF BandsDone, AnalysisIInv, AnalysisSite
<1>6. QED
  BY <1>2, <1>3, <1>4, <1>5 DEF AnalysisIInv

\* A run that ends leaves nothing of its own.
LEMMA RestStep ==
    ASSUME AnalysisIInv, doing \in {"publish", "probe"}, doing' = "idle", Rest,
           UNCHANGED <<tradeDay, runsLeft, mishaps, selections, filesVars, site>>,
           announced' \in [said : {"nothing", "published", "failed"}, of : TradeDay],
           announced'.said = "published" => announced'.of \in site.files
    PROVE  AnalysisIInv'
<1>1. AnalysisRows'
  BY RowsKept DEF filesVars, AnalysisIInv
<1>2. AnalysisQueue'
  <2>1. PICK q : q = toJudge' /\ q = <<>>
    BY DEF Rest
  <2>2. Range(q) = {} /\ q \in Seq(BandDay)
    BY <2>1 DEF Range
  <2>3. QED
    BY <2>1, <2>2 DEF Rest, AnalysisQueue, DueSound
<1>3. AnalysisRest'
  <2>1. refreshed' \in BOOLEAN /\ latest' = {} /\ attempt' = 0
    BY DEF Rest
  <2>2. attempt' < IF doing' = "refresh" THEN REFRESHES ELSE IF doing' = "probe" THEN PROBES ELSE 1
    BY <2>1
  <2>3. QED
    BY <2>1, <2>2 DEF filesVars, AnalysisIInv, AnalysisRest
<1>4. AnalysisSite'
  BY DEF AnalysisIInv, AnalysisSite
<1>5. QED
  BY <1>1, <1>2, <1>3, <1>4 DEF AnalysisIInv

\* A run that goes on within its last stages.
LEMMA StageStep ==
    ASSUME AnalysisIInv, doing \in {"publish", "probe"}, doing' = "probe",
           UNCHANGED <<tradeDay, runsLeft, mishaps, selections, filesVars, latest, refreshed, toJudge, judgement, announced>>,
           attempt' \in Nat, attempt' < PROBES, site'.index = site'.files, site.files \subseteq site'.files,
           tradeDay \in site'.files
    PROVE  AnalysisIInv'
<1>1. AnalysisRows'
  BY RowsKept DEF filesVars, AnalysisIInv
<1>2. AllTold' = AllTold /\ Filed' = Filed
  BY SelectionsTell
<1>3. AnalysisQueue'
  <2>1. DueSound(Range(toJudge), settledRow, tradeDay, cached, AllTold)'
    BY <1>2 DEF filesVars, AnalysisIInv, AnalysisQueue
  <2>2. refreshed' => Caught(Range(toJudge), excused, bandStatus, Filed, tradeDay)' /\ toJudge' = <<>>
    BY <1>2 DEF filesVars, AnalysisIInv, AnalysisQueue
  <2>3. toJudge' \in Seq(BandDay)
    BY DEF AnalysisIInv, AnalysisQueue
  <2>4. QED
    BY <2>1, <2>2, <2>3 DEF AnalysisQueue
<1>4. AnalysisRest'
  <2>1. attempt' < IF doing' = "refresh" THEN REFRESHES ELSE IF doing' = "probe" THEN PROBES ELSE 1
    OBVIOUS
  <2>2. QED
    BY <2>1 DEF filesVars, AnalysisIInv, AnalysisRest
<1>5. AnalysisSite'
  BY DEF AnalysisIInv, AnalysisSite
<1>6. QED
  BY <1>1, <1>3, <1>4, <1>5 DEF AnalysisIInv

LEMMA PublishStep == ASSUME AnalysisIInv, NEW works \in BOOLEAN, Publish(works) PROVE AnalysisIInv'
<1>1. tradeDay \in TradeDay /\ attempt \in Nat /\ (doing = "publish" => attempt < 1) /\ site.index = site.files
  BY DEF AnalysisIInv, AnalysisRest, AnalysisSite
<1>2. CASE works
  <2>1. PICK filed : filed = site.files \cup {tradeDay}
    OBVIOUS
  <2>2. site' = [files |-> filed, index |-> filed] /\ doing' = "probe" /\ UNCHANGED <<announced, progressVars>>
    BY <1>1, <1>2, <2>1 DEF Publish
  <2>3. site'.files = filed /\ site'.index = filed
    BY <2>2
  <2>4. attempt' \in Nat /\ attempt' < PROBES
    BY <1>1, <2>2, AnalysisConstants DEF Publish, progressVars
  <2>5. QED
    BY <2>1, <2>2, <2>3, <2>4, StageStep DEF Publish, progressVars
<1>3. CASE ~works
  <2>1. doing = "publish" /\ doing' = "idle" /\ Rest /\ site' = site /\ announced' = [said |-> "failed", of |-> tradeDay]
    BY <1>3 DEF Publish, Announce
  <2>2. announced' \in [said : {"nothing", "published", "failed"}, of : TradeDay] /\ announced'.said = "failed"
    BY <1>1, <2>1
  <2>3. QED
    BY <2>1, <2>2, RestStep DEF Publish
<1>4. QED
  BY <1>2, <1>3

LEMMA ProbeStep == ASSUME AnalysisIInv, NEW answers \in BOOLEAN, Probe(answers) PROVE AnalysisIInv'
<1>1. /\ tradeDay \in TradeDay /\ attempt \in Nat /\ doing = "probe" /\ attempt < PROBES
      /\ site.index = site.files /\ tradeDay \in site.files
  BY DEF Probe, AnalysisIInv, AnalysisRest, AnalysisSite
<1>2. CASE answers \/ attempt + 1 = PROBES
  <2>1. PICK said \in {"published", "failed"} : doing' = "idle" /\ Rest /\ announced' = [said |-> said, of |-> tradeDay]
    BY <1>2, Zenon DEF Probe, Announce
  <2>2. announced' \in [said : {"nothing", "published", "failed"}, of : TradeDay] /\ announced'.of = tradeDay
    BY <1>1, <2>1
  <2>3. QED
    BY <1>1, <2>1, <2>2, RestStep DEF Probe
<1>3. CASE ~(answers \/ attempt + 1 = PROBES)
  <2>1. attempt' = attempt + 1 /\ UNCHANGED <<doing, announced, latest, refreshed, toJudge, judgement>>
    BY <1>3, Zenon DEF Probe
  <2>2. attempt' \in Nat /\ attempt' < PROBES
    <3>1. attempt + 1 # PROBES
      BY <1>3
    <3>2. QED
      BY <1>1, <2>1, <3>1, AnalysisConstants
  <2>3. QED
    BY <1>1, <2>1, <2>2, StageStep DEF Probe
<1>4. QED
  BY <1>2, <1>3

LEMMA AnalysisStays == ASSUME AnalysisIInv, UNCHANGED analysisVars PROVE AnalysisIInv'
<1>1. AllTold' = AllTold /\ Filed' = Filed
  BY SelectionsTell DEF analysisVars
<1>2. AnalysisRows'
  BY <1>1 DEF analysisVars, AnalysisIInv, AnalysisRows, Busy
<1>3. AnalysisQueue'
  BY <1>1 DEF analysisVars, AnalysisIInv, AnalysisQueue
<1>4. AnalysisRest' /\ AnalysisSite'
  BY DEF analysisVars, AnalysisIInv, AnalysisRest, AnalysisSite
<1>5. QED
  BY <1>2, <1>3, <1>4 DEF AnalysisIInv

LEMMA AnalysisStep == AnalysisIInv /\ [AnalysisNext]_analysisVars => AnalysisIInv'
<1>1. SUFFICES ASSUME AnalysisIInv, [AnalysisNext]_analysisVars PROVE AnalysisIInv'
  OBVIOUS
<1>2. CASE NextMorning
  BY <1>1, <1>2, MorningStep
<1>3. CASE StartAnalysis
  BY <1>1, <1>3, StartStep
<1>4. ASSUME NEW got \in SUBSET (PriceBand \X TradeDay), NEW raises \in BOOLEAN, RefreshOnce(got, raises)
      PROVE  AnalysisIInv'
  BY <1>1, <1>4, RefreshStep DEF BandDay
<1>5. ASSUME NEW works \in BOOLEAN, CheckDay(works) \/ Publish(works) \/ Probe(works) PROVE AnalysisIInv'
  BY <1>1, <1>5, CheckStep, PublishStep, ProbeStep
<1>6. CASE StoreRow
  BY <1>1, <1>6, StoreStep
<1>7. ASSUME NEW forgone \in SUBSET PriceBand, forgone = {} \/ mishaps < MaxMishaps, MarkFailed(forgone) PROVE AnalysisIInv'
  BY <1>1, <1>7, MarkStep
<1>8. ASSUME NEW saved \in BOOLEAN, saved \/ mishaps < MaxMishaps, SaveStatus(saved) PROVE AnalysisIInv'
  BY <1>1, <1>8, SaveStep
<1>9. CASE BandsDone
  BY <1>1, <1>9, DoneStep
<1>10. CASE AnalysisDies
  BY <1>1, <1>10, DiesStep
<1>11. CASE UNCHANGED analysisVars
  BY <1>1, <1>11, AnalysisStays
<1>12. QED
  BY <1>1, <1>2, <1>3, <1>4, <1>5, <1>6, <1>7, <1>8, <1>9, <1>10, <1>11 DEF AnalysisNext

-----------------------------------------------------------------------------
(* What the invariant gives *)

LEMMA RowsTold ==
    ASSUME AnalysisIInv, NEW b \in PriceBand, NEW d \in TradeDay, NEW k \in BandDay, k = <<b, d>>
    PROVE  /\ bandStatus[b][d] \in {None, Marked, AllTold[k]}
           /\ bandStatus[b][d] = AllTold[k] => row[b][d] # None
           /\ row[b][d] # None => row[b][d].told = AllTold[k] /\ row[b][d].state = AllTold[k].state
           /\ row[b][d] # None /\ b = "wide" /\ AllTold[k].state = "evaluated" => row[b][d].bars = TRUE
BY DEF AnalysisIInv, AnalysisRows, RowsSound, StatusSound

LEMMA NoneAndMarked == None.state = "none" /\ Marked.state = "cache_update_failed"
BY DEF None, Marked

\* What is read of a day that was judged is its state.
LEMMA StateRead ==
    ASSUME AnalysisIInv, NEW b \in PriceBand, NEW d \in TradeDay, NEW k \in BandDay, k = <<b, d>>
    PROVE  /\ bandStatus[b][d] = AllTold[k] => ReadState(b, d) = State(b, d) /\ bandStatus[b][d].state = State(b, d)
           /\ bandStatus[b][d] = None => ReadState(b, d) = "none" /\ bandStatus[b][d].state = "none"
           /\ bandStatus[b][d] = Marked =>
                 ReadState(b, d) = "cache_update_failed" /\ bandStatus[b][d].state = "cache_update_failed"
           /\ State(b, d) \in Verdicts
<1>1. AllTold[k].state = State(b, d) /\ State(b, d) \in Verdicts
  BY ToldType
<1>2. State(b, d) = "empty_selection" => ~Unscreened(b, d)
  BY DEF State
<1>3. PICK s, st : s = bandStatus[b][d] /\ st = State(b, d)
  OBVIOUS
<1>4. ReadState(b, d) = IF s.state = "empty_selection" /\ Unscreened(b, d) THEN "selection_missing" ELSE s.state
  BY <1>3 DEF ReadState
<1>5. ASSUME s = AllTold[k] PROVE ReadState(b, d) = st /\ s.state = st
  BY <1>1, <1>2, <1>3, <1>4, <1>5
<1>6. ASSUME s = None PROVE ReadState(b, d) = "none" /\ s.state = "none"
  BY <1>4, <1>6, NoneAndMarked
<1>7. ASSUME s = Marked PROVE ReadState(b, d) = "cache_update_failed" /\ s.state = "cache_update_failed"
  BY <1>4, <1>7, NoneAndMarked
<1>8. QED
  BY <1>1, <1>3, <1>5, <1>6, <1>7

\* A day that is judged for good has its row, and on another band than the standard one the bars.
LEMMA JudgedRow ==
    ASSUME AnalysisIInv, NEW b \in PriceBand, NEW d \in TradeDay, bandStatus[b][d].state = "evaluated"
    PROVE  row[b][d] # None /\ (b = "wide" => row[b][d].bars = TRUE)
<1>1. PICK k \in BandDay : k = <<b, d>>
  BY DEF BandDay
<1>2. bandStatus[b][d] = AllTold[k]
  <2>1. bandStatus[b][d] \in {None, Marked, AllTold[k]}
    BY <1>1, RowsTold
  <2>2. bandStatus[b][d] # None /\ bandStatus[b][d] # Marked
    BY NoneAndMarked
  <2>3. QED
    BY <2>1, <2>2
<1>3. row[b][d] # None
  BY <1>1, <1>2, RowsTold
<1>4. AllTold[k].state = "evaluated"
  BY <1>2
<1>5. QED
  BY <1>1, <1>3, <1>4, RowsTold

LEMMA RowsAndStatus == ASSUME AnalysisIInv PROVE StatusTellsRow /\ JudgedWithBars /\ EvaluatedKept
<1>1. StatusTellsRow
  <2>1. SUFFICES ASSUME NEW b \in PriceBand, NEW d \in TradeDay, <<b, d>> \notin excused,
                        doing = "save" => Head(toJudge) # <<b, d>>
                 PROVE  IF row[b][d] = None THEN bandStatus[b][d].state \in {"none", "cache_update_failed"}
                                            ELSE bandStatus[b][d] = row[b][d].told
    BY DEF StatusTellsRow
  <2>2. PICK k \in BandDay : k = <<b, d>>
    BY DEF BandDay
  <2>3. <<b, d>> \notin Busy
    BY <2>1 DEF Busy
  <2>4. CASE row[b][d] = None
    BY <2>2, <2>4, RowsTold, NoneAndMarked
  <2>5. CASE row[b][d] # None
    <3>1. bandStatus[b][d] = AllTold[k]
      BY <2>1, <2>2, <2>3, <2>5 DEF AnalysisIInv, AnalysisRows, Agree
    <3>2. QED
      BY <2>2, <2>5, <3>1, RowsTold
  <2>6. QED
    BY <2>4, <2>5
<1>2. JudgedWithBars
  <2>1. SUFFICES ASSUME NEW d \in TradeDay, bandStatus["wide"][d].state = "evaluated" PROVE row["wide"][d].bars
    BY DEF JudgedWithBars
  <2>2. PICK b \in PriceBand : b = "wide"
    BY DEF PriceBand
  <2>3. QED
    BY <2>1, <2>2, JudgedRow
<1>3. EvaluatedKept
  BY DEF EvaluatedKept, AnalysisIInv, AnalysisRows, SettledSound
<1>4. QED
  BY <1>1, <1>2, <1>3

LEMMA AllCaught == ASSUME AnalysisIInv PROVE NothingLeftBehind
<1>1. SUFFICES ASSUME doing \in {"publish", "probe"}, refreshed, NEW b \in PriceBand, NEW d \in 1..tradeDay,
                      HasFiles(b, d), <<b, d>> \notin excused
               PROVE  bandStatus[b][d].state \in Verdicts
  BY DEF NothingLeftBehind, Verdicts
<1>2. d \in TradeDay /\ d <= tradeDay
  BY <1>1, AnalysisDays DEF AnalysisIInv, AnalysisRest, TradeDay
<1>3. PICK k \in BandDay : k = <<b, d>>
  BY <1>2 DEF BandDay
<1>4. k \in Filed
  BY <1>1, <1>3 DEF Filed
<1>5. PICK q : q = toJudge /\ q = <<>> /\ Caught(Range(q), excused, bandStatus, Filed, tradeDay)
  BY <1>1 DEF AnalysisIInv, AnalysisQueue
<1>6. Range(q) = {}
  BY <1>5 DEF Range
<1>7. k[1] = b /\ k[2] = d
  BY <1>3
<1>8. k \in Range(q) \/ k \in excused \/ bandStatus[k[1]][k[2]].state \in Verdicts
  BY <1>2, <1>4, <1>5, <1>7 DEF Caught
<1>9. QED
  BY <1>1, <1>3, <1>6, <1>7, <1>8

\* The rows of the counted days add up over their sources.
LEMMA SourcesAddUp ==
    ASSUME tradeDay \in Nat, NEW b
    PROVE  SumUp([s \in DOMAIN BySource(b) |-> BySource(b)[s].selected], DOMAIN BySource(b))
               = Tally(b, CountedDays(b)).selected
<1>1. PICK counted, D, C, kind :
          /\ counted = CountedDays(b) /\ D = {DaySource(b, d) : d \in counted}
          /\ C = {d \in counted : row[b][d].state = "evaluated"}
          /\ kind = [d \in C |-> DaySource(b, d)]
  OBVIOUS
<1>2. IsFiniteSet(counted)
  <2>1. counted \subseteq 1..tradeDay
    BY <1>1 DEF CountedDays
  <2>2. IsFiniteSet(1..tradeDay)
    BY FS_Interval
  <2>3. QED
    BY <2>1, <2>2, FS_Subset
<1>3. IsFiniteSet(C)
  BY <1>1, <1>2, FS_Subset
<1>4. IsFiniteSet(D)
  <2>1. PICK f : f = [d \in counted |-> DaySource(b, d)]
    OBVIOUS
  <2>2. f \in Surjection(counted, D)
    BY <1>1, <2>1 DEF Surjection
  <2>3. QED
    BY <1>2, <2>2, FS_Surjection
<1>5. kind \in [C -> D]
  BY <1>1
<1>6. PICK parts : parts = BySource(b)
  OBVIOUS
<1>7. DOMAIN parts = D
  BY <1>1, <1>6 DEF BySource
<1>8. PICK v : v = [s \in D |-> parts[s].selected]
  OBVIOUS
<1>9. ASSUME NEW s \in D PROVE v[s] = Cardinality({c \in C : kind[c] = s})
  <2>1. PICK days : days = {d \in counted : DaySource(b, d) = s}
    OBVIOUS
  <2>2. parts[s] = Tally(b, days)
    BY <1>1, <1>6, <2>1 DEF BySource
  <2>3. Tally(b, days).selected = Cardinality({d \in days : row[b][d].state = "evaluated"})
    BY DEF Tally
  <2>4. {d \in days : row[b][d].state = "evaluated"} = {c \in C : kind[c] = s}
    BY <1>1, <2>1
  <2>5. QED
    BY <1>8, <2>2, <2>3, <2>4
<1>10. v \in [D -> Int]
  <2>1. ASSUME NEW s \in D PROVE v[s] \in Int
    <3>1. PICK T : T = {c \in C : kind[c] = s}
      OBVIOUS
    <3>2. Cardinality(T) \in Nat
      BY <1>3, <3>1, FS_Subset, FS_CardinalityType
    <3>3. QED
      BY <1>9, <3>1, <3>2
  <2>2. QED
    BY <1>8, <2>1
<1>11. SumOver(v, D) = Cardinality(C)
  BY <1>3, <1>4, <1>5, <1>9, <1>10, SumOfCounts
<1>12. Tally(b, CountedDays(b)).selected = Cardinality(C)
  BY <1>1 DEF Tally
<1>13. SumUp(v, D) = SumOver(v, D)
  BY DEF SumUp, SumOver
<1>14. QED
  BY <1>6, <1>7, <1>8, <1>11, <1>12, <1>13

LEMMA ChosenEvaluated == ASSUME NEW b, NEW d, Chosen(b, d) = "chosen" PROVE State(b, d) = "evaluated"
BY DEF State, Unscreened

LEMMA DaysTallied == ASSUME AnalysisIInv PROVE TallyAgrees
<1>1. tradeDay \in Nat /\ 1..tradeDay \subseteq TradeDay
  BY AnalysisDays DEF AnalysisIInv, AnalysisRest
<1>2. ASSUME NEW b \in PriceBand, NEW d \in 1..tradeDay
      PROVE  /\ d \in CountedDays(b) => DaySource(b, d) = Origin(b, d)
             /\ bandStatus[b][d].state \notin {"none", "cache_update_failed"} =>
                   (ActivityOf(b, d) = "missing" <=> d \in MissingDays(b))
  <2>1. PICK k \in BandDay : d \in TradeDay /\ k = <<b, d>>
    BY <1>1 DEF BandDay
  <2>2. ASSUME d \in CountedDays(b) PROVE DaySource(b, d) = Origin(b, d)
    <3>1. row[b][d] # None /\ ReadState(b, d) \in {"none", "evaluated"}
      BY <2>2 DEF CountedDays
    <3>2. bandStatus[b][d] \in {None, AllTold[k]}
      <4>1. bandStatus[b][d] \in {None, Marked, AllTold[k]}
        BY <2>1, RowsTold
      <4>2. bandStatus[b][d] # Marked
        BY <2>1, <3>1, StateRead
      <4>3. QED
        BY <4>1, <4>2
    <3>3. row[b][d].told = AllTold[k]
      BY <2>1, <3>1, RowsTold
    <3>4. AllTold[k].source = Origin(b, d)
      BY <2>1, ToldType
    <3>5. QED
      BY <3>2, <3>3, <3>4 DEF DaySource
  <2>3. ASSUME bandStatus[b][d].state \notin {"none", "cache_update_failed"}
        PROVE  ActivityOf(b, d) = "missing" <=> d \in MissingDays(b)
    <3>1. bandStatus[b][d] = AllTold[k]
      BY <2>1, <2>3, RowsTold, NoneAndMarked
    <3>2. ReadState(b, d) = State(b, d) /\ State(b, d) \in Verdicts
      BY <2>1, <3>1, StateRead
    <3>3. d \in MissingDays(b) <=> State(b, d) = "selection_missing"
      BY <3>2 DEF MissingDays, Verdicts
    <3>4. State(b, d) = "selection_missing" <=> Chosen(b, d) \in {"absent", "halted"} \/ Unscreened(b, d)
      <4>1. PICK c : c = Chosen(b, d)
        OBVIOUS
      <4>2. CASE c \in {"absent", "halted"} \/ Unscreened(b, d)
        <5>1. c # "chosen"
          BY <4>1, <4>2 DEF Unscreened
        <5>2. State(b, d) = "selection_missing"
          BY <4>1, <4>2, <5>1 DEF State
        <5>3. QED
          BY <4>1, <4>2, <5>2
      <4>3. CASE ~(c \in {"absent", "halted"} \/ Unscreened(b, d)) /\ c = "chosen"
        <5>1. State(b, d) = "evaluated"
          BY <4>1, <4>3, ChosenEvaluated
        <5>2. QED
          BY <4>1, <4>3, <5>1
      <4>4. CASE ~(c \in {"absent", "halted"} \/ Unscreened(b, d)) /\ c # "chosen"
        BY <4>1, <4>4 DEF State
      <4>5. QED
        BY <4>1, <4>2, <4>3, <4>4
    <3>5. ActivityOf(b, d) = "missing" <=> Chosen(b, d) \in {"absent", "halted"} \/ Unscreened(b, d)
      BY <3>2, <3>4 DEF ActivityOf
    <3>6. QED
      BY <3>3, <3>4, <3>5
  <2>4. QED
    BY <2>2, <2>3
<1>3. ASSUME NEW b \in PriceBand
      PROVE  /\ CountedDays(b) \cap (MissingDays(b) \cup EmptyDays(b)) = {} /\ MissingDays(b) \cap EmptyDays(b) = {}
             /\ \A d \in 1..tradeDay : bandStatus[b][d].state \notin {"none", "cache_update_failed"} =>
                    (ActivityOf(b, d) = "missing") = (d \in MissingDays(b))
             /\ \A d \in CountedDays(b) : DaySource(b, d) = Origin(b, d)
  <2>1. CountedDays(b) \cap (MissingDays(b) \cup EmptyDays(b)) = {} /\ MissingDays(b) \cap EmptyDays(b) = {}
    BY DEF CountedDays, MissingDays, EmptyDays
  <2>2. CountedDays(b) \subseteq 1..tradeDay
    BY DEF CountedDays
  <2>3. ASSUME NEW d \in 1..tradeDay, bandStatus[b][d].state \notin {"none", "cache_update_failed"}
        PROVE  (ActivityOf(b, d) = "missing") = (d \in MissingDays(b))
    BY <1>2, <2>3
  <2>4. \A d \in CountedDays(b) : DaySource(b, d) = Origin(b, d)
    BY <1>2, <2>2
  <2>5. QED
    BY <2>1, <2>3, <2>4
<1>4. QED
  BY <1>1, <1>3, SourcesAddUp DEF TallyAgrees

LEMMA AnalysisTyped == ASSUME AnalysisIInv PROVE AnalysisTypeOK
<1>1. Max({REFRESHES, PROBES}) \in {REFRESHES, PROBES} /\ \A i \in {REFRESHES, PROBES} : Max({REFRESHES, PROBES}) >= i
  <2>1. PICK n \in Nat, S \in SUBSET Nat : n = REFRESHES + PROBES /\ S = {REFRESHES, PROBES}
    <3>1. REFRESHES + PROBES \in Nat /\ {REFRESHES, PROBES} \in SUBSET Nat
      BY AnalysisConstants
    <3>2. QED
      BY <3>1
  <2>2. S \in SUBSET (0..n) /\ S # {}
    BY <2>1, AnalysisConstants
  <2>3. Max(S) \in S /\ \A i \in S : Max(S) >= i
    BY <2>2, Largest
  <2>4. QED
    BY <2>1, <2>3
<1>2. PICK m : m = Max({REFRESHES, PROBES})
  OBVIOUS
<1>3. m \in Nat /\ m >= REFRESHES /\ m >= PROBES
  BY <1>1, <1>2, AnalysisConstants
<1>4. attempt \in Nat /\ (attempt < REFRESHES \/ attempt < PROBES \/ attempt < 1)
  BY DEF AnalysisIInv, AnalysisRest
<1>5. attempt \in 0..m
  BY <1>3, <1>4, AnalysisConstants
<1>6. {cached, excused, latest} \subseteq SUBSET (PriceBand \X TradeDay)
  BY DEF AnalysisIInv, AnalysisRest, BandDay
<1>7. QED
  BY <1>2, <1>5, <1>6 DEF AnalysisTypeOK, AnalysisIInv, AnalysisRest

\* The analysis is always sound: the status files tell what the rows tell, a selection is judged for good
\* only on bars that were there, an evaluated day keeps its row, no day is left behind by a run whose
\* update worked, a publication is announced of a report that is there, and what the report counts adds up.
THEOREM AlwaysAnalysedSoundly == AnalysisSpec => [](AnalysisTypeOK /\ AnalysisSound)
<1>1. AnalysisInit => AnalysisIInv
  BY AnalysisStart
<1>2. AnalysisIInv /\ [AnalysisNext]_analysisVars => AnalysisIInv'
  BY AnalysisStep
<1>3. AnalysisIInv => AnalysisTypeOK /\ AnalysisSound
  BY AnalysisTyped, RowsAndStatus, AllCaught, DaysTallied DEF AnalysisSound, AnnouncedTruly, AnalysisIInv, AnalysisSite
<1>4. QED
  BY <1>1, <1>2, <1>3, PTL DEF AnalysisSpec

-----------------------------------------------------------------------------
(* The recomputation of the profits in the reports (ReportRecompute) *)

Account == [cash : Int, held : Nat, cost : Int, price : Nat, pnl : Int, pnlDay : 0..4,
            realized : [ReportDay -> Int]]

LEMMA RecomputeConstants ==
    INITIAL_CASH \in Int /\ MaxRecomputes \in Nat /\ MaxRecomputeDeaths \in Nat
BY RecomputeAssumption

LEMMA HistoriesInOrder ==
    ASSUME NEW q \in Histories
    PROVE  q \in Seq(HistoryOrder) /\ \A i \in 1..Len(q), j \in 1..Len(q) : i < j => q[i].day <= q[j].day
<1>1. /\ q \in Seq(HistoryOrder)
      /\ \A i \in DOMAIN q : \A j \in DOMAIN q : i < j => q[i].day <= q[j].day
  BY RecomputeAssumption
<1>2. DOMAIN q = 1..Len(q)
  BY <1>1
<1>3. QED
  BY <1>1, <1>2

\* An order that is filled gains what the money and the stock do.
LEMMA FilledKeeps ==
    ASSUME NEW c \in Account, NEW o \in HistoryOrder, NEW fee \in Nat
    PROVE  /\ Filled(c, o, fee) \in Account
           /\ Filled(c, o, fee).realized = c.realized /\ Filled(c, o, fee).pnlDay = o.day
           /\ Filled(c, o, fee).cash + Filled(c, o, fee).cost
                  = c.cash + c.cost + Filled(c, o, fee).pnl - PnlOf(c, o.day)
<1>1. PICK price, value, charge, share, known :
          /\ price = (IF o.price > 0 THEN o.price ELSE c.price)
          /\ value = o.qty * price
          /\ charge = (value * fee) \div 10
          /\ share = (IF c.held = 0 THEN 0 ELSE (c.cost * o.qty) \div c.held)
          /\ known = [c EXCEPT !.price = price, !.pnl = PnlOf(c, o.day), !.pnlDay = o.day]
  OBVIOUS
<1>2. o.day \in 1..4 /\ o.qty \in Nat /\ o.price \in Nat
  BY DEF HistoryOrder, ReportDay
<1>3. c.cash \in Int /\ c.held \in Nat /\ c.cost \in Int /\ c.price \in Nat /\ c.pnl \in Int
  BY DEF Account
<1>4. price \in Nat
  BY <1>1, <1>2, <1>3
<1>5. value \in Nat
  BY <1>1, <1>2, <1>4
<1>6. charge \in Int
  BY <1>1, <1>5
<1>7. share \in Int
  <2>1. c.cost * o.qty \in Int
    BY <1>2, <1>3
  <2>2. QED
    BY <1>1, <1>3, <2>1
<1>8. PnlOf(c, o.day) \in Int
  BY <1>3 DEF PnlOf
<1>9. /\ known \in Account /\ known.realized = c.realized /\ known.pnlDay = o.day /\ known.pnl = PnlOf(c, o.day)
      /\ known.cash = c.cash /\ known.cost = c.cost /\ known.held = c.held
  <2>1. known = [c EXCEPT !.price = price, !.pnl = PnlOf(c, o.day), !.pnlDay = o.day]
    BY <1>1
  <2>2. PICK p \in Int, on \in 0..4 : p = PnlOf(c, o.day) /\ on = o.day
    BY <1>2, <1>8
  <2>3. known = [c EXCEPT !.price = price, !.pnl = p, !.pnlDay = on]
    BY <2>1, <2>2
  <2>4. /\ known \in Account /\ known.realized = c.realized /\ known.pnlDay = on /\ known.pnl = p
        /\ known.cash = c.cash /\ known.cost = c.cost /\ known.held = c.held
    BY <1>4, <2>3 DEF Account
  <2>5. QED
    BY <2>2, <2>4
<1>10. PICK f : f = Filled(c, o, fee)
  OBVIOUS
<1>11. f = (CASE o.side = "BUY" /\ c.cash >= value + charge ->
                   [known EXCEPT !.cash = known.cash - value - charge, !.held = known.held + o.qty,
                                 !.cost = known.cost + value + charge]
              [] o.side = "SELL" /\ c.held >= o.qty ->
                   [known EXCEPT !.cash = known.cash + value - charge, !.held = known.held - o.qty,
                                 !.cost = known.cost - share, !.pnl = known.pnl + value - charge - share]
              [] OTHER -> known)
  BY <1>1, <1>10, Zenon DEF Filled
<1>12. CASE o.side = "BUY" /\ c.cash >= value + charge
  <2>0. PICK cash \in Int, held \in Nat, cost \in Int :
            /\ cash = known.cash - value - charge /\ held = known.held + o.qty /\ cost = known.cost + value + charge
    BY <1>2, <1>3, <1>5, <1>6, <1>9
  <2>1. f = [known EXCEPT !.cash = cash, !.held = held, !.cost = cost, !.pnl = known.pnl]
    <3>1. f = [known EXCEPT !.cash = cash, !.held = held, !.cost = cost]
      BY <1>11, <1>12, <2>0
    <3>2. QED
      BY <1>9, <3>1 DEF Account
  <2>2. /\ f \in Account /\ f.realized = known.realized /\ f.pnlDay = known.pnlDay /\ f.pnl = known.pnl
        /\ f.cash = known.cash - value - charge /\ f.cost = known.cost + value + charge
    <3>1. known \in Account /\ known.pnl \in Int
      BY <1>8, <1>9
    <3>2. /\ f \in Account /\ f.realized = known.realized /\ f.pnlDay = known.pnlDay /\ f.pnl = known.pnl
          /\ f.cash = cash /\ f.cost = cost
      BY <2>1, <3>1 DEF Account
    <3>3. QED
      BY <2>0, <3>2
  <2>3. QED
    BY <1>3, <1>5, <1>6, <1>8, <1>9, <1>10, <2>2
<1>13. CASE o.side = "SELL" /\ c.held >= o.qty
  <2>2. PICK cash \in Int, held \in Nat, cost \in Int, pnl \in Int :
            /\ cash = known.cash + value - charge /\ held = known.held - o.qty /\ cost = known.cost - share
            /\ pnl = known.pnl + value - charge - share
    BY <1>2, <1>3, <1>5, <1>6, <1>7, <1>8, <1>9, <1>13
  <2>1. f = [known EXCEPT !.cash = cash, !.held = held, !.cost = cost, !.pnl = pnl]
    <3>1. o.side # "BUY"
      BY <1>13
    <3>2. QED
      BY <1>11, <1>13, <2>2, <3>1
  <2>3. /\ f \in Account /\ f.realized = known.realized /\ f.pnlDay = known.pnlDay
        /\ f.pnl = known.pnl + value - charge - share
        /\ f.cash = known.cash + value - charge /\ f.cost = known.cost - share
    <3>1. known \in Account
      BY <1>9
    <3>2. /\ f \in Account /\ f.realized = known.realized /\ f.pnlDay = known.pnlDay /\ f.pnl = pnl
          /\ f.cash = cash /\ f.cost = cost
      BY <2>1, <3>1 DEF Account
    <3>3. QED
      BY <2>2, <3>2
  <2>4. QED
    BY <1>3, <1>5, <1>6, <1>7, <1>8, <1>9, <1>10, <2>3
<1>14. CASE ~(o.side = "BUY" /\ c.cash >= value + charge) /\ ~(o.side = "SELL" /\ c.held >= o.qty)
  <2>1. f = known
    BY <1>11, <1>14
  <2>2. QED
    BY <1>3, <1>8, <1>9, <1>10, <2>1
<1>15. QED
  BY <1>12, <1>13, <1>14

\* The profits of the days, the money and the stock agree; the days to come have none yet.
Balanced(c) ==
    /\ c.cash - INITIAL_CASH = SumOver(c.realized, ReportDay) - c.cost
    /\ \A d \in ReportDay : /\ d = c.pnlDay => c.realized[d] = c.pnl
                            /\ d > c.pnlDay => c.realized[d] = 0

LEMMA DaysFinite == IsFiniteSet(ReportDay) /\ ReportDay = 1..4
<1>1. ReportDay = 1..4
  BY DEF ReportDay
<1>2. 1 \in Int /\ 4 \in Int /\ \A i, j \in Int : IsFiniteSet(i..j)
  BY FS_Interval
<1>3. QED
  BY <1>1, <1>2

LEMMA OrderBalances ==
    ASSUME NEW c \in Account, Balanced(c), NEW o \in HistoryOrder, NEW fee \in Nat, c.pnlDay <= o.day
    PROVE  /\ ReplayedOrders(c, o, fee) \in Account /\ Balanced(ReplayedOrders(c, o, fee))
           /\ ReplayedOrders(c, o, fee).pnlDay \in {c.pnlDay, o.day}
<1>1. CASE o.price = 0 /\ c.price = 0
  <2>1. ReplayedOrders(c, o, fee) = c
    BY <1>1 DEF ReplayedOrders
  <2>2. QED
    BY <2>1
<1>2. CASE ~(o.price = 0 /\ c.price = 0)
  <2>1. PICK f : f = Filled(c, o, fee)
    OBVIOUS
  <2>2. /\ f \in Account /\ f.realized = c.realized /\ f.pnlDay = o.day
        /\ f.cash + f.cost = c.cash + c.cost + f.pnl - PnlOf(c, o.day)
    BY <2>1, FilledKeeps
  <2>3. PICK r : r = ReplayedOrders(c, o, fee)
    OBVIOUS
  <2>4. r = [f EXCEPT !.realized[o.day] = f.pnl]
    BY <1>2, <2>1, <2>3 DEF ReplayedOrders
  <2>5. PICK w : w = [f.realized EXCEPT ![o.day] = f.pnl]
    OBVIOUS
  <2>6. o.day \in ReportDay /\ o.day \in Int /\ o.day # 0
    BY DEF HistoryOrder, ReportDay
  <2>7. f.realized \in [ReportDay -> Int] /\ f.pnl \in Int /\ f.cash \in Int /\ f.cost \in Int
    BY <2>2 DEF Account
  <2>8. w \in [ReportDay -> Int] /\ w[o.day] = f.pnl /\ \A d \in ReportDay \ {o.day} : w[d] = c.realized[d]
    BY <2>2, <2>5, <2>6, <2>7
  <2>9. /\ r \in Account /\ r.realized = w /\ r.pnlDay = o.day /\ r.pnl = f.pnl /\ r.cash = f.cash /\ r.cost = f.cost
    BY <2>2, <2>4, <2>5, <2>8 DEF Account
  <2>10. c.realized[o.day] = PnlOf(c, o.day)
    <3>1. CASE c.pnlDay = o.day
      BY <2>6, <3>1 DEF PnlOf, Balanced
    <3>2. CASE c.pnlDay # o.day
      <4>1. o.day > c.pnlDay
        BY <2>6, <3>2 DEF Account
      <4>2. QED
        BY <2>6, <3>2, <4>1 DEF PnlOf, Balanced
    <3>3. QED
      BY <3>1, <3>2
  <2>11. PICK before, after : before = SumOver(c.realized, ReportDay) /\ after = SumOver(w, ReportDay)
    OBVIOUS
  <2>12. before \in Int /\ after = before + f.pnl - c.realized[o.day] /\ c.realized[o.day] \in Int
    <3>1. c.realized \in [ReportDay -> Int]
      BY <2>2, <2>7
    <3>2. PICK v, a : v = c.realized /\ a = o.day
      OBVIOUS
    <3>3. v \in [ReportDay -> Int] /\ a \in ReportDay /\ \A s \in ReportDay \ {a} : v[s] = w[s]
      BY <2>6, <2>8, <3>1, <3>2
    <3>4. SumOver(w, ReportDay) = SumOver(v, ReportDay) + w[a] - v[a]
      BY <2>8, <3>3, DaysFinite, SumDiffers
    <3>5. SumOver(v, ReportDay) \in Int
      BY <3>3, DaysFinite, SumType
    <3>6. QED
      BY <2>8, <2>11, <3>2, <3>3, <3>4, <3>5
  <2>13. r.cash - INITIAL_CASH = after - r.cost
    <3>1. c.cash - INITIAL_CASH = before - c.cost /\ c.cash \in Int /\ c.cost \in Int
      BY <2>11 DEF Balanced, Account
    <3>2. PICK p : p = PnlOf(c, o.day) /\ p \in Int /\ after = before + f.pnl - p
      BY <2>10, <2>12
    <3>3. f.cash + f.cost = c.cash + c.cost + f.pnl - p
      BY <2>2, <3>2
    <3>4. PICK i \in Int, m \in Int, n \in Int, k \in Int, cc \in Int, ck \in Int, fp \in Int :
            /\ i = INITIAL_CASH /\ m = before /\ n = f.cash /\ k = f.cost /\ cc = c.cash /\ ck = c.cost /\ fp = f.pnl
      BY <2>7, <2>12, <3>1, RecomputeConstants
    <3>5. f.cash - INITIAL_CASH = after - f.cost
      <4>1. n + k = cc + ck + fp - p /\ cc - i = m - ck /\ after = m + fp - p
        BY <3>1, <3>2, <3>3, <3>4
      <4>2. n - i = after - k
        BY <3>2, <3>4, <4>1
      <4>3. QED
        BY <3>4, <4>2
    <3>6. QED
      BY <2>9, <3>5
  <2>14. ASSUME NEW d \in ReportDay
         PROVE  /\ d = r.pnlDay => r.realized[d] = r.pnl
                /\ d > r.pnlDay => r.realized[d] = 0
    <3>1. d \in Int /\ c.pnlDay \in Int
      BY DaysFinite DEF Account
    <3>2. d > o.day => c.realized[d] = 0
      BY <2>6, <3>1 DEF Balanced
    <3>3. QED
      BY <2>6, <2>8, <2>9, <3>1, <3>2
  <2>15. QED
    BY <2>3, <2>9, <2>11, <2>13, <2>14 DEF Balanced
<1>3. QED
  BY <1>1, <1>2

LEMMA ReplayedTyped ==
    ASSUME NEW c \in Account, NEW o \in HistoryOrder, NEW fee \in Nat
    PROVE  ReplayedOrders(c, o, fee) \in Account
<1>1. PICK f \in Account : f = Filled(c, o, fee)
  BY FilledKeeps
<1>2. PICK w : w = [f.realized EXCEPT ![o.day] = f.pnl]
  OBVIOUS
<1>3. w \in [ReportDay -> Int]
  BY <1>2 DEF Account, HistoryOrder
<1>4. [f EXCEPT !.realized = w] \in Account
  BY <1>3 DEF Account
<1>5. [f EXCEPT !.realized[o.day] = f.pnl] = [f EXCEPT !.realized = w]
  BY <1>2
<1>6. QED
  BY <1>1, <1>4, <1>5 DEF ReplayedOrders

\* What the replay of the history comes to.
LEMMA ReplayTold ==
    ASSUME orderHistory \in Histories, feeTenths \in Nat
    PROVE  ReplayHistory \in Account /\ Balanced(ReplayHistory)
<1>1. PICK q, fee : q = orderHistory /\ fee = feeTenths
  OBVIOUS
<1>2. /\ q \in Seq(HistoryOrder) /\ fee \in Nat
      /\ \A i \in 1..Len(q), j \in 1..Len(q) : i < j => q[i].day <= q[j].day
  BY <1>1, HistoriesInOrder
<1>3. PICK n \in Nat : n = Len(q)
  BY <1>2
<1>4. DOMAIN q = 1..n /\ q \in [1..n -> HistoryOrder]
  BY <1>2, <1>3
<1>5. \A i \in 1..n : q[i] \in HistoryOrder /\ q[i].day \in 1..4
  BY <1>4 DEF HistoryOrder, ReportDay
<1> DEFINE B == Account
           T == HistoryOrder
           Waits(i, c) == \A j \in 1..n : j > i => c.pnlDay <= q[j].day
           h == [ce \in B \X T |-> ReplayedOrders(ce[1], ce[2], fee)]
           P == {ic \in (0..n) \X B : Balanced(ic[2]) /\ Waits(ic[1], ic[2])}
           g == CHOOSE f : f = [S \in SUBSET (DOMAIN q) |->
                   IF S = {} THEN Unplayed ELSE ReplayedOrders(f[S \ {Max(S)}], q[Max(S)], fee)]
<1>6. ReplayHistory = g[DOMAIN q]
  BY <1>1 DEF ReplayHistory, FoldLeft, MapThenFoldSet
<1>7. h \in [B \X T -> B] /\ \A c \in B, e \in T : h[<<c, e>>] = ReplayedOrders(c, e, fee)
  BY <1>2, ReplayedTyped
<1>8. Unplayed \in B /\ <<0, Unplayed>> \in P
  <2>1. PICK v : v = [d \in ReportDay |-> 0]
    OBVIOUS
  <2>2. v \in [ReportDay -> Int] /\ SumOver(v, ReportDay) = 0
    BY <2>1, DaysFinite, SumOfNothing
  <2>3. Unplayed = [cash |-> INITIAL_CASH, held |-> 0, cost |-> 0, price |-> 0, pnl |-> 0, pnlDay |-> 0, realized |-> v]
    BY <2>1 DEF Unplayed
  <2>4. Unplayed \in B
    BY <2>2, <2>3, RecomputeConstants DEF Account
  <2>5. Balanced(Unplayed)
    <3>1. INITIAL_CASH - INITIAL_CASH = 0 - 0
      BY RecomputeConstants
    <3>2. Unplayed.realized = v /\ Unplayed.cash = INITIAL_CASH /\ Unplayed.cost = 0 /\ Unplayed.pnl = 0 /\ Unplayed.pnlDay = 0
      BY <2>3
    <3>3. QED
      BY <2>1, <2>2, <3>1, <3>2 DEF Balanced
  <2>6. Waits(0, Unplayed)
    BY <1>5, <2>3
  <2>7. QED
    BY <2>4, <2>5, <2>6
<1> HIDE DEF h
<1>9. PICK f \in [SUBSET (1..n) -> B] : Folds(f, h, Unplayed, q, n)
  BY <1>4, <1>7, <1>8, FoldsExist
<1>10. f = [S \in SUBSET (DOMAIN q) |->
              IF S = {} THEN Unplayed ELSE ReplayedOrders(f[S \ {Max(S)}], q[Max(S)], fee)]
  <2>1. ASSUME NEW S \in SUBSET (1..n)
        PROVE  f[S] = IF S = {} THEN Unplayed ELSE ReplayedOrders(f[S \ {Max(S)}], q[Max(S)], fee)
    <3>1. CASE S = {}
      BY <1>9, <3>1 DEF Folds
    <3>2. CASE S # {}
      <4>0. S \in SUBSET (0..n)
        OBVIOUS
      <4>1. Max(S) \in S
        BY <3>2, <4>0, Largest
      <4>2. f[S \ {Max(S)}] \in B /\ q[Max(S)] \in T
        BY <1>4, <1>9, <4>1
      <4>3. f[S] = h[<<f[S \ {Max(S)}], q[Max(S)]>>]
        BY <1>9, <3>2 DEF Folds
      <4>4. QED
        BY <1>7, <3>2, <4>2, <4>3
    <3>3. QED
      BY <3>1, <3>2
  <2>2. QED
    BY <1>4, <1>9, <2>1
<1>11. g = [S \in SUBSET (DOMAIN q) |->
              IF S = {} THEN Unplayed ELSE ReplayedOrders(g[S \ {Max(S)}], q[Max(S)], fee)]
  BY <1>10
<1> HIDE DEF g
<1>12. Carries(P, B, T, g, h, Unplayed, q, n)
  <2>1. g[{}] = Unplayed
    BY <1>11
  <2>2. ASSUME NEW S \in SUBSET (1..n), S # {}, g[S \ {Max(S)}] \in B
        PROVE  g[S] = h[<<g[S \ {Max(S)}], q[Max(S)]>>]
    <3>0. S \in SUBSET (0..n)
      OBVIOUS
    <3>1. Max(S) \in S
      BY <2>2, <3>0, Largest
    <3>2. q[Max(S)] \in T
      BY <1>4, <3>1
    <3>3. g[S] = ReplayedOrders(g[S \ {Max(S)}], q[Max(S)], fee)
      BY <1>4, <1>11, <2>2
    <3>4. QED
      BY <1>7, <2>2, <3>2, <3>3
  <2>3. ASSUME NEW i \in 1..n, NEW c \in B, <<i - 1, c>> \in P PROVE <<i, h[<<c, q[i]>>]>> \in P
    <3>1. q[i] \in T /\ Balanced(c) /\ \A j \in 1..n : j > i - 1 => c.pnlDay <= q[j].day
      BY <1>4, <2>3
    <3>2. PICK r : r = ReplayedOrders(c, q[i], fee) /\ r = h[<<c, q[i]>>]
      BY <1>7, <3>1
    <3>3. c.pnlDay <= q[i].day
      BY <3>1
    <3>4. r \in B /\ Balanced(r) /\ r.pnlDay \in {c.pnlDay, q[i].day}
      BY <1>2, <3>1, <3>2, <3>3, OrderBalances
    <3>5. ASSUME NEW j \in 1..n, j > i PROVE r.pnlDay <= q[j].day
      <4>1. c.pnlDay <= q[j].day
        BY <3>1, <3>5
      <4>2. q[i].day <= q[j].day
        BY <1>2, <1>3, <3>5
      <4>3. QED
        BY <3>4, <4>1, <4>2
    <3>6. QED
      BY <3>2, <3>4, <3>5
  <2>4. QED
    BY <1>4, <1>7, <1>8, <2>1, <2>2, <2>3 DEF Carries
<1>13. g[1..n] \in B /\ <<n, g[1..n]>> \in P
  BY <1>12, FoldKeeps
<1>14. QED
  BY <1>4, <1>6, <1>13

-----------------------------------------------------------------------------
(* The reports *)

ReportPeriod == 1..3
DailyReport == [there : BOOLEAN, total : Int, unrealized : Int, first : Int, recomputed : BOOLEAN]
PeriodReport == [rows : [ReportDay -> Int], known : SUBSET ReportDay, total : Int, prev : Int]

\* A sum that added up at first, over all the days of the period that are there.
Whole(first, p) ==
    /\ first.period[p].total = SumRows(first.period[p].rows, first.period[p].known)
    /\ \A d \in Span(p) : first.daily[d].there => d \in first.period[p].known

\* Reports that may come of the first ones.
ReportsOf(dd, pp, first) ==
    /\ dd \in [ReportDay -> DailyReport] /\ pp \in [ReportPeriod -> PeriodReport]
    /\ \A d \in ReportDay : /\ dd[d].there = first.daily[d].there
                            /\ dd[d].first = first.daily[d].total
                            /\ dd[d].recomputed \/ dd[d].total = first.daily[d].total
    /\ \A p \in ReportPeriod : pp[p].known = first.period[p].known /\ pp[p].known \subseteq Span(p)

\* The sums are those of the days.
FollowsFrom(pp, dd, p) ==
    /\ \A d \in pp[p].known : pp[p].rows[d] = dd[d].total
    /\ pp[p].total = SumRows(pp[p].rows, pp[p].known)

Settled(dd, pp, first) ==
    \A p \in ReportPeriod : Whole(first, p) =>
        /\ FollowsFrom(pp, dd, p)
        /\ Spans[p].before # 0 /\ Whole(first, Spans[p].before) => pp[p].prev = pp[Spans[p].before].total

\* What is still to be written leads to the reports dd and pp.
LeadsTo(left, days, sums, dd, pp) ==
    /\ \A e \in left :
          \/ \E d \in ReportDay : e.file = DailyFile(d) /\ e.new = <<dd[d]>>
          \/ \E p \in ReportPeriod : e.file = PeriodFile(p) /\ e.new = <<pp[p]>>
    /\ \A d \in ReportDay : days[d] = dd[d] \/ \E e \in left : e.file = DailyFile(d)
    /\ \A p \in ReportPeriod : sums[p] = pp[p] \/ \E e \in left : e.file = PeriodFile(p)

Coming(left, days, sums, first, alive) ==
    \E dd, pp : ReportsOf(dd, pp, first) /\ LeadsTo(left, days, sums, dd, pp) /\ (alive => Settled(dd, pp, first))

SavedIn(file, content, t, sides) == [file |-> file, content |-> content] \in sides[t]

\* The first content of a file: of a day, of a period.
FirstDay(first, d) == <<first.daily[d]>>
FirstSum(first, p) == <<first.period[p]>>

\* A file was changed only after its first content was saved.
KeptFirst(days, sums, first, sides) ==
    /\ \A d \in ReportDay : days[d] # first.daily[d] => \E t \in 1..2 : SavedIn(DailyFile(d), FirstDay(first, d), t, sides)
    /\ \A p \in ReportPeriod :
          sums[p] # first.period[p] => \E t \in 1..2 : SavedIn(PeriodFile(p), FirstSum(first, p), t, sides)

\* The files of the plan are saved, or will be: nothing of theirs was saved on this date before.
FileSaved(file, first, sides) ==
    /\ \A d \in ReportDay : file = DailyFile(d) => \E t \in 1..2 : SavedIn(file, FirstDay(first, d), t, sides)
    /\ \A p \in ReportPeriod : file = PeriodFile(p) => \E t \in 1..2 : SavedIn(file, FirstSum(first, p), t, sides)
FileSafe(file, days, sums, first, sides, date) ==
    /\ \A d \in ReportDay : file = DailyFile(d) =>
          days[d] = first.daily[d] \/ \E t \in (1..2) \ {date} : SavedIn(file, FirstDay(first, d), t, sides)
    /\ \A p \in ReportPeriod : file = PeriodFile(p) =>
          sums[p] = first.period[p] \/ \E t \in (1..2) \ {date} : SavedIn(file, FirstSum(first, p), t, sides)
AllSaved(entries, first, sides) == \A e \in entries : FileSaved(e.file, first, sides)
AllSafe(entries, days, sums, first, sides, date) ==
    \A e \in entries : FileSafe(e.file, days, sums, first, sides, date)

Records == [file : ({"daily"} \X ReportDay) \cup ({"period"} \X ReportPeriod),
            new : Seq(DailyReport) \cup Seq(PeriodReport)]

RecomputeRest ==
    /\ orderHistory \in Histories /\ feeTenths \in 1..2
    /\ recomputesLeft \in 0..MaxRecomputes /\ recomputeDeaths \in 0..MaxRecomputeDeaths
    /\ recomputeDate \in 1..2 /\ DOMAIN asides = 1..2
    /\ recompute \in [stage : {"idle", "save_aside", "write"}, due : Seq(Records), plan : Seq(Records)]
    /\ recompute.stage # "idle" => recompute.due # <<>> /\ recompute.plan # <<>>
    /\ Range(recompute.due) \subseteq Range(recompute.plan)

RecomputeReports ==
    /\ ReportsOf(daily, period, reportsAtFirst)
    /\ KeptFirst(daily, period, reportsAtFirst, asides)
    /\ recompute.stage = "idle" /\ recomputeDeaths = 0 => Settled(daily, period, reportsAtFirst)

RecomputePlan ==
    /\ recompute.stage = "save_aside" =>
          /\ Coming(Range(recompute.plan), daily, period, reportsAtFirst, recomputeDeaths = 0)
          /\ AllSafe(Range(recompute.plan), daily, period, reportsAtFirst, asides, recomputeDate)
          /\ \A e \in Range(recompute.plan) : e \in Range(recompute.due) \/ FileSaved(e.file, reportsAtFirst, asides)
    /\ recompute.stage = "write" =>
          /\ Coming(Range(recompute.due), daily, period, reportsAtFirst, recomputeDeaths = 0)
          /\ AllSaved(Range(recompute.plan), reportsAtFirst, asides)

RecomputeIInv == RecomputeRest /\ RecomputeReports /\ RecomputePlan

LEMMA SpanDays ==
    /\ Span(1) = 1..2 /\ Span(2) = 3..4 /\ Span(3) = 1..4
    /\ Spans[1].before = 0 /\ Spans[2].before = 1 /\ Spans[3].before = 0
    /\ \A p \in ReportPeriod : Span(p) \subseteq ReportDay /\ Spans[p].before \in {0, 1}
BY DEF Span, Spans, ReportPeriod, ReportDay

\* The sum of some days.
LEMMA SumOfRows ==
    ASSUME NEW K \in SUBSET ReportDay, NEW v, NEW w, \A d \in K : v[d] \in Int /\ w[d] = v[d]
    PROVE  SumRows(v, K) \in Int /\ SumRows(w, K) = SumRows(v, K)
<1>1. IsFiniteSet(K)
  BY DaysFinite, FS_Subset
<1>2. SumOver(w, K) = SumOver(v, K) /\ SumOver(v, K) \in Int
  BY <1>1, SumOfEqual
<1>3. SumRows(v, K) = SumOver(v, K) /\ SumRows(w, K) = SumOver(w, K)
  BY DEF SumRows, SumUp, SumOver
<1>4. QED
  BY <1>2, <1>3

LEMMA NewTotalTyped ==
    ASSUME RecomputeRest, RecomputeReports, NEW d \in ReportDay
    PROVE  NewTotal(d) \in Int /\ RecomputedReport(d) \in DailyReport
           /\ RecomputedReport(d).total = NewTotal(d) /\ RecomputedReport(d).there = daily[d].there
           /\ RecomputedReport(d).first = reportsAtFirst.daily[d].total /\ RecomputedReport(d).recomputed = TRUE
<1>1. ReplayHistory \in Account
  BY ReplayTold DEF RecomputeRest
<1>2. daily[d] \in DailyReport /\ daily[d].first = reportsAtFirst.daily[d].total
      /\ (daily[d].recomputed \/ daily[d].total = reportsAtFirst.daily[d].total)
  BY DEF RecomputeReports, ReportsOf
<1>3. NewTotal(d) \in Int
  BY <1>1, <1>2 DEF NewTotal, Account, DailyReport
<1>4. FirstTotal(daily[d]) = daily[d].first
  BY <1>2 DEF FirstTotal
<1>5. PICK r, n, f : r = daily[d] /\ n = NewTotal(d) /\ f = FirstTotal(daily[d])
  OBVIOUS
<1>6. RecomputedReport(d) = [r EXCEPT !.total = n, !.first = f, !.recomputed = TRUE]
  BY <1>5 DEF RecomputedReport
<1>7. r \in DailyReport /\ n \in Int /\ f \in Int
  BY <1>2, <1>3, <1>4, <1>5 DEF DailyReport
<1>8. QED
  BY <1>2, <1>3, <1>4, <1>5, <1>6, <1>7 DEF DailyReport

LEMMA PatchedTyped ==
    ASSUME RecomputeRest, RecomputeReports, NEW staged \in SUBSET ReportDay, NEW p \in ReportPeriod
    PROVE  /\ PatchedPeriod(p, staged) \in PeriodReport
           /\ PatchedPeriod(p, staged).known = period[p].known
           /\ PatchedPeriod(p, staged).rows = [d \in ReportDay |->
                  IF d \in staged \cap Span(p) \cap period[p].known THEN NewTotal(d) ELSE period[p].rows[d]]
           /\ PatchedPeriod(p, staged).total = SumRows(PatchedPeriod(p, staged).rows, period[p].known)
<1>1. PICK old, K : old = period[p] /\ K = period[p].known
  OBVIOUS
<1>2. old \in PeriodReport /\ K = old.known
  BY <1>1 DEF RecomputeReports, ReportsOf
<1>3. old.rows \in [ReportDay -> Int] /\ K \in SUBSET ReportDay /\ old.prev \in Int
  BY <1>2 DEF PeriodReport
<1>4. PICK moved : moved = (IF Spans[p].before = 0 THEN {} ELSE staged \cap Span(Spans[p].before))
  OBVIOUS
<1>5. moved \in SUBSET ReportDay
  BY <1>4
<1>6. PICK rows, diff : /\ rows = [d \in ReportDay |-> IF d \in staged \cap Span(p) \cap K THEN NewTotal(d) ELSE old.rows[d]]
                        /\ diff = [d \in moved |-> NewTotal(d) - daily[d].total]
  OBVIOUS
<1>7. \A d \in ReportDay : NewTotal(d) \in Int /\ daily[d].total \in Int
  BY NewTotalTyped DEF RecomputeReports, ReportsOf, DailyReport
<1>8. rows \in [ReportDay -> Int] /\ \A d \in moved : diff[d] \in Int
  BY <1>3, <1>5, <1>6, <1>7
<1>9. PICK total \in Int : total = SumRows(rows, K)
  BY <1>3, <1>8, SumOfRows
<1>10. PICK change \in Int : change = SumRows(diff, moved)
  BY <1>5, <1>8, SumOfRows
<1>11. PatchedPeriod(p, staged) = [old EXCEPT !.rows = rows, !.total = total, !.prev = old.prev + change]
  BY <1>1, <1>4, <1>6, <1>9, <1>10, Zenon DEF PatchedPeriod
<1>12. PICK before \in Int : before = old.prev + change
  BY <1>3, <1>10
<1>13. PICK n : n = PatchedPeriod(p, staged) /\ n = [old EXCEPT !.rows = rows, !.total = total, !.prev = before]
  BY <1>11, <1>12
<1>14. n \in PeriodReport /\ n.known = K /\ n.rows = rows /\ n.total = total
  BY <1>2, <1>8, <1>13 DEF PeriodReport
<1>15. QED
  BY <1>1, <1>6, <1>9, <1>13, <1>14

LEMMA AlignedTyped ==
    ASSUME RecomputeRest, RecomputeReports, NEW staged \in SUBSET ReportDay, NEW p \in ReportPeriod
    PROVE  /\ AlignedPeriod(p, staged) \in PeriodReport
           /\ AlignedPeriod(p, staged).known = period[p].known
           /\ AlignedPeriod(p, staged).rows = PatchedPeriod(p, staged).rows
           /\ AlignedPeriod(p, staged).total = PatchedPeriod(p, staged).total
           /\ Spans[p].before # 0 =>
                 AlignedPeriod(p, staged).prev = PatchedPeriod(Spans[p].before, staged).total
<1>1. PICK n, b : n = PatchedPeriod(p, staged) /\ b = Spans[p].before
  OBVIOUS
<1>2. n \in PeriodReport /\ n.known = period[p].known
  BY <1>1, PatchedTyped
<1>3. CASE b = 0
  <2>1. AlignedPeriod(p, staged) = n
    BY <1>1, <1>3 DEF AlignedPeriod
  <2>2. QED
    BY <1>1, <1>2, <1>3, <2>1
<1>4. CASE b # 0
  <2>1. b \in ReportPeriod
    BY <1>1, <1>4, SpanDays DEF ReportPeriod
  <2>2. PICK m : m = PatchedPeriod(b, staged).total
    OBVIOUS
  <2>3. m \in Int
    BY <2>1, <2>2, PatchedTyped DEF PeriodReport
  <2>4. AlignedPeriod(p, staged) = [n EXCEPT !.prev = m]
    BY <1>1, <1>4, <2>2 DEF AlignedPeriod
  <2>5. PICK r : r = AlignedPeriod(p, staged) /\ r = [n EXCEPT !.prev = m]
    BY <2>4
  <2>6. r \in PeriodReport /\ r.known = n.known /\ r.rows = n.rows /\ r.total = n.total /\ r.prev = m
    BY <1>2, <2>3, <2>5 DEF PeriodReport
  <2>7. QED
    BY <1>1, <1>2, <2>2, <2>5, <2>6
<1>5. QED
  BY <1>3, <1>4

\* Which periods a run will write.
Planned(p, staged, desired) ==
    /\ ~HasProblem(p, staged) /\ <<AlignedPeriod(p, staged)>> # <<period[p]>> /\ InScope(p, desired)
NewDay(d) == [file |-> DailyFile(d), new |-> <<RecomputedReport(d)>>]
NewSum(p, staged) == [file |-> PeriodFile(p), new |-> <<AlignedPeriod(p, staged)>>]

LEMMA PlanHas ==
    ASSUME RecomputeRest, RecomputeReports, NEW desired \in SUBSET ReportDay, NEW staged, staged = Staged(desired)
    PROVE  /\ PlanFor(desired) \in Seq(Records)
           /\ \A e \in Range(PlanFor(desired)) :
                 \/ \E d \in ReportDay : d \in staged /\ e = NewDay(d)
                 \/ \E p \in ReportPeriod : Planned(p, staged, desired) /\ e = NewSum(p, staged)
           /\ \A d \in ReportDay : d \in staged => NewDay(d) \in Range(PlanFor(desired))
           /\ \A p \in ReportPeriod : Planned(p, staged, desired) => NewSum(p, staged) \in Range(PlanFor(desired))
<1>1. staged \in SUBSET ReportDay
  BY DEF Staged
<1>2. PICK daysOf, sumsOf : daysOf = [i \in 1..4 |-> NewDay(i)] /\ sumsOf = [i \in 1..3 |-> NewSum(Sorted[i], staged)]
  OBVIOUS
<1>3. PICK A, Z : /\ A = {entry \in Range(daysOf) : entry.file[2] \in staged}
                  /\ Z = {entry \in Range(sumsOf) : /\ ~HasProblem(entry.file[2], staged)
                                                     /\ entry.new # Content(entry.file)
                                                     /\ InScope(entry.file[2], desired)}
  OBVIOUS
<1>4. PlanFor(desired) = Picked(daysOf, A) \o Picked(sumsOf, Z)
  BY <1>2, <1>3, Zenon DEF PlanFor, NewDay, NewSum
<1>5. ASSUME NEW d \in ReportDay PROVE NewDay(d) \in Records /\ NewDay(d).file[2] = d
  <2>1. PICK r \in DailyReport : r = RecomputedReport(d)
    BY NewTotalTyped
  <2>2. <<r>> \in Seq(DailyReport) /\ DailyFile(d) \in {"daily"} \X ReportDay /\ DailyFile(d)[2] = d
    BY DEF DailyFile
  <2>3. NewDay(d) = [file |-> DailyFile(d), new |-> <<r>>]
    BY <2>1 DEF NewDay
  <2>4. QED
    BY <2>2, <2>3 DEF Records
<1>6. ASSUME NEW p \in ReportPeriod
      PROVE  NewSum(p, staged) \in Records /\ NewSum(p, staged).file[2] = p
             /\ NewSum(p, staged).new = <<AlignedPeriod(p, staged)>> /\ Content(NewSum(p, staged).file) = <<period[p]>>
  <2>1. PICK r \in PeriodReport : r = AlignedPeriod(p, staged)
    BY <1>1, AlignedTyped
  <2>2. /\ <<r>> \in Seq(PeriodReport) /\ PeriodFile(p) \in {"period"} \X ReportPeriod
        /\ PeriodFile(p)[1] = "period" /\ PeriodFile(p)[2] = p
    BY DEF PeriodFile
  <2>3. NewSum(p, staged) = [file |-> PeriodFile(p), new |-> <<r>>]
    BY <2>1 DEF NewSum
  <2>4. Content(PeriodFile(p)) = <<period[p]>>
    BY <2>2 DEF Content
  <2>5. QED
    BY <2>1, <2>2, <2>3, <2>4 DEF Records
<1>7. ReportDay = 1..4 /\ ReportPeriod = 1..3 /\ Sorted = <<3, 1, 2>>
  BY DEF ReportDay, ReportPeriod, Sorted
<1>8. daysOf \in Seq(Records) /\ Len(daysOf) = 4 /\ \A i \in 1..4 : daysOf[i] = NewDay(i)
  BY <1>2, <1>5, <1>7
<1>9. /\ sumsOf \in Seq(Records) /\ Len(sumsOf) = 3 /\ sumsOf[1] = NewSum(3, staged)
      /\ sumsOf[2] = NewSum(1, staged) /\ sumsOf[3] = NewSum(2, staged)
  <2>1. \A i \in 1..3 : Sorted[i] \in ReportPeriod
    BY <1>7
  <2>2. \A i \in 1..3 : sumsOf[i] \in Records
    BY <1>2, <1>6, <2>1
  <2>3. sumsOf \in Seq(Records) /\ Len(sumsOf) = 3
    BY <1>2, <2>2
  <2>4. QED
    BY <1>2, <1>7, <2>3
<1>10. /\ Picked(daysOf, A) \in Seq(Records) /\ Range(Picked(daysOf, A)) = Range(daysOf) \cap A
       /\ Picked(sumsOf, Z) \in Seq(Records) /\ Range(Picked(sumsOf, Z)) = Range(sumsOf) \cap Z
  BY <1>8, <1>9, PickedElements
<1>11. PICK q : q = PlanFor(desired) /\ q \in Seq(Records) /\ Range(q) = (Range(daysOf) \cap A) \cup (Range(sumsOf) \cap Z)
  <2>1. PICK u, w : u = Picked(daysOf, A) /\ w = Picked(sumsOf, Z)
    OBVIOUS
  <2>2. u \in Seq(Records) /\ w \in Seq(Records) /\ Range(u) = Range(daysOf) \cap A /\ Range(w) = Range(sumsOf) \cap Z
    BY <1>10, <2>1
  <2>3. u \o w \in Seq(Records) /\ Range(u \o w) = Range(u) \cup Range(w)
    BY <2>2, RangeOfJoined
  <2>4. PlanFor(desired) = u \o w
    BY <1>4, <2>1
  <2>5. QED
    BY <2>2, <2>3, <2>4
<1>12. \A e : e \in Range(daysOf) <=> \E d \in ReportDay : e = NewDay(d)
  BY <1>7, <1>8, ElementsAt
<1>13. \A e : e \in Range(sumsOf) <=> \E p \in ReportPeriod : e = NewSum(p, staged)
  <2>1. PICK list : list = sumsOf
    OBVIOUS
  <2>2. list \in Seq(Records) /\ Len(list) = 3
    BY <1>9, <2>1
  <2>3. \A e : e \in Range(list) <=> \E i \in 1..Len(list) : list[i] = e
    BY <2>2, ElementsAt
  <2>4. \A e : e \in Range(sumsOf) <=> \E i \in 1..3 : sumsOf[i] = e
    BY <2>1, <2>2, <2>3
  <2>5. QED
    BY <1>7, <1>9, <2>4
<1>14. ASSUME NEW d \in ReportDay PROVE NewDay(d) \in A <=> d \in staged
  BY <1>3, <1>5, <1>12
<1>15. ASSUME NEW p \in ReportPeriod PROVE NewSum(p, staged) \in Z <=> Planned(p, staged, desired)
  BY <1>3, <1>6, <1>13 DEF Planned
<1>16. ASSUME NEW e \in Range(q)
       PROVE  \/ \E d \in ReportDay : d \in staged /\ e = NewDay(d)
              \/ \E p \in ReportPeriod : Planned(p, staged, desired) /\ e = NewSum(p, staged)
  BY <1>11, <1>12, <1>13, <1>14, <1>15
<1>17. ASSUME NEW d \in ReportDay, d \in staged PROVE NewDay(d) \in Range(q)
  BY <1>11, <1>12, <1>14, <1>17
<1>18. ASSUME NEW p \in ReportPeriod, Planned(p, staged, desired) PROVE NewSum(p, staged) \in Range(q)
  BY <1>11, <1>13, <1>15, <1>18
<1>19. QED
  BY <1>11, <1>16, <1>17, <1>18

\* Where a run will lead: the days that are staged anew, the sums that follow from them.
LEMMA PlanLeads ==
    ASSUME RecomputeRest, RecomputeReports, NEW desired \in SUBSET ReportDay
    PROVE  Coming(Range(PlanFor(desired)), daily, period, reportsAtFirst,
                  recompute.stage = "idle" /\ recomputeDeaths = 0)
<1>1. PICK staged : staged = Staged(desired)
  OBVIOUS
<1>2. /\ staged \in SUBSET ReportDay /\ staged \subseteq desired
      /\ \A d \in staged : daily[d].there = TRUE
  <2>1. \A d \in ReportDay : daily[d].there \in BOOLEAN
    BY DEF RecomputeReports, ReportsOf, DailyReport
  <2>2. QED
    BY <1>1, <2>1 DEF Staged
<1>3. PICK P : P = Range(PlanFor(desired))
  OBVIOUS
<1>4. /\ \A e \in P : \/ \E d \in ReportDay : d \in staged /\ e = NewDay(d)
                      \/ \E p \in ReportPeriod : Planned(p, staged, desired) /\ e = NewSum(p, staged)
      /\ \A d \in ReportDay : d \in staged => NewDay(d) \in P
      /\ \A p \in ReportPeriod : Planned(p, staged, desired) => NewSum(p, staged) \in P
  BY <1>1, <1>3, PlanHas
<1>5. PICK dd, pp : /\ dd = [d \in ReportDay |-> IF d \in staged THEN RecomputedReport(d) ELSE daily[d]]
                    /\ pp = [p \in ReportPeriod |-> IF Planned(p, staged, desired) THEN AlignedPeriod(p, staged) ELSE period[p]]
  OBVIOUS
<1>6. PICK first, days, sums : first = reportsAtFirst /\ days = daily /\ sums = period
  OBVIOUS
<1>7. ReportsOf(days, sums, first)
  BY <1>6 DEF RecomputeReports
<1>8. ASSUME NEW d \in ReportDay
      PROVE  /\ dd[d] \in DailyReport /\ dd[d].there = first.daily[d].there /\ dd[d].first = first.daily[d].total
             /\ dd[d].recomputed \/ dd[d].total = first.daily[d].total
             /\ d \in staged => dd[d].total = NewTotal(d)
             /\ d \notin staged => dd[d] = days[d]
  <2>1. CASE d \in staged
    <3>1. dd[d] = RecomputedReport(d)
      BY <1>5, <2>1
    <3>2. days[d].there = first.daily[d].there
      BY <1>7 DEF ReportsOf
    <3>3. QED
      BY <1>6, <2>1, <3>1, <3>2, NewTotalTyped
  <2>2. CASE d \notin staged
    <3>1. dd[d] = days[d]
      BY <1>5, <1>6, <2>2
    <3>2. QED
      BY <1>7, <2>2, <3>1 DEF ReportsOf
  <2>3. QED
    BY <2>1, <2>2
<1>9. ASSUME NEW p \in ReportPeriod
      PROVE  /\ pp[p] \in PeriodReport /\ pp[p].known = first.period[p].known /\ pp[p].known \subseteq Span(p)
             /\ Planned(p, staged, desired) => pp[p] = AlignedPeriod(p, staged)
             /\ ~Planned(p, staged, desired) => pp[p] = sums[p]
  <2>1. sums[p].known = first.period[p].known /\ sums[p].known \subseteq Span(p) /\ sums[p] \in PeriodReport
    BY <1>7 DEF ReportsOf
  <2>2. AlignedPeriod(p, staged) \in PeriodReport /\ AlignedPeriod(p, staged).known = sums[p].known
    BY <1>2, <1>6, AlignedTyped
  <2>3. QED
    BY <1>5, <1>6, <2>1, <2>2
<1>10. ReportsOf(dd, pp, first)
  <2>1. dd \in [ReportDay -> DailyReport] /\ pp \in [ReportPeriod -> PeriodReport]
    BY <1>5, <1>8, <1>9
  <2>2. QED
    BY <1>8, <1>9, <2>1 DEF ReportsOf
<1>11. LeadsTo(P, days, sums, dd, pp)
  <2>1. ASSUME NEW e \in P
        PROVE  \/ \E d \in ReportDay : e.file = DailyFile(d) /\ e.new = <<dd[d]>>
               \/ \E p \in ReportPeriod : e.file = PeriodFile(p) /\ e.new = <<pp[p]>>
    <3>1. CASE \E d \in ReportDay : d \in staged /\ e = NewDay(d)
      <4>1. PICK d \in ReportDay : d \in staged /\ e = NewDay(d)
        BY <3>1
      <4>2. dd[d] = RecomputedReport(d)
        BY <1>5, <4>1
      <4>3. e.file = DailyFile(d) /\ e.new = <<dd[d]>>
        BY <4>1, <4>2 DEF NewDay
      <4>4. QED
        BY <4>3
    <3>2. CASE \E p \in ReportPeriod : Planned(p, staged, desired) /\ e = NewSum(p, staged)
      <4>1. PICK p \in ReportPeriod : Planned(p, staged, desired) /\ e = NewSum(p, staged)
        BY <3>2
      <4>2. pp[p] = AlignedPeriod(p, staged)
        BY <1>9, <4>1
      <4>3. e.file = PeriodFile(p) /\ e.new = <<pp[p]>>
        BY <4>1, <4>2 DEF NewSum
      <4>4. QED
        BY <4>3
    <3>3. QED
      BY <1>4, <3>1, <3>2
  <2>2. ASSUME NEW d \in ReportDay PROVE days[d] = dd[d] \/ \E e \in P : e.file = DailyFile(d)
    <3>1. d \in staged => NewDay(d) \in P /\ NewDay(d).file = DailyFile(d)
      BY <1>4 DEF NewDay
    <3>2. QED
      BY <1>8, <3>1
  <2>3. ASSUME NEW p \in ReportPeriod PROVE sums[p] = pp[p] \/ \E e \in P : e.file = PeriodFile(p)
    <3>1. Planned(p, staged, desired) => NewSum(p, staged) \in P /\ NewSum(p, staged).file = PeriodFile(p)
      BY <1>4 DEF NewSum
    <3>2. QED
      BY <1>9, <3>1
  <2>4. QED
    BY <2>1, <2>2, <2>3 DEF LeadsTo
<1>12. ASSUME recompute.stage = "idle" /\ recomputeDeaths = 0 PROVE Settled(dd, pp, first)
  <2>1. Settled(days, sums, first)
    BY <1>6, <1>12 DEF RecomputeReports
  <2>2. ASSUME NEW p \in ReportPeriod, Whole(first, p)
        PROVE  /\ FollowsFrom(pp, dd, p) /\ pp[p].total = PatchedPeriod(p, staged).total
               /\ \/ pp[p] = AlignedPeriod(p, staged)
                  \/ ~InScope(p, desired)
    <3>1. /\ \A d \in sums[p].known : sums[p].rows[d] = days[d].total
          /\ sums[p].total = SumRows(sums[p].rows, sums[p].known)
      BY <2>1, <2>2 DEF Settled, FollowsFrom
    <3>2. PICK K : K = sums[p].known /\ K \subseteq Span(p) /\ K \subseteq ReportDay /\ Span(p) \subseteq ReportDay
                   /\ sums[p] \in PeriodReport /\ K = first.period[p].known
      BY <1>7, SpanDays DEF ReportsOf, PeriodReport
    <3>3. staged \cap Span(p) \subseteq K
      <4>1. ASSUME NEW d \in staged \cap Span(p) PROVE d \in K
        <5>1. days[d].there = TRUE /\ d \in ReportDay
          BY <1>2, <1>6
        <5>2. first.daily[d].there
          BY <1>7, <5>1 DEF ReportsOf
        <5>3. QED
          BY <2>2, <3>2, <5>2 DEF Whole
      <4>2. QED
        BY <4>1
    <3>4. ~HasProblem(p, staged)
      BY <1>6, <3>1, <3>2, <3>3 DEF HasProblem
    <3>5. PICK n : /\ n = PatchedPeriod(p, staged)
                   /\ n.rows = [d \in ReportDay |-> IF d \in staged \cap Span(p) \cap K THEN NewTotal(d) ELSE sums[p].rows[d]]
                   /\ n.total = SumRows(n.rows, K)
      <4>1. PICK n : n = PatchedPeriod(p, staged)
        OBVIOUS
      <4>2. /\ n.rows = [d \in ReportDay |->
                  IF d \in staged \cap Span(p) \cap period[p].known THEN NewTotal(d) ELSE period[p].rows[d]]
            /\ n.total = SumRows(n.rows, period[p].known)
        BY <1>2, <4>1, PatchedTyped
      <4>3. period[p] = sums[p] /\ period[p].known = K
        BY <1>6, <3>2
      <4>4. QED
        BY <4>1, <4>2, <4>3
    <3>6. PICK a : a = AlignedPeriod(p, staged) /\ a.rows = n.rows /\ a.total = n.total /\ a.known = K
      <4>1. PICK a : a = AlignedPeriod(p, staged)
        OBVIOUS
      <4>2. /\ a.known = period[p].known /\ a.rows = PatchedPeriod(p, staged).rows
            /\ a.total = PatchedPeriod(p, staged).total
        BY <1>2, <4>1, AlignedTyped
      <4>3. period[p].known = K
        BY <1>6, <3>2
      <4>4. QED
        BY <3>5, <4>1, <4>2, <4>3
    <3>7. \A d \in K : n.rows[d] = dd[d].total
      <4>1. ASSUME NEW d \in K PROVE n.rows[d] = dd[d].total
        <5>1. d \in ReportDay /\ d \in Span(p)
          BY <3>2
        <5>2. CASE d \in staged
          BY <1>8, <3>5, <5>1, <5>2
        <5>3. CASE d \notin staged
          BY <1>8, <3>1, <3>2, <3>5, <5>1, <5>3
        <5>4. QED
          BY <5>2, <5>3
      <4>2. QED
        BY <4>1
    <3>8. CASE pp[p] = a
      BY <3>5, <3>6, <3>7, <3>8 DEF FollowsFrom
    <3>9. CASE pp[p] # a
      <4>1. ~Planned(p, staged, desired) /\ pp[p] = sums[p]
        BY <1>9, <3>6, <3>9
      <4>2. ~InScope(p, desired)
        <5>1. <<a>> # <<sums[p]>>
          BY <3>9, <4>1
        <5>2. QED
          BY <1>6, <3>4, <3>6, <4>1, <5>1 DEF Planned
      <4>3. staged \cap Span(p) = {}
        BY <1>2, <4>2 DEF InScope
      <4>4. n.rows = sums[p].rows
        <5>1. sums[p].rows \in [ReportDay -> Int]
          BY <3>2 DEF PeriodReport
        <5>2. QED
          BY <3>5, <4>3, <5>1
      <4>5. QED
        <5>1. FollowsFrom(pp, dd, p)
          <6>1. \A d \in sums[p].known : sums[p].rows[d] = dd[d].total
            BY <3>2, <3>7, <4>4
          <6>2. QED
            BY <3>1, <4>1, <6>1 DEF FollowsFrom
        <5>2. pp[p].total = PatchedPeriod(p, staged).total
          <6>1. sums[p].total = SumRows(sums[p].rows, K)
            BY <3>1, <3>2
          <6>2. n.total = SumRows(sums[p].rows, K)
            BY <3>5, <4>4
          <6>3. QED
            BY <3>5, <4>1, <6>1, <6>2
        <5>3. QED
          BY <4>2, <5>1, <5>2
    <3>10. QED
      BY <3>6, <3>8, <3>9
  <2>3. ASSUME NEW p \in ReportPeriod, Whole(first, p), Spans[p].before # 0, Whole(first, Spans[p].before)
        PROVE  pp[p].prev = pp[Spans[p].before].total
    <3>1. PICK b : b = Spans[p].before /\ b # 0 /\ b \in ReportPeriod
      BY <2>3, SpanDays DEF ReportPeriod
    <3>2. pp[b].total = PatchedPeriod(b, staged).total
      BY <2>2, <2>3, <3>1
    <3>3. CASE pp[p] = AlignedPeriod(p, staged)
      <4>1. AlignedPeriod(p, staged).prev = PatchedPeriod(b, staged).total
        BY <1>2, <3>1, AlignedTyped
      <4>2. QED
        BY <3>1, <3>2, <3>3, <4>1
    <3>4. CASE ~InScope(p, desired)
      <4>1. ~InScope(b, desired)
        <5>1. Spans[b].before = 0
          BY <3>1, SpanDays
        <5>2. Span(b) \cap desired = {}
          BY <3>1, <3>4 DEF InScope
        <5>3. QED
          BY <5>1, <5>2 DEF InScope
      <4>2. pp[p] = sums[p] /\ pp[b] = sums[b]
        BY <1>9, <3>1, <3>4, <4>1 DEF Planned
      <4>3. sums[p].prev = sums[b].total
        BY <2>1, <2>3, <3>1 DEF Settled
      <4>4. QED
        BY <3>1, <4>2, <4>3
    <3>5. QED
      BY <2>2, <2>3, <3>3, <3>4
  <2>4. QED
    BY <2>2, <2>3 DEF Settled
<1>13. Coming(P, days, sums, first, recompute.stage = "idle" /\ recomputeDeaths = 0)
  BY <1>10, <1>11, <1>12 DEF Coming
<1>14. QED
  BY <1>3, <1>6, <1>13

-----------------------------------------------------------------------------
(* The steps *)

LEMMA RestingRuns ==
    /\ Resting \in [stage : {"idle", "save_aside", "write"}, due : Seq(Records), plan : Seq(Records)]
    /\ Resting.stage = "idle" /\ Range(Resting.due) \subseteq Range(Resting.plan)
<1>1. PICK q : q = <<>>
  OBVIOUS
<1>2. q \in Seq(Records)
  BY <1>1
<1>3. Resting = [stage |-> "idle", due |-> q, plan |-> q]
  BY <1>1 DEF Resting
<1>4. QED
  BY <1>2, <1>3

LEMMA RecomputeStart == ASSUME RecomputeInit PROVE RecomputeIInv
<1>1. orderHistory \in Histories /\ feeTenths = 1 /\ feeTenths \in 1..2 /\ feeTenths \in Nat
  BY DEF RecomputeInit
<1>2. PICK right : right = ReplayHistory.realized /\ right \in [ReportDay -> Int]
  BY <1>1, ReplayTold DEF Account
<1>3a. PICK missing \in SUBSET {4}, damaged \in {"none", "sum", "row"} :
           LET truth == ReplayHistory.realized
               total == [d \in ReportDay |-> IF d \in missing THEN 0
                                             ELSE IF d \in {2, 3} THEN 1 ELSE truth[d] + 1]
               known == [p \in 1..3 |-> Span(p) \ (missing \cup IF damaged = "row" /\ p = 2 THEN {3} ELSE {})]
               sum   == [p \in 1..3 |-> SumRows(total, known[p]) + IF damaged = "sum" /\ p = 1 THEN 5 ELSE 0]
           IN  /\ daily = [d \in ReportDay |-> [there |-> d \notin missing, total |-> total[d], unrealized |-> 1,
                                                first |-> total[d], recomputed |-> FALSE]]
               /\ period = [p \in 1..3 |-> [rows |-> total, known |-> known[p], total |-> sum[p],
                                            prev |-> IF p = 2 THEN sum[1] ELSE 0]]
  BY Zenon DEF RecomputeInit
<1>3b. PICK total : total = [d \in ReportDay |-> IF d \in missing THEN 0 ELSE IF d \in {2, 3} THEN 1 ELSE right[d] + 1]
  OBVIOUS
<1>3c. PICK K : K = [p \in 1..3 |-> Span(p) \ (missing \cup IF damaged = "row" /\ p = 2 THEN {3} ELSE {})]
  OBVIOUS
<1>3d. PICK S : S = [p \in 1..3 |-> SumRows(total, K[p]) + IF damaged = "sum" /\ p = 1 THEN 5 ELSE 0]
  OBVIOUS
<1>3. /\ daily = [d \in ReportDay |-> [there |-> d \notin missing, total |-> total[d], unrealized |-> 1,
                                       first |-> total[d], recomputed |-> FALSE]]
      /\ period = [p \in 1..3 |-> [rows |-> total, known |-> K[p], total |-> S[p],
                                   prev |-> IF p = 2 THEN S[1] ELSE 0]]
  BY <1>2, <1>3a, <1>3b, <1>3c, <1>3d
<1>4. total \in [ReportDay -> Int]
  BY <1>2, <1>3b
<1>5. \A p \in ReportPeriod : K[p] \subseteq Span(p) /\ K[p] \in SUBSET ReportDay
  BY <1>3c, SpanDays DEF ReportPeriod
<1>6. \A p \in ReportPeriod : SumRows(total, K[p]) \in Int
  <2>1. \A d \in ReportDay : total[d] \in Int
    BY <1>4
  <2>2. ASSUME NEW p \in ReportPeriod PROVE SumRows(total, K[p]) \in Int
    <3>1. PICK k \in SUBSET ReportDay : k = K[p]
      BY <1>5
    <3>2. \A d \in k : total[d] \in Int /\ total[d] = total[d]
      BY <2>1
    <3>3. PICK v, w : v = total /\ w = total
      OBVIOUS
    <3>4. \A d \in k : v[d] \in Int /\ w[d] = v[d]
      BY <3>2, <3>3
    <3>5. SumRows(v, k) \in Int
      BY <3>4, SumOfRows
    <3>6. QED
      BY <3>1, <3>3, <3>5
  <2>3. QED
    BY <2>2
<1>7. \A p \in ReportPeriod : S[p] \in Int
  BY <1>3d, <1>6 DEF ReportPeriod
<1>8. reportsAtFirst = [daily |-> daily, period |-> period] /\ reportsAtFirst.daily = daily /\ reportsAtFirst.period = period
  BY DEF RecomputeInit
<1>9. \A d \in ReportDay : /\ daily[d] \in DailyReport /\ daily[d].first = daily[d].total
                           /\ daily[d].recomputed = FALSE /\ daily[d].total = total[d]
  BY <1>3, <1>4 DEF DailyReport
<1>10. \A p \in ReportPeriod : /\ period[p] \in PeriodReport /\ period[p].known = K[p] /\ period[p].rows = total
                               /\ period[p].total = S[p] /\ (p = 2 => period[p].prev = S[1])
  <2>1. ASSUME NEW p \in ReportPeriod
        PROVE  /\ period[p] \in PeriodReport /\ period[p].known = K[p] /\ period[p].rows = total
               /\ period[p].total = S[p] /\ (p = 2 => period[p].prev = S[1])
    <3>1. PICK v : v = (IF p = 2 THEN S[1] ELSE 0)
      OBVIOUS
    <3>2. v \in Int
      BY <1>7, <3>1 DEF ReportPeriod
    <3>3. period[p] = [rows |-> total, known |-> K[p], total |-> S[p], prev |-> v]
      BY <1>3, <3>1 DEF ReportPeriod
    <3>4. K[p] \in SUBSET ReportDay /\ S[p] \in Int
      BY <1>5, <1>7
    <3>5. QED
      BY <1>4, <3>1, <3>2, <3>3, <3>4 DEF PeriodReport
  <2>2. QED
    BY <2>1
<1>11. ReportsOf(daily, period, reportsAtFirst)
  <2>1. daily \in [ReportDay -> DailyReport]
    BY <1>3, <1>9
  <2>2. period \in [ReportPeriod -> PeriodReport]
    BY <1>3, <1>10 DEF ReportPeriod
  <2>3. QED
    BY <1>5, <1>8, <1>9, <1>10, <2>1, <2>2 DEF ReportsOf
<1>12. Settled(daily, period, reportsAtFirst)
  <2>1. ASSUME NEW p \in ReportPeriod, Whole(reportsAtFirst, p)
        PROVE  FollowsFrom(period, daily, p)
    <3>1. period[p].total = SumRows(period[p].rows, period[p].known)
      BY <1>8, <2>1 DEF Whole
    <3>2. \A d \in period[p].known : period[p].rows[d] = daily[d].total
      BY <1>5, <1>9, <1>10
    <3>3. QED
      BY <3>1, <3>2 DEF FollowsFrom
  <2>2. ASSUME NEW p \in ReportPeriod, Spans[p].before # 0 PROVE period[p].prev = period[Spans[p].before].total
    <3>1. p = 2 /\ Spans[p].before = 1
      BY <2>2, SpanDays DEF ReportPeriod
    <3>2. 1 \in ReportPeriod
      BY DEF ReportPeriod
    <3>3. QED
      BY <1>10, <3>1, <3>2
  <2>3. QED
    BY <2>1, <2>2 DEF Settled
<1>13. KeptFirst(daily, period, reportsAtFirst, asides)
  BY <1>8 DEF KeptFirst
<1>14. recompute = Resting
  BY DEF RecomputeInit
<1>15. RecomputeReports
  BY <1>11, <1>12, <1>13 DEF RecomputeReports
<1>16. RecomputeRest
  <2>1. recomputesLeft \in 0..MaxRecomputes /\ recomputeDeaths \in 0..MaxRecomputeDeaths
    BY RecomputeConstants DEF RecomputeInit
  <2>2. recomputeDate \in 1..2 /\ DOMAIN asides = 1..2
    BY DEF RecomputeInit
  <2>3. QED
    BY <1>1, <1>14, <2>1, <2>2, RestingRuns DEF RecomputeRest
<1>17. RecomputePlan
  BY <1>14, RestingRuns DEF RecomputePlan
<1>18. QED
  BY <1>15, <1>16, <1>17 DEF RecomputeIInv

\* A run that ends, or does not begin, leaves the reports as they are.
LEMMA RunIsOver ==
    /\ RecomputeIInv /\ recompute' = Resting
    /\ UNCHANGED <<orderHistory, feeTenths, asides, recomputeDate, reportsAtFirst>>
    /\ recomputesLeft' \in 0..MaxRecomputes /\ recomputeDeaths' \in 0..MaxRecomputeDeaths /\ RecomputeReports'
    => RecomputeIInv'
<1>0. SUFFICES ASSUME RecomputeIInv, recompute' = Resting,
                      UNCHANGED <<orderHistory, feeTenths, asides, recomputeDate, reportsAtFirst>>,
                      recomputesLeft' \in 0..MaxRecomputes /\ recomputeDeaths' \in 0..MaxRecomputeDeaths,
                      RecomputeReports'
               PROVE  RecomputeIInv'
  OBVIOUS
<1>1. /\ recompute' \in [stage : {"idle", "save_aside", "write"}, due : Seq(Records), plan : Seq(Records)]
      /\ recompute'.stage = "idle" /\ Range(recompute'.due) \subseteq Range(recompute'.plan)
  <2>1. PICK r : r = Resting
    BY Zenon
  <2>2. /\ r \in [stage : {"idle", "save_aside", "write"}, due : Seq(Records), plan : Seq(Records)]
        /\ r.stage = "idle" /\ Range(r.due) \subseteq Range(r.plan)
    BY <2>1, RestingRuns
  <2>3. recompute' = r
    BY <1>0, <2>1
  <2>4. QED
    BY <2>2, <2>3
<1>2. RecomputeRest'
  BY <1>0, <1>1 DEF RecomputeIInv, RecomputeRest
<1>3. RecomputePlan'
  BY <1>1 DEF RecomputePlan
<1>4. QED
  BY <1>0, <1>2, <1>3 DEF RecomputeIInv

LEMMA RunBegins ==
    ASSUME RecomputeIInv, NEW desired \in TargetSets, StartRecompute(desired) PROVE RecomputeIInv'
<1>1. desired \in SUBSET ReportDay
  BY RecomputeAssumption
<1>2. RecomputeRest /\ RecomputeReports
  BY DEF RecomputeIInv
<1>3. PICK aims : aims = PlanFor(desired)
  OBVIOUS
<1>4. /\ recompute.stage = "idle" /\ recomputesLeft > 0 /\ recomputesLeft' = recomputesLeft - 1
      /\ recompute' = (IF aims = <<>> \/ AlreadyAside(aims) THEN Resting
                       ELSE [stage |-> "save_aside", due |-> aims, plan |-> aims])
  BY <1>3, Zenon DEF StartRecompute
<1>5. /\ UNCHANGED <<orderHistory, feeTenths, asides, recomputeDate, reportsAtFirst>>
      /\ UNCHANGED <<daily, period, recomputeDeaths>>
  BY DEF StartRecompute
<1>6. recomputesLeft' \in 0..MaxRecomputes /\ recomputeDeaths' \in 0..MaxRecomputeDeaths
  BY <1>2, <1>4, <1>5, RecomputeConstants DEF RecomputeRest
<1>7. RecomputeReports'
  BY <1>2, <1>4, <1>5 DEF RecomputeReports
<1>8. CASE aims = <<>> \/ AlreadyAside(aims)
  <2>1. recompute' = Resting
    BY <1>4, <1>8
  <2>2. QED
    BY <1>5, <1>6, <1>7, <2>1, RunIsOver
<1>9. CASE aims # <<>> /\ ~AlreadyAside(aims)
  <2>1. /\ aims \in Seq(Records)
        /\ Coming(Range(aims), daily, period, reportsAtFirst, recompute.stage = "idle" /\ recomputeDeaths = 0)
    BY <1>1, <1>2, <1>3, PlanHas, PlanLeads
  <2>2. PICK leg : leg = [stage |-> "save_aside", due |-> aims, plan |-> aims] /\ recompute' = leg
    BY <1>4, <1>9
  <2>3. /\ leg \in [stage : {"idle", "save_aside", "write"}, due : Seq(Records), plan : Seq(Records)]
        /\ leg.stage = "save_aside" /\ leg.due = aims /\ leg.plan = aims
    BY <2>1, <2>2
  <2>4. RecomputeRest'
    BY <1>2, <1>5, <1>6, <1>9, <2>2, <2>3 DEF RecomputeRest
  <2>5. Coming(Range(aims), daily, period, reportsAtFirst, recomputeDeaths = 0)
    BY <1>4, <2>1 DEF Coming
  <2>6. AllSafe(Range(aims), daily, period, reportsAtFirst, asides, recomputeDate)
    <3>1. ASSUME NEW e \in Range(aims), NEW content PROVE ~SavedIn(e.file, content, recomputeDate, asides)
      <4>1. PICK i \in DOMAIN aims : aims[i] = e
        BY DEF Range
      <4>2. \A saved \in asides[recomputeDate] : saved.file # aims[i].file
        BY <1>9 DEF AlreadyAside
      <4>3. [file |-> e.file, content |-> content].file = e.file
        OBVIOUS
      <4>4. QED
        BY <4>1, <4>2, <4>3 DEF SavedIn
    <3>2. KeptFirst(daily, period, reportsAtFirst, asides) /\ recomputeDate \in 1..2
      BY <1>2 DEF RecomputeReports, RecomputeRest
    <3>3. ASSUME NEW e \in Range(aims) PROVE FileSafe(e.file, daily, period, reportsAtFirst, asides, recomputeDate)
      <4>1. ASSUME NEW d \in ReportDay, e.file = DailyFile(d), daily[d] # reportsAtFirst.daily[d]
            PROVE  \E t \in (1..2) \ {recomputeDate} : SavedIn(e.file, FirstDay(reportsAtFirst, d), t, asides)
        BY <3>1, <3>2, <4>1 DEF KeptFirst
      <4>2. ASSUME NEW p \in ReportPeriod, e.file = PeriodFile(p), period[p] # reportsAtFirst.period[p]
            PROVE  \E t \in (1..2) \ {recomputeDate} : SavedIn(e.file, FirstSum(reportsAtFirst, p), t, asides)
        BY <3>1, <3>2, <4>2 DEF KeptFirst
      <4>3. QED
        BY <4>1, <4>2 DEF FileSafe
    <3>4. QED
      BY <3>3 DEF AllSafe
  <2>7. RecomputePlan'
    BY <1>5, <2>2, <2>3, <2>5, <2>6 DEF RecomputePlan
  <2>8. QED
    BY <1>7, <2>4, <2>7 DEF RecomputeIInv
<1>10. QED
  BY <1>8, <1>9

\* What is at the head of a queue, and what is left behind it.
LEMMA HeadAndTail ==
    ASSUME NEW T, NEW q \in Seq(T), q # <<>>
    PROVE  /\ Head(q) \in T /\ Tail(q) \in Seq(T)
           /\ Range(q) = {Head(q)} \cup Range(Tail(q)) /\ (Len(q) > 1 <=> Tail(q) # <<>>)
<1>1. Head(q) \in T /\ Tail(q) \in Seq(T) /\ Len(Tail(q)) = Len(q) - 1 /\ Len(q) > 0
  OBVIOUS
<1>2. Range(q) = {Head(q)} \cup Range(Tail(q))
  BY RangeOfTail
<1>3. Tail(q) # <<>> <=> Len(Tail(q)) # 0
  <2>1. PICK u \in Seq(T) : u = Tail(q)
    BY <1>1
  <2>2. u # <<>> <=> Len(u) # 0
    OBVIOUS
  <2>3. QED
    BY <2>1, <2>2
<1>4. QED
  BY <1>1, <1>2, <1>3

\* What was put aside on a date replaces what was put aside of the same file on that date only.
PutAside(sides, after, date, file, content) ==
    /\ \A f, c : \A t \in 1..2 : f # file \/ t # date => (SavedIn(f, c, t, sides) <=> SavedIn(f, c, t, after))
    /\ SavedIn(file, content, date, after)

LEMMA AsideKeeps ==
    ASSUME NEW sides, NEW after, NEW date, NEW file, NEW content, NEW days, NEW sums, NEW first,
           date \in 1..2, PutAside(sides, after, date, file, content),
           FileSafe(file, days, sums, first, sides, date),
           \A d \in ReportDay : file = DailyFile(d) => content = <<days[d]>>,
           \A p \in ReportPeriod : file = PeriodFile(p) => content = <<sums[p]>>
    PROVE  /\ FileSaved(file, first, after)
           /\ \A f : FileSaved(f, first, sides) => FileSaved(f, first, after)
           /\ \A f : FileSafe(f, days, sums, first, sides, date) => FileSafe(f, days, sums, first, after, date)
           /\ KeptFirst(days, sums, first, sides) => KeptFirst(days, sums, first, after)
<1>1. /\ \A f, c : \A t \in 1..2 : f # file \/ t # date => (SavedIn(f, c, t, sides) <=> SavedIn(f, c, t, after))
      /\ SavedIn(file, content, date, after)
  BY DEF PutAside
<1>2. ASSUME NEW d \in ReportDay, file = DailyFile(d)
      PROVE  \E t \in 1..2 : SavedIn(file, FirstDay(first, d), t, after)
  <2>1. CASE days[d] = first.daily[d]
    BY <1>1, <1>2, <2>1 DEF FirstDay
  <2>2. CASE days[d] # first.daily[d]
    BY <1>1, <1>2, <2>2 DEF FileSafe
  <2>3. QED
    BY <2>1, <2>2
<1>3. ASSUME NEW p \in ReportPeriod, file = PeriodFile(p)
      PROVE  \E t \in 1..2 : SavedIn(file, FirstSum(first, p), t, after)
  <2>1. CASE sums[p] = first.period[p]
    BY <1>1, <1>3, <2>1 DEF FirstSum
  <2>2. CASE sums[p] # first.period[p]
    BY <1>1, <1>3, <2>2 DEF FileSafe
  <2>3. QED
    BY <2>1, <2>2
<1>4. FileSaved(file, first, after)
  BY <1>2, <1>3 DEF FileSaved
<1>5. ASSUME NEW f, FileSaved(f, first, sides) PROVE FileSaved(f, first, after)
  <2>1. CASE f = file
    BY <1>4, <2>1
  <2>2. CASE f # file
    BY <1>1, <1>5, <2>2 DEF FileSaved
  <2>3. QED
    BY <2>1, <2>2
<1>6. ASSUME NEW f, FileSafe(f, days, sums, first, sides, date) PROVE FileSafe(f, days, sums, first, after, date)
  BY <1>1, <1>6 DEF FileSafe
<1>7. ASSUME KeptFirst(days, sums, first, sides) PROVE KeptFirst(days, sums, first, after)
  <2>1. ASSUME NEW d \in ReportDay, days[d] # first.daily[d]
        PROVE  \E t \in 1..2 : SavedIn(DailyFile(d), FirstDay(first, d), t, after)
    <3>1. CASE DailyFile(d) = file
      BY <1>2, <3>1
    <3>2. CASE DailyFile(d) # file
      BY <1>1, <1>7, <2>1, <3>2 DEF KeptFirst
    <3>3. QED
      BY <3>1, <3>2
  <2>2. ASSUME NEW p \in ReportPeriod, sums[p] # first.period[p]
        PROVE  \E t \in 1..2 : SavedIn(PeriodFile(p), FirstSum(first, p), t, after)
    <3>1. CASE PeriodFile(p) = file
      BY <1>3, <3>1
    <3>2. CASE PeriodFile(p) # file
      BY <1>1, <1>7, <2>2, <3>2 DEF KeptFirst
    <3>3. QED
      BY <3>1, <3>2
  <2>3. QED
    BY <2>1, <2>2 DEF KeptFirst
<1>8. QED
  BY <1>4, <1>5, <1>6, <1>7

LEMMA FileIsPutAside == ASSUME RecomputeIInv, SaveAside PROVE RecomputeIInv'
<1>1. RecomputeRest /\ RecomputeReports /\ RecomputePlan /\ recompute.stage = "save_aside"
  BY DEF RecomputeIInv, SaveAside
<1>2. PICK due, aims : due = recompute.due /\ aims = recompute.plan
  OBVIOUS
<1>3. /\ recompute \in [stage : {"idle", "save_aside", "write"}, due : Seq(Records), plan : Seq(Records)]
      /\ due \in Seq(Records) /\ aims \in Seq(Records) /\ due # <<>> /\ aims # <<>> /\ Range(due) \subseteq Range(aims)
  BY <1>1, <1>2 DEF RecomputeRest
<1>4. PICK entry, left : /\ entry = Head(due) /\ left = Tail(due)
                         /\ left \in Seq(Records) /\ Range(due) = {entry} \cup Range(left)
                         /\ (Len(due) > 1 <=> left # <<>>)
  BY <1>3, HeadAndTail
<1>5. PICK file, content : file = entry.file /\ content = Content(file)
  OBVIOUS
<1>6. asides' = [asides EXCEPT ![recomputeDate] =
                    {saved \in asides[recomputeDate] : saved.file # file} \cup {[file |-> file, content |-> content]}]
  BY <1>2, <1>4, <1>5 DEF SaveAside
<1>7. recompute' = (IF Len(due) > 1 THEN [recompute EXCEPT !.due = left]
                    ELSE [recompute EXCEPT !.stage = "write", !.due = aims])
  BY <1>2, <1>4 DEF SaveAside
<1>8. UNCHANGED <<orderHistory, feeTenths, daily, period, recomputesLeft, recomputeDate, recomputeDeaths, reportsAtFirst>>
  BY DEF SaveAside
<1>9. PICK sides, after, date, days, sums, first :
        /\ sides = asides /\ after = asides' /\ date = recomputeDate /\ days = daily /\ sums = period /\ first = reportsAtFirst
  OBVIOUS
<1>10. date \in 1..2 /\ DOMAIN sides = 1..2
  BY <1>1, <1>9 DEF RecomputeRest
<1>11. after = [sides EXCEPT ![date] = {saved \in sides[date] : saved.file # file} \cup {[file |-> file, content |-> content]}]
  BY <1>6, <1>9
<1>12. PutAside(sides, after, date, file, content)
  <2>1. ASSUME NEW f, NEW c, NEW t \in 1..2, f # file \/ t # date
        PROVE  SavedIn(f, c, t, sides) <=> SavedIn(f, c, t, after)
    <3>1. CASE t # date
      <4>1. after[t] = sides[t]
        BY <1>10, <1>11, <3>1
      <4>2. QED
        BY <4>1 DEF SavedIn
    <3>2. CASE t = date /\ f # file
      <4>1. after[t] = {saved \in sides[date] : saved.file # file} \cup {[file |-> file, content |-> content]}
        BY <1>10, <1>11, <3>2
      <4>2. PICK r : r = [file |-> f, content |-> c]
        OBVIOUS
      <4>3. r.file # file /\ r # [file |-> file, content |-> content]
        BY <3>2, <4>2
      <4>4. r \in sides[t] <=> r \in after[t]
        BY <3>2, <4>1, <4>3
      <4>5. QED
        BY <4>2, <4>4 DEF SavedIn
    <3>3. QED
      BY <2>1, <3>1, <3>2
  <2>2. SavedIn(file, content, date, after)
    BY <1>10, <1>11 DEF SavedIn
  <2>3. QED
    BY <2>1, <2>2 DEF PutAside
<1>13. /\ Coming(Range(aims), days, sums, first, recomputeDeaths = 0)
       /\ AllSafe(Range(aims), days, sums, first, sides, date)
       /\ \A e \in Range(aims) : e \in Range(due) \/ FileSaved(e.file, first, sides)
  BY <1>1, <1>2, <1>9 DEF RecomputePlan
<1>14. FileSafe(file, days, sums, first, sides, date)
  BY <1>3, <1>4, <1>5, <1>13 DEF AllSafe
<1>15. ASSUME NEW d \in ReportDay, file = DailyFile(d) PROVE content = <<days[d]>>
  BY <1>5, <1>9, <1>15 DEF Content, DailyFile
<1>16. ASSUME NEW p \in ReportPeriod, file = PeriodFile(p) PROVE content = <<sums[p]>>
  BY <1>5, <1>9, <1>16 DEF Content, PeriodFile
<1>17. /\ FileSaved(file, first, after)
       /\ \A f : FileSaved(f, first, sides) => FileSaved(f, first, after)
       /\ \A f : FileSafe(f, days, sums, first, sides, date) => FileSafe(f, days, sums, first, after, date)
       /\ KeptFirst(days, sums, first, sides) => KeptFirst(days, sums, first, after)
  BY <1>10, <1>12, <1>14, <1>15, <1>16, AsideKeeps
<1>18. AllSafe(Range(aims), days, sums, first, after, date)
  BY <1>13, <1>17 DEF AllSafe
<1>19. \A e \in Range(aims) : e \in Range(left) \/ FileSaved(e.file, first, after)
  BY <1>4, <1>5, <1>13, <1>17
<1>20. RecomputeReports'
  <2>1. recompute'.stage # "idle"
    BY <1>1, <1>3, <1>7
  <2>2. ReportsOf(days, sums, first) /\ KeptFirst(days, sums, first, sides)
    BY <1>1, <1>9 DEF RecomputeReports
  <2>3. KeptFirst(days, sums, first, after)
    BY <1>17, <2>2
  <2>4. daily' = days /\ period' = sums /\ reportsAtFirst' = first /\ asides' = after
    BY <1>8, <1>9
  <2>5. QED
    BY <2>1, <2>2, <2>3, <2>4 DEF RecomputeReports
<1>21. DOMAIN after = 1..2
  BY <1>10, <1>11
<1>22. PICK leg, alive : leg = recompute' /\ alive = (recomputeDeaths = 0)
  OBVIOUS
<1>23. CASE Len(due) > 1
  <2>1. /\ leg \in [stage : {"idle", "save_aside", "write"}, due : Seq(Records), plan : Seq(Records)]
        /\ leg.stage = "save_aside" /\ leg.due = left /\ leg.plan = aims
    BY <1>1, <1>2, <1>3, <1>4, <1>7, <1>22, <1>23
  <2>2. RecomputeRest'
    BY <1>1, <1>3, <1>4, <1>8, <1>9, <1>21, <1>22, <1>23, <2>1 DEF RecomputeRest
  <2>3. RecomputePlan'
    BY <1>8, <1>9, <1>13, <1>18, <1>19, <1>22, <2>1 DEF RecomputePlan
  <2>4. QED
    BY <1>20, <2>2, <2>3 DEF RecomputeIInv
<1>24. CASE ~(Len(due) > 1)
  <2>1. /\ leg \in [stage : {"idle", "save_aside", "write"}, due : Seq(Records), plan : Seq(Records)]
        /\ leg.stage = "write" /\ leg.due = aims /\ leg.plan = aims
    BY <1>1, <1>2, <1>3, <1>4, <1>7, <1>22, <1>24
  <2>2. RecomputeRest'
    BY <1>1, <1>3, <1>4, <1>8, <1>9, <1>21, <1>22, <2>1 DEF RecomputeRest
  <2>3. Range(left) = {}
    BY <1>4, <1>24 DEF Range
  <2>4. AllSaved(Range(aims), first, after)
    BY <1>19, <2>3 DEF AllSaved
  <2>5. RecomputePlan'
    BY <1>8, <1>9, <1>13, <1>22, <2>1, <2>4 DEF RecomputePlan
  <2>6. QED
    BY <1>20, <2>2, <2>5 DEF RecomputeIInv
<1>25. QED
  BY <1>23, <1>24

\* A daily report that is written is as the plan wants it, and its first content was saved.
DayWritten(days, sums, first, dd, pp, sides, left, rest, entry, d, after) ==
    /\ ReportsOf(days, sums, first) /\ ReportsOf(dd, pp, first) /\ KeptFirst(days, sums, first, sides)
    /\ left = {entry} \cup rest /\ LeadsTo(left, days, sums, dd, pp)
    /\ entry.file = DailyFile(d) /\ FileSaved(entry.file, first, sides) /\ after = [days EXCEPT ![d] = dd[d]]

LEMMA DayIsWritten ==
    ASSUME NEW days, NEW sums, NEW first, NEW dd, NEW pp, NEW sides, NEW left, NEW rest, NEW entry, NEW d \in ReportDay,
           NEW after, DayWritten(days, sums, first, dd, pp, sides, left, rest, entry, d, after)
    PROVE  /\ ReportsOf(after, sums, first) /\ KeptFirst(after, sums, first, sides)
           /\ LeadsTo(rest, after, sums, dd, pp)
<1>0. /\ ReportsOf(days, sums, first) /\ ReportsOf(dd, pp, first) /\ KeptFirst(days, sums, first, sides)
      /\ left = {entry} \cup rest /\ LeadsTo(left, days, sums, dd, pp)
      /\ entry.file = DailyFile(d) /\ FileSaved(entry.file, first, sides) /\ after = [days EXCEPT ![d] = dd[d]]
  BY DEF DayWritten
<1>1. days \in [ReportDay -> DailyReport] /\ dd \in [ReportDay -> DailyReport]
  BY <1>0 DEF ReportsOf
<1>2. after \in [ReportDay -> DailyReport] /\ after[d] = dd[d] /\ \A o \in ReportDay \ {d} : after[o] = days[o]
  BY <1>0, <1>1
<1>3. ReportsOf(after, sums, first)
  BY <1>0, <1>2 DEF ReportsOf
<1>4. KeptFirst(after, sums, first, sides)
  <2>1. ASSUME NEW o \in ReportDay, after[o] # first.daily[o]
        PROVE  \E t \in 1..2 : SavedIn(DailyFile(o), FirstDay(first, o), t, sides)
    <3>1. CASE o = d
      BY <1>0, <3>1 DEF FileSaved
    <3>2. CASE o # d
      BY <1>0, <1>2, <2>1, <3>2 DEF KeptFirst
    <3>3. QED
      BY <1>0, <3>1, <3>2
  <2>2. QED
    BY <1>0, <2>1 DEF KeptFirst
<1>5. LeadsTo(rest, after, sums, dd, pp)
  <2>1. \A o \in ReportDay : after[o] = dd[o] \/ \E e \in rest : e.file = DailyFile(o)
    <3>1. ASSUME NEW o \in ReportDay, o # d PROVE entry.file # DailyFile(o)
      BY <1>0, <3>1 DEF DailyFile
    <3>2. ASSUME NEW o \in ReportDay, o # d PROVE after[o] = dd[o] \/ \E e \in rest : e.file = DailyFile(o)
      BY <1>0, <1>2, <3>1, <3>2 DEF LeadsTo
    <3>3. QED
      BY <1>0, <1>2, <3>2
  <2>2. \A p \in ReportPeriod : sums[p] = pp[p] \/ \E e \in rest : e.file = PeriodFile(p)
    <3>1. ASSUME NEW p \in ReportPeriod PROVE entry.file # PeriodFile(p)
      BY <1>0 DEF DailyFile, PeriodFile
    <3>2. QED
      BY <1>0, <3>1 DEF LeadsTo
  <2>3. QED
    BY <1>0, <2>1, <2>2 DEF LeadsTo
<1>6. QED
  BY <1>3, <1>4, <1>5

\* The same for the report of a week or a month.
SumWritten(days, sums, first, dd, pp, sides, left, rest, entry, p, after) ==
    /\ ReportsOf(days, sums, first) /\ ReportsOf(dd, pp, first) /\ KeptFirst(days, sums, first, sides)
    /\ left = {entry} \cup rest /\ LeadsTo(left, days, sums, dd, pp)
    /\ entry.file = PeriodFile(p) /\ FileSaved(entry.file, first, sides) /\ after = [sums EXCEPT ![p] = pp[p]]

LEMMA SumIsWritten ==
    ASSUME NEW days, NEW sums, NEW first, NEW dd, NEW pp, NEW sides, NEW left, NEW rest, NEW entry, NEW p \in ReportPeriod,
           NEW after, SumWritten(days, sums, first, dd, pp, sides, left, rest, entry, p, after)
    PROVE  /\ ReportsOf(days, after, first) /\ KeptFirst(days, after, first, sides)
           /\ LeadsTo(rest, days, after, dd, pp)
<1>0. /\ ReportsOf(days, sums, first) /\ ReportsOf(dd, pp, first) /\ KeptFirst(days, sums, first, sides)
      /\ left = {entry} \cup rest /\ LeadsTo(left, days, sums, dd, pp)
      /\ entry.file = PeriodFile(p) /\ FileSaved(entry.file, first, sides) /\ after = [sums EXCEPT ![p] = pp[p]]
  BY DEF SumWritten
<1>1. sums \in [ReportPeriod -> PeriodReport] /\ pp \in [ReportPeriod -> PeriodReport]
  BY <1>0 DEF ReportsOf
<1>2. after \in [ReportPeriod -> PeriodReport] /\ after[p] = pp[p] /\ \A o \in ReportPeriod \ {p} : after[o] = sums[o]
  BY <1>0, <1>1
<1>3. ReportsOf(days, after, first)
  BY <1>0, <1>2 DEF ReportsOf
<1>4. KeptFirst(days, after, first, sides)
  <2>1. ASSUME NEW o \in ReportPeriod, after[o] # first.period[o]
        PROVE  \E t \in 1..2 : SavedIn(PeriodFile(o), FirstSum(first, o), t, sides)
    <3>1. CASE o = p
      BY <1>0, <3>1 DEF FileSaved
    <3>2. CASE o # p
      BY <1>0, <1>2, <2>1, <3>2 DEF KeptFirst
    <3>3. QED
      BY <1>0, <3>1, <3>2
  <2>2. QED
    BY <1>0, <2>1 DEF KeptFirst
<1>5. LeadsTo(rest, days, after, dd, pp)
  <2>1. \A o \in ReportPeriod : after[o] = pp[o] \/ \E e \in rest : e.file = PeriodFile(o)
    <3>1. ASSUME NEW o \in ReportPeriod, o # p PROVE entry.file # PeriodFile(o)
      BY <1>0, <3>1 DEF PeriodFile
    <3>2. ASSUME NEW o \in ReportPeriod, o # p PROVE after[o] = pp[o] \/ \E e \in rest : e.file = PeriodFile(o)
      BY <1>0, <1>2, <3>1, <3>2 DEF LeadsTo
    <3>3. QED
      BY <1>0, <1>2, <3>2
  <2>2. \A d \in ReportDay : days[d] = dd[d] \/ \E e \in rest : e.file = DailyFile(d)
    <3>1. ASSUME NEW d \in ReportDay PROVE entry.file # DailyFile(d)
      BY <1>0 DEF DailyFile, PeriodFile
    <3>2. QED
      BY <1>0, <3>1 DEF LeadsTo
  <2>3. QED
    BY <1>0, <2>1, <2>2 DEF LeadsTo
<1>6. QED
  BY <1>3, <1>4, <1>5

LEMMA ReportIsWritten == ASSUME RecomputeIInv, WriteReport PROVE RecomputeIInv'
<1>1. RecomputeRest /\ RecomputeReports /\ RecomputePlan /\ recompute.stage = "write"
  BY DEF RecomputeIInv, WriteReport
<1>2. PICK due, aims : due = recompute.due /\ aims = recompute.plan
  OBVIOUS
<1>3. /\ recompute \in [stage : {"idle", "save_aside", "write"}, due : Seq(Records), plan : Seq(Records)]
      /\ due \in Seq(Records) /\ aims \in Seq(Records) /\ due # <<>> /\ aims # <<>> /\ Range(due) \subseteq Range(aims)
  BY <1>1, <1>2 DEF RecomputeRest
<1>4. PICK entry, left : /\ entry = Head(due) /\ left = Tail(due)
                         /\ left \in Seq(Records) /\ Range(due) = {entry} \cup Range(left)
                         /\ (Len(due) > 1 <=> left # <<>>)
  BY <1>3, HeadAndTail
<1>5. PICK days, sums, first, sides, daysAfter, sumsAfter :
        /\ days = daily /\ sums = period /\ first = reportsAtFirst /\ sides = asides
        /\ daysAfter = daily' /\ sumsAfter = period'
  OBVIOUS
<1>6. PICK dd, pp : /\ ReportsOf(dd, pp, first) /\ LeadsTo(Range(due), days, sums, dd, pp)
                    /\ (recomputeDeaths = 0 => Settled(dd, pp, first))
  BY <1>1, <1>2, <1>5 DEF RecomputePlan, Coming
<1>7. ReportsOf(days, sums, first) /\ KeptFirst(days, sums, first, sides)
  BY <1>1, <1>5 DEF RecomputeReports
<1>8. AllSaved(Range(aims), first, sides) /\ FileSaved(entry.file, first, sides)
  BY <1>1, <1>2, <1>3, <1>4, <1>5 DEF RecomputePlan, AllSaved
<1>9. IF entry.file[1] = "daily"
      THEN daysAfter = [days EXCEPT ![entry.file[2]] = entry.new[1]] /\ sumsAfter = sums
      ELSE sumsAfter = [sums EXCEPT ![entry.file[2]] = entry.new[1]] /\ daysAfter = days
  BY <1>2, <1>4, <1>5 DEF WriteReport
<1>10. /\ ReportsOf(daysAfter, sumsAfter, first) /\ KeptFirst(daysAfter, sumsAfter, first, sides)
       /\ LeadsTo(Range(left), daysAfter, sumsAfter, dd, pp)
  <2>1. \/ \E d \in ReportDay : entry.file = DailyFile(d) /\ entry.new = <<dd[d]>>
        \/ \E p \in ReportPeriod : entry.file = PeriodFile(p) /\ entry.new = <<pp[p]>>
    BY <1>4, <1>6 DEF LeadsTo
  <2>2. CASE \E d \in ReportDay : entry.file = DailyFile(d) /\ entry.new = <<dd[d]>>
    <3>1. PICK d \in ReportDay : entry.file = DailyFile(d) /\ entry.new = <<dd[d]>>
      BY <2>2
    <3>2. entry.file[1] = "daily" /\ entry.file[2] = d /\ entry.new[1] = dd[d]
      BY <3>1 DEF DailyFile
    <3>3. daysAfter = [days EXCEPT ![d] = dd[d]] /\ sumsAfter = sums
      BY <1>9, <3>2
    <3>4. PICK lot, rest : lot = Range(due) /\ rest = Range(left) /\ lot = {entry} \cup rest
      BY <1>4
    <3>5. LeadsTo(lot, days, sums, dd, pp)
      BY <1>6, <3>4
    <3>5a. DayWritten(days, sums, first, dd, pp, sides, lot, rest, entry, d, daysAfter)
      BY <1>6, <1>7, <1>8, <3>1, <3>3, <3>4, <3>5 DEF DayWritten
    <3>6. /\ ReportsOf(daysAfter, sums, first) /\ KeptFirst(daysAfter, sums, first, sides)
          /\ LeadsTo(rest, daysAfter, sums, dd, pp)
      BY <3>5a, DayIsWritten
    <3>7. QED
      BY <3>3, <3>4, <3>6
  <2>3. CASE \E p \in ReportPeriod : entry.file = PeriodFile(p) /\ entry.new = <<pp[p]>>
    <3>1. PICK p \in ReportPeriod : entry.file = PeriodFile(p) /\ entry.new = <<pp[p]>>
      BY <2>3
    <3>2. entry.file[1] = "period" /\ entry.file[2] = p /\ entry.new[1] = pp[p]
      BY <3>1 DEF PeriodFile
    <3>3. sumsAfter = [sums EXCEPT ![p] = pp[p]] /\ daysAfter = days
      BY <1>9, <3>2
    <3>4. PICK lot, rest : lot = Range(due) /\ rest = Range(left) /\ lot = {entry} \cup rest
      BY <1>4
    <3>5. LeadsTo(lot, days, sums, dd, pp)
      BY <1>6, <3>4
    <3>5a. SumWritten(days, sums, first, dd, pp, sides, lot, rest, entry, p, sumsAfter)
      BY <1>6, <1>7, <1>8, <3>1, <3>3, <3>4, <3>5 DEF SumWritten
    <3>6. /\ ReportsOf(days, sumsAfter, first) /\ KeptFirst(days, sumsAfter, first, sides)
          /\ LeadsTo(rest, days, sumsAfter, dd, pp)
      BY <3>5a, SumIsWritten
    <3>7. QED
      BY <3>3, <3>4, <3>6
  <2>4. QED
    BY <2>1, <2>2, <2>3
<1>11. UNCHANGED <<orderHistory, feeTenths, asides, recomputesLeft, recomputeDate, recomputeDeaths, reportsAtFirst>>
  BY DEF WriteReport
<1>12. recompute' = (IF Len(due) > 1 THEN [recompute EXCEPT !.due = left] ELSE Resting)
  BY <1>2, <1>4 DEF WriteReport
<1>13. CASE Len(due) > 1
  <2>1. PICK leg : leg = recompute' /\ leg = [recompute EXCEPT !.due = left]
    BY <1>12, <1>13
  <2>2. /\ leg \in [stage : {"idle", "save_aside", "write"}, due : Seq(Records), plan : Seq(Records)]
        /\ leg.stage = "write" /\ leg.due = left /\ leg.plan = aims
    BY <1>1, <1>2, <1>3, <1>4, <2>1
  <2>3. RecomputeRest'
    BY <1>1, <1>3, <1>4, <1>11, <1>13, <2>1, <2>2 DEF RecomputeRest
  <2>4. RecomputeReports'
    BY <1>5, <1>10, <1>11, <2>1, <2>2 DEF RecomputeReports
  <2>5. Coming(Range(left), daysAfter, sumsAfter, first, recomputeDeaths = 0)
    BY <1>6, <1>10 DEF Coming
  <2>6. RecomputePlan'
    BY <1>5, <1>8, <1>11, <2>1, <2>2, <2>5 DEF RecomputePlan
  <2>7. QED
    BY <2>3, <2>4, <2>6 DEF RecomputeIInv
<1>14. CASE ~(Len(due) > 1)
  <2>1. recompute' = Resting
    BY <1>12, <1>14
  <2>2. Range(left) = {}
    BY <1>4, <1>14 DEF Range
  <2>3. daysAfter = dd /\ sumsAfter = pp
    <3>1. (\A d \in ReportDay : daysAfter[d] = dd[d]) /\ \A p \in ReportPeriod : sumsAfter[p] = pp[p]
      BY <1>10, <2>2 DEF LeadsTo
    <3>2. /\ daysAfter \in [ReportDay -> DailyReport] /\ dd \in [ReportDay -> DailyReport]
          /\ sumsAfter \in [ReportPeriod -> PeriodReport] /\ pp \in [ReportPeriod -> PeriodReport]
      BY <1>6, <1>10 DEF ReportsOf
    <3>3. QED
      BY <3>1, <3>2
  <2>4. recomputeDeaths = 0 => Settled(daysAfter, sumsAfter, first)
    BY <1>6, <2>3
  <2>5. RecomputeReports'
    BY <1>5, <1>10, <1>11, <2>4 DEF RecomputeReports
  <2>6. recomputesLeft' \in 0..MaxRecomputes /\ recomputeDeaths' \in 0..MaxRecomputeDeaths
    BY <1>1, <1>11 DEF RecomputeRest
  <2>7. QED
    BY <1>11, <2>1, <2>5, <2>6, RunIsOver
<1>15. QED
  BY <1>13, <1>14

LEMMA RunIsKilled == ASSUME RecomputeIInv, RecomputeDies PROVE RecomputeIInv'
<1>1. RecomputeRest /\ RecomputeReports
  BY DEF RecomputeIInv
<1>2. /\ recomputeDeaths < MaxRecomputeDeaths /\ recomputeDeaths' = recomputeDeaths + 1 /\ recompute' = Resting
      /\ UNCHANGED <<orderHistory, feeTenths, daily, period, asides, recomputesLeft, recomputeDate, reportsAtFirst>>
  BY DEF RecomputeDies
<1>3. /\ recomputesLeft' \in 0..MaxRecomputes /\ recomputeDeaths' \in 0..MaxRecomputeDeaths
      /\ recomputeDeaths' # 0
  BY <1>1, <1>2, RecomputeConstants DEF RecomputeRest
<1>4. RecomputeReports'
  BY <1>1, <1>2, <1>3 DEF RecomputeReports
<1>5. QED
  BY <1>2, <1>3, <1>4, RunIsOver

LEMMA RecomputeStep == ASSUME RecomputeIInv, [RecomputeNext]_recomputeVars PROVE RecomputeIInv'
<1>1. CASE \E desired \in TargetSets : StartRecompute(desired)
  BY <1>1, RunBegins
<1>2. CASE SaveAside
  BY <1>2, FileIsPutAside
<1>3. CASE WriteReport
  BY <1>3, ReportIsWritten
<1>4. CASE RecomputeDies
  BY <1>4, RunIsKilled
<1>5. CASE DayOfRecompute
  <2>1. /\ recompute.stage = "idle" /\ recomputeDate' = 2 /\ feeTenths' \in {1, 2}
        /\ UNCHANGED <<orderHistory, daily, period, asides, recompute, recomputesLeft, recomputeDeaths, reportsAtFirst>>
    BY <1>5 DEF DayOfRecompute
  <2>2. recomputeDate' \in 1..2 /\ feeTenths' \in 1..2
    BY <2>1
  <2>3. RecomputeRest' /\ RecomputeReports' /\ RecomputePlan'
    <3>1. RecomputeRest'
      BY <2>1, <2>2 DEF RecomputeIInv, RecomputeRest
    <3>2. RecomputeReports'
      BY <2>1 DEF RecomputeIInv, RecomputeReports
    <3>3. RecomputePlan'
      BY <2>1 DEF RecomputePlan
    <3>4. QED
      BY <3>1, <3>2, <3>3
  <2>4. QED
    BY <2>3 DEF RecomputeIInv
<1>6. CASE UNCHANGED recomputeVars
  BY <1>6 DEF recomputeVars, RecomputeIInv, RecomputeRest, RecomputeReports, RecomputePlan
<1>7. QED
  BY <1>1, <1>2, <1>3, <1>4, <1>5, <1>6 DEF RecomputeNext

LEMMA RecomputeHolds == ASSUME RecomputeIInv PROVE RecomputeTypeOK /\ RecomputeSound
<1>1. RecomputeRest /\ RecomputeReports
  BY DEF RecomputeIInv
<1>2. ReportsOf(daily, period, reportsAtFirst) /\ KeptFirst(daily, period, reportsAtFirst, asides)
  BY <1>1 DEF RecomputeReports
<1>3. RecomputeTypeOK
  <2>1. recompute.stage \in {"idle", "save_aside", "write"}
    BY <1>1 DEF RecomputeRest
  <2>2. \A d \in ReportDay : daily[d] \in DailyReport
    BY <1>2 DEF ReportsOf
  <2>3. \A d \in ReportDay : daily[d].total \in Int /\ daily[d].recomputed \in BOOLEAN
    BY <2>2 DEF DailyReport
  <2>4. \A p \in 1..3 : period[p].known \subseteq Span(p)
    BY <1>2 DEF ReportsOf, ReportPeriod
  <2>5. QED
    BY <1>1, <2>1, <2>3, <2>4 DEF RecomputeTypeOK, RecomputeRest
<1>4. FirstContentKept
  <2>1. ASSUME NEW d \in ReportDay, daily[d] # reportsAtFirst.daily[d]
        PROVE  \E t \in 1..2 : [file |-> DailyFile(d), content |-> <<reportsAtFirst.daily[d]>>] \in asides[t]
    BY <1>2, <2>1 DEF KeptFirst, SavedIn, FirstDay
  <2>2. ASSUME NEW p \in 1..3, period[p] # reportsAtFirst.period[p]
        PROVE  \E t \in 1..2 : [file |-> PeriodFile(p), content |-> <<reportsAtFirst.period[p]>>] \in asides[t]
    BY <1>2, <2>2 DEF KeptFirst, SavedIn, FirstSum, ReportPeriod
  <2>3. QED
    BY <2>1, <2>2 DEF FirstContentKept
<1>5. FirstTotalNamed
  BY <1>2 DEF ReportsOf, FirstTotalNamed
<1>6. SumsFollow
  <2>1. SUFFICES ASSUME recompute.stage = "idle", recomputeDeaths = 0
                 PROVE  \A p \in 1..3 : Undamaged(p) =>
                            /\ period[p].total = SumRows([d \in ReportDay |-> daily[d].total], period[p].known)
                            /\ Spans[p].before # 0 => (Undamaged(Spans[p].before) =>
                                           period[p].prev = period[Spans[p].before].total)
    BY DEF SumsFollow
  <2>2. Settled(daily, period, reportsAtFirst)
    BY <1>1, <2>1 DEF RecomputeReports
  <2>3. ASSUME NEW p \in ReportPeriod PROVE Undamaged(p) => Whole(reportsAtFirst, p)
    <3>1. /\ Span(p) \subseteq ReportDay /\ period[p].known = reportsAtFirst.period[p].known
          /\ \A d \in ReportDay : daily[d].there = reportsAtFirst.daily[d].there
      BY <1>2, SpanDays DEF ReportsOf
    <3>2. QED
      BY <3>1 DEF Undamaged, Whole
  <2>4. ASSUME NEW p \in ReportPeriod, Undamaged(p)
        PROVE  period[p].total = SumRows([d \in ReportDay |-> daily[d].total], period[p].known)
    <3>1. FollowsFrom(period, daily, p)
      BY <2>2, <2>3, <2>4 DEF Settled
    <3>2. PICK v, w, k : v = period[p].rows /\ w = [d \in ReportDay |-> daily[d].total] /\ k = period[p].known
      OBVIOUS
    <3>3. k \in SUBSET ReportDay /\ v \in [ReportDay -> Int]
      BY <1>2, <3>2 DEF ReportsOf, PeriodReport
    <3>4. \A d \in k : v[d] \in Int /\ w[d] = v[d]
      BY <3>1, <3>2, <3>3 DEF FollowsFrom
    <3>5. SumRows(w, k) = SumRows(v, k)
      BY <3>3, <3>4, SumOfRows
    <3>6. QED
      BY <3>1, <3>2, <3>5 DEF FollowsFrom
  <2>5. ASSUME NEW p \in ReportPeriod, Undamaged(p), Spans[p].before # 0, Undamaged(Spans[p].before)
        PROVE  period[p].prev = period[Spans[p].before].total
    <3>1. Spans[p].before \in ReportPeriod
      BY <2>5, SpanDays DEF ReportPeriod
    <3>2. QED
      BY <2>2, <2>3, <2>5, <3>1 DEF Settled
  <2>6. QED
    BY <2>4, <2>5 DEF ReportPeriod
<1>7. ReplayBalances
  <2>1. orderHistory \in Histories /\ feeTenths \in Nat
    BY <1>1 DEF RecomputeRest
  <2>2. PICK account : account = ReplayHistory /\ Balanced(account)
    BY <2>1, ReplayTold
  <2>3. SumRows(account.realized, ReportDay) = SumOver(account.realized, ReportDay)
    BY DEF SumRows, SumUp, SumOver
  <2>4. account.cash - INITIAL_CASH = SumRows(account.realized, ReportDay) - account.cost
    BY <2>2, <2>3 DEF Balanced
  <2>5. QED
    BY <2>2, <2>4 DEF ReplayBalances
<1>8. QED
  BY <1>3, <1>4, <1>5, <1>6, <1>7 DEF RecomputeSound

\* However often the profits are recomputed, whatever day the run starts on, at whatever file it dies and whatever
\* the fees have become: the first content of every changed file is still saved, a corrected report names its first
\* total, the weekly and monthly sums follow from the daily ones, and the replayed profits balance with the money.
THEOREM AlwaysRecomputedSoundly == RecomputeSpec => [](RecomputeTypeOK /\ RecomputeSound)
<1>1. RecomputeInit => RecomputeIInv
  BY RecomputeStart
<1>2. RecomputeIInv /\ [RecomputeNext]_recomputeVars => RecomputeIInv'
  BY RecomputeStep
<1>3. RecomputeIInv => RecomputeTypeOK /\ RecomputeSound
  BY RecomputeHolds
<1>4. QED
  BY <1>1, <1>2, <1>3, PTL DEF RecomputeSpec

-----------------------------------------------------------------------------
(* The comparison of the price bands (BandComparison) *)

BandNames == Range(BandOrder)
ComparedDays == Range(StudyDays)
StudyTask(I) == [band : BandNames, day : ComparedDays, issue : I]

LEMMA StudyOrders ==
    /\ BandOrder \in Seq(STRING) /\ WithoutRepeats(BandOrder)
    /\ StudyDays \in Seq(Nat) /\ WithoutRepeats(StudyDays)
<1>1. /\ BandOrder \in Seq(STRING) /\ IsInjective(BandOrder)
      /\ StudyDays \in Seq(Nat) /\ IsInjective(StudyDays)
  BY ComparisonAssumption
<1>2. DOMAIN BandOrder = 1..Len(BandOrder) /\ DOMAIN StudyDays = 1..Len(StudyDays)
  BY <1>1
<1>3. QED
  BY <1>1, <1>2 DEF IsInjective, WithoutRepeats

\* What is known of the files of a study.
KnownLists(f) ==
    \A band \in BandNames : \A date \in ComparedDays :
        /\ f.morning[band][date].symbols \in Seq(DOMAIN f.cached) /\ WithoutRepeats(f.morning[band][date].symbols)
        /\ f.noon[band][date].symbols \in Seq(DOMAIN f.cached) /\ WithoutRepeats(f.noon[band][date].symbols)
        /\ f.screened[band][date].symbols \in Seq(DOMAIN f.cached)
        /\ f.screened[band][date].price \in Nat
KnownSymbols(f) ==
    \A issue \in DOMAIN f.cached :
        /\ f.cached[issue] \in BOOLEAN /\ f.level[issue] \in Levels \cup {"flat"} /\ DOMAIN f.bars[issue] \subseteq Int
        /\ \A date \in ComparedDays :
              /\ f.minutes[issue][date] \in Seq(Quote)
              /\ \A d \in DOMAIN f.bars[issue] : f.bars[issue][d] # "none" => (d < NextOpen[date] <=> d <= date)
KnownMarkets(f) == \A date \in ComparedDays : f.climate[date].available \in BOOLEAN

LEMMA StudyKnown == ASSUME NEW f \in Studies PROVE KnownLists(f) /\ KnownSymbols(f) /\ KnownMarkets(f)
<1>1. /\ \A band \in Range(BandOrder) : \A date \in Range(StudyDays) :
            /\ \A list \in {f.morning[band][date].symbols, f.noon[band][date].symbols, f.screened[band][date].symbols} :
                  list \in Seq(DOMAIN f.cached) /\ IsInjective(list)
            /\ f.screened[band][date].price \in Nat
      /\ \A issue \in DOMAIN f.cached :
            /\ f.cached[issue] \in BOOLEAN /\ f.level[issue] \in Levels \cup {"flat"}
            /\ DOMAIN f.bars[issue] \subseteq Int
            /\ \A date \in Range(StudyDays) :
                  /\ f.minutes[issue][date] \in Seq(Quote)
                  /\ \A d \in DOMAIN f.bars[issue] :
                        f.bars[issue][d] # "none" => (d < NextOpen[date] <=> d <= date)
      /\ \A date \in Range(StudyDays) : f.climate[date].available \in BOOLEAN
  BY ComparisonAssumption
<1>2. KnownSymbols(f) /\ KnownMarkets(f)
  BY <1>1 DEF KnownSymbols, KnownMarkets, ComparedDays
<1>3. ASSUME NEW q \in Seq(DOMAIN f.cached), IsInjective(q) PROVE WithoutRepeats(q)
  BY <1>3 DEF IsInjective, WithoutRepeats
<1>4. KnownLists(f)
  <2>1. ASSUME NEW band \in BandNames, NEW date \in ComparedDays
        PROVE  /\ f.morning[band][date].symbols \in Seq(DOMAIN f.cached) /\ WithoutRepeats(f.morning[band][date].symbols)
               /\ f.noon[band][date].symbols \in Seq(DOMAIN f.cached) /\ WithoutRepeats(f.noon[band][date].symbols)
               /\ f.screened[band][date].symbols \in Seq(DOMAIN f.cached)
               /\ f.screened[band][date].price \in Nat
    <3>1. PICK q, p, s : q = f.morning[band][date].symbols /\ p = f.noon[band][date].symbols /\ s = f.screened[band][date].symbols
      OBVIOUS
    <3>2. /\ q \in Seq(DOMAIN f.cached) /\ IsInjective(q) /\ p \in Seq(DOMAIN f.cached) /\ IsInjective(p)
          /\ s \in Seq(DOMAIN f.cached) /\ f.screened[band][date].price \in Nat
      BY <1>1, <3>1 DEF BandNames, ComparedDays
    <3>3. QED
      BY <1>3, <3>1, <3>2
  <2>2. QED
    BY <2>1 DEF KnownLists
<1>5. QED
  BY <1>2, <1>4

-----------------------------------------------------------------------------
(* The loops *)

LEMMA TasksOfList ==
    ASSUME NEW I, NEW b \in BandNames, NEW d \in ComparedDays, NEW q \in Seq(I), WithoutRepeats(q)
    PROVE  /\ TasksOf(b, d, q) \in Seq(StudyTask(I)) /\ WithoutRepeats(TasksOf(b, d, q))
           /\ \A t \in StudyTask(I) :
                 t \in Range(TasksOf(b, d, q)) <=> t.band = b /\ t.day = d /\ t.issue \in Range(q)
           /\ \A t \in Range(TasksOf(b, d, q)) : t \in StudyTask(I)
<1>1. PICK r, n : r = TasksOf(b, d, q) /\ n = Len(q)
  OBVIOUS
<1>2. n \in Nat /\ DOMAIN q = 1..n /\ \A i \in 1..n : q[i] \in I
  BY <1>1
<1>3. r = [i \in 1..n |-> [band |-> b, day |-> d, issue |-> q[i]]]
  BY <1>1, <1>2 DEF TasksOf
<1>4. \A i \in 1..n : r[i] \in StudyTask(I) /\ r[i].band = b /\ r[i].day = d /\ r[i].issue = q[i]
  BY <1>2, <1>3 DEF StudyTask
<1>5. r \in Seq(StudyTask(I)) /\ Len(r) = n
  BY <1>2, <1>3, <1>4
<1>6. WithoutRepeats(r)
  <2>1. ASSUME NEW i \in 1..n, NEW j \in 1..n, r[i] = r[j] PROVE i = j
    BY <1>1, <1>4, <2>1 DEF WithoutRepeats
  <2>2. QED
    BY <1>5, <2>1 DEF WithoutRepeats
<1>7. ASSUME NEW t \in StudyTask(I)
      PROVE  t \in Range(r) <=> t.band = b /\ t.day = d /\ t.issue \in Range(q)
  <2>1. ASSUME t \in Range(r) PROVE t.band = b /\ t.day = d /\ t.issue \in Range(q)
    <3>1. PICK i \in 1..n : r[i] = t
      BY <1>5, <2>1, ElementsAt
    <3>2. QED
      BY <1>1, <1>4, <3>1, ElementsAt
  <2>2. ASSUME t.band = b, t.day = d, t.issue \in Range(q) PROVE t \in Range(r)
    <3>1. PICK i \in 1..n : q[i] = t.issue
      BY <1>1, <2>2, ElementsAt
    <3>2. r[i] = [band |-> b, day |-> d, issue |-> t.issue]
      BY <1>3, <3>1
    <3>3. t = [band |-> b, day |-> d, issue |-> t.issue]
      BY <2>2 DEF StudyTask
    <3>4. QED
      BY <1>5, <3>2, <3>3, ElementsAt
  <2>3. QED
    BY <2>1, <2>2
<1>8. Range(r) \subseteq StudyTask(I)
  BY <1>5, ElementsAt
<1>9. QED
  BY <1>1, <1>5, <1>6, <1>7, <1>8

\* The lists a loop goes through.
LoopLists(days, lists, I) ==
    /\ days \in Seq(Nat) /\ WithoutRepeats(days) /\ Range(days) \subseteq ComparedDays
    /\ \A b \in BandNames, d \in ComparedDays : lists[<<b, d>>] \in Seq(I) /\ WithoutRepeats(lists[<<b, d>>])

LEMMA TasksOfBand ==
    ASSUME NEW I, NEW b \in BandNames, NEW days, NEW lists, LoopLists(days, lists, I)
    PROVE  /\ TasksIn(b, days, lists) \in Seq(StudyTask(I)) /\ WithoutRepeats(TasksIn(b, days, lists))
           /\ \A t \in StudyTask(I) :
                 t \in Range(TasksIn(b, days, lists)) <=>
                     t.band = b /\ t.day \in Range(days) /\ t.issue \in Range(lists[<<b, t.day>>])
           /\ \A t \in Range(TasksIn(b, days, lists)) : t \in StudyTask(I) /\ t.band = b
<1>1. /\ days \in Seq(Nat) /\ WithoutRepeats(days) /\ Range(days) \subseteq ComparedDays
      /\ \A d \in ComparedDays : lists[<<b, d>>] \in Seq(I) /\ WithoutRepeats(lists[<<b, d>>])
  BY DEF LoopLists
<1>2. PICK n, X : n = Len(days) /\ X = StudyTask(I)
  OBVIOUS
<1>3. /\ n \in Nat /\ DOMAIN days = 1..n /\ \A i \in 1..n : days[i] \in ComparedDays /\ days[i] \in Range(days)
      /\ \A d \in Range(days) : \E i \in 1..n : days[i] = d
  <2>1. /\ DOMAIN days = 1..Len(days) /\ Len(days) \in Nat
        /\ \A d : d \in Range(days) <=> \E i \in 1..Len(days) : days[i] = d
    BY <1>1, ElementsAt
  <2>2. QED
    BY <1>1, <1>2, <2>1
<1>4. PICK q : q = [j \in 1..n |-> TasksOf(b, days[j], lists[<<b, days[j]>>])]
  OBVIOUS
<1>5. ASSUME NEW j \in 1..n
      PROVE  /\ q[j] \in Seq(X) /\ WithoutRepeats(q[j])
             /\ \A t \in X : t \in Range(q[j]) <=> t.band = b /\ t.day = days[j] /\ t.issue \in Range(lists[<<b, days[j]>>])
             /\ \A t \in Range(q[j]) : t \in X
  <2>1. PICK d \in ComparedDays, l \in Seq(I) : d = days[j] /\ l = lists[<<b, days[j]>>] /\ WithoutRepeats(l)
    BY <1>1, <1>3
  <2>2. q[j] = TasksOf(b, d, l)
    BY <1>4, <2>1
  <2>3. /\ TasksOf(b, d, l) \in Seq(StudyTask(I)) /\ WithoutRepeats(TasksOf(b, d, l))
        /\ \A t \in StudyTask(I) :
                 t \in Range(TasksOf(b, d, l)) <=> t.band = b /\ t.day = d /\ t.issue \in Range(l)
        /\ \A t \in Range(TasksOf(b, d, l)) : t \in StudyTask(I)
    BY <2>1, TasksOfList, SMTT(30)
  <2>4. QED
    BY <1>2, <2>1, <2>2, <2>3
<1>6. q \in Seq(Seq(X)) /\ Len(q) = n
  BY <1>3, <1>4, <1>5
<1>7. Apart(q)
  <2>1. ASSUME NEW i \in 1..n, NEW j \in 1..n, i # j PROVE Range(q[i]) \cap Range(q[j]) = {}
    <3>1. days[i] # days[j]
      BY <1>1, <1>2, <2>1 DEF WithoutRepeats
    <3>2. ASSUME NEW t \in Range(q[i]) \cap Range(q[j]) PROVE FALSE
      <4>1. t \in X
        BY <1>5
      <4>2. t.day = days[i] /\ t.day = days[j]
        BY <1>5, <4>1
      <4>3. QED
        BY <3>1, <4>2
    <3>3. QED
      BY <3>2
  <2>2. QED
    BY <1>5, <1>6, <2>1 DEF Apart
<1>8. PICK r : r = TasksIn(b, days, lists) /\ r = Joined(q)
  BY <1>3, <1>4 DEF TasksIn
<1>9. r \in Seq(X) /\ WithoutRepeats(r) /\ \A t : t \in Range(r) <=> \E i \in 1..n : t \in Range(q[i])
  BY <1>6, <1>7, <1>8, JoinedElements, JoinedWithoutRepeats
<1>10. ASSUME NEW t \in X
       PROVE  t \in Range(r) <=> t.band = b /\ t.day \in Range(days) /\ t.issue \in Range(lists[<<b, t.day>>])
  <2>1. ASSUME t \in Range(r) PROVE t.band = b /\ t.day \in Range(days) /\ t.issue \in Range(lists[<<b, t.day>>])
    <3>1. PICK i \in 1..n : t \in Range(q[i])
      BY <1>9, <2>1
    <3>2. t.band = b /\ t.day = days[i] /\ t.issue \in Range(lists[<<b, days[i]>>])
      BY <1>5, <3>1
    <3>3. QED
      BY <1>3, <3>2
  <2>2. ASSUME t.band = b, t.day \in Range(days), t.issue \in Range(lists[<<b, t.day>>]) PROVE t \in Range(r)
    <3>1. PICK i \in 1..n : days[i] = t.day
      BY <1>3, <2>2
    <3>2. t \in Range(q[i])
      BY <1>5, <2>2, <3>1
    <3>3. QED
      BY <1>9, <3>2
  <2>3. QED
    BY <2>1, <2>2
<1>11. \A t \in Range(r) : t \in X /\ t.band = b
  BY <1>5, <1>9
<1>12. QED
  BY <1>2, <1>8, <1>9, <1>10, <1>11

LEMMA LoopTasks ==
    ASSUME NEW I, NEW days, NEW lists, LoopLists(days, lists, I)
    PROVE  /\ Loop(days, lists) \in Seq(StudyTask(I)) /\ WithoutRepeats(Loop(days, lists))
           /\ \A t \in StudyTask(I) :
                 t \in Range(Loop(days, lists)) <=> t.day \in Range(days) /\ t.issue \in Range(lists[<<t.band, t.day>>])
<1>1. BandOrder \in Seq(STRING) /\ WithoutRepeats(BandOrder)
  BY StudyOrders
<1>2. PICK n, X : n = Len(BandOrder) /\ X = StudyTask(I)
  OBVIOUS
<1>3. /\ n \in Nat /\ DOMAIN BandOrder = 1..n /\ \A i \in 1..n : BandOrder[i] \in BandNames
      /\ \A b \in BandNames : \E i \in 1..n : BandOrder[i] = b
  <2>1. /\ DOMAIN BandOrder = 1..Len(BandOrder) /\ Len(BandOrder) \in Nat
        /\ \A b : b \in Range(BandOrder) <=> \E i \in 1..Len(BandOrder) : BandOrder[i] = b
    BY <1>1, ElementsAt
  <2>2. QED
    BY <1>2, <2>1 DEF BandNames
<1>4. PICK q : q = [i \in 1..n |-> TasksIn(BandOrder[i], days, lists)]
  OBVIOUS
<1>5. ASSUME NEW i \in 1..n
      PROVE  /\ q[i] \in Seq(X) /\ WithoutRepeats(q[i])
             /\ \A t \in X : t \in Range(q[i]) <=>
                   t.band = BandOrder[i] /\ t.day \in Range(days) /\ t.issue \in Range(lists[<<t.band, t.day>>])
             /\ \A t \in Range(q[i]) : t \in X /\ t.band = BandOrder[i]
  <2>1. PICK b \in BandNames : b = BandOrder[i]
    BY <1>3
  <2>2. q[i] = TasksIn(b, days, lists)
    BY <1>4, <2>1
  <2>3. /\ TasksIn(b, days, lists) \in Seq(StudyTask(I)) /\ WithoutRepeats(TasksIn(b, days, lists))
        /\ \A t \in StudyTask(I) :
                 t \in Range(TasksIn(b, days, lists)) <=>
                     t.band = b /\ t.day \in Range(days) /\ t.issue \in Range(lists[<<b, t.day>>])
        /\ \A t \in Range(TasksIn(b, days, lists)) : t \in StudyTask(I) /\ t.band = b
    BY TasksOfBand
  <2>4. QED
    BY <1>2, <2>1, <2>2, <2>3
<1>6. q \in Seq(Seq(X)) /\ Len(q) = n
  BY <1>3, <1>4, <1>5
<1>7. Apart(q)
  <2>1. ASSUME NEW i \in 1..n, NEW j \in 1..n, i # j PROVE Range(q[i]) \cap Range(q[j]) = {}
    <3>1. BandOrder[i] # BandOrder[j]
      BY <1>1, <1>2, <2>1 DEF WithoutRepeats
    <3>2. QED
      BY <1>5, <3>1, SMTT(30)
  <2>2. QED
    BY <1>5, <1>6, <2>1 DEF Apart
<1>8. PICK r : r = Loop(days, lists) /\ r = Joined(q)
  BY <1>3, <1>4 DEF Loop, InBand
<1>9. r \in Seq(X) /\ WithoutRepeats(r) /\ \A t : t \in Range(r) <=> \E i \in 1..n : t \in Range(q[i])
  BY <1>6, <1>7, <1>8, JoinedElements, JoinedWithoutRepeats
<1>10. ASSUME NEW t \in X
       PROVE  t \in Range(r) <=> t.day \in Range(days) /\ t.issue \in Range(lists[<<t.band, t.day>>])
  <2>1. t \in Range(r) => t.day \in Range(days) /\ t.issue \in Range(lists[<<t.band, t.day>>])
    BY <1>5, <1>9
  <2>2. ASSUME t.day \in Range(days), t.issue \in Range(lists[<<t.band, t.day>>]) PROVE t \in Range(r)
    <3>1. PICK i \in 1..n : BandOrder[i] = t.band
      BY <1>2, <1>3 DEF StudyTask
    <3>2. t \in Range(q[i])
      BY <1>5, <2>2, <3>1
    <3>3. QED
      BY <1>9, <3>2
  <2>3. QED
    BY <2>1, <2>2
<1>11. QED
  BY <1>2, <1>8, <1>9, <1>10

-----------------------------------------------------------------------------
(* The rows *)

CourseOf == [profit : BOOLEAN, stopped : BOOLEAN, first : Nat, touch : {"profit", "stop", "close", "unknown"}]
Refusals == {"atr_danger", "caution_rsi", "other"}
StudyRow(I) ==
    [band : BandNames, issue : I, day : ComparedDays, used : SUBSET Int, judged : BOOLEAN, pre : BOOLEAN, at : Nat,
     post : {"yes", "no", "unknown"}, primary : {"none", "unavailable", "rsi", "atr", "market"},
     category : {"none", "unavailable"} \cup Refusals, level : Levels \cup {"flat", "unknown"},
     entry : Nat, held : Seq(Nat), net : Int, course : CourseOf]

\* What was known before the signal comes from earlier days; what came after it, from the prices held.
InHindsight(rec) ==
    /\ \A d \in rec.used : d < rec.day
    /\ rec.pre =>
           /\ rec.held[1] = rec.entry
           /\ rec.course.touch = "close" => ~rec.course.profit /\ ~rec.course.stopped
           /\ rec.course.touch = "profit" => rec.course.profit
           /\ rec.course.touch = "stop" => rec.course.stopped

\* One outcome of a signal: accepted, refused for a reason, or with no market to judge by.
OneOutcome(rec) ==
    /\ rec.post = "yes" => rec.pre /\ rec.category = "none" /\ rec.primary = "none"
    /\ rec.pre /\ rec.primary = "unavailable" => rec.post # "yes" /\ rec.category \notin Refusals
    /\ rec.pre /\ rec.post # "yes" /\ rec.primary # "unavailable" =>
           rec.category \in Refusals /\ rec.primary \in {"rsi", "atr", "market"}

LEMMA FirstBuyAt ==
    ASSUME NEW i, NEW bars \in Seq(Quote)
    PROVE  FirstBuy(i, bars) = 0 \/ FirstBuy(i, bars) \in 1..Len(bars)
<1>1. PICK buys : buys = {k \in DOMAIN bars : bars[k].price >= UPPER /\ study.rsi[i] # "weak"}
  OBVIOUS
<1>2. DOMAIN bars = 1..Len(bars) /\ Len(bars) \in Nat
  OBVIOUS
<1>3. buys \in SUBSET Nat /\ buys \subseteq 1..Len(bars)
  BY <1>1, <1>2
<1>4. FirstBuy(i, bars) = IF buys = {} THEN 0 ELSE Min(buys)
  BY <1>1 DEF FirstBuy
<1>5. CASE buys = {}
  BY <1>4, <1>5
<1>6. CASE buys # {}
  <2>1. Min(buys) \in buys
    BY <1>3, <1>6, Smallest
  <2>2. QED
    BY <1>3, <1>4, <1>6, <2>1
<1>7. QED
  BY <1>5, <1>6

LEMMA PricesHeld ==
    ASSUME NEW bars \in Seq(Quote), NEW at \in 1..Len(bars)
    PROVE  /\ HeldPrices(bars, at) \in Seq(Nat) /\ Len(HeldPrices(bars, at)) = Len(bars) - at + 1
           /\ HeldPrices(bars, at)[1] = bars[at].price /\ HeldPrices(bars, at) # <<>>
           /\ Last(HeldPrices(bars, at)) \in Nat /\ bars[at].price \in Nat
<1>0. Len(bars) \in Nat /\ Len(bars) - at + 1 \in Nat /\ Len(bars) - at + 1 >= 1
  OBVIOUS
<1>a. PICK n \in Nat : n = Len(bars) - at + 1 /\ n >= 1
  BY <1>0
<1>1. PICK q : n = Len(bars) - at + 1 /\ n >= 1 /\ q = HeldPrices(bars, at)
  BY <1>a
<1>b. ASSUME NEW i \in 1..Len(bars) PROVE bars[i].price \in Nat
  <2>1. bars[i] \in Quote
    OBVIOUS
  <2>2. QED
    BY <2>1 DEF Quote
<1>2. \A i \in 1..Len(bars) : bars[i].price \in Nat
  BY <1>b
<1>3. q = [i \in 1..n |-> bars[at + i - 1].price]
  BY <1>1 DEF HeldPrices
<1>4. \A i \in 1..n : at + i - 1 \in 1..Len(bars)
  BY <1>1
<1>5. \A i \in 1..n : q[i] \in Nat
  BY <1>2, <1>3, <1>4
<1>6. q \in Seq(Nat) /\ Len(q) = n /\ q # <<>>
  BY <1>1, <1>3, <1>5
<1>7. 1 \in 1..n /\ at + 1 - 1 = at
  BY <1>1
<1>8. q[1] = bars[at].price
  BY <1>3, <1>7
<1>9. Last(q) = q[n] /\ n \in 1..n
  BY <1>1, <1>6 DEF Last
<1>10. QED
  BY <1>1, <1>2, <1>5, <1>6, <1>8, <1>9

LEMMA CourseTold ==
    ASSUME NEW entry \in Nat, NEW q \in Seq(Nat), q # <<>>, NEW lock \in Int, NEW c, c = Excursion(entry, q, lock)
    PROVE  /\ c \in CourseOf /\ c.touch # "unknown"
           /\ c.touch = "close" => ~c.profit /\ ~c.stopped
           /\ c.touch = "profit" => c.profit
           /\ c.touch = "stop" => c.stopped
<1>1. STOP_LINE \in Int
  BY ComparisonAssumption
<1>2. PICK top, low : top = Max(Range(q)) /\ low = Min(Range(q))
  OBVIOUS
<1>3. q \in Seq(Int) /\ Range(q) \subseteq Int
  BY ElementsAt
<1>4. /\ top \in Range(q) /\ (\A e \in Range(q) : top >= e) /\ low \in Range(q) /\ (\A e \in Range(q) : low <= e)
      /\ top \in Int /\ low \in Int
  BY <1>2, <1>3, Extremes
<1>5. DOMAIN q = 1..Len(q) /\ \A i \in 1..Len(q) : q[i] \in Int /\ q[i] \in Range(q)
  BY ElementsAt
<1>6. PICK up \in Int, down \in Int : up = entry + lock /\ down = entry - STOP_LINE
  BY <1>1
<1>7. PICK touched : touched = {i \in DOMAIN q : q[i] >= up \/ q[i] <= down}
  OBVIOUS
<1>8. touched \in SUBSET Nat
  BY <1>5, <1>7
<1>9. PICK first : first = (IF touched = {} THEN 0 ELSE Min(touched))
  OBVIOUS
<1>a. PICK how : how = (IF first = 0 THEN "close" ELSE IF q[first] >= up THEN "profit" ELSE "stop")
  OBVIOUS
<1>10. c = [profit |-> top >= up, stopped |-> low <= down, first |-> first, touch |-> how]
  BY <1>2, <1>6, <1>7, <1>9, <1>a, Zenon DEF Excursion
<1>b. c.profit = (top >= up) /\ c.stopped = (low <= down) /\ c.first = first /\ c.touch = how
  BY <1>10
<1>c. (c.profit <=> top >= up) /\ (c.stopped <=> low <= down)
  BY <1>b, Zenon
<1>11. touched # {} => first \in touched
  BY <1>8, <1>9, Smallest
<1>12. first \in Nat
  BY <1>8, <1>9, <1>11
<1>13. c \in CourseOf /\ c.touch # "unknown"
  <2>1. how \in {"profit", "stop", "close", "unknown"} /\ how # "unknown"
    BY <1>a
  <2>2. (top >= up) \in BOOLEAN /\ (low <= down) \in BOOLEAN
    OBVIOUS
  <2>3. QED
    BY <1>10, <1>12, <2>1, <2>2 DEF CourseOf
<1>14. ASSUME c.touch = "close" PROVE ~c.profit /\ ~c.stopped
  <2>1. first = 0
    BY <1>a, <1>b, <1>14
  <2>2. touched = {}
    BY <1>5, <1>7, <1>11, <2>1
  <2>3. \E i \in 1..Len(q) : q[i] = top
    BY <1>4, ElementsAt
  <2>4. \E i \in 1..Len(q) : q[i] = low
    BY <1>4, ElementsAt
  <2>5. ~(top >= up) /\ ~(low <= down)
    BY <1>5, <1>7, <2>2, <2>3, <2>4
  <2>6. QED
    BY <1>c, <2>5, Zenon
<1>15. ASSUME c.touch = "profit" PROVE c.profit
  <2>1. first # 0 /\ q[first] >= up
    BY <1>a, <1>b, <1>15
  <2>2. first \in DOMAIN q
    BY <1>7, <1>9, <1>11, <2>1
  <2>3. top >= q[first] /\ q[first] \in Int
    BY <1>4, <1>5, <2>2
  <2>4. top >= up
    BY <1>4, <1>6, <2>1, <2>3
  <2>5. QED
    BY <1>c, <2>4, Zenon
<1>16. ASSUME c.touch = "stop" PROVE c.stopped
  <2>1. first # 0 /\ ~(q[first] >= up)
    BY <1>a, <1>b, <1>16
  <2>2. first \in touched
    BY <1>9, <1>11, <2>1
  <2>3. q[first] <= down /\ q[first] \in Int /\ q[first] \in Range(q)
    BY <1>5, <1>7, <2>1, <2>2
  <2>4. low <= down
    BY <1>4, <1>6, <2>3
  <2>5. QED
    BY <1>c, <2>4, Zenon
<1>17. QED
  BY <1>13, <1>14, <1>15, <1>16

LEMMA ReasonsTold ==
    ASSUME NEW i, NEW regime, NEW level, NEW reasons, reasons = SkipReasons(i, regime, level)
    PROVE  /\ reasons = <<>> <=> Strong(i, regime) /\ level # "DANGER" /\ regime # "DANGER"
           /\ reasons # <<>> => Head(reasons) \in {"rsi", "atr", "market"}
<1>1. CASE ~Strong(i, regime)
  <2>1. reasons = <<"rsi">>
    BY <1>1 DEF SkipReasons
  <2>2. QED
    BY <1>1, <2>1
<1>2. CASE Strong(i, regime)
  <2>1. PICK a, m : /\ a = (IF level = "DANGER" THEN <<"atr">> ELSE <<>>)
                    /\ m = (IF regime = "DANGER" THEN <<"market">> ELSE <<>>)
    OBVIOUS
  <2>2. reasons = a \o m
    BY <1>2, <2>1 DEF SkipReasons
  <2>3. CASE level = "DANGER" /\ regime = "DANGER"
    <3>1. a = <<"atr">> /\ m = <<"market">>
      BY <2>1, <2>3
    <3>b. Len(a \o m) = 2 /\ (a \o m)[1] = "atr"
      BY <3>1
    <3>2. reasons # <<>> /\ Head(reasons) = "atr"
      BY <2>2, <3>b
    <3>3. QED
      BY <1>2, <2>3, <3>2
  <2>4. CASE level = "DANGER" /\ regime # "DANGER"
    <3>1. a = <<"atr">> /\ m = <<>>
      BY <2>1, <2>4
    <3>2. reasons = <<"atr">>
      BY <2>2, <3>1
    <3>3. QED
      BY <1>2, <2>4, <3>2
  <2>5. CASE level # "DANGER" /\ regime = "DANGER"
    <3>1. a = <<>> /\ m = <<"market">>
      BY <2>1, <2>5
    <3>2. reasons = <<"market">>
      BY <2>2, <3>1
    <3>3. QED
      BY <1>2, <2>5, <3>2
  <2>6. CASE level # "DANGER" /\ regime # "DANGER"
    <3>1. a = <<>> /\ m = <<>>
      BY <2>1, <2>6
    <3>2. reasons = <<>>
      BY <2>2, <3>1
    <3>3. QED
      BY <1>2, <2>6, <3>2
  <2>7. QED
    BY <2>3, <2>4, <2>5, <2>6
<1>3. QED
  BY <1>1, <1>2

LEMMA CategoryTold ==
    ASSUME NEW i, NEW climate, NEW level, NEW reasons, reasons = SkipReasons(i, climate.regime, level),
           NEW category, category = Category(i, climate, level)
    PROVE  /\ ~climate.available => category = "unavailable"
           /\ climate.available /\ reasons = <<>> => category = "none"
           /\ climate.available /\ reasons # <<>> => category \in Refusals
<1>1. PICK regime : regime = climate.regime
  OBVIOUS
<1>2. reasons = <<>> <=> Strong(i, regime) /\ level # "DANGER" /\ regime # "DANGER"
  BY <1>1, ReasonsTold
<1>3. category = IF ~climate.available THEN "unavailable"
                 ELSE IF regime = "CAUTION" /\ ~Strong(i, regime) THEN "caution_rsi"
                 ELSE IF Strong(i, regime) /\ level = "DANGER" THEN "atr_danger"
                 ELSE IF reasons # <<>> THEN "other"
                 ELSE "none"
  BY <1>1 DEF Category
<1>4. QED
  BY <1>2, <1>3 DEF Refusals

LEMMA DayRowTold ==
    ASSUME KnownSymbols(study), KnownMarkets(study), NEW b \in BandNames, NEW i \in DOMAIN study.cached,
           NEW d \in ComparedDays, NEW bars \in Seq(Quote), NEW rec, rec = DayRow(b, i, d, bars)
    PROVE  /\ rec \in StudyRow(DOMAIN study.cached) /\ rec.band = b /\ rec.issue = i /\ rec.day = d
           /\ InHindsight(rec) /\ OneOutcome(rec)
           /\ rec.pre => Len(rec.held) <= Len(bars) - rec.at + 1
<1>1. /\ study.cached[i] \in BOOLEAN /\ study.level[i] \in Levels \cup {"flat"} /\ DOMAIN study.bars[i] \subseteq Int
      /\ study.climate[d].available \in BOOLEAN
  BY DEF KnownSymbols, KnownMarkets
<1>a. PICK climate, days : climate = study.climate[d] /\ days = DaysBefore(i, d)
  OBVIOUS
<1>b. PICK stored \in BOOLEAN : stored = study.cached[i]
  BY <1>1
<1>2. climate = study.climate[d] /\ days = DaysBefore(i, d) /\ stored = study.cached[i]
  BY <1>a, <1>b
<1>3. days \in SUBSET Int /\ \A e \in days : e < d
  BY <1>1, <1>2 DEF DaysBefore
<1>4. PICK level \in Levels \cup {"flat", "unknown"} : level = LevelOver(i, days)
  BY <1>1 DEF LevelOver, Unknown
<1>5. Measured(i, days) => level \in Levels
  BY <1>4 DEF Measured, Unknown, Levels
<1>6. PICK judged4 \in BOOLEAN : judged4 = (stored /\ Rated(i, days) /\ bars # <<>>)
  <2>1. (stored /\ Rated(i, days) /\ bars # <<>>) \in BOOLEAN
    BY Zenon
  <2>2. QED
    BY <2>1, Zenon
<1>7. PICK at \in Nat : at = (IF judged4 THEN FirstBuy(i, bars) ELSE 0) /\ (at = 0 \/ at \in 1..Len(bars))
  <2>1. FirstBuy(i, bars) = 0 \/ FirstBuy(i, bars) \in 1..Len(bars)
    BY FirstBuyAt
  <2>2. QED
    BY <2>1
<1>8. PICK held, reasons : held = (IF at = 0 THEN <<>> ELSE HeldPrices(bars, at))
                           /\ reasons = SkipReasons(i, climate.regime, level)
  OBVIOUS
<1>9. at # 0 => /\ held \in Seq(Nat) /\ Len(held) = Len(bars) - at + 1 /\ held[1] = bars[at].price
                /\ held # <<>> /\ Last(held) \in Nat /\ bars[at].price \in Nat
  BY <1>7, <1>8, PricesHeld
<1>10. held \in Seq(Nat)
  BY <1>8, <1>9
<1>11. PICK post, primary, category :
          /\ post = (IF at = 0 THEN "no" ELSE IF ~climate.available THEN "unknown"
                     ELSE IF reasons = <<>> THEN "yes" ELSE "no")
          /\ primary = (IF at = 0 THEN "none" ELSE IF ~climate.available THEN "unavailable"
                        ELSE IF reasons = <<>> THEN "none" ELSE Head(reasons))
          /\ category = (IF at = 0 THEN "none" ELSE Category(i, climate, level))
  OBVIOUS
<1>12. PICK entry : entry = (IF at = 0 THEN 0 ELSE bars[at].price)
  OBVIOUS
<1>13. PICK net : net = (IF at = 0 \/ level = "unknown" THEN 0 ELSE VirtualNet(bars[at].price, Last(held)))
  OBVIOUS
<1>14. PICK course : course = (IF at # 0 /\ Measured(i, days)
                               THEN Excursion(bars[at].price, held, LockLine[level]) ELSE NoExcursion)
  OBVIOUS
<1>15. PICK used : used = (IF stored THEN days ELSE {})
  OBVIOUS
<1>16. PICK pre \in BOOLEAN : pre <=> at # 0
  OBVIOUS
<1>17. rec = [band |-> b, issue |-> i, day |-> d, used |-> used, judged |-> judged4, pre |-> at # 0, at |-> at,
              post |-> post, primary |-> primary, category |-> category, level |-> level, entry |-> entry,
              held |-> held, net |-> net, course |-> course]
  BY <1>2, <1>4, <1>6, <1>7, <1>8, <1>11, <1>12, <1>13, <1>14, <1>15, Zenon DEF DayRow, Unknown
<1>18. (at # 0) = pre
  BY <1>16
<1>19. rec = [band |-> b, issue |-> i, day |-> d, used |-> used, judged |-> judged4, pre |-> pre, at |-> at,
              post |-> post, primary |-> primary, category |-> category, level |-> level, entry |-> entry,
              held |-> held, net |-> net, course |-> course]
  BY <1>17, <1>18, Zenon
<1>20. at # 0 => /\ ~climate.available => category = "unavailable"
                 /\ climate.available /\ reasons = <<>> => category = "none"
                 /\ climate.available /\ reasons # <<>> => category \in Refusals
  BY <1>8, <1>11, CategoryTold
<1>21. reasons # <<>> => Head(reasons) \in {"rsi", "atr", "market"}
  BY <1>8, ReasonsTold
<1>22. /\ post \in {"yes", "no", "unknown"} /\ primary \in {"none", "unavailable", "rsi", "atr", "market"}
       /\ category \in {"none", "unavailable"} \cup Refusals
  BY <1>1, <1>2, <1>11, <1>20, <1>21
<1>23. entry \in Nat /\ used \in SUBSET Int /\ \A e \in used : e < d
  BY <1>3, <1>9, <1>12, <1>15
<1>24. net \in Int
  <2>1. SHARES \in Int /\ RATE \in Int /\ TICK \in Int
    BY ComparisonAssumption
  <2>2. ASSUME NEW e \in Int, NEW c \in Int PROVE VirtualNet(e, c) \in Int
    <3>1. (c - e) * SHARES \in Int /\ (e + c) * SHARES \in Int /\ TICK * SHARES \in Int
      BY <2>1
    <3>2. PICK u \in Int, v \in Int, w \in Int : u = (c - e) * SHARES /\ v = (e + c) * SHARES /\ w = TICK * SHARES
      BY <3>1
    <3>3. v * RATE \in Int
      BY <2>1
    <3>4. VirtualNet(e, c) = u - v * RATE - w
      BY <3>2 DEF VirtualNet
    <3>5. QED
      BY <3>3, <3>4
  <2>3. QED
    BY <1>9, <1>13, <2>2
<1>25. at # 0 /\ Measured(i, days) =>
          /\ course \in CourseOf /\ course.touch # "unknown"
          /\ course.touch = "close" => ~course.profit /\ ~course.stopped
          /\ course.touch = "profit" => course.profit
          /\ course.touch = "stop" => course.stopped
  <2>1. SUFFICES ASSUME at # 0, Measured(i, days)
                 PROVE  /\ course \in CourseOf /\ course.touch # "unknown"
                        /\ course.touch = "close" => ~course.profit /\ ~course.stopped
                        /\ course.touch = "profit" => course.profit
                        /\ course.touch = "stop" => course.stopped
    OBVIOUS
  <2>2. LockLine[level] \in Int
    BY <1>5, <2>1, ComparisonAssumption
  <2>3. PICK e \in Nat, lock \in Int : e = bars[at].price /\ lock = LockLine[level]
    BY <1>9, <2>1, <2>2
  <2>4. course = Excursion(e, held, lock)
    BY <1>14, <2>1, <2>3
  <2>5. QED
    BY <1>9, <2>1, <2>4, CourseTold
<1>26. ~(at # 0 /\ Measured(i, days)) => course = NoExcursion
  BY <1>14
<1>27. NoExcursion \in CourseOf /\ NoExcursion.touch = "unknown"
  BY DEF NoExcursion, CourseOf, Unknown
<1>28. course \in CourseOf
  BY <1>25, <1>26, <1>27
<1>29. rec \in StudyRow(DOMAIN study.cached)
  BY <1>10, <1>19, <1>22, <1>23, <1>24, <1>28 DEF StudyRow
<1>30. InHindsight(rec)
  <2>1. rec.used = used /\ rec.day = d /\ rec.pre = pre /\ rec.held = held /\ rec.entry = entry /\ rec.course = course
    BY <1>19
  <2>2. /\ course.touch = "close" => ~course.profit /\ ~course.stopped
        /\ course.touch = "profit" => course.profit
        /\ course.touch = "stop" => course.stopped
    BY <1>25, <1>26, <1>27
  <2>3. pre => held[1] = entry
    BY <1>9, <1>12, <1>16
  <2>4. QED
    BY <1>23, <2>1, <2>2, <2>3 DEF InHindsight
<1>31. OneOutcome(rec)
  <2>1. rec.post = post /\ rec.pre = pre /\ rec.category = category /\ rec.primary = primary
    BY <1>19
  <2>2. post = "yes" => at # 0 /\ climate.available /\ reasons = <<>>
    BY <1>11
  <2>3. post = "yes" => pre /\ category = "none" /\ primary = "none"
    BY <1>11, <1>16, <1>20, <2>2
  <2>4. at # 0 /\ primary = "unavailable" => ~climate.available
    BY <1>11, <1>21
  <2>5. pre /\ primary = "unavailable" => post # "yes" /\ category \notin Refusals
    BY <1>11, <1>16, <1>20, <2>4 DEF Refusals
  <2>6. at # 0 /\ post # "yes" /\ primary # "unavailable" => climate.available /\ reasons # <<>>
    BY <1>11
  <2>7. pre /\ post # "yes" /\ primary # "unavailable" => category \in Refusals /\ primary \in {"rsi", "atr", "market"}
    BY <1>11, <1>16, <1>20, <1>21, <2>6
  <2>8. QED
    BY <2>1, <2>3, <2>5, <2>7 DEF OneOutcome
<1>32. rec.pre => Len(rec.held) <= Len(bars) - rec.at + 1
  <2>1. rec.pre = pre /\ rec.held = held /\ rec.at = at
    BY <1>19
  <2>2. pre => Len(held) = Len(bars) - at + 1 /\ Len(bars) \in Nat
    BY <1>9, <1>16
  <2>3. pre => Len(held) <= Len(bars) - at + 1
    BY <2>2
  <2>4. QED
    BY <2>1, <2>3
<1>33. QED
  BY <1>19, <1>29, <1>30, <1>31, <1>32

-----------------------------------------------------------------------------
(* Counting *)

\* The elements of a list are finitely many, as many as it is long if none is there twice.
LEMMA ListAsSet ==
    ASSUME NEW T, NEW q \in Seq(T)
    PROVE  /\ IsFiniteSet(Range(q)) /\ Cardinality(Range(q)) \in Nat
           /\ WithoutRepeats(q) => Cardinality(Range(q)) = Len(q)
<1>1. PICK n, S : n \in Nat /\ n = Len(q) /\ S = Range(q)
  OBVIOUS
<1>2. DOMAIN q = 1..n /\ (\A i \in 1..n : q[i] \in S) /\ \A e \in S : \E i \in 1..n : q[i] = e
  BY <1>1, ElementsAt
<1>3. PICK f : f = [i \in 1..n |-> q[i]]
  OBVIOUS
<1>4. f \in [1..n -> S]
  BY <1>2, <1>3
<1>5. f \in Surjection(1..n, S)
  BY <1>2, <1>3, <1>4 DEF Surjection
<1>6. IsFiniteSet(1..n) /\ Cardinality(1..n) = n
  <2>1. n \in Nat
    BY <1>1
  <2>2. QED
    BY <2>1, FS_Interval
<1>7. IsFiniteSet(S) /\ (Cardinality(S) = n <=> f \in Injection(1..n, S))
  BY <1>5, <1>6, FS_Surjection
<1>8. Cardinality(S) \in Nat
  BY <1>7, FS_CardinalityType
<1>9. ASSUME WithoutRepeats(q) PROVE f \in Injection(1..n, S)
  <2>1. \A i \in 1..n, j \in 1..n : f[i] = f[j] => i = j
    BY <1>1, <1>3, <1>9 DEF WithoutRepeats
  <2>2. DOMAIN f = 1..n
    BY <1>4
  <2>3. IsInjective(f)
    BY <2>1, <2>2 DEF IsInjective
  <2>4. QED
    BY <1>4, <2>3 DEF Injection
<1>10. QED
  BY <1>1, <1>7, <1>8, <1>9

\* The places of some elements in a list.
Places(q, wanted) == {i \in 1..Len(q) : q[i] \in wanted}

LEMMA PlacesCounted ==
    ASSUME NEW T, NEW q \in Seq(T), NEW wanted
    PROVE  /\ Len(Picked(q, wanted)) = Cardinality(Places(q, wanted))
           /\ IsFiniteSet(Places(q, wanted)) /\ Cardinality(Places(q, wanted)) \in Nat
           /\ Cardinality(Places(q, wanted)) = 0 <=> Places(q, wanted) = {}
<1>1. PICK n, S : n \in Nat /\ n = Len(q) /\ S = Places(q, wanted)
  OBVIOUS
<1>2. IsFiniteSet(1..n) /\ S \in SUBSET (1..n)
  BY <1>1, FS_Interval DEF Places
<1>3. IsFiniteSet(S)
  BY <1>2, FS_Subset
<1>4. Cardinality(S) \in Nat /\ (Cardinality(S) = 0 <=> S = {})
  BY <1>3, FS_CardinalityType, FS_EmptySet
<1>5. QED
  BY <1>1, <1>3, <1>4, PickedLength DEF Places

\* What is counted in two parts.
LEMMA TwoCounts ==
    ASSUME NEW T, NEW q \in Seq(T), NEW all, NEW one, NEW other,
           \A e \in Range(q) : /\ e \in all <=> e \in one \/ e \in other
                               /\ ~(e \in one /\ e \in other)
    PROVE  /\ Len(Picked(q, all)) = Len(Picked(q, one)) + Len(Picked(q, other))
           /\ Len(Picked(q, one)) \in Nat /\ Len(Picked(q, other)) \in Nat
<1>1. PICK S, A, B : S = Places(q, all) /\ A = Places(q, one) /\ B = Places(q, other)
  OBVIOUS
<1>2. \A i \in 1..Len(q) : q[i] \in Range(q)
  BY ElementsAt
<1>3. A \cup B = S /\ A \cap B = {}
  BY <1>1, <1>2 DEF Places
<1>4. /\ IsFiniteSet(S) /\ Len(Picked(q, all)) = Cardinality(S)
      /\ Len(Picked(q, one)) = Cardinality(A) /\ Len(Picked(q, other)) = Cardinality(B)
      /\ Cardinality(A) \in Nat /\ Cardinality(B) \in Nat
  BY <1>1, PlacesCounted
<1>5. Cardinality(S) = Cardinality(A) + Cardinality(B)
  BY <1>3, <1>4, PartsAddUp
<1>6. QED
  BY <1>4, <1>5

\* What is counted by kinds.
LEMMA CountsByKind ==
    ASSUME NEW T, NEW q \in Seq(T), NEW all, NEW D, IsFiniteSet(D), NEW parts, NEW v, v = [k \in D |-> Len(Picked(q, parts[k]))],
           \A e \in Range(q) : \A k \in D : e \in parts[k] => e \in all,
           \A e \in Range(q) : e \in all => \E k \in D : e \in parts[k],
           \A e \in Range(q) : \A k \in D, l \in D : e \in parts[k] /\ e \in parts[l] => k = l
    PROVE  SumUp(v, D) = Len(Picked(q, all))
<1>1. PICK C : C = Places(q, all)
  OBVIOUS
<1>2. IsFiniteSet(C) /\ Len(Picked(q, all)) = Cardinality(C)
  BY <1>1, PlacesCounted
<1>3. \A i \in 1..Len(q) : q[i] \in Range(q)
  BY ElementsAt
<1>4. PICK kind : kind = [i \in C |-> CHOOSE k \in D : q[i] \in parts[k]]
  OBVIOUS
<1>5. ASSUME NEW i \in C PROVE kind[i] \in D /\ q[i] \in parts[kind[i]]
  <2>1. q[i] \in Range(q) /\ q[i] \in all
    BY <1>1, <1>3 DEF Places
  <2>2. \E k \in D : q[i] \in parts[k]
    BY <2>1
  <2>3. QED
    BY <1>4, <2>2
<1>6. kind \in [C -> D]
  BY <1>4, <1>5
<1>7. ASSUME NEW k \in D PROVE v[k] = Cardinality({i \in C : kind[i] = k}) /\ v[k] \in Int
  <2>1. {i \in C : kind[i] = k} = Places(q, parts[k])
    <3>1. ASSUME NEW i \in C, kind[i] = k PROVE i \in Places(q, parts[k])
      BY <1>1, <1>5, <3>1 DEF Places
    <3>2. ASSUME NEW i \in Places(q, parts[k]) PROVE i \in C /\ kind[i] = k
      <4>1. i \in 1..Len(q) /\ q[i] \in parts[k] /\ q[i] \in Range(q)
        BY <1>3 DEF Places
      <4>2. q[i] \in all
        BY <4>1
      <4>3. i \in C
        BY <1>1, <4>1, <4>2 DEF Places
      <4>4. kind[i] \in D /\ q[i] \in parts[kind[i]]
        BY <1>5, <4>3
      <4>5. QED
        BY <4>1, <4>3, <4>4
    <3>3. QED
      BY <3>1, <3>2
  <2>2. PICK w : w = parts[k]
    OBVIOUS
  <2>3. Len(Picked(q, w)) = Cardinality(Places(q, w)) /\ Cardinality(Places(q, w)) \in Nat
    BY PlacesCounted
  <2>4. v[k] = Len(Picked(q, w))
    BY <2>2
  <2>5. v[k] = Cardinality({i \in C : kind[i] = k})
    BY <2>1, <2>2, <2>3, <2>4
  <2>6. QED
    BY <2>3, <2>4, <2>5
<1>8. v \in [D -> Int]
  BY <1>7
<1>9. SumOver(v, D) = Cardinality(C)
  <2>1. PICK u : u = v
    OBVIOUS
  <2>2. \A k \in D : u[k] = Cardinality({i \in C : kind[i] = k})
    BY <1>7, <2>1
  <2>3. IsFiniteSet(C) /\ IsFiniteSet(D) /\ kind \in [C -> D] /\ u \in [D -> Int]
    BY <1>2, <1>6, <1>8, <2>1
  <2>4. SumOver(u, D) = Cardinality(C)
    BY ONLY <2>2, <2>3, SumOfCounts
  <2>5. QED
    BY <2>1, <2>4
<1>10. SumUp(v, D) = SumOver(v, D)
  BY DEF SumUp, SumOver
<1>11. QED
  BY <1>2, <1>9, <1>10

\* What the outcomes of some rows say of one another.
TableOf(q) ==
    /\ SumUp([r \in Reasons |-> Len(OutcomesOf(q, r))], Reasons) + DailyBy(q, "unavailable") = Signals(q)
    /\ \A r \in Reasons :
           LossesOf(q, r) + ProfitsOf(q, r) + EvensOf(q, r)
               = CountOf(OutcomesOf(q, r), LAMBDA rec : Evaluable(rec))
    /\ DailyBy(q, "rsi") + DailyBy(q, "atr") + DailyBy(q, "market")
           + DailyBy(q, "unavailable") + CountOf(q, LAMBDA rec : rec.post = "yes")
           = Signals(q)
    /\ SumUp([date \in ComparedDays |-> Signals(OfDay(q, date))], ComparedDays) = Signals(q)

\* The rows of a table.
Tabled(q, I) == q \in Seq(StudyRow(I)) /\ \A rec \in Range(q) : OneOutcome(rec)

LEMMA ReasonsAddUp ==
    ASSUME NEW I, NEW q, Tabled(q, I)
    PROVE  SumUp([r \in Reasons |-> Len(OutcomesOf(q, r))], Reasons) + DailyBy(q, "unavailable") = Signals(q)
<1>1. PICK S, U, C : /\ S = {rec \in Range(q) : rec.pre}
                     /\ U = {rec \in Range(q) : rec.pre /\ rec.primary = "unavailable"}
                     /\ C = {rec \in Range(q) : rec.pre /\ rec.primary # "unavailable"}
  OBVIOUS
<1>2. q \in Seq(StudyRow(I))
  BY DEF Tabled
<1>3. Signals(q) = Len(Picked(q, S)) /\ DailyBy(q, "unavailable") = Len(Picked(q, U))
  BY <1>1, Zenon DEF Signals, DailyBy, CountOf, RowsWith
<1>4. PICK parts : parts = [r \in Reasons |->
          {rec \in Range(q) : rec.pre /\ IF r = "accepted" THEN rec.post = "yes" ELSE rec.category = r}]
  OBVIOUS
<1>5. ASSUME NEW r \in Reasons PROVE OutcomesOf(q, r) = Picked(q, parts[r])
  BY <1>4, Zenon DEF OutcomesOf, RowsWith
<1>6. PICK v : v = [r \in Reasons |-> Len(Picked(q, parts[r]))]
  OBVIOUS
<1>7. v = [r \in Reasons |-> Len(OutcomesOf(q, r))]
  BY <1>5, <1>6
<1>8. IsFiniteSet(Reasons)
  <2>1. Reasons = ((({} \cup {"atr_danger"}) \cup {"caution_rsi"}) \cup {"other"}) \cup {"accepted"}
    BY DEF Reasons
  <2>2. QED
    BY <2>1, FS_EmptySet, FS_AddElement, Zenon
<1>9. Reasons = Refusals \cup {"accepted"} /\ "accepted" \notin Refusals
  BY DEF Reasons, Refusals
<1>10. ASSUME NEW rec \in Range(q)
       PROVE  /\ rec.post = "yes" => rec.pre /\ rec.category = "none" /\ rec.primary = "none"
              /\ rec.pre /\ rec.primary = "unavailable" => rec.post # "yes" /\ rec.category \notin Refusals
              /\ rec.pre /\ rec.post # "yes" /\ rec.primary # "unavailable" => rec.category \in Refusals
  BY DEF Tabled, OneOutcome
<1>11. "none" \notin Refusals
  BY DEF Refusals
<1>12. ASSUME NEW rec \in Range(q), NEW r \in Reasons
       PROVE  /\ rec \in parts[r] <=> rec.pre /\ IF r = "accepted" THEN rec.post = "yes" ELSE rec.category = r
              /\ rec \in C <=> rec.pre /\ rec.primary # "unavailable"
  BY <1>1, <1>4
<1>13. \A rec \in Range(q) : \A r \in Reasons : rec \in parts[r] => rec \in C
  BY <1>9, <1>10, <1>12
<1>14. \A rec \in Range(q) : rec \in C => \E r \in Reasons : rec \in parts[r]
  <2>1. ASSUME NEW rec \in Range(q), rec \in C PROVE \E r \in Reasons : rec \in parts[r]
    <3>1. CASE rec.post = "yes"
      <4>1. "accepted" \in Reasons /\ rec \in parts["accepted"]
        BY <1>9, <1>12, <2>1, <3>1
      <4>2. QED
        BY <4>1
    <3>2. CASE rec.post # "yes"
      <4>1. PICK r \in Refusals : r = rec.category
        BY <1>9, <1>10, <1>12, <2>1, <3>2
      <4>2. r \in Reasons /\ rec \in parts[r]
        BY <1>9, <1>12, <2>1, <4>1
      <4>3. QED
        BY <4>2
    <3>3. QED
      BY <3>1, <3>2
  <2>2. QED
    BY <2>1
<1>15. \A rec \in Range(q) : \A k \in Reasons, l \in Reasons : rec \in parts[k] /\ rec \in parts[l] => k = l
  BY <1>9, <1>10, <1>11, <1>12
<1>16. SumUp(v, Reasons) = Len(Picked(q, C))
  BY <1>2, <1>6, <1>8, <1>13, <1>14, <1>15, CountsByKind
<1>17. /\ Len(Picked(q, S)) = Len(Picked(q, C)) + Len(Picked(q, U))
       /\ Len(Picked(q, C)) \in Nat /\ Len(Picked(q, U)) \in Nat
  <2>1. \A rec \in Range(q) : (rec \in S <=> rec \in C \/ rec \in U) /\ ~(rec \in C /\ rec \in U)
    BY <1>1
  <2>2. QED
    BY <1>2, <2>1, TwoCounts
<1>18. QED
  BY <1>3, <1>7, <1>16, <1>17

LEMMA NetsAddUp ==
    ASSUME NEW I, NEW q, Tabled(q, I), NEW r
    PROVE  LossesOf(q, r) + ProfitsOf(q, r) + EvensOf(q, r)
               = CountOf(OutcomesOf(q, r), LAMBDA rec : Evaluable(rec))
<1>1. q \in Seq(StudyRow(I))
  BY DEF Tabled
<1>2. PICK p : p = OutcomesOf(q, r)
  OBVIOUS
<1>3. p \in Seq(StudyRow(I))
  <2>1. PICK W : W = {rec \in Range(q) : rec.pre /\ IF r = "accepted" THEN rec.post = "yes" ELSE rec.category = r}
    OBVIOUS
  <2>2. p = Picked(q, W)
    BY <1>2, <2>1, Zenon DEF OutcomesOf, RowsWith
  <2>3. QED
    BY <1>1, <2>2, PickedElements
<1>4. PICK E, A, B, C, D :
         /\ E = {rec \in Range(p) : Evaluable(rec)}
         /\ A = {rec \in Range(p) : Evaluable(rec) /\ rec.net < 0}
         /\ B = {rec \in Range(p) : Evaluable(rec) /\ rec.net > 0}
         /\ C = {rec \in Range(p) : Evaluable(rec) /\ rec.net = 0}
         /\ D = {rec \in Range(p) : Evaluable(rec) /\ rec.net >= 0}
  OBVIOUS
<1>5. /\ LossesOf(q, r) = Len(Picked(p, A)) /\ ProfitsOf(q, r) = Len(Picked(p, B))
      /\ EvensOf(q, r) = Len(Picked(p, C))
      /\ CountOf(OutcomesOf(q, r), LAMBDA rec : Evaluable(rec)) = Len(Picked(p, E))
  BY <1>2, <1>4, Zenon DEF LossesOf, ProfitsOf, EvensOf, CountOf, RowsWith
<1>6. \A rec \in Range(p) : rec.net \in Int
  <2>1. \A rec \in Range(p) : rec \in StudyRow(I)
    BY <1>3, ElementsAt
  <2>2. QED
    BY <2>1 DEF StudyRow
<1>7. /\ Len(Picked(p, E)) = Len(Picked(p, A)) + Len(Picked(p, D))
      /\ Len(Picked(p, A)) \in Nat /\ Len(Picked(p, D)) \in Nat
  <2>1. \A rec \in Range(p) : (rec \in E <=> rec \in A \/ rec \in D) /\ ~(rec \in A /\ rec \in D)
    BY <1>4, <1>6
  <2>2. QED
    BY <1>3, <2>1, TwoCounts
<1>8. /\ Len(Picked(p, D)) = Len(Picked(p, B)) + Len(Picked(p, C))
      /\ Len(Picked(p, B)) \in Nat /\ Len(Picked(p, C)) \in Nat
  <2>1. \A rec \in Range(p) : (rec \in D <=> rec \in B \/ rec \in C) /\ ~(rec \in B /\ rec \in C)
    BY <1>4, <1>6
  <2>2. QED
    BY <1>3, <2>1, TwoCounts
<1>9. QED
  BY <1>5, <1>7, <1>8

LEMMA FirstReasonsAddUp ==
    ASSUME NEW I, NEW q, Tabled(q, I)
    PROVE  DailyBy(q, "rsi") + DailyBy(q, "atr") + DailyBy(q, "market")
               + DailyBy(q, "unavailable") + CountOf(q, LAMBDA rec : rec.post = "yes")
               = Signals(q)
<1>1. q \in Seq(StudyRow(I))
  BY DEF Tabled
<1>2. PICK S, A, B, C, D, E :
         /\ S = {rec \in Range(q) : rec.pre}
         /\ A = {rec \in Range(q) : rec.pre /\ rec.primary = "rsi"}
         /\ B = {rec \in Range(q) : rec.pre /\ rec.primary = "atr"}
         /\ C = {rec \in Range(q) : rec.pre /\ rec.primary = "market"}
         /\ D = {rec \in Range(q) : rec.pre /\ rec.primary = "unavailable"}
         /\ E = {rec \in Range(q) : rec.post = "yes"}
  OBVIOUS
<1>3. PICK X, Y, Z :
         /\ X = {rec \in Range(q) : rec.pre /\ rec.primary # "rsi"}
         /\ Y = {rec \in Range(q) : rec.pre /\ rec.primary \notin {"rsi", "atr"}}
         /\ Z = {rec \in Range(q) : rec.pre /\ rec.primary \notin {"rsi", "atr", "market"}}
  OBVIOUS
<1>4. /\ Signals(q) = Len(Picked(q, S)) /\ DailyBy(q, "rsi") = Len(Picked(q, A))
      /\ DailyBy(q, "atr") = Len(Picked(q, B)) /\ DailyBy(q, "market") = Len(Picked(q, C))
      /\ DailyBy(q, "unavailable") = Len(Picked(q, D))
      /\ CountOf(q, LAMBDA rec : rec.post = "yes") = Len(Picked(q, E))
  BY <1>2, Zenon DEF Signals, DailyBy, CountOf, RowsWith
<1>5. ASSUME NEW rec \in Range(q)
      PROVE  /\ rec.post = "yes" => rec.pre /\ rec.primary = "none"
             /\ rec.pre /\ rec.primary = "unavailable" => rec.post # "yes"
             /\ rec.pre /\ rec.post # "yes" /\ rec.primary # "unavailable" => rec.primary \in {"rsi", "atr", "market"}
  BY DEF Tabled, OneOutcome
<1>6. /\ Len(Picked(q, S)) = Len(Picked(q, A)) + Len(Picked(q, X))
      /\ Len(Picked(q, A)) \in Nat /\ Len(Picked(q, X)) \in Nat
  <2>1. \A rec \in Range(q) : (rec \in S <=> rec \in A \/ rec \in X) /\ ~(rec \in A /\ rec \in X)
    BY <1>2, <1>3
  <2>2. QED
    BY <1>1, <2>1, TwoCounts
<1>7. /\ Len(Picked(q, X)) = Len(Picked(q, B)) + Len(Picked(q, Y))
      /\ Len(Picked(q, B)) \in Nat /\ Len(Picked(q, Y)) \in Nat
  <2>1. \A rec \in Range(q) : (rec \in X <=> rec \in B \/ rec \in Y) /\ ~(rec \in B /\ rec \in Y)
    BY <1>2, <1>3
  <2>2. QED
    BY <1>1, <2>1, TwoCounts
<1>8. /\ Len(Picked(q, Y)) = Len(Picked(q, C)) + Len(Picked(q, Z))
      /\ Len(Picked(q, C)) \in Nat /\ Len(Picked(q, Z)) \in Nat
  <2>1. \A rec \in Range(q) : (rec \in Y <=> rec \in C \/ rec \in Z) /\ ~(rec \in C /\ rec \in Z)
    BY <1>2, <1>3
  <2>2. QED
    BY <1>1, <2>1, TwoCounts
<1>9. /\ Len(Picked(q, Z)) = Len(Picked(q, D)) + Len(Picked(q, E))
      /\ Len(Picked(q, D)) \in Nat /\ Len(Picked(q, E)) \in Nat
  <2>1. \A rec \in Range(q) : (rec \in Z <=> rec \in D \/ rec \in E) /\ ~(rec \in D /\ rec \in E)
    BY <1>2, <1>3, <1>5
  <2>2. QED
    BY <1>1, <2>1, TwoCounts
<1>10. Len(Picked(q, A)) + Len(Picked(q, B)) + Len(Picked(q, C)) + Len(Picked(q, D)) + Len(Picked(q, E))
           = Len(Picked(q, S))
  BY <1>6, <1>7, <1>8, <1>9
<1>11. QED
  BY <1>4, <1>10, Zenon

LEMMA DaysAddUp ==
    ASSUME NEW I, NEW q, Tabled(q, I)
    PROVE  SumUp([date \in ComparedDays |-> Signals(OfDay(q, date))], ComparedDays) = Signals(q)
<1>1. q \in Seq(StudyRow(I))
  BY DEF Tabled
<1>2. PICK S : S = {rec \in Range(q) : rec.pre}
  OBVIOUS
<1>3. Signals(q) = Len(Picked(q, S))
  BY <1>2, Zenon DEF Signals, CountOf, RowsWith
<1>4. IsFiniteSet(ComparedDays)
  BY StudyOrders, ListAsSet DEF ComparedDays
<1>5. PICK parts : parts = [date \in ComparedDays |-> {rec \in Range(q) : rec.pre /\ rec.day = date}]
  OBVIOUS
<1>6. ASSUME NEW date \in ComparedDays PROVE Signals(OfDay(q, date)) = Len(Picked(q, parts[date]))
  <2>1. PICK W : W = {rec \in Range(q) : rec.day = date}
    OBVIOUS
  <2>2. PICK p : p = OfDay(q, date) /\ p = Picked(q, W)
    BY <2>1, Zenon DEF OfDay, RowsWith
  <2>3. PICK V : V = {rec \in Range(p) : rec.pre}
    OBVIOUS
  <2>4. Signals(p) = Len(Picked(p, V))
    BY <2>3, Zenon DEF Signals, CountOf, RowsWith
  <2>5. Picked(p, V) = Picked(q, W \cap V)
    BY <1>1, <2>2, PickedTwice
  <2>6. Range(p) = Range(q) \cap W
    BY <1>1, <2>2, PickedElements
  <2>7. W \cap V = parts[date]
    BY <1>5, <2>1, <2>3, <2>6
  <2>8. QED
    BY <2>2, <2>4, <2>5, <2>7
<1>7. PICK v : v = [date \in ComparedDays |-> Len(Picked(q, parts[date]))]
  OBVIOUS
<1>8. v = [date \in ComparedDays |-> Signals(OfDay(q, date))]
  BY <1>6, <1>7
<1>9. \A rec \in Range(q) : rec.day \in ComparedDays
  <2>1. \A rec \in Range(q) : rec \in StudyRow(I)
    BY <1>1, ElementsAt
  <2>2. QED
    BY <2>1 DEF StudyRow
<1>10. ASSUME NEW rec \in Range(q), NEW date \in ComparedDays
       PROVE  (rec \in parts[date] <=> rec.pre /\ rec.day = date) /\ (rec \in S <=> rec.pre)
  BY <1>2, <1>5
<1>11. /\ \A rec \in Range(q) : \A k \in ComparedDays : rec \in parts[k] => rec \in S
       /\ \A rec \in Range(q) : rec \in S => \E k \in ComparedDays : rec \in parts[k]
       /\ \A rec \in Range(q) : \A k \in ComparedDays, l \in ComparedDays : rec \in parts[k] /\ rec \in parts[l] => k = l
  BY <1>9, <1>10
<1>12. SumUp(v, ComparedDays) = Len(Picked(q, S))
  BY <1>1, <1>4, <1>7, <1>11, CountsByKind
<1>13. QED
  BY <1>3, <1>8, <1>12

LEMMA TableAddsUp == ASSUME NEW I, NEW q, Tabled(q, I) PROVE TableOf(q)
BY ReasonsAddUp, NetsAddUp, FirstReasonsAddUp, DaysAddUp DEF TableOf

-----------------------------------------------------------------------------
(* The invariant *)

\* The candidates: one of a symbol and a day; where the bands disagree about the price it is said.
CandidatesOK(c, p, f) ==
    /\ \A k \in DOMAIN c : \E d \in ComparedDays, i \in DOMAIN f.cached : k = <<d, i, "merged">>
    /\ \A k \in DOMAIN c : c[k].bands \subseteq BandNames /\ DOMAIN c[k].prices \subseteq BandNames
    /\ \A k \in DOMAIN c : Cardinality(Range(c[k].prices)) > 1 => k \in p

FileOf(b, d) == [band |-> b, day |-> d, issue |-> "file"]
ReadIn(c, f, b, d) == \A i \in Range(f.screened[b][d].symbols) : <<d, i, "merged">> \in DOMAIN c

\* Every file is still to be read, or its symbols are candidates.
ScreenedSoFar(c, f, left) ==
    \A b \in BandNames, d \in ComparedDays : FileOf(b, d) \in Range(left) \/ ReadIn(c, f, b, d)

\* What the rows of the noon say, beyond their own facts.
NoonRowsTold(n, f) ==
    \A rec \in Range(n) :
        /\ rec.issue \in Range(f.noon[rec.band][rec.day].symbols)
        /\ rec.pre => Len(rec.held) <= Len(SinceSelection(f.minutes[rec.issue][rec.day])) - rec.at + 1

TaskOf(rec) == [band |-> rec.band, day |-> rec.day, issue |-> rec.issue]

\* Every symbol chosen at noon has a row, is missing or is still to be judged, and one of these only.
NoonAccount(n, h, left, all, f) ==
    /\ left \in Seq(StudyTask(DOMAIN f.cached)) /\ WithoutRepeats(left)
    /\ IsFiniteSet(h)
    /\ \A t \in Range(left) : t \notin h /\ t.issue \in Range(f.noon[t.band][t.day].symbols)
    /\ \A i \in 1..Len(n) : TaskOf(n[i]) \notin Range(left) /\ TaskOf(n[i]) \notin h
    /\ \A i \in 1..Len(n), j \in 1..Len(n) : TaskOf(n[i]) = TaskOf(n[j]) => i = j
    /\ Len(n) + Cardinality(h) + Len(left) = Len(all)

StageOK(f, s, work, c, m, n, h, A, B) ==
    /\ s \in {"screened", "morning", "noon", "over"}
    /\ s = "screened" => /\ work \in Seq(StudyTask({"file"})) /\ ScreenedSoFar(c, f, work)
                         /\ m = <<>>
    /\ s \in {"screened", "morning"} => n = <<>> /\ h = {}
    /\ s # "screened" => \A b \in BandNames, d \in ComparedDays : ReadIn(c, f, b, d)
    /\ s = "morning" => work \in Seq(StudyTask(DOMAIN f.cached)) /\ Len(m) + Len(work) = Len(A)
    /\ s \in {"noon", "over"} => Len(m) = Len(A) /\ NoonAccount(n, h, work, B, f)
    /\ s = "over" => work = <<>>

RowsOK(m, n, f) ==
    /\ Tabled(m, DOMAIN f.cached) /\ Tabled(n, DOMAIN f.cached)
    /\ \A rec \in Range(m) \cup Range(n) : InHindsight(rec)
    /\ NoonRowsTold(n, f)

ComparisonOK(f, s, work, c, p, m, n, h, A, B) ==
    /\ f \in Studies
    /\ CandidatesOK(c, p, f)
    /\ RowsOK(m, n, f)
    /\ StageOK(f, s, work, c, m, n, h, A, B)

ComparisonIInv ==
    ComparisonOK(study, studying, toStudy, candidates, complaints, morningRows, noonRows, noonMissing,
                 MorningTasks, NoonTasks)

LEMMA DaysInCommon ==
    CommonDays \in Seq(Nat) /\ WithoutRepeats(CommonDays) /\ Range(CommonDays) \subseteq ComparedDays
<1>1. PICK W : CommonDays = Picked(StudyDays, W)
  BY Zenon DEF CommonDays
<1>2. StudyDays \in Seq(Nat) /\ WithoutRepeats(StudyDays)
  BY StudyOrders
<1>3. CommonDays \in Seq(Nat) /\ Range(CommonDays) = Range(StudyDays) \cap W /\ WithoutRepeats(CommonDays)
  BY <1>1, <1>2, PickedElements, PickedWithoutRepeats
<1>4. QED
  BY <1>3 DEF ComparedDays


LEMMA NoonTasksKnown ==
    ASSUME KnownLists(study)
    PROVE  /\ NoonTasks \in Seq(StudyTask(DOMAIN study.cached)) /\ WithoutRepeats(NoonTasks)
           /\ \A t \in Range(NoonTasks) : t.issue \in Range(study.noon[t.band][t.day].symbols)
<1>1. PICK I, l : I = DOMAIN study.cached /\ l = [bd \in BandDays |-> study.noon[bd[1]][bd[2]].symbols]
  OBVIOUS
<1>2. NoonTasks = Loop(StudyDays, l)
  BY <1>1, Zenon DEF NoonTasks, NoonChosen
<1>3. ASSUME NEW b \in BandNames, NEW d \in ComparedDays
      PROVE  /\ l[<<b, d>>] = study.noon[b][d].symbols /\ l[<<b, d>>] \in Seq(I) /\ WithoutRepeats(l[<<b, d>>])
  <2>1. <<b, d>> \in BandDays
    BY DEF BandDays, BandNames, ComparedDays
  <2>2. l[<<b, d>>] = study.noon[b][d].symbols
    BY <1>1, <2>1
  <2>3. study.noon[b][d].symbols \in Seq(I) /\ WithoutRepeats(study.noon[b][d].symbols)
    BY <1>1 DEF KnownLists
  <2>4. QED
    BY <2>2, <2>3
<1>4. LoopLists(StudyDays, l, I)
  BY <1>3, StudyOrders DEF LoopLists, ComparedDays
<1>5. /\ NoonTasks \in Seq(StudyTask(I)) /\ WithoutRepeats(NoonTasks)
      /\ \A t \in StudyTask(I) : t \in Range(NoonTasks) <=> t.day \in Range(StudyDays) /\ t.issue \in Range(l[<<t.band, t.day>>])
  BY <1>2, <1>4, LoopTasks
<1>6. ASSUME NEW t \in Range(NoonTasks) PROVE t.issue \in Range(study.noon[t.band][t.day].symbols)
  <2>1. t \in StudyTask(I)
    BY <1>5, ElementsAt
  <2>2. t.band \in BandNames /\ t.day \in ComparedDays /\ t.issue \in Range(l[<<t.band, t.day>>])
    BY <1>5, <2>1 DEF StudyTask
  <2>3. QED
    BY <1>3, <2>2
<1>7. QED
  BY <1>1, <1>5, <1>6

LEMMA MorningTasksKnown ==
    ASSUME KnownLists(study)
    PROVE  MorningTasks \in Seq(StudyTask(DOMAIN study.cached))
<1>1. PICK I, l : I = DOMAIN study.cached /\ l = [bd \in BandDays |-> study.morning[bd[1]][bd[2]].symbols]
  OBVIOUS
<1>2. MorningTasks = Loop(CommonDays, l)
  BY <1>1, Zenon DEF MorningTasks
<1>3. ASSUME NEW b \in BandNames, NEW d \in ComparedDays
      PROVE  l[<<b, d>>] \in Seq(I) /\ WithoutRepeats(l[<<b, d>>])
  <2>1. <<b, d>> \in BandDays
    BY DEF BandDays, BandNames, ComparedDays
  <2>2. l[<<b, d>>] = study.morning[b][d].symbols
    BY <1>1, <2>1
  <2>3. study.morning[b][d].symbols \in Seq(I) /\ WithoutRepeats(study.morning[b][d].symbols)
    BY <1>1 DEF KnownLists
  <2>4. QED
    BY <2>2, <2>3
<1>4. LoopLists(CommonDays, l, I)
  BY <1>3, DaysInCommon DEF LoopLists
<1>5. QED
  BY <1>1, <1>2, <1>4, LoopTasks

LEMMA FilesKnown ==
    /\ FilesScreened \in Seq(StudyTask({"file"}))
    /\ \A b \in BandNames, d \in ComparedDays : FileOf(b, d) \in Range(FilesScreened)
<1>1. PICK I, l : I = {"file"} /\ l = [bd \in BandDays |-> <<"file">>]
  OBVIOUS
<1>2. FilesScreened = Loop(StudyDays, l)
  BY <1>1, Zenon DEF FilesScreened
<1>3. PICK q : q = <<"file">>
  OBVIOUS
<1>4. q \in Seq(I) /\ WithoutRepeats(q) /\ q[1] = "file" /\ Len(q) = 1
  BY <1>1, <1>3 DEF WithoutRepeats
<1>5. "file" \in Range(q)
  BY <1>4, ElementsAt
<1>6. ASSUME NEW b \in BandNames, NEW d \in ComparedDays PROVE l[<<b, d>>] = q
  <2>1. <<b, d>> \in BandDays
    BY DEF BandDays, BandNames, ComparedDays
  <2>2. QED
    BY <1>1, <1>3, <2>1
<1>7. LoopLists(StudyDays, l, I)
  BY <1>4, <1>6, StudyOrders DEF LoopLists, ComparedDays
<1>8. /\ FilesScreened \in Seq(StudyTask(I))
      /\ \A t \in StudyTask(I) :
            t \in Range(FilesScreened) <=> t.day \in Range(StudyDays) /\ t.issue \in Range(l[<<t.band, t.day>>])
  BY <1>2, <1>7, LoopTasks
<1>9. ASSUME NEW b \in BandNames, NEW d \in ComparedDays PROVE FileOf(b, d) \in Range(FilesScreened)
  <2>1. FileOf(b, d) \in StudyTask(I) /\ FileOf(b, d).band = b /\ FileOf(b, d).day = d /\ FileOf(b, d).issue = "file"
    BY <1>1 DEF FileOf, StudyTask
  <2>2. d \in Range(StudyDays)
    BY DEF ComparedDays
  <2>3. QED
    BY <1>5, <1>6, <1>8, <2>1, <2>2
<1>10. QED
  BY <1>1, <1>8, <1>9

LEMMA EmptyLists ==
    ASSUME NEW I
    PROVE  Tabled(<<>>, I) /\ Range(<<>>) = {} /\ Len(<<>>) = 0
<1>1. PICK q : q = <<>>
  OBVIOUS
<1>2. q \in Seq(StudyRow(I)) /\ Len(q) = 0 /\ DOMAIN q = {}
  BY <1>1
<1>3. Range(q) = {}
  BY <1>2 DEF Range
<1>4. QED
  BY <1>1, <1>2, <1>3 DEF Tabled

LEMMA ComparisonStarts == ComparisonInit => ComparisonIInv
<1>1. SUFFICES ASSUME ComparisonInit PROVE ComparisonIInv
  OBVIOUS
<1>2. /\ study \in Studies /\ studying = "screened" /\ toStudy = FilesScreened
      /\ candidates = <<>> /\ complaints = {}
      /\ morningRows = <<>> /\ noonRows = <<>> /\ noonMissing = {}
  BY <1>1 DEF ComparisonInit
<1>3. CandidatesOK(candidates, complaints, study)
  <2>1. DOMAIN candidates = {}
    BY <1>2
  <2>2. QED
    BY <2>1 DEF CandidatesOK
<1>4. RowsOK(morningRows, noonRows, study)
  BY <1>2, EmptyLists DEF RowsOK, NoonRowsTold
<1>5. StageOK(study, studying, toStudy, candidates, morningRows, noonRows, noonMissing, MorningTasks, NoonTasks)
  BY <1>2, FilesKnown DEF StageOK, ScreenedSoFar
<1>6. QED
  BY <1>2, <1>3, <1>4, <1>5 DEF ComparisonIInv, ComparisonOK

-----------------------------------------------------------------------------
(* The steps *)

\* What stays the same of what the programs read.
LEMMA SameStudy == ASSUME study' = study PROVE MorningTasks' = MorningTasks /\ NoonTasks' = NoonTasks
BY DEF MorningTasks, NoonTasks, CommonDays, NoonChosen

LEMMA NotedCandidate ==
    ASSUME NEW old, old.bands \subseteq BandNames, DOMAIN old.prices \subseteq BandNames,
           NEW b \in BandNames, NEW price, NEW new, new = NotedPrice(old, b, price)
    PROVE  new.bands \subseteq BandNames /\ DOMAIN new.prices \subseteq BandNames
<1>1. PICK bands, prices : bands = old.bands /\ prices = old.prices
  OBVIOUS
<1>2. PICK known : known = (IF price = 0 THEN prices
                            ELSE [o \in DOMAIN prices \cup {b} |-> IF o = b THEN price ELSE prices[o]])
  OBVIOUS
<1>3. new = [bands |-> bands \cup {b}, prices |-> known]
  BY <1>1, <1>2, Zenon DEF NotedPrice
<1>4. DOMAIN known \subseteq BandNames
  <2>1. CASE price = 0
    BY <1>1, <1>2, <2>1
  <2>2. CASE price # 0
    <3>1. DOMAIN known = DOMAIN prices \cup {b}
      BY <1>2, <2>2
    <3>2. QED
      BY <1>1, <3>1
  <2>3. QED
    BY <2>1, <2>2
<1>5. QED
  BY <1>1, <1>3, <1>4

\* A file is read.
LEMMA ReadCandidates ==
    ASSUME KnownLists(study), CandidatesOK(candidates, complaints, study),
           NEW b \in BandNames, NEW d \in ComparedDays, NEW work, work.band = b, work.day = d,
           NEW c, c = candidates', NEW p, p = complaints',
           ReadScreening(work)
    PROVE  /\ CandidatesOK(c, p, study) /\ ReadIn(c, study, b, d)
           /\ DOMAIN candidates \subseteq DOMAIN c
<1>1. PICK file, keys : /\ file = study.screened[b][d]
                        /\ keys = {Key(d, issue, b) : issue \in Range(file.symbols)}
  OBVIOUS
<1>2. /\ c = [k \in DOMAIN candidates \cup keys |->
                 IF k \in keys
                 THEN NotedPrice(IF k \in DOMAIN candidates THEN candidates[k] ELSE EmptyCandidate, b, file.price)
                 ELSE candidates[k]]
      /\ p = complaints \cup {k \in DOMAIN c : \/ k \in keys /\ file.price = 0
                                              \/ Cardinality(Range(c[k].prices)) > 1}
  BY <1>1, Zenon DEF ReadScreening
<1>3. DOMAIN c = DOMAIN candidates \cup keys
  BY <1>2
<1>4. file.symbols \in Seq(DOMAIN study.cached)
  BY <1>1 DEF KnownLists
<1>5. \A k \in keys : \E i \in DOMAIN study.cached : k = <<d, i, "merged">>
  <2>1. Range(file.symbols) \subseteq DOMAIN study.cached
    BY <1>4, ElementsAt
  <2>2. QED
    BY <1>1, <2>1 DEF Key
<1>6. \A k \in DOMAIN c : \E e \in ComparedDays, i \in DOMAIN study.cached : k = <<e, i, "merged">>
  BY <1>3, <1>5 DEF CandidatesOK
<1>7. ASSUME NEW k \in DOMAIN c
      PROVE  /\ c[k].bands \subseteq BandNames /\ DOMAIN c[k].prices \subseteq BandNames
             /\ Cardinality(Range(c[k].prices)) > 1 => k \in p
  <2>1. PICK old : old = (IF k \in DOMAIN candidates THEN candidates[k] ELSE EmptyCandidate)
    OBVIOUS
  <2>2. EmptyCandidate.bands \subseteq BandNames /\ DOMAIN EmptyCandidate.prices \subseteq BandNames
    BY DEF EmptyCandidate
  <2>3. old.bands \subseteq BandNames /\ DOMAIN old.prices \subseteq BandNames
    BY <2>1, <2>2 DEF CandidatesOK
  <2>4. PICK new : new = NotedPrice(old, b, file.price)
    OBVIOUS
  <2>5. new.bands \subseteq BandNames /\ DOMAIN new.prices \subseteq BandNames
    BY <2>3, <2>4, NotedCandidate
  <2>6. k \in keys => c[k] = new
    BY <1>2, <1>3, <2>1, <2>4
  <2>7. k \notin keys => c[k] = old
    BY <1>2, <1>3, <2>1
  <2>8. Cardinality(Range(c[k].prices)) > 1 => k \in p
    BY <1>2
  <2>9. QED
    BY <2>3, <2>5, <2>6, <2>7, <2>8
<1>8. ReadIn(c, study, b, d)
  <2>1. ASSUME NEW i \in Range(file.symbols) PROVE <<d, i, "merged">> \in DOMAIN c
    BY <1>1, <1>3 DEF Key
  <2>2. QED
    BY <1>1, <2>1 DEF ReadIn
<1>9. QED
  BY <1>3, <1>6, <1>7, <1>8 DEF CandidatesOK

LEMMA ReadingKeeps ==
    ASSUME ComparisonIInv, Compare, studying = "screened"
    PROVE  ComparisonIInv'
<1>1. PICK f, c, p, work, left :
         f = study /\ c = candidates' /\ p = complaints' /\ work = Head(toStudy) /\ left = toStudy'
  BY SMTT(30)
<1>2. /\ toStudy # <<>> /\ left = Tail(toStudy) /\ study' = study /\ studying' = studying
      /\ ReadScreening(work)
  BY <1>1, SMTT(30) DEF Compare
<1>3. morningRows' = morningRows /\ noonRows' = noonRows /\ noonMissing' = noonMissing
  BY <1>2 DEF ReadScreening
<1>4. PICK m, n, h, A, B : /\ m = morningRows /\ n = noonRows /\ h = noonMissing
                           /\ A = MorningTasks /\ B = NoonTasks
  OBVIOUS
<1>5. /\ f \in Studies /\ CandidatesOK(candidates, complaints, f) /\ RowsOK(m, n, f)
      /\ StageOK(f, "screened", toStudy, candidates, m, n, h, A, B)
  BY <1>1, <1>4 DEF ComparisonIInv, ComparisonOK
<1>6. /\ toStudy \in Seq(StudyTask({"file"})) /\ ScreenedSoFar(candidates, f, toStudy)
      /\ m = <<>> /\ n = <<>> /\ h = {}
  BY <1>5 DEF StageOK
<1>7. /\ work \in StudyTask({"file"}) /\ left \in Seq(StudyTask({"file"}))
      /\ Range(toStudy) = {work} \cup Range(left)
  BY <1>1, <1>2, <1>6, RangeOfTail
<1>8. PICK b \in BandNames, d \in ComparedDays : b = work.band /\ d = work.day /\ work = FileOf(b, d)
  BY <1>7 DEF StudyTask, FileOf
<1>9. KnownLists(study)
  BY <1>1, <1>5, StudyKnown
<1>10. CandidatesOK(c, p, f) /\ ReadIn(c, f, b, d) /\ DOMAIN candidates \subseteq DOMAIN c
  BY <1>1, <1>2, <1>5, <1>8, <1>9, ReadCandidates
<1>11. ScreenedSoFar(c, f, left)
  <2>1. ASSUME NEW o \in BandNames, NEW e \in ComparedDays
        PROVE  FileOf(o, e) \in Range(left) \/ ReadIn(c, f, o, e)
    <3>1. FileOf(o, e) \in Range(toStudy) \/ ReadIn(candidates, f, o, e)
      BY <1>6 DEF ScreenedSoFar
    <3>2. CASE ReadIn(candidates, f, o, e)
      BY <1>10, <3>2 DEF ReadIn
    <3>3. CASE FileOf(o, e) = work
      <4>1. o = b /\ e = d
        BY <1>8, <3>3 DEF FileOf
      <4>2. QED
        BY <1>10, <4>1
    <3>4. QED
      BY <1>7, <3>1, <3>2, <3>3
  <2>2. QED
    BY <2>1 DEF ScreenedSoFar
<1>12. StageOK(f, "screened", left, c, m, n, h, A, B)
  BY <1>6, <1>7, <1>11 DEF StageOK
<1>13. ComparisonOK(f, "screened", left, c, p, m, n, h, A, B)
  BY <1>5, <1>10, <1>12 DEF ComparisonOK
<1>14. QED
  BY <1>1, <1>2, <1>3, <1>4, <1>13, SameStudy DEF ComparisonIInv

\* One more row.
LEMMA OneMoreRow ==
    ASSUME NEW I, NEW q, Tabled(q, I), NEW rec \in StudyRow(I), OneOutcome(rec)
    PROVE  /\ Tabled(Append(q, rec), I) /\ Range(Append(q, rec)) = Range(q) \cup {rec}
           /\ Len(Append(q, rec)) = Len(q) + 1 /\ Len(q) \in Nat
<1>1. q \in Seq(StudyRow(I)) /\ \A r \in Range(q) : OneOutcome(r)
  BY DEF Tabled
<1>2. Append(q, rec) \in Seq(StudyRow(I)) /\ Len(Append(q, rec)) = Len(q) + 1 /\ Len(q) \in Nat
  BY <1>1
<1>3. Range(Append(q, rec)) = Range(q) \cup {rec}
  BY <1>1, RangeOfAppend
<1>4. QED
  BY <1>1, <1>2, <1>3 DEF Tabled

LEMMA MorningKeeps ==
    ASSUME ComparisonIInv, Compare, studying = "morning"
    PROVE  ComparisonIInv'
<1>1. PICK f, work, left : f = study /\ work = Head(toStudy) /\ left = toStudy'
  OBVIOUS
<1>2. /\ toStudy # <<>> /\ left = Tail(toStudy) /\ study' = study /\ studying' = studying
      /\ JudgeMorning(work)
  BY <1>1 DEF Compare
<1>3. PICK c, p, m, n, h, A, B : /\ c = candidates /\ p = complaints
                                 /\ m = morningRows /\ n = noonRows /\ h = noonMissing
                                 /\ A = MorningTasks /\ B = NoonTasks
  OBVIOUS
<1>4. PICK bars, rec : bars = study.minutes[work.issue][work.day] /\ rec = DayRow(work.band, work.issue, work.day, bars)
  OBVIOUS
<1>5. /\ morningRows' = Append(m, rec) /\ candidates' = c /\ complaints' = p
      /\ noonRows' = n /\ noonMissing' = h
  BY <1>2, <1>3, <1>4 DEF JudgeMorning
<1>6. /\ f \in Studies /\ CandidatesOK(c, p, f) /\ RowsOK(m, n, f)
      /\ StageOK(f, "morning", toStudy, c, m, n, h, A, B)
  BY <1>1, <1>3 DEF ComparisonIInv, ComparisonOK
<1>7. PICK I : I = DOMAIN f.cached
  OBVIOUS
<1>8. /\ toStudy \in Seq(StudyTask(I)) /\ Len(m) + Len(toStudy) = Len(A)
      /\ n = <<>> /\ h = {} /\ \A b \in BandNames, d \in ComparedDays : ReadIn(c, f, b, d)
  BY <1>6, <1>7 DEF StageOK
<1>9. work \in StudyTask(I) /\ left \in Seq(StudyTask(I)) /\ Len(left) = Len(toStudy) - 1 /\ Len(toStudy) \in Nat
  BY <1>1, <1>2, <1>8, RangeOfTail
<1>10. PICK b \in BandNames, d \in ComparedDays, i \in I : b = work.band /\ d = work.day /\ i = work.issue
  BY <1>9 DEF StudyTask
<1>11. KnownSymbols(study) /\ KnownMarkets(study)
  BY <1>1, <1>6, StudyKnown
<1>12. bars \in Seq(Quote)
  BY <1>1, <1>4, <1>7, <1>10, <1>11 DEF KnownSymbols
<1>13. rec = DayRow(b, i, d, bars) /\ i \in DOMAIN study.cached
  BY <1>1, <1>4, <1>7, <1>10
<1>14. rec \in StudyRow(DOMAIN study.cached) /\ InHindsight(rec) /\ OneOutcome(rec)
  BY <1>11, <1>12, <1>13, DayRowTold
<1>15. rec \in StudyRow(I)
  BY <1>1, <1>7, <1>14
<1>16. PICK q : q = Append(m, rec)
  OBVIOUS
<1>17. Tabled(m, I) /\ Tabled(n, I) /\ (\A r \in Range(m) \cup Range(n) : InHindsight(r)) /\ NoonRowsTold(n, f)
  BY <1>6, <1>7 DEF RowsOK
<1>18. Tabled(q, I) /\ Range(q) = Range(m) \cup {rec} /\ Len(q) = Len(m) + 1 /\ Len(m) \in Nat
  BY <1>14, <1>15, <1>16, <1>17, OneMoreRow
<1>19. RowsOK(q, n, f)
  BY <1>7, <1>14, <1>17, <1>18 DEF RowsOK
<1>20. Len(q) + Len(left) = Len(A)
  BY <1>8, <1>9, <1>18
<1>21. StageOK(f, "morning", left, c, q, n, h, A, B)
  BY <1>7, <1>8, <1>9, <1>20 DEF StageOK
<1>22. ComparisonOK(f, "morning", left, c, p, q, n, h, A, B)
  BY <1>6, <1>19, <1>21 DEF ComparisonOK
<1>23. QED
  BY <1>1, <1>2, <1>3, <1>5, <1>16, <1>22, SameStudy DEF ComparisonIInv

\* What is left of a list without repeats.
LEMMA TailWithoutRepeats ==
    ASSUME NEW T, NEW work \in Seq(T), work # <<>>, WithoutRepeats(work), NEW left, left = Tail(work)
    PROVE  /\ Head(work) \notin Range(left) /\ WithoutRepeats(left) /\ left \in Seq(T)
           /\ Range(work) = {Head(work)} \cup Range(left) /\ Len(left) = Len(work) - 1
<1>a. PICK t : t = Head(work)
  OBVIOUS
<1>b. PICK u \in Nat : u = Len(work)
  OBVIOUS
<1>1. t = Head(work) /\ u = Len(work)
  BY <1>a, <1>b
<1>2. left \in Seq(T) /\ Range(work) = {t} \cup Range(left) /\ Len(left) = u - 1
  BY <1>1, RangeOfTail
<1>3. t = work[1] /\ \A i \in 1..(u - 1) : left[i] = work[i + 1]
  BY <1>1
<1>4. \A i \in 1..u, j \in 1..u : work[i] = work[j] => i = j
  BY <1>1 DEF WithoutRepeats
<1>5. u >= 1
  BY <1>1
<1>6. ASSUME t \in Range(left) PROVE FALSE
  <2>1. PICK i \in 1..(u - 1) : left[i] = t
    BY <1>2, <1>6, ElementsAt
  <2>2. work[i + 1] = work[1]
    BY <1>3, <2>1
  <2>3. i + 1 \in 1..u /\ 1 \in 1..u /\ i + 1 # 1
    BY <1>5
  <2>4. QED
    BY <1>4, <2>2, <2>3
<1>7. ASSUME NEW i \in 1..(u - 1), NEW j \in 1..(u - 1), left[i] = left[j] PROVE i = j
  <2>1. work[i + 1] = work[j + 1]
    BY <1>3, <1>7
  <2>a. i + 1 \in 1..u /\ j + 1 \in 1..u
    OBVIOUS
  <2>2. i + 1 = j + 1
    BY <1>4, <2>1, <2>a
  <2>3. QED
    BY <2>2
<1>8. WithoutRepeats(left)
  BY <1>2, <1>7 DEF WithoutRepeats
<1>9. QED
  BY <1>1, <1>2, <1>6, <1>8

\* A symbol of the noon is judged, or its prices are missing.
LEMMA AccountedRow ==
    ASSUME NEW n, NEW h, NEW work, NEW left, NEW all, NEW f, NoonAccount(n, h, work, all, f), work # <<>>,
           left = Tail(work), Tabled(n, DOMAIN f.cached), NEW rec, TaskOf(rec) = Head(work)
    PROVE  NoonAccount(Append(n, rec), h, left, all, f)
<1>a. Len(n) \in Nat /\ Len(work) \in Nat
  BY DEF NoonAccount, Tabled
<1>b. PICK T, t : T = StudyTask(DOMAIN f.cached) /\ t = Head(work)
  OBVIOUS
<1>c. PICK l \in Nat, u \in Nat : l = Len(n) /\ u = Len(work)
  BY <1>a
<1>1. T = StudyTask(DOMAIN f.cached) /\ t = Head(work) /\ l = Len(n) /\ u = Len(work)
  BY <1>b, <1>c
<1>2. /\ work \in Seq(T) /\ WithoutRepeats(work) /\ IsFiniteSet(h)
      /\ \A e \in Range(work) : e \notin h /\ e.issue \in Range(f.noon[e.band][e.day].symbols)
      /\ \A i \in 1..l : TaskOf(n[i]) \notin Range(work) /\ TaskOf(n[i]) \notin h
      /\ \A i \in 1..l, j \in 1..l : TaskOf(n[i]) = TaskOf(n[j]) => i = j
      /\ l + Cardinality(h) + u = Len(all)
  BY <1>1 DEF NoonAccount
<1>3. /\ t \in T /\ left \in Seq(T) /\ Range(work) = {t} \cup Range(left) /\ Len(left) = u - 1
  BY <1>1, <1>2, RangeOfTail
<1>4. t \notin Range(left) /\ WithoutRepeats(left)
  BY <1>1, <1>2, TailWithoutRepeats
<1>5. n \in Seq(StudyRow(DOMAIN f.cached))
  BY DEF Tabled
<1>6. PICK q : q = Append(n, rec)
  OBVIOUS
<1>7. Len(q) = l + 1 /\ q[l + 1] = rec /\ \A i \in 1..l : q[i] = n[i]
  BY <1>1, <1>5, <1>6
<1>8. ASSUME NEW i \in 1..(l + 1)
      PROVE  /\ i \in 1..l => TaskOf(q[i]) = TaskOf(n[i])
             /\ i \notin 1..l => i = l + 1 /\ TaskOf(q[i]) = t
  <2>1. i \notin 1..l => i = l + 1
    OBVIOUS
  <2>2. i \in 1..l => q[i] = n[i]
    BY <1>7
  <2>3. i \notin 1..l => q[i] = rec
    BY <1>7, <2>1
  <2>4. TaskOf(rec) = t
    BY <1>1
  <2>5. QED
    BY <2>1, <2>2, <2>3, <2>4
<1>9. ASSUME NEW i \in 1..(l + 1) PROVE TaskOf(q[i]) \notin Range(left) /\ TaskOf(q[i]) \notin h
  <2>1. CASE i \in 1..l
    <3>1. TaskOf(n[i]) \notin Range(work) /\ TaskOf(n[i]) \notin h
      BY <1>2, <2>1
    <3>2. TaskOf(q[i]) = TaskOf(n[i])
      BY <1>8, <2>1
    <3>3. QED
      BY <1>3, <3>1, <3>2
  <2>2. CASE i \notin 1..l
    <3>1. TaskOf(q[i]) = t
      BY <1>8, <2>2
    <3>2. t \notin h
      BY <1>2, <1>3
    <3>3. QED
      BY <1>4, <3>1, <3>2
  <2>3. QED
    BY <2>1, <2>2
<1>10. ASSUME NEW i \in 1..(l + 1), NEW j \in 1..(l + 1), TaskOf(q[i]) = TaskOf(q[j]) PROVE i = j
  <2>1. /\ i \in 1..l => TaskOf(q[i]) = TaskOf(n[i]) /\ TaskOf(n[i]) # t
        /\ i \notin 1..l => i = l + 1 /\ TaskOf(q[i]) = t
    BY <1>2, <1>3, <1>8
  <2>2. /\ j \in 1..l => TaskOf(q[j]) = TaskOf(n[j]) /\ TaskOf(n[j]) # t
        /\ j \notin 1..l => j = l + 1 /\ TaskOf(q[j]) = t
    BY <1>2, <1>3, <1>8
  <2>3. i \in 1..l /\ j \in 1..l /\ TaskOf(n[i]) = TaskOf(n[j]) => i = j
    BY <1>2
  <2>4. QED
    BY <1>10, <2>1, <2>2, <2>3
<1>11. Len(q) + Cardinality(h) + Len(left) = Len(all)
  <2>1. Cardinality(h) \in Nat
    BY <1>2, FS_CardinalityType
  <2>2. QED
    BY <1>2, <1>3, <1>7, <2>1
<1>12. \A e \in Range(left) : e \notin h /\ e.issue \in Range(f.noon[e.band][e.day].symbols)
  BY <1>2, <1>3
<1>13. NoonAccount(q, h, left, all, f)
  BY <1>1, <1>2, <1>3, <1>4, <1>7, <1>9, <1>10, <1>11, <1>12 DEF NoonAccount
<1>14. QED
  BY <1>6, <1>13

LEMMA AccountedMissing ==
    ASSUME NEW n, NEW h, NEW work, NEW left, NEW all, NEW f, NoonAccount(n, h, work, all, f), work # <<>>,
           left = Tail(work), Tabled(n, DOMAIN f.cached)
    PROVE  NoonAccount(n, h \cup {Head(work)}, left, all, f)
<1>a. Len(n) \in Nat /\ Len(work) \in Nat
  BY DEF NoonAccount, Tabled
<1>b. PICK T, t : T = StudyTask(DOMAIN f.cached) /\ t = Head(work)
  OBVIOUS
<1>c. PICK l \in Nat, u \in Nat : l = Len(n) /\ u = Len(work)
  BY <1>a
<1>1. T = StudyTask(DOMAIN f.cached) /\ t = Head(work) /\ l = Len(n) /\ u = Len(work)
  BY <1>b, <1>c
<1>2. /\ work \in Seq(T) /\ WithoutRepeats(work) /\ IsFiniteSet(h)
      /\ \A e \in Range(work) : e \notin h /\ e.issue \in Range(f.noon[e.band][e.day].symbols)
      /\ \A i \in 1..l : TaskOf(n[i]) \notin Range(work) /\ TaskOf(n[i]) \notin h
      /\ \A i \in 1..l, j \in 1..l : TaskOf(n[i]) = TaskOf(n[j]) => i = j
      /\ l + Cardinality(h) + u = Len(all)
  BY <1>1 DEF NoonAccount
<1>3. t \notin Range(left) /\ WithoutRepeats(left) /\ left \in Seq(T) /\ Range(work) = {t} \cup Range(left) /\ Len(left) = u - 1
  BY <1>1, <1>2, TailWithoutRepeats
<1>4. PICK g : g = h \cup {t}
  OBVIOUS
<1>5. t \notin h
  BY <1>2, <1>3
<1>6. IsFiniteSet(g) /\ Cardinality(g) = Cardinality(h) + 1 /\ Cardinality(h) \in Nat
  BY <1>2, <1>4, <1>5, FS_AddElement, FS_CardinalityType
<1>7. \A e \in Range(left) : e \notin g /\ e.issue \in Range(f.noon[e.band][e.day].symbols)
  BY <1>2, <1>3, <1>4
<1>8. \A i \in 1..l : TaskOf(n[i]) \notin Range(left) /\ TaskOf(n[i]) \notin g
  BY <1>2, <1>3, <1>4
<1>9. l + Cardinality(g) + Len(left) = Len(all)
  BY <1>2, <1>3, <1>6
<1>10. NoonAccount(n, g, left, all, f)
  BY <1>1, <1>2, <1>3, <1>6, <1>7, <1>8, <1>9 DEF NoonAccount
<1>11. QED
  BY <1>1, <1>4, <1>10

LEMMA NoonKeeps ==
    ASSUME ComparisonIInv, Compare, studying = "noon"
    PROVE  ComparisonIInv'
<1>1. PICK f, work, left : f = study /\ work = Head(toStudy) /\ left = toStudy'
  OBVIOUS
<1>2. /\ toStudy # <<>> /\ left = Tail(toStudy) /\ study' = study /\ studying' = studying
      /\ JudgeNoon(work)
  BY <1>1 DEF Compare
<1>3. PICK c, p, m, n, h, A, B : /\ c = candidates /\ p = complaints
                                 /\ m = morningRows /\ n = noonRows /\ h = noonMissing
                                 /\ A = MorningTasks /\ B = NoonTasks
  OBVIOUS
<1>4. PICK all, bars, rec : /\ all = study.minutes[work.issue][work.day] /\ bars = SinceSelection(all)
                            /\ rec = DayRow(work.band, work.issue, work.day, bars)
  OBVIOUS
<1>5. /\ candidates' = c /\ complaints' = p /\ morningRows' = m
      /\ bars = <<>> => noonMissing' = h \cup {work} /\ noonRows' = n
      /\ bars # <<>> => noonMissing' = h /\ noonRows' = Append(n, rec)
  BY <1>2, <1>3, <1>4 DEF JudgeNoon
<1>6. /\ f \in Studies /\ CandidatesOK(c, p, f) /\ RowsOK(m, n, f)
      /\ StageOK(f, "noon", toStudy, c, m, n, h, A, B)
  BY <1>1, <1>3 DEF ComparisonIInv, ComparisonOK
<1>7. PICK I : I = DOMAIN f.cached
  OBVIOUS
<1>8. /\ Len(m) = Len(A) /\ NoonAccount(n, h, toStudy, B, f)
      /\ \A b \in BandNames, d \in ComparedDays : ReadIn(c, f, b, d)
  BY <1>6 DEF StageOK
<1>9. /\ toStudy \in Seq(StudyTask(I))
      /\ \A t \in Range(toStudy) : t.issue \in Range(f.noon[t.band][t.day].symbols)
  BY <1>7, <1>8 DEF NoonAccount
<1>10. work \in StudyTask(I) /\ work \in Range(toStudy)
  BY <1>1, <1>2, <1>9, RangeOfTail
<1>11. PICK b \in BandNames, d \in ComparedDays, i \in I :
          b = work.band /\ d = work.day /\ i = work.issue /\ i \in Range(f.noon[b][d].symbols)
  BY <1>9, <1>10 DEF StudyTask
<1>12. KnownSymbols(study) /\ KnownMarkets(study)
  BY <1>1, <1>6, StudyKnown, SMTT(30)
<1>13. all \in Seq(Quote)
  BY <1>1, <1>4, <1>7, <1>11, <1>12 DEF KnownSymbols
<1>14. bars \in Seq(Quote)
  <2>1. PICK W : bars = Picked(all, W)
    BY <1>4, Zenon DEF SinceSelection
  <2>2. QED
    BY <1>13, <2>1, PickedElements
<1>15. /\ Tabled(m, I) /\ Tabled(n, I) /\ (\A r \in Range(m) \cup Range(n) : InHindsight(r)) /\ NoonRowsTold(n, f)
  BY <1>6, <1>7 DEF RowsOK
<1>16. CASE bars = <<>>
  <2>1. PICK g : g = h \cup {work}
    OBVIOUS
  <2>2. NoonAccount(n, g, left, B, f)
    BY <1>1, <1>2, <1>7, <1>8, <1>15, <2>1, AccountedMissing
  <2>3. StageOK(f, "noon", left, c, m, n, g, A, B)
    BY <1>8, <2>2 DEF StageOK
  <2>4. ComparisonOK(f, "noon", left, c, p, m, n, g, A, B)
    BY <1>6, <2>3 DEF ComparisonOK
  <2>5. QED
    BY <1>1, <1>2, <1>3, <1>5, <1>16, <2>1, <2>4, SameStudy DEF ComparisonIInv
<1>17. CASE bars # <<>>
  <2>1. rec = DayRow(b, i, d, bars) /\ i \in DOMAIN study.cached
    BY <1>1, <1>4, <1>7, <1>11
  <2>2. /\ rec \in StudyRow(DOMAIN study.cached) /\ rec.band = b /\ rec.issue = i /\ rec.day = d
        /\ InHindsight(rec) /\ OneOutcome(rec)
        /\ rec.pre => Len(rec.held) <= Len(bars) - rec.at + 1
    BY <1>12, <1>14, <2>1, DayRowTold
  <2>3. PICK q : q = Append(n, rec)
    OBVIOUS
  <2>4. rec \in StudyRow(I)
    BY <1>1, <1>7, <2>2
  <2>5. Tabled(q, I) /\ Range(q) = Range(n) \cup {rec}
    BY <1>15, <2>2, <2>3, <2>4, OneMoreRow
  <2>6. bars = SinceSelection(f.minutes[i][d])
    BY <1>1, <1>4, <1>11
  <2>7. NoonRowsTold(q, f)
    <3>1. /\ rec.issue \in Range(f.noon[rec.band][rec.day].symbols)
          /\ rec.pre => Len(rec.held) <= Len(SinceSelection(f.minutes[rec.issue][rec.day])) - rec.at + 1
      BY <1>11, <2>2, <2>6
    <3>2. QED
      BY <1>15, <2>5, <3>1 DEF NoonRowsTold
  <2>8. RowsOK(m, q, f)
    BY <1>7, <1>15, <2>2, <2>5, <2>7 DEF RowsOK
  <2>9. TaskOf(rec) = work
    <3>1. TaskOf(rec) = [band |-> b, day |-> d, issue |-> i]
      BY <2>2 DEF TaskOf
    <3>2. work = [band |-> b, day |-> d, issue |-> i]
      BY <1>10, <1>11 DEF StudyTask
    <3>3. QED
      BY <3>1, <3>2
  <2>10. NoonAccount(q, h, left, B, f)
    BY <1>1, <1>2, <1>7, <1>8, <1>15, <2>3, <2>9, AccountedRow
  <2>11. StageOK(f, "noon", left, c, m, q, h, A, B)
    BY <1>8, <2>10 DEF StageOK
  <2>12. ComparisonOK(f, "noon", left, c, p, m, q, h, A, B)
    BY <1>6, <2>8, <2>11 DEF ComparisonOK
  <2>13. QED
    BY <1>1, <1>2, <1>3, <1>5, <1>17, <2>3, <2>12, SameStudy DEF ComparisonIInv
<1>18. QED
  BY <1>16, <1>17

LEMMA AccountOpened ==
    ASSUME NEW f, NEW all, all \in Seq(StudyTask(DOMAIN f.cached)), WithoutRepeats(all),
           \A t \in Range(all) : t.issue \in Range(f.noon[t.band][t.day].symbols)
    PROVE  NoonAccount(<<>>, {}, all, all, f)
<1>1. Len(<<>>) = 0 /\ IsFiniteSet({}) /\ Cardinality({}) = 0 /\ Len(all) \in Nat
  BY FS_EmptySet
<1>2. 1..0 = {}
  OBVIOUS
<1>3. QED
  BY <1>1, <1>2 DEF NoonAccount

LEMMA StageEndKeeps ==
    ASSUME ComparisonIInv, EndStage
    PROVE  ComparisonIInv'
<1>1. PICK f, s, work, next, t : /\ f = study /\ s = studying /\ work = toStudy
                                 /\ next = studying' /\ t = toStudy'
  OBVIOUS
<1>2. PICK c, p, m, n, h, A, B : /\ c = candidates /\ p = complaints
                                 /\ m = morningRows /\ n = noonRows /\ h = noonMissing
                                 /\ A = MorningTasks /\ B = NoonTasks
  OBVIOUS
<1>3. /\ s # "over" /\ work = <<>> /\ next = AfterStage /\ t = LoopOf(next)
      /\ study' = f /\ candidates' = c /\ complaints' = p
      /\ morningRows' = m /\ noonRows' = n /\ noonMissing' = h
  BY <1>1, <1>2 DEF EndStage
<1>4. f \in Studies /\ CandidatesOK(c, p, f) /\ RowsOK(m, n, f) /\ StageOK(f, s, work, c, m, n, h, A, B)
  BY <1>1, <1>2 DEF ComparisonIInv, ComparisonOK
<1>5. KnownLists(study)
  BY <1>1, <1>4, StudyKnown
<1>6. SUFFICES StageOK(f, next, t, c, m, n, h, A, B)
  BY <1>1, <1>2, <1>3, <1>4, SameStudy DEF ComparisonIInv, ComparisonOK
<1>7. Len(work) = 0 /\ Range(work) = {}
  BY <1>3, EmptyLists
<1>8. CASE s = "screened"
  <2>1. next = "morning"
    BY <1>1, <1>3, <1>8 DEF AfterStage
  <2>2. t = A
    BY <1>2, <1>3, <2>1 DEF LoopOf
  <2>3. A \in Seq(StudyTask(DOMAIN f.cached))
    BY <1>1, <1>2, <1>5, MorningTasksKnown
  <2>4. ScreenedSoFar(c, f, work) /\ m = <<>> /\ n = <<>> /\ h = {}
    BY <1>4, <1>8 DEF StageOK
  <2>5. \A b \in BandNames, d \in ComparedDays : ReadIn(c, f, b, d)
    BY <1>7, <2>4 DEF ScreenedSoFar
  <2>6. Len(m) = 0 /\ Len(t) \in Nat
    BY <2>2, <2>3, <2>4
  <2>7. Len(m) + Len(t) = Len(A)
    BY <2>2, <2>6
  <2>8. QED
    BY <2>1, <2>2, <2>3, <2>4, <2>5, <2>7 DEF StageOK
<1>9. CASE s = "morning"
  <2>1. next = "noon"
    BY <1>1, <1>3, <1>9 DEF AfterStage
  <2>2. t = B
    BY <1>2, <1>3, <2>1 DEF LoopOf
  <2>3. /\ B \in Seq(StudyTask(DOMAIN f.cached)) /\ WithoutRepeats(B)
        /\ \A e \in Range(B) : e.issue \in Range(f.noon[e.band][e.day].symbols)
    BY <1>1, <1>2, <1>5, NoonTasksKnown
  <2>4. NoonAccount(<<>>, {}, B, B, f)
    BY <2>3, AccountOpened
  <2>5. /\ n = <<>> /\ h = {} /\ Len(m) + Len(work) = Len(A)
        /\ \A b \in BandNames, d \in ComparedDays : ReadIn(c, f, b, d)
    BY <1>4, <1>9 DEF StageOK
  <2>6. Len(m) = Len(A)
    <3>1. Len(m) \in Nat
      BY <1>4 DEF RowsOK, Tabled
    <3>2. QED
      BY <1>7, <2>5, <3>1
  <2>7. QED
    BY <2>1, <2>2, <2>4, <2>5, <2>6 DEF StageOK
<1>10. CASE s = "noon"
  <2>1. next = "over"
    BY <1>1, <1>3, <1>10 DEF AfterStage
  <2>2. t = <<>>
    BY <1>3, <2>1 DEF LoopOf
  <2>3. /\ Len(m) = Len(A) /\ NoonAccount(n, h, work, B, f)
        /\ \A b \in BandNames, d \in ComparedDays : ReadIn(c, f, b, d)
    BY <1>4, <1>10 DEF StageOK
  <2>4. t = work
    BY <1>3, <2>2
  <2>5. QED
    BY <2>1, <2>2, <2>3, <2>4 DEF StageOK
<1>11. s \in {"screened", "morning", "noon"}
  BY <1>3, <1>4 DEF StageOK
<1>12. QED
  BY <1>8, <1>9, <1>10, <1>11

LEMMA ComparisonGoesOn == ComparisonIInv /\ [ComparisonNext]_comparisonVars => ComparisonIInv'
<1>1. SUFFICES ASSUME ComparisonIInv, [ComparisonNext]_comparisonVars PROVE ComparisonIInv'
  OBVIOUS
<1>2. CASE Compare
  <2>1. studying \in {"screened", "morning", "noon"}
    BY <1>2 DEF Compare
  <2>2. QED
    BY <1>1, <1>2, <2>1, ReadingKeeps, MorningKeeps, NoonKeeps
<1>3. CASE EndStage
  BY <1>1, <1>3, StageEndKeeps
<1>4. CASE UNCHANGED comparisonVars
  <2>1. /\ study' = study /\ studying' = studying /\ toStudy' = toStudy /\ candidates' = candidates
        /\ complaints' = complaints /\ morningRows' = morningRows /\ noonRows' = noonRows
        /\ noonMissing' = noonMissing
    BY <1>4 DEF comparisonVars
  <2>2. PICK A, B : A = MorningTasks /\ B = NoonTasks
    OBVIOUS
  <2>3. MorningTasks' = A /\ NoonTasks' = B
    BY <2>1, <2>2, SameStudy
  <2>4. QED
    BY <1>1, <2>1, <2>2, <2>3 DEF ComparisonIInv
<1>5. QED
  BY <1>1, <1>2, <1>3, <1>4 DEF ComparisonNext

-----------------------------------------------------------------------------
(* What the invariant says at the end *)

\* The rows of a comparison, by band and by day.
LEMMA RowsOfBand ==
    ASSUME NEW I, NEW q, Tabled(q, I), NEW b
    PROVE  /\ Tabled(OfBand(q, b), I)
           /\ \A rec : rec \in Range(OfBand(q, b)) <=> rec \in Range(q) /\ rec.band = b
<1>1. PICK W, p : W = {rec \in Range(q) : rec.band = b} /\ p = Picked(q, W)
  OBVIOUS
<1>2. OfBand(q, b) = p
  BY <1>1, Zenon DEF OfBand, RowsWith
<1>3. q \in Seq(StudyRow(I)) /\ \A rec \in Range(q) : OneOutcome(rec)
  BY DEF Tabled
<1>4. p \in Seq(StudyRow(I)) /\ Range(p) = Range(q) \cap W
  BY <1>1, <1>3, PickedElements
<1>5. QED
  BY <1>1, <1>2, <1>3, <1>4 DEF Tabled

LEMMA RowsOfDay ==
    ASSUME NEW I, NEW q, Tabled(q, I), NEW d
    PROVE  /\ Tabled(OfDay(q, d), I)
           /\ \A rec : rec \in Range(OfDay(q, d)) <=> rec \in Range(q) /\ rec.day = d
<1>1. PICK W, p : W = {rec \in Range(q) : rec.day = d} /\ p = Picked(q, W)
  OBVIOUS
<1>2. OfDay(q, d) = p
  BY <1>1, Zenon DEF OfDay, RowsWith
<1>3. q \in Seq(StudyRow(I)) /\ \A rec \in Range(q) : OneOutcome(rec)
  BY DEF Tabled
<1>4. p \in Seq(StudyRow(I)) /\ Range(p) = Range(q) \cap W
  BY <1>1, <1>3, PickedElements
<1>5. QED
  BY <1>1, <1>2, <1>3, <1>4 DEF Tabled

LEMMA RowsAt ==
    ASSUME NEW I, NEW q, Tabled(q, I)
    PROVE  /\ DOMAIN q = 1..Len(q) /\ Len(q) \in Nat
           /\ \A i \in DOMAIN q : q[i] \in Range(q) /\ q[i] \in StudyRow(I)
           /\ \A rec \in Range(q) : rec \in StudyRow(I) /\ \E i \in DOMAIN q : q[i] = rec
<1>1. q \in Seq(StudyRow(I))
  BY DEF Tabled
<1>2. QED
  BY <1>1, ElementsAt

LEMMA ComparisonHindsight == ComparisonIInv => NoHindsight
<1>1. SUFFICES ASSUME ComparisonIInv PROVE NoHindsight
  OBVIOUS
<1>2. PICK I : I = DOMAIN study.cached
  OBVIOUS
<1>3. /\ Tabled(noonRows, I) /\ (\A rec \in Range(morningRows) \cup Range(noonRows) : InHindsight(rec))
      /\ NoonRowsTold(noonRows, study)
  BY <1>1, <1>2 DEF ComparisonIInv, ComparisonOK, RowsOK
<1>4. \A rec \in Rows : InHindsight(rec)
  BY <1>3 DEF Rows
<1>5. \A rec \in Rows : \A d \in rec.used : d < rec.day
  BY <1>4 DEF InHindsight
<1>6. \A rec \in Rows : rec.pre =>
          /\ rec.held[1] = rec.entry
          /\ rec.course.touch = "close" => ~rec.course.profit /\ ~rec.course.stopped
          /\ rec.course.touch = "profit" => rec.course.profit
          /\ rec.course.touch = "stop" => rec.course.stopped
  BY <1>4 DEF InHindsight
<1>7. \A i \in DOMAIN noonRows : noonRows[i].pre =>
          Len(noonRows[i].held) <=
              Len(SinceSelection(study.minutes[noonRows[i].issue][noonRows[i].day])) - noonRows[i].at + 1
  BY <1>3, RowsAt DEF NoonRowsTold
<1>8. QED
  BY <1>5, <1>6, <1>7 DEF NoHindsight

LEMMA ComparisonOutcomes == ComparisonIInv => OutcomesPartition
<1>1. SUFFICES ASSUME ComparisonIInv, NEW b \in Range(BandOrder) PROVE TableOf(OfBand(noonRows, b))
  <2>1. SUFFICES ASSUME \A b \in Range(BandOrder) : TableOf(OfBand(noonRows, b)) PROVE OutcomesPartition
    OBVIOUS
  <2>2. QED
    BY <2>1, Zenon DEF OutcomesPartition, TableOf, ComparedDays
<1>2. Tabled(noonRows, DOMAIN study.cached)
  BY <1>1 DEF ComparisonIInv, ComparisonOK, RowsOK
<1>3. QED
  BY <1>2, RowsOfBand, TableAddsUp

LEMMA SilentRows ==
    ASSUME NEW I, NEW q, Tabled(q, I), NEW date \in SilentDays(q)
    PROVE  \A rec \in Range(q) : rec.day = date => rec.judged /\ ~rec.pre
<1>1. PICK p : p = OfDay(q, date)
  OBVIOUS
<1>2. /\ Tabled(p, I) /\ \A rec : rec \in Range(p) <=> rec \in Range(q) /\ rec.day = date
  BY <1>1, RowsOfDay
<1>3. date \in JudgedDays(q) /\ Signals(p) = 0
  BY <1>1 DEF SilentDays
<1>4. Signals(p) > 0 \/ \A i \in DOMAIN p : p[i].judged
  BY <1>1, <1>3, Zenon DEF JudgedDays
<1>5. \A i \in DOMAIN p : p[i].judged
  BY <1>3, <1>4
<1>6. PICK S : S = {rec \in Range(p) : rec.pre}
  OBVIOUS
<1>7. Signals(p) = Len(Picked(p, S))
  BY <1>6, Zenon DEF Signals, CountOf, RowsWith
<1>8. p \in Seq(StudyRow(I))
  BY <1>2 DEF Tabled
<1>9. Places(p, S) = {}
  BY <1>3, <1>7, <1>8, PlacesCounted
<1>10. ASSUME NEW rec \in Range(q), rec.day = date PROVE rec.judged /\ ~rec.pre
  <2>1. rec \in Range(p)
    BY <1>2, <1>10
  <2>2. PICK i \in DOMAIN p : p[i] = rec /\ i \in 1..Len(p)
    BY <1>2, <2>1, RowsAt
  <2>3. rec \notin S
    BY <1>9, <2>2 DEF Places
  <2>4. QED
    BY <1>5, <1>6, <2>1, <2>2, <2>3
<1>11. QED
  BY <1>10

\* As many symbols of a band and a day were judged as were chosen.
AllHeard(q, b, date, l) == CountOf(OfDay(OfBand(q, b), date), LAMBDA rec : rec.judged) = Len(l)
EachOnce(q) == \A i \in 1..Len(q), j \in 1..Len(q) : TaskOf(q[i]) = TaskOf(q[j]) => i = j

\* Then each of them was.
LEMMA CompleteRows ==
    ASSUME KnownLists(study), NEW q, Tabled(q, DOMAIN study.cached), NoonRowsTold(q, study),
           EachOnce(q), NEW b \in BandNames, NEW date \in ComparedDays, NEW l, l = study.noon[b][date].symbols,
           AllHeard(q, b, date, l)
    PROVE  \A issue \in Range(l) :
               \E i \in DOMAIN q : q[i].band = b /\ q[i].day = date /\ q[i].issue = issue /\ q[i].judged
<1>1. PICK I, S : I = DOMAIN study.cached /\ S = Range(l)
  OBVIOUS
<1>2. l \in Seq(I) /\ WithoutRepeats(l)
  BY <1>1 DEF KnownLists
<1>3. Cardinality(S) = Len(l) /\ IsFiniteSet(S)
  BY <1>1, <1>2, ListAsSet
<1>4. q \in Seq(StudyRow(I)) /\ Tabled(q, I)
  BY <1>1 DEF Tabled
<1>5. PICK V, W : V = {rec \in Range(q) : rec.band = b} /\ W = {rec \in Range(OfBand(q, b)) : rec.day = date}
  OBVIOUS
<1>6. PICK p, r : p = OfBand(q, b) /\ p = Picked(q, V) /\ r = OfDay(p, date) /\ r = Picked(p, W)
  BY <1>5, Zenon DEF OfBand, OfDay, RowsWith
<1>7. PICK U : U = {rec \in Range(r) : rec.judged}
  OBVIOUS
<1>8. Len(Picked(r, U)) = Len(l)
  BY <1>6, <1>7, Zenon DEF AllHeard, CountOf, RowsWith
<1>9. /\ p \in Seq(StudyRow(I)) /\ Range(p) = Range(q) \cap V
      /\ r \in Seq(StudyRow(I)) /\ Range(r) = Range(p) \cap W
  BY <1>4, <1>6, PickedElements
<1>10. PICK Z : Z = V \cap (W \cap U)
  OBVIOUS
<1>11. Picked(r, U) = Picked(p, W \cap U) /\ Picked(p, W \cap U) = Picked(q, Z)
  BY <1>4, <1>6, <1>9, <1>10, PickedTwice
<1>12. \A rec \in Z : rec \in Range(q) /\ rec.band = b /\ rec.day = date /\ rec.judged
  BY <1>5, <1>6, <1>7, <1>9, <1>10
<1>13. PICK C : C = Places(q, Z)
  OBVIOUS
<1>14. Cardinality(C) = Len(l) /\ IsFiniteSet(C)
  BY <1>4, <1>8, <1>11, <1>13, PlacesCounted
<1>15. \A i \in C : i \in 1..Len(q) /\ q[i].band = b /\ q[i].day = date /\ q[i].judged /\ q[i] \in Range(q)
  BY <1>12, <1>13 DEF Places
<1>16. PICK g : g = [i \in C |-> q[i].issue]
  OBVIOUS
<1>17. g \in [C -> S]
  <2>1. ASSUME NEW i \in C PROVE q[i].issue \in S
    BY <1>1, <1>15 DEF NoonRowsTold
  <2>2. QED
    BY <1>16, <2>1
<1>18. g \in Injection(C, S)
  <2>1. ASSUME NEW i \in C, NEW j \in C, g[i] = g[j] PROVE i = j
    <3>1. q[i].issue = q[j].issue
      BY <1>16, <2>1
    <3>2. TaskOf(q[i]) = TaskOf(q[j])
      BY <1>15, <3>1 DEF TaskOf
    <3>3. QED
      BY <1>15, <3>2 DEF EachOnce
  <2>2. DOMAIN g = C
    BY <1>16
  <2>3. IsInjective(g)
    BY <2>1, <2>2 DEF IsInjective
  <2>4. QED
    BY <1>17, <2>3 DEF Injection
<1>19. g \in Surjection(C, S)
  BY <1>3, <1>14, <1>18, FS_Injection
<1>20. ASSUME NEW issue \in S
       PROVE  \E i \in DOMAIN q : q[i].band = b /\ q[i].day = date /\ q[i].issue = issue /\ q[i].judged
  <2>1. PICK i \in C : g[i] = issue
    BY <1>19 DEF Surjection
  <2>2. i \in DOMAIN q /\ q[i].issue = issue
    BY <1>4, <1>15, <1>16, <2>1
  <2>3. QED
    BY <1>15, <2>2
<1>21. QED
  BY <1>1, <1>20

LEMMA ComparisonHeard == ComparisonIInv /\ studying = "over" => SilenceIsHeard
<1>1. SUFFICES ASSUME ComparisonIInv, studying = "over", NEW b \in Range(BandOrder)
      PROVE  /\ \A date \in SilentDays(OfBand(morningRows, b)) :
                    \A i \in DOMAIN morningRows :
                        morningRows[i].band = b /\ morningRows[i].day = date =>
                            morningRows[i].judged /\ ~morningRows[i].pre
             /\ \A date \in CompleteDays(b) :
                    \A issue \in Range(NoonChosen(b, date).symbols) :
                        \E i \in DOMAIN noonRows :
                            /\ noonRows[i].band = b /\ noonRows[i].day = date
                            /\ noonRows[i].issue = issue /\ noonRows[i].judged
  BY DEF SilenceIsHeard
<1>2. PICK I : I = DOMAIN study.cached
  OBVIOUS
<1>3. /\ study \in Studies /\ Tabled(morningRows, I) /\ Tabled(noonRows, I) /\ NoonRowsTold(noonRows, study)
      /\ NoonAccount(noonRows, noonMissing, toStudy, NoonTasks, study)
  BY <1>1, <1>2 DEF ComparisonIInv, ComparisonOK, RowsOK, StageOK
<1>4. KnownLists(study)
  BY <1>3, StudyKnown
<1>5. EachOnce(noonRows)
  BY <1>3 DEF NoonAccount, EachOnce
<1>6. ASSUME NEW date \in SilentDays(OfBand(morningRows, b)), NEW i \in DOMAIN morningRows,
             morningRows[i].band = b, morningRows[i].day = date
      PROVE  morningRows[i].judged /\ ~morningRows[i].pre
  <2>1. PICK p, rec : p = OfBand(morningRows, b) /\ rec = morningRows[i]
    OBVIOUS
  <2>2. Tabled(p, I) /\ \A r : r \in Range(p) <=> r \in Range(morningRows) /\ r.band = b
    BY <1>3, <2>1, RowsOfBand
  <2>3. rec \in Range(p) /\ rec.day = date
    BY <1>3, <1>6, <2>1, <2>2, RowsAt
  <2>4. \A r \in Range(p) : r.day = date => r.judged /\ ~r.pre
    BY <2>1, <2>2, SilentRows
  <2>5. QED
    BY <2>1, <2>3, <2>4
<1>7. ASSUME NEW date \in CompleteDays(b)
      PROVE  \A issue \in Range(NoonChosen(b, date).symbols) :
                 \E i \in DOMAIN noonRows :
                     /\ noonRows[i].band = b /\ noonRows[i].day = date
                     /\ noonRows[i].issue = issue /\ noonRows[i].judged
  <2>1. PICK l : l = study.noon[b][date].symbols
    OBVIOUS
  <2>2. NoonChosen(b, date).symbols = l
    BY <2>1 DEF NoonChosen
  <2>3. date \in Range(StudyDays) /\ AllHeard(noonRows, b, date, l)
    BY <2>2, Zenon DEF CompleteDays, AllHeard
  <2>4. b \in BandNames /\ date \in ComparedDays
    BY <2>3 DEF BandNames, ComparedDays
  <2>5. Tabled(noonRows, DOMAIN study.cached)
    BY <1>2, <1>3
  <2>6. \A issue \in Range(l) : \E i \in DOMAIN noonRows :
            noonRows[i].band = b /\ noonRows[i].day = date /\ noonRows[i].issue = issue /\ noonRows[i].judged
    BY <1>3, <1>4, <1>5, <2>1, <2>3, <2>4, <2>5, CompleteRows
  <2>7. QED
    BY <2>2, <2>6
<1>8. QED
  BY <1>6, <1>7

LEMMA CandidatesCounted ==
    ASSUME NEW c, NEW p, CandidatesOK(c, p, study),
           \A b \in BandNames, d \in ComparedDays : ReadIn(c, study, b, d)
    PROVE  /\ \A i \in DOMAIN BandOrder, date \in Range(StudyDays) :
                  \A issue \in Range(study.screened[InBand(i)][date].symbols) :
                      Cardinality({k \in DOMAIN c : k[1] = date /\ k[2] = issue}) = 1
           /\ \A k \in DOMAIN c : \A b \in DOMAIN c[k].prices :
                  c[k].prices[b] # FirstPrice(c[k].prices) => k \in p
<1>1. BandOrder \in Seq(STRING) /\ DOMAIN BandOrder = 1..Len(BandOrder) /\ Len(BandOrder) \in Nat
  BY StudyOrders
<1>2. (\A i \in DOMAIN BandOrder : InBand(i) \in BandNames) /\ \A b \in BandNames : \E i \in DOMAIN BandOrder : InBand(i) = b
  BY <1>1, ElementsAt DEF InBand, BandNames
<1>3. \A k \in DOMAIN c : \E d \in ComparedDays, i \in DOMAIN study.cached : k = <<d, i, "merged">>
  BY DEF CandidatesOK
<1>4. ASSUME NEW i \in DOMAIN BandOrder, NEW date \in Range(StudyDays),
             NEW issue \in Range(study.screened[InBand(i)][date].symbols)
      PROVE  Cardinality({k \in DOMAIN c : k[1] = date /\ k[2] = issue}) = 1
  <2>1. PICK b \in BandNames : b = InBand(i)
    BY <1>2
  <2>2. PICK key : key = <<date, issue, "merged">>
    OBVIOUS
  <2>3. key \in DOMAIN c
    BY <1>4, <2>1, <2>2 DEF ReadIn, ComparedDays
  <2>4. key[1] = date /\ key[2] = issue
    BY <2>2
  <2>5. ASSUME NEW k \in DOMAIN c, k[1] = date, k[2] = issue PROVE k = key
    <3>1. PICK d \in ComparedDays, e \in DOMAIN study.cached : k = <<d, e, "merged">>
      BY <1>3
    <3>2. d = date /\ e = issue
      BY <2>5, <3>1
    <3>3. QED
      BY <2>2, <3>1, <3>2
  <2>6. {k \in DOMAIN c : k[1] = date /\ k[2] = issue} = {key}
    BY <2>3, <2>4, <2>5
  <2>7. QED
    BY <2>6, FS_Singleton
<1>5. ASSUME NEW k \in DOMAIN c, NEW b \in DOMAIN c[k].prices, c[k].prices[b] # FirstPrice(c[k].prices)
      PROVE  k \in p
  <2>1. PICK prices, D, v : prices = c[k].prices /\ D = DOMAIN prices /\ v = FirstPrice(prices)
    OBVIOUS
  <2>2. D \subseteq BandNames /\ b \in D /\ prices[b] # v
    BY <1>5, <2>1 DEF CandidatesOK
  <2>3. PICK priced : priced = {i \in DOMAIN BandOrder : InBand(i) \in D}
    OBVIOUS
  <2>4. v = IF priced = {} THEN 0 ELSE prices[InBand(Min(priced))]
    BY <2>1, <2>3, Zenon DEF FirstPrice
  <2>5. priced # {} /\ priced \in SUBSET Nat
    BY <1>1, <1>2, <2>2, <2>3
  <2>6. PICK o : o = InBand(Min(priced)) /\ o \in D
    BY <2>3, <2>5, Smallest
  <2>7. v = prices[o]
    BY <2>4, <2>5, <2>6
  <2>8. PICK R : R = Range(prices)
    OBVIOUS
  <2>9. prices[b] \in R /\ prices[o] \in R /\ prices[b] # prices[o]
    BY <2>1, <2>2, <2>6, <2>7, <2>8 DEF Range
  <2>10. IsFiniteSet(R)
    <3>1. IsFiniteSet(BandNames)
      BY <1>1, ListAsSet DEF BandNames
    <3>2. IsFiniteSet(D)
      BY <2>2, <3>1, FS_Subset
    <3>3. PICK g : g = [o1 \in D |-> prices[o1]]
      OBVIOUS
    <3>4. \A e \in R : \E o1 \in D : g[o1] = e
      BY <2>1, <2>8, <3>3 DEF Range
    <3>5. g \in [D -> R]
      BY <2>1, <2>8, <3>3 DEF Range
    <3>6. g \in Surjection(D, R)
      BY <3>4, <3>5 DEF Surjection
    <3>7. QED
      BY <3>2, <3>6, FS_Surjection
  <2>11. PICK P : P = {prices[o]} \cup {prices[b]}
    OBVIOUS
  <2>12. Cardinality(P) = 2 /\ IsFiniteSet(P)
    <3>1. IsFiniteSet({prices[o]}) /\ Cardinality({prices[o]}) = 1
      BY FS_Singleton
    <3>2. prices[b] \notin {prices[o]}
      BY <2>9
    <3>3. QED
      BY <2>11, <3>1, <3>2, FS_AddElement, SMTT(30)
  <2>13. P \subseteq R
    BY <2>9, <2>11
  <2>14. Cardinality(R) >= 2 /\ Cardinality(R) \in Nat
    BY <2>10, <2>12, <2>13, FS_Subset, FS_CardinalityType
  <2>15. Cardinality(Range(c[k].prices)) > 1
    BY <2>1, <2>8, <2>14
  <2>16. QED
    BY <2>15 DEF CandidatesOK
<1>6. QED
  BY <1>4, <1>5

LEMMA ComparisonCounted == ComparisonIInv /\ studying = "over" => AllCounted
<1>1. SUFFICES ASSUME ComparisonIInv, studying = "over" PROVE AllCounted
  OBVIOUS
<1>2. /\ CandidatesOK(candidates, complaints, study) /\ Tabled(noonRows, DOMAIN study.cached)
      /\ StageOK(study, studying, toStudy, candidates, morningRows, noonRows, noonMissing, MorningTasks, NoonTasks)
  BY <1>1 DEF ComparisonIInv, ComparisonOK, RowsOK
<1>3. /\ \A b \in BandNames, d \in ComparedDays : ReadIn(candidates, study, b, d)
      /\ Len(morningRows) = Len(MorningTasks) /\ toStudy = <<>>
      /\ NoonAccount(noonRows, noonMissing, toStudy, NoonTasks, study)
  BY <1>1, <1>2 DEF StageOK
<1>4. Len(noonRows) \in Nat /\ Len(toStudy) = 0 /\ DOMAIN noonRows = 1..Len(noonRows)
  BY <1>2, <1>3, RowsAt, EmptyLists
<1>5. Cardinality(noonMissing) \in Nat
  BY <1>3, FS_CardinalityType DEF NoonAccount
<1>6. Len(noonRows) + Cardinality(noonMissing) = Len(NoonTasks)
  BY <1>3, <1>4, <1>5 DEF NoonAccount
<1>7. \A i \in DOMAIN noonRows :
          [band |-> noonRows[i].band, day |-> noonRows[i].day, issue |-> noonRows[i].issue] \notin noonMissing
  BY <1>3, <1>4 DEF NoonAccount, TaskOf
<1>8. QED
  BY <1>2, <1>3, <1>6, <1>7, CandidatesCounted DEF AllCounted

LEMMA ComparisonWidths == ComparisonIInv => WidthsAgree
<1>1. SUFFICES ASSUME ComparisonIInv, NEW k \in DOMAIN candidates
      PROVE  /\ Widened(k, ScreenedUse(k)) = Widened(k, SelectionUse(k))
             /\ Widened(k, ScreenedUse(k)) => ScreenedUse(k) = SelectionUse(k)
  BY DEF WidthsAgree
<1>2. study \in Studies /\ CandidatesOK(candidates, complaints, study)
  BY <1>1 DEF ComparisonIInv, ComparisonOK
<1>3. KnownSymbols(study)
  BY <1>2, StudyKnown
<1>4. PICK d \in ComparedDays, i \in DOMAIN study.cached : k = <<d, i, "merged">>
  BY <1>2 DEF CandidatesOK
<1>5. k[1] = d /\ k[2] = i
  BY <1>4
<1>6. d \in Nat
  BY StudyOrders, ElementsAt DEF ComparedDays
<1>7. DOMAIN study.bars[i] \subseteq Int /\ \A e \in DOMAIN study.bars[i] : study.bars[i][e] # "none" => (e < NextOpen[d] <=> e <= d)
  BY <1>3 DEF KnownSymbols
<1>8. PICK next, bars, D : next = NextOpen[d] /\ bars = study.bars[i] /\ D = DOMAIN bars
  OBVIOUS
<1>9. DaysBefore(i, next) = {e \in D : bars[e] # "none" /\ e < next}
      /\ DaysBefore(i, d + 1) = {e \in D : bars[e] # "none" /\ e < d + 1}
  BY <1>8 DEF DaysBefore
<1>10. \A e \in D : bars[e] # "none" => (e < next <=> e < d + 1)
  BY <1>6, <1>7, <1>8
<1>11. DaysBefore(i, next) = DaysBefore(i, d + 1)
  BY <1>9, <1>10
<1>12. ScreenedUse(k) = SelectionUse(k)
  BY <1>5, <1>8, <1>11 DEF ScreenedUse, SelectionUse
<1>13. QED
  BY <1>12

LEMMA ComparisonTyped == ComparisonIInv => ComparisonTypeOK
<1>1. SUFFICES ASSUME ComparisonIInv PROVE ComparisonTypeOK
  OBVIOUS
<1>2. PICK I : I = DOMAIN study.cached
  OBVIOUS
<1>3. /\ CandidatesOK(candidates, complaints, study) /\ Tabled(morningRows, I) /\ Tabled(noonRows, I)
      /\ StageOK(study, studying, toStudy, candidates, morningRows, noonRows, noonMissing, MorningTasks, NoonTasks)
  BY <1>1, <1>2 DEF ComparisonIInv, ComparisonOK, RowsOK
<1>4. studying \in {"screened", "morning", "noon", "over"}
  BY <1>3 DEF StageOK
<1>5. \A k \in DOMAIN candidates : candidates[k].bands \subseteq Range(BandOrder)
  BY <1>3 DEF CandidatesOK, BandNames
<1>6. (\A i \in DOMAIN morningRows : morningRows[i] \in StudyRow(I)) /\ \A i \in DOMAIN noonRows : noonRows[i] \in StudyRow(I)
  BY <1>3, RowsAt
<1>7. (\A i \in DOMAIN morningRows : morningRows[i].post \in {"yes", "no", "unknown"}) /\ \A i \in DOMAIN noonRows : noonRows[i].at \in Nat
  BY <1>6 DEF StudyRow
<1>8. QED
  BY <1>4, <1>5, <1>7 DEF ComparisonTypeOK, Unknown

\* At the end of the comparison of the price bands nothing that a row says of the time before its
\* signal comes from later, every symbol is counted once, and every table adds up.
THEOREM AlwaysComparedSoundly == ComparisonSpec => [](ComparisonTypeOK /\ ComparisonSound)
<1>1. ComparisonIInv => ComparisonTypeOK /\ ComparisonSound
  BY ComparisonTyped, ComparisonHindsight, ComparisonOutcomes, ComparisonHeard, ComparisonCounted, ComparisonWidths
     DEF ComparisonSound
<1>2. QED
  BY ComparisonStarts, ComparisonGoesOn, <1>1, PTL DEF ComparisonSpec

-----------------------------------------------------------------------------
(* The evening: one of the machines at a time (MCEvening) *)

\* The machine that runs keeps its invariant.
EveningIInv ==
    /\ machine = "session" => SessionIInv
    /\ machine = "analysis" => AnalysisIInv
    /\ machine = "review" => ReviewIInv
    /\ machine = "recompute" => RecomputeIInv
    /\ machine = "unsold" => UnsoldIInv
    /\ machine = "replay" => ReplayIInv
    /\ machine = "compare" => ComparisonIInv
    /\ machine = "errors" => ErrorsIInv
    /\ machine = "backfill" => BackfillIInv

\* A step of the evening is one of the machine that runs, or leaves it as it is.
LEMMA OneMachineMoves ==
    ASSUME [EveningNext]_eveningVars
    PROVE  /\ machine' = machine
           /\ machine = "session" => [SessionNext]_sessionVars
           /\ machine = "analysis" => [AnalysisNext]_analysisVars
           /\ machine = "review" => [ReviewNext]_reviewVars
           /\ machine = "recompute" => [RecomputeNext]_recomputeVars
           /\ machine = "unsold" => [UnsoldNext]_unsoldVars
           /\ machine = "replay" => [ReplayNext]_replayVars
           /\ machine = "compare" => [ComparisonNext]_comparisonVars
           /\ machine = "errors" => [ErrorsNext]_errorVars
           /\ machine = "backfill" => [BackfillNext]_backfillVars
<1>1. CASE EveningNext
  BY <1>1, Zenon DEF EveningNext, OthersIdle
<1>2. CASE UNCHANGED eveningVars
  BY <1>2, Zenon DEF eveningVars
<1>3. QED
  BY <1>1, <1>2

LEMMA EveningBegins == EveningInit => EveningIInv
<1> SUFFICES ASSUME EveningInit PROVE EveningIInv
  OBVIOUS
<1>1. /\ SessionInit /\ AnalysisInit /\ ReviewInit /\ RecomputeInit /\ UnsoldInit
      /\ ReplayInit /\ ComparisonInit /\ ErrorsInit /\ BackfillInit
  BY Zenon DEF EveningInit
<1>2. /\ SessionIInv /\ AnalysisIInv /\ ReviewIInv /\ RecomputeIInv /\ UnsoldIInv
      /\ ReplayIInv /\ ComparisonIInv /\ ErrorsIInv /\ BackfillIInv
  BY <1>1, SessionInitially, AnalysisStart, ReviewInitially, RecomputeStart, UnsoldStarts,
     ReplayInitially, ComparisonStarts, ErrorsStart, BackfillInitially, Zenon
<1>3. QED
  BY <1>2, Zenon DEF EveningIInv

LEMMA EveningGoesOn == EveningIInv /\ [EveningNext]_eveningVars => EveningIInv'
<1> SUFFICES ASSUME EveningIInv, [EveningNext]_eveningVars PROVE EveningIInv'
  OBVIOUS
<1>1. machine' = machine
  BY OneMachineMoves, Zenon
<1>2. machine = "session" => SessionIInv'
  BY OneMachineMoves, SessionInductive, Zenon DEF EveningIInv
<1>3. machine = "analysis" => AnalysisIInv'
  BY OneMachineMoves, AnalysisStep, Zenon DEF EveningIInv
<1>4. machine = "review" => ReviewIInv'
  BY OneMachineMoves, ReviewInductive, Zenon DEF EveningIInv
<1>5. machine = "recompute" => RecomputeIInv'
  BY OneMachineMoves, RecomputeStep, Zenon DEF EveningIInv
<1>6. machine = "unsold" => UnsoldIInv'
  BY OneMachineMoves, UnsoldIInvKept, Zenon DEF EveningIInv
<1>7. machine = "replay" => ReplayIInv'
  BY OneMachineMoves, ReplayInductive, Zenon DEF EveningIInv
<1>8. machine = "compare" => ComparisonIInv'
  BY OneMachineMoves, ComparisonGoesOn, Zenon DEF EveningIInv
<1>9. machine = "errors" => ErrorsIInv'
  BY OneMachineMoves, ErrorsStep, Zenon DEF EveningIInv
<1>10. machine = "backfill" => BackfillIInv'
  BY OneMachineMoves, BackfillInductive, Zenon DEF EveningIInv
<1>11. QED
  BY <1>1, <1>2, <1>3, <1>4, <1>5, <1>6, <1>7, <1>8, <1>9, <1>10, Zenon DEF EveningIInv

\* The variables of the program that runs always have their types, whatever the constants.
THEOREM EveningTypesHold == EveningSpec => []EveningTypeOK
<1>1. EveningIInv => EveningTypeOK
  BY SessionSafe, AnalysisTyped, ReviewSafe, RecomputeHolds, UnsoldTyped, ReplaySafe, ComparisonTyped,
     ErrorsTyped, BackfillSafe, Zenon DEF EveningIInv, EveningTypeOK
<1>2. QED
  BY EveningBegins, EveningGoesOn, <1>1, PTL DEF EveningSpec

\* What is told of a day is true of it, whichever of the programs tells it and whatever fails, repeats or
\* dies on the way; and what is computed again from the files of earlier days is what those days were.
THEOREM EveningAlwaysSound == EveningSpec => []EveningSound
<1>1. AnalysisIInv => AnalysisSound
  BY RowsAndStatus, AllCaught, DaysTallied DEF AnalysisSound, AnnouncedTruly, AnalysisIInv, AnalysisSite
<1>2. ComparisonIInv => ComparisonSound
  BY ComparisonHindsight, ComparisonOutcomes, ComparisonHeard, ComparisonCounted, ComparisonWidths
     DEF ComparisonSound
<1>3. EveningIInv => EveningSound
  BY <1>1, <1>2, SessionSafe, ReviewSafe, RecomputeHolds, DiagnosisHolds, ReplaySafe, ErrorsTold,
     BackfillSafe, Zenon DEF EveningIInv, EveningSound
<1>4. QED
  BY EveningBegins, EveningGoesOn, <1>3, PTL DEF EveningSpec
=============================================================================
