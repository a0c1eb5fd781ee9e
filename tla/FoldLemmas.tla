------------------------------ MODULE FoldLemmas ------------------------------
(***************************************************************************)
(* Sequences and their elements, sums over finite sets and folds over         *)
(* sequences, as the models use them: what the operators of the community     *)
(* modules come to.                                                          *)
(***************************************************************************)
EXTENDS Integers, FiniteSets, Sequences, SequencesExt, ListComprehension, FiniteSetTheorems,
        WellFoundedInduction, TLAPS

-----------------------------------------------------------------------------
(* Sequences and the elements they have. *)

\* The elements of a sequence are its head and those of its tail.
LEMMA RangeOfTail ==
    ASSUME NEW T, NEW q \in Seq(T), q # <<>>
    PROVE  /\ Head(q) \in T /\ Tail(q) \in Seq(T)
           /\ Range(q) = {Head(q)} \cup Range(Tail(q))
<1>1. Len(q) \in Nat /\ Len(q) # 0 /\ DOMAIN q = 1..Len(q) /\ \A i \in 1..Len(q) : q[i] \in T
  OBVIOUS
<1>2. /\ Head(q) = q[1] /\ Tail(q) \in Seq(T) /\ Len(Tail(q)) = Len(q) - 1
      /\ \A i \in 1..(Len(q) - 1) : Tail(q)[i] = q[i + 1]
  BY <1>1
<1>3. DOMAIN Tail(q) = 1..(Len(q) - 1)
  BY <1>2
<1>4. ASSUME NEW e \in Range(q) PROVE e \in {Head(q)} \cup Range(Tail(q))
  <2>1. PICK i \in 1..Len(q) : q[i] = e
    BY <1>1 DEF Range
  <2>2. CASE i = 1
    BY <1>2, <2>1, <2>2
  <2>3. CASE i # 1
    <3>1. i - 1 \in 1..(Len(q) - 1) /\ (i - 1) + 1 = i
      BY <1>1, <2>3
    <3>2. Tail(q)[i - 1] = e
      BY <1>2, <2>1, <3>1
    <3>3. QED
      BY <1>3, <3>1, <3>2 DEF Range
  <2>4. QED
    BY <2>2, <2>3
<1>5. ASSUME NEW e \in Range(Tail(q)) PROVE e \in Range(q)
  <2>1. PICK i \in 1..(Len(q) - 1) : Tail(q)[i] = e
    BY <1>3 DEF Range
  <2>2. i + 1 \in 1..Len(q) /\ q[i + 1] = e
    BY <1>1, <1>2, <2>1
  <2>3. QED
    BY <1>1, <2>2 DEF Range
<1>6. Head(q) \in Range(q)
  BY <1>1, <1>2 DEF Range
<1>7. QED
  BY <1>1, <1>2, <1>4, <1>5, <1>6

\* Where a sequence has its elements.
LEMMA ElementsAt ==
    ASSUME NEW T, NEW q \in Seq(T)
    PROVE  /\ Range(q) \subseteq T /\ DOMAIN q = 1..Len(q) /\ Len(q) \in Nat
           /\ \A e : e \in Range(q) <=> \E i \in 1..Len(q) : q[i] = e
<1>1. DOMAIN q = 1..Len(q) /\ Len(q) \in Nat /\ \A i \in 1..Len(q) : q[i] \in T
  OBVIOUS
<1>2. ASSUME NEW e \in Range(q) PROVE \E i \in 1..Len(q) : q[i] = e
  BY <1>1 DEF Range
<1>3. ASSUME NEW i \in 1..Len(q) PROVE q[i] \in Range(q)
  BY <1>1 DEF Range
<1>4. Range(q) \subseteq T
  BY <1>1, <1>2
<1>5. QED
  BY <1>1, <1>2, <1>3, <1>4

\* One element more at the end.
LEMMA RangeOfAppend ==
    ASSUME NEW T, NEW q \in Seq(T), NEW e
    PROVE  Range(Append(q, e)) = Range(q) \cup {e}
<1>1. /\ DOMAIN q = 1..Len(q) /\ Len(q) \in Nat
      /\ DOMAIN Append(q, e) = 1..(Len(q) + 1) /\ Append(q, e)[Len(q) + 1] = e
      /\ \A i \in 1..Len(q) : Append(q, e)[i] = q[i]
  OBVIOUS
<1>2. ASSUME NEW d \in Range(Append(q, e)) PROVE d \in Range(q) \cup {e}
  <2>1. PICK i \in 1..(Len(q) + 1) : Append(q, e)[i] = d
    BY <1>1 DEF Range
  <2>2. CASE i = Len(q) + 1
    BY <1>1, <2>1, <2>2
  <2>3. CASE i # Len(q) + 1
    <3>1. i \in 1..Len(q)
      BY <1>1, <2>3
    <3>2. QED
      BY <1>1, <2>1, <3>1 DEF Range
  <2>4. QED
    BY <2>2, <2>3
<1>3. ASSUME NEW d \in Range(q) PROVE d \in Range(Append(q, e))
  <2>1. PICK i \in 1..Len(q) : q[i] = d
    BY <1>1 DEF Range
  <2>2. i \in 1..(Len(q) + 1)
    BY <1>1
  <2>3. QED
    BY <1>1, <2>1, <2>2 DEF Range
<1>4. Len(q) + 1 \in 1..(Len(q) + 1)
  BY <1>1
<1>5. e \in Range(Append(q, e))
  BY <1>1, <1>4 DEF Range
<1>6. QED
  BY <1>2, <1>3, <1>5

\* The elements of two sequences one after the other.
LEMMA RangeOfJoined ==
    ASSUME NEW T, NEW q \in Seq(T), NEW p \in Seq(T)
    PROVE  /\ q \o p \in Seq(T) /\ Len(q \o p) = Len(q) + Len(p)
           /\ Range(q \o p) = Range(q) \cup Range(p)
<1>1. /\ q \o p \in Seq(T) /\ Len(q \o p) = Len(q) + Len(p) /\ Len(q) \in Nat /\ Len(p) \in Nat
      /\ DOMAIN q = 1..Len(q) /\ DOMAIN p = 1..Len(p) /\ DOMAIN (q \o p) = 1..(Len(q) + Len(p))
  OBVIOUS
<1>2. /\ \A i \in 1..Len(q) : (q \o p)[i] = q[i]
      /\ \A i \in (Len(q) + 1)..(Len(q) + Len(p)) : (q \o p)[i] = p[i - Len(q)]
  OBVIOUS
<1>3. ASSUME NEW d \in Range(q \o p) PROVE d \in Range(q) \cup Range(p)
  <2>1. PICK i \in 1..(Len(q) + Len(p)) : (q \o p)[i] = d
    BY <1>1 DEF Range
  <2>2. CASE i <= Len(q)
    <3>1. i \in 1..Len(q) /\ q[i] = d
      BY <1>1, <1>2, <2>1, <2>2
    <3>2. QED
      BY <1>1, <3>1 DEF Range
  <2>3. CASE ~(i <= Len(q))
    <3>1. i \in (Len(q) + 1)..(Len(q) + Len(p)) /\ i - Len(q) \in 1..Len(p)
      BY <1>1, <2>3
    <3>2. p[i - Len(q)] = d
      BY <1>2, <2>1, <3>1
    <3>3. QED
      BY <1>1, <3>1, <3>2 DEF Range
  <2>4. QED
    BY <2>2, <2>3
<1>4. ASSUME NEW d \in Range(q) PROVE d \in Range(q \o p)
  <2>1. PICK i \in 1..Len(q) : q[i] = d
    BY <1>1 DEF Range
  <2>2. i \in 1..(Len(q) + Len(p)) /\ (q \o p)[i] = d
    BY <1>1, <1>2, <2>1
  <2>3. QED
    BY <1>1, <2>2 DEF Range
<1>5. ASSUME NEW d \in Range(p) PROVE d \in Range(q \o p)
  <2>1. PICK i \in 1..Len(p) : p[i] = d
    BY <1>1 DEF Range
  <2>2. PICK j : j = i + Len(q)
    OBVIOUS
  <2>3. j \in (Len(q) + 1)..(Len(q) + Len(p)) /\ j \in 1..(Len(q) + Len(p)) /\ j - Len(q) = i
    BY <1>1, <2>2
  <2>4. (q \o p)[j] = d
    BY <1>2, <2>1, <2>3
  <2>5. QED
    BY <1>1, <2>3, <2>4 DEF Range
<1>6. QED
  BY <1>1, <1>3, <1>4, <1>5

\* Parts of a finite set that have no element in common add up.
LEMMA PartsAddUp ==
    ASSUME NEW S, IsFiniteSet(S), NEW A, NEW B, A \cup B = S, A \cap B = {}
    PROVE  /\ IsFiniteSet(A) /\ IsFiniteSet(B)
           /\ Cardinality(A) \in Nat /\ Cardinality(B) \in Nat
           /\ Cardinality(S) = Cardinality(A) + Cardinality(B)
<1>1. IsFiniteSet(A) /\ IsFiniteSet(B)
  BY FS_Subset
<1>2. Cardinality(A) \in Nat /\ Cardinality(B) \in Nat
  BY <1>1, FS_CardinalityType
<1>3. Cardinality(A \cup B) = Cardinality(A) + Cardinality(B) - Cardinality(A \cap B)
  BY <1>1, FS_Union
<1>4. Cardinality(A \cap B) = 0
  BY FS_EmptySet, Zenon
<1>5. Cardinality(A \cup B) = Cardinality(S)
  BY Zenon
<1>6. QED
  BY <1>1, <1>2, <1>3, <1>4, <1>5

\* A finite set as a sequence: each element once.
LEMMA SetAsSequence ==
    ASSUME NEW S, IsFiniteSet(S)
    PROVE  /\ SetToSeq(S) \in Seq(S) /\ Len(SetToSeq(S)) = Cardinality(S)
           /\ Range(SetToSeq(S)) = S
           /\ \A i \in 1..Cardinality(S), j \in 1..Cardinality(S) :
                  SetToSeq(S)[i] = SetToSeq(S)[j] => i = j
<1> DEFINE n == Cardinality(S)
<1>1. n \in Nat /\ ExistsBijection(1..n, S)
  BY FS_CardinalityType
<1>2. PICK g : g \in Bijection(1..n, S)
  BY <1>1 DEF ExistsBijection
<1>3. g \in [1..n -> S] /\ IsInjective(g)
  BY <1>2 DEF Bijection, Injection
<1>4. PICK f : f = SetToSeq(S)
  OBVIOUS
<1>5. f \in [1..n -> S] /\ IsInjective(f)
  BY <1>3, <1>4 DEF SetToSeq
<1>6. f \in Injection(1..n, S)
  BY <1>5 DEF Injection
<1>7. IsFiniteSet(1..n) /\ Cardinality(1..n) = n
  <2>1. Cardinality(1..n) = IF 1 > n THEN 0 ELSE n - 1 + 1
    BY <1>1, FS_Interval
  <2>2. IsFiniteSet(1..n)
    BY <1>1, FS_Interval
  <2>3. QED
    BY <1>1, <2>1, <2>2
<1>8. f \in Surjection(1..n, S)
  BY <1>6, <1>7, FS_Injection
<1>9. \A s \in S : \E i \in 1..n : f[i] = s
  BY <1>8 DEF Surjection
<1> HIDE DEF n
<1>10. f \in Seq(S) /\ Len(f) = n /\ DOMAIN f = 1..n
  BY <1>1, <1>5
<1>11. Range(f) = S
  BY <1>5, <1>9, <1>10 DEF Range
<1>12. \A i \in 1..n, j \in 1..n : f[i] = f[j] => i = j
  BY <1>5, <1>10 DEF IsInjective
<1>13. QED
  BY <1>4, <1>10, <1>11, <1>12 DEF n

-----------------------------------------------------------------------------
(* Sums over finite sets. The library has induction with an operator for what is to  *)
(* be shown; here it is the set of the subsets for which it holds.                    *)

\* What holds for a subset if it holds without any one element holds for the whole.
LEMMA SubsetInduction ==
    ASSUME NEW S, IsFiniteSet(S), NEW F,
           \A T \in SUBSET S : (\A x \in T : T \ {x} \in F) => T \in F
    PROVE  S \in F
<1> DEFINE Left == {T \in SUBSET S : T \notin F}
           Sizes == {Cardinality(T) : T \in Left}
           Less == {ss \in Nat \X Nat : ss[1] < ss[2]}
<1> SUFFICES ASSUME S \notin F PROVE FALSE
  OBVIOUS
<1>1. \A T \in SUBSET S : IsFiniteSet(T) /\ Cardinality(T) \in Nat
  BY FS_Subset, FS_CardinalityType
<1>2. Sizes \subseteq Nat /\ Sizes # {}
  <2>1. S \in Left
    OBVIOUS
  <2>2. Cardinality(S) \in Sizes
    BY <2>1
  <2>3. QED
    BY <1>1, <2>2
<1>3. IsWellFoundedOn(Less, Nat)
  BY NatLessThanWellFounded DEF OpToRel
<1>4. PICK n \in Sizes : \A m \in Sizes : ~(<<m, n>> \in Less)
  <2> HIDE DEF Sizes, Less
  <2> QED
    BY <1>2, <1>3, WFMin
<1>5. PICK T \in Left : n = Cardinality(T)
  OBVIOUS
<1>6. ASSUME NEW x \in T PROVE T \ {x} \in F
  <2>1. T \in SUBSET S /\ IsFiniteSet(T) /\ T \ {x} \in SUBSET S
    BY <1>1
  <2>2. Cardinality(T \ {x}) = Cardinality(T) - 1 /\ Cardinality(T \ {x}) \in Nat
    BY <1>1, <2>1, FS_RemoveElement
  <2>3. SUFFICES ASSUME T \ {x} \notin F PROVE FALSE
    OBVIOUS
  <2>4. Cardinality(T \ {x}) \in Sizes
    BY <2>1, <2>3
  <2>5. <<Cardinality(T \ {x}), n>> \in Less
    BY <1>1, <1>5, <2>2
  <2>6. QED
    BY <1>4, <2>4, <2>5
<1>7. QED
  BY <1>6

\* What holds for the empty set, and with one element more, holds for the whole.
LEMMA SetInduction ==
    ASSUME NEW S, IsFiniteSet(S), NEW F, {} \in F,
           \A T \in SUBSET S : \A x \in S \ T : T \in F => T \cup {x} \in F
    PROVE  S \in F
<1>1. ASSUME NEW T \in SUBSET S, \A x \in T : T \ {x} \in F PROVE T \in F
  <2>1. CASE T = {}
    BY <2>1
  <2>2. ASSUME NEW x \in T PROVE T \in F
    <3>1. (T \ {x}) \cup {x} = T /\ x \in S \ (T \ {x}) /\ T \ {x} \in SUBSET S
      OBVIOUS
    <3>2. QED
      BY <1>1, <3>1
  <2>3. QED
    BY <2>1, <2>2
<1>2. QED
  BY <1>1, SubsetInduction

\* g sums up v over the subsets of S, whatever element is taken first.
Sums(g, v, S) ==
    /\ g \in [SUBSET S -> Int]
    /\ g[{}] = 0
    /\ \A T \in SUBSET S : \A x \in T : g[T] = v[x] + g[T \ {x}]

LEMMA SumsExist ==
    ASSUME NEW S, IsFiniteSet(S), NEW v \in [S -> Int]
    PROVE  \E g : Sums(g, v, S)
<1> DEFINE F == {U \in SUBSET S : \E g : Sums(g, v, U)}
<1>1. {} \in F
  <2>1. Sums([T \in {{}} |-> 0], v, {})
    BY DEF Sums
  <2>2. QED
    BY <2>1
<1>2. ASSUME NEW U \in SUBSET S, NEW x \in S \ U, U \in F PROVE U \cup {x} \in F
  <2>1. PICK h : Sums(h, v, U)
    BY <1>2
  <2> DEFINE W == U \cup {x}
             g == [T \in SUBSET W |-> IF x \in T THEN v[x] + h[T \ {x}] ELSE h[T]]
  <2>2. \A T \in SUBSET W : T \ {x} \in SUBSET U /\ (x \notin T => T \in SUBSET U)
    OBVIOUS
  <2>3. h \in [SUBSET U -> Int] /\ v[x] \in Int
    BY <2>1 DEF Sums
  <2>4. \A T \in SUBSET W : /\ g[T] = IF x \in T THEN v[x] + h[T \ {x}] ELSE h[T]
                            /\ g[T] \in Int
    BY <2>2, <2>3
  <2>5. g \in [SUBSET W -> Int]
    BY <2>4
  <2>6. g[{}] = 0
    BY <2>1, <2>4 DEF Sums
  <2>7. ASSUME NEW T \in SUBSET W, NEW y \in T PROVE g[T] = v[y] + g[T \ {y}]
    <3>1. T \ {y} \in SUBSET W
      OBVIOUS
    <3> HIDE DEF g
    <3>2. CASE x \notin T
      <4>1. h[T] = v[y] + h[T \ {y}]
        BY <2>1, <2>2, <3>2 DEF Sums
      <4>2. QED
        BY <2>4, <3>1, <3>2, <4>1
    <3>3. CASE y = x
      BY <2>4, <3>1, <3>3
    <3>4. CASE x \in T /\ y # x
      <4>1. T \ {x} \in SUBSET U /\ y \in T \ {x} /\ y \in S
        BY <2>2, <3>4
      <4>2. h[T \ {x}] = v[y] + h[(T \ {x}) \ {y}]
        BY <2>1, <4>1 DEF Sums
      <4>3. (T \ {x}) \ {y} = (T \ {y}) \ {x} /\ (T \ {x}) \ {y} \in SUBSET U
        BY <4>1
      <4>4. g[T] = v[x] + h[T \ {x}] /\ g[T \ {y}] = v[x] + h[(T \ {y}) \ {x}]
        BY <2>4, <3>1, <3>4
      <4>5. v[x] \in Int /\ v[y] \in Int /\ h[T \ {x}] \in Int /\ h[(T \ {x}) \ {y}] \in Int
        BY <2>3, <4>1, <4>3
      <4>6. g[T \ {y}] = v[x] + h[(T \ {x}) \ {y}]
        BY <4>3, <4>4
      <4>7. g[T] = v[x] + (v[y] + h[(T \ {x}) \ {y}])
        BY <4>2, <4>4
      <4>8. \A a, b, c \in Int : a + (b + c) = b + (a + c)
        OBVIOUS
      <4>9. QED
        BY <4>5, <4>6, <4>7, <4>8
    <3>5. QED
      BY <3>2, <3>3, <3>4
  <2>8. Sums(g, v, W)
    BY <2>5, <2>6, <2>7 DEF Sums
  <2>9. QED
    BY <2>8
<1>3. S \in F
  <2> HIDE DEF F
  <2> QED
    BY <1>1, <1>2, SetInduction
<1>4. QED
  BY <1>3

\* Two sums of values that agree on a set agree on it.
LEMMA SumsAgree ==
    ASSUME NEW S, IsFiniteSet(S), NEW v, NEW w, NEW g, NEW h, Sums(g, v, S), Sums(h, w, S),
           NEW R \in SUBSET S, \A x \in R : v[x] = w[x]
    PROVE  g[R] = h[R]
<1> DEFINE F == {T \in SUBSET R : g[T] = h[T]}
<1>1. {} \in F
  BY DEF Sums
<1>2. ASSUME NEW T \in SUBSET R, NEW x \in R \ T, T \in F PROVE T \cup {x} \in F
  <2>1. T \cup {x} \in SUBSET S /\ (T \cup {x}) \ {x} = T /\ x \in T \cup {x}
    BY <1>2
  <2>2. g[T \cup {x}] = v[x] + g[T] /\ h[T \cup {x}] = w[x] + h[T]
    BY <2>1 DEF Sums
  <2>3. QED
    BY <1>2, <2>2
<1>3. IsFiniteSet(R)
  BY FS_Subset
<1>4. R \in F
  <2> HIDE DEF F
  <2> QED
    BY <1>1, <1>2, <1>3, SetInduction
<1>5. QED
  BY <1>4

\* The fold of the library
SumOver(v, S) == MapThenSumSet(LAMBDA s : v[s], S)

\* What the fold of the library computes.
LEMMA FoldSums ==
    ASSUME NEW S, IsFiniteSet(S), NEW v, NEW g, Sums(g, v, S)
    PROVE  SumOver(v, S) = g[S]
<1> DEFINE pick(T) == CHOOSE x \in T : TRUE
           step(f) == [T \in SUBSET S |-> IF T = {} THEN 0 ELSE v[pick(T)] + f[T \ {pick(T)}]]
           iter == CHOOSE f : f = step(f)
<1>1. SumOver(v, S) = iter[S]
  BY DEF SumOver, MapThenSumSet, MapThenFoldSet
<1>2. g = step(g)
  <2>1. \A T \in SUBSET S : T # {} => pick(T) \in T
    OBVIOUS
  <2> HIDE DEF pick
  <2>2. \A T \in SUBSET S : g[T] = IF T = {} THEN 0 ELSE v[pick(T)] + g[T \ {pick(T)}]
    BY <2>1 DEF Sums
  <2>3. g = [T \in SUBSET S |-> g[T]]
    BY DEF Sums
  <2>4. QED
    BY <2>2, <2>3
<1>3. iter = step(iter)
  <2> HIDE DEF step
  <2> QED
    BY <1>2
<1>4. \A T \in SUBSET S : iter[T] = IF T = {} THEN 0 ELSE v[pick(T)] + iter[T \ {pick(T)}]
  <2> HIDE DEF iter
  <2> QED
    BY <1>3
<1> HIDE DEF iter
<1> DEFINE F == {T \in SUBSET S : iter[T] = g[T]}
<1>5. ASSUME NEW T \in SUBSET S, \A x \in T : T \ {x} \in F PROVE T \in F
  <2>1. CASE T = {}
    BY <1>4, <2>1 DEF Sums
  <2>2. CASE T # {}
    <3>1. pick(T) \in T
      BY <2>2
    <3> HIDE DEF pick
    <3>2. iter[T \ {pick(T)}] = g[T \ {pick(T)}]
      BY <1>5, <3>1
    <3>3. QED
      BY <1>4, <2>2, <3>1, <3>2 DEF Sums
  <2>3. QED
    BY <2>1, <2>2
<1>6. S \in F
  <2> HIDE DEF F
  <2> QED
    BY <1>5, SubsetInduction
<1>7. QED
  BY <1>1, <1>6

\* The sum of values over a finite set is an integer.
LEMMA SumType ==
    ASSUME NEW S, IsFiniteSet(S), NEW v \in [S -> Int]
    PROVE  SumOver(v, S) \in Int
<1>1. PICK g : Sums(g, v, S)
  BY SumsExist
<1>2. g[S] \in Int
  BY <1>1 DEF Sums
<1>3. SumOver(v, S) = g[S]
  BY <1>1, FoldSums
<1>4. QED
  BY <1>2, <1>3

\* What the values are elsewhere makes no difference.
LEMMA SumOfEqual ==
    ASSUME NEW S, IsFiniteSet(S), NEW v, NEW w, \A s \in S : v[s] \in Int /\ w[s] = v[s]
    PROVE  SumOver(w, S) = SumOver(v, S) /\ SumOver(v, S) \in Int
<1>1. PICK u : u = [s \in S |-> v[s]]
  OBVIOUS
<1>2. u \in [S -> Int] /\ \A s \in S : u[s] = v[s] /\ u[s] = w[s]
  BY <1>1
<1>3. PICK g : Sums(g, u, S)
  BY <1>2, SumsExist
<1>4. Sums(g, v, S) /\ Sums(g, w, S)
  BY <1>2, <1>3 DEF Sums
<1>5. SumOver(v, S) = g[S] /\ SumOver(w, S) = g[S]
  BY <1>4, FoldSums
<1>6. g[S] \in Int
  BY <1>3 DEF Sums
<1>7. QED
  BY <1>5, <1>6

\* Sums differ by what the values at one place differ.
LEMMA SumDiffers ==
    ASSUME NEW S, IsFiniteSet(S), NEW v \in [S -> Int], NEW w \in [S -> Int], NEW a \in S,
           \A s \in S \ {a} : v[s] = w[s]
    PROVE  SumOver(w, S) = SumOver(v, S) + w[a] - v[a]
<1>1. PICK g : Sums(g, v, S)
  BY SumsExist
<1>2. PICK h : Sums(h, w, S)
  BY SumsExist
<1>3. PICK R \in SUBSET S : R = S \ {a}
  OBVIOUS
<1>4. g[R] = h[R]
  <2>1. \A s \in R : v[s] = w[s]
    BY <1>3
  <2>2. QED
    BY <1>1, <1>2, <2>1, SumsAgree
<1>5. g[S] = v[a] + g[R] /\ h[S] = w[a] + h[R]
  BY <1>1, <1>2, <1>3 DEF Sums
<1>6. g[R] \in Int
  BY <1>1 DEF Sums
<1>7. SumOver(v, S) = g[S]
  BY <1>1, FoldSums
<1>8. SumOver(w, S) = h[S]
  BY <1>2, FoldSums
<1>9. QED
  BY <1>4, <1>5, <1>6, <1>7, <1>8

\* Nothing sums up to nothing.
LEMMA SumOfNothing ==
    ASSUME NEW S, IsFiniteSet(S), NEW v, v = [s \in S |-> 0]
    PROVE  SumOver(v, S) = 0
<1>1. v \in [S -> Int]
  OBVIOUS
<1> DEFINE g == [T \in SUBSET S |-> 0]
<1>2. Sums(g, v, S)
  BY DEF Sums
<1>3. g[S] = 0
  OBVIOUS
<1>4. QED
  BY <1>1, <1>2, <1>3, FoldSums

\* Two sums added are the sum of the values added.
LEMMA SumAdds ==
    ASSUME NEW S, IsFiniteSet(S), NEW v \in [S -> Int], NEW w \in [S -> Int], NEW u \in [S -> Int],
           \A s \in S : u[s] = v[s] + w[s]
    PROVE  SumOver(u, S) = SumOver(v, S) + SumOver(w, S)
<1>1. PICK g : Sums(g, v, S)
  BY SumsExist
<1>2. PICK h : Sums(h, w, S)
  BY SumsExist
<1> DEFINE k == [T \in SUBSET S |-> g[T] + h[T]]
<1>3. Sums(k, u, S)
  <2>1. k \in [SUBSET S -> Int] /\ k[{}] = 0
    BY <1>1, <1>2 DEF Sums
  <2>2. ASSUME NEW T \in SUBSET S, NEW e \in T PROVE k[T] = u[e] + k[T \ {e}]
    <3>1. g[T] = v[e] + g[T \ {e}] /\ h[T] = w[e] + h[T \ {e}] /\ u[e] = v[e] + w[e]
      BY <1>1, <1>2 DEF Sums
    <3>2. /\ g[T \ {e}] \in Int /\ h[T \ {e}] \in Int /\ v[e] \in Int /\ w[e] \in Int
          /\ T \ {e} \in SUBSET S
      BY <1>1, <1>2 DEF Sums
    <3>3. k[T] = g[T] + h[T] /\ k[T \ {e}] = g[T \ {e}] + h[T \ {e}]
      BY <3>2
    <3>4. QED
      BY <3>1, <3>2, <3>3
  <2> HIDE DEF k
  <2>3. QED
    BY <2>1, <2>2 DEF Sums
<1>4. k[S] = g[S] + h[S]
  OBVIOUS
<1> HIDE DEF k
<1>5. SumOver(u, S) = k[S] /\ SumOver(v, S) = g[S] /\ SumOver(w, S) = h[S]
  BY <1>1, <1>2, <1>3, FoldSums
<1>6. QED
  BY <1>4, <1>5

\* Values of nothing may be left out of a sum.
LEMMA SumWithin ==
    ASSUME NEW S, IsFiniteSet(S), NEW R \in SUBSET S, NEW v \in [S -> Int], NEW w \in [R -> Int],
           \A s \in R : w[s] = v[s], \A s \in S \ R : v[s] = 0
    PROVE  SumOver(w, R) = SumOver(v, S)
<1>0. IsFiniteSet(R) /\ IsFiniteSet(S \ R)
  BY FS_Subset
<1>1. PICK g : Sums(g, v, S)
  BY SumsExist
<1>2. PICK h : Sums(h, w, R)
  BY <1>0, SumsExist
<1> DEFINE k == [T \in SUBSET R |-> g[T]]
<1>3. Sums(k, w, R)
  <2>1. k \in [SUBSET R -> Int] /\ k[{}] = 0
    BY <1>1 DEF Sums
  <2>2. ASSUME NEW T \in SUBSET R, NEW e \in T PROVE k[T] = w[e] + k[T \ {e}]
    <3>1. T \in SUBSET S /\ T \ {e} \in SUBSET R /\ w[e] = v[e]
      OBVIOUS
    <3>2. g[T] = v[e] + g[T \ {e}]
      BY <1>1, <3>1 DEF Sums
    <3>3. QED
      BY <3>1, <3>2
  <2> HIDE DEF k
  <2>3. QED
    BY <2>1, <2>2 DEF Sums
<1>4. k[R] = g[R]
  OBVIOUS
<1> HIDE DEF k
<1>5. SumOver(w, R) = g[R]
  BY <1>0, <1>3, <1>4, FoldSums
<1> DEFINE F == {T \in SUBSET (S \ R) : g[R \cup T] = g[R]}
<1>6. S \ R \in F
  <2>1. {} \in F
    OBVIOUS
  <2>2. ASSUME NEW T \in SUBSET (S \ R), NEW e \in (S \ R) \ T, T \in F PROVE T \cup {e} \in F
    <3>1. PICK U \in SUBSET S : U = R \cup (T \cup {e})
      OBVIOUS
    <3>2. e \in U /\ U \ {e} = R \cup T /\ v[e] = 0 /\ R \cup T \in SUBSET S
      BY <3>1
    <3>3. g[U] = v[e] + g[U \ {e}]
      BY <1>1, <3>1, <3>2 DEF Sums
    <3>4. g[R \cup T] = g[R] /\ g[R] \in Int
      BY <1>1, <2>2 DEF Sums
    <3>5. g[U] = g[R]
      BY <3>2, <3>3, <3>4
    <3>6. QED
      BY <3>1, <3>5
  <2> HIDE DEF F
  <2>3. QED
    BY <1>0, <2>1, <2>2, SetInduction
<1>7. g[S] = g[R]
  <2>1. R \cup (S \ R) = S
    OBVIOUS
  <2>2. QED
    BY <1>6, <2>1
<1>8. QED
  BY <1>1, <1>5, <1>7, FoldSums

\* The elements of each kind add up to all of them.
LEMMA SumOfCounts ==
    ASSUME NEW C, IsFiniteSet(C), NEW D, IsFiniteSet(D), NEW kind \in [C -> D], NEW v \in [D -> Int],
           \A s \in D : v[s] = Cardinality({c \in C : kind[c] = s})
    PROVE  SumOver(v, D) = Cardinality(C)
<1>1. PICK g : Sums(g, v, D)
  BY SumsExist
<1> DEFINE Of(T) == {c \in C : kind[c] \in T}
           F == {T \in SUBSET D : g[T] = Cardinality(Of(T))}
<1>2. ASSUME NEW T \in SUBSET D, \A e \in T : T \ {e} \in F PROVE T \in F
  <2>1. CASE T = {}
    <3>1. Of(T) = {}
      BY <2>1
    <3>2. g[T] = 0
      BY <1>1, <2>1 DEF Sums
    <3>3. QED
      BY <3>1, <3>2, FS_EmptySet
  <2>2. ASSUME NEW e \in T PROVE T \in F
    <3>1. PICK A, B, W : A = {c \in C : kind[c] = e} /\ B = Of(T \ {e}) /\ W = Of(T)
      OBVIOUS
    <3>2. A \cup B = W /\ A \cap B = {} /\ W \subseteq C
      BY <3>1
    <3>3. IsFiniteSet(W)
      BY <3>2, FS_Subset
    <3>4. Cardinality(W) = Cardinality(A) + Cardinality(B)
      BY <3>2, <3>3, PartsAddUp
    <3>5. g[T] = v[e] + g[T \ {e}]
      BY <1>1 DEF Sums
    <3>6. v[e] = Cardinality(A) /\ g[T \ {e}] = Cardinality(B)
      BY <1>2, <3>1
    <3>7. QED
      BY <3>1, <3>4, <3>5, <3>6
  <2>3. QED
    BY <2>1, <2>2
<1>3. D \in F
  <2> HIDE DEF F
  <2> QED
    BY <1>2, SubsetInduction
<1>4. Of(D) = C
  OBVIOUS
<1>5. SumOver(v, D) = g[D]
  BY <1>1, FoldSums
<1>6. QED
  BY <1>3, <1>4, <1>5

-----------------------------------------------------------------------------
(* The fold of the library over a sequence. As it takes the step for a parameter, what *)
(* it comes to is shown for every step where that one is used; here is what all of      *)
(* these proofs have in common, for a step given as a function.                         *)

\* What holds for 0 and is carried on by one holds for every number up to n.
LEMMA CountingUp ==
    ASSUME NEW n \in Nat, NEW F, 0 \in F, \A i \in 1..n : i - 1 \in F => i \in F
    PROVE  \A i \in 0..n : i \in F
<1> DEFINE Left == {i \in 0..n : i \notin F}
           Less == {ij \in Nat \X Nat : ij[1] < ij[2]}
<1> SUFFICES ASSUME Left # {} PROVE FALSE
  OBVIOUS
<1>1. IsWellFoundedOn(Less, Nat)
  BY NatLessThanWellFounded DEF OpToRel
<1>2. Left \subseteq Nat
  OBVIOUS
<1>3. PICK i \in Left : \A j \in Left : ~(<<j, i>> \in Less)
  <2> HIDE DEF Left, Less
  <2> QED
    BY <1>1, <1>2, WFMin
<1>4. i \in 1..n /\ i - 1 \in 0..n /\ i - 1 \in Nat /\ i \in Nat
  OBVIOUS
<1>5. i - 1 \notin F
  BY <1>4
<1>6. <<i - 1, i>> \in Less
  BY <1>4
<1>7. QED
  BY <1>3, <1>4, <1>5, <1>6

LEMMA LeastNumber ==
    ASSUME NEW S \in SUBSET Nat, S # {}
    PROVE  \E n \in S : \A m \in S : n <= m
<1> DEFINE Less == {ss \in Nat \X Nat : ss[1] < ss[2]}
<1>1. IsWellFoundedOn(Less, Nat)
  BY NatLessThanWellFounded DEF OpToRel
<1>2. PICK n \in S : \A m \in S : ~(<<m, n>> \in Less)
  <2> HIDE DEF Less
  <2> QED
    BY <1>1, WFMin
<1>3. \A m \in S : m \in Nat /\ n \in Nat /\ ~(m < n)
  BY <1>2
<1>4. \A m \in S : n <= m
  <2> HIDE DEF Less
  <2> QED
    BY <1>3
<1>5. QED
  BY <1>4

\* The least of some numbers.
LEMMA Smallest ==
    ASSUME NEW S \in SUBSET Nat, S # {}
    PROVE  Min(S) \in S /\ \A i \in S : Min(S) <= i
<1>1. \E n \in S : \A m \in S : n <= m
  BY LeastNumber
<1>2. QED
  BY <1>1, Zenon DEF Min

\* The largest of some numbers is one of them, and none is larger.
LEMMA Largest ==
    ASSUME NEW n \in Nat, NEW S \in SUBSET (0..n), S # {}
    PROVE  Max(S) \in S /\ \A i \in S : Max(S) >= i
<1> DEFINE F == {m \in 0..n : \A T \in SUBSET (0..m) : T # {} => \E i \in T : \A j \in T : i >= j}
<1>1. 0 \in F
  <2>1. ASSUME NEW T \in SUBSET (0..0), T # {} PROVE \E i \in T : \A j \in T : i >= j
    <3>1. PICK i \in T : TRUE
      BY <2>1
    <3>2. \A j \in T : j = 0 /\ i = 0
      OBVIOUS
    <3>3. QED
      BY <3>1, <3>2
  <2>2. 0 \in 0..n
    OBVIOUS
  <2>3. QED
    BY <2>1, <2>2
<1>2. ASSUME NEW m \in 1..n, m - 1 \in F PROVE m \in F
  <2>1. SUFFICES ASSUME NEW T \in SUBSET (0..m), T # {} PROVE \E i \in T : \A j \in T : i >= j
    OBVIOUS
  <2>2. CASE m \in T
    BY <2>1, <2>2
  <2>3. CASE m \notin T
    <3>1. T \in SUBSET (0..(m - 1))
      BY <2>1, <2>3
    <3>2. QED
      BY <1>2, <2>1, <3>1
  <2>4. QED
    BY <2>2, <2>3
<1>3. n \in F
  <2>1. n \in 0..n
    OBVIOUS
  <2> HIDE DEF F
  <2>2. \A m \in 0..n : m \in F
    BY <1>1, <1>2, CountingUp
  <2>3. QED
    BY <2>1, <2>2
<1>4. \E i \in S : \A j \in S : i >= j
  BY <1>3
<1>5. QED
  BY <1>4, Zenon DEF Max

LEMMA LargestUpTo ==
    ASSUME NEW n \in Nat, n # 0
    PROVE  Max(1..n) = n /\ (1..n) \ {n} = 1..(n - 1)
<1>1. 1..n \in SUBSET (0..n) /\ n \in 1..n /\ 1..n # {}
  OBVIOUS
<1>2. Max(1..n) \in 1..n /\ \A i \in 1..n : Max(1..n) >= i
  BY <1>1, Largest
<1>3. QED
  BY <1>1, <1>2

\* g folds the first n elements of q, from b, by the steps h.
Folds(g, h, b, q, n) ==
    \A T \in SUBSET (1..n) : g[T] = IF T = {} THEN b ELSE h[<<g[T \ {Max(T)}], q[Max(T)]>>]

LEMMA FoldsExist ==
    ASSUME NEW B, NEW X, NEW h \in [B \X X -> B], NEW b \in B, NEW n \in Nat, NEW q \in [1..n -> X]
    PROVE  \E g \in [SUBSET (1..n) -> B] : Folds(g, h, b, q, n)
<1> DEFINE F == {m \in 0..n : \E g \in [SUBSET (1..m) -> B] : Folds(g, h, b, q, m)}
<1>1. 0 \in F
  <2> DEFINE g == [T \in SUBSET (1..0) |-> b]
  <2>1. g \in [SUBSET (1..0) -> B]
    OBVIOUS
  <2>2. Folds(g, h, b, q, 0)
    <3>1. ASSUME NEW T \in SUBSET (1..0) PROVE T = {} /\ g[T] = b
      OBVIOUS
    <3> HIDE DEF g
    <3>2. QED
      BY <3>1 DEF Folds
  <2> HIDE DEF g
  <2>3. 0 \in 0..n
    OBVIOUS
  <2>4. QED
    BY <2>1, <2>2, <2>3
<1>2. ASSUME NEW m \in 1..n, m - 1 \in F PROVE m \in F
  <2>1. PICK f \in [SUBSET (1..(m - 1)) -> B] : Folds(f, h, b, q, m - 1)
    BY <1>2
  <2> DEFINE g == [T \in SUBSET (1..m) |-> IF m \in T THEN h[<<f[T \ {m}], q[m]>>] ELSE f[T]]
  <2>2. \A T \in SUBSET (1..m) : T \ {m} \in SUBSET (1..(m - 1)) /\ (m \notin T => T \in SUBSET (1..(m - 1)))
    OBVIOUS
  <2>3. m \in 0..n /\ m \in 1..n /\ q[m] \in X
    OBVIOUS
  <2>4. \A T \in SUBSET (1..m) : /\ m \in T => g[T] = h[<<f[T \ {m}], q[m]>>]
                                 /\ m \notin T => g[T] = f[T]
    OBVIOUS
  <2>5. g \in [SUBSET (1..m) -> B]
    <3>1. ASSUME NEW T \in SUBSET (1..m) PROVE (IF m \in T THEN h[<<f[T \ {m}], q[m]>>] ELSE f[T]) \in B
      <4>1. CASE m \in T
        <5>1. f[T \ {m}] \in B
          BY <2>1, <2>2
        <5>2. QED
          BY <2>3, <4>1, <5>1
      <4>2. CASE m \notin T
        BY <2>1, <2>2, <4>2
      <4>3. QED
        BY <4>1, <4>2
    <3>2. QED
      BY <3>1
  <2> HIDE DEF g
  <2>6. ASSUME NEW T \in SUBSET (1..m)
        PROVE  g[T] = IF T = {} THEN b ELSE h[<<g[T \ {Max(T)}], q[Max(T)]>>]
    <3>1. CASE m \in T
      <4>1. T \in SUBSET (0..m) /\ T # {} /\ m \in Nat
        BY <3>1
      <4>2. Max(T) = m
        <5>1. Max(T) \in T /\ \A i \in T : Max(T) >= i
          BY <4>1, Largest
        <5>2. Max(T) \in 1..m
          BY <5>1
        <5>3. QED
          BY <3>1, <5>1, <5>2
      <4>3. g[T \ {m}] = f[T \ {m}]
        <5>1. T \ {m} \in SUBSET (1..m) /\ m \notin T \ {m}
          OBVIOUS
        <5>2. QED
          BY <2>4, <5>1
      <4>4. QED
        BY <2>4, <3>1, <4>1, <4>2, <4>3
    <3>2. CASE m \notin T
      <4>1. g[T] = f[T] /\ T \in SUBSET (1..(m - 1))
        BY <2>2, <2>4, <3>2
      <4>2. f[T] = IF T = {} THEN b ELSE h[<<f[T \ {Max(T)}], q[Max(T)]>>]
        BY <2>1, <4>1 DEF Folds
      <4>3. f[T \ {Max(T)}] = g[T \ {Max(T)}]
        <5>1. T \ {Max(T)} \in SUBSET (1..m) /\ m \notin T \ {Max(T)}
          BY <3>2
        <5>2. QED
          BY <2>4, <5>1
      <4>4. QED
        BY <4>1, <4>2, <4>3
    <3>3. QED
      BY <3>1, <3>2
  <2>7. Folds(g, h, b, q, m)
    BY <2>6 DEF Folds
  <2>8. QED
    BY <2>3, <2>5, <2>7
<1>3. n \in F
  <2>1. n \in 0..n
    OBVIOUS
  <2> HIDE DEF F
  <2>2. \A m \in 0..n : m \in F
    BY <1>1, <1>2, CountingUp
  <2>3. QED
    BY <2>1, <2>2
<1>4. QED
  BY <1>3

\* P, of how many elements were folded and of what they came to, holds before the first one
\* and goes on from each to the next.
Carries(P, B, X, g, h, b, q, n) ==
    /\ h \in [B \X X -> B] /\ b \in B /\ n \in Nat /\ q \in [1..n -> X]
    /\ g[{}] = b
    /\ \A T \in SUBSET (1..n) :
          T # {} /\ g[T \ {Max(T)}] \in B => g[T] = h[<<g[T \ {Max(T)}], q[Max(T)]>>]
    /\ <<0, b>> \in P
    /\ \A i \in 1..n : \A c \in B : <<i - 1, c>> \in P => <<i, h[<<c, q[i]>>]>> \in P

\* Then it holds after the last one.
LEMMA FoldKeeps ==
    ASSUME NEW P, NEW B, NEW X, NEW g, NEW h, NEW b, NEW q, NEW n, Carries(P, B, X, g, h, b, q, n)
    PROVE  g[1..n] \in B /\ <<n, g[1..n]>> \in P
<1> USE DEF Carries
<1> DEFINE F == {i \in 0..n : g[1..i] \in B /\ <<i, g[1..i]>> \in P}
<1>1. 0 \in F
  <2>1. 1..0 = {} /\ 0 \in 0..n
    OBVIOUS
  <2>2. g[1..0] = b
    BY <2>1
  <2>3. QED
    BY <2>1, <2>2
<1>2. ASSUME NEW i \in 1..n, i - 1 \in F PROVE i \in F
  <2>1. i \in Nat /\ i # 0 /\ i \in 0..n /\ 1..i \in SUBSET (1..n) /\ 1..i # {} /\ q[i] \in X
    <3>1. i \in Nat /\ i # 0 /\ i \in 0..n /\ q[i] \in X
      OBVIOUS
    <3>2. 1..i \in SUBSET (1..n)
      OBVIOUS
    <3>3. i \in 1..i
      OBVIOUS
    <3>4. 1..i # {}
      BY <3>3
    <3>5. QED
      BY <3>1, <3>2, <3>4
  <2>2. Max(1..i) = i /\ (1..i) \ {i} = 1..(i - 1)
    BY <2>1, LargestUpTo
  <2>3. g[1..(i - 1)] \in B /\ <<i - 1, g[1..(i - 1)]>> \in P
    BY <1>2
  <2>4. g[1..i] = h[<<g[1..(i - 1)], q[i]>>]
    BY <2>1, <2>2, <2>3
  <2>5. h[<<g[1..(i - 1)], q[i]>>] \in B
    BY <2>1, <2>3
  <2>6. QED
    BY <2>1, <2>3, <2>4, <2>5
<1>3. n \in F
  <2>1. n \in 0..n
    OBVIOUS
  <2> HIDE DEF F
  <2>2. \A i \in 0..n : i \in F
    BY <1>1, <1>2, CountingUp
  <2>3. QED
    BY <2>1, <2>2
<1>4. QED
  BY <1>3

-----------------------------------------------------------------------------
(* Folds that are compared: of a sequence, and of the same one with an element more. *)

\* r is what the steps h make of b and the elements of q.
Folded(h, B, b, q, r) ==
    \E g \in [SUBSET (1..Len(q)) -> B] : Folds(g, h, b, q, Len(q)) /\ r = g[1..Len(q)]

LEMMA FoldOfNothing ==
    ASSUME NEW B, NEW h, NEW b, NEW r, Folded(h, B, b, <<>>, r)
    PROVE  r = b
<1>1. PICK n : n = Len(<<>>)
  OBVIOUS
<1>2. PICK g \in [SUBSET (1..n) -> B] : Folds(g, h, b, <<>>, n) /\ r = g[1..n]
  BY <1>1 DEF Folded
<1>3. 1..n = {} /\ {} \in SUBSET (1..n)
  BY <1>1
<1>4. g[{}] = b
  BY <1>2, <1>3 DEF Folds
<1>5. QED
  BY <1>2, <1>3, <1>4

\* r and t are what comes of q, and of q with e after it.
OneMore(h, B, X, b, q, e, r, t) ==
    /\ h \in [B \X X -> B] /\ b \in B /\ q \in Seq(X) /\ e \in X
    /\ Folded(h, B, b, q, r) /\ Folded(h, B, b, Append(q, e), t)

\* One more element is one more step.
LEMMA FoldOfAppend ==
    ASSUME NEW B, NEW X, NEW h, NEW b, NEW q, NEW e, NEW r, NEW t, OneMore(h, B, X, b, q, e, r, t)
    PROVE  r \in B /\ t = h[<<r, e>>]
<1>0. /\ h \in [B \X X -> B] /\ b \in B /\ q \in Seq(X) /\ e \in X
      /\ Folded(h, B, b, q, r) /\ Folded(h, B, b, Append(q, e), t)
  BY DEF OneMore
<1>1. PICK n \in Nat : n = Len(q)
  BY <1>0
<1>2. PICK p : p = Append(q, e)
  OBVIOUS
<1>3. q \in [1..n -> X] /\ Len(p) = n + 1 /\ p[n + 1] = e /\ \A i \in 1..n : p[i] = q[i]
  BY <1>0, <1>1, <1>2
<1>4. PICK f \in [SUBSET (1..n) -> B] : Folds(f, h, b, q, n) /\ r = f[1..n]
  BY <1>0, <1>1 DEF Folded
<1>5. PICK g \in [SUBSET (1..(n + 1)) -> B] : Folds(g, h, b, p, n + 1) /\ t = g[1..(n + 1)]
  BY <1>0, <1>2, <1>3 DEF Folded
<1>6. SUBSET (1..n) \subseteq SUBSET (1..(n + 1))
  OBVIOUS
<1> DEFINE P == {<<i, f[1..i]>> : i \in 0..n}
<1>7. f[{}] = b /\ g[{}] = b
  BY <1>4, <1>5 DEF Folds
<1>8. ASSUME NEW T \in SUBSET (1..n), T # {}
      PROVE  g[T] = h[<<g[T \ {Max(T)}], q[Max(T)]>>]
  <2>1. T \in SUBSET (1..(n + 1)) /\ T \in SUBSET (0..n)
    BY <1>6
  <2>2. Max(T) \in T
    BY <1>8, <2>1, Largest
  <2>3. p[Max(T)] = q[Max(T)]
    BY <1>3, <2>2
  <2>4. g[T] = h[<<g[T \ {Max(T)}], p[Max(T)]>>]
    BY <1>5, <1>8, <2>1 DEF Folds
  <2>5. QED
    BY <2>3, <2>4
<1>9. <<0, b>> \in P
  <2>1. 1..0 = {} /\ 0 \in 0..n
    OBVIOUS
  <2>2. QED
    BY <1>7, <2>1
<1>10. ASSUME NEW i \in 1..n, NEW c \in B, <<i - 1, c>> \in P PROVE <<i, h[<<c, q[i]>>]>> \in P
  <2>1. c = f[1..(i - 1)]
    BY <1>10
  <2>2. i \in Nat /\ i # 0 /\ 1..i \in SUBSET (1..n) /\ 1..i # {} /\ i \in 0..n
    <3>1. 1..i \in SUBSET (1..n)
      OBVIOUS
    <3>2. i \in 1..i /\ i \in Nat /\ i # 0 /\ i \in 0..n
      OBVIOUS
    <3>3. 1..i # {}
      BY <3>2
    <3>4. QED
      BY <3>1, <3>2, <3>3
  <2>3. Max(1..i) = i /\ (1..i) \ {i} = 1..(i - 1)
    BY <2>2, LargestUpTo
  <2>4. f[1..i] = h[<<f[(1..i) \ {Max(1..i)}], q[Max(1..i)]>>]
    BY <1>4, <2>2 DEF Folds
  <2>5. f[1..i] = h[<<c, q[i]>>]
    BY <2>1, <2>3, <2>4
  <2>6. QED
    BY <2>2, <2>5
<1>11. Carries(P, B, X, g, h, b, q, n)
  <2> HIDE DEF P
  <2>1. \A T \in SUBSET (1..n) :
           T # {} /\ g[T \ {Max(T)}] \in B => g[T] = h[<<g[T \ {Max(T)}], q[Max(T)]>>]
    BY <1>8
  <2>2. QED
    BY <1>0, <1>3, <1>7, <1>9, <1>10, <2>1 DEF Carries
<1>12. g[1..n] = f[1..n]
  <2>1. <<n, g[1..n]>> \in P
    <3> HIDE DEF P
    <3> QED
      BY <1>11, FoldKeeps
  <2>2. QED
    BY <2>1
<1>13. Max(1..(n + 1)) = n + 1 /\ (1..(n + 1)) \ {n + 1} = 1..n
  <2>1. n + 1 \in Nat /\ n + 1 # 0 /\ (n + 1) - 1 = n
    OBVIOUS
  <2>2. PICK m : m = n + 1
    OBVIOUS
  <2>3. Max(1..m) = m /\ (1..m) \ {m} = 1..(m - 1)
    BY <2>1, <2>2, LargestUpTo
  <2>4. QED
    BY <2>1, <2>2, <2>3
<1>14. g[1..(n + 1)] = h[<<g[1..n], e>>]
  <2>1. 1..(n + 1) \in SUBSET (1..(n + 1)) /\ n + 1 \in 1..(n + 1)
    OBVIOUS
  <2>2. 1..(n + 1) # {}
    BY <2>1
  <2>3. g[1..(n + 1)] = h[<<g[(1..(n + 1)) \ {Max(1..(n + 1))}], p[Max(1..(n + 1))]>>]
    BY <1>5, <2>1, <2>2 DEF Folds
  <2>4. QED
    BY <1>3, <1>13, <2>3
<1>15. r \in B
  <2>1. 1..n \in SUBSET (1..n)
    OBVIOUS
  <2>2. QED
    BY <1>4, <2>1
<1>16. QED
  BY <1>4, <1>5, <1>12, <1>14, <1>15

-----------------------------------------------------------------------------
(* The elements of a list that are wanted. *)

\* Without its last element a sequence is one shorter.
LEMMA WithoutLast ==
    ASSUME NEW T, NEW q \in Seq(T), NEW m \in Nat, Len(q) = m + 1
    PROVE  \E r \in Seq(T), e \in T : q = Append(r, e) /\ Len(r) = m
<1> DEFINE r == [i \in 1..m |-> q[i]]
<1>1. \A i \in 1..(m + 1) : q[i] \in T
  OBVIOUS
<1>2. r \in Seq(T) /\ Len(r) = m /\ q[m + 1] \in T
  BY <1>1
<1>3. Append(r, q[m + 1]) \in Seq(T) /\ Len(Append(r, q[m + 1])) = m + 1
  BY <1>2
<1>4. ASSUME NEW i \in 1..(m + 1) PROVE Append(r, q[m + 1])[i] = q[i]
  <2>1. CASE i = m + 1
    BY <1>2, <2>1
  <2>2. CASE i # m + 1
    <3>1. i \in 1..m
      BY <2>2
    <3>2. QED
      BY <1>2, <3>1
  <2>3. QED
    BY <2>1, <2>2
<1> HIDE DEF r
<1>5. Append(r, q[m + 1]) = q
  <2>1. PICK p : p = Append(r, q[m + 1])
    OBVIOUS
  <2>2. p \in Seq(T) /\ Len(p) = m + 1 /\ \A i \in 1..(m + 1) : p[i] = q[i]
    BY <1>3, <1>4, <2>1
  <2>3. p = [i \in 1..(m + 1) |-> p[i]] /\ q = [i \in 1..(m + 1) |-> q[i]]
    BY <2>2
  <2>4. p = q
    BY <2>2, <2>3
  <2>5. QED
    BY <2>1, <2>4
<1>6. QED
  BY <1>2, <1>5

\* What holds of the empty sequence, and of each one with an element more, holds of all.
LEMMA ListInduction ==
    ASSUME NEW T, NEW F, <<>> \in F, \A q \in Seq(T), e \in T : q \in F => Append(q, e) \in F
    PROVE  \A q \in Seq(T) : q \in F
<1>1. SUFFICES ASSUME NEW q \in Seq(T) PROVE q \in F
  OBVIOUS
<1>2. PICK n \in Nat : n = Len(q)
  OBVIOUS
<1> DEFINE G == {m \in 0..n : \A r \in Seq(T) : Len(r) = m => r \in F}
<1>3. 0 \in G
  <2>1. ASSUME NEW r \in Seq(T), Len(r) = 0 PROVE r \in F
    <3>1. r = <<>>
      BY <2>1
    <3>2. QED
      BY <3>1
  <2>2. QED
    BY <2>1
<1>4. ASSUME NEW m \in 1..n, m - 1 \in G PROVE m \in G
  <2>1. ASSUME NEW r \in Seq(T), Len(r) = m PROVE r \in F
    <3>1. m - 1 \in Nat /\ Len(r) = (m - 1) + 1
      BY <2>1
    <3>2. PICK p \in Seq(T), e \in T : r = Append(p, e) /\ Len(p) = m - 1
      <4>1. PICK k : k = m - 1
        OBVIOUS
      <4>2. k \in Nat /\ Len(r) = k + 1
        BY <3>1, <4>1
      <4>3. \E p \in Seq(T), e \in T : r = Append(p, e) /\ Len(p) = k
        BY <4>2, WithoutLast
      <4>4. QED
        BY <4>1, <4>3
    <3>3. p \in F
      BY <1>4, <3>2
    <3>4. QED
      BY <3>2, <3>3
  <2>2. QED
    BY <2>1
<1>5. n \in G
  <2>1. n \in 0..n
    OBVIOUS
  <2> HIDE DEF G
  <2>2. \A m \in 0..n : m \in G
    BY <1>3, <1>4, CountingUp
  <2>3. QED
    BY <2>1, <2>2
<1>6. QED
  BY <1>2, <1>5

\* g, which need not be in a known set, folds q step by step.
Unfolds(g, h, B, T, b, q) ==
    /\ h \in [B \X T -> B] /\ b \in B /\ q \in Seq(T) /\ g[{}] = b
    /\ \A S \in SUBSET (DOMAIN q) :
          S # {} /\ g[S \ {Max(S)}] \in B => g[S] = h[<<g[S \ {Max(S)}], q[Max(S)]>>]

LEMMA UnfoldedFolds ==
    ASSUME NEW g, NEW h, NEW B, NEW T, NEW b, NEW q, Unfolds(g, h, B, T, b, q)
    PROVE  Folded(h, B, b, q, g[DOMAIN q])
<1>0. /\ h \in [B \X T -> B] /\ b \in B /\ q \in Seq(T) /\ g[{}] = b
      /\ \A S \in SUBSET (DOMAIN q) :
            S # {} /\ g[S \ {Max(S)}] \in B => g[S] = h[<<g[S \ {Max(S)}], q[Max(S)]>>]
  BY DEF Unfolds
<1>1. PICK n \in Nat : n = Len(q)
  BY <1>0
<1>2. DOMAIN q = 1..n /\ q \in [1..n -> T]
  BY <1>0, <1>1
<1>3. PICK f \in [SUBSET (1..n) -> B] : Folds(f, h, b, q, n)
  BY <1>0, <1>2, FoldsExist
<1> DEFINE P == {<<i, f[1..i]>> : i \in 0..n}
<1>4. f[{}] = b
  BY <1>3 DEF Folds
<1>5. <<0, b>> \in P
  <2>1. 1..0 = {} /\ 0 \in 0..n
    OBVIOUS
  <2>2. QED
    BY <1>4, <2>1
<1>6. ASSUME NEW i \in 1..n, NEW c \in B, <<i - 1, c>> \in P
      PROVE  <<i, h[<<c, q[i]>>]>> \in P
  <2>1. c = f[1..(i - 1)]
    BY <1>6
  <2>2. 1..i \in SUBSET (1..n)
    OBVIOUS
  <2>3. i \in Nat /\ i # 0 /\ i \in 0..n /\ i \in 1..i
    OBVIOUS
  <2>4. 1..i # {}
    BY <2>3
  <2>5. Max(1..i) = i /\ (1..i) \ {i} = 1..(i - 1)
    BY <2>3, LargestUpTo
  <2>6. f[1..i] = h[<<f[(1..i) \ {Max(1..i)}], q[Max(1..i)]>>]
    BY <1>3, <2>2, <2>4 DEF Folds
  <2>7. f[1..i] = h[<<c, q[i]>>]
    BY <2>1, <2>5, <2>6
  <2>8. QED
    BY <2>3, <2>7
<1>7. Carries(P, B, T, g, h, b, q, n)
  <2> HIDE DEF P
  <2>1. \A S \in SUBSET (1..n) :
           S # {} /\ g[S \ {Max(S)}] \in B => g[S] = h[<<g[S \ {Max(S)}], q[Max(S)]>>]
    BY <1>0, <1>2
  <2>2. QED
    BY <1>0, <1>2, <1>5, <1>6, <2>1 DEF Carries
<1>8. <<n, g[1..n]>> \in P
  <2> HIDE DEF P
  <2> QED
    BY <1>7, FoldKeeps
<1>9. g[1..n] = f[1..n]
  BY <1>8
<1>10. QED
  BY <1>1, <1>2, <1>3, <1>9 DEF Folded

\* The step of the comprehension.
PickStep(T, wanted) ==
    [ce \in Seq(T) \X T |-> IF ce[2] \in wanted THEN Append(ce[1], ce[2]) ELSE ce[1]]

LEMMA PickedFolds ==
    ASSUME NEW T, NEW q \in Seq(T), NEW wanted
    PROVE  Folded(PickStep(T, wanted), Seq(T), <<>>, q, Picked(q, wanted))
<1> DEFINE h == PickStep(T, wanted)
           g == CHOOSE f : f = [S \in SUBSET (DOMAIN q) |->
                   IF S = {} THEN <<>>
                   ELSE IF q[Max(S)] \in wanted THEN Append(f[S \ {Max(S)}], q[Max(S)]) ELSE f[S \ {Max(S)}]]
<1>1. Picked(q, wanted) = g[DOMAIN q]
  BY DEF Picked, FoldLeft, MapThenFoldSet
<1>2. PICK n \in Nat : n = Len(q)
  OBVIOUS
<1>3. DOMAIN q = 1..n /\ q \in [1..n -> T]
  BY <1>2
<1>4. h \in [Seq(T) \X T -> Seq(T)]
  BY DEF PickStep
<1>5. \A c \in Seq(T), e \in T : h[<<c, e>>] = IF e \in wanted THEN Append(c, e) ELSE c
  BY DEF PickStep
<1>6. <<>> \in Seq(T)
  OBVIOUS
<1> HIDE DEF h
<1>7. PICK f \in [SUBSET (1..n) -> Seq(T)] : Folds(f, h, <<>>, q, n)
  BY <1>3, <1>4, <1>6, FoldsExist
<1>8. f = [S \in SUBSET (DOMAIN q) |->
              IF S = {} THEN <<>>
              ELSE IF q[Max(S)] \in wanted THEN Append(f[S \ {Max(S)}], q[Max(S)]) ELSE f[S \ {Max(S)}]]
  <2>1. ASSUME NEW S \in SUBSET (1..n)
        PROVE  f[S] = IF S = {} THEN <<>>
                      ELSE IF q[Max(S)] \in wanted THEN Append(f[S \ {Max(S)}], q[Max(S)]) ELSE f[S \ {Max(S)}]
    <3>1. CASE S = {}
      BY <1>7, <3>1 DEF Folds
    <3>2. CASE S # {}
      <4>0. S \in SUBSET (0..n)
        OBVIOUS
      <4>1. Max(S) \in S
        BY <3>2, <4>0, Largest
      <4>2. f[S \ {Max(S)}] \in Seq(T) /\ q[Max(S)] \in T
        BY <1>3, <1>7, <4>1
      <4>3. f[S] = h[<<f[S \ {Max(S)}], q[Max(S)]>>]
        BY <1>7, <3>2 DEF Folds
      <4>4. QED
        BY <1>5, <3>2, <4>2, <4>3
    <3>3. QED
      BY <3>1, <3>2
  <2>2. QED
    BY <1>3, <1>7, <2>1
<1>9. g = [S \in SUBSET (DOMAIN q) |->
              IF S = {} THEN <<>>
              ELSE IF q[Max(S)] \in wanted THEN Append(g[S \ {Max(S)}], q[Max(S)]) ELSE g[S \ {Max(S)}]]
  BY <1>8, Zenon
<1> HIDE DEF g
<1>10. Unfolds(g, h, Seq(T), T, <<>>, q)
  <2>1. g[{}] = <<>>
    BY <1>9
  <2>2. ASSUME NEW S \in SUBSET (DOMAIN q), S # {}, g[S \ {Max(S)}] \in Seq(T)
        PROVE  g[S] = h[<<g[S \ {Max(S)}], q[Max(S)]>>]
    <3>0. S \in SUBSET (0..n)
      BY <1>3
    <3>1. Max(S) \in S
      BY <2>2, <3>0, Largest
    <3>2. q[Max(S)] \in T
      BY <1>3, <3>1
    <3>3. g[S] = IF q[Max(S)] \in wanted THEN Append(g[S \ {Max(S)}], q[Max(S)]) ELSE g[S \ {Max(S)}]
      BY <1>9, <2>2
    <3>4. QED
      BY <1>5, <2>2, <3>2, <3>3
  <2>3. QED
    BY <1>4, <1>6, <2>1, <2>2 DEF Unfolds
<1>11. Folded(h, Seq(T), <<>>, q, g[DOMAIN q])
  BY <1>10, UnfoldedFolds
<1>12. QED
  BY <1>1, <1>11 DEF h

LEMMA PickedOfNothing ==
    ASSUME NEW wanted
    PROVE  Picked(<<>>, wanted) = <<>>
<1> DEFINE T == {}
<1>1. <<>> \in Seq(T)
  OBVIOUS
<1>2. PICK h, B : Folded(h, B, <<>>, <<>>, Picked(<<>>, wanted))
  BY <1>1, PickedFolds
<1>3. QED
  BY <1>2, FoldOfNothing

\* One more element comes after those before it if it is wanted.
LEMMA PickedGoesOn ==
    ASSUME NEW T, NEW wanted, NEW q \in Seq(T), NEW e \in T
    PROVE  /\ Picked(q, wanted) \in Seq(T)
           /\ Picked(Append(q, e), wanted) =
                 IF e \in wanted THEN Append(Picked(q, wanted), e) ELSE Picked(q, wanted)
<1> DEFINE h == PickStep(T, wanted)
<1>1. /\ h \in [Seq(T) \X T -> Seq(T)] /\ <<>> \in Seq(T)
      /\ \A c \in Seq(T), d \in T : h[<<c, d>>] = IF d \in wanted THEN Append(c, d) ELSE c
  BY DEF PickStep
<1>2. \A p \in Seq(T) : Folded(h, Seq(T), <<>>, p, Picked(p, wanted))
  BY PickedFolds
<1> HIDE DEF h
<1>3. PICK r, t : r = Picked(q, wanted) /\ t = Picked(Append(q, e), wanted)
  OBVIOUS
<1>4. Append(q, e) \in Seq(T)
  OBVIOUS
<1>5. Folded(h, Seq(T), <<>>, q, r) /\ Folded(h, Seq(T), <<>>, Append(q, e), t)
  BY <1>2, <1>3, <1>4
<1>6. OneMore(h, Seq(T), T, <<>>, q, e, r, t)
  BY <1>1, <1>5 DEF OneMore
<1>7. r \in Seq(T) /\ t = h[<<r, e>>]
  BY <1>6, FoldOfAppend
<1>8. QED
  BY <1>1, <1>3, <1>7

\* It has the wanted elements of the list, and no others.
LEMMA PickedElements ==
    ASSUME NEW T, NEW q \in Seq(T), NEW wanted
    PROVE  Picked(q, wanted) \in Seq(T) /\ Range(Picked(q, wanted)) = Range(q) \cap wanted
<1> DEFINE F == {p \in Seq(T) : Picked(p, wanted) \in Seq(T) /\ Range(Picked(p, wanted)) = Range(p) \cap wanted}
<1>1. <<>> \in F
  <2>1. Picked(<<>>, wanted) = <<>>
    BY PickedOfNothing
  <2>2. Range(<<>>) = {} /\ <<>> \in Seq(T)
    BY DEF Range
  <2>3. QED
    BY <2>1, <2>2
<1>2. ASSUME NEW p \in Seq(T), NEW e \in T, p \in F PROVE Append(p, e) \in F
  <2>1. PICK r : r = Picked(p, wanted)
    OBVIOUS
  <2>2. r \in Seq(T) /\ Range(r) = Range(p) \cap wanted
    BY <1>2, <2>1
  <2>3. Picked(Append(p, e), wanted) = IF e \in wanted THEN Append(r, e) ELSE r
    BY <2>1, PickedGoesOn
  <2>4. Range(Append(p, e)) = Range(p) \cup {e} /\ Range(Append(r, e)) = Range(r) \cup {e}
    BY <2>2, RangeOfAppend
  <2>5. Append(p, e) \in Seq(T) /\ Append(r, e) \in Seq(T)
    BY <2>2
  <2>6. CASE e \in wanted
    BY <2>2, <2>3, <2>4, <2>5, <2>6
  <2>7. CASE e \notin wanted
    BY <2>2, <2>3, <2>4, <2>5, <2>7
  <2>8. QED
    BY <2>6, <2>7
<1> HIDE DEF F
<1>3. \A p \in Seq(T) : p \in F
  BY <1>1, <1>2, ListInduction
<1>4. QED
  BY <1>3 DEF F

\* It is as long as the list has wanted elements.
LEMMA PickedLength ==
    ASSUME NEW T, NEW q \in Seq(T), NEW wanted
    PROVE  Len(Picked(q, wanted)) = Cardinality({i \in 1..Len(q) : q[i] \in wanted})
<1> DEFINE Places(p) == {i \in 1..Len(p) : p[i] \in wanted}
           F == {p \in Seq(T) : Len(Picked(p, wanted)) = Cardinality(Places(p))}
<1>1. <<>> \in F
  <2>1. PICK p : p = <<>>
    OBVIOUS
  <2>2. p \in Seq(T) /\ Len(p) = 0 /\ Places(p) = {} /\ Picked(p, wanted) = p
    BY <2>1, PickedOfNothing
  <2>3. QED
    BY <2>1, <2>2, FS_EmptySet
<1>2. ASSUME NEW p \in Seq(T), NEW e \in T, p \in F PROVE Append(p, e) \in F
  <2>1. PICK r : r = Append(p, e)
    OBVIOUS
  <2>2. PICK n \in Nat : n = Len(p)
    OBVIOUS
  <2>3. r \in Seq(T) /\ Len(r) = n + 1 /\ r[n + 1] = e /\ \A i \in 1..n : r[i] = p[i]
    BY <2>1, <2>2
  <2>4. PICK a : a = Picked(p, wanted)
    OBVIOUS
  <2>5. a \in Seq(T) /\ Picked(r, wanted) = IF e \in wanted THEN Append(a, e) ELSE a
    BY <2>1, <2>4, PickedGoesOn
  <2>6. Len(a) = Cardinality(Places(p))
    BY <1>2, <2>4
  <2>7. IsFiniteSet(Places(p)) /\ n + 1 \notin Places(p)
    <3>1. IsFiniteSet(1..n)
      BY FS_Interval
    <3>2. Places(p) \subseteq 1..n
      BY <2>2
    <3>3. QED
      BY <2>2, <3>1, <3>2, FS_Subset
  <2>8. CASE e \in wanted
    <3>1. Places(r) = Places(p) \cup {n + 1}
      BY <2>2, <2>3, <2>8
    <3> HIDE DEF Places
    <3>2. Cardinality(Places(r)) = Cardinality(Places(p)) + 1
      BY <2>7, <3>1, FS_AddElement
    <3>3. Len(Append(a, e)) = Len(a) + 1
      BY <2>5
    <3>4. QED
      BY <2>1, <2>3, <2>5, <2>6, <2>8, <3>2, <3>3
  <2>9. CASE e \notin wanted
    <3>1. Places(r) = Places(p)
      BY <2>2, <2>3, <2>9
    <3> HIDE DEF Places
    <3>2. QED
      BY <2>1, <2>3, <2>5, <2>6, <2>9, <3>1
  <2>10. QED
    BY <2>8, <2>9
<1> HIDE DEF F
<1>3. \A p \in Seq(T) : p \in F
  BY <1>1, <1>2, ListInduction
<1>4. QED
  BY <1>3 DEF F

\* Nothing is left out when all of it is wanted.
LEMMA AllPicked ==
    ASSUME NEW T, NEW q \in Seq(T), NEW wanted, Range(q) \subseteq wanted
    PROVE  Picked(q, wanted) = q
<1> DEFINE F == {p \in Seq(T) : Range(p) \subseteq wanted => Picked(p, wanted) = p}
<1>1. <<>> \in F
  BY PickedOfNothing
<1>2. ASSUME NEW p \in Seq(T), NEW e \in T, p \in F PROVE Append(p, e) \in F
  <2>1. Append(p, e) \in Seq(T) /\ Range(Append(p, e)) = Range(p) \cup {e}
    BY RangeOfAppend
  <2>2. Picked(Append(p, e), wanted) =
           IF e \in wanted THEN Append(Picked(p, wanted), e) ELSE Picked(p, wanted)
    BY PickedGoesOn
  <2>3. QED
    BY <1>2, <2>1, <2>2
<1> HIDE DEF F
<1>3. \A p \in Seq(T) : p \in F
  BY <1>1, <1>2, ListInduction
<1>4. QED
  BY <1>3 DEF F

\* What is picked twice is what is wanted both times.
LEMMA PickedTwice ==
    ASSUME NEW T, NEW q \in Seq(T), NEW wanted, NEW also
    PROVE  Picked(Picked(q, wanted), also) = Picked(q, wanted \cap also)
<1> DEFINE F == {p \in Seq(T) : Picked(Picked(p, wanted), also) = Picked(p, wanted \cap also)}
<1>1. <<>> \in F
  BY PickedOfNothing
<1>2. ASSUME NEW p \in Seq(T), NEW e \in T, p \in F PROVE Append(p, e) \in F
  <2>1. PICK both : both = wanted \cap also
    OBVIOUS
  <2>2. PICK r, t : r = Picked(p, wanted) /\ t = Picked(p, both)
    OBVIOUS
  <2>3. /\ r \in Seq(T) /\ Picked(Append(p, e), wanted) = (IF e \in wanted THEN Append(r, e) ELSE r)
        /\ t \in Seq(T) /\ Picked(Append(p, e), both) = (IF e \in both THEN Append(t, e) ELSE t)
    BY <2>2, PickedGoesOn
  <2>4. Picked(Append(r, e), also) = (IF e \in also THEN Append(Picked(r, also), e) ELSE Picked(r, also))
    BY <2>3, PickedGoesOn
  <2>5. Picked(r, also) = t
    BY <1>2, <2>1, <2>2
  <2>6. Append(p, e) \in Seq(T)
    OBVIOUS
  <2>7. Picked(Picked(Append(p, e), wanted), also) = Picked(Append(p, e), both)
    <3>1. CASE e \in wanted
      <4>1. Picked(Append(p, e), wanted) = Append(r, e) /\ (e \in both <=> e \in also)
        BY <2>1, <2>3, <3>1
      <4>2. QED
        BY <2>3, <2>4, <2>5, <4>1
    <3>2. CASE e \notin wanted
      <4>1. Picked(Append(p, e), wanted) = r /\ e \notin both
        BY <2>1, <2>3, <3>2
      <4>2. QED
        BY <2>3, <2>5, <4>1
    <3>3. QED
      BY <3>1, <3>2
  <2>8. QED
    BY <2>1, <2>6, <2>7
<1> HIDE DEF F
<1>3. \A p \in Seq(T) : p \in F
  BY <1>1, <1>2, ListInduction
<1>4. QED
  BY <1>3 DEF F

\* A list in which nothing comes twice.
WithoutRepeats(q) == \A i, j \in 1..Len(q) : q[i] = q[j] => i = j

LEMMA AppendedWithoutRepeats ==
    ASSUME NEW T, NEW q \in Seq(T), NEW e \in T, WithoutRepeats(q), e \notin Range(q)
    PROVE  WithoutRepeats(Append(q, e))
<1>1. PICK r : r = Append(q, e)
  OBVIOUS
<1>2. PICK n \in Nat : n = Len(q) /\ Len(r) = n + 1 /\ r[n + 1] = e /\ \A i \in 1..n : r[i] = q[i]
  BY <1>1
<1>3. \A i \in 1..n : q[i] \in Range(q)
  BY <1>2, ElementsAt
<1>4. ASSUME NEW i \in 1..(n + 1), NEW j \in 1..(n + 1), r[i] = r[j] PROVE i = j
  <2>1. CASE i = n + 1 /\ j # n + 1
    <3>1. j \in 1..n
      BY <2>1
    <3>2. QED
      BY <1>2, <1>3, <1>4, <2>1, <3>1
  <2>2. CASE j = n + 1 /\ i # n + 1
    <3>1. i \in 1..n
      BY <2>2
    <3>2. QED
      BY <1>2, <1>3, <1>4, <2>2, <3>1
  <2>3. CASE i # n + 1 /\ j # n + 1
    <3>1. i \in 1..n /\ j \in 1..n
      BY <2>3
    <3>2. QED
      BY <1>2, <1>4, <3>1 DEF WithoutRepeats
  <2>4. QED
    BY <2>1, <2>2, <2>3
<1>5. QED
  BY <1>1, <1>2, <1>4 DEF WithoutRepeats

LEMMA PickedWithoutRepeats ==
    ASSUME NEW T, NEW q \in Seq(T), NEW wanted, WithoutRepeats(q)
    PROVE  WithoutRepeats(Picked(q, wanted))
<1> DEFINE F == {p \in Seq(T) : WithoutRepeats(p) => WithoutRepeats(Picked(p, wanted))}
<1>1. <<>> \in F
  BY PickedOfNothing
<1>2. ASSUME NEW p \in Seq(T), NEW e \in T, p \in F PROVE Append(p, e) \in F
  <2>1. PICK r : r = Picked(p, wanted)
    OBVIOUS
  <2>2. /\ r \in Seq(T) /\ Range(r) = Range(p) \cap wanted
        /\ Picked(Append(p, e), wanted) = (IF e \in wanted THEN Append(r, e) ELSE r)
    BY <2>1, PickedGoesOn, PickedElements
  <2>3. ASSUME WithoutRepeats(Append(p, e)) PROVE WithoutRepeats(p) /\ e \notin Range(p)
    <3>1. PICK s : s = Append(p, e)
      OBVIOUS
    <3>2. PICK n \in Nat : n = Len(p) /\ Len(s) = n + 1 /\ s[n + 1] = e /\ \A i \in 1..n : s[i] = p[i]
      BY <3>1
    <3>3. \A i, j \in 1..(n + 1) : s[i] = s[j] => i = j
      BY <2>3, <3>1, <3>2 DEF WithoutRepeats
    <3>4. \A i \in 1..n : i \in 1..(n + 1) /\ i # n + 1 /\ n + 1 \in 1..(n + 1)
      OBVIOUS
    <3>5. \A i \in 1..n : p[i] # e
      BY <3>2, <3>3, <3>4
    <3>6. e \notin Range(p)
      BY <3>2, <3>5, ElementsAt
    <3>7. WithoutRepeats(p)
      BY <3>2, <3>3, <3>4 DEF WithoutRepeats
    <3>8. QED
      BY <3>6, <3>7
  <2>4. ASSUME WithoutRepeats(Append(p, e)) PROVE WithoutRepeats(Picked(Append(p, e), wanted))
    <3>1. WithoutRepeats(r) /\ e \notin Range(r)
      BY <1>2, <2>1, <2>2, <2>3, <2>4
    <3>2. WithoutRepeats(Append(r, e))
      BY <2>2, <3>1, AppendedWithoutRepeats
    <3>3. QED
      BY <2>2, <3>1, <3>2
  <2>5. Append(p, e) \in Seq(T)
    OBVIOUS
  <2>6. QED
    BY <2>4, <2>5
<1> HIDE DEF F
<1>3. \A p \in Seq(T) : p \in F
  BY <1>1, <1>2, ListInduction
<1>4. QED
  BY <1>3 DEF F

-----------------------------------------------------------------------------
(* Lists one after the other *)

JoinStep(T) == [ce \in Seq(T) \X Seq(T) |-> ce[1] \o ce[2]]

LEMMA JoinedFolds ==
    ASSUME NEW T, NEW q \in Seq(Seq(T))
    PROVE  Folded(JoinStep(T), Seq(T), <<>>, q, Joined(q))
<1> DEFINE h == JoinStep(T)
           g == CHOOSE f : f = [S \in SUBSET (DOMAIN q) |->
                   IF S = {} THEN <<>> ELSE f[S \ {Max(S)}] \o q[Max(S)]]
<1>1. Joined(q) = g[DOMAIN q]
  BY DEF Joined, FoldLeft, MapThenFoldSet
<1>2. PICK n \in Nat : n = Len(q)
  OBVIOUS
<1>3. DOMAIN q = 1..n /\ q \in [1..n -> Seq(T)]
  BY <1>2
<1>4. h \in [Seq(T) \X Seq(T) -> Seq(T)]
  BY DEF JoinStep
<1>5. \A c \in Seq(T), e \in Seq(T) : h[<<c, e>>] = c \o e
  BY DEF JoinStep
<1>6. <<>> \in Seq(T)
  OBVIOUS
<1> HIDE DEF h
<1>7. PICK f \in [SUBSET (1..n) -> Seq(T)] : Folds(f, h, <<>>, q, n)
  BY <1>3, <1>4, <1>6, FoldsExist
<1>8. f = [S \in SUBSET (DOMAIN q) |-> IF S = {} THEN <<>> ELSE f[S \ {Max(S)}] \o q[Max(S)]]
  <2>1. ASSUME NEW S \in SUBSET (1..n)
        PROVE  f[S] = IF S = {} THEN <<>> ELSE f[S \ {Max(S)}] \o q[Max(S)]
    <3>1. CASE S = {}
      BY <1>7, <3>1 DEF Folds
    <3>2. CASE S # {}
      <4>0. S \in SUBSET (0..n)
        OBVIOUS
      <4>1. Max(S) \in S
        BY <3>2, <4>0, Largest
      <4>2. f[S \ {Max(S)}] \in Seq(T) /\ q[Max(S)] \in Seq(T)
        BY <1>3, <1>7, <4>1
      <4>3. f[S] = h[<<f[S \ {Max(S)}], q[Max(S)]>>]
        BY <1>7, <3>2 DEF Folds
      <4>4. QED
        BY <1>5, <3>2, <4>2, <4>3
    <3>3. QED
      BY <3>1, <3>2
  <2>2. QED
    BY <1>3, <1>7, <2>1
<1>9. g = [S \in SUBSET (DOMAIN q) |-> IF S = {} THEN <<>> ELSE g[S \ {Max(S)}] \o q[Max(S)]]
  BY <1>8, Zenon
<1> HIDE DEF g
<1>10. Unfolds(g, h, Seq(T), Seq(T), <<>>, q)
  <2>1. g[{}] = <<>>
    BY <1>9
  <2>2. ASSUME NEW S \in SUBSET (DOMAIN q), S # {}, g[S \ {Max(S)}] \in Seq(T)
        PROVE  g[S] = h[<<g[S \ {Max(S)}], q[Max(S)]>>]
    <3>0. S \in SUBSET (0..n)
      BY <1>3
    <3>1. Max(S) \in S
      BY <2>2, <3>0, Largest
    <3>2. q[Max(S)] \in Seq(T)
      BY <1>3, <3>1
    <3>3. g[S] = g[S \ {Max(S)}] \o q[Max(S)]
      BY <1>9, <2>2
    <3>4. QED
      BY <1>5, <2>2, <3>2, <3>3
  <2>3. QED
    BY <1>4, <1>6, <2>1, <2>2 DEF Unfolds
<1>11. Folded(h, Seq(T), <<>>, q, g[DOMAIN q])
  BY <1>10, UnfoldedFolds
<1>12. QED
  BY <1>1, <1>11 DEF h

LEMMA JoinedOfNothing == Joined(<<>>) = <<>>
<1>1. <<>> \in Seq(Seq({}))
  OBVIOUS
<1>2. PICK h, B : Folded(h, B, <<>>, <<>>, Joined(<<>>))
  BY <1>1, JoinedFolds
<1>3. QED
  BY <1>2, FoldOfNothing

\* One more list comes after those before it.
LEMMA JoinedGoesOn ==
    ASSUME NEW T, NEW q \in Seq(Seq(T)), NEW e \in Seq(T)
    PROVE  Joined(q) \in Seq(T) /\ Joined(Append(q, e)) = Joined(q) \o e
<1> DEFINE h == JoinStep(T)
<1>0. PICK X : X = Seq(T)
  OBVIOUS
<1>1. /\ h \in [X \X X -> X] /\ <<>> \in X
      /\ \A c \in X, d \in X : h[<<c, d>>] = c \o d
  <2>1. h \in [Seq(T) \X Seq(T) -> Seq(T)]
    BY DEF JoinStep
  <2>2. \A c \in Seq(T), d \in Seq(T) : h[<<c, d>>] = c \o d
    BY DEF JoinStep
  <2>3. <<>> \in Seq(T)
    OBVIOUS
  <2> HIDE DEF h
  <2>4. QED
    BY <1>0, <2>1, <2>2, <2>3
<1>2. \A p \in Seq(X) : Folded(h, X, <<>>, p, Joined(p))
  BY <1>0, JoinedFolds
<1> HIDE DEF h
<1>3. PICK r, t : r = Joined(q) /\ t = Joined(Append(q, e))
  OBVIOUS
<1>4. q \in Seq(X) /\ e \in X /\ Append(q, e) \in Seq(X)
  BY <1>0
<1>5. Folded(h, X, <<>>, q, r) /\ Folded(h, X, <<>>, Append(q, e), t)
  BY <1>2, <1>3, <1>4
<1>6. OneMore(h, X, X, <<>>, q, e, r, t)
  BY <1>1, <1>4, <1>5 DEF OneMore
<1>7. r \in X /\ t = h[<<r, e>>]
  BY <1>6, FoldOfAppend
<1>8. QED
  BY <1>0, <1>1, <1>3, <1>4, <1>7

\* They have the elements of each.
LEMMA JoinedElements ==
    ASSUME NEW T, NEW q \in Seq(Seq(T))
    PROVE  Joined(q) \in Seq(T) /\ \A e : e \in Range(Joined(q)) <=> \E i \in 1..Len(q) : e \in Range(q[i])
<1> DEFINE F == {p \in Seq(Seq(T)) : /\ Joined(p) \in Seq(T)
                                     /\ \A e : e \in Range(Joined(p)) <=> \E i \in 1..Len(p) : e \in Range(p[i])}
<1>1. <<>> \in F
  <2>1. PICK p : p = <<>>
    OBVIOUS
  <2>2. p \in Seq(T) /\ p \in Seq(Seq(T)) /\ Len(p) = 0 /\ Joined(p) = p /\ Range(p) = {}
    BY <2>1, JoinedOfNothing DEF Range
  <2>3. ASSUME NEW i \in 1..Len(p) PROVE FALSE
    BY <2>2
  <2>4. Joined(p) \in Seq(T) /\ \A e : e \notin Range(Joined(p))
    BY <2>2
  <2>5. p \in F
    BY <2>2, <2>3, <2>4
  <2>6. QED
    BY <2>1, <2>5
<1>2. ASSUME NEW p \in Seq(Seq(T)), NEW l \in Seq(T), p \in F PROVE Append(p, l) \in F
  <2>1. PICK r, n : r = Append(p, l) /\ n = Len(p)
    OBVIOUS
  <2>2. r \in Seq(Seq(T)) /\ n \in Nat /\ Len(r) = n + 1 /\ r[n + 1] = l /\ \A i \in 1..n : r[i] = p[i]
    BY <2>1
  <2>3. PICK a : a = Joined(p)
    OBVIOUS
  <2>4. a \in Seq(T) /\ Joined(r) = a \o l
    BY <2>1, <2>3, JoinedGoesOn
  <2>5. a \o l \in Seq(T) /\ Range(a \o l) = Range(a) \cup Range(l)
    BY <2>4, RangeOfJoined
  <2>6. \A e : e \in Range(a) <=> \E i \in 1..n : e \in Range(p[i])
    BY <1>2, <2>1, <2>3
  <2>7. \A e : (\E i \in 1..(n + 1) : e \in Range(r[i])) <=> e \in Range(l) \/ \E i \in 1..n : e \in Range(p[i])
    BY <2>2
  <2>8. QED
    BY <2>1, <2>2, <2>4, <2>5, <2>6, <2>7
<1> HIDE DEF F
<1>3. \A p \in Seq(Seq(T)) : p \in F
  <2>1. PICK X : X = Seq(T)
    OBVIOUS
  <2>2. <<>> \in F /\ \A p \in Seq(X), l \in X : p \in F => Append(p, l) \in F
    BY <1>1, <1>2, <2>1
  <2>3. \A p \in Seq(X) : p \in F
    BY <2>2, ListInduction
  <2>4. QED
    BY <2>1, <2>3
<1>4. QED
  BY <1>3 DEF F

\* Two lists without repeats, and without an element in common, one after the other.
LEMMA TwoWithoutRepeats ==
    ASSUME NEW T, NEW q \in Seq(T), NEW p \in Seq(T), WithoutRepeats(q), WithoutRepeats(p),
           Range(q) \cap Range(p) = {}
    PROVE  WithoutRepeats(q \o p)
<1>1. PICK r : r = q \o p
  OBVIOUS
<1>2. PICK m \in Nat, n \in Nat :
         /\ m = Len(q) /\ n = Len(p) /\ Len(r) = m + n
         /\ \A i \in 1..m : r[i] = q[i]
         /\ \A i \in 1..(m + n) : i > m => r[i] = p[i - m]
  <2>1. PICK m \in Nat, n \in Nat : m = Len(q) /\ n = Len(p)
    OBVIOUS
  <2>2. Len(r) = m + n /\ \A i \in 1..(m + n) : r[i] = IF i <= m THEN q[i] ELSE p[i - m]
    BY <1>1, <2>1
  <2>3. \A i \in 1..m : i \in 1..(m + n) /\ i <= m
    OBVIOUS
  <2>4. QED
    BY <2>1, <2>2, <2>3
<1>3. (\A i \in 1..m : q[i] \in Range(q)) /\ \A i \in 1..n : p[i] \in Range(p)
  BY <1>2, ElementsAt
<1>4. ASSUME NEW i \in 1..(m + n), NEW j \in 1..(m + n), r[i] = r[j] PROVE i = j
  <2>1. CASE i <= m /\ j <= m
    <3>1. i \in 1..m /\ j \in 1..m
      BY <2>1
    <3>2. QED
      BY <1>2, <1>4, <3>1 DEF WithoutRepeats
  <2>2. CASE i > m /\ j > m
    <3>1. i - m \in 1..n /\ j - m \in 1..n /\ r[i] = p[i - m] /\ r[j] = p[j - m]
      BY <1>2, <2>2
    <3>2. i - m = j - m
      BY <1>2, <1>4, <3>1 DEF WithoutRepeats
    <3>3. QED
      BY <3>2
  <2>3. CASE i <= m /\ j > m
    <3>1. i \in 1..m /\ j - m \in 1..n /\ r[j] = p[j - m]
      BY <1>2, <2>3
    <3>2. QED
      BY <1>2, <1>3, <1>4, <3>1
  <2>4. CASE i > m /\ j <= m
    <3>1. j \in 1..m /\ i - m \in 1..n /\ r[i] = p[i - m]
      BY <1>2, <2>4
    <3>2. QED
      BY <1>2, <1>3, <1>4, <3>1
  <2>5. QED
    BY <2>1, <2>2, <2>3, <2>4
<1>5. QED
  BY <1>1, <1>2, <1>4 DEF WithoutRepeats

\* Lists without repeats, no two of which have an element in common.
Apart(q) ==
    /\ \A i \in 1..Len(q) : WithoutRepeats(q[i])
    /\ \A i \in 1..Len(q), j \in 1..Len(q) : i # j => Range(q[i]) \cap Range(q[j]) = {}

LEMMA JoinedWithoutRepeats ==
    ASSUME NEW T, NEW q \in Seq(Seq(T)), Apart(q)
    PROVE  WithoutRepeats(Joined(q))
<1> DEFINE F == {p \in Seq(Seq(T)) : Apart(p) => WithoutRepeats(Joined(p))}
<1>1. <<>> \in F
  <2>1. PICK p : p = <<>>
    OBVIOUS
  <2>2. p \in Seq(Seq(T)) /\ Len(p) = 0 /\ Joined(p) = p
    BY <2>1, JoinedOfNothing
  <2>3. QED
    BY <2>1, <2>2 DEF WithoutRepeats
<1>2. ASSUME NEW p \in Seq(Seq(T)), NEW l \in Seq(T), p \in F PROVE Append(p, l) \in F
  <2>1. PICK r, n : r = Append(p, l) /\ n = Len(p)
    OBVIOUS
  <2>2. r \in Seq(Seq(T)) /\ n \in Nat /\ Len(r) = n + 1 /\ r[n + 1] = l /\ \A i \in 1..n : r[i] = p[i]
    BY <2>1
  <2>3. PICK a : a = Joined(p)
    OBVIOUS
  <2>4. a \in Seq(T) /\ Joined(r) = a \o l /\ \A e : e \in Range(a) <=> \E i \in 1..n : e \in Range(p[i])
    BY <2>1, <2>3, JoinedGoesOn, JoinedElements
  <2>5. ASSUME Apart(r) PROVE WithoutRepeats(a \o l)
    <3>0. \A i \in 1..n : i \in 1..(n + 1) /\ i # n + 1 /\ n + 1 \in 1..(n + 1)
      BY <2>2
    <3>1. Apart(p)
      BY <2>1, <2>2, <2>5, <3>0 DEF Apart
    <3>2. WithoutRepeats(a)
      BY <1>2, <2>3, <3>1
    <3>3. n + 1 \in 1..(n + 1)
      BY <2>2
    <3>4. WithoutRepeats(l)
      BY <2>2, <2>5, <3>3 DEF Apart
    <3>5. \A i \in 1..n : Range(p[i]) \cap Range(l) = {}
      BY <2>2, <2>5, <3>0 DEF Apart
    <3>6. Range(a) \cap Range(l) = {}
      BY <2>4, <3>5
    <3>7. QED
      BY <2>4, <3>2, <3>4, <3>6, TwoWithoutRepeats
  <2>6. QED
    BY <2>1, <2>2, <2>4, <2>5
<1> HIDE DEF F
<1>3. \A p \in Seq(Seq(T)) : p \in F
  <2>1. PICK X : X = Seq(T)
    OBVIOUS
  <2>2. <<>> \in F /\ \A p \in Seq(X), l \in X : p \in F => Append(p, l) \in F
    BY <1>1, <1>2, <2>1
  <2>3. \A p \in Seq(X) : p \in F
    BY <2>2, ListInduction
  <2>4. QED
    BY <2>1, <2>3
<1>4. QED
  BY <1>3 DEF F

\* The largest and the smallest of some prices are among them.
LEMMA Extremes ==
    ASSUME NEW q \in Seq(Int), q # <<>>
    PROVE  /\ Max(Range(q)) \in Range(q) /\ \A e \in Range(q) : Max(Range(q)) >= e
           /\ Min(Range(q)) \in Range(q) /\ \A e \in Range(q) : Min(Range(q)) <= e
<1> DEFINE F == {p \in Seq(Int) : p # <<>> =>
                    /\ \E m \in Range(p) : \A e \in Range(p) : m >= e
                    /\ \E m \in Range(p) : \A e \in Range(p) : m <= e}
<1>1. <<>> \in F
  OBVIOUS
<1>2. ASSUME NEW p \in Seq(Int), NEW l \in Int, p \in F PROVE Append(p, l) \in F
  <2>1. PICK r : r = Append(p, l)
    OBVIOUS
  <2>2. r \in Seq(Int) /\ Range(r) = Range(p) \cup {l} /\ Range(p) \subseteq Int
    BY <2>1, RangeOfAppend, ElementsAt
  <2>3. CASE p = <<>>
    <3>0. Range(p) = {}
      BY <2>3 DEF Range
    <3>1. Range(r) = {l} /\ l >= l /\ l <= l
      BY <2>2, <3>0
    <3>2. (\E m \in Range(r) : \A e \in Range(r) : m >= e) /\ \E m \in Range(r) : \A e \in Range(r) : m <= e
      BY <3>1
    <3>3. QED
      BY <2>1, <2>2, <3>2
  <2>4. CASE p # <<>>
    <3>1. PICK m \in Range(p), n \in Range(p) : (\A e \in Range(p) : m >= e) /\ \A e \in Range(p) : n <= e
      BY <1>2, <2>4
    <3>2. \E k \in Range(r) : \A e \in Range(r) : k >= e
      <4>1. CASE m >= l
        <5>1. m \in Range(r) /\ \A e \in Range(r) : m >= e
          BY <2>2, <3>1, <4>1
        <5>2. QED
          BY <5>1
      <4>2. CASE ~(m >= l)
        <5>1. l \in Range(r) /\ \A e \in Range(r) : l >= e
          BY <2>2, <3>1, <4>2
        <5>2. QED
          BY <5>1
      <4>3. QED
        BY <4>1, <4>2
    <3>3. \E k \in Range(r) : \A e \in Range(r) : k <= e
      <4>1. CASE n <= l
        BY <2>2, <3>1, <4>1
      <4>2. CASE ~(n <= l)
        BY <2>2, <3>1, <4>2
      <4>3. QED
        BY <4>1, <4>2
    <3>4. QED
      BY <2>1, <2>2, <3>2, <3>3
  <2>5. QED
    BY <2>3, <2>4
<1> HIDE DEF F
<1>3. \A p \in Seq(Int) : p \in F
  BY <1>1, <1>2, ListInduction
<1>4. /\ \E m \in Range(q) : \A e \in Range(q) : m >= e
      /\ \E m \in Range(q) : \A e \in Range(q) : m <= e
  BY <1>3 DEF F
<1>5. QED
  BY <1>4 DEF Max, Min

=============================================================================
