----------------------------- MODULE Induction -----------------------------
(***************************************************************************)
(* Induction, and what it says of the two things the other proofs count:   *)
(* the values of a function, as a fold adds them up, and the numbers of an *)
(* increasing sequence.  The induction is on sets: a set of numbers that   *)
(* holds 0 and the successor of each of its members is Nat, and a          *)
(* collection of subsets that every subset of a finite set can be built up *)
(* in is all of them.                                                      *)
(***************************************************************************)
EXTENDS Integers, Sequences, FiniteSets, Functions, TLAPS, FiniteSetTheorems, WellFoundedInduction

Below == {ss \in Nat \X Nat : ss[1] < ss[2]}

LEMMA BelowWellFounded == IsWellFoundedOn(Below, Nat)
<1>1. OpToRel(<, Nat) = Below
  BY Zenon DEF OpToRel, Below
<1> QED
  BY <1>1, NatLessThanWellFounded, Zenon

LEMMA NatLeast ==
  ASSUME NEW S, S \subseteq Nat, S # {}
  PROVE  \E n \in S : \A m \in S : n <= m
<1>1. \E x \in S : \A y \in S : ~(<<y, x>> \in Below)
  BY BelowWellFounded, WFMin
<1>2. PICK x \in S : \A y \in S : ~(<<y, x>> \in Below)
  BY <1>1
<1>3. ASSUME NEW y \in S PROVE x <= y
  <2>1. ~(<<y, x>> \in Below) /\ x \in Nat /\ y \in Nat
    BY <1>2
  <2> QED
    BY <2>1 DEF Below
<1> QED
  BY <1>3

\* A set of natural numbers with 0 and every successor is all of them.
LEMMA NatBySuccessors ==
  ASSUME NEW S, S \subseteq Nat, 0 \in S, \A n \in S : n + 1 \in S
  PROVE  S = Nat
<1> SUFFICES ASSUME Nat \ S # {} PROVE FALSE
  OBVIOUS
<1>1. PICK n \in Nat \ S : \A m \in Nat \ S : n <= m
  BY NatLeast
<1>2. n - 1 \in Nat /\ ~(n <= n - 1)
  BY <1>1
<1>3. n - 1 \in S
  BY <1>1, <1>2
<1>4. (n - 1) + 1 = n
  BY <1>1
<1> QED
  BY <1>1, <1>3, <1>4

\* What the fold takes next.
Chosen(T) == CHOOSE x \in T : TRUE

\* Every subset of a finite set is reached from the empty one, element by element.
LEMMA SubsetsByElements ==
  ASSUME NEW S, IsFiniteSet(S), NEW F, {} \in F,
         \A T \in SUBSET S : T # {} /\ T \ {Chosen(T)} \in F => T \in F
  PROVE  SUBSET S \subseteq F
<1> DEFINE N == {n \in Nat : \A T \in SUBSET S : Cardinality(T) = n => T \in F}
<1>1. \A T \in SUBSET S : IsFiniteSet(T) /\ Cardinality(T) \in Nat
  BY FS_Subset, FS_CardinalityType
<1>2. 0 \in N
  <2>1. ASSUME NEW T \in SUBSET S, Cardinality(T) = 0 PROVE T \in F
    <3>1. IsFiniteSet(T)
      BY <1>1
    <3> QED
      BY <2>1, <3>1, FS_EmptySet
  <2> QED
    BY <2>1
<1>3. ASSUME NEW n \in N PROVE n + 1 \in N
  <2>1. ASSUME NEW T \in SUBSET S, Cardinality(T) = n + 1 PROVE T \in F
    <3>1. T # {}
      BY <2>1, FS_EmptySet
    <3>2. Chosen(T) \in T
      BY <3>1 DEF Chosen
    <3>3. Cardinality(T \ {Chosen(T)}) = n
      <4>1. IsFiniteSet(T) /\ n \in Nat
        BY <1>1
      <4>2. Cardinality(T \ {Chosen(T)}) = Cardinality(T) - 1
        BY <3>2, <4>1, FS_RemoveElement
      <4> QED
        BY <2>1, <4>1, <4>2
    <3>4. T \ {Chosen(T)} \in F
      BY <3>3
    <3> QED
      BY <3>1, <3>4
  <2> QED
    BY <2>1
<1>4. N = Nat
  <2>1. N \subseteq Nat
    OBVIOUS
  <2> HIDE DEF N
  <2> QED
    BY <1>2, <1>3, <2>1, NatBySuccessors
<1> QED
  BY <1>1, <1>4

-----------------------------------------------------------------------------
(* The fold *)

Total(h) == FoldFunction(+, 0, h)

\* g[T] is the sum of h over T, got from the one without the chosen element.
SumsAt(h, g, T) ==
  g[T] = IF T = {} THEN 0 ELSE h[Chosen(T)] + g[T \ {Chosen(T)}]

\* The function that the fold computes on every subset of the domain.
Partial(h) ==
  CHOOSE g : g = [T \in SUBSET DOMAIN h |->
                    IF T = {} THEN 0 ELSE h[Chosen(T)] + g[T \ {Chosen(T)}]]

LEMMA TotalIsPartial ==
  ASSUME NEW h
  PROVE  Total(h) = Partial(h)[DOMAIN h]
BY DEF Total, Partial, Chosen, FoldFunction, FoldFunctionOnSet, MapThenFoldSet

LEMMA PartialExists ==
  ASSUME NEW h, IsFiniteSet(DOMAIN h)
  PROVE  \E g : g = [T \in SUBSET DOMAIN h |->
                       IF T = {} THEN 0 ELSE h[Chosen(T)] + g[T \ {Chosen(T)}]]
<1> DEFINE S == DOMAIN h
           next(g) == [T \in SUBSET S |->
                         IF T = {} THEN 0 ELSE h[Chosen(T)] + g[T \ {Chosen(T)}]]
           N == {n \in Nat : \E g : \A T \in SUBSET S :
                   Cardinality(T) <= n => next(g)[T] = g[T]}
<1>1. \A T \in SUBSET S : IsFiniteSet(T) /\ Cardinality(T) \in Nat /\ Cardinality(T) <= Cardinality(S)
  BY FS_Subset, FS_CardinalityType
<1>2. \A T \in SUBSET S : T # {} =>
        /\ Chosen(T) \in T /\ T \ {Chosen(T)} \in SUBSET S
        /\ Cardinality(T \ {Chosen(T)}) = Cardinality(T) - 1
  <2> SUFFICES ASSUME NEW T \in SUBSET S, T # {}
               PROVE /\ Chosen(T) \in T /\ T \ {Chosen(T)} \in SUBSET S
                     /\ Cardinality(T \ {Chosen(T)}) = Cardinality(T) - 1
    OBVIOUS
  <2>1. Chosen(T) \in T
    BY DEF Chosen
  <2> QED
    BY <1>1, <2>1, FS_RemoveElement
<1>3. 0 \in N
  <2> DEFINE g == [T \in SUBSET S |-> 0]
  <2>1. ASSUME NEW T \in SUBSET S, Cardinality(T) <= 0 PROVE next(g)[T] = g[T]
    <3>1. T = {}
      BY <1>1, <2>1, FS_EmptySet
    <3> QED
      BY <3>1
  <2> QED
    BY <2>1
<1>4. ASSUME NEW n \in N PROVE n + 1 \in N
  <2>1. PICK g : \A T \in SUBSET S : Cardinality(T) <= n => next(g)[T] = g[T]
    OBVIOUS
  <2>2. ASSUME NEW T \in SUBSET S, Cardinality(T) <= n + 1
        PROVE  next(next(g))[T] = next(g)[T]
    <3>1. CASE T = {}
      BY <3>1
    <3>2. CASE T # {}
      <4> DEFINE U == T \ {Chosen(T)}
      <4>1. U \in SUBSET S /\ Cardinality(U) <= n
        BY <1>1, <1>2, <2>2, <3>2
      <4>2. next(g)[U] = g[U]
        BY <2>1, <4>1
      <4>3. next(g)[T] = h[Chosen(T)] + g[U]
        BY <3>2
      <4>4. next(next(g))[T] = h[Chosen(T)] + next(g)[U]
        BY <3>2
      <4> QED
        BY <4>2, <4>3, <4>4
    <3> QED
      BY <3>1, <3>2
  <2>3. \E f : \A T \in SUBSET S : Cardinality(T) <= n + 1 => next(f)[T] = f[T]
    <3> HIDE DEF next
    <3> QED
      BY <2>2
  <2>4. n + 1 \in Nat
    OBVIOUS
  <2> HIDE DEF next
  <2> QED
    BY <2>3, <2>4
<1>5. N = Nat
  <2>1. N \subseteq Nat
    OBVIOUS
  <2> HIDE DEF N
  <2> QED
    BY <1>3, <1>4, <2>1, NatBySuccessors
<1>6. PICK g : \A T \in SUBSET S : Cardinality(T) <= Cardinality(S) => next(g)[T] = g[T]
  BY <1>1, <1>5
<1>7. next(next(g)) = next(g)
  <2>1. \A T \in SUBSET S : next(g)[T] = g[T]
    BY <1>1, <1>6
  <2>2. \A T \in SUBSET S : next(next(g))[T] = next(g)[T]
    BY <1>2, <2>1
  <2> QED
    BY <2>2
<1> QED
  BY <1>7

LEMMA PartialSums ==
  ASSUME NEW h, IsFiniteSet(DOMAIN h)
  PROVE  \A T \in SUBSET DOMAIN h : SumsAt(h, Partial(h), T)
<1>1. Partial(h) = [T \in SUBSET DOMAIN h |->
                      IF T = {} THEN 0 ELSE h[Chosen(T)] + Partial(h)[T \ {Chosen(T)}]]
  BY PartialExists DEF Partial
<1> QED
  BY <1>1 DEF SumsAt

-----------------------------------------------------------------------------
(* What it adds up to *)

\* The values of a finite function add up to a natural number.
LEMMA TotalType ==
  ASSUME NEW S, IsFiniteSet(S), NEW h \in [S -> Nat]
  PROVE  Total(h) \in Nat
<1> DEFINE g == Partial(h)
           F == {T \in SUBSET S : g[T] \in Nat}
<1>1. \A T \in SUBSET S : SumsAt(h, g, T)
  BY PartialSums
<1> HIDE DEF g
<1>2. {} \in F
  <2>1. g[{}] = 0
    BY <1>1 DEF SumsAt
  <2> QED
    BY <2>1
<1>3. ASSUME NEW T \in SUBSET S, T # {}, T \ {Chosen(T)} \in F PROVE T \in F
  BY <1>1, <1>3 DEF SumsAt, Chosen
<1>4. SUBSET S \subseteq F
  <2> HIDE DEF F
  <2> QED
    BY <1>2, <1>3, SubsetsByElements
<1> QED
  BY <1>4, TotalIsPartial DEF g

\* A function that is 0 everywhere adds up to nothing.
LEMMA TotalZero ==
  ASSUME NEW S, IsFiniteSet(S)
  PROVE  Total([x \in S |-> 0]) = 0
<1> DEFINE h == [x \in S |-> 0]
           g == Partial(h)
           F == {T \in SUBSET S : g[T] = 0}
<1>1. \A T \in SUBSET S : SumsAt(h, g, T)
  BY PartialSums
<1> HIDE DEF g
<1>2. {} \in F
  <2>1. g[{}] = 0
    BY <1>1 DEF SumsAt
  <2> QED
    BY <2>1
<1>3. ASSUME NEW T \in SUBSET S, T # {}, T \ {Chosen(T)} \in F PROVE T \in F
  BY <1>1, <1>3 DEF SumsAt, Chosen
<1>4. SUBSET S \subseteq F
  <2> HIDE DEF F
  <2> QED
    BY <1>2, <1>3, SubsetsByElements
<1> QED
  BY <1>4, TotalIsPartial DEF g

\* One value more by d, and the sum is more by d.
LEMMA TotalAdd ==
  ASSUME NEW S, IsFiniteSet(S), NEW h \in [S -> Nat], NEW k \in [S -> Nat],
         NEW c \in S, NEW d \in Nat,
         \A x \in S : k[x] = IF x = c THEN h[x] + d ELSE h[x]
  PROVE  Total(k) = Total(h) + d
<1> DEFINE g == Partial(h)
           l == Partial(k)
           F == {T \in SUBSET S : g[T] \in Nat /\ l[T] = g[T] + (IF c \in T THEN d ELSE 0)}
<1>1. \A T \in SUBSET S : SumsAt(h, g, T) /\ SumsAt(k, l, T)
  BY PartialSums
<1> HIDE DEF g, l
<1>3. {} \in F
  <2>1. g[{}] = 0 /\ l[{}] = 0
    BY <1>1 DEF SumsAt
  <2> QED
    BY <2>1
<1>4. ASSUME NEW T \in SUBSET S, T # {}, T \ {Chosen(T)} \in F PROVE T \in F
  <2>1. Chosen(T) \in T
    BY <1>4 DEF Chosen
  <2>2. /\ g[T] = h[Chosen(T)] + g[T \ {Chosen(T)}]
        /\ l[T] = k[Chosen(T)] + l[T \ {Chosen(T)}]
    BY <1>1, <1>4 DEF SumsAt
  <2>3. h[Chosen(T)] \in Nat /\ g[T \ {Chosen(T)}] \in Nat
    BY <1>4, <2>1
  <2>4. CASE Chosen(T) = c
    <3>1. c \notin T \ {Chosen(T)} /\ c \in T
      BY <2>1, <2>4
    <3>2. l[T \ {Chosen(T)}] = g[T \ {Chosen(T)}]
      BY <1>4, <3>1
    <3>3. k[Chosen(T)] = h[Chosen(T)] + d
      BY <2>1, <2>4
    <3> QED
      BY <2>2, <2>3, <3>1, <3>2, <3>3
  <2>5. CASE Chosen(T) # c
    <3>1. c \in T \ {Chosen(T)} <=> c \in T
      BY <2>5
    <3>2. k[Chosen(T)] = h[Chosen(T)]
      BY <2>1, <2>5
    <3> QED
      BY <1>4, <2>2, <2>3, <3>1, <3>2
  <2> QED
    BY <2>4, <2>5
<1>5. SUBSET S \subseteq F
  <2> HIDE DEF F
  <2> QED
    BY <1>3, <1>4, SubsetsByElements
<1> QED
  BY <1>5, TotalIsPartial DEF g, l

-----------------------------------------------------------------------------
(* Increasing sequences *)

Increasing(s) == \A i, j \in DOMAIN s : i < j => s[i] < s[j]

\* An increasing sequence of n numbers spans at least n - 1.
LEMMA IncreasingSpan ==
  ASSUME NEW s \in Seq(Nat), Increasing(s), s # <<>>
  PROVE  s[1] + (Len(s) - 1) <= s[Len(s)]
<1> DEFINE N == {n \in Nat : n + 1 <= Len(s) => s[1] + n <= s[n + 1]}
<1>1. Len(s) \in Nat /\ Len(s) >= 1 /\ \A i \in 1 .. Len(s) : s[i] \in Nat
  OBVIOUS
<1>2. 0 \in N
  BY <1>1
<1>3. ASSUME NEW n \in N PROVE n + 1 \in N
  <2>1. n \in Nat /\ (n + 1 <= Len(s) => s[1] + n <= s[n + 1])
    OBVIOUS
  <2>2. ASSUME (n + 1) + 1 <= Len(s) PROVE s[1] + (n + 1) <= s[(n + 1) + 1]
    <3>1. 1 \in 1 .. Len(s) /\ n + 1 \in 1 .. Len(s) /\ (n + 1) + 1 \in 1 .. Len(s)
      BY <1>1, <2>1, <2>2
    <3>2. s[n + 1] < s[(n + 1) + 1]
      BY <2>1, <3>1 DEF Increasing
    <3>3. s[1] \in Nat /\ s[n + 1] \in Nat /\ s[(n + 1) + 1] \in Nat
      BY <1>1, <3>1
    <3> QED
      BY <2>1, <2>2, <3>1, <3>2, <3>3, SMTT(40)
  <2> QED
    BY <2>1, <2>2
<1>4. N = Nat
  <2>1. N \subseteq Nat
    OBVIOUS
  <2> HIDE DEF N
  <2> QED
    BY <1>2, <1>3, <2>1, NatBySuccessors
<1>5. Len(s) - 1 \in N
  <2>1. Len(s) - 1 \in Nat
    BY <1>1
  <2> HIDE DEF N
  <2> QED
    BY <1>4, <2>1
<1>6. (Len(s) - 1) + 1 = Len(s)
  BY <1>1
<1> QED
  BY <1>1, <1>5, <1>6
=============================================================================
