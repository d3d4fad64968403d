---------------------------- MODULE FoldTheorems ----------------------------
(***************************************************************************)
(* What is needed to reason about the folds in the model: induction over   *)
(* the naturals with a set of naturals in the place of a predicate, the    *)
(* existence of the function by which a fold is defined, and the sequence  *)
(* of intermediate results of a fold.  The operation that is folded is     *)
(* given as the function step: step[x][v] is the result for x on v \in V.   *)
(* The last part is about sums over finite sets.                           *)
(***************************************************************************)
EXTENDS Integers, FiniteSets, SequencesExt, FiniteSetTheorems, NaturalsInduction, WellFoundedInduction, TLAPS

\* A set that has 0 and with every number its successor has all numbers.
LEMMA NatSetInduction ==
    ASSUME NEW P, 0 \in P, \A n \in Nat : n \in P => n + 1 \in P
    PROVE  \A n \in Nat : n \in P
<1>. DEFINE Bad == {n \in Nat : n \notin P}
            Less == OpToRel(<, Nat)
<1>1. SUFFICES ASSUME Bad # {} PROVE FALSE
  OBVIOUS
<1>2. Bad \subseteq Nat /\ IsWellFoundedOn(Less, Nat)
  BY NatLessThanWellFounded
<1>3. PICK n \in Bad : \A m \in Bad : <<m, n>> \notin Less
  <2>. HIDE DEF Bad, Less
  <2>. QED
    BY <1>1, <1>2, WFMin
<1>4. n \in Nat /\ n \notin P /\ \A m \in Bad : ~(m < n)
  BY <1>2, <1>3 DEF Less, OpToRel
<1>5. n - 1 \in Nat /\ n - 1 < n /\ (n - 1) + 1 = n
  BY <1>4
<1>. QED
  BY <1>4, <1>5

\* The greatest number of an interval, and of any finite set of numbers.
LEMMA MaxOfInterval ==
    ASSUME NEW n \in Nat, n # 0
    PROVE  Max(1..n) = n
BY DEF Max

\* The greatest element is one of the set.
LEMMA MaxIsMember ==
    ASSUME NEW n \in Nat, NEW s \in SUBSET (1..n), s # {}
    PROVE  Max(s) \in s
<1>. DEFINE P == {k \in Nat : \A r \in SUBSET (1..k) :
                     r # {} => \E x \in r : \A y \in r : x >= y}
<1>1. 0 \in P
  <2>1. 1..0 = {}
    OBVIOUS
  <2>. QED
    BY <2>1
<1>2. ASSUME NEW k \in Nat, k \in P
      PROVE  k + 1 \in P
  <2>. SUFFICES ASSUME NEW r \in SUBSET (1..(k + 1)), r # {}
                PROVE  \E x \in r : \A y \in r : x >= y
    OBVIOUS
  <2>1. CASE k + 1 \in r
    BY <2>1
  <2>2. CASE k + 1 \notin r
    <3>1. r \in SUBSET (1..k)
      BY <2>2
    <3>. QED
      BY <1>2, <3>1
  <2>. QED
    BY <2>1, <2>2
<1>3. n \in P
  <2>. HIDE DEF P
  <2>. QED
    BY <1>1, <1>2, NatSetInduction
<1>. QED
  BY <1>3 DEF Max

\* pick takes an element from every set in SUBSET S that has one.
Picks(pick, S) == \A s \in SUBSET S : s # {} => pick[s] \in s

\* f gives the result of a fold for every subset of S, from that for the subset
\* without the element that is picked from it.
IsFold(f, S, base, step, pick) ==
    \A s \in SUBSET S :
        f[s] = IF s = {} THEN base ELSE step[pick[s]][f[s \ {pick[s]}]]

\* Every fold over a finite set is well defined.
LEMMA FoldExists ==
    ASSUME NEW S, IsFiniteSet(S), NEW V, NEW base \in V, NEW step \in [S -> [V -> V]], NEW pick,
           Picks(pick, S)
    PROVE  \E f \in [SUBSET S -> V] : IsFold(f, S, base, step, pick)
<1>. DEFINE Level(n) == {s \in SUBSET S : Cardinality(s) <= n}
            Body(f, s) == IF s = {} THEN base ELSE step[pick[s]][f[s \ {pick[s]}]]
            Fold(n, f) == f \in [Level(n) -> V] /\ \A s \in Level(n) : f[s] = Body(f, s)
            P == {n \in Nat : \E f : Fold(n, f)}
<1>1. \A s \in SUBSET S : IsFiniteSet(s) /\ Cardinality(s) \in Nat
  BY FS_Subset, FS_CardinalityType
<1>2. ASSUME NEW n \in Nat, n \in P
      PROVE  n + 1 \in P
  <2>1. PICK g : Fold(n, g)
    BY <1>2
  <2>. DEFINE h == [s \in Level(n + 1) |-> Body(g, s)]
  <2>2. ASSUME NEW s \in Level(n + 1), s # {}
        PROVE  pick[s] \in S /\ s \ {pick[s]} \in Level(n)
    <3>1. pick[s] \in s /\ s \in SUBSET S
      BY <2>2 DEF Picks
    <3>2. Cardinality(s \ {pick[s]}) = Cardinality(s) - 1
      BY <1>1, <3>1, FS_RemoveElement
    <3>3. Cardinality(s) \in Nat /\ Cardinality(s) <= n + 1
      BY <1>1, <3>1
    <3>. DEFINE c == Cardinality(s)
                d == Cardinality(s \ {pick[s]})
    <3>. HIDE DEF c, d
    <3>4. d <= n
      BY <3>2, <3>3 DEF c, d
    <3>. QED
      BY <3>1, <3>4 DEF d
  <2>3. ASSUME NEW s \in Level(n)
        PROVE  s \in Level(n + 1) /\ h[s] = g[s]
    <3>1. s \in Level(n + 1)
      BY <1>1
    <3>2. g[s] = Body(g, s)
      <4>. HIDE DEF Level, Body
      <4>. QED
        BY <2>1
    <3>. QED
      BY <3>1, <3>2
  <2>4. ASSUME NEW s \in Level(n + 1)
        PROVE  Body(g, s) = Body(h, s) /\ Body(g, s) \in V
    <3>1. CASE s = {}
      BY <3>1
    <3>2. CASE s # {}
      <4>1. pick[s] \in S /\ s \ {pick[s]} \in Level(n)
        BY <2>2, <3>2
      <4>2. h[s \ {pick[s]}] = g[s \ {pick[s]}] /\ g[s \ {pick[s]}] \in V
        <5>. HIDE DEF Level, h, Body
        <5>. QED
          BY <2>1, <2>3, <4>1
      <4>3. step[pick[s]] \in [V -> V]
        BY <4>1
      <4>. HIDE DEF Level, h
      <4>. QED
        BY <3>2, <4>2, <4>3
    <3>. QED
      BY <3>1, <3>2
  <2>5. Fold(n + 1, h)
    <3>1. \A s \in Level(n + 1) : h[s] = Body(h, s)
      <4>. HIDE DEF Level, Body
      <4>1. \A s \in Level(n + 1) : h[s] = Body(g, s)
        OBVIOUS
      <4>. HIDE DEF h
      <4>. QED
        BY <2>4, <4>1
    <3>2. h \in [Level(n + 1) -> V]
      <4>. HIDE DEF Level, Body
      <4>. QED
        BY <2>4
    <3>. HIDE DEF Level, Body, h
    <3>. QED
      BY <3>1, <3>2
  <2>. QED
    <3>. HIDE DEF Fold, h
    <3>. QED
      BY <2>5
<1>3. 0 \in P
  <2>1. ASSUME NEW s \in Level(0) PROVE s = {}
    <3>1. IsFiniteSet(s) /\ Cardinality(s) = 0
      BY <1>1
    <3>. QED
      BY <3>1, FS_EmptySet
  <2>. DEFINE h == [s \in Level(0) |-> base]
  <2>2. Fold(0, h)
    <3>. HIDE DEF Level
    <3>. QED
      BY <2>1
  <2>. QED
    <3>. HIDE DEF Fold, h
    <3>. QED
      BY <2>2
<1>4. \A n \in Nat : n \in P
  <2>. HIDE DEF P
  <2>. QED
    BY <1>2, <1>3, NatSetInduction
<1>5. PICK f : Fold(Cardinality(S), f)
  <2>1. Cardinality(S) \in Nat
    BY FS_CardinalityType
  <2>. HIDE DEF Fold
  <2>. QED
    BY <1>4, <2>1
<1>6. Level(Cardinality(S)) = SUBSET S
  BY FS_Subset
<1>. QED
  BY <1>5, <1>6 DEF IsFold

\* f is the function by which FoldLeft is defined on a sequence of n elements; of
\* its steps only those that start in V are asked for.
FoldsLeft(f, n, V, base, step) ==
    /\ f[{}] = base
    /\ \A s \in SUBSET (1..n) :
          s # {} /\ f[s \ {Max(s)}] \in V => f[s] = step[Max(s)][f[s \ {Max(s)}]]

\* The function by which a fold over the positions 1..n is defined exists.
LEMMA FoldLeftExists ==
    ASSUME NEW n \in Nat, NEW V, NEW base \in V, NEW step \in [1..n -> [V -> V]]
    PROVE  \E f \in [SUBSET (1..n) -> V] : FoldsLeft(f, n, V, base, step)
<1>. DEFINE S == 1..n
            pick == [s \in SUBSET S |-> Max(s)]
<1>1. IsFiniteSet(S)
  BY FS_Interval
<1>2. Picks(pick, S)
  BY MaxIsMember DEF Picks
<1>3. \E f \in [SUBSET S -> V] : IsFold(f, S, base, step, pick)
  <2>1. step \in [S -> [V -> V]]
    OBVIOUS
  <2>. HIDE DEF pick, S
  <2>. QED
    BY <1>1, <1>2, <2>1, FoldExists, Zenon
<1>. QED
  BY <1>3 DEF IsFold, FoldsLeft

\* The intermediate results: run[k] is the result on the first k elements.
IsRun(run, n, base, step) ==
    /\ run[0] = base
    /\ \A k \in 1..n : run[k] = step[k][run[k - 1]]

\* From base the n steps lead through V to the value v.
RunsTo(n, V, base, step, v) ==
    \E run \in [0..n -> V] : IsRun(run, n, base, step) /\ run[n] = v

\* A fold from the left has intermediate results, one for each position.
LEMMA FoldLeftRun ==
    ASSUME NEW n \in Nat, NEW V, NEW base \in V, NEW step \in [1..n -> [V -> V]],
           NEW f, FoldsLeft(f, n, V, base, step)
    PROVE  RunsTo(n, V, base, step, f[1..n])
<1>. DEFINE run == [k \in 0..n |-> f[1..k]]
            P == {k \in Nat : k <= n => f[1..k] \in V}
<1>1. \A k \in 1..n : k \in Nat /\ (1..k) \ {Max(1..k)} = 1..(k - 1) /\ Max(1..k) = k
  BY MaxOfInterval
<1>2. ASSUME NEW k \in 1..n, f[1..(k - 1)] \in V
      PROVE  f[1..k] = step[k][f[1..(k - 1)]]
  <2>1. (1..k) \in SUBSET (1..n) /\ 1..k # {}
    <3>1. k \in Int /\ 1 <= k /\ k <= n
      OBVIOUS
    <3>2. k \in 1..k
      BY <3>1
    <3>3. ASSUME NEW j \in 1..k PROVE j \in 1..n
      BY <3>1
    <3>. QED
      BY <3>2, <3>3, Zenon
  <2>2. (1..k) \ {Max(1..k)} = 1..(k - 1) /\ Max(1..k) = k
    BY <1>1
  <2>3. f[(1..k) \ {Max(1..k)}] \in V =>
            f[1..k] = step[Max(1..k)][f[(1..k) \ {Max(1..k)}]]
    BY <2>1 DEF FoldsLeft
  <2>. QED
    BY <1>2, <2>2, <2>3
<1>3. 1..0 = {}
  OBVIOUS
<1>4. 0 \in P
  BY <1>3 DEF FoldsLeft
<1>5. ASSUME NEW k \in Nat, k \in P PROVE k + 1 \in P
  <2>. SUFFICES ASSUME k + 1 <= n PROVE f[1..(k + 1)] \in V
    OBVIOUS
  <2>1. f[1..k] \in V /\ k + 1 \in 1..n /\ (k + 1) - 1 = k
    BY <1>5
  <2>2. f[1..(k + 1)] = step[k + 1][f[1..k]]
    BY <1>2, <2>1
  <2>3. step[k + 1] \in [V -> V]
    BY <2>1
  <2>. QED
    BY <2>1, <2>2, <2>3
<1>6. \A k \in Nat : k \in P
  <2>. HIDE DEF P
  <2>. QED
    BY <1>4, <1>5, NatSetInduction
<1>7. run \in [0..n -> V]
  BY <1>6
<1>8. run[0] = base
  BY <1>3 DEF FoldsLeft
<1>9. ASSUME NEW k \in 1..n PROVE run[k] = step[k][run[k - 1]]
  <2>1. k \in 0..n /\ k - 1 \in 0..n
    OBVIOUS
  <2>2. f[1..(k - 1)] \in V
    BY <1>7, <2>1
  <2>. QED
    BY <1>2, <2>1, <2>2
<1>10. run[n] = f[1..n]
  OBVIOUS
<1>. QED
  <2>. HIDE DEF run
  <2>. QED
    BY <1>7, <1>8, <1>9, <1>10 DEF IsRun, RunsTo

\* f gives the sum of w over every subset of S.
SumsUp(f, S, w) ==
    /\ f \in [SUBSET S -> Nat] /\ f[{}] = 0
    /\ \A s \in SUBSET S : \A x \in s : f[s] = w[x] + f[s \ {x}]

\* f does so in the order in which the elements are picked.
SumsByPick(f, S, w, pick) ==
    /\ f \in [SUBSET S -> Nat] /\ f[{}] = 0
    /\ \A s \in SUBSET S : s # {} => f[s] = w[pick[s]] + f[s \ {pick[s]}]

\* The sum does not depend on the order in which the elements are picked.
LEMMA FoldSumsUp ==
    ASSUME NEW S, IsFiniteSet(S), NEW w \in [S -> Nat], NEW pick, Picks(pick, S),
           NEW f, SumsByPick(f, S, w, pick)
    PROVE  SumsUp(f, S, w)
<1>0. /\ f \in [SUBSET S -> Nat] /\ f[{}] = 0
      /\ \A s \in SUBSET S : s # {} => f[s] = w[pick[s]] + f[s \ {pick[s]}]
  BY DEF SumsByPick
<1>. DEFINE AnySum(s) == \A x \in s : f[s] = w[x] + f[s \ {x}]
            P == {n \in Nat : \A s \in SUBSET S : Cardinality(s) = n => AnySum(s)}
<1>1. \A s \in SUBSET S : IsFiniteSet(s) /\ Cardinality(s) \in Nat
  BY FS_Subset, FS_CardinalityType
<1>2. 0 \in P
  <2>1. ASSUME NEW s \in SUBSET S, Cardinality(s) = 0 PROVE s = {}
    BY <1>1, <2>1, FS_EmptySet
  <2>. QED
    BY <2>1
<1>3. ASSUME NEW n \in Nat, n \in P PROVE n + 1 \in P
  <2>. SUFFICES ASSUME NEW s \in SUBSET S, Cardinality(s) = n + 1, NEW x \in s
                PROVE  f[s] = w[x] + f[s \ {x}]
    OBVIOUS
  <2>. DEFINE y == pick[s]
  <2>1. y \in s /\ f[s] = w[y] + f[s \ {y}]
    BY <1>0 DEF Picks
  <2>. HIDE DEF y
  <2>2. CASE x = y
    BY <2>1, <2>2
  <2>3. CASE x # y
    <3>1. \A z \in s : Cardinality(s \ {z}) = n
      <4>1. \A z \in s : Cardinality(s \ {z}) = Cardinality(s) - 1
        BY <1>1, FS_RemoveElement
      <4>. QED
        BY <4>1
    <3>2. f[s \ {y}] = w[x] + f[(s \ {y}) \ {x}]
      BY <1>3, <2>1, <2>3, <3>1
    <3>3. f[s \ {x}] = w[y] + f[(s \ {x}) \ {y}]
      BY <1>3, <2>1, <2>3, <3>1
    <3>4. (s \ {x}) \ {y} = (s \ {y}) \ {x}
      OBVIOUS
    <3>. DEFINE r == f[(s \ {y}) \ {x}]
                a == w[x]
                b == w[y]
    <3>5. r \in Nat /\ a \in Nat /\ b \in Nat
      BY <1>0, <2>1
    <3>. HIDE DEF a, b, r
    <3>6. f[s] = b + (a + r) /\ w[x] + f[s \ {x}] = a + (b + r)
      BY <2>1, <3>2, <3>3, <3>4 DEF a, b, r
    <3>. QED
      BY <3>5, <3>6
  <2>. QED
    BY <2>2, <2>3
<1>4. \A n \in Nat : n \in P
  <2>. HIDE DEF P
  <2>. QED
    BY <1>2, <1>3, NatSetInduction
<1>. QED
  BY <1>0, <1>1, <1>4 DEF SumsUp

\* The sum of numbers over a finite set exists, in whatever order its elements
\* are picked.
LEMMA SumExists ==
    ASSUME NEW S, IsFiniteSet(S), NEW w \in [S -> Nat], NEW pick, Picks(pick, S)
    PROVE  \E f : SumsByPick(f, S, w, pick)
<1>. DEFINE step == [x \in S |-> [n \in Nat |-> w[x] + n]]
<1>1. step \in [S -> [Nat -> Nat]] /\ 0 \in Nat
  OBVIOUS
<1>2. \A x \in S, n \in Nat : step[x][n] = w[x] + n
  OBVIOUS
<1>. HIDE DEF step
<1>3. PICK f \in [SUBSET S -> Nat] : IsFold(f, S, 0, step, pick)
  BY <1>1, FoldExists
<1>4. f[{}] = 0
  BY <1>3 DEF IsFold
<1>5. ASSUME NEW s \in SUBSET S, s # {} PROVE f[s] = w[pick[s]] + f[s \ {pick[s]}]
  <2>1. f[s] = step[pick[s]][f[s \ {pick[s]}]]
    BY <1>3, <1>5 DEF IsFold
  <2>2. pick[s] \in S /\ f[s \ {pick[s]}] \in Nat
    BY <1>5 DEF Picks
  <2>. QED
    BY <1>2, <2>1, <2>2
<1>. QED
  BY <1>4, <1>5 DEF SumsByPick

\* Sums over two sets whose elements correspond and weigh the same are the same.
LEMMA SumsAgree ==
    ASSUME NEW S, IsFiniteSet(S), NEW T, NEW c \in [S -> T], \A x, y \in S : c[x] = c[y] => x = y,
           NEW w, NEW v, \A x \in S : w[x] \in Nat /\ v[c[x]] = w[x],
           NEW f, SumsUp(f, S, w), NEW g, SumsUp(g, T, v)
    PROVE  f[S] = g[{c[x] : x \in S}]
<1>. DEFINE Im(s) == {c[x] : x \in s}
            P == {n \in Nat : \A s \in SUBSET S : Cardinality(s) = n => f[s] = g[Im(s)]}
<1>1. \A s \in SUBSET S : IsFiniteSet(s) /\ Cardinality(s) \in Nat
  BY FS_Subset, FS_CardinalityType
<1>2. 0 \in P
  <2>1. ASSUME NEW s \in SUBSET S, Cardinality(s) = 0 PROVE s = {} /\ Im(s) = {}
    <3>1. s = {}
      BY <1>1, <2>1, FS_EmptySet
    <3>. QED
      BY <3>1
  <2>. HIDE DEF Im
  <2>. QED
    BY <2>1 DEF SumsUp
<1>3. ASSUME NEW n \in Nat, n \in P PROVE n + 1 \in P
  <2>. SUFFICES ASSUME NEW s \in SUBSET S, Cardinality(s) = n + 1
                PROVE  f[s] = g[Im(s)]
    <3>. HIDE DEF Im
    <3>. QED
      OBVIOUS
  <2>1. PICK x \in s : TRUE
    <3>1. s # {}
      BY FS_EmptySet
    <3>. QED
      BY <3>1
  <2>2. Cardinality(s \ {x}) = n
    <3>1. Cardinality(s \ {x}) = Cardinality(s) - 1
      BY <1>1, FS_RemoveElement
    <3>. QED
      BY <3>1
  <2>3. Im(s \ {x}) = Im(s) \ {c[x]} /\ c[x] \in Im(s) /\ Im(s) \in SUBSET T
    OBVIOUS
  <2>4. f[s \ {x}] = g[Im(s \ {x})]
    <3>. HIDE DEF Im
    <3>. QED
      BY <1>3, <2>2
  <2>. HIDE DEF Im
  <2>5. f[s] = w[x] + f[s \ {x}]
    BY DEF SumsUp
  <2>6. g[Im(s)] = v[c[x]] + g[Im(s) \ {c[x]}]
    BY <2>3 DEF SumsUp
  <2>. QED
    BY <2>3, <2>4, <2>5, <2>6
<1>4. \A n \in Nat : n \in P
  <2>. HIDE DEF P
  <2>. QED
    BY <1>2, <1>3, NatSetInduction
<1>5. f[S] = g[Im(S)]
  <2>. HIDE DEF Im
  <2>. QED
    BY <1>1, <1>4
<1>. QED
  BY <1>5
=============================================================================
