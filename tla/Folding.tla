------------------------------- MODULE Folding -------------------------------
(***************************************************************************)
(* FoldLeft, for proofs. The step of the fold is the constant Op: a module *)
(* that folds takes an instance of this one with its own step for Op, the  *)
(* last three arguments being what the step needs besides the accumulator  *)
(* and the element. FoldRuns then gives the accumulators of the fold, one  *)
(* after the other, and Counting is the induction over them.               *)
(***************************************************************************)
EXTENDS Integers, Sequences, SequencesExt, WellFoundedInduction, TLAPS

CONSTANT Op(_, _, _, _, _)

(* The fold of a step that takes three more arguments. *)
Fold(a, b, c, base, seq) == FoldLeft(LAMBDA acc, x : Op(acc, x, a, b, c), base, seq)

(* A set of numbers with zero and the successor of each holds all of them. *)
LEMMA Counting ==
  ASSUME NEW n \in Nat, NEW T, 0 \in T, \A k \in 0 .. n - 1 : k \in T => k + 1 \in T
  PROVE  \A k \in 0 .. n : k \in T
<1> DEFINE Rest == {k \in 0 .. n : k \notin T}
<1>1. SUFFICES ASSUME Rest # {} PROVE FALSE
  OBVIOUS
<1> DEFINE Less == {p \in Nat \X Nat : p[1] < p[2]}
<1>2. IsWellFoundedOn(Less, Nat)
  BY NatLessThanWellFounded, Zenon DEF OpToRel
<1>3. PICK k \in Rest : \A j \in Rest : ~ <<j, k>> \in Less
  <2>1. Rest \subseteq Nat
    OBVIOUS
  <2> HIDE DEF Rest, Less
  <2>2. QED
    BY <1>1, <1>2, <2>1, WFMin, Zenon
<1>4. k \in Nat /\ k # 0 /\ k - 1 \in 0 .. n - 1 /\ k - 1 \notin Rest
  <2>1. k \in Nat /\ k # 0 /\ k - 1 \in 0 .. n - 1
    OBVIOUS
  <2>2. <<k - 1, k>> \in Less
    BY <2>1
  <2>3. QED
    BY <2>1, <2>2, <1>3
<1>5. QED
  BY <1>4

(* f is the function over subsets of the indices by which the community      *)
(* modules define a fold.                                                    *)
IsIter(f, a, b, c, base, seq, n) ==
  f = [s \in SUBSET (1 .. n) |->
         IF s = {} THEN base ELSE Op(f[s \ {Max(s)}], seq[Max(s)], a, b, c)]

(* The fold is what such a function gives the set of all indices. *)
LEMMA FoldIsIter ==
  ASSUME NEW a, NEW b, NEW c, NEW base, NEW seq, NEW n, DOMAIN seq = 1 .. n
  PROVE  Fold(a, b, c, base, seq) = (CHOOSE f : IsIter(f, a, b, c, base, seq, n))[1 .. n]
BY DEF Fold, FoldLeft, MapThenFoldSet, IsIter

(* One more element, the greatest, is taken first. *)
LEMMA IterExtends ==
  ASSUME NEW a, NEW b, NEW c, NEW base, NEW seq, NEW m \in Nat, NEW g, IsIter(g, a, b, c, base, seq, m)
  PROVE  \E f : IsIter(f, a, b, c, base, seq, m + 1)
<1> DEFINE f == [s \in SUBSET (1 .. m + 1) |->
                  IF m + 1 \in s THEN Op(g[s \ {m + 1}], seq[m + 1], a, b, c) ELSE g[s]]
<1>1. ASSUME NEW s \in SUBSET (1 .. m + 1)
      PROVE  f[s] = IF s = {} THEN base ELSE Op(f[s \ {Max(s)}], seq[Max(s)], a, b, c)
  <2>1. CASE m + 1 \in s
    <3>1. Max(s) = m + 1
      <4>1. \A y \in s : m + 1 >= y
        OBVIOUS
      <4>2. \A x \in s : (\A y \in s : x >= y) => x = m + 1
        <5>1. TAKE x \in s
        <5>2. HAVE \A y \in s : x >= y
        <5>3. x >= m + 1 /\ x \in 1 .. m + 1
          BY <2>1, <5>2
        <5>4. QED
          BY <5>3
      <4>3. QED
        BY <2>1, <4>1, <4>2 DEF Max
    <3>2. s \ {m + 1} \in SUBSET (1 .. m + 1) /\ m + 1 \notin s \ {m + 1}
      OBVIOUS
    <3>3. f[s \ {m + 1}] = g[s \ {m + 1}]
      BY <3>2
    <3>4. f[s] = Op(g[s \ {m + 1}], seq[m + 1], a, b, c) /\ s # {}
      BY <2>1
    <3>5. QED
      BY <3>1, <3>3, <3>4
  <2>2. CASE m + 1 \notin s
    <3>1. s \in SUBSET (1 .. m) /\ s \ {Max(s)} \in SUBSET (1 .. m)
      <4>1. \A x \in s : x \in 1 .. m + 1 /\ x # m + 1
        BY <2>2
      <4>2. \A x \in s : x \in 1 .. m
        BY <4>1
      <4>3. QED
        BY <4>2
    <3>2. f[s] = g[s]
      BY <2>2
    <3>3. f[s \ {Max(s)}] = g[s \ {Max(s)}]
      <4>1. m + 1 \notin s \ {Max(s)} /\ s \ {Max(s)} \in SUBSET (1 .. m + 1)
        BY <2>2
      <4>2. QED
        BY <4>1
    <3>4. g[s] = IF s = {} THEN base ELSE Op(g[s \ {Max(s)}], seq[Max(s)], a, b, c)
      BY <3>1 DEF IsIter
    <3>5. QED
      BY <3>2, <3>3, <3>4
  <2>3. QED
    BY <2>1, <2>2
<1>2. f = [s \in SUBSET (1 .. m + 1) |-> f[s]]
  OBVIOUS
<1> HIDE DEF f
<1>3. IsIter(f, a, b, c, base, seq, m + 1)
  BY <1>1, <1>2 DEF IsIter
<1>4. QED
  BY <1>3

(* There is one for every length. *)
LEMMA IterExists ==
  ASSUME NEW a, NEW b, NEW c, NEW base, NEW seq, NEW n \in Nat
  PROVE  \E f : IsIter(f, a, b, c, base, seq, n)
<1> DEFINE T == {m \in 0 .. n : \E f : IsIter(f, a, b, c, base, seq, m)}
<1>1. 0 \in T
  <2> DEFINE f == [s \in SUBSET (1 .. 0) |-> base]
  <2>1. \A s \in SUBSET (1 .. 0) : s = {}
    OBVIOUS
  <2>2. f = [s \in SUBSET (1 .. 0) |->
               IF s = {} THEN base ELSE Op(f[s \ {Max(s)}], seq[Max(s)], a, b, c)]
    BY <2>1
  <2> HIDE DEF f
  <2>3. IsIter(f, a, b, c, base, seq, 0)
    BY <2>2 DEF IsIter
  <2>4. QED
    BY <2>3
<1>2. ASSUME NEW k \in 0 .. n - 1, k \in T PROVE k + 1 \in T
  BY <1>2, IterExtends
<1>3. QED
  <2> HIDE DEF T
  <2>1. \A k \in 0 .. n : k \in T
    BY <1>1, <1>2, Counting
  <2>2. n \in T
    BY <2>1
  <2>3. QED
    BY <2>2 DEF T

(* A run of a fold: from the base, one element after the other. *)
IsRun(run, a, b, c, base, seq, n) ==
  /\ run[0] = base
  /\ \A k \in 1 .. n : run[k] = Op(run[k - 1], seq[k], a, b, c)
  /\ Fold(a, b, c, base, seq) = run[n]

(* Every fold has one, so that what holds of the base and is kept by each    *)
(* step can be counted up (Counting) to the result.                          *)
LEMMA FoldRuns ==
  \A a, b, c, base, seq : \A n \in Nat :
    DOMAIN seq = 1 .. n => \E run : IsRun(run, a, b, c, base, seq, n)
<1> SUFFICES ASSUME NEW a, NEW b, NEW c, NEW base, NEW seq, NEW n \in Nat, DOMAIN seq = 1 .. n
             PROVE  \E run : IsRun(run, a, b, c, base, seq, n)
  OBVIOUS
<1> DEFINE g == CHOOSE f : IsIter(f, a, b, c, base, seq, n)
           run == [k \in 0 .. n |-> g[1 .. k]]
<1>1. IsIter(g, a, b, c, base, seq, n)
  BY IterExists
<1>2. Fold(a, b, c, base, seq) = g[1 .. n]
  BY FoldIsIter
<1> HIDE DEF g
<1>3. run[0] = base
  <2>1. 1 .. 0 = {} /\ {} \in SUBSET (1 .. n)
    OBVIOUS
  <2>2. g[{}] = base
    BY <1>1 DEF IsIter
  <2>3. QED
    BY <2>1, <2>2
<1>4. ASSUME NEW k \in 1 .. n PROVE run[k] = Op(run[k - 1], seq[k], a, b, c)
  <2>1. 1 .. k \in SUBSET (1 .. n) /\ 1 .. k # {}
    <3>1. \A x \in 1 .. k : x \in 1 .. n
      OBVIOUS
    <3>2. k \in 1 .. k
      OBVIOUS
    <3>3. QED
      BY <3>1, <3>2
  <2>2. Max(1 .. k) = k
    BY DEF Max
  <2>3. (1 .. k) \ {k} = 1 .. k - 1
    OBVIOUS
  <2>4. g[1 .. k] = Op(g[1 .. k - 1], seq[k], a, b, c)
    BY <1>1, <2>1, <2>2, <2>3 DEF IsIter
  <2>5. QED
    BY <2>4
<1>5. run[n] = g[1 .. n]
  OBVIOUS
<1>6. QED
  <2> HIDE DEF run
  <2>1. IsRun(run, a, b, c, base, seq, n)
    BY <1>2, <1>3, <1>4, <1>5 DEF IsRun
  <2>2. QED
    BY <2>1
==============================================================================
