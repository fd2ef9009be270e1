------------------------ MODULE StepEvaluationProofs -------------------------
(***************************************************************************)
(* Theorems about the step logic, for every pool, pattern and length of    *)
(* the lanes: the shape of the traversal orders, the evenness of euclidean *)
(* rhythms, the place of the notes of a step, and that the evaluator,      *)
(* which remembers nothing, plays what an arpeggiator with a memory plays. *)
(***************************************************************************)
EXTENDS StepEvaluation, FiniteSetTheorems, TLAPS

(* The loop over the children of a step, and that over the links of a chain. *)
NotesFold == INSTANCE Folding WITH Op <- AddChild

ReplayLink(previous, g, s, x, y) == Replay(previous, g, s)
PreFold == INSTANCE Folding WITH Op <- ReplayLink

-----------------------------------------------------------------------------
(* Numbers, counts and lanes.                                                *)

(* Division with remainder, as the provers know it.                          *)
LEMMA Division ==
  ASSUME NEW a \in Int, NEW b \in Nat \ {0}
  PROVE  /\ a \div b \in Int /\ a % b \in 0 .. b - 1
         /\ a = b * (a \div b) + (a % b)
OBVIOUS

(* A quotient and a remainder in range are the only ones.                    *)
LEMMA Quotient ==
  ASSUME NEW a \in Int, NEW b \in Nat \ {0}, NEW q \in Int, NEW r \in 0 .. b - 1, a = b * q + r
  PROVE  a \div b = q /\ a % b = r
OBVIOUS

(* Whole turns change no remainder.                                          *)
LEMMA Turns ==
  ASSUME NEW a \in Int, NEW b \in Nat \ {0}, NEW c \in Int
  PROVE  (a + b * c) % b = a % b
<1>1. a \div b \in Int /\ a % b \in 0 .. b - 1 /\ a = b * (a \div b) + (a % b)
  BY Division
<1>2. a + b * c = b * ((a \div b) + c) + (a % b)
  BY <1>1
<1>3. (a \div b) + c \in Int /\ a + b * c \in Int
  BY <1>1
<1>4. QED
  <2> DEFINE x == a + b * c
             q == (a \div b) + c
             r == a % b
  <2>1. x \in Int /\ q \in Int /\ r \in 0 .. b - 1 /\ x = b * q + r
    BY <1>1, <1>2, <1>3
  <2> HIDE DEF x, q
  <2>2. x % b = r
    BY <2>1, Quotient
  <2>3. QED
    BY <2>2 DEF x

(* Products of natural numbers are natural numbers.                          *)
LEMMA ProductIsNat ==
  ASSUME NEW x \in Nat, NEW y \in Nat
  PROVE  x * y \in Nat
OBVIOUS

(* One more element counts one more.                                         *)
LEMMA OneMore ==
  ASSUME NEW S, NEW x, IsFiniteSet(S), x \notin S
  PROVE  IsFiniteSet(S \union {x}) /\ Cardinality(S \union {x}) = Cardinality(S) + 1
<1>1. Cardinality(S \union {x}) = IF x \in S THEN Cardinality(S) ELSE Cardinality(S) + 1
  BY FS_AddElement, Zenon
<1>2. IsFiniteSet(S \union {x})
  BY FS_AddElement, Zenon
<1>3. QED
  BY <1>1, <1>2

(* How many elements one, two and three different values are.                *)
LEMMA OneOf == ASSUME NEW a PROVE Cardinality({a}) = 1 /\ IsFiniteSet({a})
BY FS_Singleton

LEMMA TwoOf == ASSUME NEW a, NEW b, a # b PROVE Cardinality({a, b}) = 2 /\ IsFiniteSet({a, b})
<1>1. {a, b} = {a} \union {b} /\ b \notin {a}
  OBVIOUS
<1>2. Cardinality({a} \union {b}) = Cardinality({a}) + 1 /\ IsFiniteSet({a} \union {b})
  BY <1>1, OneOf, OneMore
<1>3. QED
  BY <1>1, <1>2, OneOf

LEMMA ThreeOf ==
  ASSUME NEW a, NEW b, NEW c, a # b, a # c, b # c
  PROVE  Cardinality({a, b, c}) = 3
<1>1. {a, b, c} = {a, b} \union {c} /\ c \notin {a, b}
  OBVIOUS
<1>2. Cardinality({a, b} \union {c}) = Cardinality({a, b}) + 1
  BY <1>1, TwoOf, OneMore
<1>3. QED
  BY <1>1, <1>2, TwoOf

(* A lane plays a value of its range on every step of the timeline, one of   *)
(* its own steps.                                                            *)
LEMMA LaneHolds ==
  ASSUME NEW range, NEW lane \in Lanes(range), NEW g \in Int
  PROVE  LaneIndex(lane, g) \in 0 .. lane.length - 1 /\ LaneValueAt(lane, g) \in range
<1>1. /\ lane.length \in 1 .. MaxSteps /\ lane.division \in Nat \ {0}
      /\ lane.values \in [0 .. MaxSteps - 1 -> range]
  BY DEF Lanes
<1> DEFINE tick == g \div lane.division
           len == lane.length
<1>2. tick \in Int
  BY <1>1, Division
<1>3. len \in Nat \ {0} /\ len <= MaxSteps
  BY <1>1, EuclidAssumption
<1>4. tick % len \in 0 .. len - 1
  <2> HIDE DEF tick, len
  <2>1. QED
    BY <1>2, <1>3, Division
<1>5. LaneIndex(lane, g) \in 0 .. len - 1
  BY <1>4 DEF LaneIndex
<1>6. LaneIndex(lane, g) \in 0 .. MaxSteps - 1
  BY <1>3, <1>5, EuclidAssumption
<1>7. QED
  BY <1>1, <1>5, <1>6 DEF LaneValueAt

-----------------------------------------------------------------------------
(* Traversal orders.                                                         *)

(* The modes whose entries the hash chooses.                                 *)
RandomModes == {"walk", "randomNoRepeat"}

(* A table follows the formula of its mode. *)
Follows(m, n, table) ==
  /\ DOMAIN table = 1 .. TraversalPeriod(m, n) /\ Len(table) = TraversalPeriod(m, n)
  /\ \A k \in 1 .. TraversalPeriod(m, n) : table[k] = FixedEntry(m, n, k - 1)

(* A note at one place of a table, and nowhere else.                         *)
LEMMA OnceAt ==
  ASSUME NEW table, NEW note, NEW n \in Nat, DOMAIN table = 1 .. n, NEW at \in 1 .. n,
         \A k \in 1 .. n : table[k] = note <=> k = at
  PROVE  Times(table, note) = 1
<1>1. {k \in DOMAIN table : table[k] = note} = {at}
  OBVIOUS
<1>2. QED
  BY <1>1, OneOf DEF Times

(* A note at two places of a table.                                          *)
LEMMA TwiceAt ==
  ASSUME NEW table, NEW note, NEW n \in Nat, DOMAIN table = 1 .. n,
         NEW at \in 1 .. n, NEW other \in 1 .. n, at # other,
         \A k \in 1 .. n : table[k] = note <=> k = at \/ k = other
  PROVE  Times(table, note) = 2
<1>1. {k \in DOMAIN table : table[k] = note} = {at, other}
  OBVIOUS
<1>2. Cardinality({at, other}) = 2
  BY TwoOf
<1>3. QED
  BY <1>1, <1>2 DEF Times

(* From the ends inwards, each note has its turn once.                       *)
LEMMA ConvergeAt ==
  ASSUME NEW n \in Nat, n > 1, NEW note \in 0 .. n - 1
  PROVE  \E at \in 0 .. n - 1 : \A j \in 0 .. n - 1 : ConvergeIndex(n, j) = note <=> j = at
<1> DEFINE at == IF 2 * note < n THEN 2 * note ELSE 2 * (n - 1 - note) + 1
<1>1. at \in 0 .. n - 1
  OBVIOUS
<1>2. ASSUME NEW j \in 0 .. n - 1 PROVE ConvergeIndex(n, j) = note <=> j = at
  <2>1. CASE j % 2 = 0
    <3>1. ConvergeIndex(n, j) = j \div 2 /\ j = 2 * (j \div 2)
      BY <2>1 DEF ConvergeIndex
    <3>2. QED
      BY <3>1
  <2>2. CASE j % 2 # 0
    <3>1. ConvergeIndex(n, j) = n - 1 - (j \div 2) /\ j = 2 * (j \div 2) + 1
      BY <2>2 DEF ConvergeIndex
    <3>2. QED
      BY <3>1
  <2>3. QED
    BY <2>1, <2>2
<1>3. QED
  BY <1>1, <1>2

(* Modes of one pass play each note once.                                    *)
LEMMA OnceEach ==
  ASSUME NEW n \in Nat, n > 1, NEW table, NEW note \in 0 .. n - 1,
         NEW m \in {"up", "asPlayed", "down", "converge", "diverge"}, Follows(m, n, table)
  PROVE  Times(table, note) = 1 /\ Len(table) = n
<1>1. TraversalPeriod(m, n) = n
  BY DEF TraversalPeriod
<1>2. DOMAIN table = 1 .. n /\ Len(table) = n /\ \A k \in 1 .. n : table[k] = FixedEntry(m, n, k - 1)
  BY <1>1 DEF Follows
<1>3. SUFFICES \E at \in 1 .. n : \A k \in 1 .. n : table[k] = note <=> k = at
  BY <1>2, OnceAt
<1>4. CASE m \in {"up", "asPlayed"}
  <2>1. \A k \in 1 .. n : table[k] = k - 1
    BY <1>2, <1>4 DEF FixedEntry
  <2>2. note + 1 \in 1 .. n /\ \A k \in 1 .. n : table[k] = note <=> k = note + 1
    BY <2>1
  <2>3. QED
    BY <2>2
<1>5. CASE m = "down"
  <2>1. \A k \in 1 .. n : table[k] = n - 1 - (k - 1)
    BY <1>2, <1>5 DEF FixedEntry
  <2>2. n - note \in 1 .. n /\ \A k \in 1 .. n : table[k] = note <=> k = n - note
    BY <2>1
  <2>3. QED
    BY <2>2
<1>6. PICK at \in 0 .. n - 1 : \A j \in 0 .. n - 1 : ConvergeIndex(n, j) = note <=> j = at
  BY ConvergeAt
<1>7. CASE m = "converge"
  <2>1. \A k \in 1 .. n : table[k] = ConvergeIndex(n, k - 1)
    BY <1>2, <1>7 DEF FixedEntry
  <2>2. at + 1 \in 1 .. n /\ \A k \in 1 .. n : table[k] = note <=> k = at + 1
    BY <2>1, <1>6
  <2>3. QED
    BY <2>2
<1>8. CASE m = "diverge"
  <2>1. \A k \in 1 .. n : table[k] = ConvergeIndex(n, n - 1 - (k - 1))
    BY <1>2, <1>8 DEF FixedEntry
  <2>2. \A k \in 1 .. n : n - 1 - (k - 1) = n - k /\ n - k \in 0 .. n - 1
    OBVIOUS
  <2>3. n - at \in 1 .. n /\ \A k \in 1 .. n : table[k] = note <=> k = n - at
    <3>1. \A k \in 1 .. n : table[k] = note <=> n - k = at
      BY <2>1, <2>2, <1>6
    <3>2. QED
      BY <3>1
  <2>4. QED
    BY <2>3
<1>9. QED
  BY <1>4, <1>5, <1>7, <1>8

(* Modes there and back play each note twice.                                *)
LEMMA TwiceEach ==
  ASSUME NEW n \in Nat, n > 1, NEW table, NEW note \in 0 .. n - 1,
         NEW m \in {"upDownInclusive", "outsideIn"}, Follows(m, n, table)
  PROVE  Times(table, note) = 2 /\ Len(table) = 2 * n
<1>1. TraversalPeriod(m, n) = 2 * n
  BY DEF TraversalPeriod
<1>2. /\ DOMAIN table = 1 .. 2 * n /\ Len(table) = 2 * n
      /\ \A k \in 1 .. 2 * n : table[k] = FixedEntry(m, n, k - 1)
  BY <1>1 DEF Follows
<1>3. SUFFICES \E at \in 0 .. n - 1 : \A k \in 1 .. 2 * n :
                 table[k] = note <=> k = at + 1 \/ k = 2 * n - at
  <2>1. PICK at \in 0 .. n - 1 : \A k \in 1 .. 2 * n :
               table[k] = note <=> k = at + 1 \/ k = 2 * n - at
    BY <1>3
  <2>2. at + 1 \in 1 .. 2 * n /\ 2 * n - at \in 1 .. 2 * n /\ at + 1 # 2 * n - at /\ 2 * n \in Nat
    OBVIOUS
  <2>3. QED
    BY <1>2, <2>1, <2>2, TwiceAt
<1>4. CASE m = "upDownInclusive"
  <2>1. \A k \in 1 .. 2 * n : table[k] = IF k - 1 < n THEN k - 1 ELSE 2 * n - 1 - (k - 1)
    BY <1>2, <1>4 DEF FixedEntry
  <2>2. \A k \in 1 .. 2 * n : table[k] = note <=> k = note + 1 \/ k = 2 * n - note
    BY <2>1
  <2>3. QED
    BY <2>2
<1>5. CASE m = "outsideIn"
  <2>1. PICK at \in 0 .. n - 1 : \A j \in 0 .. n - 1 : ConvergeIndex(n, j) = note <=> j = at
    BY ConvergeAt
  <2>2. \A k \in 1 .. 2 * n :
          table[k] = ConvergeIndex(n, IF k - 1 < n THEN k - 1 ELSE 2 * n - 1 - (k - 1))
    BY <1>2, <1>5 DEF FixedEntry
  <2>3. ASSUME NEW k \in 1 .. 2 * n PROVE table[k] = note <=> k = at + 1 \/ k = 2 * n - at
    <3>1. CASE k - 1 < n
      <4>1. table[k] = ConvergeIndex(n, k - 1) /\ k - 1 \in 0 .. n - 1
        BY <2>2, <3>1
      <4>2. QED
        BY <2>1, <3>1, <4>1
    <3>2. CASE k - 1 >= n
      <4>1. table[k] = ConvergeIndex(n, 2 * n - 1 - (k - 1)) /\ 2 * n - 1 - (k - 1) \in 0 .. n - 1
        BY <2>2, <3>2
      <4>2. QED
        BY <2>1, <3>2, <4>1
    <3>3. QED
      BY <3>1, <3>2
  <2>4. QED
    BY <2>3
<1>6. QED
  BY <1>4, <1>5

(* Rotating round a pool and back. *)
LEMMA Unwinds ==
  ASSUME NEW n \in Nat \ {0}, NEW a \in 0 .. n - 1, NEW b \in 0 .. n - 1, NEW r \in Int
  PROVE  (a + r) % n = b <=> a = (b - r) % n
<1>1. ASSUME (a + r) % n = b PROVE a = (b - r) % n
  <2> DEFINE x == a + r
             y == b - r
             q == -(x \div n)
  <2>1. x \in Int /\ y \in Int /\ x \div n \in Int /\ x = n * (x \div n) + b
    BY <1>1, Division
  <2>2. y = n * q + a /\ q \in Int
    BY <2>1
  <2> HIDE DEF y, q
  <2>3. y % n = a
    BY <2>1, <2>2, Quotient
  <2>4. QED
    BY <2>3 DEF y
<1>2. ASSUME a = (b - r) % n PROVE (a + r) % n = b
  <2> DEFINE x == a + r
             y == b - r
             q == -(y \div n)
  <2>1. x \in Int /\ y \in Int /\ y \div n \in Int /\ y = n * (y \div n) + a
    BY <1>2, Division
  <2>2. x = n * q + b /\ q \in Int
    BY <2>1
  <2> HIDE DEF x, q
  <2>3. x % n = b
    BY <2>1, <2>2, Quotient
  <2>4. QED
    BY <2>3 DEF x
<1>3. QED
  BY <1>1, <1>2

(* A spiral plays each note three times.                                     *)
LEMMA ThriceEach ==
  ASSUME NEW n \in Nat, n > 1, NEW table, NEW note \in 0 .. n - 1, Follows("spiral", n, table)
  PROVE  Times(table, note) = 3 /\ Len(table) = 3 * n
<1>1. TraversalPeriod("spiral", n) = 3 * n
  BY DEF TraversalPeriod
<1>2. /\ DOMAIN table = 1 .. 3 * n /\ Len(table) = 3 * n
      /\ \A k \in 1 .. 3 * n : table[k] = FixedEntry("spiral", n, k - 1)
  BY <1>1 DEF Follows
<1>3. \A k \in 1 .. 3 * n : table[k] = (((k - 1) \div 3) + ((k - 1) % 3)) % n
  BY <1>2 DEF FixedEntry
<1> DEFINE turn(r) == (note - r) % n
           at(r) == 3 * turn(r) + r + 1
<1>4. ASSUME NEW r \in 0 .. 2 PROVE turn(r) \in 0 .. n - 1
  <2> DEFINE x == note - r
  <2>1. x \in Int /\ n \in Nat \ {0}
    OBVIOUS
  <2> HIDE DEF x
  <2>2. x % n \in 0 .. n - 1
    BY <2>1, Division
  <2>3. QED
    BY <2>2 DEF x
<1>5. \A a \in 0 .. n - 1, r \in 0 .. 2 : (a + r) % n = note <=> a = turn(r)
  BY Unwinds
<1> HIDE DEF turn
<1>6. \A r \in 0 .. 2 : at(r) \in 1 .. 3 * n
  BY <1>4
<1>7. at(0) # at(1) /\ at(0) # at(2) /\ at(1) # at(2)
  BY <1>4
<1>8. ASSUME NEW k \in 1 .. 3 * n
      PROVE  table[k] = note <=> k = at(0) \/ k = at(1) \/ k = at(2)
  <2> DEFINE a == (k - 1) \div 3
             r == (k - 1) % 3
  <2>1. a \in 0 .. n - 1 /\ r \in 0 .. 2 /\ k = 3 * a + r + 1
    OBVIOUS
  <2>2. table[k] = (a + r) % n
    BY <1>3
  <2> HIDE DEF a, r
  <2>3. table[k] = note <=> a = turn(r)
    BY <2>1, <2>2, <1>5
  <2>4. table[k] = note <=> k = at(r)
    BY <2>1, <2>3, <1>4
  <2>5. \A x \in 0 .. 2 : k = at(x) => x = r
    BY <2>1, <1>4
  <2>6. r = 0 \/ r = 1 \/ r = 2
    BY <2>1
  <2>7. QED
    BY <2>4, <2>5, <2>6
<1> DEFINE a == at(0)
           b == at(1)
           c == at(2)
           last == 3 * n
<1>9. /\ last \in Nat /\ DOMAIN table = 1 .. last
      /\ a \in 1 .. last /\ b \in 1 .. last /\ c \in 1 .. last /\ a # b /\ a # c /\ b # c
      /\ \A k \in 1 .. last : table[k] = note <=> k = a \/ k = b \/ k = c
  BY <1>2, <1>6, <1>7, <1>8
<1> HIDE DEF a, b, c, last
<1>10. Times(table, note) = 3
  <2>1. {k \in DOMAIN table : table[k] = note} = {a, b, c}
    BY <1>9
  <2>2. Cardinality({a, b, c}) = 3
    BY <1>9, ThreeOf
  <2>3. QED
    BY <2>1, <2>2 DEF Times
<1>11. QED
  BY <1>2, <1>10

(* The entries of each mode are notes of the pool.                           *)
LEMMA ConvergeInRange ==
  ASSUME NEW n \in Nat, n > 1, NEW j \in 0 .. n - 1
  PROVE  ConvergeIndex(n, j) \in 0 .. n - 1
BY DEF ConvergeIndex

LEMMA EntryInRange ==
  ASSUME NEW n \in Nat, n > 1, NEW m \in DirectionModes \ RandomModes,
         NEW j \in 0 .. TraversalPeriod(m, n) - 1
  PROVE  FixedEntry(m, n, j) \in 0 .. n - 1
<1>1. CASE m \in {"up", "asPlayed"}
  BY <1>1 DEF FixedEntry, TraversalPeriod
<1>2. CASE m = "down"
  BY <1>2 DEF FixedEntry, TraversalPeriod
<1>3. CASE m = "upDownInclusive"
  BY <1>3 DEF FixedEntry, TraversalPeriod
<1>4. CASE m = "upDownExclusive"
  BY <1>4 DEF FixedEntry, TraversalPeriod
<1>5. CASE m = "converge"
  <2>1. FixedEntry(m, n, j) = ConvergeIndex(n, j) /\ j \in 0 .. n - 1
    BY <1>5 DEF FixedEntry, TraversalPeriod
  <2>2. QED
    BY <2>1, ConvergeInRange
<1>6. CASE m = "diverge"
  <2>1. FixedEntry(m, n, j) = ConvergeIndex(n, n - 1 - j) /\ n - 1 - j \in 0 .. n - 1
    BY <1>6 DEF FixedEntry, TraversalPeriod
  <2>2. QED
    BY <2>1, ConvergeInRange
<1>7. CASE m = "outsideIn"
  <2> DEFINE i == IF j < n THEN j ELSE 2 * n - 1 - j
  <2>1. FixedEntry(m, n, j) = ConvergeIndex(n, i) /\ i \in 0 .. n - 1
    BY <1>7 DEF FixedEntry, TraversalPeriod
  <2>2. QED
    BY <2>1, ConvergeInRange
<1>8. CASE m = "spiral"
  <2> DEFINE i == (j \div 3) + (j % 3)
  <2>1. FixedEntry(m, n, j) = i % n /\ i \in Int /\ n \in Nat \ {0}
    BY <1>8 DEF FixedEntry, TraversalPeriod
  <2> HIDE DEF i
  <2>2. i % n \in 0 .. n - 1
    BY <2>1, Division
  <2>3. QED
    BY <2>1, <2>2
<1>9. QED
  BY <1>1, <1>2, <1>3, <1>4, <1>5, <1>6, <1>7, <1>8 DEF DirectionModes, RandomModes

(* There and back without the turning points: no note twice in a row.        *)
LEMMA ExclusiveNeverTwice ==
  ASSUME NEW n \in Nat, n > 1, NEW table, Follows("upDownExclusive", n, table)
  PROVE  NeverTwice(table)
<1>1. TraversalPeriod("upDownExclusive", n) = 2 * n - 2
  BY DEF TraversalPeriod
<1> DEFINE last == 2 * n - 2
<1>2. /\ DOMAIN table = 1 .. last /\ Len(table) = last
      /\ \A k \in 1 .. last : table[k] = IF k - 1 < n THEN k - 1 ELSE 2 * n - 2 - (k - 1)
  BY <1>1 DEF Follows, FixedEntry
<1>3. ASSUME NEW k \in 1 .. last PROVE table[k] # table[1 + (k % last)]
  <2>1. CASE k < last
    <3>1. k % last = k
      BY <2>1
    <3>2. k + 1 \in 1 .. last
      BY <2>1
    <3>3. table[k] # table[k + 1]
      BY <1>2, <3>2
    <3>4. QED
      BY <3>1, <3>3
  <2>2. CASE k = last
    <3>1. k % last = 0
      BY <2>2
    <3>2. 1 \in 1 .. last
      OBVIOUS
    <3>3. table[k] # table[1]
      BY <1>2, <2>2, <3>2
    <3>4. QED
      BY <3>1, <3>3
  <2>3. QED
    BY <2>1, <2>2
<1>4. QED
  BY <1>2, <1>3 DEF NeverTwice

(* There and back with the turning points: the same from both ends.          *)
LEMMA BackAndForth ==
  ASSUME NEW n \in Nat, n > 1, NEW table, NEW m \in {"upDownInclusive", "outsideIn"},
         Follows(m, n, table)
  PROVE  Palindrome(table)
<1>1. TraversalPeriod(m, n) = 2 * n
  BY DEF TraversalPeriod
<1>2. /\ DOMAIN table = 1 .. 2 * n /\ Len(table) = 2 * n
      /\ \A k \in 1 .. 2 * n : table[k] = FixedEntry(m, n, k - 1)
  BY <1>1 DEF Follows
<1>3. ASSUME NEW k \in 1 .. 2 * n PROVE table[k] = table[2 * n + 1 - k]
  <2> DEFINE j == 2 * n + 1 - k
             Fold1(i) == IF i < n THEN i ELSE 2 * n - 1 - i
  <2>1. j \in 1 .. 2 * n /\ Fold1(k - 1) = Fold1(j - 1)
    OBVIOUS
  <2>2. CASE m = "upDownInclusive"
    <3>1. table[k] = Fold1(k - 1) /\ table[j] = Fold1(j - 1)
      BY <1>2, <2>1, <2>2 DEF FixedEntry
    <3>2. QED
      BY <2>1, <3>1
  <2>3. CASE m = "outsideIn"
    <3>1. table[k] = ConvergeIndex(n, Fold1(k - 1)) /\ table[j] = ConvergeIndex(n, Fold1(j - 1))
      BY <1>2, <2>1, <2>3 DEF FixedEntry
    <3>2. QED
      BY <2>1, <3>1
  <2>4. QED
    BY <2>2, <2>3
<1>4. QED
  BY <1>2, <1>3 DEF Palindrome

(* Each entry from the ends inwards is no farther from the middle.           *)
LEMMA ConvergesInwards ==
  ASSUME NEW n \in Nat, n > 1, NEW j \in 0 .. n - 2
  PROVE  Distance(2 * ConvergeIndex(n, j), n - 1) >= Distance(2 * ConvergeIndex(n, j + 1), n - 1)
<1>1. CASE j % 2 = 0
  <2>1. /\ ConvergeIndex(n, j) = j \div 2 /\ j = 2 * (j \div 2)
        /\ ConvergeIndex(n, j + 1) = n - 1 - (j \div 2)
    BY <1>1 DEF ConvergeIndex
  <2>2. QED
    BY <2>1 DEF Distance
<1>2. CASE j % 2 # 0
  <2>1. /\ ConvergeIndex(n, j) = n - 1 - (j \div 2) /\ j = 2 * (j \div 2) + 1
        /\ ConvergeIndex(n, j + 1) = (j \div 2) + 1
    BY <1>2 DEF ConvergeIndex
  <2>2. QED
    BY <2>1 DEF Distance
<1>3. QED
  BY <1>1, <1>2

LEMMA GoesInwards ==
  ASSUME NEW n \in Nat, n > 1, NEW table, Len(table) = n,
         \A k \in 1 .. n : table[k] = ConvergeIndex(n, k - 1)
  PROVE  Inwards(table, n)
<1>1. ASSUME NEW k \in 1 .. n - 1
      PROVE  Distance(2 * table[k], n - 1) >= Distance(2 * table[k + 1], n - 1)
  <2> DEFINE j == k - 1
  <2>1. j \in 0 .. n - 2 /\ table[k] = ConvergeIndex(n, j) /\ table[k + 1] = ConvergeIndex(n, j + 1)
    OBVIOUS
  <2>2. QED
    BY <2>1, ConvergesInwards
<1>2. QED
  BY <1>1 DEF Inwards

(* What each entry of a table owes to its place and to its neighbours. *)
TableInv ==
  /\ mode \in DirectionModes /\ size \in Nat
  /\ out \in Seq(Int) /\ Len(out) <= TraversalPeriod(mode, size)
  /\ \A k \in 1 .. Len(out) : out[k] \in 0 .. size - 1
  /\ size > 1 =>
       /\ mode \notin RandomModes =>
            \A k \in 1 .. Len(out) : out[k] = FixedEntry(mode, size, k - 1)
       /\ mode = "walk" => \A k \in 1 .. Len(out) - 1 : Distance(out[k], out[k + 1]) = 1
       /\ mode = "randomNoRepeat" =>
            /\ \A k \in 1 .. Len(out) - 1 : out[k] # out[k + 1]
            /\ Len(out) = TraversalPeriod(mode, size) => out[Len(out)] # out[1]

(* The length of an order.                                                   *)
LEMMA PeriodIsNat ==
  ASSUME NEW m \in DirectionModes, NEW n \in Nat
  PROVE  TraversalPeriod(m, n) \in Nat /\ (n > 1 => TraversalPeriod(m, n) >= 2)
BY DEF TraversalPeriod, DirectionModes

(* The invariant of the table: at first it is empty.                         *)
LEMMA InitTable == Init => TableInv
<1> SUFFICES ASSUME Init PROVE TableInv
  OBVIOUS
<1>1. mode \in DirectionModes /\ size \in Nat /\ out = << >>
  BY PoolSizesAssumption DEF Init
<1>2. out \in Seq(Int) /\ Len(out) = 0
  BY <1>1
<1>3. TraversalPeriod(mode, size) \in Nat /\ (size > 1 => TraversalPeriod(mode, size) # 0)
  BY <1>1, PeriodIsNat
<1>4. QED
  BY <1>1, <1>2, <1>3 DEF TableInv

(* Each entry keeps it, whatever the hash chooses.                           *)
LEMMA EntryKeepsTable == TableInv /\ BuildEntry => TableInv'
<1> SUFFICES ASSUME TableInv, BuildEntry PROVE TableInv'
  OBVIOUS
<1> DEFINE n == size
           last == Len(out)
<1>1. PICK entry \in NextEntries(mode, size, out) : out' = Append(out, entry)
  BY DEF BuildEntry
<1>2. mode' = mode /\ size' = size /\ mode \in DirectionModes /\ n \in Nat
  BY DEF BuildEntry, TableInv
<1>3. last \in Nat /\ last < TraversalPeriod(mode, n) /\ out \in Seq(Int)
  <2>1. TraversalPeriod(mode, n) \in Nat /\ out \in Seq(Int)
    BY <1>2, PeriodIsNat DEF TableInv
  <2>2. last # TraversalPeriod(mode, n) /\ last <= TraversalPeriod(mode, n)
    BY DEF BuildEntry, Complete, TableInv
  <2>3. last \in Nat
    BY <2>1
  <2>4. QED
    BY <2>1, <2>2, <2>3
<1>4. n # 0
  BY <1>2, <1>3 DEF TraversalPeriod
<1>5. CASE n = 1
  <2>1. entry = 0
    BY <1>1, <1>5 DEF NextEntries
  <2>2. out' \in Seq(Int) /\ Len(out') = last + 1
    BY <1>1, <1>3, <2>1
  <2>3. last + 1 <= TraversalPeriod(mode, n)
    BY <1>2, <1>3, PeriodIsNat
  <2>4. \A k \in 1 .. last + 1 : out'[k] \in 0 .. n - 1
    <3>1. \A k \in 1 .. last : out[k] \in 0 .. n - 1
      BY DEF TableInv
    <3>2. \A k \in 1 .. last + 1 : out'[k] = IF k = last + 1 THEN 0 ELSE out[k]
      BY <1>1, <1>3, <2>1
    <3>3. QED
      BY <1>3, <1>5, <3>1, <3>2
  <2>5. QED
    BY <1>2, <1>5, <2>2, <2>3, <2>4 DEF TableInv
<1>6. CASE n > 1
  <2>0. TraversalPeriod(mode, n) \in Nat /\ TraversalPeriod(mode, n) >= 2
    BY <1>2, <1>6, PeriodIsNat
  <2>1. \A k \in 1 .. last : out[k] \in 0 .. n - 1
    BY <1>6 DEF TableInv
  <2>2. SUFFICES
          /\ entry \in 0 .. n - 1
          /\ mode \notin RandomModes => entry = FixedEntry(mode, n, last)
          /\ mode = "walk" /\ last > 0 => Distance(out[last], entry) = 1
          /\ mode = "randomNoRepeat" /\ last > 0 =>
               /\ out[last] # entry
               /\ last + 1 = TraversalPeriod(mode, n) => entry # out[1]
    <3>0. entry \in Int
      BY <2>2
    <3>1. out' \in Seq(Int) /\ Len(out') = last + 1
      BY <1>1, <1>3, <3>0
    <3>2. \A k \in 1 .. last + 1 : out'[k] = IF k = last + 1 THEN entry ELSE out[k]
      BY <1>1, <1>3, <3>0
    <3>3. \A k \in 1 .. last + 1 : out'[k] \in 0 .. n - 1
      BY <2>1, <2>2, <3>2
    <3>4. ASSUME mode \notin RandomModes
          PROVE  \A k \in 1 .. last + 1 : out'[k] = FixedEntry(mode, n, k - 1)
      <4>1. \A k \in 1 .. last : out[k] = FixedEntry(mode, n, k - 1)
        BY <1>6, <3>4 DEF TableInv
      <4>2. entry = FixedEntry(mode, n, last)
        BY <2>2, <3>4
      <4>3. TAKE k \in 1 .. last + 1
      <4>4. CASE k = last + 1
        BY <1>3, <3>2, <4>2, <4>4
      <4>5. CASE k # last + 1
        <5>1. k \in 1 .. last
          BY <1>3, <4>5
        <5>2. QED
          BY <3>2, <4>1, <4>5, <5>1
      <4>6. QED
        BY <4>4, <4>5
    <3>5. ASSUME mode = "walk" PROVE \A k \in 1 .. last : Distance(out'[k], out'[k + 1]) = 1
      <4>1. \A k \in 1 .. last - 1 : Distance(out[k], out[k + 1]) = 1
        BY <1>6, <3>5 DEF TableInv
      <4>2. last > 0 => Distance(out[last], entry) = 1
        BY <2>2, <3>5
      <4>3. TAKE k \in 1 .. last
      <4>4. CASE k = last
        <5>1. out'[k] = out[last] /\ out'[k + 1] = entry /\ last > 0
          BY <1>3, <3>2, <4>4
        <5>2. QED
          BY <4>2, <5>1
      <4>5. CASE k # last
        <5>1. k \in 1 .. last - 1 /\ out'[k] = out[k] /\ out'[k + 1] = out[k + 1]
          BY <1>3, <3>2, <4>5
        <5>2. QED
          BY <4>1, <5>1
      <4>6. QED
        BY <4>4, <4>5
    <3>6. ASSUME mode = "randomNoRepeat"
          PROVE  /\ \A k \in 1 .. last : out'[k] # out'[k + 1]
                 /\ last + 1 = TraversalPeriod(mode, n) => out'[last + 1] # out'[1]
      <4>1. \A k \in 1 .. last - 1 : out[k] # out[k + 1]
        BY <1>6, <3>6 DEF TableInv
      <4>2. \A k \in 1 .. last : out'[k] # out'[k + 1]
        BY <1>3, <2>2, <3>2, <3>6, <4>1
      <4>3. ASSUME last + 1 = TraversalPeriod(mode, n) PROVE out'[last + 1] # out'[1]
        <5>1. last > 0
          BY <1>3, <2>0, <4>3
        <5>2. out'[last + 1] = entry /\ out'[1] = out[1]
          BY <1>3, <3>2, <5>1
        <5>3. entry # out[1]
          BY <2>2, <3>6, <4>3, <5>1
        <5>4. QED
          BY <5>2, <5>3
      <4>4. QED
        BY <4>2, <4>3
    <3>7. last + 1 <= TraversalPeriod(mode, n) /\ (last + 1) - 1 = last
      BY <1>3, <2>0
    <3>8. QED
      BY <1>2, <1>6, <3>1, <3>3, <3>4, <3>5, <3>6, <3>7 DEF TableInv
  <2>3. CASE mode \notin RandomModes
    <3>1. entry = FixedEntry(mode, n, last)
      BY <1>1, <1>6, <2>3 DEF NextEntries, RandomModes
    <3>2. last \in 0 .. TraversalPeriod(mode, n) - 1 /\ mode \in DirectionModes \ RandomModes
      BY <1>2, <1>3, <2>0, <2>3
    <3>3. entry \in 0 .. n - 1
      BY <1>2, <1>6, <3>1, <3>2, EntryInRange
    <3>4. QED
      BY <2>3, <3>1, <3>3 DEF RandomModes
  <2>4. CASE mode = "walk"
    <3>1. entry \in WalkEntries(n, out)
      BY <1>1, <1>6, <2>4 DEF NextEntries
    <3>2. CASE out = << >>
      <4>1. entry = n \div 2 /\ last = 0
        BY <3>1, <3>2 DEF WalkEntries
      <4>2. QED
        BY <1>2, <1>6, <2>4, <4>1 DEF RandomModes
    <3>3. CASE out # << >>
      <4> DEFINE c == out[last]
      <4>1. last > 0
        BY <1>3, <3>3
      <4>2. c \in 0 .. n - 1
        BY <2>1, <1>3, <4>1
      <4>3. entry = (IF c + 1 > n - 1 THEN n - 2 ELSE c + 1) \/ entry = (IF c - 1 < 0 THEN 1 ELSE c - 1)
        BY <3>1, <3>3 DEF WalkEntries
      <4> HIDE DEF c
      <4>4. entry \in 0 .. n - 1 /\ Distance(c, entry) = 1
        BY <1>2, <1>6, <4>2, <4>3 DEF Distance
      <4>5. QED
        BY <2>4, <4>4 DEF RandomModes, c
    <3>4. QED
      BY <3>2, <3>3
  <2>5. CASE mode = "randomNoRepeat"
    <3>1. entry \in RandomEntries(n, out)
      BY <1>1, <1>6, <2>5 DEF NextEntries
    <3>2. CASE out = << >>
      <4>1. entry \in 0 .. n - 1 /\ last = 0
        BY <3>1, <3>2 DEF RandomEntries
      <4>2. QED
        BY <2>5, <4>1 DEF RandomModes
    <3>3. CASE out # << >>
      <4> DEFINE previous == out[last]
                 closing == last = TraversalPeriod("randomNoRepeat", n) - 1
                 allowed == (0 .. n - 1) \ ({previous} \union (IF closing THEN {out[1]} ELSE {}))
      <4>1. entry \in IF allowed = {} THEN {(previous + 1) % n} ELSE allowed
        BY <3>1, <3>3 DEF RandomEntries
      <4>2. last > 0 /\ previous \in 0 .. n - 1 /\ out[1] \in 0 .. n - 1
        BY <1>3, <3>3, <2>1
      <4>3. allowed # {}
        <5>1. CASE n = 2 /\ closing
          <6>1. n = 2 /\ last = 7
            BY <5>1 DEF TraversalPeriod
          <6>2. \A k \in 1 .. 6 : out[k] # out[k + 1]
            BY <1>6, <2>5, <6>1 DEF TableInv
          <6>3. \A k \in 1 .. 7 : out[k] = 0 \/ out[k] = 1
            <7>1. \A k \in 1 .. 7 : out[k] \in 0 .. 1
              BY <2>1, <6>1
            <7>2. QED
              BY <7>1
          <6>4. out[7] = out[1]
            BY <6>2, <6>3
          <6>5. PICK x \in {0, 1} : x # out[1]
            OBVIOUS
          <6>6. x \in 0 .. n - 1 /\ x # previous
            BY <6>1, <6>4, <6>5
          <6>7. QED
            BY <6>5, <6>6
        <5>2. CASE n = 2 /\ ~ closing
          <6>1. allowed = (0 .. 1) \ {previous}
            BY <5>2
          <6>2. QED
            BY <6>1
        <5>3. CASE n # 2
          <6>1. 0 \in 0 .. n - 1 /\ 1 \in 0 .. n - 1 /\ 2 \in 0 .. n - 1
            BY <1>2, <1>6, <5>3
          <6>2. PICK x \in {0, 1, 2} : x # previous /\ x # out[1]
            OBVIOUS
          <6>3. x \in allowed
            BY <6>1, <6>2
          <6>4. QED
            BY <6>3
        <5>4. QED
          BY <5>1, <5>2, <5>3
      <4>4. entry \in allowed
        BY <4>1, <4>3
      <4>5. last + 1 = TraversalPeriod(mode, n) => closing
        BY <1>3, <2>5
      <4>6. QED
        BY <2>5, <4>4, <4>5 DEF RandomModes
    <3>4. QED
      BY <3>2, <3>3
  <2>6. QED
    BY <2>3, <2>4, <2>5 DEF RandomModes
<1>7. QED
  BY <1>2, <1>4, <1>5, <1>6

(* Nothing else writes to the table.                                         *)
LEMMA NextTable == TableInv /\ [Next]_vars => TableInv'
<1> SUFFICES ASSUME TableInv, [Next]_vars PROVE TableInv'
  OBVIOUS
<1>1. CASE BuildEntry
  BY <1>1, EntryKeepsTable
<1>2. CASE UNCHANGED <<mode, size, out>>
  BY <1>2 DEF TableInv, Complete
<1>3. QED
  BY <1>1, <1>2
     DEF Next, vars, documentVars, ApplyEuclid, Publish, PlayStep, StepBack, SetFillHeld

(* A finished table that owes nothing has the shape of its mode.             *)
LEMMA TableHasShape == TableInv => TraversalShape
<1> SUFFICES ASSUME TableInv, Complete, size > 1
             PROVE  /\ \A k \in DOMAIN out : out[k] \in 0 .. size - 1
                    /\ mode \notin {"walk", "randomNoRepeat", "upDownExclusive"} =>
                         \A note \in 0 .. size - 1 : Times(out, note) * size = Len(out)
                    /\ mode \in {"upDownExclusive", "randomNoRepeat"} => NeverTwice(out)
                    /\ mode \in {"upDownInclusive", "outsideIn"} => Palindrome(out)
                    /\ mode = "converge" => Inwards(out, size)
                    /\ mode = "diverge" => Inwards(Reverse(out), size)
                    /\ mode = "walk" => \A k \in 1 .. Len(out) - 1 : Distance(out[k], out[k + 1]) = 1
  BY DEF TraversalShape
<1>1. mode \in DirectionModes /\ size \in Nat /\ out \in Seq(Int) /\ Len(out) \in Nat
  BY DEF TableInv
<1>2. DOMAIN out = 1 .. Len(out) /\ Len(out) = TraversalPeriod(mode, size)
  BY <1>1 DEF Complete
<1>3. mode \notin RandomModes => Follows(mode, size, out)
  BY <1>2 DEF TableInv, Follows
<1>4. \A k \in DOMAIN out : out[k] \in 0 .. size - 1
  BY <1>2 DEF TableInv
<1>5. ASSUME mode \notin {"walk", "randomNoRepeat", "upDownExclusive"}, NEW note \in 0 .. size - 1
      PROVE  Times(out, note) * size = Len(out)
  <2>1. Follows(mode, size, out)
    BY <1>3, <1>5 DEF RandomModes
  <2>2. CASE mode \in {"up", "asPlayed", "down", "converge", "diverge"}
    <3>1. Times(out, note) = 1 /\ Len(out) = size
      BY <1>1, <2>1, <2>2, OnceEach
    <3>2. QED
      BY <1>1, <3>1
  <2>3. CASE mode \in {"upDownInclusive", "outsideIn"}
    <3>1. Times(out, note) = 2 /\ Len(out) = 2 * size
      BY <1>1, <2>1, <2>3, TwiceEach
    <3>2. QED
      BY <1>1, <3>1
  <2>4. CASE mode = "spiral"
    <3>1. Times(out, note) = 3 /\ Len(out) = 3 * size
      BY <1>1, <2>1, <2>4, ThriceEach
    <3>2. QED
      BY <1>1, <3>1
  <2>5. QED
    BY <1>1, <1>5, <2>2, <2>3, <2>4 DEF DirectionModes
<1>6. CASE mode = "upDownExclusive"
  <2>1. NeverTwice(out)
    BY <1>1, <1>3, <1>6, ExclusiveNeverTwice DEF RandomModes
  <2>2. QED
    BY <1>4, <1>6, <2>1
<1>7. ASSUME mode = "randomNoRepeat" PROVE NeverTwice(out)
  <2> DEFINE last == Len(out)
  <2>1. /\ \A k \in 1 .. last - 1 : out[k] # out[k + 1]
        /\ out[last] # out[1]
    BY <1>2, <1>7 DEF TableInv
  <2>2. ASSUME NEW k \in 1 .. last PROVE out[k] # out[1 + (k % last)]
    <3>1. CASE k = last
      <4>1. k % last = 0
        BY <1>1, <3>1
      <4>2. QED
        BY <2>1, <3>1, <4>1
    <3>2. CASE k # last
      <4>1. k % last = k /\ k \in 1 .. last - 1
        BY <1>1, <3>2
      <4>2. QED
        BY <2>1, <4>1
    <3>3. QED
      BY <3>1, <3>2
  <2>3. QED
    BY <1>2, <2>2 DEF NeverTwice
<1>8. ASSUME mode \in {"upDownInclusive", "outsideIn"} PROVE Palindrome(out)
  BY <1>1, <1>3, <1>8, BackAndForth DEF RandomModes
<1>9. ASSUME mode = "converge" PROVE Inwards(out, size)
  <2>1. Len(out) = size /\ \A k \in 1 .. size : out[k] = ConvergeIndex(size, k - 1)
    BY <1>1, <1>2, <1>3, <1>9 DEF Follows, FixedEntry, TraversalPeriod, RandomModes
  <2>2. QED
    BY <1>1, <2>1, GoesInwards
<1>10. ASSUME mode = "diverge" PROVE Inwards(Reverse(out), size)
  <2>1. Len(out) = size /\ \A k \in 1 .. size : out[k] = ConvergeIndex(size, size - 1 - (k - 1))
    BY <1>1, <1>2, <1>3, <1>10 DEF Follows, FixedEntry, TraversalPeriod, RandomModes
  <2>2. Reverse(out) = [k \in 1 .. size |-> out[(size - k) + 1]]
    BY <2>1 DEF Reverse
  <2>3. Len(Reverse(out)) = size
    BY <1>1, <2>2
  <2>4. ASSUME NEW k \in 1 .. size PROVE Reverse(out)[k] = ConvergeIndex(size, k - 1)
    <3> DEFINE j == (size - k) + 1
    <3>1. j \in 1 .. size /\ size - 1 - (j - 1) = k - 1
      BY <1>1
    <3>2. Reverse(out)[k] = out[j]
      BY <2>2
    <3>3. QED
      BY <2>1, <3>1, <3>2
  <2>5. QED
    BY <1>1, <2>3, <2>4, GoesInwards
<1>11. mode = "walk" => \A k \in 1 .. Len(out) - 1 : Distance(out[k], out[k + 1]) = 1
  BY DEF TableInv
<1>12. QED
  BY <1>4, <1>5, <1>6, <1>7, <1>8, <1>9, <1>10, <1>11

(* The order a snapshot is published with holds notes, one at least.         *)
LEMMA TableIsOrder ==
  ASSUME TableInv, Complete, size # 0
  PROVE  out \in Seq(Nat) /\ out # << >>
<1>1. /\ mode \in DirectionModes /\ size \in Nat /\ out \in Seq(Int)
      /\ \A k \in 1 .. Len(out) : out[k] \in 0 .. size - 1
  BY DEF TableInv
<1>2. \A k \in 1 .. Len(out) : out[k] \in Nat
  BY <1>1
<1>3. out \in Seq(Nat)
  BY <1>1, <1>2
<1>4. Len(out) # 0
  BY <1>1 DEF Complete, TraversalPeriod, DirectionModes
<1>5. QED
  BY <1>3, <1>4

(* Every finished table of every mode, for every size of the pool and        *)
(* whatever the hash chose, has the shape its mode promises.                 *)
THEOREM OrdersHaveTheirShape == Spec => []TraversalShape
<1>1. QED
  BY InitTable, NextTable, TableHasShape, PTL DEF Spec

-----------------------------------------------------------------------------
(* Euclidean rhythms.                                                        *)

(* How many pulses of Bresenham's line lie at or before a step. *)
Level(n, k, e) == (e * k) \div n

(* One step on the line adds a pulse where it passes a whole number.         *)
LEMMA OneStepOfLine ==
  ASSUME NEW n \in Nat \ {0}, NEW k \in 0 .. n, NEW a \in Int
  PROVE  a \div n = IF a % n < k THEN ((a - k) \div n) + 1 ELSE (a - k) \div n
<1> DEFINE q == a \div n
           r == a % n
           b == a - k
<1>1. q \in Int /\ r \in 0 .. n - 1 /\ a = n * q + r
  BY Division
<1>2. b \in Int
  OBVIOUS
<1>3. CASE r < k
  <2> DEFINE p == q - 1
             s == r - k + n
  <2>1. p \in Int /\ s \in 0 .. n - 1 /\ b = n * p + s
    BY <1>1, <1>3
  <2> HIDE DEF p, s, q, r, b
  <2>2. b \div n = p
    BY <1>2, <2>1, Quotient
  <2>3. QED
    BY <1>1, <1>3, <2>2 DEF p, b, q, r
<1>4. CASE ~ (r < k)
  <2> DEFINE s == r - k
  <2>1. s \in 0 .. n - 1 /\ b = n * q + s
    BY <1>1, <1>4
  <2> HIDE DEF s, q, r, b
  <2>2. b \div n = q
    BY <1>1, <1>2, <2>1, Quotient
  <2>3. QED
    BY <1>1, <1>4, <2>2 DEF b, q, r
<1>5. QED
  BY <1>3, <1>4

LEMMA LevelIsInt ==
  ASSUME NEW n \in Nat \ {0}, NEW k \in Int, NEW e \in Int
  PROVE  Level(n, k, e) \in Int
<1>1. e * k \in Int
  OBVIOUS
<1>2. QED
  BY <1>1, Division DEF Level

(* Where a euclidean rhythm strikes: where the line has just risen.          *)
LEMMA Struck ==
  ASSUME NEW n \in Nat \ {0}, NEW k \in 0 .. n, NEW e \in Int
  PROVE  Level(n, k, e) =
           IF ((e % n) * k) % n < k THEN Level(n, k, e - 1) + 1 ELSE Level(n, k, e - 1)
<1> DEFINE q == e \div n
           r == e % n
           a == e * k
           low == r * k
           turns == q * k
<1>1. q \in Int /\ r \in Int /\ e = n * q + r
  BY Division
<1>2. a \in Int /\ low \in Int /\ turns \in Int
  BY <1>1
<1>3. a = low + n * turns
  <2>1. (n * q + r) * k = r * k + n * (q * k)
    BY <1>1
  <2>2. QED
    BY <1>1, <2>1
<1>4. a % n = low % n
  <2> HIDE DEF a, low, turns
  <2>1. (low + n * turns) % n = low % n
    BY <1>2, Turns
  <2>2. QED
    BY <1>3, <2>1
<1>5. (e - 1) * k = a - k
  OBVIOUS
<1>6. a \div n = IF a % n < k THEN ((a - k) \div n) + 1 ELSE (a - k) \div n
  <2> HIDE DEF a
  <2>1. QED
    BY <1>2, OneStepOfLine
<1>7. QED
  BY <1>4, <1>5, <1>6 DEF Level

(* Rotations of a step that is rotated already. *)
LEMMA TurnTwice ==
  ASSUME NEW n \in Nat \ {0}, NEW a \in Int, NEW b \in Int
  PROVE  ((a % n) + b) % n = (a + b) % n /\ ((a % n) - b) % n = (a - b) % n /\ (a % n) % n = a % n
<1> DEFINE q == a \div n
           r == a % n
           x == r + b
           y == r - b
<1>1. q \in Int /\ r \in 0 .. n - 1 /\ a = n * q + r
  BY Division
<1>2. x \in Int /\ y \in Int /\ a + b = x + n * q /\ a - b = y + n * q
  BY <1>1
<1>3. (x + n * q) % n = x % n /\ (y + n * q) % n = y % n
  <2> HIDE DEF x, y, q
  <2>1. QED
    BY <1>1, <1>2, Turns
<1>4. r % n = r
  <2> HIDE DEF q, r
  <2>1. r = n * 0 + r /\ r \in Int
    BY <1>1
  <2>2. QED
    BY <1>1, <2>1, Quotient
<1>5. QED
  BY <1>2, <1>3, <1>4

(* A rhythm: k pulses over n steps, from a step s. *)
IsRhythm(lane, n, k, s) ==
  /\ lane.length = n
  /\ \A j \in 0 .. n - 1 :
       lane.values[j] = IF (((j - s) % n) * k) % n < k THEN 1 ELSE 0

(* A pulse of a rotated rhythm is a step of the line.                        *)
LEMMA PulseIsStep ==
  ASSUME NEW n \in Nat \ {0}, NEW k \in 0 .. n, NEW s \in Int, NEW lane, IsRhythm(lane, n, k, s),
         NEW g \in Int
  PROVE  Level(n, k, g - s) =
           IF lane.values[g % n] = 1 THEN Level(n, k, g - s - 1) + 1 ELSE Level(n, k, g - s - 1)
<1> DEFINE j == g % n
<1>1. j \in 0 .. n - 1
  BY Division
<1>2. (j - s) % n = (g - s) % n
  BY TurnTwice
<1>3. lane.values[j] = IF (((j - s) % n) * k) % n < k THEN 1 ELSE 0
  BY <1>1 DEF IsRhythm
<1> HIDE DEF j
<1>4. lane.values[j] = IF (((g - s) % n) * k) % n < k THEN 1 ELSE 0
  BY <1>2, <1>3
<1>5. g - s \in Int
  OBVIOUS
<1> DEFINE e == g - s
<1>6. Level(n, k, e) = IF ((e % n) * k) % n < k THEN Level(n, k, e - 1) + 1 ELSE Level(n, k, e - 1)
  <2> HIDE DEF e
  <2>1. QED
    BY <1>5, Struck DEF e
<1>7. QED
  BY <1>4, <1>6 DEF j

(* The pulses in a window are the levels the line has climbed. *)
LEMMA PulsesAreLevels ==
  ASSUME NEW n \in Nat \ {0}, NEW k \in 0 .. n, NEW s \in Int, NEW lane, IsRhythm(lane, n, k, s),
         NEW from \in Int, NEW width \in Nat
  PROVE  Pulses(lane, from, width) =
           Level(n, k, from - s + width - 1) - Level(n, k, from - s - 1)
<1> DEFINE hits(w) == {x \in 0 .. w - 1 : lane.values[(from + x) % n] = 1}
           top(w) == Level(n, k, from - s + w - 1)
           T == {w \in Nat : IsFiniteSet(hits(w)) /\ Cardinality(hits(w)) = top(w) - top(0)}
<1>1. ASSUME NEW w \in Nat PROVE top(w) \in Int
  <2> DEFINE e == from - s + w - 1
  <2>1. e \in Int /\ k \in Int
    OBVIOUS
  <2> HIDE DEF e
  <2>2. Level(n, k, e) \in Int
    BY <2>1, LevelIsInt
  <2>3. QED
    BY <2>2 DEF e
<1>2. 0 \in T
  <2>1. hits(0) = {}
    OBVIOUS
  <2>2. IsFiniteSet({}) /\ Cardinality({}) = 0
    BY FS_EmptySet
  <2>3. top(0) - top(0) = 0
    BY <1>1
  <2> HIDE DEF hits, top
  <2>4. QED
    BY <2>1, <2>2, <2>3
<1>3. ASSUME NEW w \in Nat, w \in T PROVE w + 1 \in T
  <2> DEFINE g == from + w
  <2>1. g \in Int /\ g - s = from - s + (w + 1) - 1 /\ g - s - 1 = from - s + w - 1
    OBVIOUS
  <2>2. Level(n, k, g - s) =
          IF lane.values[g % n] = 1 THEN Level(n, k, g - s - 1) + 1 ELSE Level(n, k, g - s - 1)
    <3> HIDE DEF g
    <3>1. QED
      BY <2>1, PulseIsStep
  <2>3. top(w + 1) = IF lane.values[g % n] = 1 THEN top(w) + 1 ELSE top(w)
    BY <2>1, <2>2
  <2>4. hits(w + 1) = IF lane.values[g % n] = 1 THEN hits(w) \union {w} ELSE hits(w)
    OBVIOUS
  <2>5. w \notin hits(w)
    OBVIOUS
  <2>6. top(w) \in Int /\ top(0) \in Int /\ top(w + 1) \in Int /\ w + 1 \in Nat
    <3>1. w + 1 \in Nat /\ 0 \in Nat
      OBVIOUS
    <3> HIDE DEF top
    <3>2. QED
      BY <1>1, <3>1
  <2>7. IsFiniteSet(hits(w)) /\ Cardinality(hits(w)) = top(w) - top(0)
    BY <1>3
  <2> HIDE DEF hits, top, g
  <2>8. /\ IsFiniteSet(hits(w) \union {w})
        /\ Cardinality(hits(w) \union {w}) = Cardinality(hits(w)) + 1
    BY <2>5, <2>7, OneMore
  <2>9. QED
    BY <2>3, <2>4, <2>6, <2>7, <2>8
<1>4. \A w \in 0 .. width : w \in T
  <2> HIDE DEF T
  <2>1. 0 \in T /\ \A w \in 0 .. width - 1 : w \in T => w + 1 \in T
    BY <1>2, <1>3
  <2>2. QED
    BY <2>1, NotesFold!Counting
<1>5. width \in T
  <2> HIDE DEF T
  <2>1. QED
    BY <1>4
<1>6. Pulses(lane, from, width) = Cardinality(hits(width))
  BY DEF Pulses, IsRhythm
<1>7. from - s + 0 - 1 = from - s - 1
  OBVIOUS
<1> HIDE DEF hits
<1>8. QED
  BY <1>5, <1>6, <1>7

(* A sum of two lines rises by the whole.                                    *)
LEMMA SumOfParts ==
  ASSUME NEW n \in Nat \ {0}, NEW a \in Int, NEW b \in Int
  PROVE  (a + b) \div n \in {(a \div n) + (b \div n), (a \div n) + (b \div n) + 1}
<1> DEFINE p == a \div n
           q == b \div n
           r == a % n
           s == b % n
           c == a + b
<1>1. p \in Int /\ r \in 0 .. n - 1 /\ a = n * p + r
  BY Division
<1>2. q \in Int /\ s \in 0 .. n - 1 /\ b = n * q + s
  BY Division
<1>3. CASE r + s < n
  <2> DEFINE x == p + q
             y == r + s
  <2>1. c \in Int /\ x \in Int /\ y \in 0 .. n - 1 /\ c = n * x + y
    BY <1>1, <1>2, <1>3
  <2> HIDE DEF c, x, y, p, q, r, s
  <2>2. c \div n = x
    BY <2>1, Quotient
  <2>3. QED
    BY <2>2 DEF c, x, p, q
<1>4. CASE ~ (r + s < n)
  <2> DEFINE x == p + q + 1
             y == r + s - n
  <2>1. c \in Int /\ x \in Int /\ y \in 0 .. n - 1 /\ c = n * x + y
    BY <1>1, <1>2, <1>4
  <2> HIDE DEF c, x, y, p, q, r, s
  <2>2. c \div n = x
    BY <2>1, Quotient
  <2>3. QED
    BY <2>2 DEF c, x, p, q
<1>5. QED
  BY <1>3, <1>4

(* Windows of the same length rise by the same, give or take one.            *)
LEMMA WindowOfLine ==
  ASSUME NEW n \in Nat \ {0}, NEW k \in 0 .. n, NEW e \in Int, NEW w \in Int
  PROVE  Level(n, k, e + w) - Level(n, k, e) \in {Level(n, k, w), Level(n, k, w) + 1}
<1> DEFINE a == e * k
           b == w * k
<1>1. a \in Int /\ b \in Int /\ (e + w) * k = a + b
  OBVIOUS
<1>2. (a + b) \div n \in {(a \div n) + (b \div n), (a \div n) + (b \div n) + 1}
  <2> HIDE DEF a, b
  <2>1. QED
    BY <1>1, SumOfParts
<1>3. a \div n \in Int /\ b \div n \in Int
  <2> HIDE DEF a, b
  <2>1. QED
    BY <1>1, Division
<1> HIDE DEF a, b
<1>4. (a + b) \div n - (a \div n) \in {b \div n, (b \div n) + 1}
  BY <1>2, <1>3
<1>5. QED
  BY <1>1, <1>4 DEF Level, a, b

(* So a euclidean rhythm is maximally even.                                  *)
LEMMA RhythmIsEven ==
  ASSUME NEW n \in Nat \ {0}, NEW k \in 0 .. n, NEW s \in Int, NEW lane, IsRhythm(lane, n, k, s)
  PROVE  MaximallyEven(lane) /\ Pulses(lane, 0, n) = k
<1>1. ASSUME NEW from \in Int, NEW width \in Nat
      PROVE  Pulses(lane, from, width) \in {Level(n, k, width), Level(n, k, width) + 1}
  <2> DEFINE e == from - s - 1
  <2>1. e \in Int /\ from - s + width - 1 = e + width /\ width \in Int
    OBVIOUS
  <2>2. Pulses(lane, from, width) = Level(n, k, from - s + width - 1) - Level(n, k, e)
    BY PulsesAreLevels
  <2> HIDE DEF e
  <2>3. Level(n, k, e + width) - Level(n, k, e) \in {Level(n, k, width), Level(n, k, width) + 1}
    BY <2>1, WindowOfLine
  <2>4. QED
    BY <2>1, <2>2, <2>3
<1>2. MaximallyEven(lane)
  <2>1. ASSUME NEW width \in 1 .. n, NEW a \in 0 .. n - 1, NEW b \in 0 .. n - 1
        PROVE  Pulses(lane, a, width) - Pulses(lane, b, width) \in {-1, 0, 1}
    <3>1. width \in Nat /\ a \in Int /\ b \in Int /\ width \in Int /\ k \in Int
      OBVIOUS
    <3>2. Pulses(lane, a, width) \in {Level(n, k, width), Level(n, k, width) + 1}
      BY <1>1, <3>1
    <3>3. Pulses(lane, b, width) \in {Level(n, k, width), Level(n, k, width) + 1}
      BY <1>1, <3>1
    <3>4. Level(n, k, width) \in Int
      BY <3>1, LevelIsInt
    <3>5. QED
      BY <3>2, <3>3, <3>4
  <2>2. QED
    BY <2>1 DEF MaximallyEven, IsRhythm
<1>3. Pulses(lane, 0, n) = k
  <2> DEFINE e == 0 - s - 1
             a == e * k
  <2>1. e \in Int /\ 0 - s + n - 1 = e + n /\ n \in Nat /\ 0 \in Int /\ a \in Int
    OBVIOUS
  <2>2. Pulses(lane, 0, n) = Level(n, k, 0 - s + n - 1) - Level(n, k, e)
    BY <2>1, PulsesAreLevels
  <2>3. (e + n) * k = a + n * k
    BY <2>1
  <2>4. (a + n * k) \div n = (a \div n) + k /\ a \div n \in Int
    <3> DEFINE q == a \div n
               r == a % n
               x == a + n * k
               y == q + k
    <3>1. q \in Int /\ r \in 0 .. n - 1 /\ a = n * q + r
      BY <2>1, Division
    <3>2. x \in Int /\ y \in Int /\ x = n * y + r
      <4> HIDE DEF a, q, r
      <4>1. QED
        BY <2>1, <3>1
    <3> HIDE DEF x, y, r, a, q
    <3>3. x \div n = y
      BY <3>1, <3>2, Quotient
    <3>4. QED
      BY <3>1, <3>3 DEF x, y, q
  <2>5. Level(n, k, e + n) = (a \div n) + k /\ Level(n, k, e) = a \div n
    BY <2>3, <2>4 DEF Level
  <2> HIDE DEF a, e
  <2>6. QED
    BY <2>1, <2>2, <2>4, <2>5
<1>4. QED
  BY <1>2, <1>3

(* A lane with a rhythm written into it. *)
HoldsRhythm(new, lane, steps, pulses, rotate) ==
  LET n == Clamped(steps, 1, MaxSteps)
  IN  /\ n \in Nat \ {0}
      /\ IsRhythm(new, n, Clamped(pulses, 0, n), rotate % n)
      /\ new.division = lane.division
      /\ DOMAIN new.values = 0 .. MaxSteps - 1
      /\ \A j \in 0 .. MaxSteps - 1 : j >= n => new.values[j] = lane.values[j]

(* applyToGateLane writes a euclidean rhythm, and nothing behind it.         *)
LEMMA AppliedIsRhythm ==
  ASSUME NEW lane \in Lanes(0 .. 1), NEW steps \in Int, NEW pulses \in Int, NEW rotate \in Int
  PROVE  HoldsRhythm(ApplyToGateLane(StoredParams(steps, pulses, rotate), lane),
                     lane, steps, pulses, rotate)
<1> DEFINE new == ApplyToGateLane(StoredParams(steps, pulses, rotate), lane)
           n == Clamped(steps, 1, MaxSteps)
           k == Clamped(pulses, 0, n)
           s == rotate % n
           rhythm == Generate(n, k, s)
<1>1. n \in 1 .. MaxSteps
  BY EuclidAssumption DEF Clamped
<1>2. k \in 0 .. n /\ Clamped(k, 0, n) = k
  <2> HIDE DEF n
  <2>1. k \in 0 .. n
    BY <1>1, EuclidAssumption DEF Clamped
  <2>2. ASSUME NEW x \in 0 .. n PROVE Clamped(x, 0, n) = x
    BY <1>1, EuclidAssumption DEF Clamped
  <2>3. QED
    BY <2>1, <2>2
<1>3. s \in 0 .. n - 1 /\ s % n = s
  <2> HIDE DEF n
  <2>1. n \in Nat \ {0}
    BY <1>1, EuclidAssumption
  <2>2. QED
    BY <2>1, Division, TurnTwice
<1>4. StoredParams(steps, pulses, rotate) = [enabled |-> TRUE, steps |-> n, pulses |-> k, rotate |-> s]
  BY DEF StoredParams
<1>5. new = [lane EXCEPT !.length = n,
                         !.values = [j \in DOMAIN @ |-> IF j < n THEN rhythm[j] ELSE @[j]]]
  <2> HIDE DEF n, k, s
  <2>1. ~ (n <= 0) /\ ~ (n > MaxSteps)
    BY <1>1, EuclidAssumption
  <2>2. QED
    BY <1>4, <2>1 DEF ApplyToGateLane
<1>6. rhythm = [j \in 0 .. n - 1 |-> IF (((j - s) % n) * k) % n < k THEN 1 ELSE 0]
  <2> HIDE DEF n, k, s
  <2>1. QED
    BY <1>2, <1>3 DEF Generate
<1> HIDE DEF n, k, s, rhythm, new
<1>7. DOMAIN lane.values = 0 .. MaxSteps - 1
  BY DEF Lanes
<1>8. /\ new.length = n /\ new.division = lane.division
      /\ new.values = [j \in 0 .. MaxSteps - 1 |-> IF j < n THEN rhythm[j] ELSE lane.values[j]]
  BY <1>5, <1>7 DEF Lanes
<1>9. \A j \in 0 .. n - 1 : j \in 0 .. MaxSteps - 1 /\ j < n
  BY <1>1, EuclidAssumption
<1>10. IsRhythm(new, n, k, s)
  BY <1>6, <1>8, <1>9 DEF IsRhythm
<1>11. DOMAIN new.values = 0 .. MaxSteps - 1
  BY <1>8
<1>12. \A j \in 0 .. MaxSteps - 1 : j >= n => new.values[j] = lane.values[j]
  BY <1>1, <1>8, EuclidAssumption
<1>13. n \in Nat \ {0}
  BY <1>1, EuclidAssumption
<1>14. QED
  BY <1>8, <1>10, <1>11, <1>12, <1>13 DEF n, k, s, new, HoldsRhythm

(* The gate lane is as it was, or the rhythm asked for. *)
RhythmInv ==
  \/ euclid = NoEuclid /\ gate = BaseLane
  \/ /\ euclid \in EuclidRequests
     /\ gate = ApplyToGateLane(StoredParams(euclid.steps, euclid.pulses, euclid.rotate), BaseLane)

(* A rhythm that was applied stays.                                          *)
LEMMA NextRhythm == RhythmInv /\ [Next]_vars => RhythmInv'
<1> SUFFICES ASSUME RhythmInv, [Next]_vars PROVE RhythmInv'
  OBVIOUS
<1>1. ASSUME NEW asked \in EuclidRequests, ApplyEuclid(asked) PROVE RhythmInv'
  <2>1. DOMAIN NoEuclid = {"steps"} /\ \A x \in EuclidRequests : DOMAIN x # {"steps"}
    BY EuclidRequestsAssumption DEF NoEuclid
  <2>2. euclid = NoEuclid /\ NoEuclid \notin EuclidRequests
    BY <1>1, <2>1 DEF ApplyEuclid
  <2>3. gate = BaseLane
    BY <2>2 DEF RhythmInv
  <2>4. QED
    BY <1>1, <2>3 DEF ApplyEuclid, RhythmInv
<1>2. CASE UNCHANGED <<gate, euclid>>
  BY <1>2 DEF RhythmInv
<1>3. QED
  BY <1>1, <1>2
     DEF Next, vars, documentVars, BuildEntry, Publish, PlayStep, StepBack, SetFillHeld

(* It is the rhythm that was asked for.                                      *)
LEMMA RhythmIsAsAsked == RhythmInv => EuclidEven
<1> SUFFICES ASSUME RhythmInv, euclid # NoEuclid
             PROVE  /\ gate.length = Clamped(euclid.steps, 1, MaxSteps)
                    /\ gate.division = BaseLane.division
                    /\ MaximallyEven(gate)
                    /\ Pulses(gate, 0, gate.length) = Clamped(euclid.pulses, 0, gate.length)
                    /\ euclid.pulses > 0 => gate.values[euclid.rotate % gate.length] = 1
                    /\ \A j \in DOMAIN gate.values :
                         j >= gate.length => gate.values[j] = BaseLane.values[j]
  BY DEF EuclidEven
<1> DEFINE n == Clamped(euclid.steps, 1, MaxSteps)
           k == Clamped(euclid.pulses, 0, n)
           s == euclid.rotate % n
<1>1. /\ euclid.steps \in Int /\ euclid.pulses \in Int /\ euclid.rotate \in Int
      /\ gate = ApplyToGateLane(StoredParams(euclid.steps, euclid.pulses, euclid.rotate), BaseLane)
  BY EuclidRequestsAssumption DEF RhythmInv
<1>2. /\ n \in Nat \ {0} /\ IsRhythm(gate, n, k, s) /\ gate.division = BaseLane.division
      /\ DOMAIN gate.values = 0 .. MaxSteps - 1
      /\ \A j \in 0 .. MaxSteps - 1 : j >= n => gate.values[j] = BaseLane.values[j]
  <2>1. BaseLane \in Lanes(0 .. 1)
    BY EuclidRequestsAssumption
  <2>2. HoldsRhythm(gate, BaseLane, euclid.steps, euclid.pulses, euclid.rotate)
    BY <1>1, <2>1, AppliedIsRhythm
  <2>3. QED
    BY <2>2 DEF HoldsRhythm
<1> HIDE DEF n
<1>3. k \in 0 .. n /\ (euclid.pulses > 0 => k > 0)
  BY <1>1, <1>2 DEF Clamped
<1>4. s \in 0 .. n - 1
  BY <1>1, <1>2, Division
<1> HIDE DEF k, s
<1>5. MaximallyEven(gate) /\ Pulses(gate, 0, n) = k
  <2>1. s \in Int /\ k \in 0 .. n
    BY <1>2, <1>3, <1>4
  <2>2. QED
    BY <1>2, <2>1, RhythmIsEven
<1>6. gate.length = n
  BY <1>2 DEF IsRhythm
<1>7. ASSUME euclid.pulses > 0 PROVE gate.values[s] = 1
  <2>1. s - s = 0 /\ n \in Nat \ {0}
    BY <1>2, <1>4
  <2>2. 0 % n = 0 /\ 0 * k = 0
    BY <1>3, <2>1
  <2>3. 0 < k
    BY <1>3, <1>7
  <2>4. gate.values[s] = IF (((s - s) % n) * k) % n < k THEN 1 ELSE 0
    BY <1>2, <1>4 DEF IsRhythm
  <2>5. QED
    BY <2>1, <2>2, <2>3, <2>4
<1>8. QED
  BY <1>2, <1>5, <1>6, <1>7 DEF n, k, s

(* Every euclidean rhythm that is applied is maximally even, and has what    *)
(* was asked for.                                                            *)
THEOREM RhythmsAreEven == Spec => []EuclidEven
<1>1. Init => RhythmInv
  BY DEF Init, RhythmInv
<1>2. QED
  BY <1>1, NextRhythm, RhythmIsAsAsked, PTL DEF Spec

-----------------------------------------------------------------------------
(* What a step plays.                                                        *)

(* A snapshot is its pattern, with the tables beside it. *)
IsSnapshotOf(s, pattern) ==
  /\ s.gate = pattern.gate /\ s.pitch = pattern.pitch /\ s.oct = pattern.oct
  /\ s.vel = pattern.vel /\ s.len = pattern.len /\ s.ratchet = pattern.ratchet
  /\ s.micro = pattern.micro /\ s.prob = pattern.prob /\ s.cond = pattern.cond
  /\ s.modA = pattern.modA /\ s.pool = pattern.pool /\ s.swing = pattern.swing
  /\ s.ramp = pattern.ramp
  /\ s.period = Period(pattern.gate) /\ s.pulses = Cardinality(GatedPhases(pattern.gate))
  /\ s.prefix = GatePrefix(pattern.gate) /\ s.back = PreviousGated(pattern.gate)

(* buildPatternSnapshot copies what it does not compute.                     *)
LEMMA SnapshotHoldsPattern ==
  ASSUME NEW pattern \in PatternSet, NEW order, NEW rolls
  PROVE  LET s == BuildSnapshot(pattern, order, rolls)
         IN  IsSnapshotOf(s, pattern) /\ s.order = order /\ s.rolls = rolls
<1> DEFINE tables == [order |-> order, rolls |-> rolls,
                      period |-> Period(pattern.gate),
                      pulses |-> Cardinality(GatedPhases(pattern.gate)),
                      prefix |-> GatePrefix(pattern.gate),
                      back |-> PreviousGated(pattern.gate)]
           s == BuildSnapshot(pattern, order, rolls)
           lanes == {"gate", "pitch", "oct", "vel", "len", "ratchet", "micro", "prob", "cond",
                     "modA", "pool", "swing", "ramp"}
           beside == {"order", "rolls", "period", "pulses", "prefix", "back"}
<1>1. DOMAIN pattern = lanes
  BY DEF PatternSet
<1>2. DOMAIN tables = beside
  OBVIOUS
<1>3. s = [x \in lanes \union beside |-> IF x \in lanes THEN pattern[x] ELSE tables[x]]
  <2>1. s = [x \in DOMAIN pattern \union DOMAIN tables |->
               IF x \in DOMAIN pattern THEN pattern[x] ELSE tables[x]]
    BY DEF BuildSnapshot
  <2> HIDE DEF tables, lanes, beside, s
  <2>2. QED
    BY <1>1, <1>2, <2>1
<1>4. \A x \in lanes : s[x] = pattern[x]
  <2> HIDE DEF tables, lanes, beside, s
  <2>1. QED
    BY <1>3
<1>5. \A x \in beside : s[x] = tables[x]
  <2>1. \A x \in beside : x \notin lanes
    OBVIOUS
  <2> HIDE DEF tables, lanes, beside, s
  <2>2. QED
    BY <1>3, <2>1
<1> HIDE DEF s
<1>6. IsSnapshotOf(s, pattern)
  BY <1>4, <1>5 DEF IsSnapshotOf
<1>7. s.order = order /\ s.rolls = rolls
  BY <1>5
<1>8. QED
  BY <1>6, <1>7 DEF s

(* Rounding down, and to the nearest, keep an order.                         *)
LEMMA QuotientGrows ==
  ASSUME NEW x \in Int, NEW y \in Int, NEW m \in Nat \ {0}, x <= y
  PROVE  x \div m <= y \div m
<1> DEFINE p == x \div m
           q == y \div m
           r == x % m
           s == y % m
<1>1. p \in Int /\ r \in 0 .. m - 1 /\ x = m * p + r
  BY Division
<1>2. q \in Int /\ s \in 0 .. m - 1 /\ y = m * q + s
  BY Division
<1> HIDE DEF p, q, r, s
<1>3. SUFFICES ASSUME p > q PROVE FALSE
  BY <1>1, <1>2 DEF p, q
<1>4. p = q + 1 + (p - q - 1) /\ p - q - 1 \in Nat
  BY <1>1, <1>2, <1>3
<1> DEFINE u == p - q - 1
<1>5. m * u \in Nat
  <2> HIDE DEF u
  <2>1. QED
    BY <1>4, ProductIsNat DEF u
<1>6. m * p = m * q + m + m * u
  BY <1>1, <1>2
<1> HIDE DEF u
<1>7. m * q \in Int /\ m * p \in Int
  BY <1>1, <1>2
<1>8. QED
  BY <1>1, <1>2, <1>5, <1>6, <1>7

LEMMA RoundingGrows ==
  ASSUME NEW x \in Nat, NEW y \in Nat, NEW b \in Nat \ {0}, x <= y
  PROVE  Rounded(x, b) <= Rounded(y, b) /\ Rounded(x, b) \in Int
<1> DEFINE u == 2 * x + b
           v == 2 * y + b
           m == 2 * b
<1>1. u \in Int /\ v \in Int /\ u <= v /\ m \in Nat \ {0}
  OBVIOUS
<1>2. Rounded(x, b) = u \div m /\ Rounded(y, b) = v \div m
  BY DEF Rounded
<1> HIDE DEF u, v, m
<1>3. u \div m <= v \div m /\ u \div m \in Int
  BY <1>1, QuotientGrows, Division
<1>4. QED
  BY <1>2, <1>3

(* So does limiting.                                                         *)
LEMMA ClampGrows ==
  \A x, y \in Int : /\ Clamped(x, 1, 127) \in 1 .. 127
                    /\ x <= y => Clamped(x, 1, 127) <= Clamped(y, 1, 127)
BY DEF Clamped

(* The line of velocities, child 0 included. *)
Line(base, child, count, ramp) == base * (100 * (count - 1) + ramp * child)

(* The line rises or falls with the ramp, and stays above zero.              *)
LEMMA LineRises ==
  ASSUME NEW base \in 1 .. 127, NEW count \in 2 .. 8, NEW ramp \in -100 .. 100,
         NEW i \in 0 .. count - 1, NEW j \in 0 .. count - 1, i <= j
  PROVE  /\ Line(base, i, count, ramp) \in Nat /\ Line(base, j, count, ramp) \in Nat
         /\ ramp >= 0 => Line(base, i, count, ramp) <= Line(base, j, count, ramp)
         /\ ramp <= 0 => Line(base, i, count, ramp) >= Line(base, j, count, ramp)
<1> DEFINE Scale(c) == 100 * (count - 1) + ramp * c
<1>1. ASSUME NEW c \in 0 .. count - 1 PROVE Scale(c) \in Nat
  <2>1. (ramp + 100) * c \in Nat
    <3>1. ramp + 100 \in Nat /\ c \in Nat
      OBVIOUS
    <3>2. QED
      BY <3>1, ProductIsNat
  <2>2. Scale(c) = (ramp + 100) * c + 100 * (count - 1 - c)
    OBVIOUS
  <2>3. 100 * (count - 1 - c) \in Nat
    OBVIOUS
  <2> HIDE DEF Scale
  <2>4. QED
    BY <2>1, <2>2, <2>3
<1>2. Line(base, i, count, ramp) = base * Scale(i) /\ Line(base, j, count, ramp) = base * Scale(j)
  BY DEF Line
<1>3. base \in Nat /\ j - i \in Nat
  OBVIOUS
<1>4. ASSUME ramp >= 0 PROVE Scale(j) - Scale(i) \in Nat
  <2>1. ramp * (j - i) \in Nat
    BY <1>3, <1>4, ProductIsNat
  <2>2. Scale(j) - Scale(i) = ramp * (j - i)
    OBVIOUS
  <2>3. QED
    BY <2>1, <2>2
<1>5. ASSUME ramp <= 0 PROVE Scale(i) - Scale(j) \in Nat
  <2>1. (0 - ramp) * (j - i) \in Nat
    <3>1. 0 - ramp \in Nat
      BY <1>5
    <3>2. QED
      BY <1>3, <3>1, ProductIsNat
  <2>2. Scale(i) - Scale(j) = (0 - ramp) * (j - i)
    OBVIOUS
  <2>3. QED
    BY <2>1, <2>2
<1> HIDE DEF Scale
<1>6. Scale(i) \in Nat /\ Scale(j) \in Nat
  BY <1>1
<1>7. base * Scale(i) \in Nat /\ base * Scale(j) \in Nat
  BY <1>3, <1>6, ProductIsNat
<1>8. ASSUME ramp >= 0 PROVE base * Scale(i) <= base * Scale(j)
  <2>1. base * (Scale(j) - Scale(i)) \in Nat
    BY <1>3, <1>4, <1>8, ProductIsNat
  <2>2. base * (Scale(j) - Scale(i)) = base * Scale(j) - base * Scale(i)
    BY <1>3, <1>6
  <2>3. QED
    BY <1>7, <2>1, <2>2
<1>9. ASSUME ramp <= 0 PROVE base * Scale(i) >= base * Scale(j)
  <2>1. base * (Scale(i) - Scale(j)) \in Nat
    BY <1>3, <1>5, <1>9, ProductIsNat
  <2>2. base * (Scale(i) - Scale(j)) = base * Scale(i) - base * Scale(j)
    BY <1>3, <1>6
  <2>3. QED
    BY <1>7, <2>1, <2>2
<1>10. QED
  BY <1>2, <1>7, <1>8, <1>9

(* A velocity is the rounded and limited value of the line.                  *)
LEMMA VelocityIsOnLine ==
  ASSUME NEW base \in 1 .. 127, NEW count \in 2 .. 8, NEW ramp \in -100 .. 100,
         NEW child \in 0 .. count - 1
  PROVE  RatchetVelocity(base, child, count, ramp)
           = Clamped(Rounded(Line(base, child, count, ramp), 100 * (count - 1)), 1, 127)
<1>1. CASE child > 0 /\ ramp # 0
  BY <1>1 DEF RatchetVelocity, Line
<1>2. CASE child = 0 \/ ramp = 0
  <2> DEFINE b == 100 * (count - 1)
  <2>1. b \in Nat \ {0}
    OBVIOUS
  <2>2. ramp * child = 0
    BY <1>2
  <2>3. Line(base, child, count, ramp) = base * b
    BY <2>2 DEF Line
  <2>4. Rounded(base * b, b) = base
    <3> HIDE DEF b
    <3> DEFINE u == 2 * (base * b) + b
               m == 2 * b
    <3>1. base * b \in Nat
      BY <2>1, ProductIsNat
    <3>2. Rounded(base * b, b) = u \div m
      BY <2>1, <3>1 DEF Rounded
    <3>3. u \in Int /\ m \in Nat \ {0} /\ u = m * base + b /\ b \in 0 .. m - 1
      BY <2>1, <3>1
    <3> HIDE DEF u, m
    <3>4. u \div m = base
      BY <3>3, Quotient
    <3>5. QED
      BY <3>2, <3>4
  <2>5. Clamped(base, 1, 127) = base
    BY DEF Clamped
  <2>6. RatchetVelocity(base, child, count, ramp) = base
    BY <1>2 DEF RatchetVelocity
  <2> HIDE DEF b
  <2>7. QED
    BY <2>3, <2>4, <2>5, <2>6 DEF b
<1>3. QED
  BY <1>1, <1>2

(* Velocities follow the ramp. *)
LEMMA VelocityRises ==
  ASSUME NEW base \in 1 .. 127, NEW count \in 1 .. 8, NEW ramp \in -100 .. 100,
         NEW i \in 0 .. count - 1, NEW j \in 0 .. count - 1, i <= j
  PROVE  /\ RatchetVelocity(base, i, count, ramp) \in 1 .. 127
         /\ ramp >= 0 => RatchetVelocity(base, i, count, ramp) <= RatchetVelocity(base, j, count, ramp)
         /\ ramp <= 0 => RatchetVelocity(base, i, count, ramp) >= RatchetVelocity(base, j, count, ramp)
<1>1. CASE count = 1
  BY <1>1 DEF RatchetVelocity
<1>2. CASE count # 1
  <2>1. count \in 2 .. 8
    BY <1>2
  <2> DEFINE x == Line(base, i, count, ramp)
             y == Line(base, j, count, ramp)
             b == 100 * (count - 1)
  <2>2. /\ x \in Nat /\ y \in Nat /\ (ramp >= 0 => x <= y) /\ (ramp <= 0 => y <= x)
    BY <2>1, LineRises
  <2>3. b \in Nat \ {0}
    BY <2>1
  <2>4. /\ RatchetVelocity(base, i, count, ramp) = Clamped(Rounded(x, b), 1, 127)
        /\ RatchetVelocity(base, j, count, ramp) = Clamped(Rounded(y, b), 1, 127)
    <3>1. \A c \in 0 .. count - 1 :
            RatchetVelocity(base, c, count, ramp) = Clamped(Rounded(Line(base, c, count, ramp), b), 1, 127)
      BY <2>1, VelocityIsOnLine
    <3>2. QED
      BY <3>1
  <2> HIDE DEF x, y, b
  <2>5. /\ Rounded(x, b) \in Int /\ Rounded(y, b) \in Int
        /\ (x <= y => Rounded(x, b) <= Rounded(y, b)) /\ (y <= x => Rounded(y, b) <= Rounded(x, b))
    <3>1. Rounded(x, b) \in Int /\ Rounded(y, b) \in Int
      BY <2>2, <2>3, RoundingGrows
    <3>2. QED
      BY <2>2, <2>3, <3>1, RoundingGrows
  <2>6. Clamped(Rounded(x, b), 1, 127) \in 1 .. 127
    BY <2>5, ClampGrows
  <2>7. ASSUME ramp >= 0 PROVE Clamped(Rounded(x, b), 1, 127) <= Clamped(Rounded(y, b), 1, 127)
    BY <2>2, <2>5, <2>7, ClampGrows
  <2>8. ASSUME ramp <= 0 PROVE Clamped(Rounded(x, b), 1, 127) >= Clamped(Rounded(y, b), 1, 127)
    <3>1. Clamped(Rounded(y, b), 1, 127) <= Clamped(Rounded(x, b), 1, 127)
      BY <2>2, <2>5, <2>8, ClampGrows
    <3>2. Clamped(Rounded(x, b), 1, 127) \in Int /\ Clamped(Rounded(y, b), 1, 127) \in Int
      BY <2>5, ClampGrows
    <3>3. QED
      BY <3>1, <3>2
  <2>9. QED
    BY <2>4, <2>6, <2>7, <2>8
<1>3. QED
  BY <1>1, <1>2

(* The slot of a child of a step. *)
Slot(count) == Grain \div count

(* The slots of the children fill the step.                                  *)
LEMMA SlotsTile ==
  ASSUME NEW count \in 1 .. 8
  PROVE  Slot(count) \in Nat \ {0} /\ count * Slot(count) = Grain
<1>1. /\ Slot(1) = 84000 /\ Slot(2) = 42000 /\ Slot(3) = 28000 /\ Slot(4) = 21000
      /\ Slot(5) = 16800 /\ Slot(6) = 14000 /\ Slot(7) = 12000 /\ Slot(8) = 10500
  BY DEF Slot, Grain
<1>2. count = 1 \/ count = 2 \/ count = 3 \/ count = 4 \/ count = 5 \/ count = 6 \/ count = 7 \/ count = 8
  OBVIOUS
<1>3. QED
  BY <1>1, <1>2 DEF Grain

(* Each child begins in the step, one after the other.                       *)
LEMMA ChildrenLieInStep ==
  ASSUME NEW count \in 1 .. 8, NEW i \in 0 .. count - 1, NEW j \in 0 .. count - 1
  PROVE  i * Slot(count) \in 0 .. Grain - 1 /\ (i < j => i * Slot(count) < j * Slot(count))
<1> DEFINE w == Slot(count)
<1>1. w \in Nat \ {0} /\ count * w = Grain
  BY SlotsTile
<1> HIDE DEF w
<1>2. i * w \in Nat
  BY <1>1, ProductIsNat
<1>3. (count - 1 - i) * w \in Nat
  <2>1. count - 1 - i \in Nat
    OBVIOUS
  <2>2. QED
    BY <1>1, <2>1, ProductIsNat
<1>4. (count - 1 - i) * w = count * w - w - i * w
  BY <1>1
<1>5. i * w < Grain /\ Grain \in Nat
  BY <1>1, <1>2, <1>3, <1>4 DEF Grain
<1>6. ASSUME i < j PROVE i * w < j * w
  <2>1. (j - i - 1) * w \in Nat
    <3>1. j - i - 1 \in Nat
      BY <1>6
    <3>2. QED
      BY <1>1, <3>1, ProductIsNat
  <2>2. (j - i - 1) * w = j * w - i * w - w
    BY <1>1
  <2>3. j * w \in Nat
    BY <1>1, ProductIsNat
  <2>4. QED
    BY <1>1, <1>2, <2>1, <2>2, <2>3
<1>7. QED
  BY <1>2, <1>5, <1>6 DEF w

(* What the pattern of a snapshot gives a step. *)
StepValues(s, g) ==
  /\ LaneValueAt(s.vel, g) \in 1 .. 127 /\ LaneValueAt(s.ratchet, g) \in 1 .. 8
  /\ LaneValueAt(s.len, g) \in 1 .. 400 /\ LaneValueAt(s.micro, g) \in -50 .. 50
  /\ s.ramp \in -100 .. 100 /\ s.swing \in 50 .. 75

(* A pattern holds values of its ranges.                                     *)
LEMMA PatternGivesValues ==
  ASSUME NEW pattern \in PatternSet, NEW s, IsSnapshotOf(s, pattern), NEW g \in Int
  PROVE  StepValues(s, g)
<1>1. /\ s.vel \in Lanes(1 .. 127) /\ s.ratchet \in Lanes(1 .. 8) /\ s.len \in Lanes(1 .. 400)
      /\ s.micro \in Lanes(-50 .. 50) /\ s.ramp \in -100 .. 100 /\ s.swing \in 50 .. 75
  BY DEF PatternSet, IsSnapshotOf
<1>2. LaneValueAt(s.vel, g) \in 1 .. 127
  BY <1>1, LaneHolds
<1>3. LaneValueAt(s.ratchet, g) \in 1 .. 8
  BY <1>1, LaneHolds
<1>4. LaneValueAt(s.len, g) \in 1 .. 400
  BY <1>1, LaneHolds
<1>5. LaneValueAt(s.micro, g) \in -50 .. 50
  BY <1>1, LaneHolds
<1>6. QED
  BY <1>1, <1>2, <1>3, <1>4, <1>5 DEF StepValues

(* The notes of a step.                                                      *)
NoteRecords == [position : Int, length : Int, velocity : Int]

(* The note of a child that stays. *)
ChildNote(s, g, count, child) ==
  [position |-> child * Slot(count),
   length |-> (LaneValueAt(s.len, g) * (Grain \div 100)) \div count,
   velocity |-> RatchetVelocity(LaneValueAt(s.vel, g), child, count, s.ramp)]

LEMMA ChildNoteIsNote ==
  ASSUME NEW s, NEW g, StepValues(s, g), NEW count \in 1 .. 8, NEW c \in 0 .. count - 1
  PROVE  ChildNote(s, g, count, c) \in NoteRecords
<1>1. c * Slot(count) \in Int
  BY ChildrenLieInStep
<1>2. RatchetVelocity(LaneValueAt(s.vel, g), c, count, s.ramp) \in Int
  <2> DEFINE base == LaneValueAt(s.vel, g)
             ramp == s.ramp
  <2>1. base \in 1 .. 127 /\ ramp \in -100 .. 100 /\ c <= c
    BY DEF StepValues
  <2> HIDE DEF base, ramp
  <2>2. RatchetVelocity(base, c, count, ramp) \in 1 .. 127
    BY <2>1, VelocityRises
  <2>3. QED
    BY <2>2 DEF base, ramp
<1>3. (LaneValueAt(s.len, g) * (Grain \div 100)) \div count \in Int
  <2> DEFINE x == LaneValueAt(s.len, g) * (Grain \div 100)
  <2>1. x \in Int
    BY DEF StepValues, Grain
  <2> HIDE DEF x
  <2>2. x \div count \in Int
    BY <2>1, Division
  <2>3. QED
    BY <2>2 DEF x
<1>4. QED
  BY <1>1, <1>2, <1>3 DEF ChildNote, NoteRecords

(* The notes of the first k children: each is the note of one of them, in    *)
(* the order of the children, the first one's first.                         *)
NotesOf(notes, s, g, count, k) ==
  /\ notes \in Seq(NoteRecords)
  /\ k > 0 => notes # << >> /\ notes[1] = ChildNote(s, g, count, 0)
  /\ \A i \in 1 .. Len(notes) : \E c \in 0 .. k - 1 : notes[i] = ChildNote(s, g, count, c)
  /\ \A i, j \in 1 .. Len(notes) : i < j =>
       \E b, c \in 0 .. k - 1 :
         b < c /\ notes[i] = ChildNote(s, g, count, b) /\ notes[j] = ChildNote(s, g, count, c)

(* One more child: its note is the last one, or is dropped.                  *)
LEMMA OneMoreChild ==
  ASSUME NEW s, NEW g, StepValues(s, g), NEW count \in 1 .. 8, NEW k \in 0 .. count - 1,
         NEW notes, NotesOf(notes, s, g, count, k)
  PROVE  NotesOf(AddChild(notes, k, s, g, count), s, g, count, k + 1)
<1> DEFINE new == AddChild(notes, k, s, g, count)
           note == ChildNote(s, g, count, k)
<1>1. note \in NoteRecords
  BY ChildNoteIsNote
<1>2. \A c \in 0 .. k - 1 : c \in 0 .. k + 1 - 1
  OBVIOUS
<1>3. k \in 0 .. k + 1 - 1
  OBVIOUS
<1>4. /\ notes \in Seq(NoteRecords) /\ Len(notes) \in Nat
      /\ \A i \in 1 .. Len(notes) : \E c \in 0 .. k - 1 : notes[i] = ChildNote(s, g, count, c)
      /\ \A i, j \in 1 .. Len(notes) : i < j =>
           \E b, c \in 0 .. k - 1 :
             b < c /\ notes[i] = ChildNote(s, g, count, b) /\ notes[j] = ChildNote(s, g, count, c)
      /\ k > 0 => notes # << >> /\ notes[1] = ChildNote(s, g, count, 0)
  BY DEF NotesOf
<1>5. CASE ~ RatchetChildPasses(s, g, k)
  <2>1. new = notes
    BY <1>5 DEF AddChild
  <2>2. k # 0 /\ k > 0
    BY <1>5 DEF RatchetChildPasses
  <2> HIDE DEF new
  <2>3. \A i \in 1 .. Len(notes) : \E c \in 0 .. k + 1 - 1 : notes[i] = ChildNote(s, g, count, c)
    BY <1>2, <1>4
  <2>4. \A i, j \in 1 .. Len(notes) : i < j =>
           \E b, c \in 0 .. k + 1 - 1 :
             b < c /\ notes[i] = ChildNote(s, g, count, b) /\ notes[j] = ChildNote(s, g, count, c)
    BY <1>2, <1>4
  <2>5. NotesOf(notes, s, g, count, k + 1)
    BY <1>4, <2>2, <2>3, <2>4 DEF NotesOf
  <2>6. QED
    BY <2>1, <2>5 DEF new
<1>6. CASE RatchetChildPasses(s, g, k)
  <2>1. new = Append(notes, note)
    BY <1>6 DEF AddChild, ChildNote, Slot
  <2> HIDE DEF note, new
  <2>2. new \in Seq(NoteRecords) /\ Len(new) = Len(notes) + 1
    BY <1>1, <1>4, <2>1
  <2>3. \A i \in 1 .. Len(notes) + 1 : new[i] = IF i = Len(notes) + 1 THEN note ELSE notes[i]
    BY <1>1, <1>4, <2>1
  <2>4. ASSUME NEW i \in 1 .. Len(new) PROVE \E c \in 0 .. k + 1 - 1 : new[i] = ChildNote(s, g, count, c)
    <3>1. CASE i = Len(notes) + 1
      BY <1>3, <1>4, <2>2, <2>3, <3>1 DEF note
    <3>2. CASE i # Len(notes) + 1
      <4>1. i \in 1 .. Len(notes) /\ new[i] = notes[i]
        BY <1>4, <2>2, <2>3, <3>2
      <4>2. QED
        BY <1>2, <1>4, <4>1
    <3>3. QED
      BY <3>1, <3>2
  <2>5. ASSUME NEW i \in 1 .. Len(new), NEW j \in 1 .. Len(new), i < j
        PROVE  \E b, c \in 0 .. k + 1 - 1 :
                 b < c /\ new[i] = ChildNote(s, g, count, b) /\ new[j] = ChildNote(s, g, count, c)
    <3>1. i \in 1 .. Len(notes) /\ new[i] = notes[i]
      BY <1>4, <2>2, <2>3, <2>5
    <3>2. CASE j = Len(notes) + 1
      <4>1. PICK b \in 0 .. k - 1 : notes[i] = ChildNote(s, g, count, b)
        BY <1>4, <3>1
      <4>2. b < k /\ b \in 0 .. k + 1 - 1
        BY <1>2
      <4>3. new[j] = ChildNote(s, g, count, k)
        BY <2>2, <2>3, <3>2 DEF note
      <4>4. QED
        BY <1>3, <3>1, <4>1, <4>2, <4>3
    <3>3. CASE j # Len(notes) + 1
      <4>1. j \in 1 .. Len(notes) /\ new[j] = notes[j]
        BY <1>4, <2>2, <2>3, <3>3
      <4>2. PICK b \in 0 .. k - 1, c \in 0 .. k - 1 :
               b < c /\ notes[i] = ChildNote(s, g, count, b) /\ notes[j] = ChildNote(s, g, count, c)
        BY <1>4, <2>5, <3>1, <4>1
      <4>3. QED
        BY <1>2, <3>1, <4>1, <4>2
    <3>4. QED
      BY <3>2, <3>3
  <2>6. new # << >> /\ new[1] = ChildNote(s, g, count, 0)
    <3>1. CASE k = 0
      <4>1. Len(notes) = 0
        <5>1. \A i \in 1 .. Len(notes) : FALSE
          BY <1>4, <3>1
        <5>2. QED
          BY <1>4, <5>1
      <4>2. new[1] = note /\ Len(new) = 1
        BY <2>2, <2>3, <4>1
      <4>3. note = ChildNote(s, g, count, 0)
        BY <3>1 DEF note
      <4>4. QED
        BY <2>2, <4>2, <4>3
    <3>2. CASE k # 0
      <4>1. notes # << >> /\ notes[1] = ChildNote(s, g, count, 0)
        BY <1>4, <3>2
      <4>2. Len(notes) > 0
        BY <1>4, <4>1
      <4>3. QED
        BY <1>4, <2>2, <2>3, <4>1, <4>2
    <3>3. QED
      BY <3>1, <3>2
  <2>7. NotesOf(new, s, g, count, k + 1)
    BY <2>2, <2>4, <2>5, <2>6 DEF NotesOf
  <2>8. QED
    BY <2>7 DEF new
<1>7. QED
  BY <1>5, <1>6

(* The loop over the children of a step.                                     *)
LEMMA StepHasNotes ==
  ASSUME NEW s, NEW g, StepValues(s, g), NEW count \in 1 .. 8
  PROVE  NotesOf(RatchetNotes(s, g, count), s, g, count, count)
<1> DEFINE children == [k \in 1 .. count |-> k - 1]
<1>1. DOMAIN children = 1 .. count /\ count \in Nat
  OBVIOUS
<1>2. RatchetNotes(s, g, count) = NotesFold!Fold(s, g, count, << >>, children)
  BY Zenon
  DEF RatchetNotes, FoldLeft, MapThenFoldSet, Max,
      NotesFold!Fold, NotesFold!FoldLeft, NotesFold!MapThenFoldSet, NotesFold!Max
<1>3. \A k \in 1 .. count : children[k] = k - 1
  OBVIOUS
<1> HIDE DEF children
<1>4. PICK run : NotesFold!IsRun(run, s, g, count, << >>, children, count)
  BY <1>1, NotesFold!FoldRuns
<1>5. /\ run[0] = << >> /\ \A k \in 1 .. count : run[k] = AddChild(run[k - 1], k - 1, s, g, count)
      /\ RatchetNotes(s, g, count) = run[count]
  BY <1>2, <1>3, <1>4 DEF NotesFold!IsRun
<1> DEFINE T == {k \in 0 .. count : NotesOf(run[k], s, g, count, k)}
<1>6. 0 \in T
  <2>1. << >> \in Seq(NoteRecords) /\ Len(<< >>) = 0
    OBVIOUS
  <2>2. NotesOf(<< >>, s, g, count, 0)
    BY <2>1 DEF NotesOf
  <2>3. QED
    BY <1>5, <2>2
<1>7. ASSUME NEW k \in 0 .. count - 1, k \in T PROVE k + 1 \in T
  <2>1. NotesOf(run[k], s, g, count, k)
    BY <1>7
  <2>2. NotesOf(AddChild(run[k], k, s, g, count), s, g, count, k + 1)
    BY <2>1, OneMoreChild
  <2>3. k + 1 \in 1 .. count /\ k + 1 - 1 = k /\ k + 1 \in 0 .. count
    OBVIOUS
  <2>4. run[k + 1] = AddChild(run[k], k, s, g, count)
    BY <1>5, <2>3
  <2>5. QED
    BY <2>2, <2>3, <2>4
<1>8. count \in T
  <2> HIDE DEF T
  <2>1. \A k \in 0 .. count : k \in T
    BY <1>1, <1>6, <1>7, NotesFold!Counting
  <2>2. QED
    BY <2>1
<1>9. QED
  BY <1>5, <1>8

(* What NotesFit says of a step of a snapshot. *)
Fits(e, ramp) ==
  e.gate =>
    LET notes == e.notes
    IN  /\ 2 * e.shift \in -Grain .. Grain
        /\ notes # << >> /\ notes[1].position = 0
        /\ \A k \in DOMAIN notes :
             /\ notes[k].position \in 0 .. Grain - 1
             /\ notes[k].velocity \in 1 .. 127
        /\ \A i, k \in DOMAIN notes : i < k =>
             /\ notes[i].position < notes[k].position
             /\ ramp >= 0 => notes[i].velocity <= notes[k].velocity
             /\ ramp <= 0 => notes[i].velocity >= notes[k].velocity

(* A step is displaced by half a step at most.                               *)
LEMMA ShiftIsBounded ==
  ASSUME NEW s, NEW g \in Int, StepValues(s, g)
  PROVE  2 * Shift(s, g) \in -Grain .. Grain
<1> DEFINE swung == SwingShift(s.swing, g)
           x == LaneValueAt(s.micro, g) * (Grain \div 100) + swung
           half == Grain \div 2
<1>1. swung \in Int
  BY DEF StepValues, SwingShift, Grain
<1>2. x \in Int
  <2> HIDE DEF swung
  <2>1. QED
    BY <1>1 DEF StepValues, Grain
<1>3. half = 42000 /\ Grain = 84000
  BY DEF Grain
<1>4. Shift(s, g) = Clamped(x, -half, half)
  BY DEF Shift
<1>5. ASSUME NEW y \in Int, NEW h \in Nat PROVE Clamped(y, -h, h) \in -h .. h
  BY DEF Clamped
<1> HIDE DEF x, half
<1>6. half \in Nat /\ 2 * half = Grain
  BY <1>3
<1>7. Shift(s, g) \in -half .. half
  BY <1>2, <1>4, <1>5, <1>6
<1>8. 2 * Shift(s, g) \in -(2 * half) .. (2 * half)
  BY <1>6, <1>7
<1>9. QED
  BY <1>6, <1>8

(* What a step plays lies in it.                                             *)
LEMMA StepFits ==
  ASSUME NEW s, NEW g \in Int, NEW held, StepValues(s, g)
  PROVE  Fits(EvaluateStep(s, g, held), s.ramp)
<1> DEFINE e == EvaluateStep(s, g, held)
           count == LaneValueAt(s.ratchet, g)
           base == LaneValueAt(s.vel, g)
           ramp == s.ramp
           notes == RatchetNotes(s, g, count)
           note(c) == ChildNote(s, g, count, c)
<1>1. SUFFICES ASSUME e.gate PROVE Fits(e, ramp)
  BY DEF Fits
<1>2. e.shift = Shift(s, g) /\ e.notes = notes
  BY <1>1 DEF EvaluateStep, Silence
<1>3. count \in 1 .. 8 /\ base \in 1 .. 127 /\ ramp \in -100 .. 100
  BY DEF StepValues
<1>4. 2 * Shift(s, g) \in -Grain .. Grain
  BY ShiftIsBounded
<1>5. NotesOf(notes, s, g, count, count)
  <2> HIDE DEF count
  <2>1. QED
    BY <1>3, StepHasNotes
<1>6. \A c : /\ note(c).position = c * Slot(count)
             /\ note(c).velocity = RatchetVelocity(base, c, count, ramp)
  BY DEF ChildNote
<1> HIDE DEF count, base, ramp, notes, note, e
<1>7. /\ notes \in Seq(NoteRecords) /\ DOMAIN notes = 1 .. Len(notes)
      /\ notes # << >> /\ notes[1] = note(0)
      /\ \A i \in 1 .. Len(notes) : \E c \in 0 .. count - 1 : notes[i] = note(c)
      /\ \A i, j \in 1 .. Len(notes) : i < j =>
           \E b, c \in 0 .. count - 1 : b < c /\ notes[i] = note(b) /\ notes[j] = note(c)
  BY <1>3, <1>5 DEF NotesOf, note
<1>8. ASSUME NEW c \in 0 .. count - 1
      PROVE  note(c).position \in 0 .. Grain - 1 /\ note(c).velocity \in 1 .. 127
  <2>1. c * Slot(count) \in 0 .. Grain - 1
    BY <1>3, ChildrenLieInStep
  <2>2. c <= c
    BY <1>3
  <2>3. RatchetVelocity(base, c, count, ramp) \in 1 .. 127
    BY <1>3, <2>2, VelocityRises
  <2>4. QED
    BY <1>6, <2>1, <2>3
<1>9. ASSUME NEW b \in 0 .. count - 1, NEW c \in 0 .. count - 1, b < c
      PROVE  /\ note(b).position < note(c).position
             /\ ramp >= 0 => note(b).velocity <= note(c).velocity
             /\ ramp <= 0 => note(b).velocity >= note(c).velocity
  <2>1. b * Slot(count) < c * Slot(count)
    BY <1>3, <1>9, ChildrenLieInStep
  <2>2. b <= c
    BY <1>3, <1>9
  <2>3. /\ ramp >= 0 => RatchetVelocity(base, b, count, ramp) <= RatchetVelocity(base, c, count, ramp)
        /\ ramp <= 0 => RatchetVelocity(base, b, count, ramp) >= RatchetVelocity(base, c, count, ramp)
    BY <1>3, <2>2, VelocityRises
  <2>4. QED
    BY <1>6, <2>1, <2>3
<1>10. notes[1].position = 0
  <2>1. 0 * Slot(count) = 0
    BY <1>3, SlotsTile
  <2>2. QED
    BY <1>6, <1>7, <2>1
<1>11. \A k \in DOMAIN notes : notes[k].position \in 0 .. Grain - 1 /\ notes[k].velocity \in 1 .. 127
  BY <1>7, <1>8
<1>12. ASSUME NEW i \in DOMAIN notes, NEW k \in DOMAIN notes, i < k
       PROVE  /\ notes[i].position < notes[k].position
              /\ ramp >= 0 => notes[i].velocity <= notes[k].velocity
              /\ ramp <= 0 => notes[i].velocity >= notes[k].velocity
  <2>1. PICK b \in 0 .. count - 1, c \in 0 .. count - 1 : b < c /\ notes[i] = note(b) /\ notes[k] = note(c)
    BY <1>7, <1>12
  <2>2. QED
    BY <1>9, <2>1
<1>13. QED
  BY <1>2, <1>4, <1>7, <1>10, <1>11, <1>12 DEF Fits

(* A pattern plays, the last step its own; before it is published, none.     *)
StepsInv ==
  /\ index \in Int
  /\ d = NoSnapshot => emission = Silence
  /\ d # NoSnapshot => \E pattern \in Patterns : IsSnapshotOf(d, pattern)
  /\ Fits(emission, d.ramp)

(* The invariant of the steps: nothing was played at first.                  *)
LEMMA InitSteps == Init => StepsInv
BY DEF Init, StepsInv, Fits, Silence

(* Each step plays a pattern.                                                *)
LEMMA NextSteps == StepsInv /\ [Next]_vars => StepsInv'
<1> SUFFICES ASSUME StepsInv, [Next]_vars PROVE StepsInv'
  OBVIOUS
<1>1. ASSUME NEW pattern \in PatternsToPlay, NEW rolls, Publish(pattern, rolls) PROVE StepsInv'
  <2>1. d = NoSnapshot /\ d' = BuildSnapshot(pattern, out, rolls) /\ UNCHANGED <<index, emission>>
    BY <1>1 DEF Publish
  <2>2. pattern \in Patterns /\ pattern \in PatternSet
    BY PatternsAssumption DEF PatternsToPlay
  <2>3. IsSnapshotOf(d', pattern)
    BY <2>1, <2>2, SnapshotHoldsPattern
  <2>4. emission' = Silence /\ index' \in Int
    BY <2>1 DEF StepsInv
  <2>5. Fits(emission', d'.ramp)
    BY <2>4 DEF Fits, Silence
  <2>6. QED
    BY <2>2, <2>3, <2>4, <2>5 DEF StepsInv
<1>2. CASE PlayStep
  <2>1. d # NoSnapshot /\ index \in Int /\ index' = index + 1
        /\ emission' = EvaluateStep(d, index, fill) /\ d' = d
    BY <1>2 DEF PlayStep, StepsInv
  <2>2. PICK pattern \in Patterns : IsSnapshotOf(d, pattern)
    BY <2>1 DEF StepsInv
  <2>3. StepValues(d, index)
    BY <2>1, <2>2, PatternsAssumption, PatternGivesValues
  <2>4. Fits(emission', d.ramp)
    BY <2>1, <2>3, StepFits
  <2>5. QED
    BY <2>1, <2>2, <2>4 DEF StepsInv
<1>3. CASE StepBack
  <2>1. d # NoSnapshot /\ d' = d /\ index' \in Int /\ emission' = Silence
    BY <1>3 DEF StepBack, StepsInv
  <2>2. Fits(Silence, d.ramp)
    BY DEF Fits, Silence
  <2>3. QED
    BY <2>1, <2>2 DEF StepsInv
<1>4. CASE UNCHANGED <<d, index, emission>>
  BY <1>4 DEF StepsInv
<1>5. QED
  BY <1>1, <1>2, <1>3, <1>4 DEF Next, vars, ApplyEuclid, BuildEntry, SetFillHeld

(* The notes of every step lie in it, in order, with the velocities of the   *)
(* ramp.                                                                     *)
THEOREM StepsFit == Spec => []NotesFit
<1>1. StepsInv => NotesFit
  BY DEF StepsInv, Fits, NotesFit
<1>2. QED
  BY <1>1, InitSteps, NextSteps, PTL DEF Spec

-----------------------------------------------------------------------------
(* Where a step lies: its loop, its place there, the gated steps before it.  *)

(* What the walk needs of a snapshot. *)
IsPlayable(s) ==
  /\ s.gate \in Lanes(0 .. 1) /\ s.cond \in Lanes(Conditions) /\ s.prob \in Lanes(0 .. 100)
  /\ s.modA \in Lanes(0 .. 127) /\ s.pitch \in Lanes(-24 .. 24) /\ s.oct \in Lanes(-4 .. 4)
  /\ s.pool \in Seq(0 .. 127)
  /\ s.pool # << >> => s.order \in Seq(Nat) /\ s.order # << >>
  /\ s.period = Period(s.gate) /\ s.pulses = Cardinality(GatedPhases(s.gate))
  /\ s.prefix = GatePrefix(s.gate) /\ s.back = PreviousGated(s.gate)

(* The cycle of the gate lane has a step.                                    *)
LEMMA PeriodIsPositive ==
  ASSUME NEW s, IsPlayable(s)
  PROVE  s.period \in Nat \ {0} /\ s.period = s.gate.length * s.gate.division
         /\ s.gate.length \in Nat \ {0} /\ s.gate.division \in Nat \ {0}
<1> DEFINE n == s.gate.length
           v == s.gate.division
<1>1. n \in Nat \ {0} /\ v \in Nat \ {0}
  <2>1. s.gate \in Lanes(0 .. 1)
    BY DEF IsPlayable
  <2>2. s.gate.length \in 1 .. MaxSteps /\ s.gate.division \in Nat \ {0}
    BY <2>1 DEF Lanes
  <2>3. QED
    BY <2>2, EuclidAssumption
<1>2. s.period = n * v
  BY DEF IsPlayable, Period
<1> HIDE DEF n, v
<1>3. n * v \in Nat \ {0}
  BY <1>1
<1>4. QED
  BY <1>1, <1>2, <1>3 DEF n, v

(* An index is so many cycles, and a place in the next one. *)
LEMMA PlaceOf ==
  ASSUME NEW s, IsPlayable(s), NEW g \in Int
  PROVE  /\ LoopIndexAt(s, g) \in Int /\ PhaseAt(s, g) \in 0 .. s.period - 1
         /\ g = s.period * LoopIndexAt(s, g) + PhaseAt(s, g)
<1> DEFINE m == s.period
           q == g \div m
           r == g % m
<1>1. m \in Nat \ {0}
  BY PeriodIsPositive
<1> HIDE DEF m
<1>2. q \in Int /\ r \in 0 .. m - 1 /\ g = m * q + r
  BY <1>1, Division
<1>3. LoopIndexAt(s, g) = q /\ PhaseAt(s, g) = g - q * m
  BY DEF LoopIndexAt, PhaseAt, m
<1> HIDE DEF q, r
<1>4. g - q * m = r
  BY <1>1, <1>2
<1>5. QED
  BY <1>2, <1>3, <1>4 DEF m

LEMMA PlaceIs ==
  ASSUME NEW s, IsPlayable(s), NEW g \in Int, NEW q \in Int, NEW r \in 0 .. s.period - 1,
         g = s.period * q + r
  PROVE  LoopIndexAt(s, g) = q /\ PhaseAt(s, g) = r
<1> DEFINE m == s.period
<1>1. m \in Nat \ {0}
  BY PeriodIsPositive
<1> HIDE DEF m
<1>2. g \div m = q
  BY <1>1, Quotient DEF m
<1>3. g - q * m = r
  BY <1>1 DEF m
<1>4. QED
  BY <1>2, <1>3 DEF LoopIndexAt, PhaseAt, m

(* One step on. *)
LEMMA NextPlace ==
  ASSUME NEW s, IsPlayable(s), NEW g \in Int
  PROVE  LET p == PhaseAt(s, g)
             l == LoopIndexAt(s, g)
         IN  IF p + 1 < s.period
             THEN PhaseAt(s, g + 1) = p + 1 /\ LoopIndexAt(s, g + 1) = l
             ELSE PhaseAt(s, g + 1) = 0 /\ LoopIndexAt(s, g + 1) = l + 1
<1> DEFINE m == s.period
           p == PhaseAt(s, g)
           l == LoopIndexAt(s, g)
           h == g + 1
<1>1. m \in Nat \ {0}
  BY PeriodIsPositive
<1>2. l \in Int /\ p \in 0 .. m - 1 /\ g = m * l + p /\ h \in Int
  BY PlaceOf
<1>3. CASE p + 1 < m
  <2>1. p + 1 \in 0 .. m - 1 /\ h = m * l + (p + 1)
    <3> HIDE DEF p, l, m
    <3>1. QED
      BY <1>1, <1>2, <1>3
  <2> DEFINE r == p + 1
  <2> HIDE DEF p, l, h, r
  <2>2. LoopIndexAt(s, h) = l /\ PhaseAt(s, h) = r
    BY <1>2, <2>1, PlaceIs DEF r
  <2>3. QED
    BY <1>3, <2>2 DEF p, l, h, r
<1>4. CASE ~ (p + 1 < m)
  <2>1. 0 \in 0 .. m - 1 /\ h = m * (l + 1) + 0 /\ l + 1 \in Int
    <3>1. p + 1 = m
      BY <1>1, <1>2, <1>4
    <3> HIDE DEF p, l, m
    <3>2. QED
      BY <1>1, <1>2, <3>1
  <2> DEFINE q == l + 1
  <2>2. q \in Int /\ h = m * q + 0
    BY <2>1
  <2> HIDE DEF p, l, h, q
  <2>3. LoopIndexAt(s, h) = q /\ PhaseAt(s, h) = 0
    BY <1>2, <2>1, <2>2, PlaceIs
  <2>4. QED
    BY <1>4, <2>3 DEF p, l, h, q
<1>5. QED
  BY <1>3, <1>4

(* A step is gated where its place in the cycle is. *)
LEMMA GatedByPhase ==
  ASSUME NEW s, IsPlayable(s), NEW g \in Int
  PROVE  IsGated(s, g) <=> IsGatedPhase(s.gate, PhaseAt(s, g))
<1> DEFINE v == s.gate.division
           n == s.gate.length
           l == LoopIndexAt(s, g)
           p == PhaseAt(s, g)
           a == p \div v
           b == p % v
           c == l * n + a
<1>1. n \in Nat \ {0} /\ v \in Nat \ {0} /\ s.period = n * v
  BY PeriodIsPositive
<1>2. l \in Int /\ p \in 0 .. s.period - 1 /\ g = s.period * l + p
  BY PlaceOf
<1>3. a \in Int /\ b \in 0 .. v - 1 /\ p = v * a + b
  <2> HIDE DEF p, v
  <2>1. p \in Int
    BY <1>2
  <2>2. QED
    BY <1>1, <2>1, Division
<1>4. a \in 0 .. n - 1
  <2> HIDE DEF a, b, p, v, n
  <2>1. v * a + b < n * v /\ v * a + b >= 0
    <3>1. p < n * v /\ p >= 0
      <4>1. n * v \in Int
        BY <1>1
      <4>2. QED
        BY <1>1, <1>2, <4>1
    <3>2. QED
      BY <1>3, <3>1
  <2>2. a < n
    <3>1. SUFFICES ASSUME a >= n PROVE FALSE
      BY <1>1, <1>3
    <3>2. v * (a - n) >= 0
      <4>1. a - n \in Nat /\ v \in Nat
        BY <1>1, <1>3, <3>1
      <4>2. QED
        BY <4>1
    <3>3. v * (a - n) = v * a - n * v /\ v * a \in Int /\ n * v \in Int
      BY <1>1, <1>3
    <3>4. QED
      BY <1>3, <2>1, <3>2, <3>3
  <2>3. a >= 0
    <3>1. SUFFICES ASSUME a <= -1 PROVE FALSE
      BY <1>1, <1>3
    <3>2. v * (-1 - a) >= 0
      <4>1. -1 - a \in Nat /\ v \in Nat
        BY <1>1, <1>3, <3>1
      <4>2. QED
        BY <4>1
    <3>3. v * (-1 - a) = -v - v * a /\ v * a \in Int
      BY <1>1, <1>3
    <3>4. QED
      BY <1>1, <1>3, <2>1, <3>2, <3>3
  <2>4. QED
    BY <1>1, <1>3, <2>2, <2>3
<1>5. c \in Int /\ g = v * c + b
  <2> HIDE DEF a, b, p, v, n, l
  <2>1. c \in Int
    BY <1>1, <1>2, <1>3
  <2>2. g = (n * v) * l + (v * a + b)
    BY <1>1, <1>2, <1>3
  <2>3. (n * v) * l + (v * a + b) = v * (l * n + a) + b
    BY <1>1, <1>2, <1>3
  <2>4. QED
    BY <2>1, <2>2, <2>3
<1>6. g \div v = c /\ g % v = b
  <2> HIDE DEF a, b, c, p, v, n, l
  <2>1. QED
    BY <1>1, <1>3, <1>5, Quotient
<1>7. c % n = a
  <2> HIDE DEF a, b, p, v, n, l
  <2>1. c = n * l + a /\ c \in Int
    BY <1>1, <1>2, <1>4, <1>5
  <2> HIDE DEF c
  <2>2. QED
    BY <1>1, <1>2, <1>4, <2>1, Quotient
<1>8. IsGated(s, g) <=> b = 0 /\ s.gate.values[a] # 0
  <2>1. (g \div v) % n = a
    BY <1>6, <1>7
  <2> HIDE DEF a, b, c, p, l
  <2>2. QED
    BY <1>6, <2>1 DEF IsGated, IsLaneTick, LaneValueAt, LaneIndex
<1>9. IsGatedPhase(s.gate, p) <=> b = 0 /\ s.gate.values[a] # 0
  BY DEF IsGatedPhase
<1>10. QED
  BY <1>8, <1>9

(* The greatest of some numbers.                                             *)
LEMMA MaxIs ==
  ASSUME NEW S \in SUBSET Int, NEW m \in S, \A x \in S : x <= m
  PROVE  Max(S) = m
<1>1. \A x \in S : (\A y \in S : x >= y) => x = m
  <2>1. TAKE x \in S
  <2>2. HAVE \A y \in S : x >= y
  <2>3. x >= m /\ x <= m /\ x \in Int /\ m \in Int
    BY <2>2
  <2>4. QED
    BY <2>3
<1>2. \A y \in S : m >= y
  OBVIOUS
<1>3. QED
  BY <1>1, <1>2 DEF Max

LEMMA HasMax ==
  ASSUME NEW n \in Nat, NEW S, S \subseteq 0 .. n, S # {}
  PROVE  \E m \in S : \A x \in S : x <= m
<1> DEFINE T == {k \in 0 .. n : \A x \in S : x <= k => \E m \in S : m <= k /\ \A y \in S : y <= k => y <= m}
<1>1. 0 \in T
  <2>1. ASSUME NEW x \in S, x <= 0 PROVE \E m \in S : m <= 0 /\ \A y \in S : y <= 0 => y <= m
    BY <2>1
  <2>2. QED
    BY <2>1
<1>2. ASSUME NEW k \in 0 .. n - 1, k \in T PROVE k + 1 \in T
  <2>1. ASSUME NEW x \in S, x <= k + 1
        PROVE  \E m \in S : m <= k + 1 /\ \A y \in S : y <= k + 1 => y <= m
    <3>1. CASE k + 1 \in S
      BY <3>1
    <3>2. CASE k + 1 \notin S
      <4>1. \A y \in S : y <= k + 1 => y <= k
        <5>1. TAKE y \in S
        <5>2. y # k + 1 /\ y \in Int
          BY <3>2
        <5>3. QED
          BY <5>2
      <4>2. x <= k
        BY <2>1, <4>1
      <4>3. PICK m \in S : m <= k /\ \A y \in S : y <= k => y <= m
        BY <1>2, <4>2
      <4>4. m <= k + 1
        BY <4>3
      <4>5. QED
        BY <4>1, <4>3, <4>4
    <3>3. QED
      BY <3>1, <3>2
  <2>2. k + 1 \in 0 .. n
    OBVIOUS
  <2>3. QED
    BY <2>1, <2>2
<1>3. n \in T
  <2> HIDE DEF T
  <2>1. \A k \in 0 .. n : k \in T
    BY <1>1, <1>2, NotesFold!Counting
  <2>2. QED
    BY <2>1
<1>4. PICK x \in S : TRUE
  OBVIOUS
<1>5. \A y \in S : y <= n
  OBVIOUS
<1>6. QED
  BY <1>3, <1>4, <1>5

(* The gated phases before one of the cycle. *)
Before(gates, p) == {q \in GatedPhases(gates) : q < p}

(* The gated phases before one of the cycle are so many,                     *)
LEMMA BeforeIsFinite ==
  ASSUME NEW s, IsPlayable(s), NEW p \in 0 .. s.period
  PROVE  /\ GatedPhases(s.gate) \subseteq 0 .. s.period - 1
         /\ IsFiniteSet(GatedPhases(s.gate)) /\ IsFiniteSet(Before(s.gate, p))
<1>1. GatedPhases(s.gate) \subseteq 0 .. s.period - 1
  BY DEF GatedPhases, IsPlayable
<1>2. s.period \in Nat
  BY PeriodIsPositive
<1>3. IsFiniteSet(0 .. s.period - 1)
  <2>1. 0 \in Int /\ s.period - 1 \in Int
    BY <1>2
  <2>2. QED
    BY <2>1, FS_Interval
<1>4. IsFiniteSet(GatedPhases(s.gate))
  BY <1>1, <1>3, FS_Subset
<1>5. Before(s.gate, p) \subseteq GatedPhases(s.gate)
  BY DEF Before
<1>6. IsFiniteSet(Before(s.gate, p))
  BY <1>4, <1>5, FS_Subset
<1>7. QED
  BY <1>1, <1>4, <1>6

(* and one more behind a gated phase.                                        *)
LEMMA BeforeNext ==
  ASSUME NEW s, IsPlayable(s), NEW p \in 0 .. s.period - 1
  PROVE  /\ Before(s.gate, p + 1) =
              IF IsGatedPhase(s.gate, p) THEN Before(s.gate, p) \union {p} ELSE Before(s.gate, p)
         /\ p \notin Before(s.gate, p)
<1>1. s.period \in Nat
  BY PeriodIsPositive
<1>2. GatedPhases(s.gate) = {q \in 0 .. s.period - 1 : IsGatedPhase(s.gate, q)}
  BY DEF GatedPhases, IsPlayable
<1>3. \A q \in 0 .. s.period - 1 : q < p + 1 <=> q < p \/ q = p
  BY <1>1
<1>4. p \notin Before(s.gate, p)
  BY <1>1 DEF Before
<1>5. Before(s.gate, p + 1) =
        IF IsGatedPhase(s.gate, p) THEN Before(s.gate, p) \union {p} ELSE Before(s.gate, p)
  BY <1>2, <1>3 DEF Before
<1>6. QED
  BY <1>4, <1>5

(* The pool moves on by one note per gated step. *)
LEMMA NextOrdinal ==
  ASSUME NEW s, IsPlayable(s), NEW g \in Int
  PROVE  /\ GatedOrdinal(s, g) \in Int
         /\ GatedOrdinal(s, g + 1) =
              IF IsGatedPhase(s.gate, PhaseAt(s, g)) THEN GatedOrdinal(s, g) + 1
              ELSE GatedOrdinal(s, g)
<1> DEFINE p == PhaseAt(s, g)
           l == LoopIndexAt(s, g)
           m == s.period
           count(q) == Cardinality(Before(s.gate, q))
           gated == IsGatedPhase(s.gate, p)
<1>1. m \in Nat \ {0} /\ l \in Int /\ p \in 0 .. m - 1 /\ p \in 0 .. m /\ p + 1 \in 0 .. m
  <2>1. m \in Nat \ {0}
    BY PeriodIsPositive
  <2>2. l \in Int /\ p \in 0 .. m - 1
    BY PlaceOf
  <2> HIDE DEF m, l, p
  <2>3. QED
    BY <2>1, <2>2
<1>2. \A q \in 0 .. m - 1 : s.prefix[q] = count(q)
  BY DEF IsPlayable, GatePrefix, Before
<1>3. ASSUME NEW q \in 0 .. m PROVE count(q) \in Nat
  BY BeforeIsFinite, FS_CardinalityType
<1>4. s.pulses = count(m)
  <2>1. \A q \in GatedPhases(s.gate) : q < m
    <3>1. GatedPhases(s.gate) \subseteq 0 .. m - 1
      BY <1>1, BeforeIsFinite
    <3>2. QED
      BY <1>1, <3>1
  <2>2. Before(s.gate, m) = GatedPhases(s.gate)
    BY <2>1 DEF Before
  <2>3. QED
    BY <2>2 DEF IsPlayable
<1>5. count(p + 1) = IF gated THEN count(p) + 1 ELSE count(p)
  <2>1. IsFiniteSet(Before(s.gate, p)) /\ p \notin Before(s.gate, p)
    BY <1>1, BeforeIsFinite, BeforeNext
  <2>2. Cardinality(Before(s.gate, p) \union {p}) = Cardinality(Before(s.gate, p)) + 1
    BY <2>1, OneMore
  <2>3. QED
    BY <1>1, <2>2, BeforeNext
<1>6. count(0) = 0
  <2>1. GatedPhases(s.gate) \subseteq 0 .. m - 1
    BY <1>1, BeforeIsFinite
  <2>2. Before(s.gate, 0) = {}
    BY <1>1, <2>1 DEF Before
  <2>3. QED
    BY <2>2, FS_EmptySet
<1>7. GatedOrdinal(s, g) = l * s.pulses + count(p)
  BY <1>1, <1>2 DEF GatedOrdinal
<1>8. GatedOrdinal(s, g + 1) = LoopIndexAt(s, g + 1) * s.pulses + s.prefix[PhaseAt(s, g + 1)]
  BY DEF GatedOrdinal
<1>9. count(p) \in Nat /\ s.pulses \in Nat
  BY <1>1, <1>3, <1>4
<1>10. CASE p + 1 < m
  <2>1. PhaseAt(s, g + 1) = p + 1 /\ LoopIndexAt(s, g + 1) = l
    BY <1>10, NextPlace
  <2>2. s.prefix[p + 1] = count(p + 1)
    BY <1>1, <1>2, <1>10
  <2> HIDE DEF p, l, m, count, gated
  <2>3. QED
    BY <1>1, <1>5, <1>7, <1>8, <1>9, <2>1, <2>2 DEF gated, p
<1>11. CASE ~ (p + 1 < m)
  <2>1. PhaseAt(s, g + 1) = 0 /\ LoopIndexAt(s, g + 1) = l + 1
    BY <1>11, NextPlace
  <2>2. s.prefix[0] = 0
    BY <1>1, <1>2, <1>6
  <2>3. p + 1 = m
    BY <1>1, <1>11
  <2>4. s.pulses = IF gated THEN count(p) + 1 ELSE count(p)
    BY <1>4, <1>5, <2>3
  <2> HIDE DEF p, l, m, count, gated
  <2>5. (l + 1) * s.pulses = l * s.pulses + s.pulses /\ l * s.pulses \in Int
    BY <1>1, <1>9
  <2>6. QED
    BY <1>1, <1>7, <1>8, <1>9, <2>1, <2>2, <2>4, <2>5 DEF gated, p
<1>12. QED
  BY <1>10, <1>11

(* The gated step before an index: a gated step itself, and the nearest one. *)
Prev(s, g) == g - PreviousGatedOffsetAt(s, g)

(* The gated phases before one of the cycle, those of the last cycle if there *)
(* are none.                                                                 *)
Behind(s, q) ==
  IF Before(s.gate, q) # {} THEN Before(s.gate, q)
  ELSE {x - s.period : x \in GatedPhases(s.gate)}

(* What PreviousGated holds.                                                 *)
LEMMA BackIs ==
  ASSUME NEW s, IsPlayable(s), s.pulses # 0, NEW q \in 0 .. s.period - 1
  PROVE  Behind(s, q) # {} /\ s.back[q] = q - Max(Behind(s, q))
<1>1. GatedPhases(s.gate) # {}
  BY FS_EmptySet DEF IsPlayable
<1>2. Behind(s, q) # {}
  BY <1>1 DEF Behind
<1>3. s.back[q] = IF Behind(s, q) = {} THEN 0 ELSE q - Max(Behind(s, q))
  BY DEF IsPlayable, PreviousGated, Before, Behind
<1>4. QED
  BY <1>2, <1>3

(* The last gated step stays the same until the next one.                    *)
LEMMA NextPrevious ==
  ASSUME NEW s, IsPlayable(s), s.pulses # 0, NEW g \in Int
  PROVE  /\ Prev(s, g) \in Int
         /\ Prev(s, g + 1) = IF IsGatedPhase(s.gate, PhaseAt(s, g)) THEN g ELSE Prev(s, g)
<1> DEFINE p == PhaseAt(s, g)
           m == s.period
           all == GatedPhases(s.gate)
           gated == IsGatedPhase(s.gate, p)
<1>1. m \in Nat \ {0} /\ p \in 0 .. m - 1 /\ p \in 0 .. m /\ p + 1 \in 0 .. m
  <2>1. m \in Nat \ {0}
    BY PeriodIsPositive
  <2>2. p \in 0 .. m - 1
    BY PlaceOf
  <2> HIDE DEF m, p
  <2>3. QED
    BY <2>1, <2>2
<1>2. all # {} /\ all \subseteq 0 .. m - 1 /\ all \subseteq 0 .. m
  <2>1. all \subseteq 0 .. m - 1
    BY <1>1, BeforeIsFinite
  <2>2. all # {}
    BY FS_EmptySet DEF IsPlayable
  <2>3. \A x \in 0 .. m - 1 : x \in 0 .. m
    BY <1>1
  <2>4. QED
    BY <2>1, <2>2, <2>3
<1>3. ASSUME NEW q \in 0 .. m - 1 PROVE Behind(s, q) # {} /\ s.back[q] = q - Max(Behind(s, q))
  BY BackIs
<1>4. PICK top \in all : \A x \in all : x <= top
  BY <1>1, <1>2, HasMax
<1>5. top \in 0 .. m - 1
  BY <1>2
<1>6. ASSUME Before(s.gate, p) = {} PROVE Max(Behind(s, p)) = top - m
  <2>1. Behind(s, p) = {x - m : x \in all}
    BY <1>6 DEF Behind
  <2>2. {x - m : x \in all} \subseteq Int
    BY <1>1, <1>2
  <2>3. top - m \in {x - m : x \in all}
    OBVIOUS
  <2>4. ASSUME NEW y \in {x - m : x \in all} PROVE y <= top - m
    <3>1. PICK x \in all : y = x - m
      OBVIOUS
    <3>2. x <= top /\ x \in Int /\ top \in Int
      BY <1>2, <1>4
    <3>3. QED
      BY <1>1, <3>1, <3>2
  <2> HIDE DEF all
  <2>5. Max({x - m : x \in all}) = top - m
    BY <2>2, <2>3, <2>4, MaxIs
  <2>6. QED
    BY <2>1, <2>5
<1>7. ASSUME Before(s.gate, p) # {} PROVE \E x \in Before(s.gate, p) : Max(Behind(s, p)) = x /\ \A y \in Before(s.gate, p) : y <= x
  <2>1. Before(s.gate, p) \subseteq 0 .. m
    BY <1>2 DEF Before
  <2>2. PICK x \in Before(s.gate, p) : \A y \in Before(s.gate, p) : y <= x
    BY <1>1, <1>7, <2>1, HasMax
  <2>3. Before(s.gate, p) \subseteq Int
    BY <2>1
  <2>4. Max(Before(s.gate, p)) = x
    BY <2>2, <2>3, MaxIs
  <2>5. QED
    BY <1>7, <2>2, <2>4 DEF Behind
<1>8. Max(Behind(s, p)) \in Int
  <2>1. CASE Before(s.gate, p) = {}
    BY <1>1, <1>5, <1>6, <2>1
  <2>2. CASE Before(s.gate, p) # {}
    <3>1. Before(s.gate, p) \subseteq Int
      BY <1>2 DEF Before
    <3>2. QED
      BY <1>7, <2>2, <3>1
  <2>3. QED
    BY <2>1, <2>2
<1>9. Prev(s, g) = (g - p) + Max(Behind(s, p))
  <2>1. Prev(s, g) = g - (p - Max(Behind(s, p)))
    BY <1>1, <1>3 DEF Prev, PreviousGatedOffsetAt
  <2> HIDE DEF p
  <2>2. QED
    BY <1>1, <1>8, <2>1
<1>10. CASE p + 1 < m
  <2>1. PhaseAt(s, g + 1) = p + 1 /\ p + 1 \in 0 .. m - 1
    BY <1>1, <1>10, NextPlace
  <2>2. Max(Behind(s, p + 1)) = IF gated THEN p ELSE Max(Behind(s, p))
    <3>1. CASE gated
      <4>1. Before(s.gate, p + 1) = Before(s.gate, p) \union {p}
        BY <1>1, <3>1, BeforeNext
      <4>2. Before(s.gate, p + 1) \subseteq Int
        BY <1>2 DEF Before
      <4>3. \A x \in Before(s.gate, p + 1) : x <= p
        BY <1>1, <1>2 DEF Before
      <4>4. p \in Before(s.gate, p + 1)
        BY <4>1
      <4>5. Max(Before(s.gate, p + 1)) = p
        BY <4>2, <4>3, <4>4, MaxIs
      <4>6. QED
        BY <3>1, <4>4, <4>5 DEF Behind
    <3>2. CASE ~ gated
      <4>1. Before(s.gate, p + 1) = Before(s.gate, p)
        BY <1>1, <3>2, BeforeNext
      <4>2. QED
        BY <3>2, <4>1 DEF Behind
    <3>3. QED
      BY <3>1, <3>2
  <2>3. Prev(s, g + 1) = (g + 1) - ((p + 1) - Max(Behind(s, p + 1)))
    <3>1. s.back[p + 1] = (p + 1) - Max(Behind(s, p + 1))
      <4> DEFINE q == p + 1
      <4>1. q \in 0 .. s.period - 1
        BY <2>1
      <4> HIDE DEF q
      <4>2. s.back[q] = q - Max(Behind(s, q))
        BY <4>1, BackIs
      <4>3. QED
        BY <4>2 DEF q
    <3>2. Prev(s, g + 1) = (g + 1) - s.back[p + 1]
      BY <2>1 DEF Prev, PreviousGatedOffsetAt
    <3> HIDE DEF p
    <3>3. QED
      BY <3>1, <3>2
  <2> HIDE DEF p, m, all, gated
  <2>4. QED
    BY <1>1, <1>8, <1>9, <2>2, <2>3 DEF gated, p
<1>11. CASE ~ (p + 1 < m)
  <2>0. p + 1 = m
    BY <1>1, <1>11
  <2>1. PhaseAt(s, g + 1) = 0 /\ 0 \in 0 .. m - 1
    BY <1>1, <1>11, NextPlace
  <2>2. Before(s.gate, 0) = {}
    BY <1>1, <1>2 DEF Before
  <2>3. Max(Behind(s, 0)) = top - m
    <3>1. Behind(s, 0) = {x - m : x \in all}
      BY <2>2 DEF Behind
    <3>2. {x - m : x \in all} \subseteq Int
      BY <1>1, <1>2
    <3>3. top - m \in {x - m : x \in all}
      OBVIOUS
    <3>4. ASSUME NEW y \in {x - m : x \in all} PROVE y <= top - m
      <4>1. PICK x \in all : y = x - m
        OBVIOUS
      <4>2. x <= top /\ x \in Int /\ top \in Int
        BY <1>2, <1>4
      <4>3. QED
        BY <1>1, <4>1, <4>2
    <3> HIDE DEF all
    <3>5. Max({x - m : x \in all}) = top - m
      BY <3>2, <3>3, <3>4, MaxIs
    <3>6. QED
      BY <3>1, <3>5
  <2>4. Prev(s, g + 1) = (g + 1) - (0 - (top - m))
    BY <1>3, <2>1, <2>3 DEF Prev, PreviousGatedOffsetAt
  <2>5. Prev(s, g + 1) = (g - p) + top
    <3> HIDE DEF p, m, all
    <3>1. QED
      BY <1>1, <1>5, <2>0, <2>4
  <2>6. CASE gated
    <3>1. p \in all
      BY <1>1, <2>6 DEF GatedPhases, IsPlayable
    <3>2. p <= top /\ top <= p
      BY <1>1, <1>4, <1>5, <2>0, <3>1
    <3> HIDE DEF p, m, all
    <3>3. top = p
      BY <1>1, <1>5, <3>2
    <3>4. (g - p) + top = g
      BY <1>1, <3>3
    <3>5. QED
      BY <2>5, <2>6, <3>4, <1>8, <1>9, <1>1 DEF p
  <2>7. CASE ~ gated
    <3>1. p \notin all
      BY <2>7 DEF GatedPhases
    <3>2. all = Before(s.gate, p)
      <4>1. \A x \in all : x < p
        BY <1>1, <1>2, <2>0, <3>1
      <4>2. QED
        BY <4>1 DEF Before
    <3>3. PICK x \in all : Max(Behind(s, p)) = x /\ \A y \in all : y <= x
      BY <1>2, <1>7, <3>2
    <3>4. x <= top /\ top <= x /\ x \in Int /\ top \in Int
      BY <1>2, <1>4, <3>3
    <3>5. Max(Behind(s, p)) = top
      BY <3>3, <3>4
    <3> HIDE DEF p, m, all
    <3>6. QED
      BY <1>1, <1>5, <1>9, <2>5, <2>7, <3>5 DEF gated, p
  <2>8. QED
    BY <2>6, <2>7
<1>12. QED
  BY <1>10, <1>11

-----------------------------------------------------------------------------
(* The walk back along the gated steps.                                      *)

(* Steps, each the gated step before the last one. *)
IsTrail(h, s, g) ==
  /\ h[0] = g
  /\ \A k \in 1 .. MaxPreChainDepth : h[k] = Prev(s, h[k - 1])

(* The steps a walk of n hops back passes.                                   *)
IsHops(f, s, g, n) ==
  f = [k \in 0 .. n |-> IF k = 0 THEN g ELSE f[k - 1] - PreviousGatedOffsetAt(s, f[k - 1])]

(* There are such steps, however many.                                       *)
LEMMA HopsExist ==
  ASSUME NEW s, NEW g, NEW n \in Nat
  PROVE  \E f : IsHops(f, s, g, n)
<1> DEFINE T == {k \in 0 .. n : \E f : IsHops(f, s, g, k)}
<1>1. 0 \in T
  <2> DEFINE f == [k \in 0 .. 0 |-> g]
  <2>1. f = [k \in 0 .. 0 |-> IF k = 0 THEN g ELSE f[k - 1] - PreviousGatedOffsetAt(s, f[k - 1])]
    OBVIOUS
  <2> HIDE DEF f
  <2>2. IsHops(f, s, g, 0)
    BY <2>1 DEF IsHops
  <2>3. QED
    BY <2>2
<1>2. ASSUME NEW m \in 0 .. n - 1, m \in T PROVE m + 1 \in T
  <2>1. PICK f : IsHops(f, s, g, m)
    BY <1>2
  <2> DEFINE Next1(x) == x - PreviousGatedOffsetAt(s, x)
             h == [k \in 0 .. m + 1 |-> IF k = m + 1 THEN Next1(f[m]) ELSE f[k]]
  <2>2. f = [k \in 0 .. m |-> IF k = 0 THEN g ELSE Next1(f[k - 1])]
    BY <2>1 DEF IsHops
  <2> HIDE DEF Next1
  <2>3. \A k \in 0 .. m : f[k] = IF k = 0 THEN g ELSE Next1(f[k - 1])
    BY <2>2
  <2>4. ASSUME NEW k \in 0 .. m + 1 PROVE h[k] = IF k = 0 THEN g ELSE Next1(h[k - 1])
    <3>1. CASE k = m + 1
      <4>1. k - 1 = m /\ m \in 0 .. m + 1 /\ m # m + 1 /\ k # 0
        BY <3>1
      <4>2. h[k] = Next1(f[m]) /\ h[k - 1] = f[m]
        BY <3>1, <4>1
      <4>3. QED
        BY <4>1, <4>2
    <3>2. CASE k # m + 1
      <4>1. k \in 0 .. m /\ h[k] = f[k]
        BY <3>2
      <4>2. CASE k = 0
        BY <2>3, <4>1, <4>2
      <4>3. CASE k # 0
        <5>1. k - 1 \in 0 .. m + 1 /\ k - 1 # m + 1 /\ h[k - 1] = f[k - 1]
          BY <4>1, <4>3
        <5>2. QED
          BY <2>3, <4>1, <4>3, <5>1
      <4>4. QED
        BY <4>2, <4>3
    <3>3. QED
      BY <3>1, <3>2
  <2>5. h = [k \in 0 .. m + 1 |-> h[k]]
    OBVIOUS
  <2> HIDE DEF h
  <2>6. h = [k \in 0 .. m + 1 |-> IF k = 0 THEN g ELSE Next1(h[k - 1])]
    BY <2>4, <2>5
  <2>7. IsHops(h, s, g, m + 1)
    BY <2>6 DEF IsHops, Next1
  <2>8. QED
    BY <2>7
<1>3. n \in T
  <2> HIDE DEF T
  <2>1. \A k \in 0 .. n : k \in T
    BY <1>1, <1>2, NotesFold!Counting
  <2>2. QED
    BY <2>1
<1>4. QED
  BY <1>3

(* Hops finds them.                                                          *)
LEMMA HopsAreTrail ==
  ASSUME NEW s, NEW g
  PROVE  IsTrail(Hops(s, g), s, g)
<1> DEFINE n == MaxPreChainDepth
           h == Hops(s, g)
<1>1. h = CHOOSE f : IsHops(f, s, g, n)
  BY DEF Hops, IsHops
<1>2. n \in Nat
  BY StepLogicAssumption
<1> HIDE DEF h, n
<1>3. IsHops(h, s, g, n)
  BY <1>1, <1>2, HopsExist
<1>4. \A k \in 0 .. n : h[k] = IF k = 0 THEN g ELSE h[k - 1] - PreviousGatedOffsetAt(s, h[k - 1])
  BY <1>3 DEF IsHops
<1>5. QED
  BY <1>2, <1>4 DEF IsTrail, Prev, h, n

(* They lie on the timeline.                                                 *)
LEMMA TrailsAreInts ==
  ASSUME NEW s, IsPlayable(s), s.pulses # 0, NEW g \in Int, NEW h, IsTrail(h, s, g)
  PROVE  \A k \in 0 .. MaxPreChainDepth : h[k] \in Int
<1> DEFINE n == MaxPreChainDepth
           T == {k \in 0 .. n : h[k] \in Int}
<1>1. n \in Nat
  BY StepLogicAssumption
<1>2. 0 \in T
  BY <1>1 DEF IsTrail
<1>3. ASSUME NEW k \in 0 .. n - 1, k \in T PROVE k + 1 \in T
  <2>1. k + 1 \in 1 .. n /\ k + 1 \in 0 .. n /\ k + 1 - 1 = k
    BY <1>1
  <2>2. h[k + 1] = Prev(s, h[k])
    BY <2>1 DEF IsTrail
  <2>3. h[k] \in Int
    BY <1>3
  <2>4. h[k + 1] \in Int
    BY <2>2, <2>3, NextPrevious
  <2>5. QED
    BY <2>1, <2>4
<1>4. QED
  <2> HIDE DEF T, n
  <2>1. \A k \in 0 .. n : k \in T
    BY <1>1, <1>2, <1>3, NotesFold!Counting
  <2>2. QED
    BY <2>1 DEF T, n

(* Two trails that meet stay together. *)
LEMMA TrailsMeet ==
  ASSUME NEW s, NEW f, NEW a, IsTrail(f, s, a), NEW h, NEW b, IsTrail(h, s, b),
         NEW i \in {0, 1}, NEW j \in {0, 1}, f[i] = h[j],
         NEW n \in Nat, i + n <= MaxPreChainDepth, j + n <= MaxPreChainDepth
  PROVE  \A k \in 0 .. n : f[i + k] = h[j + k]
<1> DEFINE T == {k \in 0 .. n : f[i + k] = h[j + k]}
<1>0. MaxPreChainDepth \in Nat
  BY StepLogicAssumption
<1>1. 0 \in T
  <2>1. i + 0 = i /\ j + 0 = j
    OBVIOUS
  <2>2. QED
    BY <2>1
<1>2. ASSUME NEW k \in 0 .. n - 1, k \in T PROVE k + 1 \in T
  <2>1. /\ i + (k + 1) \in 1 .. MaxPreChainDepth /\ i + (k + 1) - 1 = i + k
        /\ j + (k + 1) \in 1 .. MaxPreChainDepth /\ j + (k + 1) - 1 = j + k
    BY <1>0
  <2>2. f[i + (k + 1)] = Prev(s, f[i + k]) /\ h[j + (k + 1)] = Prev(s, h[j + k])
    BY <2>1 DEF IsTrail
  <2>3. f[i + k] = h[j + k]
    BY <1>2
  <2>4. f[i + (k + 1)] = h[j + (k + 1)]
    BY <2>2, <2>3
  <2>5. k + 1 \in 0 .. n
    OBVIOUS
  <2>6. QED
    BY <2>4, <2>5
<1>3. QED
  <2> HIDE DEF T
  <2>1. \A k \in 0 .. n : k \in T
    BY <1>1, <1>2, NotesFold!Counting
  <2>2. QED
    BY <2>1 DEF T

(* One step on, a gated step is one hop more.                                *)
LEMMA HopsAfterStep ==
  ASSUME NEW s, IsPlayable(s), s.pulses # 0, NEW g \in Int
  PROVE  IF IsGatedPhase(s.gate, PhaseAt(s, g))
         THEN \A k \in 0 .. MaxPreChainDepth - 1 : Hops(s, g + 1)[k + 1] = Hops(s, g)[k]
         ELSE \A k \in 1 .. MaxPreChainDepth : Hops(s, g + 1)[k] = Hops(s, g)[k]
<1> DEFINE n == MaxPreChainDepth - 1
           f == Hops(s, g + 1)
           h == Hops(s, g)
           gated == IsGatedPhase(s.gate, PhaseAt(s, g))
<1>1. n \in Nat /\ 1 + n <= MaxPreChainDepth /\ 0 + n <= MaxPreChainDepth /\ MaxPreChainDepth \in Nat
  BY StepLogicAssumption
<1>2. IsTrail(f, s, g + 1) /\ IsTrail(h, s, g)
  BY HopsAreTrail
<1>3. f[1] = Prev(s, g + 1) /\ h[0] = g /\ h[1] = Prev(s, g)
  BY <1>1, <1>2 DEF IsTrail
<1>4. Prev(s, g + 1) = IF gated THEN g ELSE Prev(s, g)
  BY NextPrevious
<1> HIDE DEF f, h, n, gated
<1>5. ASSUME gated PROVE \A k \in 0 .. n : f[k + 1] = h[k]
  <2>1. f[1] = h[0]
    BY <1>3, <1>4, <1>5
  <2>2. \A k \in 0 .. n : f[1 + k] = h[0 + k]
    BY <1>1, <1>2, <2>1, TrailsMeet
  <2>3. \A k \in 0 .. n : 1 + k = k + 1 /\ 0 + k = k
    BY <1>1
  <2>4. QED
    BY <2>2, <2>3
<1>6. ASSUME ~ gated PROVE \A k \in 1 .. MaxPreChainDepth : f[k] = h[k]
  <2>1. f[1] = h[1]
    BY <1>3, <1>4, <1>6
  <2>2. \A k \in 0 .. n : f[1 + k] = h[1 + k]
    BY <1>1, <1>2, <2>1, TrailsMeet
  <2>3. ASSUME NEW k \in 1 .. MaxPreChainDepth PROVE f[k] = h[k]
    <3>1. k - 1 \in 0 .. n /\ 1 + (k - 1) = k
      BY <1>1 DEF n
    <3>2. QED
      BY <2>2, <3>1
  <2>4. QED
    BY <2>3
<1>7. QED
  BY <1>5, <1>6 DEF f, h, n, gated

(* From the last gated step, it is one hop less.                             *)
LEMMA HopsFromPrevious ==
  ASSUME NEW s, NEW g
  PROVE  \A k \in 0 .. MaxPreChainDepth - 1 : Hops(s, Hops(s, g)[1])[k] = Hops(s, g)[k + 1]
<1> DEFINE n == MaxPreChainDepth - 1
           f == Hops(s, g)
           h == Hops(s, f[1])
<1>1. n \in Nat /\ 1 + n <= MaxPreChainDepth /\ 0 + n <= MaxPreChainDepth
  BY StepLogicAssumption
<1>2. IsTrail(f, s, g) /\ IsTrail(h, s, f[1])
  BY HopsAreTrail
<1>3. f[1] = h[0]
  BY <1>2 DEF IsTrail
<1> HIDE DEF f, h, n
<1>4. \A k \in 0 .. n : f[1 + k] = h[0 + k]
  BY <1>1, <1>2, <1>3, TrailsMeet
<1>5. \A k \in 0 .. n : 1 + k = k + 1 /\ 0 + k = k
  BY <1>1
<1>6. QED
  BY <1>4, <1>5 DEF f, h, n

-----------------------------------------------------------------------------
(* How long a chain is. *)

LEMMA DepthIs ==
  ASSUME NEW s, s.pulses # 0, NEW h, NEW a \in 0 .. MaxPreChainDepth - 1,
         \A j \in 1 .. a : LooksBack(s, h[j]), ~ LooksBack(s, h[a + 1])
  PROVE  ChainDepth(s, h) = a + 1
<1> DEFINE Q(k) == /\ k = MaxPreChainDepth \/ ~ LooksBack(s, h[k])
                   /\ \A j \in 1 .. k - 1 : LooksBack(s, h[j])
<1>0. MaxPreChainDepth \in Nat
  BY StepLogicAssumption
<1>1. ChainDepth(s, h) = CHOOSE k \in 1 .. MaxPreChainDepth : Q(k)
  BY DEF ChainDepth
<1>2. a + 1 \in 1 .. MaxPreChainDepth /\ Q(a + 1)
  <2>1. a + 1 \in 1 .. MaxPreChainDepth /\ a + 1 - 1 = a
    BY <1>0
  <2>2. QED
    BY <2>1
<1>3. ASSUME NEW k \in 1 .. MaxPreChainDepth, Q(k) PROVE k = a + 1
  <2>1. ~ (k < a + 1)
    <3>1. SUFFICES ASSUME k < a + 1 PROVE FALSE
      OBVIOUS
    <3>2. k \in 1 .. a /\ k # MaxPreChainDepth
      BY <1>0, <3>1
    <3>3. QED
      BY <1>3, <3>2
  <2>2. ~ (k > a + 1)
    <3>1. SUFFICES ASSUME k > a + 1 PROVE FALSE
      OBVIOUS
    <3>2. a + 1 \in 1 .. k - 1
      BY <1>0, <3>1
    <3>3. QED
      BY <1>3, <3>2
  <2>3. QED
    BY <1>0, <2>1, <2>2
<1> HIDE DEF Q
<1>4. QED
  BY <1>1, <1>2, <1>3

(* or when it is as long as is followed.                                     *)
LEMMA DepthIsMost ==
  ASSUME NEW s, s.pulses # 0, NEW h, \A j \in 1 .. MaxPreChainDepth : LooksBack(s, h[j])
  PROVE  ChainDepth(s, h) = MaxPreChainDepth
<1> DEFINE n == MaxPreChainDepth
           Q(k) == /\ k = MaxPreChainDepth \/ ~ LooksBack(s, h[k])
                   /\ \A j \in 1 .. k - 1 : LooksBack(s, h[j])
<1>0. n \in Nat \ {0}
  BY StepLogicAssumption
<1>1. ChainDepth(s, h) = CHOOSE k \in 1 .. n : Q(k)
  BY DEF ChainDepth
<1>2. n \in 1 .. n /\ Q(n)
  <2>1. \A j \in 1 .. n - 1 : j \in 1 .. n
    BY <1>0
  <2>2. QED
    BY <1>0, <2>1
<1>3. ASSUME NEW k \in 1 .. n, Q(k) PROVE k = n
  BY <1>3
<1> HIDE DEF Q, n
<1>4. QED
  BY <1>1, <1>2, <1>3 DEF n

(* One of them is the case.                                                  *)
LEMMA DepthExists ==
  ASSUME NEW s, NEW h
  PROVE  \E a \in 0 .. MaxPreChainDepth :
           /\ \A j \in 1 .. a : LooksBack(s, h[j])
           /\ a = MaxPreChainDepth \/ ~ LooksBack(s, h[a + 1])
<1> DEFINE n == MaxPreChainDepth
           Run(a) == \A j \in 1 .. a : LooksBack(s, h[j])
           T == {k \in 0 .. n : Run(k) \/ \E a \in 0 .. n - 1 : Run(a) /\ ~ LooksBack(s, h[a + 1])}
<1>0. n \in Nat
  BY StepLogicAssumption
<1>1. 0 \in T
  BY <1>0
<1>2. ASSUME NEW k \in 0 .. n - 1, k \in T PROVE k + 1 \in T
  <2>1. k + 1 \in 0 .. n
    BY <1>0
  <2>2. CASE Run(k) /\ LooksBack(s, h[k + 1])
    <3>1. Run(k + 1)
      <4>1. TAKE j \in 1 .. k + 1
      <4>2. j \in 1 .. k \/ j = k + 1
        BY <1>0
      <4>3. QED
        BY <2>2, <4>2
    <3>2. QED
      BY <2>1, <3>1
  <2>3. CASE Run(k) /\ ~ LooksBack(s, h[k + 1])
    BY <2>1, <2>3
  <2>4. CASE ~ Run(k)
    BY <1>2, <2>1, <2>4
  <2>5. QED
    BY <2>2, <2>3, <2>4
<1>3. n \in T
  <2> HIDE DEF T
  <2>1. \A k \in 0 .. n : k \in T
    BY <1>0, <1>1, <1>2, NotesFold!Counting
  <2>2. QED
    BY <1>0, <2>1
<1>4. CASE Run(n)
  <2>1. n \in 0 .. n
    BY <1>0
  <2>2. QED
    BY <1>4, <2>1
<1>5. CASE \E a \in 0 .. n - 1 : Run(a) /\ ~ LooksBack(s, h[a + 1])
  <2>1. PICK a \in 0 .. n - 1 : Run(a) /\ ~ LooksBack(s, h[a + 1])
    BY <1>5
  <2>2. a \in 0 .. n
    BY <1>0
  <2>3. QED
    BY <2>1, <2>2
<1>6. QED
  BY <1>3, <1>4, <1>5

-----------------------------------------------------------------------------
(* The replay of a chain.                                                    *)

(* What a chain of so many steps comes to, from the result before it. *)
Links(h, n) == [k \in 1 .. n |-> h[n - k]]

Result(s, h, n, start) == ReplayAll(s, Links(h, n), start)

(* The results of a chain, one after the other.                              *)
IsReplay(run, s, h, n, start) ==
  /\ run[0] = start
  /\ \A k \in 1 .. n : run[k] = Replay(run[k - 1], h[n - k], s)
  /\ Result(s, h, n, start) = run[n]

LEMMA ReplayRuns ==
  ASSUME NEW s, NEW h, NEW n \in Nat, NEW start
  PROVE  \E run : IsReplay(run, s, h, n, start)
<1> DEFINE links == Links(h, n)
<1>1. DOMAIN links = 1 .. n /\ \A k \in 1 .. n : links[k] = h[n - k]
  BY DEF Links
<1>2. ReplayAll(s, links, start) = PreFold!Fold(s, 0, 0, start, links)
  BY Zenon DEF ReplayAll, ReplayLink, FoldLeft, MapThenFoldSet, Max, PreFold!Fold, PreFold!FoldLeft,
     PreFold!MapThenFoldSet, PreFold!Max
<1> HIDE DEF links
<1>3. PICK run : PreFold!IsRun(run, s, 0, 0, start, links, n)
  BY <1>1, PreFold!FoldRuns
<1>4. /\ run[0] = start
      /\ \A k \in 1 .. n : run[k] = Replay(run[k - 1], links[k], s)
      /\ PreFold!Fold(s, 0, 0, start, links) = run[n]
  BY <1>3 DEF PreFold!IsRun, ReplayLink
<1>5. IsReplay(run, s, h, n, start)
  <2>1. \A k \in 1 .. n : run[k] = Replay(run[k - 1], h[n - k], s)
    BY <1>1, <1>4
  <2>2. Result(s, h, n, start) = run[n]
    BY <1>2, <1>4 DEF Result, links
  <2>3. QED
    BY <1>4, <2>1, <2>2 DEF IsReplay
<1>6. QED
  BY <1>5

(* The newest step is replayed last. *)
LEMMA NewestLast ==
  ASSUME NEW s, NEW h, NEW f, NEW n \in Nat, NEW start, \A k \in 0 .. n - 1 : f[k] = h[k + 1]
  PROVE  Result(s, h, n + 1, start) = Replay(Result(s, f, n, start), h[0], s)
<1>1. PICK new : IsReplay(new, s, h, n + 1, start)
  <2>1. n + 1 \in Nat
    OBVIOUS
  <2>2. QED
    BY <2>1, ReplayRuns
<1>2. PICK old : IsReplay(old, s, f, n, start)
  BY ReplayRuns
<1> DEFINE T == {k \in 0 .. n : new[k] = old[k]}
<1>3. 0 \in T
  BY <1>1, <1>2 DEF IsReplay
<1>4. ASSUME NEW k \in 0 .. n - 1, k \in T PROVE k + 1 \in T
  <2>1. k + 1 \in 1 .. n /\ k + 1 \in 1 .. n + 1 /\ (k + 1) - 1 = k /\ k + 1 \in 0 .. n
    OBVIOUS
  <2>2. new[k + 1] = Replay(new[k], h[(n + 1) - (k + 1)], s)
    BY <1>1, <2>1 DEF IsReplay
  <2>3. old[k + 1] = Replay(old[k], f[n - (k + 1)], s)
    BY <1>2, <2>1 DEF IsReplay
  <2>4. n - (k + 1) \in 0 .. n - 1 /\ (n - (k + 1)) + 1 = (n + 1) - (k + 1)
    OBVIOUS
  <2>5. f[n - (k + 1)] = h[(n + 1) - (k + 1)]
    BY <2>4
  <2>6. new[k] = old[k]
    BY <1>4
  <2>7. QED
    BY <2>1, <2>2, <2>3, <2>5, <2>6
<1>5. new[n] = old[n]
  <2> HIDE DEF T
  <2>1. \A k \in 0 .. n : k \in T
    BY <1>3, <1>4, NotesFold!Counting
  <2>2. QED
    BY <2>1 DEF T
<1>6. new[n + 1] = Replay(new[n], h[0], s)
  <2>1. n + 1 \in 1 .. n + 1 /\ (n + 1) - 1 = n /\ (n + 1) - (n + 1) = 0
    OBVIOUS
  <2>2. QED
    BY <1>1, <2>1 DEF IsReplay
<1>7. QED
  BY <1>1, <1>2, <1>5, <1>6 DEF IsReplay

(* No step at all leaves the result it started from. *)
LEMMA NoStepAtAll ==
  ASSUME NEW s, NEW h, NEW start
  PROVE  Result(s, h, 0, start) = start
<1>1. PICK run : IsReplay(run, s, h, 0, start)
  BY ReplayRuns
<1>2. QED
  BY <1>1 DEF IsReplay

(* A chain of n steps, as PreChain finds it. *)
LEMMA ChainResult ==
  ASSUME NEW s, s.pulses # 0, s.pulses \in Nat, NEW g, LooksBack(s, g), NEW fl,
         NEW n, ChainDepth(s, Hops(s, g)) = n
  PROVE  ConditionPasses(s, g, fl) =
           Result(s, Hops(s, g), n,
                  /\ ~ LooksBack(s, Hops(s, g)[n])
                  /\ AcyclicConditionPasses(s, Hops(s, g)[n], fl)
                  /\ ProbabilityPasses(s, Hops(s, g)[n]))
<1> DEFINE h == Hops(s, g)
           chain == PreChain(s, g)
<1>1. s.pulses > 0
  OBVIOUS
<1>2. /\ chain.links = Links(h, n)
      /\ chain.anchored <=> ~ LooksBack(s, h[n])
      /\ chain.anchored \in BOOLEAN
      /\ chain.anchor = h[n]
  BY <1>1 DEF PreChain, Links
<1>3. ConditionPasses(s, g, fl) =
        ReplayAll(s, chain.links,
                  /\ chain.anchored
                  /\ AcyclicConditionPasses(s, chain.anchor, fl)
                  /\ ProbabilityPasses(s, chain.anchor))
  BY DEF ConditionPasses
<1> HIDE DEF h, chain
<1>4. chain.anchored = ~ LooksBack(s, h[n])
  BY <1>2
<1>5. QED
  BY <1>2, <1>3, <1>4 DEF Result, h

(* A step whose condition and probability both let it sound. *)
Heard(s, g, fl) == ConditionPasses(s, g, fl) /\ ProbabilityPasses(s, g)

(* The gated steps before one, from the first on, that look back. *)
LookBackFor(s, h, a) == \A k \in 1 .. a : LooksBack(s, h[k])

(* PRE, when a gated step near enough does not look back: it takes what the  *)
(* last gated step did, found by replaying all from there.                   *)
LEMMA ChainFrom ==
  ASSUME NEW s, s.pulses # 0, s.pulses \in Nat, NEW g, LooksBack(s, g), NEW fl,
         NEW a \in 0 .. MaxPreChainDepth - 1,
         LookBackFor(s, Hops(s, g), a), ~ LooksBack(s, Hops(s, g)[a + 1])
  PROVE  ConditionPasses(s, g, fl) = Replay(Heard(s, Hops(s, g)[1], fl), g, s)
<1> DEFINE h == Hops(s, g)
           b == h[1]
           f == Hops(s, b)
           start(x) == /\ ~ LooksBack(s, x)
                       /\ AcyclicConditionPasses(s, x, fl)
                       /\ ProbabilityPasses(s, x)
<1>0. MaxPreChainDepth \in Nat \ {0}
  BY StepLogicAssumption
<1>1. h[0] = g /\ f[0] = b
  BY HopsAreTrail DEF IsTrail
<1>2. \A k \in 0 .. MaxPreChainDepth - 1 : f[k] = h[k + 1]
  BY HopsFromPrevious
<1>3. ChainDepth(s, h) = a + 1
  BY DepthIs DEF LookBackFor
<1>4. ConditionPasses(s, g, fl) = Result(s, h, a + 1, start(h[a + 1]))
  BY <1>3, ChainResult
<1>5. a \in Nat /\ \A k \in 0 .. a - 1 : f[k] = h[k + 1]
  BY <1>0, <1>2
<1>6. ConditionPasses(s, g, fl) = Replay(Result(s, f, a, start(h[a + 1])), g, s)
  <2> HIDE DEF h, f, start
  <2>1. Result(s, h, a + 1, start(h[a + 1])) = Replay(Result(s, f, a, start(h[a + 1])), h[0], s)
    BY <1>5, NewestLast
  <2>2. QED
    BY <1>1, <1>4, <2>1
<1>7. Result(s, f, a, start(h[a + 1])) = Heard(s, b, fl)
  <2>1. CASE a = 0
    <3>1. Result(s, f, a, start(h[a + 1])) = start(b)
      <4>1. a + 1 = 1
        BY <2>1
      <4> HIDE DEF f, start
      <4>2. QED
        BY <2>1, <4>1, NoStepAtAll
    <3>2. ~ LooksBack(s, b)
      BY <2>1
    <3>3. ConditionPasses(s, b, fl) = AcyclicConditionPasses(s, b, fl)
      BY <3>2 DEF ConditionPasses
    <3> HIDE DEF b
    <3>4. QED
      BY <3>1, <3>2, <3>3 DEF Heard
  <2>2. CASE a # 0
    <3> DEFINE c == a - 1
    <3>1. c \in 0 .. MaxPreChainDepth - 1 /\ c + 1 = a /\ 1 \in 1 .. a
      BY <1>0, <2>2
    <3>2. LooksBack(s, b)
      BY <3>1 DEF LookBackFor
    <3>3. \A k \in 1 .. c : LooksBack(s, f[k])
      <4>1. TAKE k \in 1 .. c
      <4>2. k \in 0 .. MaxPreChainDepth - 1 /\ k + 1 \in 1 .. a
        BY <1>0, <3>1
      <4>3. QED
        BY <1>2, <4>2 DEF LookBackFor
    <3>4. f[c + 1] = h[a + 1]
      <4>1. a \in 0 .. MaxPreChainDepth - 1
        OBVIOUS
      <4>2. QED
        BY <1>2, <3>1, <4>1
    <3>5. ChainDepth(s, f) = a
      <4>1. ~ LooksBack(s, f[c + 1])
        BY <3>4
      <4> HIDE DEF f, c
      <4>2. ChainDepth(s, f) = c + 1
        BY <3>1, <3>3, <4>1, DepthIs
      <4>3. QED
        BY <3>1, <4>2
    <3>6. ConditionPasses(s, b, fl) = Result(s, f, a, start(f[a]))
      BY <3>2, <3>5, ChainResult
    <3>7. f[a] = h[a + 1]
      BY <3>1, <3>4
    <3>8. ConditionPasses(s, b, fl) \in BOOLEAN /\ (ConditionPasses(s, b, fl) => ProbabilityPasses(s, b))
      <4> DEFINE st == start(f[a])
      <4> HIDE DEF st
      <4>1. PICK run : IsReplay(run, s, f, a, st)
        BY <1>5, ReplayRuns
      <4>2. a \in 1 .. a /\ a - a = 0
        BY <1>5, <2>2
      <4>3. Result(s, f, a, st) = Replay(run[a - 1], f[0], s)
        BY <4>1, <4>2 DEF IsReplay
      <4>4. ConditionPasses(s, b, fl) = Replay(run[a - 1], b, s)
        BY <1>1, <3>6, <4>3 DEF st
      <4>5. QED
        BY <4>4 DEF Replay
    <3>9. ConditionPasses(s, b, fl) = Heard(s, b, fl)
      BY <3>8 DEF Heard
    <3>10. QED
      BY <3>6, <3>7, <3>9
  <2>3. QED
    BY <2>1, <2>2
<1>8. QED
  BY <1>6, <1>7

(* PRE, behind a run of PRE as long as is followed: it takes failure.        *)
LEMMA ChainTooLong ==
  ASSUME NEW s, s.pulses # 0, s.pulses \in Nat, NEW g, LooksBack(s, g), NEW fl,
         \A k \in 1 .. MaxPreChainDepth : LaneValueAt(s.cond, Hops(s, g)[k]).kind = "pre"
  PROVE  ConditionPasses(s, g, fl) = Replay(FALSE, g, s)
<1> DEFINE h == Hops(s, g)
           n == MaxPreChainDepth
           st == /\ ~ LooksBack(s, h[n])
                 /\ AcyclicConditionPasses(s, h[n], fl)
                 /\ ProbabilityPasses(s, h[n])
<1>0. n \in Nat \ {0}
  BY StepLogicAssumption
<1>1. h[0] = g
  BY HopsAreTrail DEF IsTrail
<1>2. \A k \in 1 .. n : LooksBack(s, h[k])
  BY DEF LooksBack
<1>3. ChainDepth(s, h) = n
  BY <1>2, DepthIsMost
<1>4. ConditionPasses(s, g, fl) = Result(s, h, n, st)
  BY <1>3, ChainResult
<1>5. st = FALSE
  BY <1>0, <1>2
<1> HIDE DEF h, st
<1>6. PICK run : IsReplay(run, s, h, n, st)
  BY <1>0, ReplayRuns
<1> DEFINE T == {k \in 0 .. n - 1 : run[k] = FALSE}
<1>7. 0 \in T
  BY <1>0, <1>5, <1>6 DEF IsReplay
<1>8. ASSUME NEW k \in 0 .. (n - 1) - 1, k \in T PROVE k + 1 \in T
  <2>1. k + 1 \in 1 .. n /\ (k + 1) - 1 = k /\ n - (k + 1) \in 1 .. n /\ k + 1 \in 0 .. n - 1
    BY <1>0
  <2>2. run[k + 1] = Replay(run[k], h[n - (k + 1)], s)
    BY <1>6, <2>1 DEF IsReplay
  <2>3. LaneValueAt(s.cond, h[n - (k + 1)]).kind = "pre"
    BY <2>1 DEF h
  <2>4. run[k] = FALSE
    BY <1>8
  <2>5. run[k + 1] = FALSE
    BY <2>2, <2>3, <2>4 DEF Replay, PreResult
  <2>6. QED
    BY <2>1, <2>5
<1>9. run[n - 1] = FALSE
  <2>1. n - 1 \in Nat /\ n - 1 \in 0 .. n - 1
    BY <1>0
  <2> HIDE DEF T, n
  <2>2. \A k \in 0 .. n - 1 : k \in T
    BY <1>7, <1>8, <2>1, NotesFold!Counting
  <2>3. QED
    BY <2>1, <2>2 DEF T
<1>10. run[n] = Replay(run[n - 1], h[0], s)
  <2>1. n \in 1 .. n /\ n - n = 0
    BY <1>0
  <2>2. QED
    BY <1>6, <2>1 DEF IsReplay
<1>11. QED
  BY <1>1, <1>4, <1>6, <1>9, <1>10 DEF IsReplay

(* PRE, whatever is behind it: it takes some result.                         *)
LEMMA ChainEnds ==
  ASSUME NEW s, s.pulses # 0, s.pulses \in Nat, NEW g, LooksBack(s, g), NEW fl
  PROVE  \E previous \in BOOLEAN : ConditionPasses(s, g, fl) = Replay(previous, g, s)
<1> DEFINE h == Hops(s, g)
<1>0. MaxPreChainDepth \in Nat \ {0} /\ h[0] = g
  BY StepLogicAssumption, HopsAreTrail DEF IsTrail
<1>1. PICK a \in 0 .. MaxPreChainDepth :
           /\ \A j \in 1 .. a : LooksBack(s, h[j])
           /\ a = MaxPreChainDepth \/ ~ LooksBack(s, h[a + 1])
  BY DepthExists
<1>2. PICK n \in Nat \ {0} : ChainDepth(s, h) = n
  <2>1. CASE a = MaxPreChainDepth
    BY <1>0, <1>1, <2>1, DepthIsMost
  <2>2. CASE a # MaxPreChainDepth
    <3>1. a \in 0 .. MaxPreChainDepth - 1 /\ a + 1 \in Nat \ {0}
      BY <1>0, <2>2
    <3> HIDE DEF h
    <3>2. ChainDepth(s, h) = a + 1
      BY <1>1, <2>2, <3>1, DepthIs
    <3>3. QED
      BY <3>1, <3>2
  <2>3. QED
    BY <2>1, <2>2
<1> DEFINE st == /\ ~ LooksBack(s, h[n])
                 /\ AcyclicConditionPasses(s, h[n], fl)
                 /\ ProbabilityPasses(s, h[n])
<1>3. ConditionPasses(s, g, fl) = Result(s, h, n, st)
  BY <1>2, ChainResult
<1>4. st \in BOOLEAN
  OBVIOUS
<1> HIDE DEF h, st
<1>5. PICK run : IsReplay(run, s, h, n, st)
  BY ReplayRuns
<1>6. run[n] = Replay(run[n - 1], h[0], s)
  <2>1. n \in 1 .. n /\ n - n = 0
    OBVIOUS
  <2>2. QED
    BY <1>5, <2>1 DEF IsReplay
<1>7. run[n - 1] \in BOOLEAN
  <2>1. CASE n = 1
    <3>1. n - 1 = 0
      BY <2>1
    <3>2. QED
      BY <1>4, <1>5, <3>1 DEF IsReplay
  <2>2. CASE n # 1
    <3>1. n - 1 \in 1 .. n
      BY <2>2
    <3>2. run[n - 1] = Replay(run[(n - 1) - 1], h[n - (n - 1)], s)
      BY <1>5, <3>1 DEF IsReplay
    <3>3. QED
      BY <3>2 DEF Replay
  <2>3. QED
    BY <2>1, <2>2
<1>8. QED
  BY <1>0, <1>3, <1>5, <1>6, <1>7 DEF IsReplay

-----------------------------------------------------------------------------
(* The note of a rung.                                                       *)

(* A ladder of notes, as Climb builds it.                                    *)
IsLadder(f, pool) ==
  f = [k \in Int |->
         CASE k < 0 -> f[k + Len(pool)] - 12
           [] k \in 0 .. Len(pool) - 1 -> pool[k + 1]
           [] k >= Len(pool) -> f[k - Len(pool)] + 12]

(* The notes of a pool.                                                      *)
LEMMA PoolHolds ==
  ASSUME NEW S, NEW pool \in Seq(S)
  PROVE  \A k \in 1 .. Len(pool) : pool[k] \in S
OBVIOUS

(* poolNoteAtDegree is one.                                                  *)
LEMMA DegreesAreLadder ==
  ASSUME NEW pool \in Seq(0 .. 127), pool # << >>
  PROVE  IsLadder([k \in Int |-> PoolNoteAtDegree(pool, k)], pool)
<1> DEFINE n == Len(pool)
           f == [k \in Int |-> PoolNoteAtDegree(pool, k)]
           note(q, r) == pool[1 + r] + 12 * q
<1>1. n \in Nat \ {0} /\ \A k \in 1 .. n : pool[k] \in Int
  <2>1. n \in Nat \ {0}
    OBVIOUS
  <2>2. \A k \in 1 .. n : pool[k] \in 0 .. 127
    BY PoolHolds
  <2>3. \A x \in 0 .. 127 : x \in Int
    OBVIOUS
  <2> HIDE DEF n
  <2>4. QED
    BY <2>1, <2>2, <2>3
<1>2. ASSUME NEW q \in Int, NEW r \in 0 .. n - 1, NEW k \in Int, k = n * q + r
      PROVE  PoolNoteAtDegree(pool, k) = note(q, r)
  <2> HIDE DEF n
  <2>1. k \div n = q
    BY <1>1, <1>2, Quotient
  <2>2. k - q * n = r
    BY <1>1, <1>2
  <2>3. PoolNoteAtDegree(pool, k) = pool[1 + (k - (k \div n) * n)] + 12 * (k \div n)
    BY DEF PoolNoteAtDegree, n
  <2>4. QED
    BY <2>1, <2>2, <2>3
<1>3. ASSUME NEW k \in Int
      PROVE  f[k] = CASE k < 0 -> f[k + n] - 12
                      [] k \in 0 .. n - 1 -> pool[k + 1]
                      [] k >= n -> f[k - n] + 12
  <2> DEFINE q == k \div n
             r == k % n
  <2>1. q \in Int /\ r \in 0 .. n - 1 /\ k = n * q + r
    <3> HIDE DEF n
    <3>1. QED
      BY <1>1, Division
  <2>2. f[k] = PoolNoteAtDegree(pool, k)
    OBVIOUS
  <2> HIDE DEF q, r, n, f, note
  <2>3. PoolNoteAtDegree(pool, k) = note(q, r)
    BY <1>2, <2>1
  <2>4. note(q, r) \in Int
    <3>1. 1 + r \in 1 .. n
      BY <1>1, <2>1
    <3>2. QED
      BY <1>1, <2>1, <3>1 DEF note
  <2>5. CASE k < 0
    <3> DEFINE j == k + n
               p == q + 1
    <3>1. j \in Int /\ p \in Int /\ j = n * p + r
      BY <1>1, <2>1
    <3> HIDE DEF j, p
    <3>2. PoolNoteAtDegree(pool, j) = note(p, r)
      BY <1>2, <2>1, <3>1
    <3>3. note(p, r) = note(q, r) + 12
      <4>1. pool[1 + r] \in Int
        BY <1>1, <2>1
      <4>2. QED
        BY <2>1, <4>1 DEF note, p
    <3>4. f[j] = PoolNoteAtDegree(pool, j)
      BY <3>1 DEF f
    <3>5. f[k] = f[j] - 12
      BY <2>2, <2>3, <2>4, <3>2, <3>3, <3>4
    <3>6. ~ (k \in 0 .. n - 1) /\ ~ (k >= n)
      BY <1>1, <2>5
    <3>7. QED
      BY <2>5, <3>5, <3>6 DEF j
  <2>6. CASE k \in 0 .. n - 1
    <3>1. k = n * 0 + k /\ 0 \in Int /\ ~ (k < 0) /\ ~ (k >= n)
      BY <1>1, <2>6
    <3>2. PoolNoteAtDegree(pool, k) = note(0, k)
      BY <1>2, <2>6, <3>1
    <3>3. note(0, k) = pool[k + 1]
      <4>1. 1 + k \in 1 .. n /\ 1 + k = k + 1
        BY <1>1, <2>6
      <4>2. QED
        BY <1>1, <4>1 DEF note
    <3>4. QED
      BY <2>2, <2>6, <3>1, <3>2, <3>3
  <2>7. CASE k >= n
    <3> DEFINE j == k - n
               p == q - 1
    <3>1. j \in Int /\ p \in Int /\ j = n * p + r
      BY <1>1, <2>1
    <3> HIDE DEF j, p
    <3>2. PoolNoteAtDegree(pool, j) = note(p, r)
      BY <1>2, <2>1, <3>1
    <3>3. note(q, r) = note(p, r) + 12
      <4>1. pool[1 + r] \in Int
        BY <1>1, <2>1
      <4>2. QED
        BY <2>1, <4>1 DEF note, p
    <3>4. f[j] = PoolNoteAtDegree(pool, j)
      BY <3>1 DEF f
    <3>5. f[k] = f[j] + 12
      BY <2>2, <2>3, <3>2, <3>3, <3>4
    <3>6. ~ (k \in 0 .. n - 1) /\ ~ (k < 0)
      BY <1>1, <2>7
    <3>7. QED
      BY <2>7, <3>5, <3>6 DEF j
  <2>8. QED
    BY <1>1, <2>5, <2>6, <2>7
<1>4. f = [k \in Int |-> f[k]]
  OBVIOUS
<1> HIDE DEF f
<1>5. f = [k \in Int |->
             CASE k < 0 -> f[k + n] - 12
               [] k \in 0 .. n - 1 -> pool[k + 1]
               [] k >= n -> f[k - n] + 12]
  BY <1>3, <1>4
<1>6. IsLadder(f, pool)
  BY <1>5 DEF IsLadder
<1>7. QED
  BY <1>6 DEF f

(* There is only one.                                                        *)
LEMMA LaddersAgree ==
  ASSUME NEW pool \in Seq(0 .. 127), pool # << >>,
         NEW f, IsLadder(f, pool), NEW g, IsLadder(g, pool), NEW degree \in Int
  PROVE  f[degree] = g[degree]
<1> DEFINE n == Len(pool)
           T(b) == {m \in 0 .. b : \A k \in -m .. (n - 1) + m : f[k] = g[k]}
<1>1. n \in Nat \ {0}
  OBVIOUS
<1>2. ASSUME NEW k \in Int
      PROVE  /\ k < 0 => f[k] = f[k + n] - 12 /\ g[k] = g[k + n] - 12
             /\ k \in 0 .. n - 1 => f[k] = g[k]
             /\ k >= n => f[k] = f[k - n] + 12 /\ g[k] = g[k - n] + 12
  <2> DEFINE Rung(h) == CASE k < 0 -> h[k + n] - 12
                          [] k \in 0 .. n - 1 -> pool[k + 1]
                          [] k >= n -> h[k - n] + 12
  <2>1. f[k] = Rung(f) /\ g[k] = Rung(g)
    BY DEF IsLadder
  <2> HIDE DEF n
  <2>2. CASE k < 0
    <3>1. ~ (k \in 0 .. n - 1) /\ ~ (k >= n)
      BY <1>1, <2>2
    <3>2. QED
      BY <2>1, <2>2, <3>1
  <2>3. CASE k \in 0 .. n - 1
    <3>1. ~ (k < 0) /\ ~ (k >= n)
      BY <1>1, <2>3
    <3>2. QED
      BY <2>1, <2>3, <3>1
  <2>4. CASE k >= n
    <3>1. ~ (k \in 0 .. n - 1) /\ ~ (k < 0)
      BY <1>1, <2>4
    <3>2. QED
      BY <2>1, <2>4, <3>1
  <2>5. QED
    BY <1>1, <2>2, <2>3, <2>4
<1>3. ASSUME NEW b \in Nat PROVE 0 \in T(b)
  <2> HIDE DEF n
  <2>1. \A k \in -0 .. (n - 1) + 0 : k \in 0 .. n - 1 /\ k \in Int
    BY <1>1
  <2>2. \A k \in -0 .. (n - 1) + 0 : f[k] = g[k]
    BY <1>2, <2>1
  <2>3. QED
    BY <2>2
<1>4. ASSUME NEW b \in Nat, NEW m \in 0 .. b - 1, m \in T(b) PROVE m + 1 \in T(b)
  <2> HIDE DEF n
  <2>1. ASSUME NEW k \in -(m + 1) .. (n - 1) + (m + 1) PROVE f[k] = g[k]
    <3>0. k \in Int /\ \A j \in -m .. (n - 1) + m : f[j] = g[j]
      BY <1>1, <1>4
    <3>1. CASE k < 0
      <4>1. k + n \in -m .. (n - 1) + m
        BY <1>1, <3>0, <3>1
      <4>2. QED
        BY <1>2, <3>0, <3>1, <4>1
    <3>2. CASE k \in 0 .. n - 1
      BY <1>2, <3>0, <3>2
    <3>3. CASE k >= n
      <4>1. k - n \in -m .. (n - 1) + m
        BY <1>1, <3>0, <3>3
      <4>2. QED
        BY <1>2, <3>0, <3>3, <4>1
    <3>4. QED
      BY <1>1, <3>0, <3>1, <3>2, <3>3
  <2>2. m + 1 \in 0 .. b
    OBVIOUS
  <2>3. QED
    BY <2>1, <2>2
<1>5. ASSUME NEW b \in Nat, degree \in -b .. b PROVE f[degree] = g[degree]
  <2> DEFINE U == T(b)
  <2>1. 0 \in U /\ \A m \in 0 .. b - 1 : m \in U => m + 1 \in U
    BY <1>3, <1>4
  <2> HIDE DEF U
  <2>2. \A m \in 0 .. b : m \in U
    BY <2>1, NotesFold!Counting
  <2>3. b \in U
    BY <2>2
  <2> HIDE DEF n
  <2>4. degree \in -b .. (n - 1) + b
    BY <1>1, <1>5
  <2>5. QED
    BY <2>3, <2>4 DEF U
<1>6. degree \in Nat \/ -degree \in Nat
  OBVIOUS
<1>7. CASE degree \in Nat
  <2>1. degree \in -degree .. degree
    BY <1>7
  <2>2. QED
    BY <1>5, <1>7, <2>1
<1>8. CASE -degree \in Nat
  <2> DEFINE b == -degree
  <2>1. b \in Nat /\ degree \in -b .. b
    BY <1>8
  <2> HIDE DEF b
  <2>2. QED
    BY <1>5, <2>1
<1>9. QED
  BY <1>6, <1>7, <1>8

(* So the note the evaluator divides for is the one the walk climbs to.      *)
LEMMA ClimbIsDegree ==
  ASSUME NEW pool \in Seq(0 .. 127), pool # << >>, NEW degree \in Int
  PROVE  Walk!Climb(pool, degree) = PoolNoteAtDegree(pool, degree)
<1> DEFINE f == CHOOSE h : IsLadder(h, pool)
           g == [k \in Int |-> PoolNoteAtDegree(pool, k)]
<1>1. Walk!Climb(pool, degree) = f[degree]
  BY DEF Walk!Climb, IsLadder
<1>2. IsLadder(g, pool)
  BY DegreesAreLadder
<1>3. IsLadder(f, pool)
  BY <1>2
<1> HIDE DEF f
<1>4. f[degree] = g[degree]
  <2> HIDE DEF g
  <2>1. QED
    BY <1>2, <1>3, LaddersAgree
<1>5. QED
  BY <1>1, <1>4

(* A step's note is no silence: pitch and octave keep it above that.         *)
LEMMA NoteIsNoSilence ==
  ASSUME NEW pool \in Seq(0 .. 127), pool # << >>, NEW degree \in Int, degree >= -24,
         NEW oct \in -4 .. 4
  PROVE  PoolNoteAtDegree(pool, degree) + 12 * oct > -1000
<1> DEFINE n == Len(pool)
           q == degree \div n
           r == degree % n
<1>1. n \in Nat \ {0} /\ \A k \in 1 .. n : pool[k] \in 0 .. 127
  <2>1. n \in Nat \ {0}
    OBVIOUS
  <2>2. \A k \in 1 .. n : pool[k] \in 0 .. 127
    BY PoolHolds
  <2>3. QED
    BY <2>1, <2>2
<1>2. q \in Int /\ r \in 0 .. n - 1 /\ degree = n * q + r
  <2> HIDE DEF n
  <2>1. QED
    BY <1>1, Division
<1>3. PoolNoteAtDegree(pool, degree) = pool[1 + (degree - q * n)] + 12 * q
  BY DEF PoolNoteAtDegree
<1> HIDE DEF n, q, r
<1>4. degree - q * n = r
  BY <1>1, <1>2
<1>5. 1 + r \in 1 .. n
  BY <1>1, <1>2
<1>6. pool[1 + r] \in 0 .. 127
  BY <1>1, <1>5
<1>7. q >= -24
  <2>1. SUFFICES ASSUME q <= -25 PROVE FALSE
    BY <1>2
  <2>2. n * (-25 - q) \in Nat
    <3>1. -25 - q \in Nat /\ n \in Nat
      BY <1>1, <1>2, <2>1
    <3>2. QED
      BY <3>1, ProductIsNat
  <2>3. n * (-25 - q) = -(25 * n) - n * q
    BY <1>1, <1>2
  <2>4. n * q \in Int
    BY <1>1, <1>2
  <2>5. QED
    BY <1>1, <1>2, <2>2, <2>3, <2>4
<1>8. PoolNoteAtDegree(pool, degree) = pool[1 + r] + 12 * q
  BY <1>3, <1>4
<1> DEFINE x == pool[1 + r]
<1>9. PoolNoteAtDegree(pool, degree) = x + 12 * q /\ x \in 0 .. 127
  BY <1>6, <1>8
<1> HIDE DEF x
<1>10. x + 12 * q >= -288 /\ 12 * oct >= -48 /\ x + 12 * q \in Int
  BY <1>2, <1>7, <1>9
<1>11. QED
  BY <1>9, <1>10

-----------------------------------------------------------------------------
(* The history kept for the comparison.                                      *)

(* What the last gated steps before a step were, as far back as age goes,    *)
(* and whether the last one sounded.                                         *)
Remembers(s, g, fl, a, sounded) ==
  /\ s.pulses # 0
  /\ LookBackFor(s, Hops(s, g), a)
  /\ ~ LooksBack(s, Hops(s, g)[a + 1])
  /\ sounded = (Heard(s, Hops(s, g)[1], fl) /\ s.pool # << >>)

(* The last gated steps before a step were all PRE.                          *)
RunOfPre(s, g, n) ==
  /\ s.pulses # 0
  /\ \A k \in 1 .. n : LaneValueAt(s.cond, Hops(s, g)[k]).kind = "pre"

(* A gated step shows that the cycle has one.                                *)
LEMMA GatedHasPulses ==
  ASSUME NEW s, IsPlayable(s), NEW g \in Int
  PROVE  s.pulses \in Nat /\ (IsGated(s, g) => s.pulses # 0)
<1> DEFINE all == GatedPhases(s.gate)
<1>1. s.period \in Nat \ {0} /\ PhaseAt(s, g) \in 0 .. s.period - 1
  BY PeriodIsPositive, PlaceOf
<1>2. 0 \in 0 .. s.period
  BY <1>1
<1>3. IsFiniteSet(all)
  BY <1>2, BeforeIsFinite
<1>4. s.pulses = Cardinality(all) /\ s.period = Period(s.gate)
  BY DEF IsPlayable
<1>5. IsGated(s, g) => PhaseAt(s, g) \in all
  BY <1>1, <1>4, GatedByPhase DEF GatedPhases
<1> HIDE DEF all
<1>6. Cardinality(all) \in Nat
  BY <1>3, FS_CardinalityType
<1>7. all # {} => Cardinality(all) # 0
  BY <1>3, FS_EmptySet
<1>8. QED
  BY <1>4, <1>5, <1>6, <1>7

(* Hops, over a gated step and over another one.                             *)
LEMMA HopsGoOn ==
  ASSUME NEW s, IsPlayable(s), s.pulses # 0, NEW g \in Int
  PROVE  /\ IsGated(s, g) =>
              /\ Hops(s, g + 1)[1] = g
              /\ \A k \in 1 .. MaxPreChainDepth - 1 : Hops(s, g + 1)[k + 1] = Hops(s, g)[k]
         /\ ~ IsGated(s, g) =>
              \A k \in 1 .. MaxPreChainDepth : Hops(s, g + 1)[k] = Hops(s, g)[k]
<1> DEFINE f == Hops(s, g + 1)
           h == Hops(s, g)
<1>1. MaxPreChainDepth \in Nat \ {0} /\ h[0] = g
  BY StepLogicAssumption, HopsAreTrail DEF IsTrail
<1>2. IsGated(s, g) <=> IsGatedPhase(s.gate, PhaseAt(s, g))
  BY GatedByPhase
<1>3. IF IsGated(s, g)
      THEN \A k \in 0 .. MaxPreChainDepth - 1 : f[k + 1] = h[k]
      ELSE \A k \in 1 .. MaxPreChainDepth : f[k] = h[k]
  BY <1>2, HopsAfterStep
<1> HIDE DEF f, h
<1>4. ASSUME IsGated(s, g)
      PROVE  f[1] = g /\ \A k \in 1 .. MaxPreChainDepth - 1 : f[k + 1] = h[k]
  <2>1. 0 \in 0 .. MaxPreChainDepth - 1 /\ 0 + 1 = 1
    BY <1>1
  <2>2. f[1] = h[0]
    BY <1>3, <1>4, <2>1
  <2>3. \A k \in 1 .. MaxPreChainDepth - 1 : k \in 0 .. MaxPreChainDepth - 1
    BY <1>1
  <2>4. QED
    BY <1>1, <1>3, <1>4, <2>2, <2>3
<1>5. QED
  BY <1>3, <1>4 DEF f, h

(* The memory of the walk keeps up with the steps.                           *)
LEMMA MemoryGoesOn ==
  ASSUME NEW s, IsPlayable(s), NEW g \in Int, NEW fl, NEW sounded,
         NEW a \in 0 .. MaxPreChainDepth,
         a < MaxPreChainDepth => Remembers(s, g, fl, a, sounded)
  PROVE  /\ ~ IsGated(s, g) /\ a < MaxPreChainDepth => Remembers(s, g + 1, fl, a, sounded)
         /\ IsGated(s, g) /\ LooksBack(s, g) /\ a + 1 < MaxPreChainDepth =>
              Remembers(s, g + 1, fl, a + 1, Heard(s, g, fl) /\ s.pool # << >>)
         /\ IsGated(s, g) /\ ~ LooksBack(s, g) =>
              Remembers(s, g + 1, fl, 0, Heard(s, g, fl) /\ s.pool # << >>)
<1> DEFINE f == Hops(s, g + 1)
           h == Hops(s, g)
<1>0. MaxPreChainDepth \in Nat \ {0}
  BY StepLogicAssumption
<1>1. s.pulses # 0 /\ IsGated(s, g) =>
        f[1] = g /\ \A k \in 1 .. MaxPreChainDepth - 1 : f[k + 1] = h[k]
  BY HopsGoOn
<1>2. s.pulses # 0 /\ ~ IsGated(s, g) => \A k \in 1 .. MaxPreChainDepth : f[k] = h[k]
  BY HopsGoOn
<1>3. IsGated(s, g) => s.pulses # 0
  BY GatedHasPulses
<1>4. ASSUME a < MaxPreChainDepth
      PROVE  /\ s.pulses # 0 /\ \A k \in 1 .. a : LooksBack(s, h[k])
             /\ ~ LooksBack(s, h[a + 1]) /\ sounded = (Heard(s, h[1], fl) /\ s.pool # << >>)
  BY <1>4 DEF Remembers, LookBackFor
<1> HIDE DEF f, h
<1>5. ASSUME ~ IsGated(s, g), a < MaxPreChainDepth PROVE Remembers(s, g + 1, fl, a, sounded)
  <2>1. 1 \in 1 .. MaxPreChainDepth /\ a + 1 \in 1 .. MaxPreChainDepth
    BY <1>0, <1>5
  <2>2. \A k \in 1 .. a : k \in 1 .. MaxPreChainDepth
    BY <1>0
  <2>3. f[1] = h[1] /\ f[a + 1] = h[a + 1] /\ \A k \in 1 .. a : f[k] = h[k]
    BY <1>2, <1>4, <1>5, <2>1, <2>2
  <2>4. QED
    BY <1>4, <1>5, <2>3 DEF Remembers, LookBackFor, f
<1>6. ASSUME IsGated(s, g), LooksBack(s, g), a + 1 < MaxPreChainDepth
      PROVE  Remembers(s, g + 1, fl, a + 1, Heard(s, g, fl) /\ s.pool # << >>)
  <2>0. a < MaxPreChainDepth
    BY <1>0, <1>6
  <2>1. a + 1 \in 1 .. MaxPreChainDepth - 1
    BY <1>0, <1>6
  <2>2. f[1] = g /\ f[(a + 1) + 1] = h[a + 1]
    BY <1>1, <1>3, <1>6, <2>1
  <2>3. ASSUME NEW k \in 1 .. a + 1 PROVE LooksBack(s, f[k])
    <3>1. CASE k = 1
      BY <1>6, <2>2, <3>1
    <3>2. CASE k # 1
      <4> DEFINE j == k - 1
      <4>1. j \in 1 .. MaxPreChainDepth - 1 /\ j + 1 = k /\ j \in 1 .. a
        BY <1>0, <2>1, <3>2
      <4> HIDE DEF j
      <4>2. f[j + 1] = h[j]
        BY <1>1, <1>3, <1>6, <4>1
      <4>3. QED
        BY <1>4, <2>0, <4>1, <4>2
    <3>3. QED
      BY <3>1, <3>2
  <2>4. ~ LooksBack(s, f[(a + 1) + 1])
    BY <1>4, <2>0, <2>2
  <2>5. s.pulses # 0
    BY <1>3, <1>6
  <2>6. QED
    BY <2>2, <2>3, <2>4, <2>5 DEF Remembers, LookBackFor, f
<1>7. ASSUME IsGated(s, g), ~ LooksBack(s, g)
      PROVE  Remembers(s, g + 1, fl, 0, Heard(s, g, fl) /\ s.pool # << >>)
  <2>1. f[1] = g /\ s.pulses # 0
    BY <1>1, <1>3, <1>7
  <2>2. 0 + 1 = 1 /\ \A k \in 1 .. 0 : FALSE
    OBVIOUS
  <2>3. QED
    BY <1>7, <2>1, <2>2 DEF Remembers, LookBackFor, f
<1>8. QED
  BY <1>5, <1>6, <1>7

(* A run of steps that look back, and one more.                              *)
LEMMA RunGoesOn ==
  ASSUME NEW s, IsPlayable(s), NEW g \in Int, NEW n \in 0 .. MaxPreChainDepth,
         n > 0 => RunOfPre(s, g, n)
  PROVE  /\ ~ IsGated(s, g) /\ n > 0 => RunOfPre(s, g + 1, n)
         /\ IsGated(s, g) /\ LaneValueAt(s.cond, g).kind = "pre" =>
              \A m \in 1 .. MaxPreChainDepth : m <= n + 1 => RunOfPre(s, g + 1, m)
<1> DEFINE f == Hops(s, g + 1)
           h == Hops(s, g)
<1>0. MaxPreChainDepth \in Nat \ {0}
  BY StepLogicAssumption
<1>1. s.pulses # 0 /\ IsGated(s, g) =>
        f[1] = g /\ \A k \in 1 .. MaxPreChainDepth - 1 : f[k + 1] = h[k]
  BY HopsGoOn
<1>2. s.pulses # 0 /\ ~ IsGated(s, g) => \A k \in 1 .. MaxPreChainDepth : f[k] = h[k]
  BY HopsGoOn
<1>3. IsGated(s, g) => s.pulses # 0
  BY GatedHasPulses
<1>4. ASSUME n > 0
      PROVE  s.pulses # 0 /\ \A k \in 1 .. n : LaneValueAt(s.cond, h[k]).kind = "pre"
  BY <1>4 DEF RunOfPre
<1> HIDE DEF f, h
<1>5. ASSUME ~ IsGated(s, g), n > 0 PROVE RunOfPre(s, g + 1, n)
  <2>1. \A k \in 1 .. n : k \in 1 .. MaxPreChainDepth
    BY <1>0
  <2>2. \A k \in 1 .. n : f[k] = h[k]
    BY <1>2, <1>4, <1>5, <2>1
  <2>3. QED
    BY <1>4, <1>5, <2>2 DEF RunOfPre, f
<1>6. ASSUME IsGated(s, g), LaneValueAt(s.cond, g).kind = "pre",
             NEW m \in 1 .. MaxPreChainDepth, m <= n + 1
      PROVE  RunOfPre(s, g + 1, m)
  <2>1. s.pulses # 0 /\ f[1] = g
    BY <1>1, <1>3, <1>6
  <2>2. ASSUME NEW k \in 1 .. m PROVE LaneValueAt(s.cond, f[k]).kind = "pre"
    <3>1. CASE k = 1
      BY <1>6, <2>1, <3>1
    <3>2. CASE k # 1
      <4> DEFINE j == k - 1
      <4>1. j \in 1 .. MaxPreChainDepth - 1 /\ j + 1 = k /\ j \in 1 .. n /\ n > 0
        BY <1>0, <1>6, <3>2
      <4> HIDE DEF j
      <4>2. f[j + 1] = h[j]
        BY <1>1, <1>6, <2>1, <4>1
      <4>3. QED
        BY <1>4, <4>1, <4>2
    <3>3. QED
      BY <3>1, <3>2
  <2>3. QED
    BY <2>1, <2>2 DEF RunOfPre, f
<1>7. QED
  BY <1>5, <1>6

(* What is remembered of the steps before the next one is true of them.      *)
HistoryInv ==
  /\ index \in Int /\ fill \in BOOLEAN
  /\ age \in 0 .. MaxPreChainDepth /\ plain \in 0 .. MaxPreChainDepth
  /\ d = NoSnapshot =>
       index = 0 /\ age = MaxPreChainDepth /\ plain = 0 /\ emission = Silence
  /\ d # NoSnapshot => IsPlayable(d)
  /\ age < MaxPreChainDepth => Remembers(d, index, fill, age, heard)
  /\ plain > 0 => RunOfPre(d, index, plain)

(* The invariant of the walk: at first nothing was published.                *)
LEMMA InitHistory == Init => HistoryInv
<1> SUFFICES ASSUME Init PROVE HistoryInv
  OBVIOUS
<1>1. /\ d = NoSnapshot /\ index = 0 /\ emission = Silence
      /\ fill = FALSE /\ age = MaxPreChainDepth /\ plain = 0
  BY DEF Init
<1>2. MaxPreChainDepth \in Nat
  BY StepLogicAssumption
<1>3. age \in 0 .. MaxPreChainDepth /\ plain \in 0 .. MaxPreChainDepth
      /\ ~ (age < MaxPreChainDepth) /\ ~ (plain > 0)
  BY <1>1, <1>2
<1>4. index \in Int
  BY <1>1
<1>5. fill \in BOOLEAN
  BY <1>1
<1>6. QED
  BY <1>1, <1>3, <1>4, <1>5, Zenon DEF HistoryInv

(* A published pattern can be played.                                        *)
LEMMA PublishedIsPlayable ==
  ASSUME TableInv, NEW pattern \in PatternsToPlay, NEW rolls, Publish(pattern, rolls)
  PROVE  IsPlayable(d') /\ d' # NoSnapshot
<1>1. /\ Complete /\ Len(pattern.pool) = size /\ d' = BuildSnapshot(pattern, out, rolls)
      /\ pattern \in PatternSet
  BY PatternsAssumption DEF Publish, PatternsToPlay
<1>2. IsSnapshotOf(d', pattern) /\ d'.order = out
  BY <1>1, SnapshotHoldsPattern
<1>3. /\ pattern.gate \in Lanes(0 .. 1) /\ pattern.cond \in Lanes(Conditions)
      /\ pattern.prob \in Lanes(0 .. 100) /\ pattern.modA \in Lanes(0 .. 127)
      /\ pattern.pitch \in Lanes(-24 .. 24) /\ pattern.oct \in Lanes(-4 .. 4)
      /\ pattern.pool \in Seq(0 .. 127)
  BY <1>1 DEF PatternSet
<1>4. pattern.pool # << >> => out \in Seq(Nat) /\ out # << >>
  <2>1. pattern.pool # << >> => size # 0
    BY <1>1, <1>3
  <2>2. QED
    BY <1>1, <2>1, TableIsOrder
<1>5. IsPlayable(d')
  BY <1>2, <1>3, <1>4 DEF IsPlayable, IsSnapshotOf
<1>6. d'.period # 0
  BY <1>5, PeriodIsPositive
<1>7. QED
  BY <1>5, <1>6 DEF NoSnapshot

(* Each step keeps what the walk remembers true.                             *)
LEMMA NextHistory == TableInv /\ HistoryInv /\ [Next]_vars => HistoryInv'
<1> SUFFICES ASSUME TableInv, HistoryInv, [Next]_vars PROVE HistoryInv'
  OBVIOUS
<1>0. MaxPreChainDepth \in Nat \ {0}
  BY StepLogicAssumption
<1>1. ASSUME NEW pattern \in PatternsToPlay, NEW rolls, Publish(pattern, rolls) PROVE HistoryInv'
  <2>1. IsPlayable(d') /\ d' # NoSnapshot
    BY <1>1, PublishedIsPlayable
  <2>2. /\ age = MaxPreChainDepth /\ plain = 0
        /\ UNCHANGED <<index, fill, age, plain>>
    BY <1>1 DEF Publish, historyVars, HistoryInv
  <2>3. QED
    BY <1>0, <2>1, <2>2 DEF HistoryInv
<1>2. CASE PlayStep
  <2> DEFINE cond == LaneValueAt(d.cond, index)
             sounds == Heard(d, index, fill) /\ d.pool # << >>
  <2>1. /\ d # NoSnapshot /\ IsPlayable(d) /\ index \in Int /\ fill \in BOOLEAN
        /\ age \in 0 .. MaxPreChainDepth /\ plain \in 0 .. MaxPreChainDepth
        /\ age < MaxPreChainDepth => Remembers(d, index, fill, age, heard)
        /\ plain > 0 => RunOfPre(d, index, plain)
    BY <1>2 DEF PlayStep, HistoryInv
  <2>2. /\ index' = index + 1 /\ d' = d /\ fill' = fill
        /\ emission' = EvaluateStep(d, index, fill)
        /\ IsGated(d, index) =>
             /\ heard' = emission'.gate
             /\ age' = IF LooksBack(d, index) THEN Clamped(age + 1, 0, MaxPreChainDepth) ELSE 0
             /\ plain' = IF cond.kind = "pre" THEN Clamped(plain + 1, 0, MaxPreChainDepth) ELSE 0
        /\ ~ IsGated(d, index) => heard' = heard /\ age' = age /\ plain' = plain
    BY <1>2 DEF PlayStep, historyVars
  <2>3. IsGated(d, index) => emission'.gate = sounds
    BY <2>2 DEF EvaluateStep, Silence, Heard
  <2> HIDE DEF cond, sounds
  <2>4. /\ age' \in 0 .. MaxPreChainDepth /\ plain' \in 0 .. MaxPreChainDepth
    BY <1>0, <2>1, <2>2 DEF Clamped
  <2>5. ASSUME age' < MaxPreChainDepth PROVE Remembers(d, index + 1, fill, age', heard')
    <3>1. /\ ~ IsGated(d, index) /\ age < MaxPreChainDepth => Remembers(d, index + 1, fill, age, heard)
          /\ IsGated(d, index) /\ LooksBack(d, index) /\ age + 1 < MaxPreChainDepth =>
               Remembers(d, index + 1, fill, age + 1, sounds)
          /\ IsGated(d, index) /\ ~ LooksBack(d, index) =>
               Remembers(d, index + 1, fill, 0, sounds)
      BY <2>1, MemoryGoesOn DEF sounds
    <3>2. CASE ~ IsGated(d, index)
      BY <2>2, <2>5, <3>1, <3>2
    <3>3. CASE IsGated(d, index) /\ ~ LooksBack(d, index)
      BY <2>2, <2>3, <3>1, <3>3
    <3>4. CASE IsGated(d, index) /\ LooksBack(d, index)
      <4>1. age' = Clamped(age + 1, 0, MaxPreChainDepth)
        BY <2>2, <3>4
      <4>2. age' = age + 1 /\ age + 1 < MaxPreChainDepth
        BY <1>0, <2>1, <2>5, <4>1 DEF Clamped
      <4>3. QED
        BY <2>2, <2>3, <3>1, <3>4, <4>2
    <3>5. QED
      BY <3>2, <3>3, <3>4
  <2>6. ASSUME plain' > 0 PROVE RunOfPre(d, index + 1, plain')
    <3>1. /\ ~ IsGated(d, index) /\ plain > 0 => RunOfPre(d, index + 1, plain)
          /\ IsGated(d, index) /\ cond.kind = "pre" =>
               \A m \in 1 .. MaxPreChainDepth : m <= plain + 1 => RunOfPre(d, index + 1, m)
      BY <2>1, RunGoesOn DEF cond
    <3>2. CASE ~ IsGated(d, index)
      BY <2>2, <2>6, <3>1, <3>2
    <3>3. CASE IsGated(d, index)
      <4>1. cond.kind = "pre" /\ plain' = Clamped(plain + 1, 0, MaxPreChainDepth)
        BY <2>2, <2>6, <3>3
      <4>2. plain' \in 1 .. MaxPreChainDepth /\ plain' <= plain + 1
        BY <1>0, <2>1, <4>1 DEF Clamped
      <4>3. QED
        BY <3>1, <3>3, <4>1, <4>2
    <3>4. QED
      BY <3>2, <3>3
  <2>7. QED
    BY <2>1, <2>2, <2>4, <2>5, <2>6 DEF HistoryInv
<1>3. CASE StepBack
  <2>1. /\ d # NoSnapshot /\ index' = index - 1 /\ age' = MaxPreChainDepth /\ plain' = 0
        /\ UNCHANGED <<d, fill>>
    BY <1>3 DEF StepBack
  <2>2. QED
    BY <1>0, <2>1 DEF HistoryInv
<1>4. CASE SetFillHeld
  <2>1. /\ d # NoSnapshot /\ fill' = ~ fill /\ age' = MaxPreChainDepth
        /\ UNCHANGED <<d, index, plain>>
    BY <1>4 DEF SetFillHeld
  <2>2. QED
    BY <1>0, <2>1 DEF HistoryInv
<1>5. CASE UNCHANGED <<d, index, emission, fill, heard, age, plain>>
  BY <1>5 DEF HistoryInv
<1>6. QED
  BY <1>1, <1>2, <1>3, <1>4, <1>5 DEF Next, vars, historyVars, ApplyEuclid, BuildEntry

-----------------------------------------------------------------------------
(* Each step is a step of the walk.                                          *)

(* On loop a of every b, counted either way.                                 *)
LEMMA CycleComesRound ==
  ASSUME NEW l \in Int, NEW b \in Nat \ {0}, NEW a \in 1 .. b
  PROVE  (l - (a - 1)) % b = 0 <=> l % b = a - 1
<1> DEFINE x == l - (a - 1)
           q == l \div b
           r == l % b
           p == x \div b
<1>1. x \in Int /\ a - 1 \in 0 .. b - 1 /\ l = x + (a - 1) /\ 0 \in 0 .. b - 1
  OBVIOUS
<1>2. q \in Int /\ r \in 0 .. b - 1 /\ l = b * q + r
  BY Division
<1>3. ASSUME r = a - 1 PROVE x % b = 0
  <2> HIDE DEF q, r, p
  <2>1. x = b * q + 0
    BY <1>1, <1>2, <1>3
  <2> HIDE DEF x
  <2>2. QED
    BY <1>1, <1>2, <2>1, Quotient
<1>4. ASSUME x % b = 0 PROVE r = a - 1
  <2> HIDE DEF x
  <2>1. p \in Int /\ x = b * p + (x % b)
    BY <1>1, Division
  <2>2. l = b * p + (a - 1)
    <3> HIDE DEF p, q, r
    <3>1. b * p \in Int
      BY <2>1
    <3>2. QED
      BY <1>1, <1>4, <2>1, <3>1
  <2> DEFINE c == a - 1
  <2>3. c \in 0 .. b - 1 /\ l = b * p + c
    BY <1>1, <2>2
  <2> HIDE DEF p, c
  <2>4. l % b = c
    BY <2>1, <2>3, Quotient
  <2>5. QED
    BY <2>4 DEF c
<1>5. QED
  BY <1>3, <1>4

(* The walk asks of a step what the evaluator asks of it.                    *)
LEMMA MeetsIs ==
  ASSUME HistoryInv, d # NoSnapshot, NEW previous \in BOOLEAN
  PROVE  Walk!Meets(LaneValueAt(d.cond, index), previous) <=>
           IF LooksBack(d, index) THEN PreResult(d, index, previous)
           ELSE AcyclicConditionPasses(d, index, fill)
<1> DEFINE cond == LaneValueAt(d.cond, index)
           l == LoopIndexAt(d, index)
<1>1. index \in Int /\ IsPlayable(d) /\ fill \in BOOLEAN
  BY DEF HistoryInv
<1>2. cond \in Conditions
  BY <1>1, LaneHolds DEF IsPlayable
<1>3. l \in Int /\ WalkLoop = l
  BY <1>1, PlaceOf DEF WalkLoop, Played
<1>4. LooksBack(d, index) <=> cond.kind \in {"pre", "notPre"}
  BY DEF LooksBack
<1>5. PreResult(d, index, previous) = IF cond.kind = "notPre" THEN ~ previous ELSE previous
  BY DEF PreResult
<1>6. AcyclicConditionPasses(d, index, fill) =
        CASE cond.kind = "none" -> TRUE
          [] cond.kind = "first" -> l = 0
          [] cond.kind = "notFirst" -> l # 0
          [] cond.kind = "fill" -> fill
          [] cond.kind = "notFill" -> ~ fill
          [] cond.kind = "nei" -> LaneValueAt(d.modA, index) >= Threshold
          [] cond.kind = "notNei" -> LaneValueAt(d.modA, index) < Threshold
          [] cond.kind = "cycle" -> l % cond.b = cond.a - 1
  BY DEF AcyclicConditionPasses
<1>7. Walk!Meets(cond, previous) =
        CASE cond.kind = "none" -> TRUE
          [] cond.kind = "first" -> l = 0
          [] cond.kind = "notFirst" -> l # 0
          [] cond.kind = "cycle" -> (l - (cond.a - 1)) % cond.b = 0
          [] cond.kind = "fill" -> fill
          [] cond.kind = "notFill" -> ~ fill
          [] cond.kind = "pre" -> previous
          [] cond.kind = "notPre" -> ~ previous
          [] cond.kind = "nei" -> LaneValueAt(d.modA, index) >= Threshold
          [] cond.kind = "notNei" -> LaneValueAt(d.modA, index) < Threshold
  BY <1>3 DEF Walk!Meets, Walk!LaneValueAt, Walk!LaneIndex, LaneValueAt, LaneIndex
<1>8. \/ cond.kind \in {"none", "first", "notFirst", "fill", "notFill", "pre", "notPre", "nei", "notNei"}
      \/ cond.kind = "cycle" /\ cond.b \in Nat \ {0} /\ cond.a \in 1 .. cond.b
  BY <1>2 DEF Conditions, Condition, Cycle
<1> HIDE DEF cond, l
<1>9. CASE cond.kind = "cycle"
  <2>1. (l - (cond.a - 1)) % cond.b = 0 <=> l % cond.b = cond.a - 1
    BY <1>3, <1>8, <1>9, CycleComesRound
  <2>2. QED
    BY <1>4, <1>6, <1>7, <1>9, <2>1 DEF cond
<1>10. CASE cond.kind # "cycle"
  BY <1>4, <1>5, <1>6, <1>7, <1>8, <1>10 DEF cond
<1>11. QED
  BY <1>9, <1>10

(* Some result before it, of those the walk may take it for, explains what   *)
(* the evaluator makes of a step.                                            *)
LEMMA PreviousExplains ==
  ASSUME HistoryInv, d # NoSnapshot, IsGated(d, index), d.pool # << >>
  PROVE  \E previous \in Walk!Previous :
           previous \in BOOLEAN
             /\ (LooksBack(d, index) =>
                   ConditionPasses(d, index, fill) = Replay(previous, index, d))
<1> DEFINE h == Hops(d, index)
           Explains(previous) == LooksBack(d, index) =>
             ConditionPasses(d, index, fill) = Replay(previous, index, d)
<1>0. MaxPreChainDepth \in Nat \ {0}
  BY StepLogicAssumption
<1>1. /\ index \in Int /\ IsPlayable(d)
      /\ age \in 0 .. MaxPreChainDepth /\ plain \in 0 .. MaxPreChainDepth
      /\ age < MaxPreChainDepth => Remembers(d, index, fill, age, heard)
      /\ plain > 0 => RunOfPre(d, index, plain)
  BY DEF HistoryInv
<1>2. d.pulses # 0 /\ d.pulses \in Nat
  BY <1>1, GatedHasPulses
<1>3. Walk!Previous = IF age < MaxPreChainDepth THEN {heard}
                      ELSE IF plain = MaxPreChainDepth THEN {FALSE} ELSE BOOLEAN
  BY DEF Walk!Previous
<1>4. CASE age < MaxPreChainDepth
  <2>1. /\ LookBackFor(d, h, age) /\ ~ LooksBack(d, h[age + 1])
        /\ heard = (Heard(d, h[1], fill) /\ d.pool # << >>)
    BY <1>1, <1>4 DEF Remembers
  <2>2. heard = Heard(d, h[1], fill) /\ heard \in BOOLEAN
    BY <2>1 DEF Heard
  <2>3. age \in 0 .. MaxPreChainDepth - 1
    BY <1>0, <1>1, <1>4
  <2>4. Explains(heard)
    <3>1. SUFFICES ASSUME LooksBack(d, index)
                   PROVE  ConditionPasses(d, index, fill) = Replay(heard, index, d)
      OBVIOUS
    <3>2. ConditionPasses(d, index, fill) = Replay(Heard(d, h[1], fill), index, d)
      BY <1>2, <2>1, <2>3, <3>1, ChainFrom
    <3>3. QED
      BY <2>2, <3>2
  <2> HIDE DEF Explains
  <2>5. heard \in Walk!Previous
    BY <1>3, <1>4
  <2>6. QED
    BY <2>2, <2>4, <2>5 DEF Explains
<1>5. CASE ~ (age < MaxPreChainDepth) /\ plain = MaxPreChainDepth
  <2>1. \A k \in 1 .. MaxPreChainDepth : LaneValueAt(d.cond, h[k]).kind = "pre"
    <3>1. plain > 0
      BY <1>0, <1>5
    <3>2. QED
      BY <1>1, <1>5, <3>1 DEF RunOfPre
  <2>2. Explains(FALSE)
    BY <1>2, <2>1, ChainTooLong
  <2> HIDE DEF Explains
  <2>3. FALSE \in Walk!Previous
    BY <1>3, <1>5
  <2>4. QED
    BY <2>2, <2>3 DEF Explains
<1>6. CASE ~ (age < MaxPreChainDepth) /\ plain # MaxPreChainDepth
  <2>1. Walk!Previous = BOOLEAN
    BY <1>3, <1>6
  <2>2. \E previous \in BOOLEAN : Explains(previous)
    <3>1. CASE LooksBack(d, index)
      BY <1>2, <3>1, ChainEnds
    <3>2. CASE ~ LooksBack(d, index)
      BY <3>2
    <3>3. QED
      BY <3>1, <3>2
  <2> HIDE DEF Explains
  <2>3. QED
    BY <2>1, <2>2 DEF Explains
<1>7. QED
  BY <1>4, <1>5, <1>6

(* There always is one.                                                      *)
LEMMA PreviousIsResult ==
  ASSUME HistoryInv
  PROVE  \E previous \in Walk!Previous : previous \in BOOLEAN
<1>1. age < MaxPreChainDepth => heard \in BOOLEAN
  BY DEF HistoryInv, Remembers
<1>2. CASE age < MaxPreChainDepth
  BY <1>1, <1>2 DEF Walk!Previous
<1>3. CASE ~ (age < MaxPreChainDepth)
  <2>1. FALSE \in Walk!Previous
    BY <1>3 DEF Walk!Previous
  <2>2. QED
    BY <2>1
<1>4. QED
  BY <1>2, <1>3

(* The least pitch of a lane.                                                *)
LEMMA PitchRange ==
  ASSUME NEW p \in -24 .. 24
  PROVE  p \in Int /\ p >= -24
OBVIOUS

(* The note of a step is the rung the walk has climbed to.                   *)
LEMMA NoteIs ==
  ASSUME HistoryInv, d # NoSnapshot, d.pool # << >>
  PROVE  /\ Walk!Note = PoolNoteAtDegree(d.pool, PoolIndexAt(d, index) + LaneValueAt(d.pitch, index))
                          + 12 * LaneValueAt(d.oct, index)
         /\ Walk!Note # Walk!Silent
<1> DEFINE rung == PoolIndexAt(d, index)
           pitch == LaneValueAt(d.pitch, index)
           oct == LaneValueAt(d.oct, index)
           n == Len(d.order)
           ordinal == GatedOrdinal(d, index)
<1>1. index \in Int /\ IsPlayable(d)
  BY DEF HistoryInv
<1>2. /\ d.pitch \in Lanes(-24 .. 24) /\ d.oct \in Lanes(-4 .. 4)
      /\ d.pool \in Seq(0 .. 127) /\ d.order \in Seq(Nat) /\ d.order # << >>
  BY <1>1 DEF IsPlayable
<1>3. pitch \in Int /\ pitch >= -24
  <2>1. pitch \in -24 .. 24
    BY <1>1, <1>2, LaneHolds
  <2> HIDE DEF pitch
  <2>2. QED
    BY <2>1, PitchRange
<1>4. oct \in -4 .. 4
  BY <1>1, <1>2, LaneHolds
<1>5. rung \in Nat
  <2>1. n \in Nat \ {0}
    BY <1>2
  <2>2. ordinal \in Int
    BY <1>1, NextOrdinal
  <2>3. \A k \in 1 .. n : d.order[k] \in Nat
    BY <1>2, PoolHolds
  <2>4. rung = d.order[1 + (ordinal % n)]
    BY DEF PoolIndexAt
  <2> HIDE DEF n, ordinal, rung
  <2>5. ordinal % n \in 0 .. n - 1
    BY <2>1, <2>2, Division
  <2>6. 1 + (ordinal % n) \in 1 .. n
    BY <2>1, <2>5
  <2>7. QED
    BY <2>3, <2>4, <2>6
<1>6. Walk!Note = Walk!Climb(d.pool, rung + pitch) + 12 * oct
  BY DEF Walk!Note, Walk!LaneValueAt, Walk!LaneIndex, LaneValueAt, LaneIndex, PoolIndexAt,
         WalkCursor, Played
<1> HIDE DEF rung, pitch, oct
<1> DEFINE degree == rung + pitch
<1>7. degree \in Int /\ degree >= -24
  BY <1>3, <1>5
<1>8. Walk!Climb(d.pool, degree) = PoolNoteAtDegree(d.pool, degree)
  <2> HIDE DEF degree
  <2>1. QED
    BY <1>2, <1>7, ClimbIsDegree
<1>9. PoolNoteAtDegree(d.pool, degree) + 12 * oct > -1000
  <2> DEFINE pool == d.pool
  <2>1. pool \in Seq(0 .. 127) /\ pool # << >>
    BY <1>2
  <2> HIDE DEF degree, pool
  <2>2. PoolNoteAtDegree(pool, degree) + 12 * oct > -1000
    BY <1>4, <1>7, <2>1, NoteIsNoSilence
  <2>3. QED
    BY <2>2 DEF pool
<1>10. Walk!Note = PoolNoteAtDegree(d.pool, degree) + 12 * oct
  BY <1>6, <1>8
<1>11. Walk!Note # Walk!Silent
  BY <1>9, <1>10 DEF Walk!Silent
<1>12. QED
  BY <1>10, <1>11 DEF rung, pitch, oct

(* What a step plays, and what the walk lets sound.                          *)
LEMMA SoundsIs ==
  ASSUME HistoryInv, PlayStep, NEW previous \in BOOLEAN,
         IsGated(d, index) /\ d.pool # << >> /\ LooksBack(d, index) =>
           ConditionPasses(d, index, fill) = Replay(previous, index, d)
  PROVE  LET cond == LaneValueAt(d.cond, index)
             sounds == /\ IsGated(d, index) /\ Walk!Meets(cond, previous) /\ d.pool # << >>
                       /\ ProbabilityPasses(d, index)
         IN  /\ WalkSound' = IF sounds THEN Walk!Note ELSE Walk!Silent
             /\ emission'.gate = sounds
             /\ emission'.gate = (WalkSound' # Walk!Silent)
<1> DEFINE cond == LaneValueAt(d.cond, index)
           meets == Walk!Meets(cond, previous)
           percent == ProbabilityPasses(d, index)
           sounds == IsGated(d, index) /\ meets /\ d.pool # << >> /\ percent
           passes == ConditionPasses(d, index, fill)
           note == PoolNoteAtDegree(d.pool, PoolIndexAt(d, index) + LaneValueAt(d.pitch, index))
                     + 12 * LaneValueAt(d.oct, index)
<1>1. d # NoSnapshot /\ emission' = EvaluateStep(d, index, fill)
  BY DEF PlayStep
<1>2. meets <=> IF LooksBack(d, index) THEN PreResult(d, index, previous)
                ELSE AcyclicConditionPasses(d, index, fill)
  BY <1>1, MeetsIs
<1>3. IsGated(d, index) /\ d.pool # << >> => (passes /\ percent <=> meets /\ percent)
  <2>1. CASE LooksBack(d, index)
    BY <1>2, <2>1 DEF Replay
  <2>2. CASE ~ LooksBack(d, index)
    <3>1. passes = AcyclicConditionPasses(d, index, fill)
      BY <2>2 DEF ConditionPasses
    <3> HIDE DEF passes
    <3>2. QED
      BY <1>2, <2>2, <3>1
  <2>3. QED
    BY <2>1, <2>2
<1>4. /\ emission'.gate \in BOOLEAN
      /\ emission'.gate <=> IsGated(d, index) /\ passes /\ percent /\ d.pool # << >>
      /\ emission'.gate => emission'.note = note
  BY <1>1 DEF EvaluateStep, Silence
<1> HIDE DEF meets, percent, passes, note
<1>5. emission'.gate <=> sounds
  BY <1>3, <1>4
<1>6. WalkSound' = IF emission'.gate THEN emission'.note ELSE -1000
  BY DEF WalkSound
<1>7. emission'.gate => Walk!Note = note /\ Walk!Note # Walk!Silent
  BY <1>1, <1>4, NoteIs DEF note
<1>8. Walk!Silent = -1000
  BY DEF Walk!Silent
<1>9. WalkSound' = IF sounds THEN Walk!Note ELSE Walk!Silent
  BY <1>4, <1>5, <1>6, <1>7, <1>8
<1>10. emission'.gate = sounds
  BY <1>4, <1>5
<1>11. emission'.gate = (WalkSound' # Walk!Silent)
  BY <1>4, <1>5, <1>7, <1>9
<1>12. QED
  BY <1>9, <1>10, <1>11 DEF meets, percent

(* A step played is a step forward.                                         *)
LEMMA PlayIsForward == HistoryInv /\ PlayStep => Walk!Forward
<1> SUFFICES ASSUME HistoryInv, PlayStep PROVE Walk!Forward
  OBVIOUS
<1> DEFINE cond == LaneValueAt(d.cond, index)
           gated == Walk!IsGatedPhase(d.gate, WalkPhase)
           p == PhaseAt(d, index)
           l == LoopIndexAt(d, index)
           m == d.period
<1>1. d # NoSnapshot /\ index \in Int /\ IsPlayable(d)
  BY DEF PlayStep, HistoryInv
<1>2. /\ index' = index + 1 /\ d' = d /\ fill' = fill
      /\ IsGated(d, index) =>
           /\ heard' = emission'.gate
           /\ age' = IF LooksBack(d, index) THEN Clamped(age + 1, 0, MaxPreChainDepth) ELSE 0
           /\ plain' = IF cond.kind = "pre" THEN Clamped(plain + 1, 0, MaxPreChainDepth) ELSE 0
      /\ ~ IsGated(d, index) => heard' = heard /\ age' = age /\ plain' = plain
  BY DEF PlayStep, historyVars
<1>3. /\ WalkPhase = p /\ WalkLoop = l /\ WalkCursor = GatedOrdinal(d, index)
      /\ WalkPhase' = PhaseAt(d, index + 1) /\ WalkLoop' = LoopIndexAt(d, index + 1)
      /\ WalkCursor' = GatedOrdinal(d, index + 1)
  BY <1>1, <1>2 DEF WalkPhase, WalkLoop, WalkCursor, Played, PhaseAt, LoopIndexAt, GatedOrdinal
<1>4. gated <=> IsGated(d, index)
  <2>1. IsGated(d, index) <=> IsGatedPhase(d.gate, p)
    BY <1>1, GatedByPhase
  <2>2. gated <=> IsGatedPhase(d.gate, p)
    BY <1>3 DEF Walk!IsGatedPhase, IsGatedPhase
  <2>3. QED
    BY <2>1, <2>2
<1>5. Walk!Period(d.gate) = m /\ m \in Nat \ {0} /\ p \in 0 .. m - 1 /\ l \in Int
  <2>1. m \in Nat \ {0}
    BY <1>1, PeriodIsPositive
  <2>2. p \in 0 .. m - 1 /\ l \in Int
    BY <1>1, PlaceOf
  <2>3. Walk!Period(d.gate) = m
    BY <1>1 DEF Walk!Period, Period, IsPlayable
  <2>4. QED
    BY <2>1, <2>2, <2>3
<1>6. /\ WalkPhase' = (WalkPhase + 1) % Walk!Period(d.gate)
      /\ WalkLoop' = IF WalkPhase' = 0 THEN WalkLoop + 1 ELSE WalkLoop
  <2>1. IF p + 1 < m
        THEN PhaseAt(d, index + 1) = p + 1 /\ LoopIndexAt(d, index + 1) = l
        ELSE PhaseAt(d, index + 1) = 0 /\ LoopIndexAt(d, index + 1) = l + 1
    BY <1>1, NextPlace
  <2> DEFINE r == (p + 1) % m
  <2>2. r = IF p + 1 < m THEN p + 1 ELSE 0
    <3> DEFINE x == p + 1
    <3>1. x \in Int /\ x \in 0 .. m
      BY <1>5
    <3> HIDE DEF m, x
    <3>2. CASE x < m
      <4>1. x = m * 0 + x /\ x \in 0 .. m - 1
        BY <1>5, <3>1, <3>2
      <4>2. x % m = x
        BY <1>5, <3>1, <4>1, Quotient
      <4>3. QED
        BY <3>2, <4>2 DEF x
    <3>3. CASE ~ (x < m)
      <4>1. x = m * 1 + 0 /\ 0 \in 0 .. m - 1
        BY <1>5, <3>1, <3>3
      <4>2. x % m = 0
        BY <1>5, <3>1, <4>1, Quotient
      <4>3. QED
        BY <3>3, <4>2 DEF x
    <3>4. QED
      BY <3>2, <3>3
  <2>3. p + 1 # 0
    BY <1>5
  <2> HIDE DEF p, l, m, r
  <2>4. WalkPhase' = r
    BY <1>3, <2>1, <2>2
  <2>5. r = (WalkPhase + 1) % Walk!Period(d.gate)
    BY <1>3, <1>5 DEF r
  <2>6. WalkLoop' = IF WalkPhase' = 0 THEN WalkLoop + 1 ELSE WalkLoop
    BY <1>3, <2>1, <2>3
  <2>7. QED
    BY <2>4, <2>5, <2>6
<1>7. WalkCursor' = IF gated THEN WalkCursor + 1 ELSE WalkCursor
  <2>1. GatedOrdinal(d, index + 1) =
          IF IsGatedPhase(d.gate, p) THEN GatedOrdinal(d, index) + 1 ELSE GatedOrdinal(d, index)
    BY <1>1, NextOrdinal
  <2>2. IsGated(d, index) <=> IsGatedPhase(d.gate, p)
    BY <1>1, GatedByPhase
  <2> HIDE DEF p, gated
  <2>3. QED
    BY <1>3, <1>4, <2>1, <2>2
<1>8. \E previous \in Walk!Previous :
        /\ previous \in BOOLEAN
        /\ IsGated(d, index) /\ d.pool # << >> /\ LooksBack(d, index) =>
             ConditionPasses(d, index, fill) = Replay(previous, index, d)
  <2>1. CASE IsGated(d, index) /\ d.pool # << >>
    BY <1>1, <2>1, PreviousExplains
  <2>2. CASE ~ (IsGated(d, index) /\ d.pool # << >>)
    <3>1. \E previous \in Walk!Previous : previous \in BOOLEAN
      BY PreviousIsResult
    <3>2. QED
      BY <2>2, <3>1
  <2>3. QED
    BY <2>1, <2>2
<1>9. PICK previous \in Walk!Previous :
        /\ previous \in BOOLEAN
        /\ IsGated(d, index) /\ d.pool # << >> /\ LooksBack(d, index) =>
             ConditionPasses(d, index, fill) = Replay(previous, index, d)
  BY <1>8
<1> DEFINE sounds == /\ IsGated(d, index) /\ Walk!Meets(cond, previous) /\ d.pool # << >>
                     /\ ProbabilityPasses(d, index)
<1>10. /\ WalkSound' = IF sounds THEN Walk!Note ELSE Walk!Silent
       /\ emission'.gate = sounds
       /\ emission'.gate = (WalkSound' # Walk!Silent)
  BY <1>9, SoundsIs
<1>11. /\ cond = Walk!LaneValueAt(d.cond, index)
       /\ ProbabilityPasses(d, index) =
            Walk!PercentPasses(Walk!LaneValueAt(d.prob, index), <<index, 0>> \in d.rolls)
       /\ LooksBack(d, index) <=> cond.kind \in {"pre", "notPre"}
  BY DEF Walk!LaneValueAt, Walk!LaneIndex, LaneValueAt, LaneIndex, Walk!PercentPasses,
         PercentPasses, ProbabilityPasses, LooksBack
<1>12. \A count : Walk!Next1(count) = Clamped(count + 1, 0, MaxPreChainDepth)
  BY DEF Walk!Next1, Walk!Clamped, Clamped
<1> DEFINE walked == Walk!LaneValueAt(d.cond, index)
<1>13. WalkSound' = IF /\ gated /\ Walk!Meets(walked, previous) /\ d.pool # << >>
                       /\ Walk!PercentPasses(Walk!LaneValueAt(d.prob, index), <<index, 0>> \in d.rolls)
                    THEN Walk!Note ELSE Walk!Silent
  BY <1>4, <1>10, <1>11
<1>14. IF gated
       THEN /\ heard' = (WalkSound' # Walk!Silent)
            /\ age' = IF walked.kind \in {"pre", "notPre"} THEN Walk!Next1(age) ELSE 0
            /\ plain' = IF walked.kind = "pre" THEN Walk!Next1(plain) ELSE 0
       ELSE UNCHANGED <<heard, age, plain>>
  BY <1>2, <1>4, <1>10, <1>11, <1>12
<1>15. d # Walk!Nothing
  BY <1>1 DEF NoSnapshot, Walk!Nothing
<1> HIDE DEF gated, cond, sounds, p, l, m, walked
<1>16. QED
  BY <1>2, <1>6, <1>7, <1>9, <1>13, <1>14, <1>15 DEF Walk!Forward, gated, walked

(* A locate is a step back.                                                  *)
LEMMA LocateIsBackward == HistoryInv /\ StepBack => Walk!Backward
<1> SUFFICES ASSUME HistoryInv, StepBack PROVE Walk!Backward
  OBVIOUS
<1> DEFINE g == index - 1
           p == PhaseAt(d, g)
           l == LoopIndexAt(d, g)
           m == d.period
           before == GatedOrdinal(d, g)
           gated == IsGatedPhase(d.gate, p)
<1>1. d # NoSnapshot /\ index \in Int /\ IsPlayable(d) /\ g \in Int /\ index = g + 1
  BY DEF StepBack, HistoryInv
<1>2. /\ index' = g /\ d' = d /\ fill' = fill /\ emission' = Silence
      /\ heard' = FALSE /\ age' = MaxPreChainDepth /\ plain' = 0
  BY DEF StepBack
<1>3. /\ WalkPhase = PhaseAt(d, index) /\ WalkLoop = LoopIndexAt(d, index)
      /\ WalkCursor = GatedOrdinal(d, index)
      /\ WalkPhase' = p /\ WalkLoop' = l /\ WalkCursor' = before
  BY <1>1, <1>2 DEF WalkPhase, WalkLoop, WalkCursor, Played, PhaseAt, LoopIndexAt, GatedOrdinal
<1>4. m \in Nat \ {0} /\ p \in 0 .. m - 1 /\ l \in Int
  <2>1. m \in Nat \ {0}
    BY <1>1, PeriodIsPositive
  <2>2. p \in 0 .. m - 1 /\ l \in Int
    BY <1>1, PlaceOf
  <2>3. QED
    BY <2>1, <2>2
<1>5. Walk!Period(d.gate) = m
  BY <1>1 DEF Walk!Period, Period, IsPlayable
<1>6. IF p + 1 < m
      THEN WalkPhase = p + 1 /\ WalkLoop = l
      ELSE WalkPhase = 0 /\ WalkLoop = l + 1
  <2> HIDE DEF g
  <2>1. IF p + 1 < m
        THEN PhaseAt(d, g + 1) = p + 1 /\ LoopIndexAt(d, g + 1) = l
        ELSE PhaseAt(d, g + 1) = 0 /\ LoopIndexAt(d, g + 1) = l + 1
    BY <1>1, NextPlace
  <2>2. QED
    BY <1>1, <1>3, <2>1
<1>7. WalkCursor = (IF gated THEN before + 1 ELSE before) /\ before \in Int
  <2> HIDE DEF g
  <2>1. /\ before \in Int
        /\ GatedOrdinal(d, g + 1) = IF gated THEN before + 1 ELSE before
    BY <1>1, NextOrdinal
  <2>2. QED
    BY <1>1, <1>3, <2>1
<1>8. WalkPhase' = (WalkPhase - 1) % Walk!Period(d.gate)
  <2> HIDE DEF m, p, l
  <2>1. CASE p + 1 < m
    <3>1. WalkPhase - 1 = p /\ p = m * 0 + p /\ p \in Int
      BY <1>4, <1>6, <2>1
    <3>2. p % m = p
      BY <1>4, <3>1, Quotient
    <3>3. QED
      BY <1>3, <1>5, <3>1, <3>2
  <2>2. CASE ~ (p + 1 < m)
    <3> DEFINE x == WalkPhase - 1
    <3>1. x = m * (-1) + p /\ x \in Int /\ -1 \in Int
      BY <1>4, <1>6, <2>2
    <3> HIDE DEF x
    <3>2. x % m = p
      BY <1>4, <3>1, Quotient
    <3>3. QED
      BY <1>3, <1>5, <3>2 DEF x
  <2>3. QED
    BY <2>1, <2>2
<1>9. WalkLoop' = IF WalkPhase = 0 THEN WalkLoop - 1 ELSE WalkLoop
  <2> HIDE DEF m, p, l
  <2>1. p + 1 # 0
    BY <1>4
  <2>2. QED
    BY <1>3, <1>4, <1>6, <2>1
<1>10. Walk!IsGatedPhase(d.gate, WalkPhase') <=> gated
  BY <1>3 DEF Walk!IsGatedPhase, IsGatedPhase
<1>11. WalkCursor' = IF Walk!IsGatedPhase(d.gate, WalkPhase') THEN WalkCursor - 1 ELSE WalkCursor
  <2> HIDE DEF before, gated
  <2>1. QED
    BY <1>3, <1>7, <1>10
<1>12. WalkSound' = Walk!Silent
  BY <1>2 DEF WalkSound, Silence, Walk!Silent
<1>13. d # Walk!Nothing
  BY <1>1 DEF NoSnapshot, Walk!Nothing
<1> HIDE DEF p, l, m, before, gated
<1>14. QED
  BY <1>2, <1>8, <1>9, <1>11, <1>12, <1>13 DEF Walk!Backward

(* A pattern is adopted at the start of its first loop.                      *)
LEMMA PublishIsAdopt ==
  ASSUME TableInv, HistoryInv, NEW pattern \in PatternsToPlay, NEW rolls, Publish(pattern, rolls)
  PROVE  Walk!Adopt
<1>1. d = NoSnapshot /\ UNCHANGED <<index, emission, fill, heard, age, plain>>
  BY DEF Publish, historyVars
<1>2. index = 0
  BY <1>1 DEF HistoryInv
<1>3. IsPlayable(d') /\ d' # NoSnapshot
  BY PublishedIsPlayable
<1> DEFINE s == d'
           m == s.period
           all == GatedPhases(s.gate)
<1>4. m \in Nat \ {0}
  BY <1>3, PeriodIsPositive
<1>5. LoopIndexAt(s, 0) = 0 /\ PhaseAt(s, 0) = 0
  <2>1. 0 \in 0 .. m - 1 /\ 0 = m * 0 + 0
    BY <1>4
  <2>2. IsPlayable(s)
    BY <1>3
  <2> HIDE DEF s
  <2>3. QED
    BY <2>1, <2>2, PlaceIs
<1>6. s.prefix[0] = 0
  <2>1. \A q \in all : ~ (q < 0)
    BY <1>4 DEF GatedPhases, Period
  <2>2. s.prefix = GatePrefix(s.gate) /\ Period(s.gate) = m
    BY <1>3 DEF IsPlayable
  <2>3. s.prefix[0] = Cardinality({q \in all : q < 0})
    BY <1>4, <2>2 DEF GatePrefix
  <2>4. {q \in all : q < 0} = {}
    BY <2>1
  <2>5. QED
    BY <2>3, <2>4, FS_EmptySet
<1>7. GatedOrdinal(s, 0) = 0
  <2>1. s.pulses \in Nat
    BY <1>3, GatedHasPulses
  <2> DEFINE n == s.pulses
  <2>2. GatedOrdinal(s, 0) = 0 * n + 0
    BY <1>5, <1>6 DEF GatedOrdinal
  <2> HIDE DEF n
  <2>3. 0 * n + 0 = 0
    BY <2>1 DEF n
  <2>4. QED
    BY <2>2, <2>3
<1>8. UNCHANGED <<WalkPhase, WalkLoop, WalkCursor, WalkSound>>
  <2>1. WalkPhase = 0 /\ WalkLoop = 0 /\ WalkCursor = 0
    BY <1>1 DEF WalkPhase, WalkLoop, WalkCursor, Played
  <2>2. /\ WalkPhase' = PhaseAt(s, index') /\ WalkLoop' = LoopIndexAt(s, index')
        /\ WalkCursor' = GatedOrdinal(s, index')
    BY <1>3 DEF WalkPhase, WalkLoop, WalkCursor, Played, PhaseAt, LoopIndexAt, GatedOrdinal, NoSnapshot
  <2>3. index' = 0 /\ WalkSound' = WalkSound
    BY <1>1, <1>2 DEF WalkSound
  <2> HIDE DEF s
  <2>4. QED
    BY <1>5, <1>7, <2>1, <2>2, <2>3
<1>9. QED
  BY <1>1, <1>3, <1>8 DEF Walk!Adopt, Walk!Nothing, NoSnapshot

(* The evaluator begins as the walk does,                                    *)
LEMMA InitIsWalkInit == Init => Walk!WalkInit
<1> SUFFICES ASSUME Init PROVE Walk!WalkInit
  OBVIOUS
<1>1. d = NoSnapshot /\ emission = Silence
  BY DEF Init
<1>2. WalkPhase = 0 /\ WalkLoop = 0 /\ WalkCursor = 0
  BY <1>1 DEF WalkPhase, WalkLoop, WalkCursor, Played
<1>3. WalkSound = Walk!Silent
  BY <1>1 DEF WalkSound, Silence, Walk!Silent
<1>4. QED
  BY <1>1, <1>2, <1>3 DEF Init, Walk!WalkInit, Walk!Nothing, NoSnapshot

(* and each of its steps is a step of the walk, or is not seen there.        *)
LEMMA StepIsWalkStep == TableInv /\ HistoryInv /\ [Next]_vars => [Walk!WalkNext]_(Walk!walkVars)
<1> SUFFICES ASSUME TableInv, HistoryInv, [Next]_vars PROVE [Walk!WalkNext]_(Walk!walkVars)
  OBVIOUS
<1>1. ASSUME NEW pattern \in PatternsToPlay, NEW rolls, Publish(pattern, rolls) PROVE Walk!Adopt
  BY <1>1, PublishIsAdopt
<1>2. CASE PlayStep
  BY <1>2, PlayIsForward DEF Walk!WalkNext
<1>3. CASE StepBack
  BY <1>3, LocateIsBackward DEF Walk!WalkNext
<1>4. CASE SetFillHeld
  <2>1. /\ fill' = ~ fill /\ age' = MaxPreChainDepth
        /\ UNCHANGED <<d, index, emission, heard, plain>>
    BY <1>4 DEF SetFillHeld
  <2>2. UNCHANGED <<WalkPhase, WalkLoop, WalkCursor, WalkSound>>
    BY <2>1 DEF WalkPhase, WalkLoop, WalkCursor, WalkSound, Played, PhaseAt, LoopIndexAt, GatedOrdinal
  <2>3. Walk!MoveFill
    BY <2>1, <2>2 DEF Walk!MoveFill
  <2>4. QED
    BY <2>3 DEF Walk!WalkNext
<1>5. CASE UNCHANGED <<d, index, emission, fill, heard, age, plain>>
  <2>1. UNCHANGED <<WalkPhase, WalkLoop, WalkCursor, WalkSound>>
    BY <1>5 DEF WalkPhase, WalkLoop, WalkCursor, WalkSound, Played, PhaseAt, LoopIndexAt, GatedOrdinal
  <2>2. QED
    BY <1>5, <2>1 DEF Walk!walkVars
<1>6. QED
  BY <1>1, <1>2, <1>3, <1>4, <1>5
     DEF Next, vars, historyVars, ApplyEuclid, BuildEntry, Walk!WalkNext

(* Of every pattern, from every step on: what the evaluator finds by looking *)
(* back and by tables is what an arpeggiator with a memory would play.       *)
THEOREM EvaluatorIsArpeggiator == Spec => ImplementsWalk
<1>1. Init => Walk!WalkInit
  BY InitIsWalkInit
<1>2. TableInv /\ HistoryInv /\ [Next]_vars => [Walk!WalkNext]_(Walk!walkVars)
  BY StepIsWalkStep
<1>3. QED
  BY <1>1, <1>2, InitTable, NextTable, InitHistory, NextHistory, PTL
     DEF Spec, ImplementsWalk, Walk!WalkSpec
=============================================================================
