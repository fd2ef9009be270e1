--------------------------- MODULE DirectionModes ----------------------------
(***************************************************************************)
(* engine/sequencer/DirectionModes: the order in which an arpeggio visits  *)
(* a pool of n notes, written entry by entry into a table when a snapshot  *)
(* is built. A table is a sequence of pool indices, 0 .. n - 1. The hash   *)
(* behind the two random modes is a choice.                                *)
(***************************************************************************)
EXTENDS Integers, Sequences, FiniteSets

DirectionModes ==
  {"up", "down", "upDownInclusive", "upDownExclusive", "converge", "diverge", "outsideIn",
   "asPlayed", "spiral", "walk", "randomNoRepeat"}

TraversalPeriod(mode, n) ==
  CASE n <= 1 -> n
    [] n > 1 /\ mode \in {"up", "down", "converge", "diverge", "asPlayed"} -> n
    [] n > 1 /\ mode \in {"upDownInclusive", "outsideIn"} -> 2 * n
    [] n > 1 /\ mode = "upDownExclusive" -> 2 * n - 2
    [] n > 1 /\ mode = "spiral" -> 3 * n
    [] n > 1 /\ mode \in {"walk", "randomNoRepeat"} -> 4 * n

ConvergeIndex(n, k) == IF k % 2 = 0 THEN k \div 2 ELSE n - 1 - (k \div 2)

(* The k-th entry, from 0, of a mode without randomness, for n >= 2. *)
FixedEntry(mode, n, k) ==
  CASE mode \in {"up", "asPlayed"} -> k
    [] mode = "down" -> n - 1 - k
    [] mode = "upDownInclusive" -> IF k < n THEN k ELSE 2 * n - 1 - k
    [] mode = "upDownExclusive" -> IF k < n THEN k ELSE 2 * n - 2 - k
    [] mode = "converge" -> ConvergeIndex(n, k)
    [] mode = "diverge" -> ConvergeIndex(n, n - 1 - k)
    [] mode = "outsideIn" -> ConvergeIndex(n, IF k < n THEN k ELSE 2 * n - 1 - k)
    [] mode = "spiral" -> ((k \div 3) + (k % 3)) % n

(* walk: one up or down from the last entry, reflected at the ends. *)
WalkEntries(n, out) ==
  IF out = << >> THEN {n \div 2}
  ELSE LET current == out[Len(out)]
       IN  {IF current + 1 > n - 1 THEN n - 2 ELSE current + 1,
            IF current - 1 < 0 THEN 1 ELSE current - 1}

(* Fault: the last entry is not compared with the first. *)
RandomEntriesOpen(n, out) ==
  IF out = << >> THEN 0 .. n - 1 ELSE (0 .. n - 1) \ {out[Len(out)]}

(* randomNoRepeat: any note but the last one, and for the last entry any but *)
(* the first one too; the next note up when no note is left.                 *)
RandomEntries(n, out) ==
  LET previous == out[Len(out)]
      closing == Len(out) = TraversalPeriod("randomNoRepeat", n) - 1
      allowed == (0 .. n - 1) \ ({previous} \union (IF closing THEN {out[1]} ELSE {}))
  IN  IF out = << >> THEN 0 .. n - 1
      ELSE IF allowed = {} THEN {(previous + 1) % n}
      ELSE allowed

(* buildTraversal: what the next entry of a table may be. *)
NextEntries(mode, n, out) ==
  CASE n = 1 -> {0}
    [] n # 1 /\ mode = "walk" -> WalkEntries(n, out)
    [] n # 1 /\ mode = "randomNoRepeat" -> RandomEntries(n, out)
    [] OTHER -> {FixedEntry(mode, n, Len(out))}

-----------------------------------------------------------------------------
(* What a finished table looks like to the ear. *)

Times(out, note) == Cardinality({k \in DOMAIN out : out[k] = note})

(* Neighbours, the last entry and the first one included. *)
NeverTwice(out) == \A k \in DOMAIN out : out[k] # out[1 + (k % Len(out))]

Palindrome(out) == \A k \in DOMAIN out : out[k] = out[Len(out) + 1 - k]

Distance(a, b) == IF a < b THEN b - a ELSE a - b

(* Each note of the pool is farther from its middle than the next one, or as *)
(* far.                                                                      *)
Inwards(out, n) ==
  \A k \in 1 .. Len(out) - 1 :
    Distance(2 * out[k], n - 1) >= Distance(2 * out[k + 1], n - 1)
=============================================================================
