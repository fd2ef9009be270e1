------------------------------- MODULE Euclid --------------------------------
(***************************************************************************)
(* engine/sequencer/Euclid: a rhythm of k pulses over n steps, as evenly   *)
(* as they go, rotated, written into a pattern's gate lane. A lane is a    *)
(* record of its active length, its clock division and its values by step, *)
(* from 0, with a tail of inactive ones.                                   *)
(***************************************************************************)
EXTENDS Integers, FiniteSets

CONSTANT MaxSteps  \* steps a lane can hold

ASSUME EuclidAssumption == MaxSteps \in Nat \ {0}

Lane(length, division, values) == [length |-> length, division |-> division, values |-> values]

(* Lanes whose values lie in a range. *)
Lanes(range) ==
  [length : 1 .. MaxSteps, division : Nat \ {0}, values : [0 .. MaxSteps - 1 -> range]]

Clamped(x, low, high) == IF x < low THEN low ELSE IF x > high THEN high ELSE x

(* Fault: a positive rotation moves pulses earlier. *)
GenerateEarlier(steps, pulses, rotate) ==
  LET k == Clamped(pulses, 0, steps)
      shift == rotate % steps
  IN  [j \in 0 .. steps - 1 |-> IF (((j + shift) % steps) * k) % steps < k THEN 1 ELSE 0]

(* generate: Bresenham's necklace; a positive rotation moves pulses later.   *)
Generate(steps, pulses, rotate) ==
  LET k == Clamped(pulses, 0, steps)
      shift == rotate % steps
  IN  [j \in 0 .. steps - 1 |-> IF (((j - shift) % steps) * k) % steps < k THEN 1 ELSE 0]

(* applyToGateLane: the necklace's length becomes the lane's.                *)
ApplyToGateLane(params, lane) ==
  IF ~ params.enabled \/ params.steps <= 0 THEN lane
  ELSE LET n == IF params.steps > MaxSteps THEN MaxSteps ELSE params.steps
           gate == Generate(n, params.pulses, params.rotate)
       IN  [lane EXCEPT !.length = n,
                        !.values = [j \in DOMAIN @ |-> IF j < n THEN gate[j] ELSE @[j]]]

(* applyEuclid: the settings stored with the pattern, from what was asked.   *)
StoredParams(steps, pulses, rotate) ==
  LET n == Clamped(steps, 1, MaxSteps)
  IN  [enabled |-> TRUE, steps |-> n, pulses |-> Clamped(pulses, 0, n), rotate |-> rotate % n]

-----------------------------------------------------------------------------
(* What the ear expects of a rhythm, a function of 0 .. n - 1. *)

Pulses(lane, from, width) ==
  Cardinality({d \in 0 .. width - 1 : lane.values[(from + d) % lane.length] = 1})

(* Maximally even: any two windows of one width hold the same number of      *)
(* pulses, or one more.                                                      *)
MaximallyEven(lane) ==
  \A width \in 1 .. lane.length : \A a, b \in 0 .. lane.length - 1 :
    Pulses(lane, a, width) - Pulses(lane, b, width) \in {-1, 0, 1}
=============================================================================
