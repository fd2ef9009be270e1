--------------------------- MODULE StepEvaluation ----------------------------
(***************************************************************************)
(* The step logic at work. The message thread writes a euclidean rhythm    *)
(* into a gate lane, or builds the traversal order of a direction mode     *)
(* entry by entry and the snapshot of a pattern with it; the audio thread  *)
(* then evaluates steps, one after the other, back after a locate, with    *)
(* the FILL pad moving between them. Each evaluation is a function of the  *)
(* snapshot and the index: heard, age and plain are history, kept for the  *)
(* comparison with ArpeggioWalk only.                                      *)
(***************************************************************************)
EXTENDS StepLogic, DirectionModes

CONSTANTS
  EuclidRequests,  \* steps, pulses and rotation asked for
  BaseLane,      \* the gate lane they are applied to
  PoolSizes,     \* sizes of the pool of notes
  Tables,        \* pairs <<mode, size>> whose order a pattern is played in
  Patterns,      \* the patterns played: records of lanes, pool, swing and ramp
  FirstStep, LastStep,  \* bounds on the steps walked
  MaxFills,      \* bound on the moves of the FILL pad
  Rolls          \* the steps and children whose hash may pass

ASSUME EuclidRequestsAssumption ==
  /\ EuclidRequests \subseteq [steps : Int, pulses : Int, rotate : Int]
  /\ BaseLane \in Lanes(0 .. 1)

ASSUME PatternsAssumption == Patterns \subseteq PatternSet

ASSUME PoolSizesAssumption == PoolSizes \subseteq Nat

VARIABLES gate, euclid, mode, size, out, d, index, emission, fill, fills, heard, age, plain

NoEuclid == [steps |-> 0]
NoSnapshot == [period |-> 0]

documentVars == <<gate, euclid, mode, size, out>>
historyVars == <<heard, age, plain>>
vars == <<documentVars, d, index, emission, fill, fills, historyVars>>

Init ==
  /\ gate = BaseLane
  /\ euclid = NoEuclid
  /\ mode \in DirectionModes
  /\ size \in PoolSizes
  /\ out = << >>
  /\ d = NoSnapshot
  /\ index = 0
  /\ emission = Silence
  /\ fill = FALSE /\ fills = 0
  /\ heard = FALSE /\ age = MaxPreChainDepth /\ plain = 0

-----------------------------------------------------------------------------
(* Message thread. *)

ApplyEuclid(asked) ==
  /\ euclid = NoEuclid /\ out = << >> /\ d = NoSnapshot
  /\ euclid' = asked
  /\ gate' = ApplyToGateLane(StoredParams(asked.steps, asked.pulses, asked.rotate), gate)
  /\ UNCHANGED <<mode, size, out, d, index, emission, fill, fills, historyVars>>

Complete == Len(out) = TraversalPeriod(mode, size)

BuildEntry ==
  /\ euclid = NoEuclid /\ ~ Complete
  /\ \E entry \in NextEntries(mode, size, out) : out' = Append(out, entry)
  /\ UNCHANGED <<gate, euclid, mode, size, d, index, emission, fill, fills, historyVars>>

(* The order is of a pattern whose pool has as many notes as it was built for. *)
PatternsToPlay == {pattern \in Patterns : Len(pattern.pool) = size}

Publish(pattern, rolls) ==
  /\ Complete /\ <<mode, size>> \in Tables
  /\ euclid = NoEuclid /\ d = NoSnapshot
  /\ d' = BuildSnapshot(pattern, out, rolls)
  /\ UNCHANGED <<documentVars, index, emission, fill, fills, historyVars>>

-----------------------------------------------------------------------------
(* Audio thread. *)

PlayStep ==
  LET kind == LaneValueAt(d.cond, index).kind
      Counted(count) == Clamped(count + 1, 0, MaxPreChainDepth)
  IN  /\ d # NoSnapshot /\ index < LastStep
      /\ index' = index + 1
      /\ emission' = EvaluateStep(d, index, fill)
      /\ IF IsGated(d, index)
         THEN /\ heard' = emission'.gate
              /\ age' = IF LooksBack(d, index) THEN Counted(age) ELSE 0
              /\ plain' = IF kind = "pre" THEN Counted(plain) ELSE 0
         ELSE UNCHANGED historyVars
      /\ UNCHANGED <<documentVars, d, fill, fills>>

(* A locate, or a look back: nothing is undone, the index is just smaller.   *)
StepBack ==
  /\ d # NoSnapshot /\ index > FirstStep
  /\ index' = index - 1
  /\ emission' = Silence
  /\ heard' = FALSE /\ age' = MaxPreChainDepth /\ plain' = 0
  /\ UNCHANGED <<documentVars, d, fill, fills>>

SetFillHeld ==
  /\ d # NoSnapshot /\ fills < MaxFills
  /\ fills' = fills + 1
  /\ fill' = ~ fill
  /\ age' = MaxPreChainDepth
  /\ UNCHANGED <<documentVars, d, index, emission, heard, plain>>

Next ==
  \/ \E asked \in EuclidRequests : ApplyEuclid(asked)
  \/ BuildEntry
  \/ \E pattern \in PatternsToPlay, rolls \in SUBSET Rolls : Publish(pattern, rolls)
  \/ PlayStep
  \/ StepBack
  \/ SetFillHeld

Spec == Init /\ [][Next]_vars

-----------------------------------------------------------------------------
(* Properties *)

Played == d # NoSnapshot

WalkPhase == IF Played THEN PhaseAt(d, index) ELSE 0
WalkLoop == IF Played THEN LoopIndexAt(d, index) ELSE 0
WalkCursor == IF Played THEN GatedOrdinal(d, index) ELSE 0
WalkSound == IF emission.gate THEN emission.note ELSE -1000

Walk ==
  INSTANCE ArpeggioWalk WITH
    phase <- WalkPhase, loop <- WalkLoop, cursor <- WalkCursor, sound <- WalkSound

(* The evaluator without a memory does what the arpeggiator with one does,   *)
(* wherever it starts, back over the loop's seam and below zero: the pool    *)
(* moves on by one note per gated step, played or not; loops are counted     *)
(* once; PRE is what the last gated step did (StepLogic.cpp: "did that step  *)
(* actually sound"), and a run of PRE too long to follow is silent.          *)
ImplementsWalk == Walk!WalkSpec

(* A finished order has the shape its mode promises, for every choice of the *)
(* hash: each note as often as the others, no leap in a walk, no note twice  *)
(* in a row in the modes that say so, the loop's seam included.              *)
TraversalShape ==
  Complete /\ size > 1 =>
    /\ \A k \in DOMAIN out : out[k] \in 0 .. size - 1
    /\ mode \notin {"walk", "randomNoRepeat", "upDownExclusive"} =>
         \A note \in 0 .. size - 1 : Times(out, note) * size = Len(out)
    /\ mode \in {"upDownExclusive", "randomNoRepeat"} => NeverTwice(out)
    /\ mode \in {"upDownInclusive", "outsideIn"} => Palindrome(out)
    /\ mode = "converge" => Inwards(out, size)
    /\ mode = "diverge" => Inwards(Reverse(out), size)
    /\ mode = "walk" => \A k \in 1 .. Len(out) - 1 : Distance(out[k], out[k + 1]) = 1

(* An applied euclidean rhythm is maximally even, has the pulses asked for,  *)
(* as far as the lane holds them, one of them on the step it is rotated to,  *)
(* and becomes the lane's whole cycle, at the lane's own division; the steps *)
(* beyond keep their values.                                                 *)
EuclidEven ==
  euclid # NoEuclid =>
    /\ gate.length = Clamped(euclid.steps, 1, MaxSteps)
    /\ gate.division = BaseLane.division
    /\ MaximallyEven(gate)
    /\ Pulses(gate, 0, gate.length) = Clamped(euclid.pulses, 0, gate.length)
    /\ euclid.pulses > 0 => gate.values[euclid.rotate % gate.length] = 1
    /\ \A j \in DOMAIN gate.values : j >= gate.length => gate.values[j] = BaseLane.values[j]

(* The notes of a step lie where the sequencer's walk looks for them: the    *)
(* step is displaced by half a step at most, swing and micro-timing          *)
(* together, its notes lie inside it in order, the first of them its own     *)
(* onset, whatever the rolls; their velocities follow the ramp.              *)
NotesFit ==
  emission.gate =>
    LET notes == emission.notes
    IN  /\ 2 * emission.shift \in -Grain .. Grain
        /\ notes # << >> /\ notes[1].position = 0
        /\ \A k \in DOMAIN notes :
             /\ notes[k].position \in 0 .. Grain - 1
             /\ notes[k].velocity \in 1 .. 127
        /\ \A i, k \in DOMAIN notes : i < k =>
             /\ notes[i].position < notes[k].position
             /\ d.ramp >= 0 => notes[i].velocity <= notes[k].velocity
             /\ d.ramp <= 0 => notes[i].velocity >= notes[k].velocity
=============================================================================
