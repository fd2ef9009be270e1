------------------------------ MODULE StepLogic ------------------------------
(***************************************************************************)
(* engine/sequencer/StepLogic, PatternSnapshot and evaluateStep: what a    *)
(* step of a pattern plays, as functions of the snapshot, the step's index *)
(* on the whole timeline (negative ones included), the FILL pad and the    *)
(* rolls. Nothing is remembered from one step to the next: what depends on *)
(* earlier steps is read from tables built with the snapshot, or found by  *)
(* looking back.                                                           *)
(*                                                                         *)
(* A snapshot d is a record: its lanes, swing and ramp, the pool of notes, *)
(* its traversal order, the gate tables, and rolls, the set of pairs       *)
(* <<index, child>> whose hash falls below a percentage that is neither 0  *)
(* nor 100. A step is Grain long, a number every division of a step and    *)
(* every percentage of it is whole in.                                     *)
(***************************************************************************)
EXTENDS Integers, Sequences, FiniteSets, SequencesExt, Euclid

CONSTANTS
  MaxPreChainDepth,  \* how far a PRE looks back, in gated steps
  Threshold          \* MOD A value from which the neighbour has passed

ASSUME StepLogicAssumption == MaxPreChainDepth \in Nat \ {0}

Grain == 84000

-----------------------------------------------------------------------------
(* Lanes: each has its own length and division (polymeter). Division by a    *)
(* positive number rounds down here, as stepFloorDiv and stepFloorMod do.    *)

LaneIndex(lane, g) == (g \div lane.division) % lane.length
LaneValueAt(lane, g) == lane.values[LaneIndex(lane, g)]
IsLaneTick(lane, g) == g % lane.division = 0

IsGated(d, g) == IsLaneTick(d.gate, g) /\ LaneValueAt(d.gate, g) # 0

(* A condition of the COND lane: on loop a of every b loops, or a named one. *)
Condition(kind) == [kind |-> kind, a |-> 0, b |-> 0]
Cycle(a, b) == [kind |-> "cycle", a |-> a, b |-> b]

Conditions ==
  {Condition(kind) : kind \in {"none", "first", "notFirst", "fill", "notFill",
                               "pre", "notPre", "nei", "notNei"}}
    \union UNION {{Cycle(a, b) : a \in 1 .. b} : b \in {2, 4, 8, 16}}

(* The patterns a snapshot may hold: each lane value lies in its range, where *)
(* every write to a lane clamps it, and so does the snapshot.                *)
PatternSet ==
  [gate : Lanes(0 .. 1), pitch : Lanes(-24 .. 24), oct : Lanes(-4 .. 4), vel : Lanes(1 .. 127),
   len : Lanes(1 .. 400), ratchet : Lanes(1 .. 8), micro : Lanes(-50 .. 50),
   prob : Lanes(0 .. 100), cond : Lanes(Conditions), modA : Lanes(0 .. 127),
   pool : Seq(0 .. 127), swing : 50 .. 75, ramp : -100 .. 100]

-----------------------------------------------------------------------------
(* buildGatePrefix: one cycle of the gate lane, summed once per snapshot.    *)

Period(gate) == gate.length * gate.division

IsGatedPhase(gate, p) == p % gate.division = 0 /\ gate.values[p \div gate.division] # 0

GatedPhases(gate) == {p \in 0 .. Period(gate) - 1 : IsGatedPhase(gate, p)}

(* Exclusive: the gated phases before each one. *)
GatePrefix(gate) ==
  [p \in 0 .. Period(gate) - 1 |-> Cardinality({q \in GatedPhases(gate) : q < p})]

(* Fault: the first gated phase of the cycle has no predecessor. *)
PreviousGatedInCycle(gate) ==
  [p \in 0 .. Period(gate) - 1 |->
     LET before == {q \in GatedPhases(gate) : q < p}
     IN  IF before = {} THEN 0 ELSE p - Max(before)]

(* How far back the previous gated phase is, over the seam of the cycle; 0   *)
(* where there is none at all.                                               *)
PreviousGated(gate) ==
  [p \in 0 .. Period(gate) - 1 |->
     LET before == {q \in GatedPhases(gate) : q < p}
         behind == IF before # {} THEN before
                   ELSE {q - Period(gate) : q \in GatedPhases(gate)}
     IN  IF behind = {} THEN 0 ELSE p - Max(behind)]

(* buildPatternSnapshot, for one pattern: a copy of it, with the tables.     *)
BuildSnapshot(pattern, order, rolls) ==
  LET tables == [order |-> order,
                 rolls |-> rolls,
                 period |-> Period(pattern.gate),
                 pulses |-> Cardinality(GatedPhases(pattern.gate)),
                 prefix |-> GatePrefix(pattern.gate),
                 back |-> PreviousGated(pattern.gate)]
  IN  [field \in DOMAIN pattern \union DOMAIN tables |->
         IF field \in DOMAIN pattern THEN pattern[field] ELSE tables[field]]

(* The loop an index lies in, and its place there. *)
LoopIndexAt(d, g) == g \div d.period
PhaseAt(d, g) == g - LoopIndexAt(d, g) * d.period

PreviousGatedOffsetAt(d, g) == d.back[PhaseAt(d, g)]

(* Fault: the loops before the first one count backwards from it. *)
GatedOrdinalTruncated(d, g) ==
  IF g >= 0 THEN LoopIndexAt(d, g) * d.pulses + d.prefix[PhaseAt(d, g)]
  ELSE d.prefix[PhaseAt(d, g)] - ((-g) \div d.period) * d.pulses

(* gatedOrdinal: how many gated steps lie before an index. *)
GatedOrdinal(d, g) == LoopIndexAt(d, g) * d.pulses + d.prefix[PhaseAt(d, g)]

PoolIndexAt(d, g) == d.order[1 + (GatedOrdinal(d, g) % Len(d.order))]

(* poolNoteAtDegree: the pool goes on in every octave. *)
PoolNoteAtDegree(pool, degree) ==
  LET octave == degree \div Len(pool)
  IN  pool[1 + (degree - octave * Len(pool))] + 12 * octave

-----------------------------------------------------------------------------
(* Conditions and probability. *)

PercentPasses(percent, rolled) == percent >= 100 \/ (percent > 0 /\ rolled)

ProbabilityPasses(d, g) == PercentPasses(LaneValueAt(d.prob, g), <<g, 0>> \in d.rolls)

AcyclicConditionPasses(d, g, fill) ==
  LET cond == LaneValueAt(d.cond, g)
      loop == LoopIndexAt(d, g)
  IN  CASE cond.kind = "none" -> TRUE
        [] cond.kind = "first" -> loop = 0
        [] cond.kind = "notFirst" -> loop # 0
        [] cond.kind = "fill" -> fill
        [] cond.kind = "notFill" -> ~ fill
        [] cond.kind = "nei" -> LaneValueAt(d.modA, g) >= Threshold
        [] cond.kind = "notNei" -> LaneValueAt(d.modA, g) < Threshold
        [] cond.kind = "cycle" -> loop % cond.b = cond.a - 1

LooksBack(d, g) == LaneValueAt(d.cond, g).kind \in {"pre", "notPre"}

(* The gated steps before a step, one hop after the other. *)
Hops(d, g) ==
  LET hops[k \in 0 .. MaxPreChainDepth] ==
        IF k = 0 THEN g ELSE hops[k - 1] - PreviousGatedOffsetAt(d, hops[k - 1])
  IN  hops

(* How many steps a PRE depends on, itself the first: gated steps that look  *)
(* back in their turn, at most MaxPreChainDepth.                             *)
ChainDepth(d, hops) ==
  IF d.pulses = 0 THEN 1
  ELSE CHOOSE k \in 1 .. MaxPreChainDepth :
         /\ k = MaxPreChainDepth \/ ~ LooksBack(d, hops[k])
         /\ \A j \in 1 .. k - 1 : LooksBack(d, hops[j])

(* Those steps, the oldest first; the gated step before them is the anchor,  *)
(* unless the walk gave up.                                                  *)
PreChain(d, g) ==
  LET hops == Hops(d, g)
      depth == ChainDepth(d, hops)
  IN  [links |-> [k \in 1 .. depth |-> hops[depth - k]],
       anchored |-> d.pulses > 0 /\ ~ LooksBack(d, hops[depth]),
       anchor |-> hops[depth]]

(* What a step that looks back makes of the result before it. *)
PreResult(d, g, previous) ==
  IF LaneValueAt(d.cond, g).kind = "notPre" THEN ~ previous ELSE previous

Replay(previous, g, d) == PreResult(d, g, previous) /\ ProbabilityPasses(d, g)

ReplayAll(d, links, start) ==
  FoldLeft(LAMBDA previous, g : Replay(previous, g, d), start, links)

(* Fault: the anchor is judged by its condition alone. *)
ConditionPassesUnrolled(d, g, fill) ==
  IF ~ LooksBack(d, g) THEN AcyclicConditionPasses(d, g, fill)
  ELSE LET chain == PreChain(d, g)
       IN  ReplayAll(d, chain.links,
                     chain.anchored /\ AcyclicConditionPasses(d, chain.anchor, fill))

(* conditionPasses: a chain is replayed from its oldest step, and one        *)
(* without an anchor from silence.                                           *)
ConditionPasses(d, g, fill) ==
  IF ~ LooksBack(d, g) THEN AcyclicConditionPasses(d, g, fill)
  ELSE LET chain == PreChain(d, g)
       IN  ReplayAll(d, chain.links,
                     /\ chain.anchored
                     /\ AcyclicConditionPasses(d, chain.anchor, fill)
                     /\ ProbabilityPasses(d, chain.anchor))

-----------------------------------------------------------------------------
(* Placement: swing, micro-timing, ratchets. *)

(* swingShiftSteps: odd steps are late. *)
SwingShift(swing, g) == IF g % 2 # 1 THEN 0 ELSE (swing - 50) * (Grain \div 50)

(* Fault: each displacement is limited on its own. *)
ShiftUnclamped(d, g) ==
  LaneValueAt(d.micro, g) * (Grain \div 100) + SwingShift(d.swing, g)

Shift(d, g) ==
  Clamped(LaneValueAt(d.micro, g) * (Grain \div 100) + SwingShift(d.swing, g),
          -(Grain \div 2), Grain \div 2)

RatchetChildPasses(d, g, child) ==
  child = 0 \/ PercentPasses(LaneValueAt(d.prob, g), <<g, child>> \in d.rolls)

(* llround of a / b, b > 0. *)
Rounded(a, b) == IF a >= 0 THEN (2 * a + b) \div (2 * b) ELSE -((b - 2 * a) \div (2 * b))

(* ratchetVelocity: a line from the step's velocity to the last child's.     *)
RatchetVelocity(base, child, count, ramp) ==
  IF count <= 1 \/ child <= 0 \/ ramp = 0 THEN base
  ELSE Clamped(Rounded(base * (100 * (count - 1) + ramp * child), 100 * (count - 1)), 1, 127)

Silence == [gate |-> FALSE, note |-> 0, shift |-> 0, notes |-> << >>]

(* A note of a step, unless its own roll drops it: those that stay leave no  *)
(* hole.                                                                     *)
AddChild(notes, child, d, g, count) ==
  IF ~ RatchetChildPasses(d, g, child) THEN notes
  ELSE Append(notes,
         [position |-> child * (Grain \div count),
          length |-> (LaneValueAt(d.len, g) * (Grain \div 100)) \div count,
          velocity |-> RatchetVelocity(LaneValueAt(d.vel, g), child, count, d.ramp)])

(* The notes of a step, one after the other. *)
RatchetNotes(d, g, count) ==
  FoldLeft(LAMBDA notes, child : AddChild(notes, child, d, g, count),
           << >>, [k \in 1 .. count |-> k - 1])

(* evaluateStep. *)
EvaluateStep(d, g, fill) ==
  IF \/ ~ IsGated(d, g) \/ ~ ConditionPasses(d, g, fill) \/ ~ ProbabilityPasses(d, g)
     \/ d.pool = << >>
  THEN Silence
  ELSE [gate |-> TRUE,
        note |-> PoolNoteAtDegree(d.pool, PoolIndexAt(d, g) + LaneValueAt(d.pitch, g))
                   + 12 * LaneValueAt(d.oct, g),
        shift |-> Shift(d, g),
        notes |-> RatchetNotes(d, g, LaneValueAt(d.ratchet, g))]
=============================================================================
