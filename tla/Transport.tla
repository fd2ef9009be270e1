------------------------------ MODULE Transport ------------------------------
(***************************************************************************)
(* engine/graph/Transport: the musical clock, owned by the audio thread.   *)
(*                                                                         *)
(* Each render first drains the commands (TransportProcessor::processBlock)*)
(* and then latches one view of the block, which every node of the graph   *)
(* reads. Positions are exact: PPQ is counted in ticks, and a sample is    *)
(* bpm / sampleRate ticks long, so that what the code does with doubles    *)
(* (and absorbs with its two snaps) is integer arithmetic here.            *)
(***************************************************************************)
EXTENDS Integers

CONSTANTS
  Bpms,          \* tempi, in ticks per second, say
  Rates,         \* sample rates, in samples per second
  TempoRequests, \* tempi a command may name (the code clamps them into Bpms)
  BlockSizes,    \* lengths of a render, in samples
  LocateTargets, \* positions a locate may ask for, in ticks
  Horizon,       \* bound: no render starts at or after this sample
  MaxStops,      \* bound on the stop counter
  MaxPrepares    \* bound on the device restarts

ASSUME TransportAssumption ==
  /\ Bpms \subseteq Nat \ {0} /\ Bpms # {}
  /\ Rates \subseteq Nat \ {0} /\ Rates # {}
  /\ \A b \in Bpms, r \in Rates : b % r = 0
  /\ TempoRequests \subseteq Bpms
  /\ BlockSizes \subseteq Nat \ {0}
  /\ LocateTargets \subseteq Int
  /\ Horizon \in Nat /\ MaxStops \in Nat /\ MaxPrepares \in Nat

VARIABLES
  samplePosition, anchorSample, anchorPpq, bpm, sampleRate, playing,
  stopEdge,         \* a stop drained since the last latch
  positionJumpEdge, \* a stop or a locate drained since the last latch
  stopCounter,
  latched,          \* the block's view: what every node reads
  draining,         \* commands of the coming render have been drained
  prepares          \* device restarts so far

clockVars == <<samplePosition, anchorSample, anchorPpq, bpm, sampleRate>>
transportVars ==
  <<samplePosition, anchorSample, anchorPpq, bpm, sampleRate, playing, stopEdge,
    positionJumpEdge, stopCounter, latched, draining, prepares>>

PpqPerSample == bpm \div sampleRate

PpqAtSample(s) == anchorPpq + (s - anchorSample) * PpqPerSample

(* The position a render would start from now. *)
PpqNow == PpqAtSample(samplePosition)

(* llround of target / step, for a target that is not negative. *)
RoundedSample(target, step) == (2 * target + step) \div (2 * step)

View(ppq, samples, length, running, stopped, jumped) ==
  [ppq |-> ppq, samples |-> samples, length |-> length,
   advance |-> IF running THEN length ELSE 0,
   playing |-> running, stopped |-> stopped, jumped |-> jumped]

(* blockEndPpq of a latched view: a stopped transport does not advance. *)
BlockEndPpq(b) == b.ppq + b.advance * PpqPerSample

Init ==
  /\ samplePosition = 0 /\ anchorSample = 0 /\ anchorPpq = 0
  /\ bpm \in Bpms
  /\ sampleRate \in Rates
  /\ playing = FALSE
  /\ stopEdge = FALSE /\ positionJumpEdge = FALSE /\ stopCounter = 0
  /\ latched = View(0, 0, 0, FALSE, FALSE, FALSE)
  /\ draining = FALSE
  /\ prepares = 0

-----------------------------------------------------------------------------
(* Commands, drained on the audio thread at the head of a render. *)

(* locateToPpq, at a given number of ticks per sample. *)
MoveTo(target, step) ==
  /\ samplePosition' = RoundedSample(target, step)
  /\ anchorSample' = RoundedSample(target, step)
  /\ anchorPpq' = target

TransportPlay ==
  /\ playing' = TRUE
  /\ UNCHANGED <<clockVars, stopEdge, positionJumpEdge, stopCounter>>

TransportStop ==
  /\ stopCounter < MaxStops
  /\ playing' = FALSE
  /\ stopEdge' = TRUE
  /\ positionJumpEdge' = TRUE
  /\ stopCounter' = stopCounter + 1
  /\ MoveTo(0, PpqPerSample)
  /\ UNCHANGED <<bpm, sampleRate>>

(* A position before the start is ignored. *)
TransportLocate(target) ==
  IF target < 0
  THEN UNCHANGED <<clockVars, playing, stopEdge, positionJumpEdge, stopCounter>>
  ELSE /\ MoveTo(target, PpqPerSample)
       /\ positionJumpEdge' = TRUE
       /\ UNCHANGED <<bpm, sampleRate, playing, stopEdge, stopCounter>>

(* Fault: the tempo changes under the old anchor. *)
SetTempoUnanchored(newBpm) ==
  /\ bpm' = newBpm
  /\ UNCHANGED <<samplePosition, anchorSample, anchorPpq, sampleRate, playing,
                 stopEdge, positionJumpEdge, stopCounter>>

(* reanchor: the position reached so far is fixed before the slope changes. *)
SetTempo(newBpm) ==
  /\ anchorSample' = samplePosition
  /\ anchorPpq' = PpqNow
  /\ bpm' = newBpm
  /\ UNCHANGED <<samplePosition, sampleRate, playing, stopEdge, positionJumpEdge,
                 stopCounter>>

Command ==
  /\ \/ TransportPlay
     \/ TransportStop
     \/ \E target \in LocateTargets : TransportLocate(target)
     \/ \E newBpm \in TempoRequests : SetTempo(newBpm)
  /\ draining' = TRUE
  /\ UNCHANGED <<latched, prepares>>

-----------------------------------------------------------------------------
(* Fault: the edges are latched and stay set. *)
BeginBlockKeepsEdges(n) ==
  /\ samplePosition < Horizon
  /\ latched' = View(PpqNow, samplePosition, n, playing, stopEdge, positionJumpEdge)
  /\ draining' = FALSE
  /\ samplePosition' = samplePosition + (IF playing THEN n ELSE 0)
  /\ UNCHANGED <<anchorSample, anchorPpq, bpm, sampleRate, playing, stopEdge,
                 positionJumpEdge, stopCounter, prepares>>

(* beginBlock: latch the view of n samples, then advance past them. *)
BeginBlock(n) ==
  /\ samplePosition < Horizon
  /\ latched' = View(PpqNow, samplePosition, n, playing, stopEdge, positionJumpEdge)
  /\ stopEdge' = FALSE
  /\ positionJumpEdge' = FALSE
  /\ draining' = FALSE
  /\ samplePosition' = samplePosition + (IF playing THEN n ELSE 0)
  /\ UNCHANGED <<anchorSample, anchorPpq, bpm, sampleRate, playing, stopCounter, prepares>>

(* prepare: a new rate keeps the musical position and is not a musical jump. *)
(* The device restarts between renders, never inside one.                    *)
Prepare(newRate) ==
  /\ ~ draining
  /\ prepares < MaxPrepares
  /\ prepares' = prepares + 1
  /\ sampleRate' = newRate
  /\ MoveTo(PpqNow, bpm \div newRate)
  /\ latched' = View(PpqNow, RoundedSample(PpqNow, bpm \div newRate), 0, playing,
                     stopEdge, FALSE)
  /\ stopEdge' = FALSE
  /\ positionJumpEdge' = FALSE
  /\ UNCHANGED <<bpm, playing, stopCounter, draining>>

Next ==
  \/ Command
  \/ \E n \in BlockSizes : BeginBlock(n)
  \/ \E newRate \in Rates : Prepare(newRate)

Spec == Init /\ [][Next]_transportVars

-----------------------------------------------------------------------------
(* Properties *)

(* Every variable stays in its range. *)
TypeOK ==
  /\ samplePosition \in Nat /\ anchorSample \in Nat /\ anchorPpq \in Nat
  /\ bpm \in Bpms /\ sampleRate \in Rates
  /\ playing \in BOOLEAN /\ stopEdge \in BOOLEAN /\ positionJumpEdge \in BOOLEAN
  /\ stopCounter \in 0 .. MaxStops
  /\ latched.ppq \in Int /\ latched.samples \in Nat
  /\ latched.length \in BlockSizes \union {0}
  /\ latched.advance \in {0, latched.length}
  /\ draining \in BOOLEAN
  /\ prepares \in 0 .. MaxPrepares

(* The anchor never lies ahead of the playhead, so the position is never     *)
(* extrapolated backwards (Transport.h: the position is a pure function of   *)
(* the anchor and the samples since).                                        *)
AnchorBehind == anchorSample <= samplePosition

(* Edges live inside one render: outside a drain none is waiting, so that    *)
(* each stop and each locate is latched by exactly the render that drained   *)
(* it, and a device restart can swallow none.                                *)
NoEdgeWaits == ~ draining => ~ stopEdge /\ ~ positionJumpEdge

(* Blocks tile the timeline: whatever their sizes, and across any change of  *)
(* tempo or sample rate, the musical position moves only by a render's own   *)
(* advance, unless a stop or a locate declares a jump.                       *)
BlocksTile ==
  [][\/ positionJumpEdge'
     \/ PpqNow' = IF draining' \/ prepares' # prepares THEN PpqNow ELSE BlockEndPpq(latched')
    ]_transportVars
=============================================================================
