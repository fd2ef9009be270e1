--------------------------- MODULE SequencerProofs ---------------------------
(***************************************************************************)
(* The sequencer node and its clock, for every pattern content, grid,      *)
(* tempo, rate, block size and bound.                                      *)
(*                                                                         *)
(* The clock: the inductive invariant is TypeOK with AnchorBehind and      *)
(* NoEdgeWaits; the position is never negative because the anchor is       *)
(* behind it, so that a restart, which re-derives the sample from the      *)
(* position, finds one.                                                    *)
(*                                                                         *)
(* The node: a render is a fold over the steps of the block, and each step *)
(* a fold over its notes. Folding, instantiated with the step of each,     *)
(* gives the intermediate walks to count over; what the walk does to the   *)
(* switch (WalkOutcome) and what a render does to it (RenderOutcome)       *)
(* follow, and from them the invariants Ahead and OnStep.                  *)
(*                                                                         *)
(* The notes: the tape of a block owes the end of every note on it, and of *)
(* every pitch the synth came in with, that nothing on the tape ends; Owed *)
(* says that the table has an entry for each. Every operation of the table *)
(* keeps it owed, the fold of the synth over the tape hears no more than   *)
(* what is owed (HeardIsOwed), and the entries a block leaves are due      *)
(* behind it and within the longest note: the invariant Held.              *)
(*                                                                         *)
(* The gap: a note is cut when it is played, for every onset its block can *)
(* reach. SoughtOnsetEnds and FarOnset say that the scan of emitNote       *)
(* misses none; what the cut was made for then has to stay as it was       *)
(* (Undisturbed) for the note to stay clear: the invariant NotesAreClear.  *)
(***************************************************************************)
EXTENDS SequencerProcessor, FiniteSetTheorems, SequenceTheorems, TLAPS

Inductive == TypeOK /\ AnchorBehind /\ NoEdgeWaits

(* The two halves of the invariant: its flags and its numbers. *)
Flags ==
  /\ playing \in BOOLEAN /\ stopEdge \in BOOLEAN /\ positionJumpEdge \in BOOLEAN
  /\ draining \in BOOLEAN
  /\ NoEdgeWaits

Numbers ==
  /\ samplePosition \in Nat /\ anchorSample \in Nat /\ anchorPpq \in Nat
  /\ bpm \in Bpms /\ sampleRate \in Rates
  /\ stopCounter \in 0 .. MaxStops
  /\ latched.ppq \in Int /\ latched.samples \in Nat
  /\ latched.length \in BlockSizes \union {0}
  /\ latched.advance \in {0, latched.length}
  /\ prepares \in 0 .. MaxPrepares
  /\ AnchorBehind

(* The invariant in its two halves, now and after a step. *)
LEMMA Halves == (Inductive <=> Numbers /\ Flags) /\ (Inductive' <=> Numbers' /\ Flags')
  BY DEF Inductive, TypeOK, Flags, Numbers

(* The part of the assumption that is about the bounds and the lengths. *)
LEMMA BoundsAreNat ==
  MaxStops \in Nat /\ MaxPrepares \in Nat /\ BlockSizes \subseteq Nat /\ 0 \notin BlockSizes
  BY TransportAssumption

(* A tempo is a whole, positive number of ticks per sample at every rate. *)
LEMMA StepIsPositive ==
  ASSUME NEW b \in Bpms, NEW r \in Rates
  PROVE  b \div r \in Nat \ {0}
<1>1. b \in Nat \ {0} /\ r \in Nat \ {0} /\ b % r = 0
  BY TransportAssumption
<1>2. b = r * (b \div r) + (b % r) /\ b \div r \in Int
  BY <1>1
<1>3. b \div r # 0
  <2>1. SUFFICES ASSUME b \div r = 0 PROVE FALSE
    OBVIOUS
  <2>2. r * (b \div r) = 0
    BY <2>1, <1>1
  <2>3. QED
    BY <1>1, <1>2, <2>2
<1>4. b \div r >= 0
  BY <1>1
<1>5. QED
  BY <1>2, <1>3, <1>4

(* A position that is not negative falls on a sample. *)
LEMMA RoundedIsNat ==
  ASSUME NEW target \in Nat, NEW step \in Nat \ {0}
  PROVE  RoundedSample(target, step) \in Nat
<1>1. 2 * target + step \in Nat /\ 2 * step \in Nat \ {0}
  OBVIOUS
<1>2. ASSUME NEW a \in Nat, NEW d \in Nat \ {0} PROVE a \div d \in Nat
  OBVIOUS
<1>3. QED
  BY <1>1, <1>2 DEF RoundedSample

(* Multiplication distributes over the advance of a block. *)
LEMMA Advance ==
  ASSUME NEW a \in Int, NEW s \in Int, NEW d \in Int, NEW n \in Int, NEW k \in Int
  PROVE  a + ((s + n) - d) * k = (a + (s - d) * k) + n * k
OBVIOUS

(* So does the product of an advance and a step stay a position. *)
LEMMA NatProduct ==
  ASSUME NEW a \in Nat, NEW b \in Nat
  PROVE  a * b \in Nat
OBVIOUS

(* What the inductive invariant says of the position a render starts from. *)
LEMMA PositionIsNat ==
  ASSUME Inductive
  PROVE  PpqPerSample \in Nat \ {0} /\ PpqNow \in Nat
<1>1. PpqPerSample \in Nat \ {0}
  BY StepIsPositive DEF Inductive, TypeOK, PpqPerSample
<1>2. samplePosition - anchorSample \in Nat
  BY DEF Inductive, TypeOK, AnchorBehind
<1>3. (samplePosition - anchorSample) * PpqPerSample \in Nat
  BY <1>1, <1>2, NatProduct
<1>4. QED
  BY <1>1, <1>3 DEF Inductive, TypeOK, PpqNow, PpqAtSample

(* The clock starts well. *)
LEMMA InitInductive == Init => Inductive
<1>1. Init => Flags
  BY DEF Init, Flags, NoEdgeWaits
<1>2. Init => Numbers
  BY BoundsAreNat DEF Init, Numbers, AnchorBehind, View
<1>3. QED
  BY <1>1, <1>2, Halves

(* Every command keeps the clock well. *)
LEMMA CommandInductive == Inductive /\ Command => Inductive'
<1> SUFFICES ASSUME Inductive, Command PROVE Inductive'
  OBVIOUS
<1> USE DEF Inductive, TypeOK, AnchorBehind, NoEdgeWaits, Command, clockVars
<1>1. CASE TransportPlay
  BY <1>1 DEF TransportPlay
<1>2. CASE TransportStop
  <2>1. RoundedSample(0, PpqPerSample) \in Nat
    BY PositionIsNat, RoundedIsNat
  <2>2. Numbers'
    BY <1>2, <2>1, BoundsAreNat DEF TransportStop, MoveTo, Numbers
  <2>3. Flags'
    BY <1>2 DEF TransportStop, Flags
  <2>4. QED
    BY <2>2, <2>3, Halves
<1>3. ASSUME NEW target \in LocateTargets, TransportLocate(target) PROVE Inductive'
  <2>1. CASE target < 0
    BY <1>3, <2>1 DEF TransportLocate
  <2>2. CASE ~ target < 0
    <3>1. target \in Nat
      BY <2>2, TransportAssumption
    <3>2. RoundedSample(target, PpqPerSample) \in Nat
      BY <3>1, PositionIsNat, RoundedIsNat
    <3>3. QED
      BY <1>3, <2>2, <3>1, <3>2 DEF TransportLocate, MoveTo
  <2>3. QED
    BY <2>1, <2>2
<1>4. ASSUME NEW newBpm \in TempoRequests, SetTempo(newBpm) PROVE Inductive'
  BY <1>4, PositionIsNat, TransportAssumption DEF SetTempo
<1>5. QED
  BY <1>1, <1>2, <1>3, <1>4

(* So does a render. *)
LEMMA BeginBlockInductive ==
  ASSUME Inductive, NEW n \in BlockSizes, BeginBlock(n)
  PROVE  Inductive'
<1>1. n \in Nat /\ PpqNow \in Int
  BY PositionIsNat, BoundsAreNat
<1>2. Numbers'
  BY <1>1 DEF BeginBlock, View, Inductive, TypeOK, AnchorBehind, Numbers
<1>3. Flags'
  BY DEF BeginBlock, Inductive, TypeOK, NoEdgeWaits, Flags
<1>4. QED
  BY <1>2, <1>3, Halves

(* And a restart of the device. *)
LEMMA PrepareInductive ==
  ASSUME Inductive, NEW newRate \in Rates, Prepare(newRate)
  PROVE  Inductive'
<1>1. bpm \div newRate \in Nat \ {0}
  BY StepIsPositive DEF Inductive, TypeOK
<1>2. PpqNow \in Nat
  BY PositionIsNat
<1>3. RoundedSample(PpqNow, bpm \div newRate) \in Nat
  BY <1>1, <1>2, RoundedIsNat
<1>4. Numbers'
  BY <1>2, <1>3, BoundsAreNat
  DEF Prepare, MoveTo, View, Inductive, TypeOK, AnchorBehind, Numbers
<1>5. Flags'
  BY DEF Prepare, Inductive, TypeOK, NoEdgeWaits, Flags
<1>6. QED
  BY <1>4, <1>5, Halves

(* Every step of the clock keeps the invariant. *)
LEMMA StepInductive == Inductive /\ [Next]_transportVars => Inductive'
<1>1. Inductive /\ UNCHANGED transportVars => Inductive'
  BY DEF Inductive, TypeOK, AnchorBehind, NoEdgeWaits, transportVars
<1>2. QED
  BY <1>1, CommandInductive, BeginBlockInductive, PrepareInductive DEF Next

(* The clock is well at every moment. *)
THEOREM AlwaysInductive == Spec => []Inductive
  BY InitInductive, StepInductive, PTL DEF Spec

(* Every variable of the clock stays in its range, at any tempo and rate:    *)
(* the playhead and the position are never negative.                         *)
THEOREM TypeCorrect == Spec => []TypeOK
<1>1. Inductive => TypeOK
  BY DEF Inductive
<1>2. QED
  BY <1>1, AlwaysInductive, PTL

(* The position is never extrapolated backwards from its anchor. *)
THEOREM AnchorStaysBehind == Spec => []AnchorBehind
<1>1. Inductive => AnchorBehind
  BY DEF Inductive
<1>2. QED
  BY <1>1, AlwaysInductive, PTL

(* Each stop and each locate is latched by the render that drained it. *)
THEOREM EdgesAreLatched == Spec => []NoEdgeWaits
<1>1. Inductive => NoEdgeWaits
  BY DEF Inductive
<1>2. QED
  BY <1>1, AlwaysInductive, PTL

-----------------------------------------------------------------------------
(* One step of the clock moves the position as BlocksTile says. *)
Tiles ==
  \/ positionJumpEdge'
  \/ PpqNow' = IF draining' \/ prepares' # prepares THEN PpqNow ELSE BlockEndPpq(latched')

(* A command moves the position only under a jump edge. *)
LEMMA CommandTiles == Inductive /\ Command => Tiles
<1> SUFFICES ASSUME Inductive, Command PROVE Tiles
  OBVIOUS
<1>0. draining'
  BY DEF Command
<1>1. CASE TransportPlay
  BY <1>0, <1>1 DEF Tiles, TransportPlay, clockVars, PpqNow, PpqAtSample, PpqPerSample
<1>2. CASE TransportStop
  BY <1>2 DEF Tiles, TransportStop
<1>3. ASSUME NEW target \in LocateTargets, TransportLocate(target) PROVE Tiles
  BY <1>0, <1>3 DEF Tiles, TransportLocate, clockVars, PpqNow, PpqAtSample, PpqPerSample
<1>4. ASSUME NEW newBpm \in TempoRequests, SetTempo(newBpm) PROVE Tiles
  <2>1. newBpm \in Bpms
    BY TransportAssumption
  <2>2. newBpm \div sampleRate \in Nat
    BY <2>1, StepIsPositive DEF Inductive, TypeOK
  <2>3. samplePosition' - anchorSample' = 0 /\ anchorPpq' = PpqNow
    BY <1>4 DEF SetTempo, Inductive, TypeOK
  <2>4. PpqPerSample' \in Nat
    BY <1>4, <2>2 DEF SetTempo, PpqPerSample
  <2>5. PpqNow' = PpqNow
    BY <2>3, <2>4, PositionIsNat DEF PpqNow, PpqAtSample
  <2>6. QED
    BY <1>0, <2>5 DEF Tiles
<1>5. QED
  BY <1>1, <1>2, <1>3, <1>4 DEF Command

(* A block advances the position by exactly what it latched. *)
LEMMA BeginBlockTiles ==
  ASSUME Inductive, NEW n \in BlockSizes, BeginBlock(n)
  PROVE  Tiles
<1> DEFINE advance == IF playing THEN n ELSE 0
<1>1. advance \in Int /\ PpqPerSample \in Int
  BY PositionIsNat, TransportAssumption
<1>2. PpqNow' = anchorPpq + ((samplePosition + advance) - anchorSample) * PpqPerSample
  BY DEF BeginBlock, PpqNow, PpqAtSample, PpqPerSample
<1>3. PpqNow' = PpqNow + advance * PpqPerSample
  <2>1. anchorPpq \in Int /\ samplePosition \in Int /\ anchorSample \in Int
    BY DEF Inductive, TypeOK
  <2>2. QED
    BY <1>1, <1>2, <2>1, Advance DEF PpqNow, PpqAtSample
<1>4. latched'.ppq = PpqNow /\ latched'.advance = advance
  BY DEF BeginBlock, View
<1>5. BlockEndPpq(latched') = PpqNow + advance * PpqPerSample
  BY <1>4 DEF BlockEndPpq
<1>6. ~ draining' /\ prepares' = prepares
  BY DEF BeginBlock
<1>7. QED
  BY <1>3, <1>5, <1>6 DEF Tiles

(* A restart leaves the position where it was. *)
LEMMA PrepareTiles ==
  ASSUME Inductive, NEW newRate \in Rates, Prepare(newRate)
  PROVE  Tiles
<1>1. bpm \div newRate \in Nat \ {0} /\ PpqNow \in Nat
  BY StepIsPositive, PositionIsNat DEF Inductive, TypeOK
<1>2. RoundedSample(PpqNow, bpm \div newRate) \in Nat
  BY <1>1, RoundedIsNat
<1>3. samplePosition' - anchorSample' = 0 /\ anchorPpq' = PpqNow
  BY <1>2 DEF Prepare, MoveTo
<1>4. PpqPerSample' \in Nat
  BY <1>1 DEF Prepare, PpqPerSample
<1>5. PpqNow' = PpqNow
  BY <1>1, <1>3, <1>4 DEF PpqNow, PpqAtSample
<1>6. prepares' # prepares
  BY DEF Prepare, Inductive, TypeOK
<1>7. QED
  BY <1>5, <1>6 DEF Tiles

(* Blocks of any sizes tile the timeline, across every change of tempo and   *)
(* sample rate.                                                              *)
THEOREM TimelineIsTiled == Spec => BlocksTile
<1>1. Inductive /\ [Next]_transportVars => [Tiles]_transportVars
  BY CommandTiles, BeginBlockTiles, PrepareTiles DEF Next
<1>2. QED
  BY <1>1, AlwaysInductive, PTL DEF Spec, BlocksTile, Tiles

-----------------------------------------------------------------------------

(* Rounding up to a step: the first multiple at or after a position. *)
LEMMA CeilIsCeiling ==
  ASSUME NEW a \in Int, NEW g \in Nat \ {0}
  PROVE  /\ CeilDiv(a, g) \in Int
         /\ CeilDiv(a, g) * g >= a
         /\ (CeilDiv(a, g) - 1) * g < a
<1> DEFINE q == (-a) \div g
           r == (-a) % g
<1>1. q \in Int /\ r \in 0 .. g - 1 /\ -a = g * q + r
  OBVIOUS
<1>2. CeilDiv(a, g) = -q
  BY DEF CeilDiv
<1> HIDE DEF q, r
<1>3. (-q) * g = a + r
  BY <1>1
<1>4. (-q - 1) * g = (a + r) - g
  BY <1>1
<1>5. QED
  BY <1>1, <1>2, <1>3, <1>4

(* Multiplying by the grid keeps the order of steps. *)
LEMMA Order ==
  ASSUME NEW i \in Int, NEW j \in Int, NEW g \in Nat \ {0}
  PROVE  i < j <=> i * g < j * g
OBVIOUS

(* A step at or after a position is at or after the position's own step, and *)
(* a step before it before.                                                  *)
LEMMA CeilSplits ==
  ASSUME NEW a \in Int, NEW g \in Nat \ {0}, NEW i \in Int
  PROVE  i * g >= a <=> i >= CeilDiv(a, g)
<1> DEFINE k == CeilDiv(a, g)
<1>1. k \in Int /\ k * g >= a /\ (k - 1) * g < a
  BY CeilIsCeiling
<1> HIDE DEF k
<1>2. i >= k => i * g >= a
  <2>1. i * g \in Int /\ k * g \in Int
    BY <1>1
  <2>2. i >= k => i * g >= k * g
    BY <1>1, <2>1, Order
  <2>3. QED
    BY <1>1, <2>1, <2>2
<1>3. i < k => i * g < a
  <2>1. i * g \in Int /\ (k - 1) * g \in Int
    BY <1>1
  <2>2. i <= k - 1 => i * g <= (k - 1) * g
    BY <1>1, <2>1, Order
  <2>3. QED
    BY <1>1, <2>1, <2>2
<1>4. i * g \in Int
  OBVIOUS
<1>5. QED
  BY <1>1, <1>2, <1>3, <1>4 DEF k

-----------------------------------------------------------------------------
(* The walk's state, and what an operation on the notes leaves of it. *)

Switches ==
  [requested : BOOLEAN, pattern : Patterns, quantize : Modes, resolved : BOOLEAN, step : Int]

IsWalk(w) ==
  /\ DOMAIN w = {"table", "midi", "pattern", "switch", "lastFired"}
  /\ w.pattern \in Patterns
  /\ w.switch \in Switches

Keeps(w, v) ==
  /\ DOMAIN v = {"table", "midi", "pattern", "switch", "lastFired"}
  /\ v.pattern = w.pattern /\ v.switch = w.switch /\ v.lastFired = w.lastFired

(* What is kept of a walk makes it one. *)
LEMMA KeepsIsWalk == \A w, v : IsWalk(w) /\ Keeps(w, v) => IsWalk(v)
  BY DEF IsWalk, Keeps

(* Keeping composes. *)
LEMMA KeepsOn == \A w, v, x : Keeps(w, v) /\ Keeps(v, x) => Keeps(w, x)
  BY DEF Keeps

(* A walk keeps its own. *)
LEMMA WalkKeeps == \A w : IsWalk(w) => Keeps(w, w)
  BY DEF IsWalk, Keeps

(* A record whose notes and events alone are replaced. *)
LEMMA NotesReplaced ==
  ASSUME NEW w, IsWalk(w), NEW t, NEW m
  PROVE  Keeps(w, [w EXCEPT !.table = t, !.midi = m]) /\ Keeps(w, [w EXCEPT !.midi = m, !.table = t])
BY DEF IsWalk, Keeps

(* Ending every note leaves the rest of the walk alone, *)
LEMMA FlushKeeps ==
  ASSUME NEW w, IsWalk(w), NEW block, NEW sample
  PROVE  Keeps(w, Flush(w, block, sample))
BY NotesReplaced, Zenon DEF Flush

(* and so does ending the notes that are due, *)
LEMMA EndsKeep ==
  ASSUME NEW w, IsWalk(w), NEW block
  PROVE  Keeps(w, EmitDueNoteOffs(w, block))
BY NotesReplaced, Zenon DEF EmitDueNoteOffs

(* and ending one, *)
LEMMA RetireKeeps ==
  ASSUME NEW w, IsWalk(w), NEW i, NEW cap, NEW block
  PROVE  Keeps(w, RetireNoLaterThan(w, i, cap, block))
BY NotesReplaced, Zenon DEF RetireNoLaterThan

(* and playing one. *)
LEMMA EmitKeeps ==
  ASSUME NEW w, IsWalk(w), NEW index, NEW child, NEW emission, NEW on, NEW c
  PROVE  Keeps(w, EmitNote(w, index, child, emission, on, c))
<1> DEFINE pitch == emission.notes[child].pitch
           existing == FindStartedAtOrBefore(w.table, pitch, on)
           retired == IF existing = 0 THEN w
                      ELSE RetireNoLaterThan(w, existing,
                             IF w.table[existing].due <= on THEN on ELSE on - 1, c.block)
<1>1. Keeps(w, retired) /\ IsWalk(retired)
  <2> HIDE DEF existing
  <2>1. QED
    BY RetireKeeps, WalkKeeps, KeepsIsWalk, Zenon
<1>2. \A due, event :
        Keeps(retired, [retired EXCEPT !.table = Append(@, due), !.midi = AddEvent(@, event)])
  <2> HIDE DEF retired
  <2>1. QED
    BY <1>1 DEF IsWalk, Keeps
<1>3. \A due, event :
        Keeps(w, [retired EXCEPT !.table = Append(@, due), !.midi = AddEvent(@, event)])
  BY <1>1, <1>2, KeepsOn, Zenon
<1>4. QED
  BY <1>1, <1>3, Zenon DEF EmitNote

-----------------------------------------------------------------------------
(* The two folds of the walk: the notes of a step, the steps of a block. *)

Played(w, index, c) ==
  EvaluateStep(c.snapshot, FireSwitch(w, index, c).pattern, index, fillHeld)

PlayNote(w, child, index, emission, c) ==
  IF DiscontinuedBySwitch(w, index, NotePpq(index, emission, child, c.grid), c.grid)
     \/ ~ OwnsPpq(NotePpq(index, emission, child, c.grid), c.view)
  THEN w
  ELSE EmitNote(w, index, child, emission,
                High(c.view.samples, SampleForPpq(NotePpq(index, emission, child, c.grid), c.view)),
                c)

NoteFold == INSTANCE Folding WITH Op <- PlayNote

VisitStep(w, index, c, x, y) == WalkStep(w, index, c)

WalkFold == INSTANCE Folding WITH Op <- VisitStep

Domain(notes) == [i \in DOMAIN notes |-> i]

(* A step of the walk is a fold over its notes, *)
LEMMA StepIsFold ==
  ASSUME NEW w, NEW index, NEW c
  PROVE  WalkStep(w, index, c) =
           NoteFold!Fold(index, Played(w, index, c), c, FireSwitch(w, index, c),
                         Domain(Played(w, index, c).notes))
BY Zenon
DEF WalkStep, Played, PlayNote, Domain, NoteFold!Fold, FoldLeftDomain, FoldLeft, MapThenFoldSet, Max,
    NoteFold!FoldLeft, NoteFold!MapThenFoldSet, NoteFold!Max

(* which has a run, *)
LEMMA NotesRun ==
  ASSUME NEW w, NEW index, NEW emission, NEW c, NEW n \in Nat, DOMAIN emission.notes = 1 .. n
  PROVE  \E run : NoteFold!IsRun(run, index, emission, c, w, Domain(emission.notes), n)
<1>1. DOMAIN Domain(emission.notes) = 1 .. n
  BY DEF Domain
<1>2. QED
  BY <1>1, NoteFold!FoldRuns

WalkFirst(c) == CeilDiv(c.view.ppq, c.grid) - ScanBack
WalkLast(c) == CeilDiv(BlockEndPpq(c.view), c.grid) + ScanForward - 1
WalkSteps(c) == [k \in 1 .. WalkLast(c) - WalkFirst(c) + 1 |-> WalkFirst(c) + k - 1]

(* and the walk is a fold over its steps, *)
LEMMA WalkIsFold ==
  ASSUME NEW w, NEW c
  PROVE  Walk(w, c) = WalkFold!Fold(c, 0, 0, w, WalkSteps(c))
BY Zenon
DEF Walk, VisitStep, WalkFirst, WalkLast, WalkSteps, WalkFold!Fold, FoldLeft, MapThenFoldSet, Max,
    WalkFold!FoldLeft, WalkFold!MapThenFoldSet, WalkFold!Max

WalkRun(run, w, c, n) ==
  /\ run[0] = w
  /\ \A k \in 1 .. n : run[k] = WalkStep(run[k - 1], WalkFirst(c) + k - 1, c)
  /\ Walk(w, c) = run[n]

(* which has one too. *)
LEMMA StepsRun ==
  ASSUME NEW w, NEW c, NEW n \in Nat, WalkLast(c) - WalkFirst(c) + 1 = n
  PROVE  \E run : WalkRun(run, w, c, n)
<1>1. DOMAIN WalkSteps(c) = 1 .. n
  BY DEF WalkSteps
<1>2. PICK run : WalkFold!IsRun(run, c, 0, 0, w, WalkSteps(c), n)
  BY <1>1, WalkFold!FoldRuns
<1>3. \A k \in 1 .. n : WalkSteps(c)[k] = WalkFirst(c) + k - 1
  BY DEF WalkSteps
<1>4. WalkRun(run, w, c, n)
  BY <1>2, <1>3, WalkIsFold DEF WalkRun, WalkFold!IsRun, VisitStep
<1>5. QED
  BY <1>4

-----------------------------------------------------------------------------
(* What the walk does to the switch: it lands in the block that owns its     *)
(* step, or it is left for a later one.                                      *)

Fires(w, index, c) ==
  w.switch.resolved /\ index = w.switch.step /\ OwnsPpq(index * c.grid, c.view)

Switched(w, index, v) ==
  /\ DOMAIN v = {"table", "midi", "pattern", "switch", "lastFired"}
  /\ v.pattern = w.switch.pattern
  /\ v.lastFired = index
  /\ v.switch = ClearedSwitch(w.switch)

(* A switch that was granted is a switch, with nothing pending. *)
LEMMA ClearedIsSwitch ==
  \A s \in Switches : /\ ClearedSwitch(s) \in Switches
                      /\ ~ ClearedSwitch(s).resolved /\ ~ ClearedSwitch(s).requested
  BY DEF Switches, ClearedSwitch

(* A walk in which the switch has landed is a walk. *)
LEMMA SwitchedIsWalk ==
  \A w, index, v : IsWalk(w) /\ Switched(w, index, v) => IsWalk(v) /\ ~ v.switch.resolved
<1>1. \A w : w.switch \in Switches => w.switch.pattern \in Patterns
  BY DEF Switches
<1>2. QED
  BY <1>1, ClearedIsSwitch, Zenon DEF IsWalk, Switched

(* What keeps such a walk leaves it landed. *)
LEMMA SwitchedKeeps ==
  \A w, index, v, x : Switched(w, index, v) /\ Keeps(v, x) => Switched(w, index, x)
  BY DEF Switched, Keeps

(* The switch lands exactly when its step is visited by the block that owns it. *)
LEMMA FireOutcome ==
  ASSUME NEW w, IsWalk(w), NEW index, NEW c
  PROVE  /\ IsWalk(FireSwitch(w, index, c))
         /\ Fires(w, index, c) => Switched(w, index, FireSwitch(w, index, c))
         /\ ~ Fires(w, index, c) => FireSwitch(w, index, c) = w
<1>1. ASSUME Fires(w, index, c) PROVE Switched(w, index, FireSwitch(w, index, c))
  <2> DEFINE sample == High(c.view.samples, SampleForPpq(index * c.grid, c.view))
             flushed == Flush(w, c.block, sample)
  <2>1. Keeps(w, flushed)
    BY FlushKeeps
  <2>2. FireSwitch(w, index, c) =
          [flushed EXCEPT !.pattern = w.switch.pattern, !.lastFired = index,
                          !.switch = ClearedSwitch(@)]
    BY <1>1, Zenon DEF FireSwitch, Fires
  <2> HIDE DEF flushed
  <2>3. QED
    BY <2>1, <2>2 DEF Keeps, Switched
<1>2. ASSUME ~ Fires(w, index, c) PROVE FireSwitch(w, index, c) = w
  BY <1>2, Zenon DEF FireSwitch, Fires
<1>3. QED
  BY <1>1, <1>2, SwitchedIsWalk, Zenon

(* A note of a step leaves the switch alone, *)
LEMMA PlayNoteKeeps ==
  ASSUME NEW w, IsWalk(w), NEW child, NEW index, NEW emission, NEW c
  PROVE  Keeps(w, PlayNote(w, child, index, emission, c))
BY EmitKeeps, WalkKeeps, Zenon DEF PlayNote

(* and so do all the notes of a step. *)
LEMMA NotesKeep ==
  ASSUME NEW w, IsWalk(w), NEW index, NEW emission, NEW c, NEW n \in Nat,
         DOMAIN emission.notes = 1 .. n
  PROVE  Keeps(w, NoteFold!Fold(index, emission, c, w, Domain(emission.notes)))
<1>1. PICK run : NoteFold!IsRun(run, index, emission, c, w, Domain(emission.notes), n)
  BY NotesRun
<1> DEFINE T == {k \in 0 .. n : Keeps(w, run[k])}
<1>2. 0 \in T
  BY <1>1, WalkKeeps DEF NoteFold!IsRun
<1>3. ASSUME NEW k \in 0 .. n - 1, k \in T PROVE k + 1 \in T
  <2>1. k + 1 \in 1 .. n /\ (k + 1) - 1 = k
    OBVIOUS
  <2>2. run[k + 1] = PlayNote(run[k], Domain(emission.notes)[k + 1], index, emission, c)
    BY <1>1, <2>1 DEF NoteFold!IsRun
  <2>3. IsWalk(run[k])
    BY <1>3, KeepsIsWalk
  <2>4. Keeps(run[k], run[k + 1])
    BY <2>2, <2>3, PlayNoteKeeps
  <2>5. QED
    BY <1>3, <2>4, KeepsOn
<1>4. n \in T
  <2> HIDE DEF T
  <2>1. \A k \in 0 .. n : k \in T
    BY <1>2, <1>3, NoteFold!Counting
  <2>2. QED
    BY <2>1
<1>5. QED
  BY <1>1, <1>4 DEF NoteFold!IsRun

(* A step has a finite sequence of notes, whatever its index. *)
LEMMA EmissionIsStep ==
  ASSUME NEW snapshot \in Snapshots, NEW pattern \in Patterns, NEW index \in Int, NEW fill
  PROVE  \E n \in Nat : DOMAIN EvaluateStep(snapshot, pattern, index, fill).notes = 1 .. n
<1> DEFINE cycle == Steps[snapshot][pattern]
<1>1. IsCycle(cycle)
  BY SequencerAssumption
<1> HIDE DEF cycle
<1>2. index % Len(cycle) \in 0 .. Len(cycle) - 1 /\ Len(cycle) \in Nat
  BY <1>1 DEF IsCycle
<1>3. 1 + (index % Len(cycle)) \in DOMAIN cycle
  BY <1>1, <1>2 DEF IsCycle
<1>4. PICK k \in DOMAIN cycle : StepAt(snapshot, pattern, index) = cycle[k]
  BY <1>3 DEF StepAt, cycle
<1>5. Len(cycle[k].notes) \in Nat /\ DOMAIN cycle[k].notes = 1 .. Len(cycle[k].notes)
  BY <1>1 DEF IsCycle
<1>6. DOMAIN << >> = 1 .. 0
  OBVIOUS
<1>7. QED
  <2>1. CASE EvaluateStep(snapshot, pattern, index, fill) = cycle[k]
    BY <1>5, <2>1
  <2>2. CASE EvaluateStep(snapshot, pattern, index, fill) = [shift |-> 0, notes |-> << >>]
    BY <1>6, <2>2
  <2>3. QED
    BY <1>4, <2>1, <2>2, Zenon DEF EvaluateStep

(* After the switch has fired or not, a step only plays. *)
LEMMA WalkStepOutcome ==
  ASSUME NEW w, IsWalk(w), NEW index \in Int, NEW c, c.snapshot \in Snapshots
  PROVE  Keeps(FireSwitch(w, index, c), WalkStep(w, index, c))
<1>1. IsWalk(FireSwitch(w, index, c))
  BY FireOutcome
<1>2. FireSwitch(w, index, c).pattern \in Patterns
  BY <1>1 DEF IsWalk
<1>3. PICK n \in Nat : DOMAIN Played(w, index, c).notes = 1 .. n
  BY <1>2, EmissionIsStep DEF Played
<1>4. QED
  BY <1>1, <1>3, NotesKeep, StepIsFold

(* The context of a walk: a block of a snapshot that ends no earlier than it *)
(* starts.                                                                   *)
IsContext(c) ==
  /\ c.snapshot \in Snapshots /\ c.grid = Grid[c.snapshot]
  /\ c.view.ppq \in Int /\ BlockEndPpq(c.view) \in Int
  /\ c.view.ppq <= BlockEndPpq(c.view)

(* The walk visits every step whose position the block owns. *)
LEMMA WalkLength ==
  ASSUME NEW c, IsContext(c)
  PROVE  /\ WalkFirst(c) \in Int /\ WalkLast(c) \in Int
         /\ WalkLast(c) - WalkFirst(c) + 1 \in Nat
         /\ \A i \in Int : OwnsPpq(i * c.grid, c.view) =>
              \E k \in 1 .. WalkLast(c) - WalkFirst(c) + 1 : i = WalkFirst(c) + k - 1
<1>1. c.grid \in Nat \ {0}
  BY SequencerAssumption DEF IsContext
<1> DEFINE from == CeilDiv(c.view.ppq, c.grid)
           to == CeilDiv(BlockEndPpq(c.view), c.grid)
<1>2. from \in Int /\ to \in Int /\ to * c.grid >= BlockEndPpq(c.view)
  BY <1>1, CeilIsCeiling DEF IsContext
<1>3. to * c.grid \in Int
  BY <1>1, <1>2
<1>4. to * c.grid >= c.view.ppq
  BY <1>2, <1>3 DEF IsContext
<1>5. from <= to
  BY <1>1, <1>2, <1>4, CeilSplits DEF IsContext
<1>6. WalkFirst(c) = from - 2 /\ WalkLast(c) = to
  BY <1>2 DEF WalkFirst, WalkLast, ScanBack, ScanForward
<1>7. ASSUME NEW i \in Int, OwnsPpq(i * c.grid, c.view)
      PROVE  from <= i /\ i < to
  <2>1. i * c.grid \in Int
    BY <1>1
  <2>2. i * c.grid >= c.view.ppq /\ ~ i * c.grid >= BlockEndPpq(c.view)
    BY <1>7, <2>1 DEF OwnsPpq, IsContext
  <2>3. i >= from /\ ~ i >= to
    BY <1>1, <2>2, CeilSplits DEF IsContext
  <2>4. QED
    BY <1>2, <2>3
<1> HIDE DEF from, to
<1>8. ASSUME NEW i \in Int, from <= i, i < to
      PROVE  \E k \in 1 .. to - (from - 2) + 1 : i = (from - 2) + k - 1
  <2>1. i - from + 3 \in 1 .. to - (from - 2) + 1 /\ i = (from - 2) + (i - from + 3) - 1
    BY <1>2, <1>8
  <2>2. QED
    BY <2>1
<1>9. to - (from - 2) + 1 \in Nat
  BY <1>2, <1>5
<1>10. QED
  BY <1>2, <1>6, <1>7, <1>8, <1>9

(* So the walk lands a switch if and only if the block owns its step. *)
LEMMA WalkOutcome ==
  ASSUME NEW w, IsWalk(w), NEW c, IsContext(c)
  PROVE  \/ /\ Keeps(w, Walk(w, c))
            /\ ~ (w.switch.resolved /\ OwnsPpq(w.switch.step * c.grid, c.view))
         \/ /\ w.switch.resolved /\ OwnsPpq(w.switch.step * c.grid, c.view)
            /\ Switched(w, w.switch.step, Walk(w, c))
<1> DEFINE n == WalkLast(c) - WalkFirst(c) + 1
           at == w.switch.step
           Owned == w.switch.resolved /\ OwnsPpq(at * c.grid, c.view)
<1>1. n \in Nat /\ WalkFirst(c) \in Int /\ at \in Int
  BY WalkLength DEF IsWalk, Switches
<1>2. PICK run : WalkRun(run, w, c, n)
  BY <1>1, StepsRun
<1> HIDE DEF n
<1> DEFINE Waiting(k) == Keeps(w, run[k]) /\ \A j \in 1 .. k : ~ Fires(w, WalkFirst(c) + j - 1, c)
           Landed(k) == Owned /\ Switched(w, at, run[k])
           T == {k \in 0 .. n : Waiting(k) \/ Landed(k)}
<1>3. 0 \in T
  <2>1. Keeps(w, run[0]) /\ 1 .. 0 = {}
    BY <1>2, WalkKeeps DEF WalkRun
  <2>2. 0 \in 0 .. n
    BY <1>1
  <2>3. QED
    BY <2>1, <2>2
<1>4. ASSUME NEW k \in 0 .. n - 1, k \in T PROVE k + 1 \in T
  <2> DEFINE index == WalkFirst(c) + (k + 1) - 1
  <2>1. k \in Nat /\ k + 1 \in 1 .. n /\ k + 1 \in 0 .. n /\ (k + 1) - 1 = k /\ index \in Int
    BY <1>1
  <2>2. run[k + 1] = WalkStep(run[k], index, c)
    BY <1>2, <2>1 DEF WalkRun
  <2> HIDE DEF index
  <2>3. IsWalk(run[k])
    BY <1>4, KeepsIsWalk, SwitchedIsWalk
  <2>4. Keeps(FireSwitch(run[k], index, c), run[k + 1])
    BY <2>1, <2>2, <2>3, WalkStepOutcome DEF IsContext
  <2>5. CASE Landed(k)
    <3>1. ~ Fires(run[k], index, c)
      BY <2>5, SwitchedIsWalk DEF Fires
    <3>2. FireSwitch(run[k], index, c) = run[k]
      BY <2>3, <3>1, FireOutcome
    <3>3. Switched(w, at, run[k + 1])
      BY <2>4, <2>5, <3>2, SwitchedKeeps
    <3>4. QED
      BY <2>1, <2>5, <3>3
  <2>6. CASE Waiting(k)
    <3>1. run[k].switch = w.switch
      BY <2>6 DEF Keeps
    <3>2. CASE Fires(w, index, c)
      <4>1. Fires(run[k], index, c)
        BY <3>1, <3>2 DEF Fires
      <4>2. Switched(run[k], index, FireSwitch(run[k], index, c))
        BY <2>3, <4>1, FireOutcome
      <4>3. Switched(run[k], index, run[k + 1])
        BY <2>4, <4>2, SwitchedKeeps
      <4>4. Switched(w, at, run[k + 1]) /\ Owned
        BY <3>1, <3>2, <4>3 DEF Switched, Fires
      <4>5. QED
        BY <2>1, <4>4
    <3>3. CASE ~ Fires(w, index, c)
      <4>1. ~ Fires(run[k], index, c)
        BY <3>1, <3>3 DEF Fires
      <4>2. FireSwitch(run[k], index, c) = run[k]
        BY <2>3, <4>1, FireOutcome
      <4>3. Keeps(w, run[k + 1])
        BY <2>4, <2>6, <4>2, KeepsOn
      <4>4. \A j \in 1 .. k + 1 : ~ Fires(w, WalkFirst(c) + j - 1, c)
        <5>1. \A j \in 1 .. k + 1 : j \in 1 .. k \/ j = k + 1
          BY <2>1
        <5>2. QED
          BY <2>6, <3>3, <5>1 DEF index
      <4>5. QED
        BY <2>1, <4>3, <4>4
    <3>4. QED
      BY <3>2, <3>3
  <2>7. QED
    BY <1>4, <2>5, <2>6
<1>5. n \in T
  <2> HIDE DEF T
  <2>1. \A k \in 0 .. n : k \in T
    BY <1>1, <1>3, <1>4, NoteFold!Counting
  <2>2. QED
    BY <1>1, <2>1
<1>6. Walk(w, c) = run[n]
  BY <1>2 DEF WalkRun
<1>7. CASE Landed(n)
  BY <1>6, <1>7
<1>8. CASE Waiting(n)
  <2>1. ~ Owned
    <3>1. SUFFICES ASSUME Owned PROVE FALSE
      OBVIOUS
    <3>2. PICK k \in 1 .. n : at = WalkFirst(c) + k - 1
      BY <1>1, <3>1, WalkLength DEF n
    <3>3. Fires(w, WalkFirst(c) + k - 1, c)
      BY <3>1, <3>2 DEF Fires
    <3>4. QED
      BY <1>8, <3>3
  <2>2. QED
    BY <1>6, <1>8, <2>1
<1>9. QED
  BY <1>5, <1>7, <1>8

-----------------------------------------------------------------------------
(* What a render does to the switch. *)

(* A step is the first at or after a multiple of its quantum. *)
OnQuantum(step, quantize, snapshot, pattern) ==
  \E k \in 0 .. step * Grid[snapshot] :
    step = CeilDiv(k * QuantumTicks(quantize, snapshot, pattern), Grid[snapshot])

(* Every quantum is a positive number of ticks. *)
LEMMA QuantumIsPositive ==
  ASSUME NEW quantize \in Modes, NEW snapshot \in Snapshots, NEW pattern \in Patterns
  PROVE  /\ QuantumTicks(quantize, snapshot, pattern) \in Nat \ {0}
         /\ quantize = "instant" => QuantumTicks(quantize, snapshot, pattern) = Grid[snapshot]
<1>1. Grid[snapshot] \in Nat \ {0} /\ Beat \in Nat \ {0} /\ Bar \in Nat \ {0}
  BY SequencerAssumption
<1>2. Len(Steps[snapshot][pattern]) \in Nat \ {0}
  BY SequencerAssumption DEF IsCycle
<1>3. GatePeriod(snapshot, pattern) * Grid[snapshot] \in Nat \ {0}
  <2>1. \A a, b \in Nat \ {0} : a * b \in Nat \ {0}
    OBVIOUS
  <2>2. QED
    BY <1>1, <1>2, <2>1 DEF GatePeriod
<1>4. CASE quantize = "instant"
  BY <1>1, <1>4 DEF QuantumTicks
<1>5. CASE quantize = "beat"
  BY <1>1, <1>5 DEF QuantumTicks
<1>6. CASE quantize = "bar"
  BY <1>1, <1>6 DEF QuantumTicks
<1>7. CASE quantize = "patternEnd"
  BY <1>3, <1>7 DEF QuantumTicks
<1>8. QED
  BY <1>4, <1>5, <1>6, <1>7 DEF Modes

(* The step that holds a multiple of the grid is that multiple. *)
LEMMA CeilOfMultiple ==
  ASSUME NEW k \in Int, NEW g \in Nat \ {0}
  PROVE  CeilDiv(k * g, g) = k
<1>1. k * g \in Int
  OBVIOUS
<1>2. k * g >= k * g
  BY <1>1
<1>3. k >= CeilDiv(k * g, g)
  BY <1>1, <1>2, CeilSplits
<1>4. CeilDiv(k * g, g) \in Int /\ CeilDiv(k * g, g) * g >= k * g
  BY <1>1, CeilIsCeiling
<1>5. ~ CeilDiv(k * g, g) < k
  <2>1. CeilDiv(k * g, g) * g \in Int
    BY <1>4
  <2>2. QED
    BY <1>1, <1>4, <2>1, Order
<1>6. QED
  BY <1>3, <1>4, <1>5

(* A multiple is at least its factor. *)
LEMMA GrowsByProduct ==
  ASSUME NEW k \in Nat, NEW g \in Nat \ {0}
  PROVE  k * g \in Nat /\ k <= k * g
OBVIOUS

(* A request is resolved to a step that is not behind, on its quantum. *)
LEMMA TargetIsAhead ==
  ASSUME NEW quantize \in Modes, NEW snapshot \in Snapshots, NEW pattern \in Patterns,
         NEW ppq \in Nat, NEW step,
         step = CeilDiv(Target(quantize, ppq, QuantumTicks(quantize, snapshot, pattern)),
                        Grid[snapshot])
  PROVE  /\ step \in Int
         /\ step * Grid[snapshot] >= ppq
         /\ OnQuantum(step, quantize, snapshot, pattern)
<1> DEFINE quantum == QuantumTicks(quantize, snapshot, pattern)
           grid == Grid[snapshot]
<1>1. quantum \in Nat \ {0} /\ grid \in Nat \ {0}
  BY QuantumIsPositive, SequencerAssumption
<1>2. CASE quantize = "instant"
  <2>1. step = CeilDiv(ppq, grid)
    BY <1>2 DEF Target
  <2>2. step \in Int /\ step * grid >= ppq
    BY <1>1, <2>1, CeilIsCeiling
  <2>3. step \in Nat
    <3>1. ~ step < 0
      <4>1. step < 0 <=> step * grid < 0 * grid
        BY <1>1, <2>2, Order
      <4>2. 0 * grid = 0 /\ step * grid \in Int
        BY <1>1, <2>2
      <4>3. QED
        BY <2>2, <4>1, <4>2
    <3>2. QED
      BY <2>2, <3>1
  <2>4. step = CeilDiv(step * quantum, grid)
    <3>1. quantum = grid
      BY <1>2, QuantumIsPositive
    <3>2. step = CeilDiv(step * grid, grid)
      BY <1>1, <2>2, CeilOfMultiple
    <3>3. QED
      BY <3>1, <3>2
  <2>5. step \in 0 .. step * grid
    BY <1>1, <2>3, GrowsByProduct
  <2>6. QED
    BY <2>2, <2>4, <2>5 DEF OnQuantum
<1>3. CASE quantize # "instant"
  <2> DEFINE k == CeilDiv(ppq, quantum)
  <2>1. step = CeilDiv(k * quantum, grid)
    BY <1>3 DEF Target
  <2>2. k \in Int /\ k * quantum >= ppq
    BY <1>1, CeilIsCeiling
  <2> HIDE DEF k
  <2>3. k \in Nat
    <3>1. ~ k < 0
      <4>1. k < 0 <=> k * quantum < 0 * quantum
        BY <1>1, <2>2, Order
      <4>2. 0 * quantum = 0 /\ k * quantum \in Int
        BY <1>1, <2>2
      <4>3. QED
        BY <2>2, <4>1, <4>2
    <3>2. QED
      BY <2>2, <3>1
  <2>4. k * quantum \in Nat /\ k <= k * quantum
    BY <1>1, <2>3, GrowsByProduct
  <2>5. step \in Int /\ step * grid >= k * quantum
    BY <1>1, <2>1, <2>4, CeilIsCeiling
  <2>6. step * grid \in Int
    BY <1>1, <2>5
  <2> HIDE DEF quantum, grid
  <2>7. k \in 0 .. step * grid /\ step * grid >= ppq
    BY <2>2, <2>3, <2>4, <2>5, <2>6
  <2>8. QED
    BY <2>1, <2>5, <2>7 DEF OnQuantum, quantum, grid
<1>4. QED
  BY <1>2, <1>3

(* What a stop or a jump leaves of the switch: the request, not the step. *)
LEMMA SettleOutcome ==
  ASSUME NEW w, IsWalk(w), NEW view, NEW block
  PROVE  LET v == HandleDiscontinuities(w, view, block)
         IN  /\ IsWalk(v) /\ v.pattern = w.pattern
             /\ v.switch = w.switch \/ v.switch = [w.switch EXCEPT !.resolved = FALSE]
             /\ view.jumped => ~ v.switch.resolved
<1> DEFINE flushed == Flush(w, block, view.samples)
           cut == [flushed EXCEPT !.switch.resolved = FALSE, !.lastFired = NeverFired]
<1>1. Keeps(w, flushed) /\ IsWalk(flushed)
  BY FlushKeeps, KeepsIsWalk
<1>2. flushed.switch = w.switch /\ flushed.pattern = w.pattern
  BY <1>1 DEF Keeps
<1> HIDE DEF flushed
<1>3. /\ DOMAIN cut = {"table", "midi", "pattern", "switch", "lastFired"}
      /\ cut.pattern = w.pattern
      /\ cut.switch = [w.switch EXCEPT !.resolved = FALSE]
  BY <1>1, <1>2 DEF IsWalk
<1>4. [w.switch EXCEPT !.resolved = FALSE] \in Switches
  BY DEF IsWalk, Switches
<1>5. ~ [w.switch EXCEPT !.resolved = FALSE].resolved
  BY DEF IsWalk, Switches
<1>6. IsWalk(cut)
  <2> HIDE DEF cut
  <2>1. QED
    BY <1>3, <1>4 DEF IsWalk
<1> HIDE DEF cut
<1>7. CASE HandleDiscontinuities(w, view, block) = cut
  BY <1>3, <1>5, <1>6, <1>7
<1>8. CASE HandleDiscontinuities(w, view, block) = w /\ ~ view.jumped
  BY <1>8
<1>9. QED
  BY <1>7, <1>8, Zenon DEF HandleDiscontinuities, cut, flushed

(* A request is resolved once, ahead of the block and on its quantum. *)
LEMMA ResolveOutcome ==
  ASSUME NEW w, IsWalk(w), NEW c, IsContext(c), c.view.ppq \in Nat
  PROVE  LET v == ResolvePendingSwitch(w, c)
         IN  /\ IsWalk(v) /\ v.pattern = w.pattern
             /\ \/ v.switch = w.switch
                \/ /\ v.switch = ClearedSwitch(w.switch)
                   /\ w.switch.pattern = w.pattern
                \/ /\ w.switch.requested
                   /\ \E step \in Int :
                        /\ v.switch = [w.switch EXCEPT !.resolved = TRUE, !.step = step]
                        /\ step * c.grid >= c.view.ppq
                        /\ OnQuantum(step, w.switch.quantize, c.snapshot, w.pattern)
<1>1. w.pattern \in Patterns /\ w.switch.quantize \in Modes /\ w.switch \in Switches
  BY DEF IsWalk, Switches
<1>2. CASE ~ w.switch.requested \/ w.switch.resolved
  <2>1. ResolvePendingSwitch(w, c) = w
    BY <1>2 DEF ResolvePendingSwitch
  <2>2. QED
    BY <2>1
<1>3. CASE w.switch.requested /\ ~ w.switch.resolved /\ w.switch.pattern = w.pattern
  <2> DEFINE v == [w EXCEPT !.switch = ClearedSwitch(@)]
  <2>1. ResolvePendingSwitch(w, c) = v
    BY <1>3 DEF ResolvePendingSwitch
  <2>2. ClearedSwitch(w.switch) \in Switches
    BY <1>1, ClearedIsSwitch
  <2>3. /\ DOMAIN v = {"table", "midi", "pattern", "switch", "lastFired"}
        /\ v.pattern = w.pattern /\ v.switch = ClearedSwitch(w.switch)
    BY DEF IsWalk
  <2> HIDE DEF v
  <2>4. IsWalk(v)
    BY <1>1, <2>2, <2>3 DEF IsWalk
  <2>5. QED
    BY <1>3, <2>1, <2>3, <2>4
<1>4. CASE w.switch.requested /\ ~ w.switch.resolved /\ w.switch.pattern # w.pattern
  <2> DEFINE quantum == QuantumTicks(w.switch.quantize, c.snapshot, w.pattern)
             step == CeilDiv(Target(w.switch.quantize, c.view.ppq, quantum), c.grid)
             v == [w EXCEPT !.switch.resolved = TRUE, !.switch.step = step]
  <2>1. ResolvePendingSwitch(w, c) = v
    BY <1>4, Zenon DEF ResolvePendingSwitch
  <2>2. /\ step \in Int /\ step * c.grid >= c.view.ppq
        /\ OnQuantum(step, w.switch.quantize, c.snapshot, w.pattern)
    BY <1>1, TargetIsAhead DEF IsContext
  <2> HIDE DEF step
  <2>3. [w.switch EXCEPT !.resolved = TRUE, !.step = step] \in Switches
    BY <1>1, <2>2 DEF Switches
  <2>4. /\ DOMAIN v = {"table", "midi", "pattern", "switch", "lastFired"}
        /\ v.pattern = w.pattern
        /\ v.switch = [w.switch EXCEPT !.resolved = TRUE, !.step = step]
    BY DEF IsWalk
  <2> HIDE DEF v
  <2>5. IsWalk(v)
    BY <1>1, <2>3, <2>4 DEF IsWalk
  <2>6. QED
    BY <1>4, <2>1, <2>2, <2>4, <2>5
<1>5. QED
  BY <1>1, <1>2, <1>3, <1>4 DEF Switches

(* A latched block: its end is not before its start. *)
IsBlock(view) ==
  /\ view.ppq \in Nat
  /\ BlockEndPpq(view) \in Nat /\ view.ppq <= BlockEndPpq(view)
  /\ ~ view.playing => BlockEndPpq(view) = view.ppq

(* What a render finds of a resolved switch, and leaves of one. *)
AheadOf(s, snapshot, ppq) == s.resolved => s.step * Grid[snapshot] >= ppq

OnItsStep(s, snapshot, pattern) ==
  s.resolved => OnQuantum(s.step, s.quantize, snapshot, pattern)

(* What a block does to the switch and the pattern. *)
LEMMA ProcessOutcome ==
  ASSUME NEW snapshot \in Snapshots \union {NoSnapshot}, NEW pattern \in Patterns,
         NEW view, IsBlock(view), switch \in Switches,
         switch.resolved => switch.requested /\ snapshot # NoSnapshot
  PROVE  LET v == ProcessBlock(snapshot, pattern, view)
         IN  /\ v.switch \in Switches /\ v.pattern \in Patterns
             /\ v.switch.resolved => v.switch.requested /\ snapshot # NoSnapshot
             /\ switch.requested /\ ~ v.switch.requested => v.pattern = switch.pattern
             /\ view.jumped \/ AheadOf(switch, snapshot, view.ppq)
                  => AheadOf(v.switch, snapshot, BlockEndPpq(view))
             /\ OnItsStep(switch, snapshot, pattern) => OnItsStep(v.switch, snapshot, v.pattern)
             /\ v.pattern # pattern =>
                  /\ snapshot # NoSnapshot
                  /\ OwnsPpq(v.lastFired * Grid[snapshot], view)
                  /\ OnItsStep(switch, snapshot, pattern) =>
                       OnQuantum(v.lastFired, switch.quantize, snapshot, pattern)
<1> DEFINE block == Span(view.samples, view.length)
           start == [table |-> table, midi |-> << >>, pattern |-> pattern,
                     switch |-> switch, lastFired |-> lastFired]
           settled == HandleDiscontinuities(start, view, block)
           v == ProcessBlock(snapshot, pattern, view)
<1>1. IsWalk(start) /\ start.pattern = pattern /\ start.switch = switch
  BY DEF IsWalk
<1> HIDE DEF start
<1>2. /\ IsWalk(settled) /\ settled.pattern = pattern
      /\ settled.switch = switch \/ settled.switch = [switch EXCEPT !.resolved = FALSE]
      /\ view.jumped => ~ settled.switch.resolved
  BY <1>1, SettleOutcome
<1> HIDE DEF settled
<1>3. /\ settled.switch \in Switches
      /\ settled.switch.requested = switch.requested
      /\ settled.switch.pattern = switch.pattern
      /\ settled.switch.quantize = switch.quantize
      /\ settled.switch.step = switch.step
      /\ settled.switch.resolved => switch.resolved /\ ~ view.jumped
  BY <1>2 DEF Switches
<1>4. CASE snapshot = NoSnapshot
  <2>1. v = EmitDueNoteOffs(settled, block)
    BY <1>4, Zenon DEF ProcessBlock, settled, start
  <2>2. Keeps(settled, v)
    BY <1>2, <2>1, EndsKeep
  <2>3. v.switch = settled.switch /\ v.pattern = pattern
    BY <1>2, <2>2 DEF Keeps
  <2>4. ~ v.switch.resolved
    BY <1>3, <1>4, <2>3
  <2> HIDE DEF v
  <2>5. v.switch.requested = switch.requested /\ v.switch \in Switches /\ v.pattern \in Patterns
    BY <1>3, <2>3
  <2>6. QED
    BY <2>3, <2>4, <2>5 DEF AheadOf, OnItsStep, v
<1>5. CASE snapshot # NoSnapshot
  <2> DEFINE c == [snapshot |-> snapshot, grid |-> Grid[snapshot], view |-> view,
                   block |-> block]
             ready == ResolvePendingSwitch(settled, c)
             walked == IF view.playing THEN Walk(ready, c) ELSE ready
             ended == EmitDueNoteOffs(walked, block)
  <2>1. v = PreFlush(ended, c)
    BY <1>5, Zenon DEF ProcessBlock, settled, start
  <2>2. IsContext(c) /\ c.view = view /\ c.grid = Grid[snapshot] /\ c.snapshot = snapshot
    BY <1>5 DEF IsContext, IsBlock
  <2> HIDE DEF c
  <2>3. c.view.ppq \in Nat
    BY <2>2 DEF IsBlock
  <2>4. /\ IsWalk(ready) /\ ready.pattern = pattern
        /\ \/ ready.switch = settled.switch
           \/ /\ ready.switch = ClearedSwitch(settled.switch)
              /\ settled.switch.pattern = pattern
           \/ /\ settled.switch.requested
              /\ \E step \in Int :
                   /\ ready.switch = [settled.switch EXCEPT !.resolved = TRUE, !.step = step]
                   /\ step * Grid[snapshot] >= view.ppq
                   /\ OnQuantum(step, settled.switch.quantize, snapshot, pattern)
    BY <1>2, <2>2, <2>3, ResolveOutcome
  <2> HIDE DEF ready
  <2>5. /\ ready.switch \in Switches
        /\ ready.switch.resolved => ready.switch.requested
        /\ switch.requested /\ ~ ready.switch.requested => switch.pattern = pattern
        /\ ready.switch.requested => switch.requested
        /\ ready.switch.pattern = switch.pattern
        /\ ready.switch.quantize = switch.quantize
        /\ view.jumped \/ AheadOf(switch, snapshot, view.ppq)
             => AheadOf(ready.switch, snapshot, view.ppq)
        /\ OnItsStep(switch, snapshot, pattern) => OnItsStep(ready.switch, snapshot, pattern)
    <3>0. ready.switch \in Switches
      BY <2>4 DEF IsWalk
    <3>1. CASE ready.switch = settled.switch
      BY <1>3, <3>0, <3>1 DEF AheadOf, OnItsStep
    <3>2. CASE ready.switch = ClearedSwitch(settled.switch) /\ settled.switch.pattern = pattern
      <4>1. /\ ~ ready.switch.resolved /\ ~ ready.switch.requested
            /\ ready.switch.pattern = settled.switch.pattern
            /\ ready.switch.quantize = settled.switch.quantize
        BY <1>3, <3>2 DEF ClearedSwitch, Switches
      <4>2. QED
        BY <1>3, <3>0, <3>2, <4>1 DEF AheadOf, OnItsStep
    <3>3. ASSUME settled.switch.requested, NEW step \in Int,
                 ready.switch = [settled.switch EXCEPT !.resolved = TRUE, !.step = step],
                 step * Grid[snapshot] >= view.ppq,
                 OnQuantum(step, settled.switch.quantize, snapshot, pattern)
          PROVE  /\ ready.switch.resolved => ready.switch.requested
                 /\ switch.requested /\ ~ ready.switch.requested => switch.pattern = pattern
                 /\ ready.switch.requested => switch.requested
                 /\ ready.switch.pattern = switch.pattern
                 /\ ready.switch.quantize = switch.quantize
                 /\ AheadOf(ready.switch, snapshot, view.ppq)
                 /\ OnItsStep(ready.switch, snapshot, pattern)
      <4>1. /\ ready.switch.requested /\ ready.switch.step = step
            /\ ready.switch.pattern = settled.switch.pattern
            /\ ready.switch.quantize = settled.switch.quantize
        BY <1>3, <3>3 DEF Switches
      <4>2. QED
        BY <1>3, <3>3, <4>1 DEF AheadOf, OnItsStep
    <3>4. QED
      BY <2>4, <3>0, <3>1, <3>2, <3>3
  <2> DEFINE Owned == ready.switch.resolved /\ OwnsPpq(ready.switch.step * Grid[snapshot], view)
  <2>6. \/ Keeps(ready, walked) /\ (view.playing => ~ Owned)
        \/ Owned /\ Switched(ready, ready.switch.step, walked)
    <3>1. CASE view.playing
      <4>1. walked = Walk(ready, c)
        BY <3>1
      <4> HIDE DEF walked
      <4>2. QED
        BY <2>2, <2>4, <4>1, WalkOutcome
    <3>2. CASE ~ view.playing
      <4>1. Keeps(ready, walked)
        BY <2>4, <3>2, WalkKeeps
      <4>2. QED
        BY <3>2, <4>1
    <3>3. QED
      BY <3>1, <3>2
  <2>7. IsWalk(walked)
    <3> HIDE DEF walked
    <3>1. QED
      BY <2>4, <2>6, KeepsIsWalk, SwitchedIsWalk
  <2> HIDE DEF walked
  <2>8. Keeps(walked, v)
    <3>1. Keeps(walked, ended) /\ IsWalk(ended)
      BY <2>7, EndsKeep, KeepsIsWalk
    <3> HIDE DEF ended, v
    <3>2. Keeps(ended, v)
      BY <2>1, <3>1, FlushKeeps, WalkKeeps, Zenon DEF PreFlush
    <3>3. QED
      BY <3>1, <3>2, KeepsOn
  <2>9. IsWalk(v) /\ v.switch \in Switches /\ v.pattern \in Patterns
    BY <2>7, <2>8, KeepsIsWalk DEF IsWalk
  <2> HIDE DEF v
  <2>10. CASE Keeps(ready, walked) /\ (view.playing => ~ Owned)
    <3>1. v.switch = ready.switch /\ v.pattern = pattern
      BY <2>4, <2>8, <2>10 DEF Keeps
    <3>2. AheadOf(ready.switch, snapshot, view.ppq)
            => AheadOf(v.switch, snapshot, BlockEndPpq(view))
      <4>1. SUFFICES ASSUME ready.switch.resolved,
                            ready.switch.step * Grid[snapshot] >= view.ppq
                     PROVE  ready.switch.step * Grid[snapshot] >= BlockEndPpq(view)
        BY <3>1 DEF AheadOf
      <4>2. ready.switch.step * Grid[snapshot] \in Int
        BY <1>5, <2>5, SequencerAssumption DEF Switches
      <4>3. CASE view.playing
        BY <2>10, <4>1, <4>2, <4>3 DEF OwnsPpq, IsBlock
      <4>4. CASE ~ view.playing
        BY <4>1, <4>4 DEF IsBlock
      <4>5. QED
        BY <4>3, <4>4
    <3>3. QED
      BY <1>5, <2>5, <2>9, <3>1, <3>2 DEF v
  <2>11. CASE Owned /\ Switched(ready, ready.switch.step, walked)
    <3>1. /\ v.switch = ClearedSwitch(ready.switch)
          /\ v.pattern = switch.pattern
          /\ v.lastFired = ready.switch.step
      BY <2>5, <2>8, <2>11 DEF Keeps, Switched
    <3>2. ~ v.switch.resolved
      BY <2>5, <3>1, ClearedIsSwitch
    <3>3. OwnsPpq(v.lastFired * Grid[snapshot], view)
      BY <2>11, <3>1
    <3>4. OnItsStep(switch, snapshot, pattern) =>
            OnQuantum(v.lastFired, switch.quantize, snapshot, pattern)
      BY <2>5, <2>11, <3>1 DEF OnItsStep
    <3>5. QED
      BY <1>5, <2>9, <3>1, <3>2, <3>3, <3>4 DEF v, AheadOf, OnItsStep
  <2>12. QED
    BY <2>6, <2>10, <2>11
<1>6. QED
  BY <1>4, <1>5

-----------------------------------------------------------------------------
(* A render's other commands only mark that the drain has begun. *)
OtherCommand ==
  /\ draining' = TRUE
  /\ UNCHANGED <<samplePosition, anchorSample, anchorPpq, bpm, sampleRate, playing,
                 stopEdge, positionJumpEdge, stopCounter, latched, prepares>>

(* What a step of the node is to the clock it runs on. *)
ClockStep ==
  \/ Command
  \/ OtherCommand
  \/ \E n \in BlockSizes : BeginBlock(n)
  \/ \E rate \in Rates : Prepare(rate)
  \/ UNCHANGED transportVars

(* Every step of the node is one of the clock, or leaves it but for the drain. *)
LEMMA NodeStepsTheClock == [SeqNext]_vars => ClockStep
<1>1. SeqNext => ClockStep
  BY DEF SeqNext, ClockStep, OtherCommand, Publish, TransportCommand, QueuePatternSwitch,
         SetFillHeld, Render, DeviceRestart
<1>2. UNCHANGED vars => ClockStep
  BY DEF vars, ClockStep
<1>3. QED
  BY <1>1, <1>2

(* Such a step keeps the invariant of the clock, *)
LEMMA ClockStepInductive == Inductive /\ ClockStep => Inductive'
<1>1. Inductive /\ OtherCommand => Inductive'
  BY DEF Inductive, TypeOK, AnchorBehind, NoEdgeWaits, OtherCommand
<1>2. Inductive /\ UNCHANGED transportVars => Inductive'
  BY DEF Inductive, TypeOK, AnchorBehind, NoEdgeWaits, transportVars
<1>3. QED
  BY <1>1, <1>2, CommandInductive, BeginBlockInductive, PrepareInductive DEF ClockStep

(* which holds under the node as it does alone. *)
LEMMA ClockAlwaysInductive == SeqSpec => []Inductive
<1>1. SeqInit => Inductive
  BY InitInductive DEF SeqInit
<1>2. Inductive /\ [SeqNext]_vars => Inductive'
  BY NodeStepsTheClock, ClockStepInductive
<1>3. QED
  BY <1>1, <1>2, PTL DEF SeqSpec

(* The same of the clock in the node's own specification, which the run      *)
(* checks.                                                                   *)
THEOREM NodeTilesTheTimeline == SeqSpec => BlocksTile
<1>1. Inductive /\ OtherCommand => Tiles
  BY DEF OtherCommand, Tiles, PpqNow, PpqAtSample, PpqPerSample
<1>2. Inductive /\ [SeqNext]_vars => [Tiles]_transportVars
  BY <1>1, NodeStepsTheClock, CommandTiles, BeginBlockTiles, PrepareTiles DEF ClockStep
<1>3. QED
  BY <1>2, ClockAlwaysInductive, PTL DEF SeqSpec, BlocksTile, Tiles

-----------------------------------------------------------------------------
(* The switch between renders. *)

SwitchTypes ==
  /\ activeSnapshot \in Snapshots \union {NoSnapshot}
  /\ offered \in Snapshots \union {NoSnapshot}
  /\ patternSeeded = (activeSnapshot # NoSnapshot)
  /\ activePattern \in Patterns
  /\ switch \in Switches
  /\ switch.resolved => switch.requested /\ activeSnapshot # NoSnapshot

(* Until a jump is latched that makes the node forget the step. *)
Ahead == positionJumpEdge \/ AheadOf(switch, activeSnapshot, PpqNow)

OnStep == OnItsStep(switch, activeSnapshot, activePattern)

(* The snapshots of an editing session that leaves the grid alone, and one   *)
(* that leaves the lengths of the gate lanes alone too.                      *)
GridsAgree == \A s, t \in Snapshots : Grid[s] = Grid[t]

PeriodsAgree ==
  \A s, t \in Snapshots, p \in Patterns : GatePeriod(s, p) = GatePeriod(t, p)

(* The view a render latches is a block of the timeline. *)
LEMMA LatchIsBlock ==
  ASSUME Inductive, NEW n \in BlockSizes, BeginBlock(n)
  PROVE  IsBlock(latched') /\ latched'.jumped = positionJumpEdge
<1>1. n \in Nat /\ PpqNow \in Nat /\ PpqPerSample \in Nat
  BY PositionIsNat, BoundsAreNat
<1>2. /\ latched'.ppq = PpqNow /\ latched'.advance = (IF playing THEN n ELSE 0)
      /\ latched'.playing = playing /\ latched'.jumped = positionJumpEdge
  BY DEF BeginBlock, View
<1>3. CASE playing
  <2>1. BlockEndPpq(latched') = PpqNow + n * PpqPerSample /\ n * PpqPerSample \in Nat
    BY <1>1, <1>2, <1>3, NatProduct DEF BlockEndPpq
  <2>2. QED
    BY <1>1, <1>2, <1>3, <2>1 DEF IsBlock
<1>4. CASE ~ playing
  <2>1. BlockEndPpq(latched') = PpqNow
    BY <1>1, <1>2, <1>4 DEF BlockEndPpq
  <2>2. QED
    BY <1>1, <1>2, <1>4, <2>1 DEF IsBlock
<1>5. QED
  BY <1>3, <1>4

(* The pattern a render starts from. *)
PatternOf(snapshot) ==
  IF snapshot # NoSnapshot /\ ~ patternSeeded THEN StartPattern[snapshot] ELSE activePattern

(* A render, as far as the switch is concerned. *)
LEMMA RenderOutcome ==
  ASSUME Inductive, SwitchTypes, NEW n \in BlockSizes, Render(n)
  PROVE  /\ SwitchTypes'
         /\ switch.requested /\ ~ switch'.requested => activePattern' = switch.pattern
         /\ positionJumpEdge \/ AheadOf(switch, activeSnapshot', PpqNow)
              => AheadOf(switch', activeSnapshot', BlockEndPpq(latched'))
         /\ OnItsStep(switch, activeSnapshot', PatternOf(activeSnapshot'))
              => OnItsStep(switch', activeSnapshot', activePattern')
         /\ activePattern' # PatternOf(activeSnapshot') =>
              /\ activeSnapshot' # NoSnapshot
              /\ OwnsPpq(lastFired' * Grid[activeSnapshot'], latched')
              /\ OnItsStep(switch, activeSnapshot', PatternOf(activeSnapshot')) =>
                   OnQuantum(lastFired', switch.quantize, activeSnapshot',
                             PatternOf(activeSnapshot'))
<1> DEFINE snapshot == activeSnapshot'
           pattern == PatternOf(snapshot)
           view == latched'
<1>1. /\ snapshot \in Snapshots \union {NoSnapshot}
      /\ activeSnapshot # NoSnapshot => snapshot # NoSnapshot
      /\ offered' = NoSnapshot
      /\ patternSeeded' = (snapshot # NoSnapshot)
  BY DEF Render, SwitchTypes
<1>2. pattern \in Patterns
  BY <1>1, SequencerAssumption DEF PatternOf, SwitchTypes
<1>3. IsBlock(view) /\ view.jumped = positionJumpEdge /\ view.ppq = PpqNow
  BY LatchIsBlock DEF Render, BeginBlock, View
<1>4. /\ activePattern' = ProcessBlock(snapshot, pattern, view).pattern
      /\ switch' = ProcessBlock(snapshot, pattern, view).switch
      /\ lastFired' = ProcessBlock(snapshot, pattern, view).lastFired
  <2>1. (IF patternSeeded' /\ ~ patternSeeded THEN StartPattern[activeSnapshot']
         ELSE activePattern) = pattern
    BY <1>1 DEF PatternOf
  <2>2. \E after \in {ProcessBlock(activeSnapshot',
                        IF patternSeeded' /\ ~ patternSeeded THEN StartPattern[activeSnapshot']
                        ELSE activePattern, latched')} :
          activePattern' = after.pattern /\ switch' = after.switch /\ lastFired' = after.lastFired
    BY Zenon DEF Render
  <2>3. QED
    BY <2>1, <2>2
<1>5. switch \in Switches /\ (switch.resolved => switch.requested /\ snapshot # NoSnapshot)
  BY <1>1 DEF SwitchTypes
<1> HIDE DEF pattern, view, snapshot
<1>6. /\ switch' \in Switches /\ activePattern' \in Patterns
      /\ switch'.resolved => switch'.requested /\ snapshot # NoSnapshot
      /\ switch.requested /\ ~ switch'.requested => activePattern' = switch.pattern
      /\ view.jumped \/ AheadOf(switch, snapshot, view.ppq)
           => AheadOf(switch', snapshot, BlockEndPpq(view))
      /\ OnItsStep(switch, snapshot, pattern) => OnItsStep(switch', snapshot, activePattern')
      /\ activePattern' # pattern =>
           /\ snapshot # NoSnapshot
           /\ OwnsPpq(lastFired' * Grid[snapshot], view)
           /\ OnItsStep(switch, snapshot, pattern) =>
                OnQuantum(lastFired', switch.quantize, snapshot, pattern)
  BY <1>1, <1>2, <1>3, <1>4, <1>5, ProcessOutcome, Zenon
<1>7. SwitchTypes'
  BY <1>1, <1>6 DEF SwitchTypes, snapshot
<1>8. QED
  BY <1>3, <1>6, <1>7 DEF snapshot, pattern, view

(* Every other step leaves the switch, or asks for another, or forgets the   *)
(* step.                                                                     *)
SwitchKept ==
  /\ UNCHANGED <<activeSnapshot, patternSeeded, activePattern, lastFired>>
  /\ offered' \in Snapshots \union {NoSnapshot}
  /\ switch' \in Switches
  /\ switch.requested => switch'.requested
  /\ \/ switch' = switch
     \/ ~ switch'.resolved

(* That is all the other steps do. *)
LEMMA OthersKeepSwitch ==
  ASSUME SwitchTypes, [SeqNext]_vars, ~ \E n \in BlockSizes : Render(n)
  PROVE  SwitchKept
<1>1. ASSUME NEW snapshot \in Snapshots, Publish(snapshot) PROVE SwitchKept
  BY <1>1 DEF Publish, SwitchTypes, SwitchKept
<1>2. CASE TransportCommand
  BY <1>2 DEF TransportCommand, SwitchTypes, SwitchKept
<1>3. ASSUME NEW pattern \in Requests, NEW quantize \in Quantizes,
             QueuePatternSwitch(pattern, quantize)
      PROVE  SwitchKept
  <2>1. CASE pattern \in Patterns /\ quantize \in Modes
    <3>1. switch' = [requested |-> TRUE, pattern |-> pattern, quantize |-> quantize,
                     resolved |-> FALSE, step |-> switch.step]
      BY <1>3, <2>1 DEF QueuePatternSwitch
    <3>2. switch' \in Switches /\ ~ switch'.resolved /\ switch'.requested
      BY <2>1, <3>1 DEF SwitchTypes, Switches
    <3>3. QED
      BY <1>3, <3>2 DEF QueuePatternSwitch, SwitchTypes, SwitchKept
  <2>2. CASE ~ (pattern \in Patterns /\ quantize \in Modes)
    <3>1. switch' = switch
      BY <1>3, <2>2 DEF QueuePatternSwitch
    <3>2. QED
      BY <1>3, <3>1 DEF QueuePatternSwitch, SwitchTypes, SwitchKept
  <2>3. QED
    BY <2>1, <2>2
<1>4. CASE SetFillHeld
  BY <1>4 DEF SetFillHeld, SwitchTypes, SwitchKept
<1>5. ASSUME NEW rate \in Rates, DeviceRestart(rate) PROVE SwitchKept
  <2>1. switch' = [switch EXCEPT !.resolved = FALSE]
    BY <1>5 DEF DeviceRestart
  <2>2. switch' \in Switches /\ ~ switch'.resolved /\ switch'.requested = switch.requested
    BY <2>1 DEF SwitchTypes, Switches
  <2>3. QED
    BY <1>5, <2>2 DEF DeviceRestart, SwitchTypes, SwitchKept
<1>6. CASE UNCHANGED vars
  BY <1>6 DEF vars, sequencerVars, SwitchTypes, SwitchKept
<1>7. QED
  BY <1>1, <1>2, <1>3, <1>4, <1>5, <1>6 DEF SeqNext

(* The types of the switch are kept by every step, *)
LEMMA TypesStep == Inductive /\ SwitchTypes /\ [SeqNext]_vars => SwitchTypes'
<1>1. SwitchTypes /\ SwitchKept => SwitchTypes'
  BY DEF SwitchTypes, SwitchKept
<1>2. QED
  BY <1>1, RenderOutcome, OthersKeepSwitch

(* hold at the start, *)
LEMMA TypesStart == SeqInit => SwitchTypes
<1> SUFFICES ASSUME SeqInit PROVE SwitchTypes
  OBVIOUS
<1>1. switch \in Switches /\ ~ switch.resolved
  BY SequencerAssumption DEF SeqInit, Switches, Modes
<1>2. QED
  BY <1>1, SequencerAssumption DEF SeqInit, SwitchTypes

(* and so always. *)
LEMMA AlwaysTypes == SeqSpec => []SwitchTypes
  BY TypesStart, TypesStep, ClockAlwaysInductive, PTL DEF SeqSpec

(* An edge set by a drained command stays until the render.                  *)
LEMMA EdgeStays ==
  ASSUME Inductive, [SeqNext]_vars, ~ \E n \in BlockSizes : Render(n),
         ~ \E rate \in Rates : DeviceRestart(rate)
  PROVE  /\ positionJumpEdge => positionJumpEdge'
         /\ ~ positionJumpEdge' => PpqNow' = PpqNow
<1>1. ASSUME Command PROVE /\ positionJumpEdge => positionJumpEdge'
                           /\ ~ positionJumpEdge' => PpqNow' = PpqNow
  <2>1. positionJumpEdge => positionJumpEdge'
    BY <1>1 DEF Command, TransportPlay, TransportStop, TransportLocate, SetTempo
  <2>2. ~ positionJumpEdge' => PpqNow' = PpqNow
    BY <1>1, CommandTiles DEF Tiles, Command
  <2>3. QED
    BY <2>1, <2>2
<1>2. ASSUME UNCHANGED <<samplePosition, anchorSample, anchorPpq, bpm, sampleRate,
                         positionJumpEdge>>
      PROVE  positionJumpEdge' = positionJumpEdge /\ PpqNow' = PpqNow
  BY <1>2 DEF PpqNow, PpqAtSample, PpqPerSample
<1>3. \/ Command
      \/ UNCHANGED <<samplePosition, anchorSample, anchorPpq, bpm, sampleRate,
                     positionJumpEdge>>
  BY DEF SeqNext, Publish, TransportCommand, QueuePatternSwitch, SetFillHeld, vars, transportVars
<1>4. QED
  BY <1>1, <1>2, <1>3

(* A restart forgets the step a switch was resolved to. *)
LEMMA RestartForgets ==
  ASSUME SwitchTypes, NEW rate \in Rates, DeviceRestart(rate)
  PROVE  ~ switch'.resolved
BY DEF SwitchTypes, Switches, DeviceRestart

(* Every step keeps a resolved switch ahead of the playhead. *)
LEMMA AheadStep ==
  ASSUME GridsAgree
  PROVE  Inductive /\ SwitchTypes /\ Ahead /\ [SeqNext]_vars => Ahead'
<1> SUFFICES ASSUME Inductive, SwitchTypes, Ahead, [SeqNext]_vars PROVE Ahead'
  OBVIOUS
<1>1. ASSUME NEW n \in BlockSizes, Render(n) PROVE Ahead'
  <2>1. /\ activeSnapshot # NoSnapshot => activeSnapshot' # NoSnapshot
        /\ activeSnapshot' \in Snapshots \union {NoSnapshot}
    BY <1>1 DEF Render, SwitchTypes
  <2>2. AheadOf(switch, activeSnapshot, PpqNow) => AheadOf(switch, activeSnapshot', PpqNow)
    <3>1. switch.resolved => Grid[activeSnapshot'] = Grid[activeSnapshot]
      BY <2>1 DEF GridsAgree, SwitchTypes
    <3>2. QED
      BY <3>1 DEF AheadOf
  <2>3. AheadOf(switch', activeSnapshot', BlockEndPpq(latched'))
    BY <1>1, <2>2, RenderOutcome DEF Ahead
  <2>4. PpqNow' = BlockEndPpq(latched')
    <3>1. BeginBlock(n)
      BY <1>1 DEF Render
    <3>2. ~ positionJumpEdge' /\ ~ draining' /\ prepares' = prepares
      BY <3>1 DEF BeginBlock
    <3>3. QED
      BY <3>1, <3>2, BeginBlockTiles DEF Tiles
  <2>5. QED
    BY <2>3, <2>4 DEF Ahead, AheadOf
<1>2. ASSUME NEW rate \in Rates, DeviceRestart(rate) PROVE Ahead'
  BY <1>2, RestartForgets DEF Ahead, AheadOf
<1>3. CASE /\ ~ \E n \in BlockSizes : Render(n)
           /\ ~ \E rate \in Rates : DeviceRestart(rate)
  <2>1. SwitchKept
    BY <1>3, OthersKeepSwitch
  <2>2. activeSnapshot' = activeSnapshot /\ (switch' = switch \/ ~ switch'.resolved)
    BY <2>1 DEF SwitchKept
  <2>3. QED
    BY <1>3, <2>2, EdgeStays DEF Ahead, AheadOf
<1>4. QED
  BY <1>1, <1>2, <1>3

(* A resolved switch is never behind the playhead, whatever the blocks,      *)
(* tempi, jumps, requests and restarts, as long as no edit changes the grid. *)
THEOREM SwitchStaysAhead ==
  ASSUME GridsAgree
  PROVE  SeqSpec => []SwitchAhead
<1>1. SeqInit => Ahead
  BY DEF SeqInit, Ahead, AheadOf
<1>2. Inductive /\ SwitchTypes /\ Ahead /\ [SeqNext]_vars => Ahead'
  BY AheadStep
<1>3. Inductive /\ Ahead => SwitchAhead
  BY DEF Inductive, NoEdgeWaits, Ahead, AheadOf, SwitchAhead
<1>4. QED
  BY <1>1, <1>2, <1>3, ClockAlwaysInductive, AlwaysTypes, PTL DEF SeqSpec

-----------------------------------------------------------------------------
(* Requests and boundaries. *)

(* An edit that keeps grid and lengths keeps what is on a quantum. *)
LEMMA QuantumAgrees ==
  ASSUME GridsAgree, PeriodsAgree, NEW s \in Snapshots, NEW t \in Snapshots,
         NEW pattern \in Patterns, NEW quantize, NEW step
  PROVE  OnQuantum(step, quantize, s, pattern) => OnQuantum(step, quantize, t, pattern)
<1>1. Grid[s] = Grid[t] /\ GatePeriod(s, pattern) = GatePeriod(t, pattern)
  BY DEF GridsAgree, PeriodsAgree
<1>2. QuantumTicks(quantize, s, pattern) = QuantumTicks(quantize, t, pattern)
  BY <1>1, Zenon DEF QuantumTicks
<1>3. QED
  BY <1>1, <1>2 DEF OnQuantum

(* The snapshot a render adopts changes nothing of a resolved switch. *)
LEMMA AdoptionKeepsStep ==
  ASSUME GridsAgree, PeriodsAgree, SwitchTypes, OnStep, NEW n \in BlockSizes, Render(n)
  PROVE  OnItsStep(switch, activeSnapshot', PatternOf(activeSnapshot'))
<1>1. SUFFICES ASSUME switch.resolved
               PROVE  OnQuantum(switch.step, switch.quantize, activeSnapshot',
                                PatternOf(activeSnapshot'))
  BY DEF OnItsStep
<1>2. /\ activeSnapshot \in Snapshots /\ activeSnapshot' \in Snapshots
      /\ PatternOf(activeSnapshot') = activePattern /\ activePattern \in Patterns
  BY <1>1 DEF Render, SwitchTypes, PatternOf
<1>3. OnQuantum(switch.step, switch.quantize, activeSnapshot, activePattern)
  BY <1>1 DEF OnStep, OnItsStep
<1>4. QED
  BY <1>2, <1>3, QuantumAgrees

(* Every step keeps a resolved switch on its quantum. *)
LEMMA OnStepStep ==
  ASSUME GridsAgree, PeriodsAgree
  PROVE  Inductive /\ SwitchTypes /\ OnStep /\ [SeqNext]_vars => OnStep'
<1> SUFFICES ASSUME Inductive, SwitchTypes, OnStep, [SeqNext]_vars PROVE OnStep'
  OBVIOUS
<1>1. ASSUME NEW n \in BlockSizes, Render(n) PROVE OnStep'
  BY <1>1, AdoptionKeepsStep, RenderOutcome DEF OnStep, OnItsStep
<1>2. CASE ~ \E n \in BlockSizes : Render(n)
  BY <1>2, OthersKeepSwitch DEF SwitchKept, OnStep, OnItsStep
<1>3. QED
  BY <1>1, <1>2

(* One step of the node grants a request as SwitchHonoured says. *)
Honours ==
  /\ switch.requested /\ ~ switch'.requested => activePattern' = switch.pattern
  /\ patternSeeded /\ activePattern' # activePattern =>
       LET grid == Grid[activeSnapshot']
           quantum == QuantumTicks(switch.quantize, activeSnapshot', activePattern)
       IN  /\ OwnsPpq(lastFired' * grid, latched')
           /\ \E k \in 0 .. lastFired' * grid : lastFired' = CeilDiv(k * quantum, grid)

(* Every step honours the requests. *)
LEMMA StepHonours ==
  ASSUME GridsAgree, PeriodsAgree
  PROVE  Inductive /\ SwitchTypes /\ OnStep /\ [SeqNext]_vars => Honours
<1> SUFFICES ASSUME Inductive, SwitchTypes, OnStep, [SeqNext]_vars PROVE Honours
  OBVIOUS
<1>1. ASSUME NEW n \in BlockSizes, Render(n) PROVE Honours
  <2>1. patternSeeded => PatternOf(activeSnapshot') = activePattern
    BY DEF PatternOf
  <2>2. OnItsStep(switch, activeSnapshot', PatternOf(activeSnapshot'))
    BY <1>1, AdoptionKeepsStep
  <2>3. /\ switch.requested /\ ~ switch'.requested => activePattern' = switch.pattern
        /\ activePattern' # PatternOf(activeSnapshot') =>
             /\ OwnsPpq(lastFired' * Grid[activeSnapshot'], latched')
             /\ OnQuantum(lastFired', switch.quantize, activeSnapshot', PatternOf(activeSnapshot'))
    BY <1>1, <2>2, RenderOutcome
  <2>4. QED
    BY <2>1, <2>3 DEF Honours, OnQuantum
<1>2. CASE ~ \E n \in BlockSizes : Render(n)
  BY <1>2, OthersKeepSwitch DEF SwitchKept, Honours
<1>3. QED
  BY <1>1, <1>2

(* A request ends only by being granted, and a pattern changes only in the   *)
(* block that holds the first step of a quantum, as long as no edit changes  *)
(* the grid or the length of a gate lane.                                    *)
THEOREM RequestsAreHonoured ==
  ASSUME GridsAgree, PeriodsAgree
  PROVE  SeqSpec => SwitchHonoured
<1>1. SeqInit => OnStep
  BY DEF SeqInit, OnStep, OnItsStep
<1>2. Inductive /\ SwitchTypes /\ OnStep /\ [SeqNext]_vars => OnStep'
  BY OnStepStep
<1>3. Inductive /\ SwitchTypes /\ OnStep /\ [SeqNext]_vars => [Honours]_vars
  BY StepHonours
<1>4. QED
  BY <1>1, <1>2, <1>3, ClockAlwaysInductive, AlwaysTypes, PTL DEF SeqSpec, SwitchHonoured, Honours

-----------------------------------------------------------------------------
(* The tape: what a block has rendered so far, in order of position. *)

Entries == {e \in [pitch : Pitches, on : Int, due : Int] : e.on <= e.due}

Events ==
  [kind : {"on", "off", "sweep"}, pitch : Pitches \union {AnyPitch}, at : Int]

Sorted(m) == \A i, j \in 1 .. Len(m) : i <= j => m[i].at <= m[j].at

Ends(event, pitch) ==
  event.kind = "sweep" \/ (event.kind = "off" /\ event.pitch = pitch)

EndedAfter(m, i, pitch) == \E j \in 1 .. Len(m) : j > i /\ Ends(m[j], pitch)

(* Every event is at a position. *)
LEMMA EventsPlaced ==
  /\ \A e \in Events : e.at \in Int
  /\ \A m \in Seq(Events) : /\ Len(m) \in Nat /\ DOMAIN m = 1 .. Len(m)
                             /\ \A i \in 1 .. Len(m) : m[i] \in Events /\ m[i].at \in Int
<1>1. \A e \in Events : e.at \in Int
  BY DEF Events
<1>2. \A m \in Seq(Events) : Len(m) \in Nat /\ DOMAIN m = 1 .. Len(m)
                             /\ \A i \in 1 .. Len(m) : m[i] \in Events
  OBVIOUS
<1>3. QED
  BY <1>1, <1>2

(* The events at or before a position come first. *)
LEMMA SortedSplits ==
  ASSUME NEW m \in Seq(Events), Sorted(m), NEW x \in Int
  PROVE  \E k \in 0 .. Len(m) : {i \in 1 .. Len(m) : m[i].at <= x} = 1 .. k
<1> DEFINE n == Len(m)
           S == {i \in 1 .. n : m[i].at <= x}
<1>1. n \in Nat /\ \A i \in 1 .. n : m[i].at \in Int
  BY EventsPlaced
<1>2. ASSUME NEW i \in 1 .. n, NEW j \in S, i <= j PROVE i \in S
  BY <1>1, <1>2 DEF Sorted
<1>3. SUFFICES ASSUME \A k \in 0 .. n : S # 1 .. k PROVE FALSE
  OBVIOUS
<1> DEFINE T == {k \in 0 .. n : 1 .. k \subseteq S}
<1> HIDE DEF S, n
<1>4. 0 \in T
  BY <1>1
<1>5. ASSUME NEW k \in 0 .. n - 1, k \in T PROVE k + 1 \in T
  <2>1. 1 .. k \subseteq S /\ S # 1 .. k /\ k \in 0 .. n
    BY <1>1, <1>3, <1>5
  <2>2. PICK j \in S : j \notin 1 .. k
    BY <2>1
  <2>3. j \in 1 .. n
    BY DEF S
  <2>4. k + 1 <= j /\ k + 1 \in 1 .. n
    BY <1>1, <2>2, <2>3
  <2>5. k + 1 \in S
    BY <1>2, <2>4
  <2>6. 1 .. k + 1 \subseteq S
    BY <2>1, <2>5
  <2>7. QED
    BY <1>1, <2>6
<1>6. n \in T
  <2> HIDE DEF T
  <2>1. \A k \in 0 .. n : k \in T
    BY <1>1, <1>4, <1>5, NoteFold!Counting
  <2>2. QED
    BY <1>1, <2>1
<1>7. S = 1 .. n
  BY <1>6 DEF S
<1>8. QED
  BY <1>1, <1>3, <1>7

(* An insertion leaves what is before it and moves what is behind it by one. *)
LEMMA InsertSplits ==
  ASSUME NEW m \in Seq(Events), NEW e \in Events, NEW k \in 1 .. Len(m) + 1
  PROVE  /\ InsertAt(m, k, e) \in Seq(Events)
         /\ Len(InsertAt(m, k, e)) = Len(m) + 1
         /\ \A j \in 1 .. k - 1 : InsertAt(m, k, e)[j] = m[j]
         /\ InsertAt(m, k, e)[k] = e
         /\ \A j \in k + 1 .. Len(m) + 1 : InsertAt(m, k, e)[j] = m[j - 1]
<1> DEFINE front == SubSeq(m, 1, k - 1)
           back == SubSeq(m, k, Len(m))
<1>1. Len(m) \in Nat /\ k \in Nat
  OBVIOUS
<1>2. front \in Seq(Events) /\ Len(front) = k - 1 /\ \A j \in 1 .. k - 1 : front[j] = m[j]
  <2>1. k - 1 \in 0 .. Len(m) /\ (k - 1) - 1 + 1 = k - 1
    BY <1>1
  <2>2. \A j \in 1 .. k - 1 : m[j] \in Events
    BY <2>1
  <2>3. QED
    BY <1>1, <2>1, <2>2, SubSeqProperties
<1>3. back \in Seq(Events) /\ Len(back) = Len(m) - k + 1
      /\ \A j \in 1 .. Len(m) - k + 1 : back[j] = m[k + j - 1]
  <2>1. Len(m) \in k - 1 .. Len(m)
    BY <1>1
  <2>2. QED
    BY <1>1, <2>1, SubSeqProperties
<1>4. InsertAt(m, k, e) = (front \o <<e>>) \o back
  BY DEF InsertAt
<1> HIDE DEF front, back
<1>5. /\ front \o <<e>> \in Seq(Events) /\ Len(front \o <<e>>) = k
      /\ \A j \in 1 .. k - 1 : (front \o <<e>>)[j] = m[j]
      /\ (front \o <<e>>)[k] = e
  BY <1>1, <1>2
<1> DEFINE head == front \o <<e>>
<1>6. head \in Seq(Events) /\ Len(head) = k /\ (\A j \in 1 .. k - 1 : head[j] = m[j]) /\ head[k] = e
  BY <1>5
<1> HIDE DEF head
<1>7. /\ head \o back \in Seq(Events) /\ Len(head \o back) = k + (Len(m) - k + 1)
      /\ \A j \in 1 .. k : (head \o back)[j] = head[j]
      /\ \A j \in k + 1 .. k + (Len(m) - k + 1) : (head \o back)[j] = back[j - k]
  <2>1. /\ head \o back \in Seq(Events) /\ Len(head \o back) = Len(head) + Len(back)
        /\ \A j \in 1 .. Len(head) + Len(back) :
             (head \o back)[j] = IF j <= Len(head) THEN head[j] ELSE back[j - Len(head)]
    BY <1>3, <1>6, ConcatProperties
  <2>2. QED
    BY <1>1, <1>3, <1>6, <2>1
<1>8. \A j \in k + 1 .. Len(m) + 1 : (head \o back)[j] = m[j - 1]
  <2>1. TAKE j \in k + 1 .. Len(m) + 1
  <2>2. j - k \in 1 .. Len(m) - k + 1 /\ k + (j - k) - 1 = j - 1
        /\ j \in k + 1 .. k + (Len(m) - k + 1)
    BY <1>1
  <2>3. (head \o back)[j] = back[j - k] /\ back[j - k] = m[k + (j - k) - 1]
    BY <1>3, <1>7, <2>2
  <2>4. QED
    BY <2>2, <2>3
<1>9. /\ Len(m) + 1 = k + (Len(m) - k + 1) /\ k \in 1 .. k /\ \A j \in 1 .. k - 1 : j \in 1 .. k
  BY <1>1
<1>10. InsertAt(m, k, e) = head \o back
  BY <1>4 DEF head
<1>11. QED
  BY <1>6, <1>7, <1>8, <1>9, <1>10

(* An event goes behind those at or before its position, before the others. *)
Inserted(m, e, t, k) ==
  /\ t \in Seq(Events) /\ Len(t) = Len(m) + 1 /\ k \in 1 .. Len(m) + 1
  /\ \A j \in 1 .. k - 1 : t[j] = m[j] /\ m[j].at <= e.at
  /\ t[k] = e
  /\ \A j \in k .. Len(m) : t[j + 1] = m[j] /\ m[j].at > e.at

(* That is what addEvent does to a sorted tape, *)
LEMMA AddEventInserts ==
  ASSUME NEW m \in Seq(Events), Sorted(m), NEW e \in Events
  PROVE  \E k : Inserted(m, e, AddEvent(m, e), k)
<1> DEFINE before == {i \in 1 .. Len(m) : m[i].at <= e.at}
<1>1. e.at \in Int /\ Len(m) \in Nat /\ DOMAIN m = 1 .. Len(m) /\ \A i \in 1 .. Len(m) : m[i].at \in Int
  BY EventsPlaced
<1>2. PICK k \in 0 .. Len(m) : before = 1 .. k
  BY <1>1, SortedSplits
<1>3. Cardinality(before) = k
  <2>1. Cardinality(1 .. k) = IF 1 > k THEN 0 ELSE k - 1 + 1
    BY <1>1, FS_Interval
  <2>2. (IF 1 > k THEN 0 ELSE k - 1 + 1) = k
    BY <1>1
  <2>3. QED
    BY <1>2, <2>1, <2>2
<1>4. AddEvent(m, e) = InsertAt(m, k + 1, e)
  <2>1. 1 + Cardinality(before) = k + 1
    BY <1>1, <1>3
  <2>2. before = {i \in DOMAIN m : m[i].at <= e.at}
    BY <1>1
  <2> HIDE DEF before
  <2>3. QED
    BY <2>1, <2>2, Zenon DEF AddEvent
<1> DEFINE t == InsertAt(m, k + 1, e)
<1>5. k + 1 \in 1 .. Len(m) + 1 /\ (k + 1) - 1 = k
  BY <1>1
<1>6. /\ t \in Seq(Events) /\ Len(t) = Len(m) + 1
      /\ \A j \in 1 .. k : t[j] = m[j]
      /\ t[k + 1] = e
      /\ \A j \in k + 2 .. Len(m) + 1 : t[j] = m[j - 1]
  BY <1>5, InsertSplits
<1>7. ASSUME NEW j \in 1 .. k PROVE m[j].at <= e.at
  BY <1>2
<1>8. ASSUME NEW j \in k + 1 .. Len(m) PROVE t[j + 1] = m[j] /\ m[j].at > e.at
  <2>1. j \in 1 .. Len(m) /\ j \notin before /\ j + 1 \in k + 2 .. Len(m) + 1 /\ (j + 1) - 1 = j
    BY <1>1, <1>2
  <2>2. ~ m[j].at <= e.at
    BY <2>1
  <2>3. QED
    BY <1>1, <1>6, <2>1, <2>2
<1> HIDE DEF t
<1>9. Inserted(m, e, t, k + 1)
  BY <1>5, <1>6, <1>7, <1>8 DEF Inserted
<1>10. QED
  BY <1>4, <1>9 DEF t

(* which stays sorted. *)
LEMMA InsertedSorted ==
  ASSUME NEW m \in Seq(Events), Sorted(m), NEW e \in Events, NEW t, NEW k, Inserted(m, e, t, k)
  PROVE  Sorted(t)
<1>1. Len(m) \in Nat /\ e.at \in Int /\ \A i \in 1 .. Len(m) : m[i].at \in Int
  BY EventsPlaced
<1>2. SUFFICES ASSUME NEW i \in 1 .. Len(t), NEW j \in 1 .. Len(t), i <= j
               PROVE  t[i].at <= t[j].at
  BY DEF Sorted
<1>3. k \in 1 .. Len(m) + 1 /\ Len(t) = Len(m) + 1
  BY DEF Inserted
<1>4. \A x \in 1 .. Len(t) :
        \/ x < k /\ x \in 1 .. Len(m) /\ t[x] = m[x] /\ m[x].at <= e.at
        \/ x = k /\ t[x] = e
        \/ x > k /\ x - 1 \in k .. Len(m) /\ t[x] = m[x - 1] /\ m[x - 1].at > e.at
  <2>1. TAKE x \in 1 .. Len(t)
  <2>2. CASE x < k
    <3>1. x \in 1 .. k - 1 /\ x \in 1 .. Len(m)
      BY <1>1, <1>3, <2>2
    <3>2. QED
      BY <2>2, <3>1 DEF Inserted
  <2>3. CASE x = k
    BY <2>3 DEF Inserted
  <2>4. CASE x > k
    <3>1. x - 1 \in k .. Len(m) /\ (x - 1) + 1 = x
      BY <1>1, <1>3, <2>4
    <3>2. QED
      BY <2>4, <3>1 DEF Inserted
  <2>5. QED
    BY <1>3, <2>2, <2>3, <2>4
<1>5. CASE i < k /\ j < k
  <2>1. i \in 1 .. Len(m) /\ j \in 1 .. Len(m) /\ t[i] = m[i] /\ t[j] = m[j]
    BY <1>3, <1>4, <1>5
  <2>2. QED
    BY <1>2, <2>1 DEF Sorted
<1>6. CASE i > k /\ j > k
  <2>1. i - 1 <= j - 1 /\ i - 1 \in 1 .. Len(m) /\ j - 1 \in 1 .. Len(m)
    BY <1>1, <1>2, <1>3, <1>6
  <2>2. QED
    BY <1>3, <1>4, <1>6, <2>1 DEF Sorted
<1>7. CASE ~ (i < k /\ j < k) /\ ~ (i > k /\ j > k)
  <2>1. t[i].at <= e.at /\ e.at <= t[j].at /\ t[i].at \in Int /\ t[j].at \in Int
    BY <1>1, <1>2, <1>3, <1>4, <1>7
  <2>2. QED
    BY <1>1, <2>1
<1>8. QED
  BY <1>5, <1>6, <1>7

-----------------------------------------------------------------------------
(* What the tape still owes: the entries that must end its notes, and those  *)
(* of the synth, that nothing on the tape ends.                              *)

Owed(m, held, entries) ==
  /\ \A i \in 1 .. Len(m) :
       m[i].kind = "on" /\ ~ EndedAfter(m, i, m[i].pitch) =>
         \E e \in entries : e.pitch = m[i].pitch /\ e.on = m[i].at
  /\ \A p \in held :
       ~ EndedAfter(m, 0, p) => \E e \in entries : e.pitch = p

(* What is owed by some entries is owed by more of them. *)
LEMMA OwedMore ==
  \A m, held, E, F : Owed(m, held, E) /\ E \subseteq F => Owed(m, held, F)
  BY DEF Owed

(* Where an event of the old tape is on the new one. *)
Moved(i, k) == IF i < k THEN i ELSE i + 1

(* An insertion keeps what ends what, and ends what was before it. *)
LEMMA EndingsMove ==
  ASSUME NEW m \in Seq(Events), NEW e \in Events, NEW t, NEW k, Inserted(m, e, t, k)
  PROVE  /\ k \in Nat /\ k >= 1 /\ Len(m) \in Nat
         /\ \A j \in 1 .. Len(t) :
              j # k => \E i \in 1 .. Len(m) : j = Moved(i, k) /\ t[j] = m[i]
         /\ \A p : \A i \in 0 .. Len(m) : EndedAfter(m, i, p) => EndedAfter(t, Moved(i, k), p)
         /\ \A p : \A i \in 0 .. k - 1 : Ends(e, p) => EndedAfter(t, i, p)
         /\ \A i \in 0 .. Len(m) : Moved(i, k) \in Int
<1>1. /\ Len(m) \in Nat /\ Len(t) = Len(m) + 1 /\ k \in 1 .. Len(m) + 1 /\ t[k] = e
      /\ \A j \in 1 .. k - 1 : t[j] = m[j]
      /\ \A j \in k .. Len(m) : t[j + 1] = m[j]
  BY DEF Inserted
<1>2. ASSUME NEW j \in 1 .. Len(t), j # k
      PROVE  \E i \in 1 .. Len(m) : j = Moved(i, k) /\ t[j] = m[i]
  <2>1. CASE j < k
    <3>1. j \in 1 .. k - 1 /\ j \in 1 .. Len(m) /\ j = Moved(j, k)
      BY <1>1, <2>1 DEF Moved
    <3>2. QED
      BY <1>1, <3>1
  <2>2. CASE j > k
    <3>1. j - 1 \in k .. Len(m) /\ j - 1 \in 1 .. Len(m) /\ (j - 1) + 1 = j /\ j = Moved(j - 1, k)
      BY <1>1, <2>2 DEF Moved
    <3>2. QED
      BY <1>1, <3>1
  <2>3. QED
    BY <1>1, <1>2, <2>1, <2>2
<1>3. ASSUME NEW i \in 0 .. Len(m), NEW p, EndedAfter(m, i, p)
      PROVE  EndedAfter(t, Moved(i, k), p)
  <2>1. PICK j \in 1 .. Len(m) : j > i /\ Ends(m[j], p)
    BY <1>3 DEF EndedAfter
  <2>2. Moved(j, k) \in 1 .. Len(t) /\ Moved(j, k) > Moved(i, k)
    BY <1>1, <2>1 DEF Moved
  <2>3. t[Moved(j, k)] = m[j]
    <3>1. CASE j < k
      <4>1. j \in 1 .. k - 1 /\ Moved(j, k) = j
        BY <1>1, <3>1 DEF Moved
      <4>2. QED
        BY <1>1, <4>1
    <3>2. CASE ~ j < k
      <4>1. j \in k .. Len(m) /\ Moved(j, k) = j + 1
        BY <1>1, <3>2 DEF Moved
      <4>2. QED
        BY <1>1, <4>1
    <3>3. QED
      BY <3>1, <3>2
  <2>4. QED
    BY <2>1, <2>2, <2>3 DEF EndedAfter
<1>4. ASSUME NEW i \in 0 .. k - 1, NEW p, Ends(e, p)
      PROVE  EndedAfter(t, i, p)
  <2>1. k \in 1 .. Len(t) /\ k > i
    BY <1>1
  <2>2. QED
    BY <1>1, <1>4, <2>1 DEF EndedAfter
<1>5. \A i \in 0 .. Len(m) : Moved(i, k) \in Int
  BY <1>1 DEF Moved
<1>6. k \in Nat /\ k >= 1
  BY <1>1
<1>7. QED
  BY <1>1, <1>2, <1>3, <1>4, <1>5, <1>6

(* A note that is played owes its own entry. *)
LEMMA OnOwes ==
  ASSUME NEW m \in Seq(Events), NEW event \in Events, NEW t, NEW k, Inserted(m, event, t, k),
         NEW held, NEW E, Owed(m, held, E), NEW entry,
         event.pitch = entry.pitch, event.at = entry.on
  PROVE  Owed(t, held, E \union {entry})
<1>1. ASSUME NEW j \in 1 .. Len(t), t[j].kind = "on", ~ EndedAfter(t, j, t[j].pitch)
      PROVE  \E e \in E \union {entry} : e.pitch = t[j].pitch /\ e.on = t[j].at
  <2>1. CASE j = k
    <3>1. t[j] = event
      BY <2>1 DEF Inserted
    <3>2. QED
      BY <3>1
  <2>2. CASE j # k
    <3>1. PICK i \in 1 .. Len(m) : j = Moved(i, k) /\ t[j] = m[i]
      BY <2>2, EndingsMove
    <3>2. i \in 0 .. Len(m)
      OBVIOUS
    <3>3. ~ EndedAfter(m, i, m[i].pitch)
      BY <1>1, <3>1, <3>2, EndingsMove
    <3>4. \E e \in E : e.pitch = m[i].pitch /\ e.on = m[i].at
      BY <1>1, <3>1, <3>3 DEF Owed
    <3>5. QED
      BY <3>1, <3>4
  <2>3. QED
    BY <2>1, <2>2
<1>2. ASSUME NEW p \in held, ~ EndedAfter(t, 0, p)
      PROVE  \E e \in E \union {entry} : e.pitch = p
  <2>1. 0 \in 0 .. Len(m) /\ Moved(0, k) = 0
    BY EndingsMove DEF Moved
  <2>2. ~ EndedAfter(m, 0, p)
    BY <1>2, <2>1, EndingsMove
  <2>3. QED
    BY <2>2 DEF Owed
<1>3. QED
  BY <1>1, <1>2 DEF Owed

(* An event that ends something adds nothing to what is owed. *)
LEMMA EndOwesNothing ==
  ASSUME NEW m \in Seq(Events), NEW event \in Events, NEW t, NEW k, Inserted(m, event, t, k),
         NEW held, NEW E, Owed(m, held, E), event.kind # "on"
  PROVE  Owed(t, held, E)
<1>1. ASSUME NEW j \in 1 .. Len(t), t[j].kind = "on", ~ EndedAfter(t, j, t[j].pitch)
      PROVE  \E e \in E : e.pitch = t[j].pitch /\ e.on = t[j].at
  <2>1. j # k
    BY <1>1 DEF Inserted
  <2>2. PICK i \in 1 .. Len(m) : j = Moved(i, k) /\ t[j] = m[i]
    BY <2>1, EndingsMove
  <2>3. i \in 0 .. Len(m)
    OBVIOUS
  <2>4. ~ EndedAfter(m, i, m[i].pitch)
    BY <1>1, <2>2, <2>3, EndingsMove
  <2>5. \E e \in E : e.pitch = m[i].pitch /\ e.on = m[i].at
    BY <1>1, <2>2, <2>4 DEF Owed
  <2>6. QED
    BY <2>2, <2>5
<1>2. ASSUME NEW p \in held, ~ EndedAfter(t, 0, p)
      PROVE  \E e \in E : e.pitch = p
  <2>1. 0 \in 0 .. Len(m) /\ Moved(0, k) = 0
    BY EndingsMove DEF Moved
  <2>2. ~ EndedAfter(m, 0, p)
    BY <1>2, <2>1, EndingsMove
  <2>3. QED
    BY <2>2 DEF Owed
<1>3. QED
  BY <1>1, <1>2 DEF Owed

(* The off of an entry pays it, if it comes no earlier than its note. *)
LEMMA OffPays ==
  ASSUME NEW m \in Seq(Events), NEW event \in Events, NEW t, NEW k, Inserted(m, event, t, k),
         NEW held, NEW E, Owed(m, held, E), NEW entry,
         event.kind = "off", event.pitch = entry.pitch,
         \A i \in 1 .. Len(m) : m[i].at = entry.on => m[i].at <= event.at
  PROVE  Owed(t, held, E \ {entry})
<1>1. \A p : p = entry.pitch => Ends(event, p)
  BY DEF Ends
<1>2. \A i \in 1 .. Len(m) : m[i].at \in Int /\ event.at \in Int
  BY EventsPlaced
<1>3. ASSUME NEW j \in 1 .. Len(t), t[j].kind = "on", ~ EndedAfter(t, j, t[j].pitch)
      PROVE  \E e \in E \ {entry} : e.pitch = t[j].pitch /\ e.on = t[j].at
  <2>1. j # k
    BY <1>3 DEF Inserted
  <2>2. PICK i \in 1 .. Len(m) : j = Moved(i, k) /\ t[j] = m[i]
    BY <2>1, EndingsMove
  <2>3. i \in 0 .. Len(m)
    OBVIOUS
  <2>4. ~ EndedAfter(m, i, m[i].pitch)
    BY <1>3, <2>2, <2>3, EndingsMove
  <2>5. PICK e \in E : e.pitch = m[i].pitch /\ e.on = m[i].at
    BY <1>3, <2>2, <2>4 DEF Owed
  <2>6. e # entry
    <3>1. SUFFICES ASSUME e = entry PROVE FALSE
      OBVIOUS
    <3>2. m[i].at <= event.at /\ m[i].pitch = entry.pitch
      BY <2>5, <3>1
    <3>3. i < k
      <4>1. k \in Nat /\ Len(m) \in Nat
        BY EndingsMove
      <4>2. SUFFICES ASSUME i \in k .. Len(m) PROVE FALSE
        BY <4>1
      <4>3. m[i].at > event.at
        BY <4>2 DEF Inserted
      <4>4. QED
        BY <1>2, <3>2, <4>3
    <3>4. j = i /\ j \in 0 .. k - 1
      <4>1. k \in Nat
        BY EndingsMove
      <4>2. QED
        BY <2>2, <3>3, <4>1 DEF Moved
    <3>5. EndedAfter(t, j, t[j].pitch)
      BY <1>1, <2>2, <3>2, <3>4, EndingsMove
    <3>6. QED
      BY <1>3, <3>5
  <2>7. QED
    BY <2>2, <2>5, <2>6
<1>4. ASSUME NEW p \in held, ~ EndedAfter(t, 0, p)
      PROVE  \E e \in E \ {entry} : e.pitch = p
  <2>1. 0 \in 0 .. Len(m) /\ Moved(0, k) = 0 /\ 0 \in 0 .. k - 1
    BY EndingsMove DEF Moved
  <2>2. ~ EndedAfter(m, 0, p)
    BY <1>4, <2>1, EndingsMove
  <2>3. PICK e \in E : e.pitch = p
    BY <2>2 DEF Owed
  <2>4. e # entry
    BY <1>1, <1>4, <2>1, <2>3, EndingsMove
  <2>5. QED
    BY <2>3, <2>4
<1>5. QED
  BY <1>3, <1>4 DEF Owed

-----------------------------------------------------------------------------
(* The tape of a block, and the off of an entry on it. *)

IsSpan(block) == block.start \in Int /\ BlockEnd(block) \in Int /\ block.start < BlockEnd(block)

Tape(m, block) ==
  /\ m \in Seq(Events) /\ Sorted(m)
  /\ \A i \in 1 .. Len(m) : m[i].at \in block.start .. BlockEnd(block) - 1

(* A tape of the block stays one when an event of the block is added. *)
LEMMA TapeGrows ==
  ASSUME NEW block, IsSpan(block), NEW m, Tape(m, block), NEW e \in Events,
         e.at \in block.start .. BlockEnd(block) - 1
  PROVE  \E k : Inserted(m, e, AddEvent(m, e), k) /\ Tape(AddEvent(m, e), block)
<1> DEFINE t == AddEvent(m, e)
<1>1. m \in Seq(Events) /\ Sorted(m)
  BY DEF Tape
<1>2. PICK k : Inserted(m, e, t, k)
  BY <1>1, AddEventInserts
<1> HIDE DEF t
<1>3. t \in Seq(Events) /\ t[k] = e
  BY <1>2 DEF Inserted
<1>4. Sorted(t)
  BY <1>1, <1>2, InsertedSorted
<1>5. ASSUME NEW j \in 1 .. Len(t) PROVE t[j].at \in block.start .. BlockEnd(block) - 1
  <2>1. CASE j = k
    BY <1>3, <2>1
  <2>2. CASE j # k
    <3>1. PICK i \in 1 .. Len(m) : t[j] = m[i]
      BY <1>1, <1>2, <2>2, EndingsMove
    <3>2. QED
      BY <3>1 DEF Tape
  <2>3. QED
    BY <2>1, <2>2
<1>6. QED
  BY <1>2, <1>3, <1>4, <1>5 DEF Tape, t

(* An off falls in the block, and not before a note that starts in it. *)
LEMMA OffIsPlaced ==
  ASSUME NEW block, IsSpan(block), NEW e \in Entries, NEW cap \in Int
  PROVE  LET at == InBlock(Placement(e, cap, block), block)
         IN  /\ at \in block.start .. BlockEnd(block) - 1
             /\ e.on \in block.start .. BlockEnd(block) - 1 => e.on <= at
<1>1. e.on \in Int /\ e.due \in Int /\ e.on <= e.due
  BY DEF Entries
<1> DEFINE p == Placement(e, cap, block)
<1>2. p \in Int /\ (e.on \in block.start .. BlockEnd(block) - 1 => e.on <= p)
  <2>1. CASE e.on >= block.start /\ e.on < BlockEnd(block)
    <3>1. p = Low(e.due, High(e.on, cap))
      BY <2>1 DEF Placement
    <3>2. QED
      BY <1>1, <3>1 DEF Low, High
  <2>2. CASE ~ (e.on >= block.start /\ e.on < BlockEnd(block))
    <3>1. p = Low(e.due, High(block.start, cap))
      BY <2>2, Zenon DEF Placement
    <3>2. p \in Int
      BY <1>1, <3>1 DEF Low, High, IsSpan
    <3>3. ~ e.on \in block.start .. BlockEnd(block) - 1
      BY <1>1, <2>2 DEF IsSpan
    <3>4. QED
      BY <3>2, <3>3
  <2>3. QED
    BY <2>1, <2>2
<1> HIDE DEF p
<1>3. QED
  BY <1>1, <1>2 DEF InBlock, Low, High, IsSpan, p

(* So the off of an entry takes it from what is owed. *)
LEMMA NoteOffPays ==
  ASSUME NEW block, IsSpan(block), NEW m, Tape(m, block), NEW e \in Entries, NEW cap \in Int,
         NEW held, NEW E, Owed(m, held, E)
  PROVE  Tape(NoteOff(m, e, cap, block), block) /\ Owed(NoteOff(m, e, cap, block), held, E \ {e})
<1> DEFINE at == InBlock(Placement(e, cap, block), block)
           event == Event("off", e.pitch, at)
<1>1. /\ at \in block.start .. BlockEnd(block) - 1 /\ at \in Int
      /\ e.on \in block.start .. BlockEnd(block) - 1 => e.on <= at
  BY OffIsPlaced DEF IsSpan
<1>2. NoteOff(m, e, cap, block) = AddEvent(m, event)
  BY DEF NoteOff
<1> HIDE DEF at
<1>3. event \in Events /\ event.kind = "off" /\ event.pitch = e.pitch /\ event.at = at
  BY <1>1 DEF Events, Event, Entries
<1> HIDE DEF event
<1>4. PICK k : Inserted(m, event, AddEvent(m, event), k) /\ Tape(AddEvent(m, event), block)
  BY <1>1, <1>3, TapeGrows
<1>5. \A i \in 1 .. Len(m) : m[i].at = e.on => m[i].at <= event.at
  BY <1>1, <1>3 DEF Tape
<1>6. Owed(AddEvent(m, event), held, E \ {e})
  BY <1>3, <1>4, <1>5, OffPays DEF Tape
<1>7. QED
  BY <1>2, <1>4, <1>6

-----------------------------------------------------------------------------
(* The notes of a walk. *)

NotesOf(t) == {t[i] : i \in 1 .. Len(t)}

(* The notes from an entry of the table on. *)
NotesFrom(t, k) == {t[i] : i \in k .. Len(t)}

Notes(w, block, held) ==
  /\ w.table \in Seq(Entries) /\ Len(w.table) <= TableCapacity
  /\ Tape(w.midi, block)
  /\ Owed(w.midi, held, NotesOf(w.table))

(* The notes from one entry on are that entry and those behind it. *)
LEMMA NotesPeel ==
  ASSUME NEW t \in Seq(Entries), NEW k \in 1 .. Len(t)
  PROVE  NotesFrom(t, k) = NotesFrom(t, k + 1) \union {t[k]}
<1>1. k .. Len(t) = (k + 1 .. Len(t)) \union {k}
  OBVIOUS
<1>2. QED
  BY <1>1 DEF NotesFrom

(* They are all from the first entry on, and none behind the last. *)
LEMMA NotesEnds ==
  ASSUME NEW t \in Seq(Entries)
  PROVE  NotesFrom(t, 1) = NotesOf(t) /\ NotesFrom(t, Len(t) + 1) = {}
<1>1. Len(t) + 1 .. Len(t) = {}
  OBVIOUS
<1>2. QED
  BY <1>1 DEF NotesFrom, NotesOf

(* An empty table has none. *)
LEMMA NoNotes == NotesOf(<< >>) = {} /\ << >> \in Seq(Entries) /\ Len(<< >>) = 0
<1>1. << >> \in Seq(Entries) /\ Len(<< >>) = 0 /\ 1 .. 0 = {}
  OBVIOUS
<1>2. QED
  BY <1>1 DEF NotesOf

(* An entry registered is one more, *)
LEMMA NotesAppend ==
  ASSUME NEW t \in Seq(Entries), NEW e \in Entries
  PROVE  /\ Append(t, e) \in Seq(Entries) /\ Len(Append(t, e)) = Len(t) + 1
         /\ NotesOf(Append(t, e)) = NotesOf(t) \union {e}
<1>1. /\ Append(t, e) \in Seq(Entries) /\ Len(Append(t, e)) = Len(t) + 1
      /\ \A i \in 1 .. Len(t) : Append(t, e)[i] = t[i]
      /\ Append(t, e)[Len(t) + 1] = e
      /\ 1 .. Len(t) + 1 = (1 .. Len(t)) \union {Len(t) + 1}
  OBVIOUS
<1> DEFINE a == Append(t, e)
<1> HIDE DEF a
<1>2. NotesOf(a) = NotesOf(t) \union {e}
  BY <1>1 DEF NotesOf, a
<1>3. QED
  BY <1>1, <1>2 DEF a

(* and one taken out at most one less. *)
LEMMA NotesRemove ==
  ASSUME NEW t \in Seq(Entries), NEW i \in 1 .. Len(t)
  PROVE  /\ RemoveAt(t, i) \in Seq(Entries) /\ Len(RemoveAt(t, i)) = Len(t) - 1
         /\ NotesOf(RemoveAt(t, i)) \subseteq NotesOf(t)
         /\ NotesOf(t) \ {t[i]} \subseteq NotesOf(RemoveAt(t, i))
<1> DEFINE n == Len(t)
           front == SubSeq(t, 1, i - 1)
           back == SubSeq(t, i + 1, n)
           r == front \o back
<1>1. n \in Nat /\ i \in 1 .. n /\ i \in Nat
  OBVIOUS
<1>2. front \in Seq(Entries) /\ Len(front) = i - 1 /\ \A j \in 1 .. i - 1 : front[j] = t[j]
  <2>1. i - 1 \in Int /\ (i - 1) - 1 + 1 = i - 1 /\ \A j \in 1 .. i - 1 : 1 + j - 1 = j
    BY <1>1
  <2>2. \A j \in 1 .. i - 1 : t[j] \in Entries
    BY <1>1
  <2>3. (IF 1 <= i - 1 THEN (i - 1) - 1 + 1 ELSE 0) = i - 1
    BY <1>1
  <2>4. QED
    BY <2>1, <2>2, <2>3, SubSeqProperties
<1>3. /\ back \in Seq(Entries) /\ Len(back) = n - i
      /\ \A j \in 1 .. n - i : back[j] = t[i + j]
  <2>1. i + 1 \in Int /\ n - (i + 1) + 1 = n - i /\ \A j \in 1 .. n - i : (i + 1) + j - 1 = i + j
    BY <1>1
  <2>2. \A j \in i + 1 .. n : t[j] \in Entries
    BY <1>1
  <2>3. (IF i + 1 <= n THEN n - (i + 1) + 1 ELSE 0) = n - i
    BY <1>1
  <2>4. /\ back \in Seq(Entries) /\ Len(back) = IF i + 1 <= n THEN n - (i + 1) + 1 ELSE 0
        /\ \A j \in 1 .. n - (i + 1) + 1 : back[j] = t[(i + 1) + j - 1]
    <3> HIDE DEF n
    <3>1. QED
      BY <1>1, <2>1, <2>2, SubSeqProperties
  <2> HIDE DEF back, n
  <2>5. QED
    BY <2>1, <2>3, <2>4
<1>4. RemoveAt(t, i) = r
  BY DEF RemoveAt
<1> HIDE DEF front, back, n
<1>5. /\ r \in Seq(Entries) /\ Len(r) = n - 1
      /\ \A j \in 1 .. n - 1 : r[j] = IF j <= i - 1 THEN front[j] ELSE back[j - (i - 1)]
  <2>1. (i - 1) + (n - i) = n - 1
    BY <1>1
  <2>2. /\ r \in Seq(Entries) /\ Len(r) = Len(front) + Len(back)
        /\ \A j \in 1 .. Len(front) + Len(back) :
             r[j] = IF j <= Len(front) THEN front[j] ELSE back[j - Len(front)]
    BY <1>2, <1>3, ConcatProperties
  <2> HIDE DEF r
  <2>3. QED
    BY <1>2, <1>3, <2>1, <2>2
<1> HIDE DEF r
<1>6. \A j \in 1 .. n - 1 : r[j] = t[IF j < i THEN j ELSE j + 1]
  <2>1. TAKE j \in 1 .. n - 1
  <2>2. CASE j < i
    BY <1>1, <1>2, <1>5, <2>2
  <2>3. CASE ~ j < i
    <3>1. j - (i - 1) \in 1 .. n - i /\ i + (j - (i - 1)) = j + 1 /\ ~ j <= i - 1
      BY <1>1, <2>3
    <3>2. r[j] = back[j - (i - 1)] /\ back[j - (i - 1)] = t[j + 1]
      BY <1>3, <1>5, <3>1
    <3>3. QED
      BY <2>3, <3>2
  <2>4. QED
    BY <2>2, <2>3
<1>7. \A x \in NotesOf(r) : x \in NotesOf(t)
  <2>1. TAKE x \in NotesOf(r)
  <2>2. PICK j \in 1 .. n - 1 : x = r[j]
    BY <1>5 DEF NotesOf
  <2>3. (IF j < i THEN j ELSE j + 1) \in 1 .. n
    BY <1>1
  <2>4. QED
    BY <1>6, <2>2, <2>3 DEF NotesOf, n
<1>8. \A x \in NotesOf(t) : x # t[i] => x \in NotesOf(r)
  <2>1. SUFFICES ASSUME NEW j \in 1 .. n, t[j] # t[i] PROVE t[j] \in NotesOf(r)
    BY DEF NotesOf, n
  <2>2. j < i \/ j > i
    BY <1>1, <2>1
  <2>3. CASE j < i
    <3>1. j \in 1 .. n - 1 /\ r[j] = t[j]
      BY <1>1, <1>6, <2>3
    <3>2. QED
      BY <1>5, <3>1 DEF NotesOf
  <2>4. CASE j > i
    <3>1. j - 1 \in 1 .. n - 1 /\ ~ j - 1 < i /\ (j - 1) + 1 = j
      BY <1>1, <2>4
    <3>2. r[j - 1] = t[j]
      BY <1>6, <3>1
    <3>3. QED
      BY <1>5, <3>1, <3>2 DEF NotesOf
  <2>5. QED
    BY <2>2, <2>3, <2>4
<1>9. QED
  BY <1>4, <1>5, <1>7, <1>8 DEF n

-----------------------------------------------------------------------------
(* The operations of the table, on the notes of a walk. *)

(* Ending all the notes is a fold over the table, *)
CutSample(e, block, releaseFrom) ==
  IF e.due >= block.start /\ e.due < releaseFrom THEN e.due ELSE releaseFrom - 1

CutNote(m, e, block, releaseFrom, x) == NoteOff(m, e, CutSample(e, block, releaseFrom), block)

FlushFold == INSTANCE Folding WITH Op <- CutNote

Offs(w, block, releaseFrom) == FlushFold!Fold(block, releaseFrom, 0, w.midi, w.table)

SweepAt(block, releaseFrom) == Event("sweep", AnyPitch, InBlock(releaseFrom - 1, block))

(* and a sweep behind it at most, *)
LEMMA FlushIsFold ==
  ASSUME NEW w, IsWalk(w), NEW block, NEW releaseFrom
  PROVE  /\ Flush(w, block, releaseFrom).table = << >>
         /\ \/ Flush(w, block, releaseFrom).midi = Offs(w, block, releaseFrom)
            \/ Flush(w, block, releaseFrom).midi =
                 AddEvent(Offs(w, block, releaseFrom), SweepAt(block, releaseFrom))
<1> DEFINE Ended(e) == e.due >= block.start /\ e.due < releaseFrom
           swept == \E i \in DOMAIN w.table : ~ Ended(w.table[i])
           offs == Offs(w, block, releaseFrom)
           sweep == SweepAt(block, releaseFrom)
           tape == IF swept THEN AddEvent(offs, sweep) ELSE offs
<1>1. offs = FoldLeft(LAMBDA m, e : NoteOff(m, e, IF Ended(e) THEN e.due ELSE releaseFrom - 1, block),
                      w.midi, w.table)
  BY Zenon
  DEF Offs, CutNote, CutSample, FlushFold!Fold, FoldLeft, MapThenFoldSet, Max,
      FlushFold!FoldLeft, FlushFold!MapThenFoldSet, FlushFold!Max
<1>2. Flush(w, block, releaseFrom) = [w EXCEPT !.midi = tape, !.table = << >>]
  BY <1>1, Zenon DEF Flush, SweepAt
<1> HIDE DEF swept, offs, sweep
<1>3. tape = offs \/ tape = AddEvent(offs, sweep)
  BY Zenon
<1> HIDE DEF tape
<1>4. /\ [w EXCEPT !.midi = tape, !.table = << >>].table = << >>
      /\ [w EXCEPT !.midi = tape, !.table = << >>].midi = tape
  BY DEF IsWalk
<1>5. QED
  BY <1>2, <1>3, <1>4 DEF offs, sweep

(* that leaves nothing owed. *)
LEMMA FlushPays ==
  ASSUME NEW block, IsSpan(block), NEW held, NEW w, IsWalk(w), Notes(w, block, held),
         NEW releaseFrom \in Int
  PROVE  LET v == Flush(w, block, releaseFrom)
         IN  Notes(v, block, held) /\ NotesOf(v.table) = {}
<1> DEFINE t == w.table
           n == Len(w.table)
<1>1. t \in Seq(Entries) /\ n \in Nat /\ DOMAIN t = 1 .. n /\ \A i \in 1 .. n : t[i] \in Entries
  BY DEF Notes
<1>2. PICK run : FlushFold!IsRun(run, block, releaseFrom, 0, w.midi, t, n)
  BY <1>1, FlushFold!FoldRuns
<1> DEFINE Paid(k) == Tape(run[k], block) /\ Owed(run[k], held, NotesFrom(t, k + 1))
           T == {k \in 0 .. n : Paid(k)}
<1> HIDE DEF n, t
<1>3. 0 \in T
  <2>1. run[0] = w.midi
    BY <1>2 DEF FlushFold!IsRun
  <2>2. 0 + 1 = 1 /\ NotesFrom(t, 1) = NotesOf(t)
    BY <1>1, NotesEnds
  <2>3. QED
    BY <1>1, <2>1, <2>2 DEF Notes, t
<1>4. ASSUME NEW k \in 0 .. n - 1, k \in T PROVE k + 1 \in T
  <2>1. k + 1 \in 1 .. n /\ k + 1 \in 0 .. n /\ (k + 1) - 1 = k
    BY <1>1
  <2>2. t[k + 1] \in Entries
    BY <1>1, <2>1
  <2>3. run[k + 1] = CutNote(run[k], t[k + 1], block, releaseFrom, 0)
    BY <1>2, <2>1 DEF FlushFold!IsRun
  <2>4. CutSample(t[k + 1], block, releaseFrom) \in Int
    BY <2>2 DEF CutSample, Entries
  <2>5. /\ Tape(run[k + 1], block)
        /\ Owed(run[k + 1], held, NotesFrom(t, k + 1) \ {t[k + 1]})
    <3>1. Tape(run[k], block) /\ Owed(run[k], held, NotesFrom(t, k + 1))
      BY <1>4
    <3>2. run[k + 1] = NoteOff(run[k], t[k + 1], CutSample(t[k + 1], block, releaseFrom), block)
      BY <2>3, Zenon DEF CutNote
    <3> DEFINE e == t[k + 1]
               cut == CutSample(e, block, releaseFrom)
               m == run[k]
               owed == NotesFrom(t, k + 1)
    <3> HIDE DEF T, e, cut, m, owed
    <3>3. Tape(NoteOff(m, e, cut, block), block) /\ Owed(NoteOff(m, e, cut, block), held, owed \ {e})
      <4>1. e \in Entries /\ cut \in Int /\ Tape(m, block) /\ Owed(m, held, owed)
        BY <2>2, <2>4, <3>1 DEF e, cut, m, owed
      <4>2. QED
        BY <4>1, NoteOffPays
    <3>4. QED
      BY <3>2, <3>3 DEF e, cut, m, owed
  <2>6. NotesFrom(t, k + 1) \ {t[k + 1]} \subseteq NotesFrom(t, (k + 1) + 1)
    BY <1>1, <2>1, NotesPeel DEF n
  <2>7. QED
    BY <2>1, <2>5, <2>6, OwedMore
<1>5. Tape(run[n], block) /\ Owed(run[n], held, {})
  <2>1. n \in T
    <3> HIDE DEF T
    <3>1. \A k \in 0 .. n : k \in T
      BY <1>1, <1>3, <1>4, FlushFold!Counting
    <3>2. QED
      BY <1>1, <3>1
  <2>2. NotesFrom(t, n + 1) = {}
    BY <1>1, NotesEnds DEF n
  <2>3. QED
    BY <2>1, <2>2
<1> DEFINE offs == Offs(w, block, releaseFrom)
           sweep == SweepAt(block, releaseFrom)
<1>6. Tape(offs, block) /\ Owed(offs, held, {})
  BY <1>2, <1>5 DEF Offs, FlushFold!IsRun, t
<1>7. Tape(AddEvent(offs, sweep), block) /\ Owed(AddEvent(offs, sweep), held, {})
  <2>1. InBlock(releaseFrom - 1, block) \in block.start .. BlockEnd(block) - 1
    BY DEF InBlock, High, Low, IsSpan
  <2>2. sweep \in Events /\ sweep.at \in block.start .. BlockEnd(block) - 1 /\ sweep.kind # "on"
    BY <2>1 DEF SweepAt, Event, Events, IsSpan
  <2> HIDE DEF sweep, offs
  <2>3. PICK k : Inserted(offs, sweep, AddEvent(offs, sweep), k) /\ Tape(AddEvent(offs, sweep), block)
    BY <1>6, <2>2, TapeGrows
  <2>4. QED
    BY <1>6, <2>2, <2>3, EndOwesNothing DEF Tape
<1> HIDE DEF offs, sweep
<1>8. Flush(w, block, releaseFrom).table = << >>
      /\ \/ Flush(w, block, releaseFrom).midi = offs
         \/ Flush(w, block, releaseFrom).midi = AddEvent(offs, sweep)
  BY FlushIsFold DEF offs, sweep
<1>9. 0 <= TableCapacity
  BY SequencerAssumption
<1>10. QED
  BY <1>6, <1>7, <1>8, <1>9, NoNotes DEF Notes

(* Ending the notes that are due is a fold too, *)
EndIfDue(acc, e, block, x, y) ==
  IF e.due < BlockEnd(block)
  THEN [acc EXCEPT !.midi = NoteOff(@, e, e.due, block)]
  ELSE [acc EXCEPT !.table = Append(@, e)]

DueFold == INSTANCE Folding WITH Op <- EndIfDue

(* over the table and the tape, *)
LEMMA EndsAreFold ==
  ASSUME NEW w, IsWalk(w), NEW block
  PROVE  LET after == DueFold!Fold(block, 0, 0, [table |-> << >>, midi |-> w.midi], w.table)
         IN  /\ EmitDueNoteOffs(w, block).table = after.table
             /\ EmitDueNoteOffs(w, block).midi = after.midi
<1> DEFINE after == DueFold!Fold(block, 0, 0, [table |-> << >>, midi |-> w.midi], w.table)
<1>1. EmitDueNoteOffs(w, block) = [w EXCEPT !.table = after.table, !.midi = after.midi]
  BY Zenon
  DEF EmitDueNoteOffs, EndIfDue, DueFold!Fold, FoldLeft, MapThenFoldSet, Max,
      DueFold!FoldLeft, DueFold!MapThenFoldSet, DueFold!Max
<1> HIDE DEF after
<1>2. /\ [w EXCEPT !.table = after.table, !.midi = after.midi].table = after.table
      /\ [w EXCEPT !.table = after.table, !.midi = after.midi].midi = after.midi
  BY DEF IsWalk
<1>3. QED
  BY <1>1, <1>2 DEF after

(* that keeps the notes due after the block. *)
LEMMA EndsPay ==
  ASSUME NEW block, IsSpan(block), NEW held, NEW w, IsWalk(w), Notes(w, block, held)
  PROVE  LET v == EmitDueNoteOffs(w, block)
         IN  /\ Notes(v, block, held)
             /\ NotesOf(v.table) \subseteq NotesOf(w.table)
             /\ \A e \in NotesOf(v.table) : e.due >= BlockEnd(block)
<1> DEFINE t == w.table
           n == Len(w.table)
           base == [table |-> << >>, midi |-> w.midi]
<1>1. /\ t \in Seq(Entries) /\ n \in Nat /\ DOMAIN t = 1 .. n /\ \A i \in 1 .. n : t[i] \in Entries
      /\ n <= TableCapacity
  BY DEF Notes
<1>2. PICK run : DueFold!IsRun(run, block, 0, 0, base, t, n)
  BY <1>1, DueFold!FoldRuns
<1> DEFINE Paid(k) ==
             /\ DOMAIN run[k] = {"table", "midi"}
             /\ run[k].table \in Seq(Entries) /\ Len(run[k].table) <= k
             /\ NotesOf(run[k].table) \subseteq NotesOf(t)
             /\ \A e \in NotesOf(run[k].table) : e.due >= BlockEnd(block)
             /\ Tape(run[k].midi, block)
             /\ Owed(run[k].midi, held, NotesOf(run[k].table) \union NotesFrom(t, k + 1))
           T == {k \in 0 .. n : Paid(k)}
<1> HIDE DEF n, t
<1>3. 0 \in T
  <2>1. run[0] = base
    BY <1>2 DEF DueFold!IsRun
  <2>2. run[0].table = << >> /\ run[0].midi = w.midi /\ DOMAIN run[0] = {"table", "midi"}
    BY <2>1
  <2>3. 0 + 1 = 1 /\ NotesFrom(t, 1) = NotesOf(t)
    BY <1>1, NotesEnds
  <2>4. Tape(w.midi, block) /\ Owed(w.midi, held, {} \union NotesOf(t))
    BY DEF Notes, t
  <2>5. /\ run[0].table \in Seq(Entries) /\ Len(run[0].table) = 0
        /\ NotesOf(run[0].table) = {}
    BY <2>2, NoNotes
  <2>6. NotesOf(run[0].table) \union NotesFrom(t, 0 + 1) = {} \union NotesOf(t)
    BY <2>3, <2>5
  <2>7. Tape(run[0].midi, block)
        /\ Owed(run[0].midi, held, NotesOf(run[0].table) \union NotesFrom(t, 0 + 1))
    BY <2>2, <2>4, <2>6
  <2>8. Paid(0)
    BY <2>2, <2>5, <2>7
  <2>9. 0 \in 0 .. n
    BY <1>1
  <2>10. QED
    BY <2>8, <2>9
<1>4. ASSUME NEW k \in 0 .. n - 1, k \in T PROVE k + 1 \in T
  <2> DEFINE e == t[k + 1]
             old == run[k]
             new == run[k + 1]
  <2>1. k + 1 \in 1 .. n /\ k + 1 \in 0 .. n /\ (k + 1) - 1 = k /\ k \in Nat
    BY <1>1
  <2>2. e \in Entries /\ e.due \in Int /\ e \in NotesOf(t)
    <3>1. e \in Entries /\ e \in NotesOf(t)
      BY <1>1, <2>1 DEF NotesOf, n
    <3>2. QED
      BY <3>1 DEF Entries
  <2>3. new = EndIfDue(old, e, block, 0, 0)
    BY <1>2, <2>1 DEF DueFold!IsRun
  <2>4. NotesFrom(t, k + 1) = NotesFrom(t, (k + 1) + 1) \union {e}
    BY <1>1, <2>1, NotesPeel DEF n
  <2>5. Paid(k)
    BY <1>4
  <2> HIDE DEF e
  <2>6. CASE e.due < BlockEnd(block)
    <3>1. new = [old EXCEPT !.midi = NoteOff(@, e, e.due, block)]
      BY <2>3, <2>6 DEF EndIfDue
    <3>2. /\ DOMAIN new = {"table", "midi"} /\ new.table = old.table
          /\ new.midi = NoteOff(old.midi, e, e.due, block)
      BY <2>5, <3>1
    <3>3. /\ Tape(new.midi, block)
          /\ Owed(new.midi, held, (NotesOf(old.table) \union NotesFrom(t, k + 1)) \ {e})
      BY <2>2, <2>5, <3>2, NoteOffPays
    <3>4. (NotesOf(old.table) \union NotesFrom(t, k + 1)) \ {e}
            \subseteq NotesOf(new.table) \union NotesFrom(t, (k + 1) + 1)
      BY <2>4, <3>2
    <3>5. Owed(new.midi, held, NotesOf(new.table) \union NotesFrom(t, (k + 1) + 1))
      BY <3>3, <3>4, OwedMore
    <3>6. Len(new.table) <= k + 1
      BY <2>1, <2>5, <3>2
    <3>7. Paid(k + 1)
      BY <2>5, <3>2, <3>3, <3>5, <3>6
    <3>8. QED
      BY <2>1, <3>7
  <2>7. CASE ~ e.due < BlockEnd(block)
    <3>1. new = [old EXCEPT !.table = Append(@, e)]
      BY <2>3, <2>7 DEF EndIfDue
    <3>2. /\ DOMAIN new = {"table", "midi"} /\ new.midi = old.midi
          /\ new.table = Append(old.table, e)
      BY <2>5, <3>1
    <3>3. /\ new.table \in Seq(Entries) /\ Len(new.table) = Len(old.table) + 1
          /\ NotesOf(new.table) = NotesOf(old.table) \union {e}
      BY <2>2, <2>5, <3>2, NotesAppend
    <3>4. NotesOf(old.table) \union NotesFrom(t, k + 1)
            = NotesOf(new.table) \union NotesFrom(t, (k + 1) + 1)
      BY <2>4, <3>3
    <3>5. e.due >= BlockEnd(block)
      BY <2>2, <2>7 DEF IsSpan
    <3>6. Len(new.table) <= k + 1
      BY <2>1, <2>5, <3>3
    <3>7. Paid(k + 1)
      BY <2>2, <2>5, <3>2, <3>3, <3>4, <3>5, <3>6
    <3>8. QED
      BY <2>1, <3>7
  <2>8. QED
    BY <2>6, <2>7
<1>5. Paid(n) /\ NotesFrom(t, n + 1) = {}
  <2>1. n \in T
    <3> HIDE DEF T
    <3>1. \A k \in 0 .. n : k \in T
      BY <1>1, <1>3, <1>4, DueFold!Counting
    <3>2. QED
      BY <1>1, <3>1
  <2>2. NotesFrom(t, n + 1) = {}
    BY <1>1, NotesEnds DEF n
  <2>3. QED
    BY <2>1, <2>2
<1> DEFINE v == EmitDueNoteOffs(w, block)
<1>6. v.table = run[n].table /\ v.midi = run[n].midi
  BY <1>2, EndsAreFold DEF DueFold!IsRun, t
<1> HIDE DEF v
<1>7. Len(v.table) <= TableCapacity
  <2>1. run[n].table \in Seq(Entries)
    BY <1>5
  <2>2. Len(run[n].table) \in Nat /\ Len(run[n].table) <= n /\ TableCapacity \in Nat
    BY <1>5, <2>1, SequencerAssumption
  <2>3. QED
    BY <1>1, <1>6, <2>2
<1>8. NotesOf(v.table) \union NotesFrom(t, n + 1) = NotesOf(v.table)
  BY <1>5
<1>9. QED
  BY <1>5, <1>6, <1>7, <1>8 DEF Notes, v, t

-----------------------------------------------------------------------------
(* Playing a note. *)

(* The entry of a pitch that started last is found, if there is one. *)
LEMMA FoundIsEntry ==
  ASSUME NEW t \in Seq(Entries), NEW pitch, NEW sample \in Int
  PROVE  FindStartedAtOrBefore(t, pitch, sample) \in 0 .. Len(t)
<1> DEFINE n == Len(t)
           started == {i \in DOMAIN t : t[i].pitch = pitch /\ t[i].on <= sample}
           Latest(i, S) ==
             i \in S /\ \A k \in S : t[k].on < t[i].on \/ (t[k].on = t[i].on /\ k <= i)
           Upto(k) == {i \in started : i <= k}
           T == {k \in 0 .. n : Upto(k) = {} \/ \E i : Latest(i, Upto(k))}
<1>1. n \in Nat /\ DOMAIN t = 1 .. n
  OBVIOUS
<1>2. \A i \in 1 .. n : t[i].on \in Int
  <2>1. \A i \in 1 .. n : t[i] \in Entries
    OBVIOUS
  <2>2. QED
    BY <2>1 DEF Entries
<1>3. started \subseteq 1 .. n
  BY <1>1
<1> HIDE DEF n, started
<1>4. 0 \in T
  <2>1. \A i \in started : ~ i <= 0
    BY <1>3
  <2>2. Upto(0) = {} /\ 0 \in 0 .. n
    BY <1>1, <2>1
  <2>3. QED
    BY <2>2
<1>5. ASSUME NEW k \in 0 .. n - 1, k \in T PROVE k + 1 \in T
  <2>1. k + 1 \in 1 .. n /\ k + 1 \in 0 .. n /\ k \in Nat
    BY <1>1
  <2>2. \A i \in started : i \in 1 .. n
    BY <1>3
  <2>3. CASE k + 1 \notin started
    <3>1. \A i \in started : i <= k + 1 <=> i <= k
      BY <2>1, <2>3, <2>2
    <3>2. Upto(k + 1) = Upto(k)
      BY <3>1
    <3>3. QED
      BY <1>5, <2>1, <3>2
  <2>4. CASE k + 1 \in started
    <3>1. \A i \in started : i <= k + 1 <=> i <= k \/ i = k + 1
      BY <2>1, <2>2
    <3>2. ~ k + 1 <= k /\ k + 1 <= k + 1
      BY <2>1
    <3>3. Upto(k + 1) = Upto(k) \union {k + 1}
      BY <2>4, <3>1, <3>2
    <3>4. \A i \in Upto(k) : i \in 1 .. n /\ i <= k + 1
      BY <2>2, <3>1
    <3>5. Upto(k + 1) = Upto(k) \union {k + 1} /\ \A i \in Upto(k) : i \in 1 .. n /\ i <= k + 1
      BY <3>3, <3>4
    <3>6. CASE Upto(k) = {}
      <4>1. Latest(k + 1, Upto(k + 1))
        BY <3>5, <3>6
      <4>2. QED
        BY <2>1, <4>1
    <3>7. ASSUME NEW i, Latest(i, Upto(k)) PROVE \E j : Latest(j, Upto(k + 1))
      <4>1. i \in 1 .. n
        BY <3>5, <3>7
      <4>2. CASE t[i].on <= t[k + 1].on
        <5>1. Latest(k + 1, Upto(k + 1))
          <6>1. SUFFICES ASSUME NEW x \in Upto(k)
                         PROVE  t[x].on < t[k + 1].on \/ (t[x].on = t[k + 1].on /\ x <= k + 1)
            BY <3>5
          <6>2. x \in 1 .. n /\ x <= k + 1
            BY <3>5
          <6>3. QED
            BY <1>2, <2>1, <3>7, <4>1, <4>2, <6>2
        <5>2. QED
          BY <5>1
      <4>3. CASE t[k + 1].on < t[i].on
        <5>1. Latest(i, Upto(k + 1))
          BY <3>5, <3>7, <4>3
        <5>2. QED
          BY <5>1
      <4>4. QED
        BY <1>2, <2>1, <4>1, <4>2, <4>3
    <3>8. k + 1 \in T
      BY <1>5, <2>1, <3>6, <3>7
    <3>9. QED
      BY <3>8
  <2>5. QED
    BY <2>3, <2>4
<1>6. Upto(n) = started /\ n \in T
  <2>1. n \in T
    <3> HIDE DEF T
    <3>1. \A k \in 0 .. n : k \in T
      BY <1>1, <1>4, <1>5, NoteFold!Counting
    <3>2. QED
      BY <1>1, <3>1
  <2>2. QED
    BY <1>3, <2>1
<1>7. CASE started = {}
  <2>1. FindStartedAtOrBefore(t, pitch, sample) = 0
    BY <1>7, Zenon DEF FindStartedAtOrBefore, started
  <2>2. QED
    BY <1>1, <2>1 DEF n
<1>8. CASE started # {}
  <2> DEFINE found == CHOOSE i \in started :
                        \A k \in started : t[k].on < t[i].on \/ (t[k].on = t[i].on /\ k <= i)
  <2>1. \E i \in started : \A k \in started : t[k].on < t[i].on \/ (t[k].on = t[i].on /\ k <= i)
    BY <1>6, <1>8
  <2>2. found \in started
    BY <2>1
  <2>3. FindStartedAtOrBefore(t, pitch, sample) = found
    BY <1>8, Zenon DEF FindStartedAtOrBefore, started
  <2> HIDE DEF found
  <2>4. found \in 1 .. n
    BY <1>3, <2>2
  <2>5. QED
    BY <1>1, <2>3, <2>4 DEF n
<1>9. QED
  BY <1>7, <1>8

(* Ending one entry pays it. *)
LEMMA RetirePays ==
  ASSUME NEW block, IsSpan(block), NEW held, NEW w, IsWalk(w), Notes(w, block, held),
         NEW i \in 1 .. Len(w.table), NEW cap \in Int
  PROVE  LET v == RetireNoLaterThan(w, i, cap, block)
         IN  Notes(v, block, held) /\ NotesOf(v.table) \subseteq NotesOf(w.table)
<1> DEFINE t == w.table
           e == w.table[i]
           v == RetireNoLaterThan(w, i, cap, block)
<1>1. t \in Seq(Entries) /\ e \in Entries /\ Len(t) \in Nat /\ Len(t) <= TableCapacity
  BY DEF Notes
<1>2. v.table = RemoveAt(t, i) /\ v.midi = NoteOff(w.midi, e, cap, block)
  BY DEF RetireNoLaterThan, IsWalk
<1>3. Tape(v.midi, block) /\ Owed(v.midi, held, NotesOf(t) \ {e})
  <2>1. Tape(w.midi, block) /\ Owed(w.midi, held, NotesOf(t))
    BY DEF Notes
  <2> HIDE DEF v, e, t
  <2>2. QED
    BY <1>1, <1>2, <2>1, NoteOffPays
<1>4. /\ v.table \in Seq(Entries) /\ Len(v.table) = Len(t) - 1
      /\ NotesOf(v.table) \subseteq NotesOf(t) /\ NotesOf(t) \ {e} \subseteq NotesOf(v.table)
  BY <1>1, <1>2, NotesRemove
<1> HIDE DEF v, e
<1>5. Owed(v.midi, held, NotesOf(v.table))
  BY <1>3, <1>4, OwedMore
<1>6. Len(v.table) <= TableCapacity
  BY <1>1, <1>4, SequencerAssumption
<1>7. QED
  BY <1>3, <1>4, <1>5, <1>6 DEF Notes, v

(* The steps of a pattern, and the block they are played in. *)
IsEmission(emission) ==
  /\ emission.shift \in Int
  /\ \E n \in Nat : DOMAIN emission.notes = 1 .. n
  /\ \A j \in DOMAIN emission.notes :
       /\ emission.notes[j].pitch \in Pitches /\ emission.notes[j].position \in Nat
       /\ emission.notes[j].length \in 0 .. LongestNote

(* What a step emits has notes of known pitch and length. *)
LEMMA EmissionIsTyped ==
  ASSUME NEW snapshot \in Snapshots, NEW pattern \in Patterns, NEW index \in Int, NEW fill
  PROVE  IsEmission(EvaluateStep(snapshot, pattern, index, fill))
<1> DEFINE cycle == Steps[snapshot][pattern]
<1>1. IsCycle(cycle)
  BY SequencerAssumption
<1> HIDE DEF cycle
<1>2. index % Len(cycle) \in 0 .. Len(cycle) - 1 /\ Len(cycle) \in Nat
  BY <1>1 DEF IsCycle
<1>3. 1 + (index % Len(cycle)) \in DOMAIN cycle
  BY <1>1, <1>2 DEF IsCycle
<1>4. PICK k \in DOMAIN cycle : StepAt(snapshot, pattern, index) = cycle[k]
  BY <1>3 DEF StepAt, cycle
<1>5. IsEmission(cycle[k])
  BY <1>1 DEF IsCycle, IsEmission
<1>6. IsEmission([shift |-> 0, notes |-> << >>])
  <2>1. DOMAIN << >> = 1 .. 0 /\ \A j \in 1 .. 0 : FALSE
    OBVIOUS
  <2>2. QED
    BY <2>1 DEF IsEmission
<1>7. \/ EvaluateStep(snapshot, pattern, index, fill) = cycle[k]
      \/ EvaluateStep(snapshot, pattern, index, fill) = [shift |-> 0, notes |-> << >>]
  BY <1>4, Zenon DEF EvaluateStep
<1>8. QED
  BY <1>5, <1>6, <1>7

IsPlayed(c) ==
  /\ IsContext(c)
  /\ c.grid \in Nat \ {0} /\ PpqPerSample \in Nat \ {0}
  /\ c.view.samples \in Nat /\ c.view.length \in Nat \ {0} /\ c.view.advance = c.view.length
  /\ c.block = Span(c.view.samples, c.view.length)

(* A note of a step has a position and a sample. *)
LEMMA PlacesAreSamples ==
  ASSUME NEW c, IsPlayed(c), NEW index \in Int, NEW emission, IsEmission(emission),
         NEW child \in DOMAIN emission.notes
  PROVE  /\ NotePpq(index, emission, child, c.grid) \in Int
         /\ SampleForPpq(NotePpq(index, emission, child, c.grid), c.view) \in Int
<1>1. NotePpq(index, emission, child, c.grid) \in Int
  <2>1. index * c.grid \in Int
    BY DEF IsPlayed
  <2>2. QED
    BY <2>1 DEF NotePpq, IsEmission
<1>2. \A ppq \in Int : SampleForPpq(ppq, c.view) \in Int
  BY DEF IsPlayed, IsContext, SampleForPpq
<1>3. QED
  BY <1>1, <1>2

(* A set of numbers that are not below a bound has a least one. *)
LEMMA MinIsMember ==
  ASSUME NEW S \in SUBSET Int, S # {}, NEW b \in Int, \A x \in S : x > b
  PROVE  Min(S) \in S /\ \A x \in S : Min(S) <= x
<1> DEFINE T(x) == {k \in 0 .. x - b : \A y \in S : ~ y < b + k}
<1>1. SUFFICES ASSUME \A x \in S : \E y \in S : y < x PROVE FALSE
  <2>1. ASSUME NEW x \in S, \A y \in S : ~ y < x
        PROVE  Min(S) \in S /\ \A y \in S : Min(S) <= y
    <3>1. \A y \in S : x <= y
      BY <2>1
    <3>2. QED
      BY <3>1 DEF Min
  <2>2. QED
    BY <2>1
<1>2. PICK x \in S : TRUE
  OBVIOUS
<1>3. x - b \in Nat /\ b + (x - b) = x /\ b + 0 = b
  OBVIOUS
<1>4. 0 \in T(x)
  BY <1>3
<1>5. ASSUME NEW k \in 0 .. (x - b) - 1, k \in T(x) PROVE k + 1 \in T(x)
  <2>1. k + 1 \in 0 .. x - b /\ b + k \in Int
    BY <1>3
  <2>2. b + k \notin S
    BY <1>1, <1>5
  <2>3. \A y \in S : ~ y < b + (k + 1)
    BY <1>5, <2>1, <2>2
  <2>4. QED
    BY <2>1, <2>3
<1>6. x - b \in T(x)
  <2> DEFINE U == T(x)
  <2>1. 0 \in U /\ \A k \in 0 .. (x - b) - 1 : k \in U => k + 1 \in U
    BY <1>4, <1>5
  <2> HIDE DEF U
  <2>2. \A k \in 0 .. x - b : k \in U
    BY <1>3, <2>1, NoteFold!Counting
  <2>3. x - b \in U
    BY <1>3, <2>2
  <2>4. QED
    BY <2>3 DEF U
<1>7. QED
  BY <1>1, <1>3, <1>6

(* A note ends after it starts and no later than on its own. *)
LEMMA CutoffInRange ==
  ASSUME NEW w, IsWalk(w), NEW c, IsPlayed(c), NEW emission, IsEmission(emission), NEW o,
         o.index \in Int, o.lookahead \in Int, o.on \in Int, o.due \in Int, o.on <= o.due
  PROVE  CutoffForSamePitch(w, o, emission, c) \in o.on .. o.due
<1> DEFINE Predicted(index) ==
             IF index = o.index THEN emission
             ELSE EvaluateStep(c.snapshot, w.pattern, index, fillHeld)
           Scanned ==
             {index \in o.index - 1 .. o.index + o.lookahead :
                /\ index > o.index /\ w.switch.resolved => index < w.switch.step
                /\ index < o.index => index >= w.lastFired}
           Candidates(index) ==
             {child \in DOMAIN Predicted(index).notes :
                /\ index = o.index => child > o.child
                /\ Predicted(index).notes[child].pitch = o.pitch}
           Onsets ==
             UNION {{SampleForPpq(NotePpq(index, Predicted(index), child, c.grid), c.view) :
                       child \in Candidates(index)} : index \in Scanned}
           Cutting == {s \in Onsets : s > o.on /\ s - 1 < o.due}
<1>1. CutoffForSamePitch(w, o, emission, c) =
        IF Cutting = {} THEN o.due ELSE High(o.on, Min(Cutting) - 1)
  BY Zenon DEF CutoffForSamePitch
<1>2. ASSUME NEW index \in Scanned PROVE index \in Int /\ IsEmission(Predicted(index))
  <2>1. index \in Int
    OBVIOUS
  <2>2. c.snapshot \in Snapshots /\ w.pattern \in Patterns
    BY DEF IsPlayed, IsContext, IsWalk
  <2>3. IsEmission(EvaluateStep(c.snapshot, w.pattern, index, fillHeld))
    BY <2>1, <2>2, EmissionIsTyped
  <2>4. QED
    BY <2>1, <2>3
<1> HIDE DEF Predicted, Scanned
<1>3. Onsets \subseteq Int
  <2>1. ASSUME NEW index \in Scanned, NEW child \in Candidates(index)
        PROVE  SampleForPpq(NotePpq(index, Predicted(index), child, c.grid), c.view) \in Int
    BY <1>2, PlacesAreSamples
  <2> HIDE DEF Candidates
  <2>2. QED
    BY <2>1
<1> HIDE DEF Onsets
<1>4. CASE Cutting = {}
  BY <1>1, <1>4
<1>5. CASE Cutting # {}
  <2>1. Cutting \in SUBSET Int /\ \A s \in Cutting : s > o.on
    BY <1>3
  <2>2. Min(Cutting) \in Cutting
    BY <1>5, <2>1, MinIsMember
  <2>3. Min(Cutting) \in Int /\ Min(Cutting) > o.on /\ Min(Cutting) - 1 < o.due
    BY <2>1, <2>2
  <2> HIDE DEF Cutting
  <2>4. High(o.on, Min(Cutting) - 1) \in o.on .. o.due
    BY <2>3 DEF High
  <2>5. QED
    BY <1>1, <1>5, <2>4
<1>6. QED
  BY <1>4, <1>5

(* A length is at least one sample, and none is more samples than ticks. *)
LEMMA LengthInSamples ==
  ASSUME NEW length \in 0 .. LongestNote, NEW step \in Nat \ {0}
  PROVE  High(1, RoundedSample(length, step)) \in 1 .. LongestNote
<1> DEFINE q == RoundedSample(length, step)
<1>1. LongestNote \in Nat \ {0} /\ length \in Nat /\ length <= LongestNote
  BY SequencerAssumption
<1>2. q \in Nat
  BY <1>1, RoundedIsNat
<1>3. q <= length \/ q <= 1
  <2>1. SUFFICES ASSUME q > length, q > 1 PROVE FALSE
    BY <1>1, <1>2
  <2>2. q * (2 * step) <= 2 * length + step
    <3>1. 2 * length + step \in Nat /\ 2 * step \in Nat \ {0}
      BY <1>1
    <3>2. \A a \in Nat, d \in Nat \ {0} : (a \div d) * d <= a
      OBVIOUS
    <3>3. QED
      BY <3>1, <3>2 DEF RoundedSample
  <2> HIDE DEF q
  <2>3. PICK r \in Nat : q = r + 2
    <3>1. q - 2 \in Nat /\ q = (q - 2) + 2
      BY <1>2, <2>1
    <3>2. QED
      BY <3>1
  <2>4. length <= r + 1
    BY <1>1, <2>1, <2>3
  <2>5. q * (2 * step) = 2 * (r * step) + 4 * step
    BY <2>3
  <2>6. r * step >= r /\ r * step \in Nat
    OBVIOUS
  <2>7. 2 * length + step <= 2 * r + 2 + step
    BY <1>1, <2>4
  <2>8. 2 * (r * step) + 4 * step <= 2 * r + 2 + step
    BY <1>1, <2>2, <2>5, <2>6, <2>7
  <2>9. QED
    BY <2>6, <2>8
<1> HIDE DEF q
<1>4. High(1, q) \in 1 .. LongestNote
  BY <1>1, <1>2, <1>3 DEF High
<1>5. QED
  BY <1>4 DEF q

(* A note looks a whole number of steps ahead. *)
LEMMA LookaheadIsInt ==
  ASSUME NEW reach \in Int, NEW grid \in Nat \ {0}, PpqPerSample \in Nat \ {0}
  PROVE  Lookahead(reach, grid) \in Int
<1> DEFINE stepSamples == grid \div PpqPerSample
<1>1. stepSamples \in Int
  OBVIOUS
<1>2. MaxLookahead \in Int
  BY DEF MaxLookahead
<1> HIDE DEF stepSamples
<1>3. CASE stepSamples >= 1
  <2>1. TruncDiv(reach, stepSamples) \in Int
    <3>1. stepSamples \in Nat \ {0}
      BY <1>1, <1>3
    <3>2. \A a \in Int : a \div stepSamples \in Int
      BY <3>1
    <3>3. QED
      BY <3>2 DEF TruncDiv
  <2> DEFINE x == TruncDiv(reach, stepSamples)
  <2>2. High(1, Low(MaxLookahead, x + 2)) \in Int
    <3> HIDE DEF x
    <3>1. x \in Int
      BY <2>1 DEF x
    <3>2. QED
      BY <1>2, <3>1 DEF High, Low
  <2>3. QED
    BY <1>3, <2>2 DEF Lookahead, stepSamples
<1>4. CASE ~ stepSamples >= 1
  BY <1>2, <1>4 DEF Lookahead, stepSamples
<1>5. QED
  BY <1>3, <1>4

(* Playing a note retires one entry at most and adds at most its own. *)
LEMMA EmitPays ==
  ASSUME NEW c, IsPlayed(c), IsSpan(c.block), NEW held, NEW w, IsWalk(w), Notes(w, c.block, held),
         NEW index \in Int, NEW emission, IsEmission(emission),
         NEW child \in DOMAIN emission.notes,
         NEW on \in c.block.start .. BlockEnd(c.block) - 1
  PROVE  LET v == EmitNote(w, index, child, emission, on, c)
         IN  /\ Notes(v, c.block, held)
             /\ \A e \in NotesOf(v.table) : e \in NotesOf(w.table) \/ e.due <= on + LongestNote
<1> DEFINE pitch == emission.notes[child].pitch
           length == emission.notes[child].length
           existing == FindStartedAtOrBefore(w.table, pitch, on)
           cap == IF w.table[existing].due <= on THEN on ELSE on - 1
           retired == IF existing = 0 THEN w ELSE RetireNoLaterThan(w, existing, cap, c.block)
           natural == on + High(1, RoundedSample(length, PpqPerSample))
           reach == natural - SampleForPpq(index * c.grid, c.view)
           o == [index |-> index, child |-> child, pitch |-> pitch, on |-> on, due |-> natural,
                 lookahead |-> Lookahead(reach, c.grid)]
           due == CutoffForSamePitch(w, o, emission, c)
           entry == Entry(pitch, on, due)
           event == Event("on", pitch, on)
           added == [retired EXCEPT !.table = Append(@, entry), !.midi = AddEvent(@, event)]
           v == EmitNote(w, index, child, emission, on, c)
<1>1. v = IF ~ CanAdd(retired.table) THEN retired ELSE added
  BY Zenon DEF EmitNote
<1>2. pitch \in Pitches /\ length \in 0 .. LongestNote /\ on \in Int /\ PpqPerSample \in Nat \ {0}
  BY DEF IsEmission, IsPlayed, IsSpan
<1>3. /\ IsWalk(retired) /\ Notes(retired, c.block, held)
      /\ NotesOf(retired.table) \subseteq NotesOf(w.table)
  <2>1. existing \in 0 .. Len(w.table)
    BY <1>2, FoundIsEntry DEF Notes
  <2>2. CASE existing = 0
    BY <2>2
  <2>3. CASE existing # 0
    <3>1. existing \in 1 .. Len(w.table) /\ cap \in Int
      BY <1>2, <2>1, <2>3 DEF Notes
    <3> HIDE DEF existing, cap
    <3>2. IsWalk(RetireNoLaterThan(w, existing, cap, c.block))
      BY RetireKeeps, KeepsIsWalk
    <3>3. QED
      BY <2>3, <3>1, <3>2, RetirePays
  <2>4. QED
    BY <2>2, <2>3
<1> HIDE DEF retired, existing
<1>4. natural \in Int /\ on <= natural /\ natural <= on + LongestNote
  <2>1. High(1, RoundedSample(length, PpqPerSample)) \in 1 .. LongestNote
    BY <1>2, LengthInSamples
  <2> DEFINE lasts == High(1, RoundedSample(length, PpqPerSample))
  <2>2. lasts \in Int /\ 1 <= lasts /\ lasts <= LongestNote /\ LongestNote \in Int
    BY <2>1, SequencerAssumption
  <2> HIDE DEF lasts
  <2>3. on + lasts \in Int /\ on <= on + lasts /\ on + lasts <= on + LongestNote
    BY <1>2, <2>2
  <2>4. QED
    BY <2>3 DEF lasts
<1> HIDE DEF natural
<1>5. due \in on .. natural
  <2>1. reach \in Int
    <3>1. index * c.grid \in Int
      BY DEF IsPlayed
    <3>2. SampleForPpq(index * c.grid, c.view) \in Int
      BY <1>2, <3>1 DEF SampleForPpq, IsPlayed, IsContext
    <3>3. QED
      BY <1>4, <3>2
  <2>2. Lookahead(reach, c.grid) \in Int
    BY <1>2, <2>1, LookaheadIsInt DEF IsPlayed
  <2> HIDE DEF reach
  <2>3. /\ o.index = index /\ o.lookahead = Lookahead(reach, c.grid) /\ o.on = on
        /\ o.due = natural
    OBVIOUS
  <2> HIDE DEF o
  <2>4. QED
    BY <1>2, <1>4, <2>2, <2>3, CutoffInRange
<1> HIDE DEF due, o
<1>6. /\ entry \in Entries /\ entry.pitch = pitch /\ entry.on = on /\ entry.due <= on + LongestNote
      /\ event \in Events /\ event.pitch = pitch /\ event.at = on
  <2>1. due \in Int /\ on <= due /\ due <= on + LongestNote
    BY <1>2, <1>4, <1>5, SequencerAssumption
  <2>2. entry \in Entries /\ entry.pitch = pitch /\ entry.on = on /\ entry.due <= on + LongestNote
    BY <1>2, <2>1 DEF Entry, Entries
  <2>3. event \in Events /\ event.pitch = pitch /\ event.at = on
    BY <1>2 DEF Event, Events
  <2>4. QED
    BY <2>2, <2>3
<1> HIDE DEF entry, event, pitch, length
<1>7. CASE ~ CanAdd(retired.table)
  BY <1>1, <1>3, <1>7
<1>8. CASE CanAdd(retired.table)
  <2>1. v = added
    BY <1>1, <1>8
  <2>2. v.table = Append(retired.table, entry) /\ v.midi = AddEvent(retired.midi, event)
    BY <1>3, <2>1 DEF IsWalk
  <2> HIDE DEF v, added
  <2>3. /\ v.table \in Seq(Entries) /\ Len(v.table) = Len(retired.table) + 1
        /\ NotesOf(v.table) = NotesOf(retired.table) \union {entry}
    BY <1>3, <1>6, <2>2, NotesAppend DEF Notes
  <2>4. Len(v.table) <= TableCapacity
    <3>1. retired.table \in Seq(Entries) /\ Len(retired.table) < TableCapacity
      BY <1>3, <1>8 DEF CanAdd, Notes
    <3>2. Len(retired.table) \in Nat
      BY <3>1
    <3>3. QED
      BY <2>3, <3>1, <3>2, SequencerAssumption
  <2>5. Tape(retired.midi, c.block) /\ Owed(retired.midi, held, NotesOf(retired.table))
    BY <1>3 DEF Notes
  <2>6. PICK k : Inserted(retired.midi, event, v.midi, k) /\ Tape(v.midi, c.block)
    BY <1>6, <2>2, <2>5, TapeGrows
  <2>7. Owed(v.midi, held, NotesOf(v.table))
    <3>1. retired.midi \in Seq(Events)
      BY <2>5 DEF Tape
    <3>2. Owed(v.midi, held, NotesOf(retired.table) \union {entry})
      BY <1>6, <2>5, <2>6, <3>1, OnOwes
    <3>3. QED
      BY <2>3, <3>2
  <2>8. \A e \in NotesOf(v.table) : e \in NotesOf(w.table) \/ e.due <= on + LongestNote
    BY <1>3, <1>6, <2>3
  <2>9. Notes(v, c.block, held)
    BY <2>3, <2>4, <2>6, <2>7 DEF Notes
  <2>10. QED
    BY <2>8, <2>9 DEF v
<1>9. QED
  BY <1>7, <1>8

-----------------------------------------------------------------------------
(* The notes of a render. *)

Sounds(w, block, held, last) ==
  /\ IsWalk(w)
  /\ Notes(w, block, held)
  /\ \A e \in NotesOf(w.table) : e.due <= last

(* A walk with the notes of another. *)
LEMMA SoundsKept ==
  \A w, v, block, held, last :
    Sounds(w, block, held, last) /\ IsWalk(v) /\ v.table = w.table /\ v.midi = w.midi
      => Sounds(v, block, held, last)
  BY Zenon DEF Sounds, Notes

(* A note the block owns starts in it. *)
LEMMA OwnedStartsInside ==
  ASSUME NEW c, IsPlayed(c), NEW ppq \in Int, OwnsPpq(ppq, c.view)
  PROVE  High(c.view.samples, SampleForPpq(ppq, c.view)) \in c.block.start .. BlockEnd(c.block) - 1
<1> DEFINE d == ppq - c.view.ppq
           n == c.view.length
           s == PpqPerSample
<1>1. /\ n \in Nat \ {0} /\ s \in Nat \ {0} /\ c.view.ppq \in Int /\ c.view.samples \in Nat
      /\ c.block.start = c.view.samples /\ BlockEnd(c.block) = c.view.samples + n
      /\ BlockEndPpq(c.view) = c.view.ppq + n * s
  BY DEF IsPlayed, IsContext, Span, BlockEnd, BlockEndPpq
<1>2. d \in Nat /\ d < n * s
  BY <1>1 DEF OwnsPpq
<1> HIDE DEF d, n, s
<1>3. d \div s \in Nat /\ (d \div s) * s <= d
  BY <1>1, <1>2
<1>4. d \div s < n
  <2>1. (d \div s) * s < n * s
    <3>1. (d \div s) * s \in Int /\ n * s \in Int
      BY <1>1, <1>3
    <3>2. QED
      BY <1>2, <1>3, <3>1
  <2>2. QED
    BY <1>1, <1>3, <2>1, Order
<1>5. SampleForPpq(ppq, c.view) = c.view.samples + (d \div s)
  BY DEF SampleForPpq, d, s
<1>6. QED
  BY <1>1, <1>3, <1>4, <1>5 DEF High

LastEnd(block) == BlockEnd(block) - 1 + LongestNote

(* A note of a step keeps the notes well, *)
LEMMA PlayNoteSounds ==
  ASSUME NEW c, IsPlayed(c), IsSpan(c.block), NEW held, NEW w,
         Sounds(w, c.block, held, LastEnd(c.block)),
         NEW index \in Int, NEW emission, IsEmission(emission),
         NEW child \in DOMAIN emission.notes
  PROVE  Sounds(PlayNote(w, child, index, emission, c), c.block, held, LastEnd(c.block))
<1> DEFINE ppq == NotePpq(index, emission, child, c.grid)
           on == High(c.view.samples, SampleForPpq(ppq, c.view))
           v == EmitNote(w, index, child, emission, on, c)
<1>1. CASE PlayNote(w, child, index, emission, c) = w
  BY <1>1
<1>2. CASE PlayNote(w, child, index, emission, c) = v /\ OwnsPpq(ppq, c.view)
  <2>1. ppq \in Int
    BY PlacesAreSamples
  <2>2. on \in c.block.start .. BlockEnd(c.block) - 1
    BY <1>2, <2>1, OwnedStartsInside
  <2> HIDE DEF ppq, on
  <2>3. IsWalk(v)
    BY EmitKeeps, KeepsIsWalk DEF Sounds
  <2>4. /\ Notes(v, c.block, held)
        /\ \A e \in NotesOf(v.table) : e \in NotesOf(w.table) \/ e.due <= on + LongestNote
    BY <2>2, EmitPays DEF Sounds
  <2> HIDE DEF v
  <2>5. \A e \in NotesOf(v.table) : e.due <= LastEnd(c.block)
    <3>1. TAKE e \in NotesOf(v.table)
    <3>2. CASE e \in NotesOf(w.table)
      BY <3>2 DEF Sounds
    <3>3. CASE e.due <= on + LongestNote
      <4>1. e.due \in Int
        <5>1. \A i \in 1 .. Len(v.table) : v.table[i] \in Entries
          BY <2>4 DEF Notes
        <5>2. e \in Entries
          BY <5>1 DEF NotesOf
        <5>3. QED
          BY <5>2 DEF Entries
      <4>2. LongestNote \in Nat /\ BlockEnd(c.block) \in Int
        BY SequencerAssumption DEF IsSpan
      <4>3. QED
        BY <2>2, <3>3, <4>1, <4>2 DEF LastEnd, IsSpan
    <3>4. QED
      BY <2>4, <3>2, <3>3
  <2>6. QED
    BY <1>2, <2>3, <2>4, <2>5 DEF Sounds
<1>3. QED
  BY <1>1, <1>2, Zenon DEF PlayNote

(* Ending every note leaves none, whatever else is replaced. *)
LEMMA FlushSounds ==
  ASSUME NEW block, IsSpan(block), NEW held, NEW w, IsWalk(w), Notes(w, block, held),
         NEW releaseFrom \in Int, NEW last,
         NEW v, IsWalk(v), v.table = Flush(w, block, releaseFrom).table,
         v.midi = Flush(w, block, releaseFrom).midi
  PROVE  Sounds(v, block, held, last) /\ NotesOf(v.table) = {}
<1>1. /\ Notes(Flush(w, block, releaseFrom), block, held)
      /\ NotesOf(Flush(w, block, releaseFrom).table) = {}
  BY FlushPays
<1>2. Notes(v, block, held) /\ NotesOf(v.table) = {}
  BY <1>1, Zenon DEF Notes
<1>3. QED
  BY <1>2 DEF Sounds

(* and so does the switch, which ends them all, *)
LEMMA FireSounds ==
  ASSUME NEW c, IsPlayed(c), IsSpan(c.block), NEW held, NEW last, NEW w,
         Sounds(w, c.block, held, last), NEW index \in Int
  PROVE  Sounds(FireSwitch(w, index, c), c.block, held, last)
<1> DEFINE sample == High(c.view.samples, SampleForPpq(index * c.grid, c.view))
           flushed == Flush(w, c.block, sample)
           v == [flushed EXCEPT !.pattern = w.switch.pattern, !.lastFired = index,
                                !.switch = ClearedSwitch(@)]
<1>1. IsWalk(w) /\ Notes(w, c.block, held)
  BY DEF Sounds
<1>2. CASE FireSwitch(w, index, c) = w
  BY <1>2
<1>3. CASE FireSwitch(w, index, c) = v
  <2>1. sample \in Int
    <3>1. index * c.grid \in Int
      BY DEF IsPlayed
    <3>2. SampleForPpq(index * c.grid, c.view) \in Int
      BY <3>1 DEF SampleForPpq, IsPlayed, IsContext
    <3>3. QED
      BY <3>2 DEF High, IsPlayed
  <2> HIDE DEF sample
  <2>2. DOMAIN flushed = {"table", "midi", "pattern", "switch", "lastFired"}
    BY <1>1, FlushKeeps DEF Keeps
  <2> HIDE DEF flushed
  <2>3. v.table = flushed.table /\ v.midi = flushed.midi
    BY <2>2
  <2>4. IsWalk(v)
    BY <1>1, <1>3, FireOutcome
  <2> HIDE DEF v
  <2>5. Sounds(v, c.block, held, last)
    BY <1>1, <2>1, <2>3, <2>4, FlushSounds DEF flushed
  <2>6. QED
    BY <1>3, <2>5
<1>4. QED
  BY <1>2, <1>3, Zenon DEF FireSwitch

(* and a step, whatever its notes, *)
LEMMA WalkStepSounds ==
  ASSUME NEW c, IsPlayed(c), IsSpan(c.block), NEW held, NEW w,
         Sounds(w, c.block, held, LastEnd(c.block)), NEW index \in Int
  PROVE  Sounds(WalkStep(w, index, c), c.block, held, LastEnd(c.block))
<1> DEFINE fired == FireSwitch(w, index, c)
           emission == Played(w, index, c)
<1>1. Sounds(fired, c.block, held, LastEnd(c.block))
  BY FireSounds
<1>2. c.snapshot \in Snapshots /\ fired.pattern \in Patterns
  BY <1>1 DEF IsPlayed, IsContext, Sounds, IsWalk
<1>3. IsEmission(emission)
  BY <1>2, EmissionIsTyped DEF Played
<1>4. PICK n \in Nat : DOMAIN emission.notes = 1 .. n
  BY <1>3 DEF IsEmission
<1> HIDE DEF fired, emission
<1>5. PICK run : NoteFold!IsRun(run, index, emission, c, fired, Domain(emission.notes), n)
  BY <1>4, NotesRun
<1> DEFINE T == {k \in 0 .. n : Sounds(run[k], c.block, held, LastEnd(c.block))}
<1>6. 0 \in T
  <2>1. run[0] = fired
    BY <1>5 DEF NoteFold!IsRun
  <2>2. QED
    BY <1>1, <1>4, <2>1
<1>7. ASSUME NEW k \in 0 .. n - 1, k \in T PROVE k + 1 \in T
  <2>1. k + 1 \in 1 .. n /\ k + 1 \in 0 .. n /\ (k + 1) - 1 = k
    BY <1>4
  <2>2. run[k + 1] = PlayNote(run[k], Domain(emission.notes)[k + 1], index, emission, c)
    BY <1>5, <2>1 DEF NoteFold!IsRun
  <2>3. Domain(emission.notes)[k + 1] = k + 1 /\ k + 1 \in DOMAIN emission.notes
    BY <1>4, <2>1 DEF Domain
  <2>4. Sounds(run[k], c.block, held, LastEnd(c.block))
    BY <1>7
  <2> DEFINE child == k + 1
             old == run[k]
  <2> HIDE DEF T, child, old
  <2>5. Sounds(PlayNote(old, child, index, emission, c), c.block, held, LastEnd(c.block))
    <3>1. child \in DOMAIN emission.notes /\ Sounds(old, c.block, held, LastEnd(c.block))
      BY <2>3, <2>4 DEF child, old
    <3>2. QED
      BY <1>3, <3>1, PlayNoteSounds
  <2>6. Sounds(run[k + 1], c.block, held, LastEnd(c.block))
    BY <2>2, <2>3, <2>5 DEF child, old
  <2>7. QED
    BY <2>1, <2>6 DEF T
<1>8. n \in T
  <2> HIDE DEF T
  <2>1. \A k \in 0 .. n : k \in T
    BY <1>6, <1>7, NoteFold!Counting
  <2>2. QED
    BY <2>1
<1>9. WalkStep(w, index, c) = run[n]
  BY <1>5, StepIsFold DEF NoteFold!IsRun, fired, emission
<1>10. QED
  BY <1>8, <1>9

(* and the walk. *)
LEMMA WalkSounds ==
  ASSUME NEW c, IsPlayed(c), IsSpan(c.block), NEW held, NEW w,
         Sounds(w, c.block, held, LastEnd(c.block))
  PROVE  Sounds(Walk(w, c), c.block, held, LastEnd(c.block))
<1> DEFINE n == WalkLast(c) - WalkFirst(c) + 1
<1>1. n \in Nat /\ WalkFirst(c) \in Int
  BY WalkLength DEF IsPlayed
<1>2. PICK run : WalkRun(run, w, c, n)
  BY <1>1, StepsRun
<1> HIDE DEF n
<1> DEFINE T == {k \in 0 .. n : Sounds(run[k], c.block, held, LastEnd(c.block))}
<1>3. 0 \in T
  BY <1>1, <1>2 DEF WalkRun
<1>4. ASSUME NEW k \in 0 .. n - 1, k \in T PROVE k + 1 \in T
  <2> DEFINE index == WalkFirst(c) + (k + 1) - 1
             old == run[k]
  <2>1. k + 1 \in 1 .. n /\ k + 1 \in 0 .. n /\ (k + 1) - 1 = k /\ index \in Int
    BY <1>1
  <2>2. run[k + 1] = WalkStep(old, index, c)
    BY <1>2, <2>1 DEF WalkRun
  <2>3. Sounds(old, c.block, held, LastEnd(c.block))
    BY <1>4
  <2> HIDE DEF index, old, T
  <2>4. Sounds(WalkStep(old, index, c), c.block, held, LastEnd(c.block))
    BY <2>1, <2>3, WalkStepSounds
  <2>5. QED
    BY <2>1, <2>2, <2>4 DEF T
<1>5. n \in T
  <2> HIDE DEF T
  <2>1. \A k \in 0 .. n : k \in T
    BY <1>1, <1>3, <1>4, NoteFold!Counting
  <2>2. QED
    BY <1>1, <2>1
<1>6. QED
  BY <1>2, <1>5 DEF WalkRun

-----------------------------------------------------------------------------
(* What the synth hears of a tape is a fold over it, *)
Hear(held, event, x, y, z) == Heard(held, event)

HeardFold == INSTANCE Folding WITH Op <- Hear

(* event after event, *)
LEMMA HearingIsFold ==
  ASSUME NEW m, NEW held
  PROVE  FoldLeft(Heard, held, m) = HeardFold!Fold(0, 0, 0, held, m)
BY Zenon
DEF Hear, HeardFold!Fold, FoldLeft, MapThenFoldSet, Max,
    HeardFold!FoldLeft, HeardFold!MapThenFoldSet, HeardFold!Max

(* A pitch that was started, or was held, and that nothing has ended since. *)
Ringing(m, k, held, p) ==
  \/ \E i \in 1 .. k : /\ m[i].kind = "on" /\ m[i].pitch = p
                       /\ \A j \in i + 1 .. k : ~ Ends(m[j], p)
  \/ p \in held /\ \A j \in 1 .. k : ~ Ends(m[j], p)

(* so that it holds only what is owed. *)
LEMMA HeardIsOwed ==
  ASSUME NEW m \in Seq(Events), NEW held, NEW E, Owed(m, held, E)
  PROVE  \A p \in FoldLeft(Heard, held, m) : \E e \in E : e.pitch = p
<1> DEFINE n == Len(m)
<1>1. n \in Nat /\ DOMAIN m = 1 .. n /\ \A i \in 1 .. n : m[i] \in Events
  BY EventsPlaced
<1>2. PICK run : HeardFold!IsRun(run, 0, 0, 0, held, m, n)
  BY <1>1, HeardFold!FoldRuns
<1> HIDE DEF n
<1> DEFINE T == {k \in 0 .. n : \A p \in run[k] : Ringing(m, k, held, p)}
<1>3. 0 \in T
  <2>1. run[0] = held /\ 1 .. 0 = {}
    BY <1>2 DEF HeardFold!IsRun
  <2>2. \A p \in run[0] : Ringing(m, 0, held, p)
    BY <2>1 DEF Ringing
  <2>3. QED
    BY <1>1, <2>2
<1>4. ASSUME NEW k \in 0 .. n - 1, k \in T PROVE k + 1 \in T
  <2> DEFINE event == m[k + 1]
  <2>1. k + 1 \in 1 .. n /\ k + 1 \in 0 .. n /\ (k + 1) - 1 = k /\ k \in Nat
    BY <1>1
  <2>2. run[k + 1] = Heard(run[k], event) /\ event \in Events
    BY <1>1, <1>2, <2>1 DEF HeardFold!IsRun, Hear
  <2>3. event.kind \in {"on", "off", "sweep"}
    BY <2>2 DEF Events
  <2>4. ASSUME NEW p \in run[k], ~ Ends(event, p) PROVE Ringing(m, k + 1, held, p)
    <3>1. Ringing(m, k, held, p)
      BY <1>4
    <3>2. CASE \E i \in 1 .. k : /\ m[i].kind = "on" /\ m[i].pitch = p
                                 /\ \A j \in i + 1 .. k : ~ Ends(m[j], p)
      <4>1. PICK i \in 1 .. k : /\ m[i].kind = "on" /\ m[i].pitch = p
                                /\ \A j \in i + 1 .. k : ~ Ends(m[j], p)
        BY <3>2
      <4>2. i \in 1 .. k + 1 /\ \A j \in i + 1 .. k + 1 : j \in i + 1 .. k \/ j = k + 1
        BY <2>1
      <4>3. \A j \in i + 1 .. k + 1 : ~ Ends(m[j], p)
        BY <2>4, <4>1, <4>2
      <4>4. QED
        BY <4>1, <4>2, <4>3 DEF Ringing
    <3>3. CASE p \in held /\ \A j \in 1 .. k : ~ Ends(m[j], p)
      <4>1. \A j \in 1 .. k + 1 : j \in 1 .. k \/ j = k + 1
        BY <2>1
      <4>2. \A j \in 1 .. k + 1 : ~ Ends(m[j], p)
        BY <2>4, <3>3, <4>1
      <4>3. QED
        BY <3>3, <4>2 DEF Ringing
    <3>4. QED
      BY <3>1, <3>2, <3>3 DEF Ringing
  <2> HIDE DEF event
  <2>5. ASSUME NEW p \in run[k + 1] PROVE Ringing(m, k + 1, held, p)
    <3>1. CASE event.kind = "on"
      <4>1. run[k + 1] = run[k] \union {event.pitch}
        BY <2>2, <3>1 DEF Heard
      <4>2. ~ Ends(event, p)
        BY <3>1 DEF Ends
      <4>3. CASE p = event.pitch
        <5>1. k + 1 \in 1 .. k + 1 /\ (k + 1) + 1 .. k + 1 = {}
          BY <2>1
        <5>2. QED
          BY <3>1, <4>3, <5>1 DEF Ringing, event
      <4>4. QED
        BY <2>4, <4>1, <4>2, <4>3
    <3>2. CASE event.kind = "off"
      <4>1. run[k + 1] = run[k] \ {event.pitch}
        BY <2>2, <3>2 DEF Heard
      <4>2. p \in run[k] /\ ~ Ends(event, p)
        BY <3>2, <4>1 DEF Ends
      <4>3. QED
        BY <2>4, <4>2
    <3>3. CASE event.kind = "sweep"
      <4>1. run[k + 1] = {}
        BY <2>2, <3>3 DEF Heard
      <4>2. QED
        BY <4>1
    <3>4. QED
      BY <2>3, <3>1, <3>2, <3>3
  <2>6. QED
    BY <2>1, <2>5
<1>5. \A p \in run[n] : Ringing(m, n, held, p)
  <2>1. n \in T
    <3> HIDE DEF T
    <3>1. \A k \in 0 .. n : k \in T
      BY <1>1, <1>3, <1>4, HeardFold!Counting
    <3>2. QED
      BY <1>1, <3>1
  <2>2. QED
    BY <2>1
<1>6. FoldLeft(Heard, held, m) = run[n]
  BY <1>2, HearingIsFold DEF HeardFold!IsRun
<1>7. ASSUME NEW p, Ringing(m, n, held, p) PROVE \E e \in E : e.pitch = p
  <2>1. CASE \E i \in 1 .. n : /\ m[i].kind = "on" /\ m[i].pitch = p
                               /\ \A j \in i + 1 .. n : ~ Ends(m[j], p)
    <3>1. PICK i \in 1 .. n : /\ m[i].kind = "on" /\ m[i].pitch = p
                              /\ \A j \in i + 1 .. n : ~ Ends(m[j], p)
      BY <2>1
    <3>2. \A j \in 1 .. n : j > i => j \in i + 1 .. n
      BY <1>1
    <3>3. ~ EndedAfter(m, i, m[i].pitch)
      BY <3>1, <3>2 DEF EndedAfter, n
    <3>4. QED
      BY <3>1, <3>3 DEF Owed, n
  <2>2. CASE p \in held /\ \A j \in 1 .. n : ~ Ends(m[j], p)
    <3>1. ~ EndedAfter(m, 0, p)
      BY <2>2 DEF EndedAfter, n
    <3>2. QED
      BY <2>2, <3>1 DEF Owed
  <2>3. QED
    BY <1>7, <2>1, <2>2 DEF Ringing
<1>8. QED
  BY <1>5, <1>6, <1>7

-----------------------------------------------------------------------------
(* A block of the node, from a table that holds what the synth does. *)

IsLatched(view) ==
  /\ IsBlock(view) /\ PpqPerSample \in Nat \ {0}
  /\ view.samples \in Nat /\ view.length \in Nat \ {0}
  /\ view.advance = IF view.playing THEN view.length ELSE 0

IsHeld ==
  /\ table \in Seq(Entries) /\ Len(table) <= TableCapacity
  /\ \A p \in synth : \E e \in NotesOf(table) : e.pitch = p

(* The notes of the table may be continued in this block. *)
Continues(view) ==
  /\ view.stopped \/ view.jumped
       \/ \A e \in NotesOf(table) : e.due <= view.samples + LongestNote
  /\ view.playing \/ view.stopped \/ table = << >>

(* The latched block is one of the audio thread's. *)
LEMMA LatchedSpan ==
  ASSUME NEW view, IsLatched(view)
  PROVE  LET block == Span(view.samples, view.length)
         IN  /\ IsSpan(block) /\ block.start = view.samples
             /\ BlockEnd(block) = view.samples + view.length
             /\ view.samples + LongestNote <= LastEnd(block)
<1>1. LongestNote \in Nat
  BY SequencerAssumption
<1>2. QED
  BY <1>1 DEF IsLatched, Span, IsSpan, BlockEnd, LastEnd

(* A stop or a jump leaves no note; without either all end in time. *)
LEMMA SettleSounds ==
  ASSUME NEW view, IsLatched(view), IsHeld, Continues(view), NEW w, IsWalk(w),
         w.table = table, w.midi = << >>
  PROVE  LET block == Span(view.samples, view.length)
             v == HandleDiscontinuities(w, view, block)
         IN  /\ Sounds(v, block, synth, LastEnd(block))
             /\ ~ view.playing => NotesOf(v.table) = {}
<1> DEFINE block == Span(view.samples, view.length)
           flushed == Flush(w, block, view.samples)
           cut == [flushed EXCEPT !.switch.resolved = FALSE, !.lastFired = NeverFired]
           v == HandleDiscontinuities(w, view, block)
<1>1. IsSpan(block) /\ view.samples + LongestNote <= LastEnd(block)
  BY LatchedSpan
<1> HIDE DEF block
<1>2. Notes(w, block, synth)
  <2>1. << >> \in Seq(Events) /\ Len(<< >>) = 0 /\ 1 .. 0 = {}
    OBVIOUS
  <2>2. Tape(<< >>, block)
    BY <2>1 DEF Tape, Sorted
  <2>3. Owed(<< >>, synth, NotesOf(table))
    BY <2>1 DEF Owed, IsHeld
  <2>4. QED
    BY <2>2, <2>3 DEF Notes, IsHeld
<1>3. IsWalk(v)
  BY SettleOutcome
<1>4. CASE v = cut
  <2>1. DOMAIN flushed = {"table", "midi", "pattern", "switch", "lastFired"}
    BY FlushKeeps DEF Keeps
  <2> HIDE DEF flushed
  <2>2. cut.table = flushed.table /\ cut.midi = flushed.midi
    BY <2>1
  <2>3. view.samples \in Int
    BY DEF IsLatched
  <2> HIDE DEF cut, v
  <2>4. Sounds(v, block, synth, LastEnd(block)) /\ NotesOf(v.table) = {}
    BY <1>1, <1>2, <1>3, <1>4, <2>2, <2>3, FlushSounds DEF flushed
  <2>5. QED
    BY <2>4 DEF v, block
<1>5. CASE v = w /\ ~ view.stopped /\ ~ view.jumped
  <2>1. \A e \in NotesOf(table) : e.due \in Int
    <3>1. \A e \in Entries : e.due \in Int
      BY DEF Entries
    <3>2. \A e \in NotesOf(table) : e \in Entries
      BY DEF NotesOf, IsHeld
    <3>3. QED
      BY <3>1, <3>2
  <2>2. view.samples + LongestNote \in Int /\ LastEnd(block) \in Int
    BY <1>1, SequencerAssumption DEF IsLatched, IsSpan, LastEnd
  <2>3. \A e \in NotesOf(table) : e.due <= LastEnd(block)
    BY <1>1, <1>5, <2>1, <2>2 DEF Continues
  <2>4. ~ view.playing => NotesOf(table) = {}
    BY <1>5, NoNotes DEF Continues
  <2>5. QED
    BY <1>2, <1>5, <2>3, <2>4 DEF Sounds, block
<1>6. QED
  BY <1>4, <1>5, Zenon DEF HandleDiscontinuities, cut, flushed, v, block

(* The switch plays nothing when it is resolved. *)
LEMMA ResolveSounds ==
  ASSUME NEW c, IsContext(c), c.view.ppq \in Nat, NEW block, NEW held, NEW last, NEW w,
         Sounds(w, block, held, last)
  PROVE  LET v == ResolvePendingSwitch(w, c)
         IN  Sounds(v, block, held, last) /\ v.table = w.table
<1> DEFINE v == ResolvePendingSwitch(w, c)
<1>1. IsWalk(w)
  BY DEF Sounds
<1>2. IsWalk(v)
  BY <1>1, ResolveOutcome
<1>3. \A s : [w EXCEPT !.switch = s].table = w.table /\ [w EXCEPT !.switch = s].midi = w.midi
  BY <1>1 DEF IsWalk
<1>4. \A r, s : /\ [w EXCEPT !.switch.resolved = r, !.switch.step = s].table = w.table
                /\ [w EXCEPT !.switch.resolved = r, !.switch.step = s].midi = w.midi
  BY <1>1 DEF IsWalk
<1>5. v.table = w.table /\ v.midi = w.midi
  BY <1>3, <1>4, Zenon DEF ResolvePendingSwitch
<1> HIDE DEF v
<1>6. QED
  BY <1>1, <1>2, <1>5, SoundsKept DEF v

(* A block leaves what is still to end after it, and nothing when stopped.   *)
LEMMA ProcessSounds ==
  ASSUME NEW snapshot \in Snapshots \union {NoSnapshot}, NEW pattern \in Patterns,
         NEW view, IsLatched(view), IsHeld, Continues(view), switch \in Switches
  PROVE  LET block == Span(view.samples, view.length)
             v == ProcessBlock(snapshot, pattern, view)
         IN  /\ Sounds(v, block, synth, LastEnd(block))
             /\ \A e \in NotesOf(v.table) : e.due >= BlockEnd(block)
             /\ ~ view.playing => NotesOf(v.table) = {}
<1> DEFINE block == Span(view.samples, view.length)
           start == [table |-> table, midi |-> << >>, pattern |-> pattern,
                     switch |-> switch, lastFired |-> lastFired]
           settled == HandleDiscontinuities(start, view, block)
           v == ProcessBlock(snapshot, pattern, view)
           last == LastEnd(block)
<1>1. IsWalk(start) /\ start.table = table /\ start.midi = << >>
  BY DEF IsWalk
<1> HIDE DEF start
<1>2. Sounds(settled, block, synth, last) /\ (~ view.playing => NotesOf(settled.table) = {})
  BY <1>1, SettleSounds
<1>3. IsSpan(block)
  BY LatchedSpan
<1> HIDE DEF settled, block, last
<1>4. ASSUME NEW w, Sounds(w, block, synth, last)
      PROVE  LET ended == EmitDueNoteOffs(w, block)
             IN  /\ Sounds(ended, block, synth, last)
                 /\ NotesOf(ended.table) \subseteq NotesOf(w.table)
                 /\ \A e \in NotesOf(ended.table) : e.due >= BlockEnd(block)
  <2> DEFINE ended == EmitDueNoteOffs(w, block)
  <2>1. IsWalk(w) /\ Notes(w, block, synth)
    BY <1>4 DEF Sounds
  <2>2. IsWalk(ended)
    BY <2>1, EndsKeep, KeepsIsWalk
  <2>3. /\ Notes(ended, block, synth) /\ NotesOf(ended.table) \subseteq NotesOf(w.table)
        /\ \A e \in NotesOf(ended.table) : e.due >= BlockEnd(block)
    BY <1>3, <2>1, EndsPay
  <2> HIDE DEF ended
  <2>4. Sounds(ended, block, synth, last)
    BY <1>4, <2>2, <2>3 DEF Sounds
  <2>5. QED
    BY <2>3, <2>4 DEF ended
<1>5. CASE snapshot = NoSnapshot
  <2>1. v = EmitDueNoteOffs(settled, block)
    BY <1>5, Zenon DEF ProcessBlock, settled, start, block
  <2> DEFINE ended == EmitDueNoteOffs(settled, block)
  <2>2. /\ Sounds(ended, block, synth, last)
        /\ NotesOf(ended.table) \subseteq NotesOf(settled.table)
        /\ \A e \in NotesOf(ended.table) : e.due >= BlockEnd(block)
    BY <1>2, <1>4
  <2> HIDE DEF ended, v
  <2>3. /\ Sounds(v, block, synth, last)
        /\ \A e \in NotesOf(v.table) : e.due >= BlockEnd(block)
        /\ ~ view.playing => NotesOf(v.table) = {}
    BY <1>2, <2>1, <2>2 DEF ended
  <2>4. QED
    BY <2>3 DEF v, block, last
<1>6. CASE snapshot # NoSnapshot
  <2> DEFINE c == [snapshot |-> snapshot, grid |-> Grid[snapshot], view |-> view, block |-> block]
             ready == ResolvePendingSwitch(settled, c)
             walked == IF view.playing THEN Walk(ready, c) ELSE ready
             ended == EmitDueNoteOffs(walked, block)
  <2>1. v = PreFlush(ended, c)
    BY <1>6, Zenon DEF ProcessBlock, settled, start, block
  <2>2. /\ IsContext(c) /\ c.view = view /\ c.view.ppq \in Nat /\ c.block = block
        /\ c.grid = Grid[snapshot] /\ c.grid \in Nat \ {0}
    BY <1>6, SequencerAssumption DEF IsContext, IsLatched, IsBlock
  <2> HIDE DEF c
  <2>3. Sounds(ready, block, synth, last) /\ ready.table = settled.table
    BY <1>2, <2>2, ResolveSounds
  <2> HIDE DEF ready
  <2>4. Sounds(walked, block, synth, last) /\ (~ view.playing => walked = ready)
    <3>1. CASE view.playing
      <4>1. IsPlayed(c)
        BY <2>2, <3>1 DEF IsPlayed, IsLatched, block
      <4>2. Sounds(Walk(ready, c), block, synth, last)
        BY <1>3, <2>2, <2>3, <4>1, WalkSounds DEF last
      <4>3. QED
        BY <3>1, <4>2
    <3>2. CASE ~ view.playing
      BY <2>3, <3>2
    <3>3. QED
      BY <3>1, <3>2
  <2> HIDE DEF walked
  <2>5. /\ Sounds(ended, block, synth, last)
        /\ NotesOf(ended.table) \subseteq NotesOf(walked.table)
        /\ \A e \in NotesOf(ended.table) : e.due >= BlockEnd(block)
    BY <1>4, <2>4
  <2> HIDE DEF ended
  <2>6. ~ view.playing => NotesOf(ended.table) = {}
    BY <1>2, <2>3, <2>4, <2>5
  <2> DEFINE sample == SampleForPpq(ended.switch.step * c.grid, c.view)
             flushed == Flush(ended, c.block, sample)
  <2>7. v = ended \/ v = flushed
    BY <2>1, Zenon DEF PreFlush
  <2>8. CASE v = ended
    <3> HIDE DEF v
    <3>1. QED
      BY <2>5, <2>6, <2>8 DEF v, block, last
  <2>9. CASE v = flushed
    <3>1. IsWalk(ended) /\ Notes(ended, block, synth)
      BY <2>5 DEF Sounds
    <3>2. sample \in Int
      <4>1. ended.switch.step * c.grid \in Int
        BY <2>2, <3>1 DEF IsWalk, Switches
      <4>2. c.view.ppq \in Int /\ c.view.samples \in Int /\ PpqPerSample \in Nat \ {0}
        BY <2>2 DEF IsLatched
      <4>3. QED
        BY <4>1, <4>2 DEF SampleForPpq
    <3> HIDE DEF sample
    <3>3. IsWalk(flushed)
      BY <3>1, FlushKeeps, KeepsIsWalk
    <3>4. Sounds(flushed, block, synth, last) /\ NotesOf(flushed.table) = {}
      BY <1>3, <2>2, <3>1, <3>2, <3>3, FlushSounds
    <3> HIDE DEF v, flushed
    <3>5. QED
      BY <2>9, <3>4 DEF v, block, last
  <2>10. QED
    BY <2>7, <2>8, <2>9
<1>7. QED
  BY <1>5, <1>6

-----------------------------------------------------------------------------
(* The notes between renders. *)

(* What the synth holds has an entry; it ends within the longest note of the *)
(* playhead, unless a jump is about to end it; nothing is held by a          *)
(* transport that stands still, unless a stop is.                            *)
Held ==
  /\ IsHeld
  /\ \/ positionJumpEdge
     \/ \A e \in NotesOf(table) : e.due \in samplePosition .. samplePosition + LongestNote
  /\ playing \/ stopEdge \/ table = << >>
  /\ midi \in Seq(Events)
  /\ \A i \in 1 .. Len(midi) :
       midi[i].at \in latched.samples .. latched.samples + latched.length - 1

(* A render keeps it so. *)
LEMMA RenderHolds ==
  ASSUME Inductive, SwitchTypes, Held, NEW n \in BlockSizes, Render(n)
  PROVE  Held'
<1> DEFINE snapshot == activeSnapshot'
           pattern == PatternOf(snapshot)
           view == latched'
           block == Span(view.samples, view.length)
           v == ProcessBlock(snapshot, pattern, view)
<1>1. snapshot \in Snapshots \union {NoSnapshot} /\ patternSeeded' = (snapshot # NoSnapshot)
  BY DEF Render, SwitchTypes
<1>2. pattern \in Patterns
  BY <1>1, SequencerAssumption DEF PatternOf, SwitchTypes
<1>3. n \in Nat \ {0} /\ samplePosition \in Nat /\ LongestNote \in Nat
  BY BoundsAreNat, SequencerAssumption DEF Inductive, TypeOK
<1>4. /\ view.samples = samplePosition /\ view.length = n /\ view.playing = playing
      /\ view.stopped = stopEdge /\ view.jumped = positionJumpEdge
      /\ view.advance = (IF playing THEN n ELSE 0)
      /\ samplePosition' = samplePosition + (IF playing THEN n ELSE 0)
      /\ playing' = playing
  BY DEF Render, BeginBlock, View
<1>5. IsLatched(view)
  <2>1. IsBlock(view)
    BY LatchIsBlock DEF Render
  <2>2. QED
    BY <1>3, <1>4, <2>1, PositionIsNat DEF IsLatched
<1>6. Continues(view)
  BY <1>4 DEF Continues, Held
<1>7. table' = v.table /\ midi' = v.midi /\ synth' = FoldLeft(Heard, synth, v.midi)
  <2>1. (IF patternSeeded' /\ ~ patternSeeded THEN StartPattern[activeSnapshot']
         ELSE activePattern) = pattern
    BY <1>1 DEF PatternOf
  <2>2. \E after \in {ProcessBlock(activeSnapshot',
                        IF patternSeeded' /\ ~ patternSeeded THEN StartPattern[activeSnapshot']
                        ELSE activePattern, latched')} :
          table' = after.table /\ midi' = after.midi /\ synth' = FoldLeft(Heard, synth, after.midi)
    BY Zenon DEF Render
  <2> HIDE DEF pattern
  <2>3. QED
    BY <2>1, <2>2
<1>8. switch \in Switches /\ IsHeld
  BY DEF SwitchTypes, Held
<1> HIDE DEF pattern, snapshot, view
<1>9. /\ Sounds(v, block, synth, LastEnd(block))
      /\ \A e \in NotesOf(v.table) : e.due >= BlockEnd(block)
      /\ ~ view.playing => NotesOf(v.table) = {}
  BY <1>1, <1>2, <1>5, <1>6, <1>8, ProcessSounds
<1>10. /\ block.start = samplePosition /\ BlockEnd(block) = samplePosition + n
       /\ LastEnd(block) = samplePosition + n - 1 + LongestNote
  <2>1. block.start = view.samples /\ BlockEnd(block) = view.samples + view.length
    BY <1>5, LatchedSpan
  <2> HIDE DEF block
  <2>2. block.start = samplePosition /\ BlockEnd(block) = samplePosition + n
    BY <1>4, <2>1
  <2>3. QED
    BY <1>3, <2>2 DEF LastEnd
<1> HIDE DEF v, block
<1>11. v.table \in Seq(Entries) /\ Len(v.table) <= TableCapacity
       /\ v.midi \in Seq(Events) /\ Owed(v.midi, synth, NotesOf(v.table))
       /\ \A i \in 1 .. Len(v.midi) : v.midi[i].at \in block.start .. BlockEnd(block) - 1
  BY <1>9 DEF Sounds, Notes, Tape
<1>12. IsHeld'
  <2>1. \A p \in FoldLeft(Heard, synth, v.midi) : \E e \in NotesOf(v.table) : e.pitch = p
    BY <1>11, HeardIsOwed
  <2>2. NotesOf(table') = NotesOf(v.table)
    BY <1>7 DEF NotesOf
  <2>3. QED
    BY <1>7, <1>11, <2>1, <2>2 DEF IsHeld, NotesOf
<1>13. \A i \in 1 .. Len(midi') :
         midi'[i].at \in latched'.samples .. latched'.samples + latched'.length - 1
  <2>1. \A i \in 1 .. Len(v.midi) : v.midi[i].at \in samplePosition .. samplePosition + n - 1
    <3>1. block.start .. BlockEnd(block) - 1 = samplePosition .. samplePosition + n - 1
      BY <1>3, <1>10
    <3>2. QED
      BY <1>11, <3>1
  <2>2. latched'.samples = samplePosition /\ latched'.length = n
    BY <1>4 DEF view
  <2>3. QED
    BY <1>7, <2>1, <2>2
<1>14. CASE playing
  <2>1. \A e \in NotesOf(v.table) : e.due \in samplePosition' .. samplePosition' + LongestNote
    <3>1. \A e \in Entries : e.due \in Int
      BY DEF Entries
    <3>2. \A e \in NotesOf(v.table) : e.due \in Int
      BY <1>11, <3>1 DEF NotesOf
    <3>3. \A e \in NotesOf(v.table) : e.due <= LastEnd(block) /\ e.due >= BlockEnd(block)
      BY <1>9 DEF Sounds
    <3>4. samplePosition' = samplePosition + n
      BY <1>4, <1>14
    <3>5. QED
      BY <1>3, <1>10, <3>2, <3>3, <3>4
  <2>2. \A e \in NotesOf(table)' : e.due \in samplePosition' .. samplePosition' + LongestNote
    BY <1>7, <2>1 DEF NotesOf
  <2>3. QED
    BY <1>4, <1>7, <1>11, <1>12, <1>14, <1>13, <2>2 DEF Held
<1>15. CASE ~ playing
  <2>1. NotesOf(v.table) = {}
    BY <1>4, <1>9, <1>15
  <2>2. v.table = << >>
    <3>1. Len(v.table) = 0
      <4>1. Len(v.table) \in Nat
        BY <1>11
      <4>2. Len(v.table) # 0 => 1 \in 1 .. Len(v.table)
        BY <4>1
      <4>3. QED
        BY <2>1, <4>2 DEF NotesOf
    <3>2. QED
      BY <1>11, <3>1, EmptySeq
  <2>3. table' = << >> /\ NotesOf(table)' = {}
    BY <1>7, <2>1, <2>2 DEF NotesOf
  <2>4. QED
    BY <1>7, <1>11, <1>12, <1>13, <2>3 DEF Held
<1>16. QED
  BY <1>14, <1>15

(* The steps that leave the notes alone. *)
LEMMA SilentHolds ==
  ASSUME Held, UNCHANGED <<table, synth, samplePosition, positionJumpEdge, stopEdge, playing, latched>>,
         midi' = << >> \/ midi' = midi
  PROVE  Held'
<1>1. << >> \in Seq(Events) /\ Len(<< >>) = 0 /\ 1 .. 0 = {}
  OBVIOUS
<1>2. IsHeld' /\ NotesOf(table)' = NotesOf(table)
  BY DEF Held, IsHeld, NotesOf
<1>3. midi' \in Seq(Events) /\ \A i \in 1 .. Len(midi') :
        midi'[i].at \in latched.samples .. latched.samples + latched.length - 1
  BY <1>1 DEF Held
<1>4. QED
  BY <1>2, <1>3 DEF Held

(* A command of the transport moves the playhead under a jump edge, and      *)
(* stops it under a stop edge.                                               *)
LEMMA CommandHolds ==
  ASSUME Held, TransportCommand
  PROVE  Held'
<1>1. << >> \in Seq(Events) /\ Len(<< >>) = 0 /\ 1 .. 0 = {}
  OBVIOUS
<1>2. table' = table /\ synth' = synth /\ midi' = << >> /\ latched' = latched /\ Command
  BY DEF TransportCommand, Command
<1>3. IsHeld' /\ NotesOf(table)' = NotesOf(table)
  BY <1>2 DEF Held, IsHeld, NotesOf
<1>4. /\ \/ positionJumpEdge'
         \/ samplePosition' = samplePosition /\ positionJumpEdge' = positionJumpEdge
      /\ playing' \/ stopEdge' \/ (playing' = playing /\ stopEdge' = stopEdge)
  <2>1. CASE TransportPlay
    BY <2>1, Zenon DEF TransportPlay, clockVars
  <2>2. CASE TransportStop
    <3>1. positionJumpEdge' /\ stopEdge'
      BY <2>2 DEF TransportStop
    <3>2. QED
      BY <3>1, Zenon
  <2>3. ASSUME NEW target \in LocateTargets, TransportLocate(target)
        PROVE  /\ \/ positionJumpEdge'
                  \/ samplePosition' = samplePosition /\ positionJumpEdge' = positionJumpEdge
               /\ playing' = playing /\ stopEdge' = stopEdge
    BY <2>3, Zenon DEF TransportLocate, clockVars
  <2>4. ASSUME NEW newBpm \in TempoRequests, SetTempo(newBpm)
        PROVE  /\ samplePosition' = samplePosition /\ positionJumpEdge' = positionJumpEdge
               /\ playing' = playing /\ stopEdge' = stopEdge
    BY <2>4, Zenon DEF SetTempo
  <2>5. QED
    <3>1. \/ TransportPlay \/ TransportStop
          \/ \E target \in LocateTargets : TransportLocate(target)
          \/ \E newBpm \in TempoRequests : SetTempo(newBpm)
      BY <1>2, Zenon DEF Command
    <3>2. CASE \E target \in LocateTargets : TransportLocate(target)
      BY <2>3, <3>2, Zenon
    <3>3. CASE \E newBpm \in TempoRequests : SetTempo(newBpm)
      BY <2>4, <3>3, Zenon
    <3>4. QED
      BY <2>1, <2>2, <3>1, <3>2, <3>3, Zenon
<1>5. \/ positionJumpEdge'
      \/ \A e \in NotesOf(table)' : e.due \in samplePosition' .. samplePosition' + LongestNote
  BY <1>3, <1>4 DEF Held
<1>6. playing' \/ stopEdge' \/ table' = << >>
  BY <1>2, <1>4 DEF Held
<1>7. midi' \in Seq(Events) /\ \A i \in 1 .. Len(midi') :
        midi'[i].at \in latched'.samples .. latched'.samples + latched'.length - 1
  BY <1>1, <1>2
<1>8. QED
  BY <1>3, <1>5, <1>6, <1>7 DEF Held

(* Empty tables hold nothing. *)
LEMMA SilenceHolds ==
  /\ table = << >> /\ synth = {} /\ midi = << >> => Held
  /\ table' = << >> /\ synth' = {} /\ midi' = << >> => Held'
<1>1. << >> \in Seq(Events) /\ Len(<< >>) = 0 /\ 1 .. 0 = {} /\ 0 <= TableCapacity
  BY SequencerAssumption
<1>2. ASSUME table = << >>, synth = {}, midi = << >> PROVE Held
  BY <1>1, <1>2, NoNotes DEF Held, IsHeld
<1>3. ASSUME table' = << >>, synth' = {}, midi' = << >> PROVE Held'
  <2>1. NotesOf(table)' = {}
    BY <1>3, NoNotes DEF NotesOf
  <2>2. QED
    BY <1>1, <1>3, <2>1, NoNotes DEF Held, IsHeld
<1>4. QED
  BY <1>2, <1>3

(* Every step of the node keeps the notes well, *)
LEMMA HeldStep == Inductive /\ SwitchTypes /\ Held /\ [SeqNext]_vars => Held'
<1> SUFFICES ASSUME Inductive, SwitchTypes, Held, [SeqNext]_vars PROVE Held'
  OBVIOUS
<1>1. ASSUME NEW snapshot \in Snapshots, Publish(snapshot) PROVE Held'
  BY <1>1, SilentHolds DEF Publish, transportVars
<1>2. ASSUME NEW pattern \in Requests, NEW quantize \in Quantizes,
             QueuePatternSwitch(pattern, quantize)
      PROVE  Held'
  BY <1>2, SilentHolds DEF QueuePatternSwitch
<1>3. CASE SetFillHeld
  BY <1>3, SilentHolds DEF SetFillHeld
<1>4. ASSUME NEW rate \in Rates, DeviceRestart(rate) PROVE Held'
  BY <1>4, SilenceHolds DEF DeviceRestart
<1>5. CASE UNCHANGED vars
  BY <1>5, SilentHolds DEF vars, transportVars, sequencerVars
<1>6. QED
  BY <1>1, <1>2, <1>3, <1>4, <1>5, CommandHolds, RenderHolds DEF SeqNext

(* and so they are always. *)
LEMMA AlwaysHeld == SeqSpec => []Held
<1>1. SeqInit => Held
  BY SilenceHolds DEF SeqInit
<1>2. QED
  BY <1>1, HeldStep, ClockAlwaysInductive, AlwaysTypes, PTL DEF SeqSpec

(* No note hangs, at any grid, tempo, rate and size of block, through every  *)
(* stop, jump, switch, edit and restart: what the synth holds after a render *)
(* has an entry that ends it within the longest note, and a transport that   *)
(* stands still holds nothing.                                               *)
THEOREM NoNoteHangs == SeqSpec => []NoHungNote
<1>1. Inductive /\ Held => NoHungNote
  <2> SUFFICES ASSUME Inductive, Held, ~ draining PROVE NoHungNote
    BY DEF NoHungNote
  <2>1. ~ stopEdge /\ ~ positionJumpEdge
    BY DEF Inductive, NoEdgeWaits
  <2>2. /\ \A p \in synth : \E e \in NotesOf(table) : e.pitch = p
        /\ \A e \in NotesOf(table) : e.due \in samplePosition .. samplePosition + LongestNote
        /\ table \in Seq(Entries) /\ DOMAIN table = 1 .. Len(table)
        /\ playing \/ table = << >>
    BY <2>1 DEF Held, IsHeld
  <2>3. \A p \in synth : \E i \in DOMAIN table :
          table[i].pitch = p /\ table[i].due \in samplePosition .. samplePosition + LongestNote
    BY <2>2 DEF NotesOf
  <2>4. ~ playing => synth = {} /\ table = << >>
    BY <2>2, NoNotes
  <2>5. QED
    BY <2>3, <2>4 DEF NoHungNote
<1>2. QED
  BY <1>1, ClockAlwaysInductive, AlwaysHeld, PTL

(* Every variable of the node stays in its range: the table never holds more *)
(* than its capacity, each entry ends no earlier than it starts, and every   *)
(* event lies in the block that renders it.                                  *)
THEOREM SeqTypeCorrect == SeqSpec => []SeqTypeOK
<1>1. Inductive /\ SwitchTypes /\ Held => SeqTypeOK
  <2> SUFFICES ASSUME Inductive, SwitchTypes, Held PROVE SeqTypeOK
    OBVIOUS
  <2>1. switch.pattern \in Patterns /\ switch.quantize \in Modes
    BY DEF SwitchTypes, Switches
  <2>2. \A i \in DOMAIN table : table[i].on <= table[i].due
    <3>1. \A e \in Entries : e.on <= e.due
      BY DEF Entries
    <3>2. \A i \in DOMAIN table : table[i] \in Entries
      BY DEF Held, IsHeld
    <3>3. QED
      BY <3>1, <3>2
  <2>3. \A i \in DOMAIN midi : midi[i].at \in latched.samples .. latched.samples + latched.length - 1
    <3>1. DOMAIN midi = 1 .. Len(midi)
      BY DEF Held
    <3>2. QED
      BY <3>1 DEF Held
  <2>4. TypeOK /\ Len(table) <= TableCapacity
    BY DEF Inductive, Held, IsHeld
  <2>5. QED
    BY <2>1, <2>2, <2>3, <2>4 DEF SeqTypeOK, SwitchTypes
<1>2. QED
  BY <1>1, ClockAlwaysInductive, AlwaysTypes, AlwaysHeld, PTL

-----------------------------------------------------------------------------
(* The gap between a note and the next onset of its pitch. *)

(* Rounding down: its bounds, *)
LEMMA DivBounds ==
  ASSUME NEW a \in Int, NEW s \in Nat \ {0}
  PROVE  a \div s \in Int /\ (a \div s) * s <= a /\ a < (a \div s + 1) * s
OBVIOUS

(* and its order. *)
LEMMA DivOrder ==
  ASSUME NEW a \in Int, NEW b \in Int, NEW s \in Nat \ {0}, a <= b
  PROVE  a \div s <= b \div s
<1> DEFINE x == a \div s
           y == b \div s
<1>1. /\ x \in Int /\ x * s <= a /\ y \in Int /\ b < (y + 1) * s
      /\ x * s \in Int /\ (y + 1) * s \in Int
  BY DivBounds
<1> HIDE DEF x, y
<1>2. x * s < (y + 1) * s
  BY <1>1
<1>3. x < y + 1
  BY <1>1, <1>2, Order
<1>4. QED
  BY <1>1, <1>3 DEF x, y

(* What lies whole steps apart rounds so many apart. *)
LEMMA DivShift ==
  ASSUME NEW a \in Int, NEW k \in Int, NEW s \in Nat \ {0}
  PROVE  (a - k * s) \div s = (a \div s) - k
<1> DEFINE b == a - k * s
           x == a \div s
           y == b \div s
<1>1. b \in Int /\ k * s \in Int
  OBVIOUS
<1>2. x \in Int /\ x * s <= a /\ a < (x + 1) * s /\ y \in Int /\ y * s <= b /\ b < (y + 1) * s
  BY <1>1, DivBounds
<1> HIDE DEF x, y
<1>3. (y + k) * s = y * s + k * s /\ ((y + k) + 1) * s = (y + 1) * s + k * s
  BY <1>2
<1>4. (y + k) * s \in Int /\ ((y + k) + 1) * s \in Int /\ x * s \in Int /\ (x + 1) * s \in Int
      /\ y * s \in Int /\ (y + 1) * s \in Int
  BY <1>2
<1>5. (y + k) * s < (x + 1) * s /\ x * s < ((y + k) + 1) * s
  BY <1>1, <1>2, <1>3, <1>4
<1>6. y + k < x + 1 /\ x < (y + k) + 1
  <2>1. y + k \in Int /\ x + 1 \in Int /\ (y + k) + 1 \in Int
    BY <1>2
  <2>2. QED
    BY <1>2, <1>5, <2>1, Order
<1>7. y = x - k
  BY <1>2, <1>6
<1>8. QED
  BY <1>7 DEF x, y, b

(* A product with the greater factor is no less. *)
LEMMA OrderWeak ==
  ASSUME NEW i \in Int, NEW j \in Int, NEW g \in Nat, i <= j
  PROVE  i * g \in Int /\ j * g \in Int /\ i * g <= j * g
OBVIOUS

(* A note looks ahead as many steps as it lasts and one more, seven at most. *)
LEMMA LookaheadReaches ==
  ASSUME NEW reach \in Int, NEW grid \in Nat \ {0}, PpqPerSample \in Nat \ {0},
         grid \div PpqPerSample >= 1, reach > -(grid \div PpqPerSample)
  PROVE  LET ahead == Lookahead(reach, grid)
         IN  /\ ahead \in Int
             /\ ahead = 7 \/ reach < (ahead - 1) * (grid \div PpqPerSample)
<1> DEFINE stepSamples == grid \div PpqPerSample
           x == TruncDiv(reach, stepSamples)
           ahead == Lookahead(reach, grid)
<1>1. stepSamples \in Nat \ {0}
  OBVIOUS
<1>2. reach > -stepSamples
  OBVIOUS
<1>3. ahead = High(1, Low(7, x + 2))
  BY DEF Lookahead, MaxLookahead
<1> HIDE DEF stepSamples, ahead
<1>4. x \in Nat /\ reach < (x + 1) * stepSamples
  <2>1. CASE reach >= 0
    <3>1. x = reach \div stepSamples
      BY <2>1 DEF TruncDiv
    <3>2. x \in Nat
      BY <1>1, <2>1, <3>1
    <3>3. QED
      BY <1>1, <3>1, <3>2, DivBounds
  <2>2. CASE reach < 0
    <3>1. -reach \in 0 .. stepSamples - 1
      BY <1>1, <1>2, <2>2
    <3>2. \A a \in 0 .. stepSamples - 1 : a \div stepSamples = 0
      BY <1>1
    <3>3. x = 0
      BY <2>2, <3>1, <3>2 DEF TruncDiv
    <3>4. QED
      BY <1>1, <2>2, <3>3
  <2>3. QED
    BY <2>1, <2>2
<1> HIDE DEF x
<1>5. CASE 7 < x + 2
  BY <1>3, <1>4, <1>5 DEF High, Low, ahead
<1>6. CASE ~ 7 < x + 2
  <2>1. ahead = x + 2
    BY <1>3, <1>4, <1>6 DEF High, Low
  <2>2. ahead - 1 = x + 1 /\ ahead \in Int
    BY <1>4, <2>1
  <2>3. QED
    BY <1>4, <2>2 DEF ahead, stepSamples
<1>7. QED
  BY <1>5, <1>6

(* A note whose step begins at b starts at p, at most half a step before it  *)
(* and a step and a half after it; it lasts no more than four steps. What    *)
(* starts more steps away than it looks ahead starts when it has ended.      *)
LEMMA FarOnset ==
  ASSUME NEW g \in Nat \ {0}, NEW s \in Nat \ {0}, s <= g, PpqPerSample = s,
         NEW b \in Int, NEW p \in Int, NEW q \in Int, NEW d \in Int, NEW lasts \in Int,
         2 * p >= 2 * b - g, 2 * p <= 2 * b + 3 * g - 2,
         2 * q >= 2 * b + 2 * (d * g) - g,
         lasts >= 1, lasts = 1 \/ 2 * (lasts * s) <= 8 * g + s,
         d > Lookahead((p \div s) + lasts - (b \div s), g)
  PROVE  q \div s > (p \div s) + lasts
<1> DEFINE P == p \div s
           Q == q \div s
           B == b \div s
           ss == g \div s
           reach == P + lasts - B
           ahead == Lookahead(reach, g)
<1>1. /\ P \in Int /\ P * s <= p /\ p < (P + 1) * s
      /\ Q \in Int /\ Q * s <= q /\ q < (Q + 1) * s
      /\ B \in Int /\ B * s <= b /\ b < (B + 1) * s
      /\ ss \in Int /\ ss * s <= g /\ g < (ss + 1) * s
  BY DivBounds
<1>2. ss >= 1
  <2>1. s \div s = 1
    OBVIOUS
  <2>2. QED
    BY <2>1, DivOrder
<1>3. d > ahead
  OBVIOUS
<1> HIDE DEF P, Q, B, ss, ahead
<1>4. reach \in Int /\ reach + B = P + lasts
  BY <1>1
<1>5. reach > -ss
  <2>1. SUFFICES ASSUME reach <= -ss PROVE FALSE
    BY <1>1, <1>4
  <2>2. P + 1 <= B + (-ss)
    BY <1>1, <1>4, <2>1
  <2>3. (P + 1) * s <= (B + (-ss)) * s /\ (B + (-ss)) * s \in Int /\ (P + 1) * s \in Int
    <3>1. P + 1 \in Int /\ B + (-ss) \in Int
      BY <1>1
    <3>2. QED
      BY <2>2, <3>1, OrderWeak
  <2>4. (B + (-ss)) * s = (B * s) - (ss * s) /\ B * s \in Int /\ ss * s \in Int
    BY <1>1
  <2>5. p < b - (ss * s)
    BY <1>1, <2>3, <2>4
  <2>6. (ss + 1) * s = ss * s + s /\ ss * s >= s
    BY <1>1, <1>2
  <2>7. g < 2 * (ss * s)
    BY <1>1, <2>4, <2>6
  <2>8. QED
    BY <2>4, <2>5, <2>7
<1>6. ahead \in Int /\ (ahead = 7 \/ reach < (ahead - 1) * ss)
  BY <1>2, <1>4, <1>5, LookaheadReaches DEF ss, ahead
<1> HIDE DEF reach
<1>7. SUFFICES ASSUME Q <= P + lasts PROVE FALSE
  BY <1>1 DEF P, Q
<1>8. CASE ahead = 7
  <2>1. d * g \in Int /\ d * g >= 8 * g
    <3>1. 8 \in Int /\ 8 <= d
      BY <1>3, <1>8
    <3>2. QED
      BY <3>1, OrderWeak
  <2>2. q - p >= 6 * g + 1
    BY <2>1
  <2>3. (Q + 1) * s <= (P + (lasts + 1)) * s
    <3>1. Q + 1 \in Int /\ P + (lasts + 1) \in Int /\ Q + 1 <= P + (lasts + 1)
      BY <1>1, <1>7
    <3>2. QED
      BY <3>1, OrderWeak
  <2>4. (P + (lasts + 1)) * s = P * s + (lasts * s + s)
    BY <1>1
  <2>5. P * s \in Int /\ lasts * s \in Int /\ (Q + 1) * s \in Int
    BY <1>1
  <2>6. 6 * g + 1 < lasts * s + s
    BY <1>1, <2>2, <2>3, <2>4, <2>5
  <2>7. CASE lasts = 1
    BY <2>6, <2>7
  <2>8. CASE 2 * (lasts * s) <= 8 * g + s
    BY <2>5, <2>6, <2>8
  <2>9. QED
    BY <2>7, <2>8
<1>9. CASE reach < (ahead - 1) * ss
  <2> DEFINE a == ahead - 1
  <2>1. a \in Int /\ d >= a + 2 /\ reach < a * ss
    BY <1>3, <1>6, <1>9
  <2> HIDE DEF a
  <2>2. d * g >= (a + 2) * g /\ d * g \in Int
    <3>1. a + 2 \in Int
      BY <2>1
    <3>2. QED
      BY <2>1, <3>1, OrderWeak
  <2>3. (a + 2) * g = a * g + 2 * g /\ a * g \in Int
    BY <2>1
  <2>4. q - b > a * g
    BY <2>2, <2>3
  <2>5. a * ss \in Int /\ Q + 1 <= B + (a * ss)
    BY <1>1, <1>4, <1>7, <2>1
  <2>6. (Q + 1) * s <= (B + (a * ss)) * s /\ (Q + 1) * s \in Int
    <3>1. Q + 1 \in Int /\ B + (a * ss) \in Int
      BY <1>1, <2>5
    <3>2. QED
      BY <2>5, <3>1, OrderWeak
  <2>7. (B + (a * ss)) * s = B * s + a * (ss * s) /\ B * s \in Int /\ ss * s \in Int
    BY <1>1, <2>1
  <2>8. a * (ss * s) <= a * g
    <3>1. a >= 0
      <4>1. a < 0 => a * ss <= -ss
        BY <1>1, <1>2, <2>1
      <4>2. QED
        BY <1>1, <1>4, <1>5, <2>1, <2>5, <4>1
    <3>2. a \in Nat
      BY <2>1, <3>1
    <3>3. (ss * s) * a <= g * a
      BY <1>1, <2>7, <3>2, OrderWeak
    <3>4. QED
      BY <2>1, <2>7, <3>3
  <2>9. a * (ss * s) \in Int
    BY <2>1, <2>7
  <2>10. QED
    BY <1>1, <2>3, <2>4, <2>6, <2>7, <2>8, <2>9
<1>10. QED
  BY <1>6, <1>8, <1>9

-----------------------------------------------------------------------------
(* A step as it is laid on the grid. *)
IsLaid(step, grid) ==
  /\ 2 * step.shift \in -grid .. grid
  /\ \A i \in DOMAIN step.notes : step.notes[i].position < grid
  /\ \A i, j \in DOMAIN step.notes :
       i <= j => step.notes[i].position <= step.notes[j].position

(* The steps the evaluator makes (StepEvaluation, NotesFit): a step is moved *)
(* by at most half its length, its notes lie in it in their order, a note    *)
(* lasts four steps at most, and a step is at least a sample long.           *)
NotesLieInSteps ==
  \A s \in Snapshots :
    /\ LongestNote <= 4 * Grid[s]
    /\ \A b \in Bpms, r \in Rates : b \div r <= Grid[s]
    /\ \A p \in Patterns : \A k \in DOMAIN Steps[s][p] : IsLaid(Steps[s][p][k], Grid[s])

(* A step that is left out has no notes and one that is not is as it is. *)
LEMMA EmissionIsLaid ==
  ASSUME NotesLieInSteps, NEW snapshot \in Snapshots, NEW pattern \in Patterns,
         NEW index \in Int, NEW fill
  PROVE  IsLaid(EvaluateStep(snapshot, pattern, index, fill), Grid[snapshot])
<1> DEFINE cycle == Steps[snapshot][pattern]
           grid == Grid[snapshot]
<1>1. IsCycle(cycle) /\ grid \in Nat \ {0}
  BY SequencerAssumption
<1>2. \A k \in DOMAIN cycle : IsLaid(cycle[k], grid)
  BY DEF NotesLieInSteps
<1> HIDE DEF cycle, grid
<1>3. index % Len(cycle) \in 0 .. Len(cycle) - 1 /\ Len(cycle) \in Nat
  BY <1>1 DEF IsCycle
<1>4. 1 + (index % Len(cycle)) \in DOMAIN cycle
  BY <1>1, <1>3 DEF IsCycle
<1>5. PICK k \in DOMAIN cycle : StepAt(snapshot, pattern, index) = cycle[k]
  BY <1>4 DEF StepAt, cycle
<1>6. IsLaid([shift |-> 0, notes |-> << >>], grid)
  <2>1. DOMAIN << >> = {} /\ 2 * 0 \in -grid .. grid
    BY <1>1
  <2>2. QED
    BY <2>1 DEF IsLaid
<1>7. \/ EvaluateStep(snapshot, pattern, index, fill) = cycle[k]
      \/ EvaluateStep(snapshot, pattern, index, fill) = [shift |-> 0, notes |-> << >>]
  BY <1>5, Zenon DEF EvaluateStep
<1>8. QED
  BY <1>2, <1>6, <1>7 DEF grid

(* A note starts at most half a step before its step and less than one and a *)
(* half after it.                                                            *)
LEMMA NoteIsNear ==
  ASSUME NEW g \in Nat \ {0}, NEW emission, IsEmission(emission), IsLaid(emission, g),
         NEW index \in Int, NEW child \in DOMAIN emission.notes
  PROVE  LET ppq == NotePpq(index, emission, child, g)
         IN  /\ ppq \in Int
             /\ 2 * ppq >= 2 * (index * g) - g
             /\ 2 * ppq <= 2 * (index * g) + 3 * g - 2
<1> DEFINE shift == emission.shift
           position == emission.notes[child].position
<1>1. /\ shift \in Int /\ 2 * shift \in -g .. g
      /\ position \in Nat /\ position < g
  BY DEF IsEmission, IsLaid
<1>2. index * g \in Int
  OBVIOUS
<1>3. NotePpq(index, emission, child, g) = (index * g + shift) + position
  BY DEF NotePpq
<1> HIDE DEF shift, position
<1>4. QED
  BY <1>1, <1>2, <1>3

(* and lasts at most four steps. *)
LEMMA NoteLasts ==
  ASSUME NEW g \in Nat \ {0}, NEW s \in Nat \ {0}, NEW length \in Nat, length <= 4 * g
  PROVE  LET lasts == High(1, RoundedSample(length, s))
         IN  lasts \in Int /\ lasts >= 1 /\ (lasts = 1 \/ 2 * (lasts * s) <= 8 * g + s)
<1> DEFINE q == RoundedSample(length, s)
<1>1. q \in Nat
  BY RoundedIsNat
<1>2. q * (2 * s) <= 2 * length + s
  <2>1. 2 * length + s \in Int /\ 2 * s \in Nat \ {0}
    OBVIOUS
  <2>2. QED
    BY <2>1, DivBounds DEF RoundedSample
<1> HIDE DEF q
<1>3. q * (2 * s) = 2 * (q * s) /\ q * s \in Int
  BY <1>1
<1>4. 2 * (q * s) <= 8 * g + s
  BY <1>2, <1>3
<1>5. High(1, q) = q \/ High(1, q) = 1
  BY DEF High
<1>6. High(1, q) >= 1
  BY <1>1 DEF High
<1>7. QED
  BY <1>1, <1>4, <1>5, <1>6 DEF q

(* The steps among which the onset that ends a note is sought: none before a *)
(* switch that has landed nor at or after one that will.                     *)
InPlay(w, index) ==
  index >= w.lastFired /\ (w.switch.resolved => index < w.switch.step)

(* No onset of its pitch that is sought falls into a note behind its first   *)
(* sample.                                                                   *)
LEMMA SoughtOnsetEnds ==
  ASSUME NEW w, IsWalk(w), NEW c, IsPlayed(c), NEW emission, IsEmission(emission), NEW o,
         o.index \in Int, o.lookahead \in Int, o.on \in Int, o.due \in Int, o.on <= o.due,
         emission = EvaluateStep(c.snapshot, w.pattern, o.index, fillHeld),
         NEW index \in o.index - 1 .. o.index + o.lookahead, InPlay(w, index),
         NEW heard, heard = EvaluateStep(c.snapshot, w.pattern, index, fillHeld),
         NEW child \in DOMAIN heard.notes, index = o.index => child > o.child,
         heard.notes[child].pitch = o.pitch
  PROVE  SampleForPpq(NotePpq(index, heard, child, c.grid), c.view)
           \notin o.on + 1 .. CutoffForSamePitch(w, o, emission, c)
<1> DEFINE Predicted(i) ==
             IF i = o.index THEN emission
             ELSE EvaluateStep(c.snapshot, w.pattern, i, fillHeld)
           Scanned ==
             {i \in o.index - 1 .. o.index + o.lookahead :
                /\ i > o.index /\ w.switch.resolved => i < w.switch.step
                /\ i < o.index => i >= w.lastFired}
           Candidates(i) ==
             {k \in DOMAIN Predicted(i).notes :
                /\ i = o.index => k > o.child
                /\ Predicted(i).notes[k].pitch = o.pitch}
           Onsets ==
             UNION {{SampleForPpq(NotePpq(i, Predicted(i), k, c.grid), c.view) :
                       k \in Candidates(i)} : i \in Scanned}
           Cutting == {s \in Onsets : s > o.on /\ s - 1 < o.due}
           due == CutoffForSamePitch(w, o, emission, c)
           sample == SampleForPpq(NotePpq(index, heard, child, c.grid), c.view)
<1>1. due = IF Cutting = {} THEN o.due ELSE High(o.on, Min(Cutting) - 1)
  BY Zenon DEF CutoffForSamePitch
<1>2. Predicted(index) = heard
  BY Zenon
<1>3. index \in Scanned
  BY Zenon DEF InPlay
<1>4. ASSUME NEW i \in Scanned PROVE i \in Int /\ IsEmission(Predicted(i))
  <2>1. i \in Int
    OBVIOUS
  <2>2. c.snapshot \in Snapshots /\ w.pattern \in Patterns
    BY DEF IsPlayed, IsContext, IsWalk
  <2>3. IsEmission(EvaluateStep(c.snapshot, w.pattern, i, fillHeld))
    BY <2>1, <2>2, EmissionIsTyped
  <2>4. QED
    BY <2>1, <2>3
<1> HIDE DEF Predicted, Scanned, due
<1>5. child \in Candidates(index)
  BY <1>2, Zenon
<1>6. Onsets \subseteq Int
  <2>1. ASSUME NEW i \in Scanned, NEW k \in Candidates(i)
        PROVE  SampleForPpq(NotePpq(i, Predicted(i), k, c.grid), c.view) \in Int
    BY <1>4, PlacesAreSamples
  <2> HIDE DEF Candidates
  <2>2. QED
    BY <2>1
<1>7. sample \in Onsets
  <2> HIDE DEF Candidates
  <2>1. sample = SampleForPpq(NotePpq(index, Predicted(index), child, c.grid), c.view)
    BY <1>2, Zenon
  <2> HIDE DEF sample
  <2>2. QED
    BY <1>3, <1>5, <2>1
<1> HIDE DEF Onsets, sample
<1>8. sample \in Int
  BY <1>6, <1>7
<1>9. SUFFICES ASSUME sample > o.on, sample <= due PROVE FALSE
  BY <1>8 DEF sample, due
<1>10. CASE Cutting = {}
  <2>1. due = o.due
    BY <1>1, <1>10
  <2>2. sample - 1 < o.due
    BY <1>8, <1>9, <2>1
  <2>3. QED
    BY <1>7, <1>9, <1>10, <2>2
<1>11. CASE Cutting # {}
  <2> DEFINE least == Min(Cutting)
  <2>1. Cutting \in SUBSET Int /\ \A s \in Cutting : s > o.on
    BY <1>6
  <2>2. least \in Cutting /\ \A s \in Cutting : least <= s
    BY <1>11, <2>1, MinIsMember
  <2>4. least \in Int /\ least > o.on /\ least - 1 < o.due
    BY <2>1, <2>2
  <2>5. due = High(o.on, least - 1)
    BY <1>1, <1>11
  <2>6. sample \in Cutting => least <= sample
    BY <2>2
  <2>7. sample - 1 < o.due => sample \in Cutting
    BY <1>7, <1>9
  <2> HIDE DEF least, Cutting
  <2>8. due = least - 1
    BY <2>4, <2>5 DEF High
  <2>9. QED
    BY <1>8, <1>9, <2>4, <2>6, <2>7, <2>8
<1>12. QED
  BY <1>10, <1>11

-----------------------------------------------------------------------------
(* No onset of its pitch that is in play falls into a note behind its first  *)
(* sample, seen from a block at so many ticks a sample.                      *)
SampleAt(ppq, view, step) == view.samples + (ppq - view.ppq) \div step

IsClear(e, w, snapshot, view, fill, step) ==
  \A index \in Int : InPlay(w, index) =>
    LET heard == EvaluateStep(snapshot, w.pattern, index, fill)
    IN  \A child \in DOMAIN heard.notes :
          heard.notes[child].pitch = e.pitch =>
            SampleAt(NotePpq(index, heard, child, Grid[snapshot]), view, step)
              \notin e.on + 1 .. e.due

Spaced(w, snapshot, view, fill, step) ==
  \A e \in NotesOf(w.table) : IsClear(e, w, snapshot, view, fill, step)

(* The block is one of a render whose steps are at least a sample long. *)
IsFine(c) == IsPlayed(c) /\ PpqPerSample <= c.grid

(* An earlier position falls on no later a sample. *)
LEMMA SamplesInOrder ==
  ASSUME NEW c, IsPlayed(c), NEW p \in Int, NEW q \in Int, q <= p
  PROVE  SampleForPpq(q, c.view) <= SampleForPpq(p, c.view)
<1>1. c.view.ppq \in Int /\ c.view.samples \in Int /\ PpqPerSample \in Nat \ {0}
  BY DEF IsPlayed, IsContext
<1> DEFINE P == p - c.view.ppq
           Q == q - c.view.ppq
<1>2. P \in Int /\ Q \in Int /\ Q <= P
  BY <1>1
<1> HIDE DEF P, Q
<1>3. Q \div PpqPerSample <= P \div PpqPerSample
  BY <1>1, <1>2, DivOrder
<1>4. Q \div PpqPerSample \in Int /\ P \div PpqPerSample \in Int
  BY <1>1, <1>2, DivBounds
<1>5. QED
  BY <1>1, <1>3, <1>4 DEF SampleForPpq, P, Q

(* What starts further ahead than a note looks starts when it has ended. *)
LEMMA FarOnsetIsLater ==
  ASSUME NotesLieInSteps, NEW c, IsFine(c), NEW index \in Int,
         NEW emission, IsEmission(emission), IsLaid(emission, c.grid),
         NEW child \in DOMAIN emission.notes, NEW natural,
         natural = SampleForPpq(NotePpq(index, emission, child, c.grid), c.view)
                     + High(1, RoundedSample(emission.notes[child].length, PpqPerSample)),
         NEW far \in Int,
         far > index + Lookahead(natural - SampleForPpq(index * c.grid, c.view), c.grid),
         NEW heard, IsEmission(heard), IsLaid(heard, c.grid), NEW k \in DOMAIN heard.notes
  PROVE  SampleForPpq(NotePpq(far, heard, k, c.grid), c.view) > natural
<1> DEFINE g == c.grid
           s == PpqPerSample
           start == c.view.ppq
           V == c.view.samples
           ppq == NotePpq(index, emission, child, g)
           onset == NotePpq(far, heard, k, g)
           b == index * g - start
           p == ppq - start
           q == onset - start
           d == far - index
           length == emission.notes[child].length
           lasts == High(1, RoundedSample(length, s))
<1>1. /\ g \in Nat \ {0} /\ s \in Nat \ {0} /\ s <= g
      /\ start \in Int /\ V \in Int
  BY DEF IsFine, IsPlayed, IsContext
<1>2. /\ ppq \in Int /\ 2 * ppq >= 2 * (index * g) - g /\ 2 * ppq <= 2 * (index * g) + 3 * g - 2
      /\ onset \in Int /\ 2 * onset >= 2 * (far * g) - g
  BY <1>1, NoteIsNear
<1>3. length \in Nat /\ length <= 4 * g
  <2>1. length \in 0 .. LongestNote
    BY DEF IsEmission
  <2>2. LongestNote <= 4 * g
    BY DEF NotesLieInSteps, IsFine, IsPlayed, IsContext
  <2>3. LongestNote \in Nat
    BY SequencerAssumption
  <2> HIDE DEF g, length
  <2>4. QED
    BY <1>1, <2>1, <2>2, <2>3
<1>4. lasts \in Int /\ lasts >= 1 /\ (lasts = 1 \/ 2 * (lasts * s) <= 8 * g + s)
  BY <1>1, <1>3, NoteLasts
<1>5. /\ SampleForPpq(ppq, c.view) = V + p \div s
      /\ SampleForPpq(onset, c.view) = V + q \div s
      /\ SampleForPpq(index * g, c.view) = V + b \div s
      /\ natural = SampleForPpq(ppq, c.view) + lasts
      /\ far > index + Lookahead(natural - SampleForPpq(index * g, c.view), g)
  BY DEF SampleForPpq
<1>6. d \in Int /\ far = index + d
  OBVIOUS
<1> HIDE DEF ppq, onset, lasts, d, g
<1>7. far * g = index * g + d * g /\ index * g \in Int /\ d * g \in Int
  BY <1>1, <1>6
<1>8. b \in Int /\ p \in Int /\ q \in Int
  BY <1>1, <1>2, <1>7
<1>9. /\ 2 * p >= 2 * b - g /\ 2 * p <= 2 * b + 3 * g - 2
      /\ 2 * q >= 2 * b + 2 * (d * g) - g
  BY <1>1, <1>2, <1>7
<1> HIDE DEF p, q, b
<1>10. p \div s \in Int /\ q \div s \in Int /\ b \div s \in Int
  BY <1>1, <1>8, DivBounds
<1> DEFINE N == p \div s
           Q == q \div s
           B == b \div s
<1> HIDE DEF s, N, Q, B
<1>11. natural = V + N + lasts /\ natural - SampleForPpq(index * g, c.view) = N + lasts - B
  BY <1>1, <1>4, <1>5, <1>10 DEF N, B
<1>12. d > Lookahead(N + lasts - B, g)
  <2>1. g \in Nat \ {0} /\ PpqPerSample \in Nat \ {0} /\ N + lasts - B \in Int
    BY <1>1, <1>4, <1>10 DEF s, N, B
  <2>2. Lookahead(N + lasts - B, g) \in Int
    BY <2>1, LookaheadIsInt
  <2> DEFINE ahead == Lookahead(N + lasts - B, g)
  <2>3. far > index + ahead
    BY <1>5, <1>11
  <2> HIDE DEF ahead
  <2>4. d > ahead
    BY <1>6, <2>2, <2>3 DEF ahead
  <2>5. QED
    BY <2>4 DEF ahead
<1>13. q \div s > (p \div s) + lasts
  <2>1. PpqPerSample = s
    BY DEF s
  <2>2. d > Lookahead((p \div s) + lasts - (b \div s), g)
    BY <1>12 DEF N, B
  <2>3. QED
    BY <1>1, <1>4, <1>6, <1>8, <1>9, <2>1, <2>2, FarOnset
<1>14. V + Q > natural
  BY <1>1, <1>4, <1>10, <1>11, <1>13 DEF N, Q
<1>15. QED
  BY <1>5, <1>14 DEF Q, onset, g

(* A note is cut clear of every onset in play: those before it start no      *)
(* later, the others are sought or start when it has ended.                  *)
LEMMA CutIsClear ==
  ASSUME NotesLieInSteps, NEW c, IsFine(c), NEW w, IsWalk(w), NEW index \in Int,
         NEW emission, emission = EvaluateStep(c.snapshot, w.pattern, index, fillHeld),
         NEW child \in DOMAIN emission.notes, NEW on, NEW natural, NEW o,
         on = SampleForPpq(NotePpq(index, emission, child, c.grid), c.view),
         natural = on + High(1, RoundedSample(emission.notes[child].length, PpqPerSample)),
         o = [index |-> index, child |-> child, pitch |-> emission.notes[child].pitch,
              on |-> on, due |-> natural,
              lookahead |-> Lookahead(natural - SampleForPpq(index * c.grid, c.view), c.grid)]
  PROVE  IsClear(Entry(emission.notes[child].pitch, on, CutoffForSamePitch(w, o, emission, c)),
                 w, c.snapshot, c.view, fillHeld, PpqPerSample)
<1> DEFINE pitch == emission.notes[child].pitch
           due == CutoffForSamePitch(w, o, emission, c)
           ahead == Lookahead(natural - SampleForPpq(index * c.grid, c.view), c.grid)
           e == Entry(pitch, on, due)
<1>1. /\ IsPlayed(c) /\ c.snapshot \in Snapshots /\ w.pattern \in Patterns
      /\ c.grid = Grid[c.snapshot] /\ c.grid \in Nat \ {0} /\ PpqPerSample \in Nat \ {0}
  BY DEF IsFine, IsPlayed, IsContext, IsWalk
<1>2. IsEmission(emission) /\ IsLaid(emission, c.grid)
  BY <1>1, EmissionIsTyped, EmissionIsLaid
<1>3. NotePpq(index, emission, child, c.grid) \in Int /\ on \in Int
  BY <1>1, <1>2, PlacesAreSamples
<1>4. natural \in Int /\ on <= natural
  <2> DEFINE lasts == High(1, RoundedSample(emission.notes[child].length, PpqPerSample))
  <2>1. lasts \in 1 .. LongestNote
    BY <1>1, <1>2, LengthInSamples DEF IsEmission
  <2>2. lasts \in Int /\ lasts >= 1
    BY <2>1, SequencerAssumption
  <2> HIDE DEF lasts
  <2>3. natural = on + lasts
    BY DEF lasts
  <2>4. QED
    BY <1>3, <2>2, <2>3
<1>5. ahead \in Int
  <2>1. index * c.grid \in Int
    BY <1>1
  <2>2. SampleForPpq(index * c.grid, c.view) \in Int
    BY <1>1, <2>1 DEF SampleForPpq, IsPlayed, IsContext
  <2>3. QED
    BY <1>1, <1>4, <2>2, LookaheadIsInt
<1>6. /\ o.index = index /\ o.child = child /\ o.pitch = pitch /\ o.on = on /\ o.due = natural
      /\ o.lookahead = ahead
  OBVIOUS
<1> HIDE DEF ahead, due
<1>7. due \in on .. natural
  BY <1>1, <1>2, <1>3, <1>4, <1>5, <1>6, CutoffInRange DEF due
<1>8. e.pitch = pitch /\ e.on = on /\ e.due = due
  BY DEF Entry
<1> HIDE DEF e
<1>9. ASSUME NEW j \in Int, InPlay(w, j), NEW heard,
             heard = EvaluateStep(c.snapshot, w.pattern, j, fillHeld),
             NEW k \in DOMAIN heard.notes, heard.notes[k].pitch = pitch
      PROVE  SampleForPpq(NotePpq(j, heard, k, c.grid), c.view) \notin on + 1 .. due
  <2> DEFINE onset == NotePpq(j, heard, k, c.grid)
             ppq == NotePpq(index, emission, child, c.grid)
             sample == SampleForPpq(onset, c.view)
  <2>1. IsEmission(heard) /\ IsLaid(heard, c.grid)
    BY <1>1, <1>9, EmissionIsTyped, EmissionIsLaid
  <2>2. onset \in Int /\ sample \in Int
    BY <1>1, <2>1, PlacesAreSamples
  <2>3. /\ 2 * ppq >= 2 * (index * c.grid) - c.grid
        /\ 2 * onset <= 2 * (j * c.grid) + 3 * c.grid - 2
    BY <1>1, <1>2, <2>1, NoteIsNear
  <2>4. onset <= ppq => sample <= on
    BY <1>1, <1>3, <2>2, SamplesInOrder
  <2>5. CASE j <= index - 2
    <3>1. (j + 2) * c.grid <= index * c.grid
      <4>1. j + 2 \in Int /\ j + 2 <= index
        BY <2>5
      <4>2. QED
        BY <1>1, <4>1, OrderWeak
    <3>2. (j + 2) * c.grid = j * c.grid + 2 * c.grid /\ j * c.grid \in Int /\ index * c.grid \in Int
      <4>1. \A g \in Nat \ {0} : /\ (j + 2) * g = j * g + 2 * g
                               /\ j * g \in Int /\ index * g \in Int
        OBVIOUS
      <4>2. QED
        BY <1>1, <4>1
    <3> HIDE DEF onset, ppq, sample
    <3>3. ppq \in Int
      BY <1>3 DEF ppq
    <3>4. onset <= ppq
      BY <1>1, <2>2, <2>3, <3>1, <3>2, <3>3
    <3>5. QED
      BY <1>3, <2>2, <2>4, <3>4 DEF sample, onset
  <2>6. CASE j = index /\ ~ k > child
    <3>1. heard = emission
      BY <1>9, <2>6
    <3>2. k \in Nat /\ child \in Nat
      BY <1>2, <3>1 DEF IsEmission
    <3>3. k <= child
      BY <2>6, <3>2
    <3>4. /\ emission.notes[k].position <= emission.notes[child].position
          /\ emission.notes[k].position \in Nat /\ emission.notes[child].position \in Nat
          /\ emission.shift \in Int
      BY <1>2, <3>1, <3>3 DEF IsLaid, IsEmission
    <3>5. index * c.grid \in Int
      BY <1>1
    <3>6. onset <= ppq
      BY <2>6, <3>1, <3>4, <3>5 DEF NotePpq
    <3> HIDE DEF onset, ppq, sample
    <3>7. QED
      BY <1>3, <2>2, <2>4, <3>6 DEF sample, onset
  <2>7. CASE j \in index - 1 .. index + ahead /\ (j = index => k > child)
    <3>1. j \in o.index - 1 .. o.index + o.lookahead /\ (j = o.index => k > o.child)
      BY <1>6, <2>7
    <3> HIDE DEF onset, ppq, sample, pitch
    <3>2. SampleForPpq(NotePpq(j, heard, k, c.grid), c.view)
            \notin o.on + 1 .. CutoffForSamePitch(w, o, emission, c)
      BY <1>1, <1>2, <1>3, <1>4, <1>5, <1>6, <1>9, <3>1, SoughtOnsetEnds
    <3>3. QED
      BY <1>6, <3>2 DEF due
  <2>8. CASE j > index + ahead
    <3>1. sample > natural
      BY <1>2, <2>1, <2>8, FarOnsetIsLater DEF ahead
    <3> HIDE DEF sample
    <3>2. QED
      BY <1>3, <1>4, <1>7, <2>2, <3>1 DEF sample
  <2>9. j <= index - 2 \/ j \in index - 1 .. index + ahead \/ j > index + ahead
    BY <1>5
  <2>10. QED
    BY <2>5, <2>6, <2>7, <2>8, <2>9
<1>10. ASSUME NEW j \in Int, InPlay(w, j), NEW heard,
              heard = EvaluateStep(c.snapshot, w.pattern, j, fillHeld),
              NEW k \in DOMAIN heard.notes, heard.notes[k].pitch = e.pitch
       PROVE  SampleAt(NotePpq(j, heard, k, Grid[c.snapshot]), c.view, PpqPerSample)
                \notin e.on + 1 .. e.due
  BY <1>1, <1>8, <1>9, <1>10 DEF SampleAt, SampleForPpq
<1>11. QED
  BY <1>10 DEF IsClear, e, due

(* Of the entries of a longer table all but the last are those of the table. *)
LEMMA NotesAppended ==
  ASSUME NEW t \in Seq(Entries), NEW e
  PROVE  \A x \in NotesOf(Append(t, e)) : x \in NotesOf(t) \/ x = e
<1> DEFINE S == Entries \union {e}
           a == Append(t, e)
<1>1. t \in Seq(S) /\ e \in S
  BY SeqMonotonic
<1> HIDE DEF S
<1>2. /\ Len(a) = Len(t) + 1 /\ Len(t) \in Nat /\ a[Len(t) + 1] = e
      /\ \A i \in 1 .. Len(t) : a[i] = t[i]
  BY <1>1
<1> HIDE DEF a
<1>3. QED
  BY <1>2 DEF NotesOf, a

(* Playing a note adds at most one entry, which is clear.                    *)
LEMMA EmitSpaced ==
  ASSUME NotesLieInSteps, NEW c, IsFine(c), IsSpan(c.block), NEW held, NEW w, IsWalk(w),
         Notes(w, c.block, held), Spaced(w, c.snapshot, c.view, fillHeld, PpqPerSample),
         NEW index \in Int,
         NEW emission, emission = EvaluateStep(c.snapshot, w.pattern, index, fillHeld),
         NEW child \in DOMAIN emission.notes, NEW on,
         on = SampleForPpq(NotePpq(index, emission, child, c.grid), c.view)
  PROVE  LET v == EmitNote(w, index, child, emission, on, c)
         IN  \A e \in NotesOf(v.table) : IsClear(e, w, c.snapshot, c.view, fillHeld, PpqPerSample)
<1> DEFINE pitch == emission.notes[child].pitch
           length == emission.notes[child].length
           existing == FindStartedAtOrBefore(w.table, pitch, on)
           cap == IF w.table[existing].due <= on THEN on ELSE on - 1
           retired == IF existing = 0 THEN w ELSE RetireNoLaterThan(w, existing, cap, c.block)
           natural == on + High(1, RoundedSample(length, PpqPerSample))
           reach == natural - SampleForPpq(index * c.grid, c.view)
           o == [index |-> index, child |-> child, pitch |-> pitch, on |-> on, due |-> natural,
                 lookahead |-> Lookahead(reach, c.grid)]
           due == CutoffForSamePitch(w, o, emission, c)
           entry == Entry(pitch, on, due)
           event == Event("on", pitch, on)
           added == [retired EXCEPT !.table = Append(@, entry), !.midi = AddEvent(@, event)]
           v == EmitNote(w, index, child, emission, on, c)
<1>1. v = IF ~ CanAdd(retired.table) THEN retired ELSE added
  BY Zenon DEF EmitNote
<1>2. IsClear(entry, w, c.snapshot, c.view, fillHeld, PpqPerSample)
  BY CutIsClear
<1>3. on \in Int
  <2>1. IsPlayed(c) /\ c.snapshot \in Snapshots /\ w.pattern \in Patterns
    BY DEF IsFine, IsPlayed, IsContext, IsWalk
  <2>2. QED
    BY <2>1, EmissionIsTyped, PlacesAreSamples
<1> HIDE DEF natural, reach, o, due, entry, length
<1>4. /\ IsWalk(retired) /\ Notes(retired, c.block, held)
      /\ NotesOf(retired.table) \subseteq NotesOf(w.table)
  <2>1. existing \in 0 .. Len(w.table)
    BY <1>3, FoundIsEntry DEF Notes
  <2>2. CASE existing = 0
    BY <2>2
  <2>3. CASE existing # 0
    <3>1. existing \in 1 .. Len(w.table) /\ cap \in Int
      BY <1>3, <2>1, <2>3 DEF Notes
    <3> HIDE DEF existing, cap
    <3>2. IsWalk(RetireNoLaterThan(w, existing, cap, c.block))
      BY RetireKeeps, KeepsIsWalk
    <3>3. QED
      BY <2>3, <3>1, <3>2, RetirePays
  <2>4. QED
    BY <2>2, <2>3
<1> HIDE DEF retired, existing
<1>5. CASE ~ CanAdd(retired.table)
  BY <1>1, <1>4, <1>5 DEF Spaced
<1>6. CASE CanAdd(retired.table)
  <2>1. v.table = Append(retired.table, entry)
    BY <1>1, <1>4, <1>6 DEF IsWalk
  <2> HIDE DEF v, added
  <2>2. \A e \in NotesOf(v.table) : e \in NotesOf(retired.table) \/ e = entry
    BY <1>4, <2>1, NotesAppended DEF Notes
  <2>3. QED
    BY <1>2, <1>4, <2>2 DEF v, Spaced
<1>7. QED
  BY <1>5, <1>6

(* What is clear for a walk is clear for one that keeps its switch, *)
LEMMA ClearKept ==
  \A w, v, e, snapshot, view, fill, step :
    Keeps(w, v) /\ IsClear(e, w, snapshot, view, fill, step)
      => IsClear(e, v, snapshot, view, fill, step)
<1>1. SUFFICES ASSUME NEW w, NEW v, NEW e, NEW snapshot, NEW view, NEW fill, NEW step,
                      Keeps(w, v), IsClear(e, w, snapshot, view, fill, step)
               PROVE  IsClear(e, v, snapshot, view, fill, step)
  OBVIOUS
<1>2. v.pattern = w.pattern /\ v.switch = w.switch /\ v.lastFired = w.lastFired
  BY <1>1 DEF Keeps
<1>3. \A index \in Int : InPlay(v, index) => InPlay(w, index)
  BY <1>2 DEF InPlay
<1>4. QED
  BY <1>1, <1>2, <1>3 DEF IsClear

(* so that notes taken from a table leave the others clear, *)
LEMMA SpacedLess ==
  \A w, v, snapshot, view, fill, step :
    /\ Keeps(w, v) /\ NotesOf(v.table) \subseteq NotesOf(w.table)
    /\ Spaced(w, snapshot, view, fill, step)
    => Spaced(v, snapshot, view, fill, step)
  BY ClearKept DEF Spaced

(* and no notes are clear. *)
LEMMA SpacedNone ==
  \A w, snapshot, view, fill, step :
    NotesOf(w.table) = {} => Spaced(w, snapshot, view, fill, step)
  BY DEF Spaced

(* A walk whose notes are owed and clear. *)
Plays(w, c, held) ==
  /\ Sounds(w, c.block, held, LastEnd(c.block))
  /\ Spaced(w, c.snapshot, c.view, fillHeld, PpqPerSample)

(* The onset of a note the block owns is not moved into it. *)
LEMMA OwnedOnset ==
  ASSUME NEW c, IsPlayed(c), NEW ppq \in Int, OwnsPpq(ppq, c.view)
  PROVE  High(c.view.samples, SampleForPpq(ppq, c.view)) = SampleForPpq(ppq, c.view)
<1>1. c.view.ppq \in Int /\ c.view.samples \in Int /\ PpqPerSample \in Nat \ {0}
  BY DEF IsPlayed, IsContext
<1>2. ppq - c.view.ppq \in Nat
  BY <1>1 DEF OwnsPpq
<1>3. (ppq - c.view.ppq) \div PpqPerSample \in Nat
  BY <1>1, <1>2
<1>4. QED
  BY <1>1, <1>3 DEF SampleForPpq, High

(* A note of a step, *)
LEMMA PlayNotePlays ==
  ASSUME NotesLieInSteps, NEW c, IsFine(c), IsSpan(c.block), NEW held, NEW w, Plays(w, c, held),
         NEW index \in Int,
         NEW emission, emission = EvaluateStep(c.snapshot, w.pattern, index, fillHeld),
         NEW child \in DOMAIN emission.notes
  PROVE  Plays(PlayNote(w, child, index, emission, c), c, held)
<1> DEFINE ppq == NotePpq(index, emission, child, c.grid)
           on == High(c.view.samples, SampleForPpq(ppq, c.view))
           v == PlayNote(w, child, index, emission, c)
<1>1. IsPlayed(c) /\ IsWalk(w) /\ Notes(w, c.block, held) /\ IsEmission(emission)
  <2>1. IsPlayed(c) /\ IsWalk(w) /\ Notes(w, c.block, held)
    BY DEF IsFine, Plays, Sounds
  <2>2. QED
    BY <2>1, EmissionIsTyped DEF IsPlayed, IsContext, IsWalk
<1>2. Sounds(v, c.block, held, LastEnd(c.block))
  BY <1>1, PlayNoteSounds DEF Plays
<1>3. Keeps(w, v)
  BY <1>1, PlayNoteKeeps
<1>4. CASE v = w
  BY <1>4
<1>5. CASE v = EmitNote(w, index, child, emission, on, c) /\ OwnsPpq(ppq, c.view)
  <2>1. on = SampleForPpq(ppq, c.view)
    BY <1>1, <1>5, OwnedOnset, PlacesAreSamples
  <2> HIDE DEF on
  <2>2. Spaced(w, c.snapshot, c.view, fillHeld, PpqPerSample)
    BY DEF Plays
  <2>3. \A e \in NotesOf(EmitNote(w, index, child, emission, on, c).table) :
          IsClear(e, w, c.snapshot, c.view, fillHeld, PpqPerSample)
    BY <1>1, <2>1, <2>2, EmitSpaced
  <2> HIDE DEF v
  <2>4. \A e \in NotesOf(v.table) : IsClear(e, w, c.snapshot, c.view, fillHeld, PpqPerSample)
    BY <1>5, <2>3
  <2>5. Spaced(v, c.snapshot, c.view, fillHeld, PpqPerSample)
    BY <1>3, <2>4, ClearKept DEF Spaced
  <2>6. QED
    BY <1>2, <2>5 DEF Plays, v
<1>6. QED
  BY <1>4, <1>5, Zenon DEF PlayNote

(* the switch, *)
LEMMA FirePlays ==
  ASSUME NEW c, IsPlayed(c), IsSpan(c.block), NEW held, NEW w, Plays(w, c, held),
         NEW index \in Int
  PROVE  Plays(FireSwitch(w, index, c), c, held)
<1> DEFINE v == FireSwitch(w, index, c)
           sample == High(c.view.samples, SampleForPpq(index * c.grid, c.view))
           flushed == Flush(w, c.block, sample)
           landed == [flushed EXCEPT !.pattern = w.switch.pattern, !.lastFired = index,
                                     !.switch = ClearedSwitch(@)]
<1>1. IsWalk(w) /\ Sounds(v, c.block, held, LastEnd(c.block))
  BY FireSounds DEF Plays, Sounds
<1>2. CASE v = w
  BY <1>2
<1>3. CASE v = landed
  <2>1. flushed.table = << >> /\ DOMAIN flushed = {"table", "midi", "pattern", "switch", "lastFired"}
    BY <1>1, FlushIsFold, FlushKeeps DEF Keeps
  <2> HIDE DEF flushed
  <2>2. landed.table = << >>
    BY <2>1
  <2> HIDE DEF landed, v
  <2>3. NotesOf(v.table) = {}
    BY <1>3, <2>2, NoNotes
  <2>4. QED
    BY <1>1, <2>3, SpacedNone DEF Plays, v
<1>4. QED
  BY <1>2, <1>3, Zenon DEF FireSwitch

(* a step, *)
LEMMA WalkStepPlays ==
  ASSUME NotesLieInSteps, NEW c, IsFine(c), IsSpan(c.block), NEW held, NEW w, Plays(w, c, held),
         NEW index \in Int
  PROVE  Plays(WalkStep(w, index, c), c, held)
<1> DEFINE fired == FireSwitch(w, index, c)
           emission == Played(w, index, c)
<1>1. IsPlayed(c) /\ c.snapshot \in Snapshots
  BY DEF IsFine, IsPlayed, IsContext
<1>2. Plays(fired, c, held)
  BY <1>1, FirePlays
<1>3. IsWalk(fired) /\ fired.pattern \in Patterns
  BY <1>2 DEF Plays, Sounds, IsWalk
<1>4. emission = EvaluateStep(c.snapshot, fired.pattern, index, fillHeld)
  BY DEF Played
<1>5. IsEmission(emission)
  BY <1>1, <1>3, <1>4, EmissionIsTyped
<1>6. PICK n \in Nat : DOMAIN emission.notes = 1 .. n
  BY <1>5 DEF IsEmission
<1> HIDE DEF fired, emission
<1>7. PICK run : NoteFold!IsRun(run, index, emission, c, fired, Domain(emission.notes), n)
  BY <1>6, NotesRun
<1> DEFINE T == {k \in 0 .. n : Plays(run[k], c, held) /\ run[k].pattern = fired.pattern}
<1>8. 0 \in T
  <2>1. run[0] = fired
    BY <1>7 DEF NoteFold!IsRun
  <2>2. QED
    BY <1>2, <1>6, <2>1
<1>9. ASSUME NEW k \in 0 .. n - 1, k \in T PROVE k + 1 \in T
  <2>1. k + 1 \in 1 .. n /\ k + 1 \in 0 .. n /\ (k + 1) - 1 = k
    BY <1>6
  <2>2. run[k + 1] = PlayNote(run[k], Domain(emission.notes)[k + 1], index, emission, c)
    BY <1>7, <2>1 DEF NoteFold!IsRun
  <2>3. Domain(emission.notes)[k + 1] = k + 1 /\ k + 1 \in DOMAIN emission.notes
    BY <1>6, <2>1 DEF Domain
  <2>4. Plays(run[k], c, held) /\ run[k].pattern = fired.pattern
    BY <1>9
  <2> DEFINE child == k + 1
             old == run[k]
             new == run[k + 1]
  <2> HIDE DEF T, child, old, new
  <2>5. child \in DOMAIN emission.notes /\ Plays(old, c, held) /\ old.pattern = fired.pattern
        /\ new = PlayNote(old, child, index, emission, c)
    BY <2>2, <2>3, <2>4 DEF child, old, new
  <2>6. emission = EvaluateStep(c.snapshot, old.pattern, index, fillHeld)
    BY <1>4, <2>5
  <2>7. Plays(new, c, held)
    BY <2>5, <2>6, PlayNotePlays
  <2>8. new.pattern = fired.pattern
    <3>1. IsWalk(old)
      BY <2>5 DEF Plays, Sounds
    <3>2. QED
      BY <2>5, <3>1, PlayNoteKeeps DEF Keeps
  <2>9. QED
    BY <2>1, <2>7, <2>8 DEF T, new
<1>10. n \in T
  <2> HIDE DEF T
  <2>1. \A k \in 0 .. n : k \in T
    BY <1>8, <1>9, NoteFold!Counting
  <2>2. QED
    BY <2>1
<1>11. WalkStep(w, index, c) = run[n]
  BY <1>7, StepIsFold DEF NoteFold!IsRun, fired, emission
<1>12. QED
  BY <1>10, <1>11

(* and the walk keep the notes clear. *)
LEMMA WalkPlays ==
  ASSUME NotesLieInSteps, NEW c, IsFine(c), IsSpan(c.block), NEW held, NEW w, Plays(w, c, held)
  PROVE  Plays(Walk(w, c), c, held)
<1> DEFINE n == WalkLast(c) - WalkFirst(c) + 1
<1>1. n \in Nat /\ WalkFirst(c) \in Int
  BY WalkLength DEF IsFine, IsPlayed
<1>2. PICK run : WalkRun(run, w, c, n)
  BY <1>1, StepsRun
<1> HIDE DEF n
<1> DEFINE T == {k \in 0 .. n : Plays(run[k], c, held)}
<1>3. 0 \in T
  BY <1>1, <1>2 DEF WalkRun
<1>4. ASSUME NEW k \in 0 .. n - 1, k \in T PROVE k + 1 \in T
  <2> DEFINE index == WalkFirst(c) + (k + 1) - 1
             old == run[k]
  <2>1. k + 1 \in 1 .. n /\ k + 1 \in 0 .. n /\ (k + 1) - 1 = k /\ index \in Int
    BY <1>1
  <2>2. run[k + 1] = WalkStep(old, index, c)
    BY <1>2, <2>1 DEF WalkRun
  <2>3. Plays(old, c, held)
    BY <1>4
  <2> HIDE DEF T, index, old
  <2>4. Plays(WalkStep(old, index, c), c, held)
    BY <2>1, <2>3, WalkStepPlays
  <2>5. QED
    BY <2>1, <2>2, <2>4 DEF T
<1>5. n \in T
  <2> HIDE DEF T
  <2>1. \A k \in 0 .. n : k \in T
    BY <1>1, <1>3, <1>4, NoteFold!Counting
  <2>2. QED
    BY <1>1, <2>1
<1>6. QED
  BY <1>2, <1>5 DEF WalkRun

(* A switch that is resolved puts fewer steps in play. *)
LEMMA ResolveSpaced ==
  ASSUME NEW w, IsWalk(w), NEW c, IsContext(c), c.view.ppq \in Nat,
         NEW snapshot, NEW view, NEW fill, NEW step, Spaced(w, snapshot, view, fill, step)
  PROVE  Spaced(ResolvePendingSwitch(w, c), snapshot, view, fill, step)
<1> DEFINE v == ResolvePendingSwitch(w, c)
<1>1. CASE w.switch.resolved
  BY <1>1 DEF ResolvePendingSwitch
<1>2. CASE ~ w.switch.resolved
  <2>1. v.pattern = w.pattern
    BY ResolveOutcome
  <2>2. \A s : /\ [w EXCEPT !.switch = s].table = w.table
               /\ [w EXCEPT !.switch = s].lastFired = w.lastFired
    BY DEF IsWalk
  <2>3. \A r, s : /\ [w EXCEPT !.switch.resolved = r, !.switch.step = s].table = w.table
                  /\ [w EXCEPT !.switch.resolved = r, !.switch.step = s].lastFired = w.lastFired
    BY DEF IsWalk
  <2>4. v.table = w.table /\ v.lastFired = w.lastFired
    BY <2>2, <2>3, Zenon DEF ResolvePendingSwitch
  <2> HIDE DEF v
  <2>5. \A index \in Int : InPlay(v, index) => InPlay(w, index)
    BY <1>2, <2>4 DEF InPlay
  <2>6. \A e : IsClear(e, w, snapshot, view, fill, step) => IsClear(e, v, snapshot, view, fill, step)
    BY <2>1, <2>5 DEF IsClear
  <2>7. QED
    BY <2>4, <2>6 DEF Spaced, v
<1>3. QED
  BY <1>1, <1>2

(* A stop or a jump leaves no notes, and without either they stay as they    *)
(* are.                                                                      *)
LEMMA SettleSpaced ==
  ASSUME NEW view, NEW block, NEW w, IsWalk(w), NEW snapshot, NEW fill, NEW step,
         view.jumped \/ Spaced(w, snapshot, view, fill, step)
  PROVE  LET v == HandleDiscontinuities(w, view, block)
         IN  /\ Spaced(v, snapshot, view, fill, step)
             /\ NotesOf(v.table) \subseteq NotesOf(w.table)
<1> DEFINE flushed == Flush(w, block, view.samples)
           cut == [flushed EXCEPT !.switch.resolved = FALSE, !.lastFired = NeverFired]
           v == HandleDiscontinuities(w, view, block)
<1>1. CASE v = cut
  <2>1. flushed.table = << >> /\ DOMAIN flushed = {"table", "midi", "pattern", "switch", "lastFired"}
    BY FlushIsFold, FlushKeeps DEF Keeps
  <2> HIDE DEF flushed
  <2>2. cut.table = << >>
    BY <2>1
  <2> HIDE DEF cut, v
  <2>3. NotesOf(v.table) = {}
    BY <1>1, <2>2, NoNotes
  <2>4. QED
    BY <2>3, SpacedNone DEF v
<1>2. CASE v = w /\ ~ view.jumped
  BY <1>2
<1>3. QED
  BY <1>1, <1>2, Zenon DEF HandleDiscontinuities, cut, flushed, v

(* A block leaves the notes clear of the onsets to come. *)
LEMMA ProcessSpaced ==
  ASSUME NotesLieInSteps, NEW snapshot \in Snapshots \union {NoSnapshot}, NEW pattern \in Patterns,
         NEW view, IsLatched(view), IsHeld, Continues(view), switch \in Switches,
         \A s \in Snapshots : PpqPerSample <= Grid[s],
         NEW start, start = [table |-> table, midi |-> << >>, pattern |-> pattern,
                             switch |-> switch, lastFired |-> lastFired],
         view.jumped \/ Spaced(start, snapshot, view, fillHeld, PpqPerSample)
  PROVE  LET v == ProcessBlock(snapshot, pattern, view)
         IN  /\ Spaced(v, snapshot, view, fillHeld, PpqPerSample)
             /\ snapshot = NoSnapshot => NotesOf(v.table) \subseteq NotesOf(table)
<1> DEFINE block == Span(view.samples, view.length)
           settled == HandleDiscontinuities(start, view, block)
           v == ProcessBlock(snapshot, pattern, view)
           last == LastEnd(block)
           Clear(w) == Spaced(w, snapshot, view, fillHeld, PpqPerSample)
<1>1. IsWalk(start) /\ start.table = table /\ start.midi = << >>
  BY DEF IsWalk
<1>2. Sounds(settled, block, synth, last)
  BY <1>1, SettleSounds
<1>3. Clear(settled) /\ NotesOf(settled.table) \subseteq NotesOf(table)
  BY <1>1, SettleSpaced
<1>4. IsSpan(block)
  BY LatchedSpan
<1> HIDE DEF settled, block, last
<1>5. ASSUME NEW w, Sounds(w, block, synth, last), Clear(w)
      PROVE  LET ended == EmitDueNoteOffs(w, block)
             IN  /\ IsWalk(ended) /\ Clear(ended)
                 /\ NotesOf(ended.table) \subseteq NotesOf(w.table)
  <2> DEFINE ended == EmitDueNoteOffs(w, block)
  <2>1. IsWalk(w) /\ Notes(w, block, synth)
    BY <1>5 DEF Sounds
  <2>2. Keeps(w, ended) /\ NotesOf(ended.table) \subseteq NotesOf(w.table)
    BY <1>4, <2>1, EndsKeep, EndsPay
  <2> HIDE DEF ended
  <2>3. QED
    BY <1>5, <2>1, <2>2, KeepsIsWalk, SpacedLess DEF ended
<1>6. CASE snapshot = NoSnapshot
  <2>1. v = EmitDueNoteOffs(settled, block)
    BY <1>6, Zenon DEF ProcessBlock, settled, block
  <2> HIDE DEF v, Clear
  <2>2. Clear(v) /\ NotesOf(v.table) \subseteq NotesOf(table)
    BY <1>2, <1>3, <1>5, <2>1
  <2>3. QED
    BY <2>2 DEF v, Clear
<1>7. CASE snapshot # NoSnapshot
  <2> DEFINE c == [snapshot |-> snapshot, grid |-> Grid[snapshot], view |-> view, block |-> block]
             ready == ResolvePendingSwitch(settled, c)
             walked == IF view.playing THEN Walk(ready, c) ELSE ready
             ended == EmitDueNoteOffs(walked, block)
  <2>1. v = PreFlush(ended, c)
    BY <1>7, Zenon DEF ProcessBlock, settled, block
  <2>2. /\ IsContext(c) /\ c.view = view /\ c.view.ppq \in Nat /\ c.block = block
        /\ c.snapshot = snapshot /\ c.grid = Grid[snapshot] /\ c.grid \in Nat \ {0}
        /\ PpqPerSample <= c.grid
    BY <1>7, SequencerAssumption DEF IsContext, IsLatched, IsBlock
  <2> HIDE DEF c
  <2>3. Sounds(ready, block, synth, last)
    BY <1>2, <2>2, ResolveSounds
  <2>4. Clear(ready)
    BY <1>2, <1>3, <2>2, ResolveSpaced DEF Sounds
  <2> HIDE DEF ready
  <2>5. Sounds(walked, block, synth, last) /\ Clear(walked)
    <3>1. CASE view.playing
      <4>1. IsFine(c)
        BY <2>2, <3>1 DEF IsFine, IsPlayed, IsLatched, block
      <4>2. Plays(ready, c, synth)
        BY <2>2, <2>3, <2>4 DEF Plays, last
      <4>3. Plays(Walk(ready, c), c, synth)
        BY <1>4, <2>2, <4>1, <4>2, WalkPlays
      <4>4. QED
        BY <2>2, <3>1, <4>3 DEF Plays, last
    <3>2. CASE ~ view.playing
      BY <2>3, <2>4, <3>2
    <3>3. QED
      BY <3>1, <3>2
  <2> HIDE DEF walked
  <2>6. IsWalk(ended) /\ Clear(ended)
    BY <1>5, <2>5
  <2> HIDE DEF ended
  <2> DEFINE sample == SampleForPpq(ended.switch.step * c.grid, c.view)
             flushed == Flush(ended, c.block, sample)
  <2>7. v = ended \/ v = flushed
    BY <2>1, Zenon DEF PreFlush
  <2>8. Clear(flushed)
    <3>1. flushed.table = << >>
      BY <2>6, FlushIsFold
    <3> HIDE DEF flushed
    <3>2. QED
      BY <3>1, NoNotes, SpacedNone
  <2> HIDE DEF v, flushed, Clear
  <2>9. QED
    BY <1>7, <2>6, <2>7, <2>8 DEF v, Clear
<1>8. QED
  BY <1>6, <1>7

-----------------------------------------------------------------------------
(* The notes between renders. *)

NodeWalk ==
  [table |-> table, midi |-> << >>, pattern |-> activePattern, switch |-> switch,
   lastFired |-> lastFired]

(* The block last latched lies on the line the playhead is on. *)
OnTheLine ==
  PpqNow = latched.ppq + (samplePosition - latched.samples) * PpqPerSample

(* While there are notes no snapshot waits, and the notes are clear of the   *)
(* onsets in play, unless a jump is about to end them all.                   *)
NotesAreClear ==
  NotesOf(table) # {} =>
    /\ activeSnapshot # NoSnapshot /\ offered = NoSnapshot
    /\ positionJumpEdge \/ OnTheLine
    /\ Spaced(NodeWalk, activeSnapshot, latched, fillHeld, PpqPerSample)

(* What the cut of a note was made for stays as it is while there are notes: *)
(* no edit is published, the tempo and the fill are left alone, and a switch *)
(* that has been resolved is not replaced by another.                        *)
Undisturbed ==
  table # << >> =>
    /\ UNCHANGED <<offered, bpm, fillHeld>>
    /\ draining' /\ switch.resolved => switch' = switch

(* A step is a sample long at every tempo and rate. *)
LEMMA StepsHaveSamples ==
  ASSUME NotesLieInSteps, Inductive
  PROVE  \A s \in Snapshots : PpqPerSample <= Grid[s]
BY DEF NotesLieInSteps, Inductive, TypeOK, PpqPerSample

(* On one line a position falls on one sample, whichever block it is seen    *)
(* from.                                                                     *)
LEMMA LineIsShared ==
  ASSUME NEW step \in Nat \ {0}, NEW view, NEW ahead, NEW k \in Int,
         view.ppq \in Int, view.samples \in Int,
         ahead.ppq = view.ppq + k * step, ahead.samples = view.samples + k,
         NEW ppq \in Int
  PROVE  SampleAt(ppq, ahead, step) = SampleAt(ppq, view, step)
<1> DEFINE a == ppq - view.ppq
<1>1. a \in Int /\ k * step \in Int
  OBVIOUS
<1>2. ppq - ahead.ppq = a - k * step
  BY <1>1
<1>3. (a - k * step) \div step = (a \div step) - k /\ a \div step \in Int
  BY <1>1, DivShift, DivBounds
<1> HIDE DEF a
<1>4. QED
  BY <1>2, <1>3 DEF SampleAt, a

(* So what is clear stays clear on it. *)
LEMMA ClearOnTheLine ==
  ASSUME NEW step \in Nat \ {0}, NEW view, NEW ahead, NEW k \in Int,
         view.ppq \in Int, view.samples \in Int,
         ahead.ppq = view.ppq + k * step, ahead.samples = view.samples + k,
         NEW snapshot \in Snapshots, NEW w, w.pattern \in Patterns, NEW fill,
         Spaced(w, snapshot, view, fill, step)
  PROVE  Spaced(w, snapshot, ahead, fill, step)
<1>1. Grid[snapshot] \in Nat \ {0}
  BY SequencerAssumption
<1>2. ASSUME NEW index \in Int, NEW heard, heard = EvaluateStep(snapshot, w.pattern, index, fill),
             NEW child \in DOMAIN heard.notes
      PROVE  SampleAt(NotePpq(index, heard, child, Grid[snapshot]), ahead, step)
               = SampleAt(NotePpq(index, heard, child, Grid[snapshot]), view, step)
  <2>1. IsEmission(heard)
    BY <1>2, EmissionIsTyped
  <2>2. index * Grid[snapshot] \in Int
    BY <1>1
  <2>3. NotePpq(index, heard, child, Grid[snapshot]) \in Int
    BY <1>2, <2>1, <2>2 DEF NotePpq, IsEmission
  <2>4. QED
    BY <2>3, LineIsShared
<1>3. ASSUME NEW e, IsClear(e, w, snapshot, view, fill, step)
      PROVE  IsClear(e, w, snapshot, ahead, fill, step)
  <2>1. SUFFICES ASSUME NEW index \in Int, InPlay(w, index), NEW heard,
                        heard = EvaluateStep(snapshot, w.pattern, index, fill),
                        NEW child \in DOMAIN heard.notes, heard.notes[child].pitch = e.pitch
                 PROVE  SampleAt(NotePpq(index, heard, child, Grid[snapshot]), ahead, step)
                          \notin e.on + 1 .. e.due
    BY DEF IsClear
  <2>2. SampleAt(NotePpq(index, heard, child, Grid[snapshot]), view, step) \notin e.on + 1 .. e.due
    BY <1>3, <2>1 DEF IsClear
  <2>3. QED
    BY <1>2, <2>1, <2>2
<1>4. QED
  BY <1>3 DEF Spaced

(* A render leaves the notes clear. *)
LEMMA RenderClears ==
  ASSUME NotesLieInSteps, Inductive, SwitchTypes, Held, NotesAreClear, Undisturbed,
         NEW n \in BlockSizes, Render(n)
  PROVE  NotesAreClear'
<1> DEFINE snapshot == activeSnapshot'
           pattern == PatternOf(snapshot)
           view == latched'
           start == [table |-> table, midi |-> << >>, pattern |-> pattern,
                     switch |-> switch, lastFired |-> lastFired]
           v == ProcessBlock(snapshot, pattern, view)
<1>1. /\ snapshot \in Snapshots \union {NoSnapshot} /\ patternSeeded' = (snapshot # NoSnapshot)
      /\ snapshot = (IF offered # NoSnapshot THEN offered ELSE activeSnapshot)
      /\ offered' = NoSnapshot
  BY DEF Render, SwitchTypes
<1>2. pattern \in Patterns
  BY <1>1, SequencerAssumption DEF PatternOf, SwitchTypes
<1>3. n \in Nat \ {0} /\ samplePosition \in Nat /\ PpqPerSample \in Nat \ {0} /\ PpqNow \in Nat
  BY BoundsAreNat, PositionIsNat DEF Inductive, TypeOK
<1>4. /\ view.samples = samplePosition /\ view.ppq = PpqNow /\ view.length = n
      /\ view.playing = playing /\ view.stopped = stopEdge /\ view.jumped = positionJumpEdge
      /\ view.advance = (IF playing THEN n ELSE 0)
      /\ samplePosition' = samplePosition + (IF playing THEN n ELSE 0)
      /\ UNCHANGED <<anchorSample, anchorPpq, bpm, sampleRate, fillHeld>>
  BY DEF Render, BeginBlock, View
<1>5. IsLatched(view)
  <2>1. IsBlock(view)
    BY LatchIsBlock DEF Render
  <2>2. QED
    BY <1>3, <1>4, <2>1 DEF IsLatched
<1>6. Continues(view)
  BY <1>4 DEF Continues, Held
<1>7. /\ table' = v.table /\ activePattern' = v.pattern /\ switch' = v.switch
      /\ lastFired' = v.lastFired
  <2>1. (IF patternSeeded' /\ ~ patternSeeded THEN StartPattern[activeSnapshot']
         ELSE activePattern) = pattern
    BY <1>1 DEF PatternOf
  <2>2. \E after \in {ProcessBlock(activeSnapshot',
                        IF patternSeeded' /\ ~ patternSeeded THEN StartPattern[activeSnapshot']
                        ELSE activePattern, latched')} :
          /\ table' = after.table /\ activePattern' = after.pattern /\ switch' = after.switch
          /\ lastFired' = after.lastFired
    BY Zenon DEF Render
  <2> HIDE DEF pattern
  <2>3. QED
    BY <2>1, <2>2
<1>8. switch \in Switches /\ IsHeld
  BY DEF SwitchTypes, Held
<1>9. \A s \in Snapshots : PpqPerSample <= Grid[s]
  BY StepsHaveSamples
<1>10. view.jumped \/ Spaced(start, snapshot, view, fillHeld, PpqPerSample)
  <2>1. CASE NotesOf(table) = {}
    <3>1. start.table = table
      OBVIOUS
    <3> HIDE DEF start
    <3>2. QED
      BY <2>1, <3>1, SpacedNone
  <2>2. CASE NotesOf(table) # {} /\ ~ view.jumped
    <3>1. /\ activeSnapshot # NoSnapshot /\ offered = NoSnapshot /\ OnTheLine
          /\ Spaced(NodeWalk, activeSnapshot, latched, fillHeld, PpqPerSample)
      BY <1>4, <2>2 DEF NotesAreClear
    <3>2. snapshot = activeSnapshot /\ snapshot \in Snapshots /\ pattern = activePattern
      BY <1>1, <3>1 DEF PatternOf, SwitchTypes
    <3>3. start = NodeWalk
      BY <3>2 DEF NodeWalk
    <3> DEFINE k == samplePosition - latched.samples
    <3>4. /\ k \in Int /\ latched.ppq \in Int /\ latched.samples \in Int
          /\ view.ppq = latched.ppq + k * PpqPerSample /\ view.samples = latched.samples + k
      BY <1>3, <1>4, <3>1 DEF OnTheLine, Inductive, TypeOK
    <3> HIDE DEF k, view, snapshot, pattern, start
    <3>5. NodeWalk.pattern \in Patterns
      BY DEF NodeWalk, SwitchTypes
    <3>6. Spaced(NodeWalk, snapshot, view, fillHeld, PpqPerSample)
      BY <1>3, <3>1, <3>2, <3>4, <3>5, ClearOnTheLine
    <3>7. QED
      BY <3>3, <3>6
  <2>3. QED
    BY <2>1, <2>2
<1>11. /\ Spaced(v, snapshot, view, fillHeld, PpqPerSample)
       /\ snapshot = NoSnapshot => NotesOf(v.table) \subseteq NotesOf(table)
  <2>1. start = [table |-> table, midi |-> << >>, pattern |-> pattern,
                 switch |-> switch, lastFired |-> lastFired]
    OBVIOUS
  <2> HIDE DEF pattern, snapshot, view, start
  <2>2. QED
    BY <1>1, <1>2, <1>5, <1>6, <1>8, <1>9, <1>10, <2>1, ProcessSpaced
<1>12. snapshot = NoSnapshot => NotesOf(v.table) = {}
  <2>1. snapshot = NoSnapshot => NotesOf(table) = {}
    BY <1>1 DEF NotesAreClear
  <2> HIDE DEF snapshot, v
  <2>2. QED
    BY <1>11, <2>1
<1>13. PpqPerSample' = PpqPerSample
  BY <1>4 DEF PpqPerSample
<1>14. OnTheLine'
  <2>1. PpqNow' = anchorPpq + (samplePosition' - anchorSample) * PpqPerSample
    BY <1>4, <1>13 DEF PpqNow, PpqAtSample
  <2>2. PpqNow = anchorPpq + (samplePosition - anchorSample) * PpqPerSample
    BY DEF PpqNow, PpqAtSample
  <2> DEFINE m == IF playing THEN n ELSE 0
             s == PpqPerSample
  <2>3. m \in Int /\ samplePosition' = samplePosition + m
    BY <1>3, <1>4
  <2>4. anchorPpq \in Int /\ anchorSample \in Int /\ samplePosition \in Int /\ s \in Int
    BY <1>3 DEF Inductive, TypeOK
  <2> HIDE DEF m, s
  <2>5. anchorPpq + ((samplePosition + m) - anchorSample) * s
          = (anchorPpq + (samplePosition - anchorSample) * s) + m * s
    BY <2>3, <2>4, Advance
  <2>6. PpqNow' = PpqNow + m * s
    BY <2>1, <2>2, <2>3, <2>5 DEF s
  <2>7. samplePosition' - latched'.samples = m
    BY <1>3, <1>4, <2>3
  <2>8. QED
    BY <1>4, <1>13, <2>6, <2>7 DEF OnTheLine, s
<1>15. Spaced(NodeWalk', snapshot, view, fillHeld, PpqPerSample)
  <2>1. /\ NodeWalk'.table = v.table /\ NodeWalk'.pattern = v.pattern
        /\ NodeWalk'.switch = v.switch /\ NodeWalk'.lastFired = v.lastFired
    BY <1>7 DEF NodeWalk
  <2> DEFINE w == NodeWalk'
  <2>2. DOMAIN w = {"table", "midi", "pattern", "switch", "lastFired"}
    BY DEF NodeWalk
  <2> HIDE DEF w, v
  <2>3. Keeps(v, w) /\ NotesOf(w.table) \subseteq NotesOf(v.table)
    BY <2>1, <2>2 DEF Keeps, w
  <2>4. QED
    BY <1>11, <2>3, SpacedLess DEF w
<1>16. Spaced(NodeWalk, activeSnapshot, latched, fillHeld, PpqPerSample)'
  BY <1>4, <1>13, <1>15
<1>17. NotesOf(table)' # {} => activeSnapshot' # NoSnapshot
  <2>1. NotesOf(table)' = NotesOf(v.table)
    BY <1>7 DEF NotesOf
  <2>2. QED
    BY <1>12, <2>1
<1>18. QED
  BY <1>1, <1>14, <1>16, <1>17 DEF NotesAreClear

(* What the other steps leave of what the notes were cut for: all of it but  *)
(* the tempo, the fill and a switch, and the playhead under a jump edge.     *)
LEMMA OthersKeepLine ==
  ASSUME [SeqNext]_vars, ~ \E n \in BlockSizes : Render(n),
         ~ \E rate \in Rates : DeviceRestart(rate)
  PROVE  /\ UNCHANGED <<table, latched, sampleRate>>
         /\ positionJumpEdge' \/ samplePosition' = samplePosition
         /\ draining' \/ switch' = switch
<1>1. ASSUME Command
      PROVE  /\ UNCHANGED <<latched, sampleRate>>
             /\ positionJumpEdge' \/ samplePosition' = samplePosition
             /\ draining'
  <2>1. CASE TransportPlay
    BY <1>1, <2>1 DEF Command, TransportPlay, clockVars
  <2>2. CASE TransportStop
    BY <1>1, <2>2 DEF Command, TransportStop
  <2>3. ASSUME NEW target \in LocateTargets, TransportLocate(target)
        PROVE  /\ sampleRate' = sampleRate
               /\ positionJumpEdge' \/ samplePosition' = samplePosition
    BY <2>3, Zenon DEF TransportLocate, clockVars
  <2>4. ASSUME NEW newBpm \in TempoRequests, SetTempo(newBpm)
        PROVE  sampleRate' = sampleRate /\ samplePosition' = samplePosition
    BY <2>4 DEF SetTempo
  <2>5. QED
    BY <1>1, <2>1, <2>2, <2>3, <2>4 DEF Command
<1>2. ASSUME NEW snapshot \in Snapshots, Publish(snapshot)
      PROVE  UNCHANGED <<table, latched, sampleRate, samplePosition, switch>>
  BY <1>2 DEF Publish, transportVars
<1>3. CASE TransportCommand
  BY <1>1, <1>3 DEF TransportCommand
<1>4. ASSUME NEW pattern \in Requests, NEW quantize \in Quantizes,
             QueuePatternSwitch(pattern, quantize)
      PROVE  UNCHANGED <<table, latched, sampleRate, samplePosition>> /\ draining'
  BY <1>4 DEF QueuePatternSwitch
<1>5. CASE SetFillHeld
  BY <1>5 DEF SetFillHeld
<1>6. CASE UNCHANGED vars
  BY <1>6 DEF vars, transportVars, sequencerVars
<1>7. QED
  BY <1>2, <1>3, <1>4, <1>5, <1>6 DEF SeqNext

(* They leave the notes clear when they leave the rest alone too, *)
LEMMA OthersClear ==
  ASSUME Inductive, SwitchTypes, NotesAreClear, Undisturbed, [SeqNext]_vars,
         ~ \E n \in BlockSizes : Render(n), ~ \E rate \in Rates : DeviceRestart(rate)
  PROVE  NotesAreClear'
<1>1. /\ UNCHANGED <<table, latched, sampleRate>>
      /\ positionJumpEdge' \/ samplePosition' = samplePosition
      /\ draining' \/ switch' = switch
  BY OthersKeepLine
<1>2. /\ UNCHANGED <<activeSnapshot, activePattern, lastFired>>
      /\ switch' = switch \/ ~ switch'.resolved
  BY OthersKeepSwitch DEF SwitchKept
<1>3. /\ positionJumpEdge => positionJumpEdge'
      /\ ~ positionJumpEdge' => PpqNow' = PpqNow
  BY EdgeStays
<1>4. NotesOf(table)' = NotesOf(table)
  BY <1>1 DEF NotesOf
<1>5. SUFFICES ASSUME NotesOf(table) # {} PROVE NotesAreClear'
  BY <1>4 DEF NotesAreClear
<1>6. table # << >>
  BY <1>5, NoNotes
<1>7. /\ UNCHANGED <<offered, bpm, fillHeld>>
      /\ switch.resolved => switch' = switch
  BY <1>1, <1>6 DEF Undisturbed
<1>8. PpqPerSample' = PpqPerSample
  BY <1>1, <1>7 DEF PpqPerSample
<1>9. positionJumpEdge' \/ OnTheLine'
  <2>1. SUFFICES ASSUME ~ positionJumpEdge' PROVE OnTheLine'
    OBVIOUS
  <2>2. OnTheLine /\ PpqNow' = PpqNow /\ samplePosition' = samplePosition
    BY <1>1, <1>3, <1>5, <2>1 DEF NotesAreClear
  <2>3. QED
    BY <1>1, <1>8, <2>2 DEF OnTheLine
<1>10. Spaced(NodeWalk', activeSnapshot, latched, fillHeld, PpqPerSample)
  <2> DEFINE w == NodeWalk
             v == NodeWalk'
  <2>1. Spaced(w, activeSnapshot, latched, fillHeld, PpqPerSample)
    BY <1>5 DEF NotesAreClear
  <2>2. v.table = w.table /\ v.pattern = w.pattern /\ v.lastFired = w.lastFired
    BY <1>1, <1>2 DEF NodeWalk
  <2>3. w.switch = switch /\ v.switch = switch'
    BY DEF NodeWalk
  <2> HIDE DEF w, v
  <2>4. \A index \in Int : InPlay(v, index) => InPlay(w, index)
    BY <1>7, <2>2, <2>3 DEF InPlay
  <2>5. \A e : IsClear(e, w, activeSnapshot, latched, fillHeld, PpqPerSample)
                => IsClear(e, v, activeSnapshot, latched, fillHeld, PpqPerSample)
    BY <2>2, <2>4 DEF IsClear
  <2>6. QED
    BY <2>1, <2>2, <2>5 DEF Spaced, v
<1>11. Spaced(NodeWalk, activeSnapshot, latched, fillHeld, PpqPerSample)'
  BY <1>1, <1>2, <1>7, <1>8, <1>10
<1>12. activeSnapshot' # NoSnapshot /\ offered' = NoSnapshot
  BY <1>2, <1>5, <1>7 DEF NotesAreClear
<1>13. QED
  BY <1>9, <1>11, <1>12 DEF NotesAreClear

(* and so does every step. *)
LEMMA ClearStep ==
  ASSUME NotesLieInSteps
  PROVE  /\ Inductive /\ SwitchTypes /\ Held /\ NotesAreClear
         /\ [SeqNext]_vars /\ [Undisturbed]_vars
         => NotesAreClear'
<1> SUFFICES ASSUME Inductive, SwitchTypes, Held, NotesAreClear, [SeqNext]_vars, [Undisturbed]_vars
             PROVE  NotesAreClear'
  OBVIOUS
<1>1. Undisturbed
  BY DEF Undisturbed, vars, sequencerVars, transportVars
<1>2. ASSUME NEW rate \in Rates, DeviceRestart(rate) PROVE NotesAreClear'
  <2>1. NotesOf(table)' = {}
    BY <1>2, NoNotes DEF DeviceRestart, NotesOf
  <2>2. QED
    BY <2>1 DEF NotesAreClear
<1>3. QED
  BY <1>1, <1>2, RenderClears, OthersClear

(* Seen from a note of the table, what is clear is apart from the music to   *)
(* come.                                                                     *)
LEMMA ClearIsApart ==
  ASSUME Inductive, SwitchTypes, Held, NotesAreClear
  PROVE  GapKept
<1>1. SUFFICES ASSUME activeSnapshot # NoSnapshot, NEW i \in DOMAIN table,
                      NEW steps \in SUBSET Int,
                      NEW n \in Music(steps, activePattern, lastFired, activePattern, fillHeld),
                      n.index >= lastFired, n.pitch = table[i].pitch,
                      switch.resolved => n.index < switch.step
               PROVE  SampleForPpq(n.ppq, latched) \notin table[i].on + 1 .. table[i].due
  <2>1. \A ppq, grid : Reach(ppq, grid) \in SUBSET Int
    BY DEF Reach
  <2>2. Reach(latched.ppq, Grid[activeSnapshot])
          \union Reach(BlockEndPpq(latched) + LongestNote, Grid[activeSnapshot]) \in SUBSET Int
    BY <2>1
  <2>3. QED
    BY <1>1, <2>2, Zenon DEF GapKept
<1>2. table[i] \in NotesOf(table)
  BY DEF NotesOf, Held, IsHeld
<1>3. IsClear(table[i], NodeWalk, activeSnapshot, latched, fillHeld, PpqPerSample)
  BY <1>2 DEF NotesAreClear, Spaced, NodeWalk
<1>4. PICK index \in steps :
        LET heard == EvaluateStep(activeSnapshot, activePattern, index, fillHeld)
        IN  \E child \in DOMAIN heard.notes :
              n = [ppq |-> NotePpq(index, heard, child, Grid[activeSnapshot]),
                   pitch |-> heard.notes[child].pitch, index |-> index, child |-> child]
  BY <1>1 DEF Music
<1> DEFINE heard == EvaluateStep(activeSnapshot, activePattern, index, fillHeld)
<1>5. PICK child \in DOMAIN heard.notes :
        n = [ppq |-> NotePpq(index, heard, child, Grid[activeSnapshot]),
             pitch |-> heard.notes[child].pitch, index |-> index, child |-> child]
  BY <1>4
<1>6. index \in Int /\ InPlay(NodeWalk, index) /\ NodeWalk.pattern = activePattern
      /\ heard.notes[child].pitch = table[i].pitch
  BY <1>1, <1>5 DEF InPlay, NodeWalk
<1>7. SampleAt(NotePpq(index, heard, child, Grid[activeSnapshot]), latched, PpqPerSample)
        \notin table[i].on + 1 .. table[i].due
  BY <1>3, <1>6 DEF IsClear
<1>8. QED
  BY <1>5, <1>7 DEF SampleAt, SampleForPpq

(* The gap before the next onset of a pitch is kept, at any grid, tempo,     *)
(* rate and size of block and through every stop, locate, restart and        *)
(* switch, as long as what the notes were cut for is not changed under them: *)
(* a note is scheduled to end at least one sample before every onset of its  *)
(* pitch that is in play, however many blocks lie between them (emitNote,    *)
(* issue #46). Without the condition it is not: GapKept is what the run on   *)
(* a switch replaced after it was resolved violates.                         *)
THEOREM GapIsKept ==
  ASSUME NotesLieInSteps
  PROVE  SeqSpec /\ [][Undisturbed]_vars => []GapKept
<1>1. SeqInit => NotesAreClear
  <2>1. SeqInit => NotesOf(table) = {}
    BY NoNotes DEF SeqInit
  <2>2. QED
    BY <2>1 DEF NotesAreClear
<1>2. Inductive /\ SwitchTypes /\ Held /\ NotesAreClear => GapKept
  BY ClearIsApart
<1>3. Inductive /\ SwitchTypes /\ Held /\ NotesAreClear /\ [SeqNext]_vars /\ [Undisturbed]_vars
        => NotesAreClear'
  BY ClearStep
<1>4. QED
  BY <1>1, <1>2, <1>3, ClockAlwaysInductive, AlwaysTypes, AlwaysHeld, PTL DEF SeqSpec
=============================================================================
