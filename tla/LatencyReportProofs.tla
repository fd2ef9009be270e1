------------------------- MODULE LatencyReportProofs ------------------------
(***************************************************************************)
(* For any number of loads, removals and device restarts, any fade and any *)
(* poll budget: what the instrument slot promises, but for liveness.       *)
(*                                                                         *)
(* Latency reporting does not disturb the slot: a system that revises,     *)
(* polls and reports latencies still behaves as SynthSlot, so all that is  *)
(* proved of the slot holds of it.                                         *)
(***************************************************************************)
EXTENDS LatencyReport, TLAPS

(* A node that was never inserted, and may still be.                         *)
Fresh(n) == n > generation \/ n \in inFlight \/ n = pendingNode

(* A fresh node is nowhere yet and has answered no handshake; so the node an *)
(* insertion fades in is never one that is fading out.                       *)
FreshIsUntouched ==
  /\ pendingNode \notin inFlight /\ pendingNode <= generation
  /\ \A n \in Nodes : Fresh(n) => n \notin {topology, rendering} /\ ~ fadeOutComplete[n]

(* The handshake flag means silence.                                         *)
FlagIsSilence == \A n \in Nodes : fadeOutComplete[n] => fadedOut[n] /\ fadeGain[n] = 0

(* What is still rendered after it left the topology is silent or was cut.   *)
LeavingIsSilent ==
  rendering # None /\ rendering # topology =>
    fadedOut[rendering] /\ (fadeGain[rendering] = 0 \/ rendering \in cut)

(* Where the answer to the latest call is, before the slot has settled.      *)
LatestStaged ==
  slotAlive =>
    /\ generation \in loaded =>
         /\ lastAsked = "load" /\ generation \notin inFlight
         /\ state = "idle" => currentSynth = generation
         /\ state = "awaitingFadeOut" => pendingNode = generation
    /\ lastAsked = "remove" =>
         /\ pendingNode = None /\ generation \notin inFlight
         /\ state = "idle" => currentSynth = None
    /\ state = "idle" /\ currentSynth # None => ~ fadedOut[currentSynth]

IInv ==
  /\ Ranges /\ CurrentIsInserted /\ HandshakeHasSynth
  /\ FreshIsUntouched /\ FlagIsSilence /\ LeavingIsSilent /\ LatestStaged

(* Every variable stays in its range.                                        *)
LEMMA RangesNext == IInv /\ [Next]_vars => Ranges'
<1> SUFFICES ASSUME IInv, [Next]_vars PROVE Ranges'
  OBVIOUS
<1> USE BoundsAssumption DEF IInv, Ranges, None, Nodes, vars, slotVars, graphVars,
        nodeVars, historyVars
<1>1. CASE Load
  BY <1>1 DEF Load
<1>2. CASE Remove
  <2>1. fadedOut' \in [Nodes -> BOOLEAN]
    BY <1>2 DEF Remove
  <2>2. fadeOutPollsRemaining' \in 0 .. MaxFadeOutPolls /\ state' \in {"idle", "awaitingFadeOut"}
    BY <1>2 DEF Remove, BeginFadeOutWait
  <2>3. state' = "awaitingFadeOut" => fadeOutPollsRemaining' > 0
    BY <1>2 DEF Remove, BeginFadeOutWait
  <2> QED
    BY <1>2, <2>1, <2>2, <2>3 DEF Remove
<1>3. CASE PollWaits
  BY <1>3 DEF PollWaits
<1>4. CASE PollEdits
  <2>1. fadedOut' \in [Nodes -> BOOLEAN]
    BY <1>4 DEF PollEdits, InsertAndFadeIn
  <2>2. cut' \subseteq Nodes /\ fadeOutPollsRemaining' \in 0 .. MaxFadeOutPolls /\ state' = "idle"
    BY <1>4 DEF PollEdits
  <2>3. UNCHANGED <<rendering, stops, fadeGain, fadeOutComplete>>
    BY <1>4 DEF PollEdits, InsertAndFadeIn, EditTopology
  <2>4. currentSynth' \in Nodes \union {None} /\ topology' \in Nodes \union {None}
    BY <1>4 DEF PollEdits, InsertAndFadeIn, EditTopology
  <2> QED
    BY <1>4, <2>1, <2>2, <2>3, <2>4 DEF PollEdits
<1>5. CASE DestroySlot
  BY <1>5 DEF DestroySlot
<1>6. ASSUME NEW g \in Nodes, InstantiationDropped(g) PROVE Ranges'
  BY <1>6 DEF InstantiationDropped
<1>7. ASSUME NEW g \in Nodes, InstantiatedFirst(g) PROVE Ranges'
  BY <1>7 DEF InstantiatedFirst, Succeeds, InsertAndFadeIn, EditTopology
<1>8. ASSUME NEW g \in Nodes, InstantiatedSwap(g) PROVE Ranges'
  <2>1. fadedOut' \in [Nodes -> BOOLEAN]
    BY <1>8 DEF InstantiatedSwap, Succeeds
  <2>2. loaded' \subseteq 1 .. generation /\ inFlight' \subseteq 1 .. generation /\ generation' = generation
    BY <1>8 DEF InstantiatedSwap, Succeeds
  <2>3. fadeOutPollsRemaining' \in 0 .. MaxFadeOutPolls /\ state' \in {"idle", "awaitingFadeOut"}
    BY <1>8 DEF InstantiatedSwap, BeginFadeOutWait
  <2>4. state' = "awaitingFadeOut" => fadeOutPollsRemaining' > 0
    BY <1>8 DEF InstantiatedSwap, BeginFadeOutWait
  <2>5. UNCHANGED lastAsked /\ UNCHANGED cut
    BY <1>8 DEF InstantiatedSwap, Succeeds
  <2> QED
    BY <1>8, <2>1, <2>2, <2>3, <2>4, <2>5 DEF InstantiatedSwap
<1>9. CASE Rebuild
  <2>1. fadeGain' \in [Nodes -> 0 .. Unity]
    BY <1>9 DEF Rebuild, Seed
  <2>2. fadeOutComplete' \in [Nodes -> BOOLEAN]
    BY <1>9 DEF Rebuild
  <2> QED
    BY <1>9, <2>1, <2>2 DEF Rebuild
<1>10. CASE DeviceStops
  BY <1>10 DEF DeviceStops
<1>11. CASE DeviceStarts
  <2>1. fadeGain' \in [Nodes -> 0 .. Unity]
    BY <1>11 DEF DeviceStarts, Seed
  <2>2. fadeOutComplete' \in [Nodes -> BOOLEAN]
    BY <1>11 DEF DeviceStarts
  <2> QED
    BY <1>11, <2>1, <2>2 DEF DeviceStarts
<1>12. CASE AudioBlock
  BY <1>12 DEF AudioBlock
<1>13. CASE UNCHANGED vars
  BY <1>13
<1> QED
  BY <1>1, <1>2, <1>3, <1>4, <1>5, <1>6, <1>7, <1>8, <1>9, <1>10, <1>11, <1>12,
     <1>13 DEF Next, Poll, Callback

(* The pointer is the node of the graph after every step.                    *)
LEMMA CurrentIsInsertedNext == IInv /\ [Next]_vars => CurrentIsInserted'
<1> SUFFICES ASSUME IInv, [Next]_vars PROVE CurrentIsInserted'
  OBVIOUS
<1> USE BoundsAssumption DEF IInv, CurrentIsInserted, None, Nodes, vars, slotVars,
        graphVars, nodeVars, historyVars
<1>1. CASE PollEdits
  BY <1>1 DEF PollEdits, InsertAndFadeIn, EditTopology
<1>2. ASSUME NEW g \in Nodes, InstantiatedFirst(g) PROVE CurrentIsInserted'
  BY <1>2 DEF InstantiatedFirst, Succeeds, InsertAndFadeIn, EditTopology
<1>3. CASE Load \/ Remove \/ PollWaits \/ DestroySlot \/
          (\E g \in Nodes : InstantiationDropped(g)) \/
          (\E g \in Nodes : InstantiatedSwap(g)) \/ Rebuild \/ DeviceStops
          \/ DeviceStarts \/ AudioBlock \/ UNCHANGED vars
  BY <1>3 DEF Load, Remove, PollWaits, DestroySlot, InstantiationDropped,
     InstantiatedSwap, Rebuild, DeviceStops, DeviceStarts, AudioBlock,
     BeginFadeOutWait, Succeeds, Seed
<1> QED
  BY <1>1, <1>2, <1>3 DEF Next, Poll, Callback

(* A wait has a synth that fades out, after every step.                      *)
LEMMA HandshakeHasSynthNext == IInv /\ [Next]_vars => HandshakeHasSynth'
<1> SUFFICES ASSUME IInv, [Next]_vars PROVE HandshakeHasSynth'
  OBVIOUS
<1> USE BoundsAssumption DEF IInv, Ranges, LatestStaged, FreshIsUntouched,
        HandshakeHasSynth, CurrentIsInserted, None, Nodes, vars, slotVars,
        graphVars, nodeVars, historyVars
<1>1. CASE Remove
  BY <1>1 DEF Remove, BeginFadeOutWait
<1>2. CASE PollEdits
  BY <1>2 DEF PollEdits, InsertAndFadeIn, EditTopology
<1>3. ASSUME NEW g \in Nodes, InstantiatedFirst(g) PROVE HandshakeHasSynth'
  BY <1>3 DEF InstantiatedFirst, Succeeds, InsertAndFadeIn, EditTopology
<1>4. ASSUME NEW g \in Nodes, InstantiatedSwap(g) PROVE HandshakeHasSynth'
  BY <1>4 DEF InstantiatedSwap, Succeeds, BeginFadeOutWait
<1>5. CASE Load \/ PollWaits \/ DestroySlot \/
          (\E g \in Nodes : InstantiationDropped(g)) \/ Rebuild \/
          DeviceStops \/ DeviceStarts \/ AudioBlock \/ UNCHANGED vars
  BY <1>5 DEF Load, PollWaits, DestroySlot, InstantiationDropped, Rebuild,
     DeviceStops, DeviceStarts, AudioBlock, Seed
<1> QED
  BY <1>1, <1>2, <1>3, <1>4, <1>5 DEF Next, Poll, Callback

(* What was never inserted is nowhere, after every step.                     *)
LEMMA FreshIsUntouchedNext == IInv /\ [Next]_vars => FreshIsUntouched'
<1> SUFFICES ASSUME IInv, [Next]_vars PROVE FreshIsUntouched'
  OBVIOUS
<1> USE BoundsAssumption DEF IInv, Ranges, Fresh, FreshIsUntouched,
        HandshakeHasSynth, CurrentIsInserted, None, Nodes, vars, slotVars,
        graphVars, nodeVars, historyVars
<1>1. CASE Load
  <2>1. pendingNode' \notin inFlight' /\ pendingNode' <= generation'
    BY <1>1 DEF Load
  <2>2. \A n \in Nodes : Fresh(n)' => Fresh(n)
    BY <1>1 DEF Load
  <2> QED
    BY <1>1, <2>1, <2>2 DEF Load
<1>2. CASE Remove
  BY <1>2 DEF Remove, BeginFadeOutWait
<1>3. CASE PollEdits
  BY <1>3 DEF PollEdits, InsertAndFadeIn, EditTopology
<1>4. CASE DestroySlot
  <2>1. pendingNode' \notin inFlight' /\ pendingNode' <= generation'
    BY <1>4 DEF DestroySlot
  <2>2. \A n \in Nodes : Fresh(n)' => Fresh(n)
    BY <1>4 DEF DestroySlot
  <2> QED
    BY <1>4, <2>1, <2>2 DEF DestroySlot
<1>5. ASSUME NEW g \in Nodes, InstantiationDropped(g) PROVE FreshIsUntouched'
  BY <1>5 DEF InstantiationDropped
<1>6. ASSUME NEW g \in Nodes, InstantiatedFirst(g) PROVE FreshIsUntouched'
  BY <1>6 DEF InstantiatedFirst, Succeeds, InsertAndFadeIn, EditTopology
<1>7. ASSUME NEW g \in Nodes, InstantiatedSwap(g) PROVE FreshIsUntouched'
  <2>1. pendingNode' \notin inFlight' /\ pendingNode' <= generation'
    BY <1>7 DEF InstantiatedSwap, Succeeds
  <2>2. \A n \in Nodes : Fresh(n)' => Fresh(n)
    BY <1>7 DEF InstantiatedSwap, Succeeds
  <2> QED
    BY <1>7, <2>1, <2>2 DEF InstantiatedSwap
<1>8. CASE Rebuild
  BY <1>8 DEF Rebuild, Seed
<1>9. CASE DeviceStarts
  BY <1>9 DEF DeviceStarts, Seed
<1>10. CASE AudioBlock
  BY <1>10 DEF AudioBlock
<1>11. CASE PollWaits \/ DeviceStops \/ UNCHANGED vars
  BY <1>11 DEF PollWaits, DeviceStops
<1> QED
  BY <1>1, <1>2, <1>3, <1>4, <1>5, <1>6, <1>7, <1>8, <1>9, <1>10, <1>11 DEF Next,
     Poll, Callback

(* The flag means silence after every step.                                  *)
LEMMA FlagIsSilenceNext == IInv /\ [Next]_vars => FlagIsSilence'
<1> SUFFICES ASSUME IInv, [Next]_vars PROVE FlagIsSilence'
  OBVIOUS
<1> USE BoundsAssumption DEF IInv, Ranges, FlagIsSilence, FreshIsUntouched, Fresh,
        None, Nodes, vars, slotVars, graphVars, nodeVars, historyVars
<1>1. CASE Remove
  BY <1>1 DEF Remove, BeginFadeOutWait
<1>2. CASE PollEdits
  BY <1>2 DEF PollEdits, InsertAndFadeIn, EditTopology
<1>3. ASSUME NEW g \in Nodes, InstantiatedFirst(g) PROVE FlagIsSilence'
  BY <1>3 DEF InstantiatedFirst, Succeeds, InsertAndFadeIn, EditTopology
<1>4. ASSUME NEW g \in Nodes, InstantiatedSwap(g) PROVE FlagIsSilence'
  BY <1>4 DEF InstantiatedSwap, Succeeds, BeginFadeOutWait
<1>5. CASE Rebuild
  BY <1>5 DEF Rebuild, Seed
<1>6. CASE DeviceStarts
  BY <1>6 DEF DeviceStarts, Seed
<1>7. CASE AudioBlock
  BY <1>7 DEF AudioBlock
<1>8. CASE Load \/ PollWaits \/ DestroySlot \/
          (\E g \in Nodes : InstantiationDropped(g)) \/ DeviceStops \/
          UNCHANGED vars
  BY <1>8 DEF Load, PollWaits, DestroySlot, InstantiationDropped, DeviceStops
<1> QED
  BY <1>1, <1>2, <1>3, <1>4, <1>5, <1>6, <1>7, <1>8 DEF Next, Poll, Callback

(* A node that has left the topology is silent or was cut, after every step. *)
LEMMA LeavingIsSilentNext == IInv /\ [Next]_vars => LeavingIsSilent'
<1> SUFFICES ASSUME IInv, [Next]_vars PROVE LeavingIsSilent'
  OBVIOUS
<1> USE BoundsAssumption DEF IInv, Ranges, LeavingIsSilent, FlagIsSilence,
        FreshIsUntouched, Fresh, HandshakeHasSynth, CurrentIsInserted, None, Nodes,
        vars, slotVars, graphVars, nodeVars, historyVars
<1>1. CASE Load
  BY <1>1 DEF Load
<1>2. CASE Remove
  BY <1>2 DEF Remove, BeginFadeOutWait
<1>3. CASE PollEdits
  BY <1>3 DEF PollEdits, InsertAndFadeIn, EditTopology
<1>4. ASSUME NEW g \in Nodes, InstantiationDropped(g) PROVE LeavingIsSilent'
  BY <1>4 DEF InstantiationDropped
<1>5. ASSUME NEW g \in Nodes, InstantiatedFirst(g) PROVE LeavingIsSilent'
  BY <1>5 DEF InstantiatedFirst, Succeeds, InsertAndFadeIn, EditTopology
<1>6. ASSUME NEW g \in Nodes, InstantiatedSwap(g) PROVE LeavingIsSilent'
  BY <1>6 DEF InstantiatedSwap, Succeeds, BeginFadeOutWait
<1>7. CASE Rebuild
  BY <1>7 DEF Rebuild, Seed
<1>8. CASE DeviceStarts
  BY <1>8 DEF DeviceStarts, Seed
<1>9. CASE AudioBlock
  BY <1>9 DEF AudioBlock
<1>10. CASE PollWaits \/ DestroySlot \/ DeviceStops \/ UNCHANGED vars
  BY <1>10 DEF PollWaits, DestroySlot, DeviceStops
<1> QED
  BY <1>1, <1>2, <1>3, <1>4, <1>5, <1>6, <1>7, <1>8, <1>9, <1>10 DEF Next, Poll,
     Callback

(* The answer to the latest call is kept, after every step.                  *)
LEMMA LatestStagedNext == IInv /\ [Next]_vars => LatestStaged'
<1> SUFFICES ASSUME IInv, [Next]_vars PROVE LatestStaged'
  OBVIOUS
<1> USE BoundsAssumption DEF IInv, Ranges, LatestStaged, FreshIsUntouched, Fresh,
        HandshakeHasSynth, CurrentIsInserted, None, Nodes, vars, slotVars,
        graphVars, nodeVars, historyVars
<1>1. CASE Load
  BY <1>1 DEF Load
<1>2. CASE Remove
  BY <1>2 DEF Remove, BeginFadeOutWait
<1>3. CASE PollWaits
  BY <1>3 DEF PollWaits
<1>4. CASE PollEdits
  BY <1>4 DEF PollEdits, InsertAndFadeIn, EditTopology
<1>5. CASE DestroySlot
  BY <1>5 DEF DestroySlot
<1>6. ASSUME NEW g \in Nodes, InstantiationDropped(g) PROVE LatestStaged'
  BY <1>6 DEF InstantiationDropped
<1>7. ASSUME NEW g \in Nodes, InstantiatedFirst(g) PROVE LatestStaged'
  BY <1>7 DEF InstantiatedFirst, Succeeds, InsertAndFadeIn, EditTopology
<1>8. ASSUME NEW g \in Nodes, InstantiatedSwap(g) PROVE LatestStaged'
  BY <1>8 DEF InstantiatedSwap, Succeeds, BeginFadeOutWait
<1>9. CASE Rebuild
  BY <1>9 DEF Rebuild, Seed
<1>10. CASE DeviceStops
  BY <1>10 DEF DeviceStops
<1>11. CASE DeviceStarts
  BY <1>11 DEF DeviceStarts, Seed
<1>12. CASE AudioBlock
  BY <1>12 DEF AudioBlock
<1>13. CASE UNCHANGED vars
  BY <1>13
<1> QED
  BY <1>1, <1>2, <1>3, <1>4, <1>5, <1>6, <1>7, <1>8, <1>9, <1>10, <1>11, <1>12,
     <1>13 DEF Next, Poll, Callback

(* The invariant holds at the start: nothing was asked for, nothing plays.   *)
LEMMA InitIInv == Init => IInv
<1> SUFFICES ASSUME Init PROVE IInv
  OBVIOUS
<1> USE BoundsAssumption DEF Init, None, Nodes
<1>1. Ranges
  BY DEF Ranges
<1> QED
  BY <1>1 DEF IInv, CurrentIsInserted, HandshakeHasSynth, FreshIsUntouched, Fresh,
              FlagIsSilence, LeavingIsSilent, LatestStaged

(* Together the parts are inductive. *)
LEMMA NextIInv == IInv /\ [Next]_vars => IInv'
  BY RangesNext, CurrentIsInsertedNext, HandshakeHasSynthNext, FreshIsUntouchedNext,
     FlagIsSilenceNext, LeavingIsSilentNext, LatestStagedNext DEF IInv

(* The invariant holds throughout. *)
LEMMA Invariance == Spec => []IInv
  BY InitIInv, NextIInv, PTL DEF Spec

(* The slot's pointer never dangles: while the slot lives it is the node the *)
(* graph owns, and a handshake always has a synth to wait for.               *)
THEOREM PointerIsSafe == Spec => [](CurrentIsInserted /\ HandshakeHasSynth)
<1>1. IInv => CurrentIsInserted /\ HandshakeHasSynth
  BY DEF IInv
<1> QED
  BY Invariance, <1>1, PTL

(* When the slot has settled it holds what the latest call asked for,        *)
(* whatever the order of callbacks, polls, rebuilds and audio blocks.        *)
THEOREM LatestCallWins == Spec => []LatestWins
<1>1. IInv => LatestWins
  BY DEF IInv, LatestStaged, LatestWins, isPending, Ranges
<1> QED
  BY Invariance, <1>1, PTL

(* While the device runs, a synth is taken out of the render sequence in     *)
(* silence, unless the poll budget ran out on it.                            *)
THEOREM TailsAreNotChopped == Spec => NoChoppedTail
<1>1. ASSUME IInv, [Next]_vars
      PROVE  [running /\ rendering' # rendering /\ rendering # None
                => fadeGain[rendering] = 0 \/ rendering \in cut]_vars
  <2> USE <1>1 DEF IInv, LeavingIsSilent
  <2>1. CASE Rebuild
    BY <2>1 DEF Rebuild
  <2>2. CASE DeviceStarts
    BY <2>2 DEF DeviceStarts
  <2>3. CASE Poll
    BY <2>3 DEF Poll, PollWaits, PollEdits, InsertAndFadeIn, EditTopology, graphVars
  <2>4. ASSUME NEW g \in Nodes, Callback(g) PROVE UNCHANGED rendering
    BY <2>4 DEF Callback, InstantiationDropped, InstantiatedFirst, InstantiatedSwap,
                InsertAndFadeIn, EditTopology, graphVars
  <2>5. CASE Load \/ Remove \/ DestroySlot \/ DeviceStops \/ AudioBlock
    BY <2>5 DEF Load, Remove, DestroySlot, DeviceStops, AudioBlock, graphVars
  <2> QED
    BY <2>1, <2>2, <2>3, <2>4, <2>5 DEF Next
<1> QED
  BY Invariance, <1>1, PTL DEF Spec, NoChoppedTail

-----------------------------------------------------------------------------
(* Every step of the whole is a step of the slot or leaves it alone. *)
LEMMA StepIsSlotStep == [LatencyNext]_systemVars => [Next]_vars
<1> SUFFICES ASSUME [LatencyNext]_systemVars PROVE [Next]_vars
  OBVIOUS
<1>1. ASSUME NEW n \in Nodes, NEW latency \in Latencies, ChangedOnMessageThread(n, latency)
      PROVE  UNCHANGED vars
  BY <1>1 DEF ChangedOnMessageThread
<1>2. ASSUME NEW latency \in Latencies, ChangedOnAudioThread(latency) PROVE UNCHANGED vars
  BY <1>2 DEF ChangedOnAudioThread
<1>3. CASE Frame
  BY <1>3 DEF Frame, Next
<1>4. CASE RebuildGraph
  BY <1>4 DEF RebuildGraph, Next
<1>5. CASE StartDevice
  BY <1>5 DEF StartDevice, Next
<1>6. CASE Block
  BY <1>6 DEF Block, Next
<1>7. CASE (Load \/ Remove \/ DestroySlot \/ DeviceStops) /\ UNCHANGED latencyVars
  BY <1>7 DEF Next
<1>8. ASSUME NEW g \in Nodes, InstantiationCallback(g) PROVE Next
  BY <1>8 DEF InstantiationCallback, Next
<1>9. CASE UNCHANGED systemVars
  BY <1>9 DEF systemVars
<1> QED
  BY <1>1, <1>2, <1>3, <1>4, <1>5, <1>6, <1>7, <1>8, <1>9 DEF LatencyNext

(* The whole implements the slot.                                            *)
THEOREM SlotIsUndisturbed == LatencySpec => Spec
<1>1. LatencyInit => Init
  BY DEF LatencyInit
<1> QED
  BY <1>1, StepIsSlotStep, PTL DEF LatencySpec, Spec

(* With latencies revised on any thread, the slot's pointer still never      *)
(* dangles, the latest call wins and no tail is chopped.                     *)
THEOREM SlotPromisesKept ==
  LatencySpec => [](CurrentIsInserted /\ LatestWins) /\ NoChoppedTail
<1>1. Spec => []CurrentIsInserted
  BY PointerIsSafe, PTL
<1> QED
  BY <1>1, SlotIsUndisturbed, LatestCallWins, TailsAreNotChopped, PTL
=============================================================================
