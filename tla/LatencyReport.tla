---------------------------- MODULE LatencyReport ----------------------------
(***************************************************************************)
(* The way of a plug-in's latency to the panel, around the swaps, removals *)
(* and device restarts of SynthSlot: the wrapped instance, which may       *)
(* revise its latency on any thread; the wrapper (HostedPluginNode), which *)
(* may only raise a flag on the audio thread and is polled for it; the     *)
(* graph, whose total changes with a rebuild; MasterProcessor, which       *)
(* reports a changed total once, through the event queue; and DebugPanel,  *)
(* which polls and drains on every UI frame.                               *)
(***************************************************************************)
EXTENDS SynthSlot, Integers, Sequences

CONSTANTS
  Latencies,  \* what an instance may report, in samples
  MaxChanges, \* bound on the revisions of a latency
  EventRoom   \* how many events fit the queue

ASSUME LatencyAssumption ==
  Latencies \subseteq Nat \ {0} /\ Latencies # {} /\ EventRoom \in Nat

VARIABLES
  innerLatency,  \* per node: what the wrapped instance reports
  latencyDirty,  \* per node: a change is flagged and not forwarded
  nodeLatency,   \* per node: what the wrapper reports to the graph
  relayoutDue,   \* the graph was told that a node's latency changed
  graphLatency,  \* the total of the sequence last built
  lastReportedLatency,
  events,        \* latencyChanged events on their way to the panel
  lastEvent,     \* what the panel shows: the last one drained
  changes,
  refused        \* history: an event found the queue full

latencyVars == <<innerLatency, latencyDirty, nodeLatency, relayoutDue, graphLatency,
                 lastReportedLatency, events, lastEvent, changes, refused>>
instanceVars == <<innerLatency, latencyDirty, changes>>
reportVars == <<lastReportedLatency, events, lastEvent, refused>>
systemVars == <<vars, latencyVars>>

NotReported == -1

First == CHOOSE l \in Latencies : \A other \in Latencies : l <= other

LatencyInit ==
  /\ Init
  /\ innerLatency = [n \in Nodes |-> First]
  /\ latencyDirty = [n \in Nodes |-> FALSE]
  /\ nodeLatency = [n \in Nodes |-> First]  \* the constructor seeds it
  /\ relayoutDue = FALSE
  /\ graphLatency = 0
  /\ lastReportedLatency = NotReported
  /\ events = << >>
  /\ lastEvent = NotReported
  /\ changes = 0
  /\ refused = FALSE

LatencyOf(node, reports) == IF node = None THEN 0 ELSE reports[node]

-----------------------------------------------------------------------------
(* setLatencySamples of the wrapper of n: the graph hears of a change of a   *)
(* node it holds, and posts a rebuild.                                       *)
SetLatencySamples(n, latency) ==
  /\ nodeLatency' = [nodeLatency EXCEPT ![n] = latency]
  /\ relayoutDue' = (relayoutDue \/ (n = topology /\ latency # nodeLatency[n]))

Revise(n, latency) ==
  /\ changes < MaxChanges
  /\ changes' = changes + 1
  /\ latency # innerLatency[n]
  /\ innerLatency' = [innerLatency EXCEPT ![n] = latency]

(* audioProcessorChanged on the message thread forwards at once, ...        *)
ChangedOnMessageThread(n, latency) ==
  /\ slotAlive
  /\ n \in {topology, pendingNode} \ {None}
  /\ Revise(n, latency)
  /\ SetLatencySamples(n, latency)
  /\ UNCHANGED <<vars, latencyDirty, graphLatency, reportVars>>

(* ... on the audio thread, from the instance's own processBlock, it sets   *)
(* the flag and no more.                                                    *)
ChangedOnAudioThread(latency) ==
  /\ running
  /\ rendering # None
  /\ Revise(rendering, latency)
  /\ latencyDirty' = [latencyDirty EXCEPT ![rendering] = TRUE]
  /\ UNCHANGED <<vars, nodeLatency, relayoutDue, graphLatency, reportVars>>

(* Fault in PollPendingLatencyChange: only a frame that also waits for a    *)
(* fade looks at the flag.                                                  *)
PollPendingWhenBusy ==
  /\ IF currentSynth # None /\ latencyDirty[currentSynth] /\ state = "awaitingFadeOut"
     THEN /\ latencyDirty' = [latencyDirty EXCEPT ![currentSynth] = FALSE]
          /\ SetLatencySamples(currentSynth, innerLatency[currentSynth])
     ELSE UNCHANGED <<latencyDirty, nodeLatency, relayoutDue>>
  /\ UNCHANGED <<innerLatency, changes>>

(* poll, every frame: the current synth's flag is taken and its latency     *)
(* forwarded, before the idle slot leaves.                                  *)
PollPendingLatencyChange ==
  /\ IF currentSynth # None /\ latencyDirty[currentSynth]
     THEN /\ latencyDirty' = [latencyDirty EXCEPT ![currentSynth] = FALSE]
          /\ SetLatencySamples(currentSynth, innerLatency[currentSynth])
     ELSE UNCHANGED <<latencyDirty, nodeLatency, relayoutDue>>
  /\ UNCHANGED <<innerLatency, changes>>

(* One UI frame: poll the slot, then drain the events.                      *)
Frame ==
  /\ slotAlive
  /\ PollPendingLatencyChange
  /\ Poll \/ (state = "idle" /\ UNCHANGED vars)
  /\ events' = << >>
  /\ lastEvent' = IF events = << >> THEN lastEvent ELSE events[Len(events)]
  /\ UNCHANGED <<graphLatency, lastReportedLatency, refused>>

-----------------------------------------------------------------------------
(* A node that is prepared forwards its latency; the sequence built with it *)
(* has the total.                                                           *)
BuildSequence(prepared) ==
  /\ relayoutDue' = FALSE
  /\ nodeLatency' = IF prepared THEN [nodeLatency EXCEPT ![topology] = innerLatency[topology]]
                    ELSE nodeLatency
  /\ graphLatency' = LatencyOf(topology, nodeLatency')
  /\ UNCHANGED <<instanceVars, reportVars>>

RebuildGraph ==
  /\ rebuildDue \/ relayoutDue
  /\ Rebuild \/ (~ rebuildDue /\ UNCHANGED vars)
  /\ BuildSequence(running /\ topology # None /\ topology # rendering)

StartDevice == DeviceStarts /\ BuildSequence(topology # None)

(* MasterProcessor at the end of a block: a total that differs from the one *)
(* last reported is reported once, and is lost if the queue is full.        *)
ReportLatency ==
  /\ lastReportedLatency' = graphLatency
  /\ IF graphLatency = lastReportedLatency
     THEN UNCHANGED <<events, refused>>
     ELSE IF Len(events) < EventRoom
          THEN events' = Append(events, graphLatency) /\ UNCHANGED refused
          ELSE refused' = TRUE /\ UNCHANGED events
  /\ UNCHANGED <<instanceVars, nodeLatency, relayoutDue, graphLatency, lastEvent>>

Block ==
  /\ running
  /\ AudioBlock \/ (rendering = None /\ UNCHANGED vars)
  /\ ReportLatency

-----------------------------------------------------------------------------
InstantiationCallback(g) == Callback(g) /\ UNCHANGED latencyVars

LatencyNext ==
  \/ \E n \in Nodes, latency \in Latencies : ChangedOnMessageThread(n, latency)
  \/ \E latency \in Latencies : ChangedOnAudioThread(latency)
  \/ Frame \/ RebuildGraph \/ StartDevice \/ Block
  \/ ((Load \/ Remove \/ DestroySlot \/ DeviceStops) /\ UNCHANGED latencyVars)
  \/ \E g \in Nodes : InstantiationCallback(g)

LatencySpec == LatencyInit /\ [][LatencyNext]_systemVars

(* UI frames keep coming while the panel lives, an instantiation calls      *)
(* back, the message loop runs what is posted, and an open device calls the *)
(* graph; nothing says that a device stays or comes back.                   *)
FairLatencySpec ==
  /\ LatencySpec
  /\ WF_systemVars(Frame)
  /\ \A g \in Nodes : WF_systemVars(InstantiationCallback(g))
  /\ WF_systemVars(RebuildGraph)
  /\ WF_systemVars(Block)

-----------------------------------------------------------------------------
(* Properties *)

(* Every variable stays in its range. *)
LatencyTypeOK ==
  /\ TypeOK
  /\ innerLatency \in [Nodes -> Latencies] /\ nodeLatency \in [Nodes -> Latencies]
  /\ latencyDirty \in [Nodes -> BOOLEAN]
  /\ {relayoutDue, refused} \subseteq BOOLEAN
  /\ graphLatency \in Latencies \union {0}
  /\ {lastReportedLatency, lastEvent} \subseteq Latencies \union {0, NotReported}
  /\ events \in Seq(Latencies \union {0})
  /\ changes \in 0 .. MaxChanges

(* The panel ends with the latency of the synth that is there, whatever     *)
(* thread it was revised on and whatever was swapped, removed or restarted  *)
(* meanwhile, once the device stays open; only an event refused by the full *)
(* queue can leave it wrong.                                                *)
LatencyIsShown ==
  <>[](running /\ slotAlive) =>
    <>[](refused \/ lastEvent = LatencyOf(topology, innerLatency))
=============================================================================
