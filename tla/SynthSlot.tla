----------------------------- MODULE SynthSlot ------------------------------
(***************************************************************************)
(* Loading, swapping and removing the instrument while it plays:           *)
(* app/SynthSlot.cpp with the parts of the system it choreographs, the     *)
(* asynchronous PluginInstantiator, the asynchronous topology edits of     *)
(* EngineGraph::setSynth and removeSynth, the fade handshake of            *)
(* HostedPluginNode, and the device starting and stopping under it.        *)
(*                                                                         *)
(* A wrapped plug-in is named by the generation of the load that asked for *)
(* it. Everything but AudioBlock runs on the message thread, one callback  *)
(* at a time. The fade is a level that moves by one per audio block.       *)
(***************************************************************************)
EXTENDS Naturals

CONSTANTS
  MaxGenerations,  \* bound on the calls of load and remove
  MaxFadeOutPolls, \* UI frames a handshake may wait (30 in the code)
  Unity,           \* audio blocks a fade takes; the level of an open fade
  MaxDeviceStops   \* bound on the times the device goes away

ASSUME BoundsAssumption ==
  /\ MaxGenerations \in Nat /\ MaxDeviceStops \in Nat
  /\ MaxFadeOutPolls \in Nat \ {0} /\ Unity \in Nat \ {0}

VARIABLES
  generation,   \* bumped by every load and remove
  inFlight,     \* generations whose instantiation has not called back
  currentSynth, \* the node the slot believes inserted, or None
  pendingNode,  \* the incoming node, or None
  state,        \* "idle" or "awaitingFadeOut"
  fadeOutPollsRemaining,
  slotAlive,    \* FALSE once the coordinator has been destroyed
  topology,     \* the synth node of the graph, or None
  rendering,    \* the synth node the audio thread renders, or None
  rebuildDue,   \* an asynchronous rebuild of the render sequence is posted
  running,      \* the device is open and calls the graph
  stops,        \* times the device went away
  fadedOut,     \* per node: the swap fade's target is silence
  fadeGain,     \* per node: its level, 0 .. Unity
  fadeOutComplete, \* per node: the handshake flag
  lastAsked,    \* history: what the latest call asked for, "load" or "remove"
  loaded,       \* history: the generations whose instantiation succeeded
  cut           \* history: nodes taken out because the budget ran out

slotVars == <<generation, inFlight, currentSynth, pendingNode, state,
              fadeOutPollsRemaining, slotAlive>>
graphVars == <<topology, rendering, rebuildDue, running, stops>>
nodeVars == <<fadedOut, fadeGain, fadeOutComplete>>
historyVars == <<lastAsked, loaded, cut>>
vars == <<slotVars, graphVars, nodeVars, historyVars>>

None == 0
Nodes == 1 .. MaxGenerations

Init ==
  /\ generation = 0
  /\ inFlight = {}
  /\ currentSynth = None
  /\ pendingNode = None
  /\ state = "idle"
  /\ fadeOutPollsRemaining = 0
  /\ slotAlive = TRUE
  /\ topology = None
  /\ rendering = None
  /\ rebuildDue = FALSE
  /\ running \in BOOLEAN
  /\ stops = 0
  /\ fadedOut = [n \in Nodes |-> FALSE]
  /\ fadeGain = [n \in Nodes |-> Unity]
  /\ fadeOutComplete = [n \in Nodes |-> FALSE]
  /\ lastAsked = "remove"
  /\ loaded = {}
  /\ cut = {}

-----------------------------------------------------------------------------
(* Faults, each one slip away from the code; the mutation runs put one in    *)
(* the place of the definition it is named after. First InsertAndFadeIn:    *)
(* the incoming synth is never faded in.                                    *)
InsertWithoutFadeIn(node, faded) ==
  /\ topology' = node
  /\ rebuildDue' = TRUE
  /\ currentSynth' = node
  /\ fadedOut' = faded
  /\ UNCHANGED <<rendering, running, stops, fadeGain, fadeOutComplete>>

(* PollWaits: the wait is not bounded. *)
PollWaitsForever ==
  /\ slotAlive
  /\ state = "awaitingFadeOut"
  /\ currentSynth # None
  /\ ~ fadeOutComplete[currentSynth]
  /\ UNCHANGED vars

(* Succeeds: a superseded result is used. *)
SucceedsStale(g) ==
  /\ g \in inFlight
  /\ slotAlive
  /\ inFlight' = inFlight \ {g}
  /\ loaded' = loaded \union {g}
  /\ UNCHANGED <<generation, slotAlive, lastAsked, cut>>

(* AudioBlock: the handshake flag is the request, not the silence. *)
AudioBlockAnswersEarly ==
  /\ running
  /\ rendering # None
  /\ fadeOutComplete' = [fadeOutComplete EXCEPT ![rendering] = fadedOut[rendering]]
  /\ UNCHANGED <<slotVars, graphVars, fadedOut, fadeGain, historyVars>>

-----------------------------------------------------------------------------
(* The graph, as the slot uses it: setSynth and removeSynth edit the        *)
(* topology at once and post a rebuild; the old render sequence plays on.   *)
EditTopology(node) ==
  /\ topology' = node
  /\ rebuildDue' = TRUE
  /\ UNCHANGED <<rendering, running, stops>>

(* HostedPluginNode::prepareToPlay seeds the fade from its target. *)
Seed(n) == IF fadedOut[n] THEN 0 ELSE Unity

(* setSynth, then fadeIn: the rebuild, and the prepare in it, come later. *)
InsertAndFadeIn(node, faded) ==
  /\ EditTopology(node)
  /\ currentSynth' = node
  /\ fadedOut' = [faded EXCEPT ![node] = FALSE]
  /\ UNCHANGED <<fadeGain, fadeOutComplete>>

BeginFadeOutWait ==
  /\ fadeOutPollsRemaining' = MaxFadeOutPolls
  /\ state' = "awaitingFadeOut"

-----------------------------------------------------------------------------
(* Calls of the UI *)

Load ==
  /\ slotAlive
  /\ generation < MaxGenerations
  /\ generation' = generation + 1
  /\ inFlight' = inFlight \union {generation'}
  /\ lastAsked' = "load"
  /\ UNCHANGED <<currentSynth, pendingNode, state, fadeOutPollsRemaining, slotAlive,
                 graphVars, nodeVars, loaded, cut>>

Remove ==
  /\ slotAlive
  /\ generation < MaxGenerations
  /\ generation' = generation + 1
  /\ lastAsked' = "remove"
  /\ pendingNode' = None
  /\ IF currentSynth # None
     THEN fadedOut' = [fadedOut EXCEPT ![currentSynth] = TRUE] /\ BeginFadeOutWait
     ELSE state' = "idle" /\ UNCHANGED <<fadedOut, fadeOutPollsRemaining>>
  /\ UNCHANGED <<inFlight, currentSynth, slotAlive, graphVars, fadeGain,
                 fadeOutComplete, loaded, cut>>

(* One UI frame. *)
PollWaits ==
  /\ slotAlive
  /\ state = "awaitingFadeOut"
  /\ currentSynth # None
  /\ ~ fadeOutComplete[currentSynth]
  /\ fadeOutPollsRemaining > 1
  /\ fadeOutPollsRemaining' = fadeOutPollsRemaining - 1
  /\ UNCHANGED <<generation, inFlight, currentSynth, pendingNode, state, slotAlive,
                 graphVars, nodeVars, historyVars>>

(* Fault in PollEdits: after a removal the pointer to the node is kept. *)
PollEditsKeepsPointer ==
  /\ slotAlive
  /\ state = "awaitingFadeOut"
  /\ currentSynth # None
  /\ fadeOutComplete[currentSynth] \/ fadeOutPollsRemaining <= 1
  /\ IF pendingNode # None
     THEN InsertAndFadeIn(pendingNode, fadedOut)
     ELSE EditTopology(None) /\ UNCHANGED <<currentSynth, nodeVars>>
  /\ pendingNode' = None
  /\ state' = "idle"
  /\ UNCHANGED <<generation, inFlight, fadeOutPollsRemaining, slotAlive, historyVars>>

(* The outgoing node is silent, or the budget is spent: swap or remove. The *)
(* defensive branch for a handshake without a synth is left out: it cannot  *)
(* be reached (HandshakeHasSynth).                                          *)
PollEdits ==
  /\ slotAlive
  /\ state = "awaitingFadeOut"
  /\ currentSynth # None
  /\ fadeOutComplete[currentSynth] \/ fadeOutPollsRemaining <= 1
  /\ cut' = IF fadeOutComplete[currentSynth] THEN cut ELSE cut \union {currentSynth}
  /\ fadeOutPollsRemaining' = IF fadeOutComplete[currentSynth]
                              THEN fadeOutPollsRemaining ELSE fadeOutPollsRemaining - 1
  /\ IF pendingNode # None
     THEN InsertAndFadeIn(pendingNode, fadedOut)
     ELSE EditTopology(None) /\ currentSynth' = None /\ UNCHANGED nodeVars
  /\ pendingNode' = None
  /\ state' = "idle"
  /\ UNCHANGED <<generation, inFlight, slotAlive, lastAsked, loaded>>

DestroySlot ==
  /\ slotAlive
  /\ slotAlive' = FALSE
  /\ pendingNode' = None
  /\ UNCHANGED <<generation, inFlight, currentSynth, state, fadeOutPollsRemaining,
                 graphVars, nodeVars, historyVars>>

-----------------------------------------------------------------------------
(* The instantiation of generation g calls back: onInstantiated. *)

(* The slot is gone, or a newer load or remove superseded the request, or   *)
(* the instantiation failed: the result is dropped.                         *)
InstantiationDropped(g) ==
  /\ g \in inFlight
  /\ inFlight' = inFlight \ {g}
  /\ UNCHANGED <<generation, currentSynth, pendingNode, state, fadeOutPollsRemaining,
                 slotAlive, graphVars, nodeVars, historyVars>>

Succeeds(g) ==
  /\ g \in inFlight
  /\ slotAlive
  /\ g = generation
  /\ inFlight' = inFlight \ {g}
  /\ loaded' = loaded \union {g}
  /\ UNCHANGED <<generation, slotAlive, lastAsked, cut>>

(* Nothing is playing and nothing is staged: insert at once. *)
InstantiatedFirst(g) ==
  /\ Succeeds(g)
  /\ currentSynth = None /\ pendingNode = None /\ state = "idle"
  /\ InsertAndFadeIn(g, [fadedOut EXCEPT ![g] = TRUE])
  /\ UNCHANGED <<pendingNode, state, fadeOutPollsRemaining>>

(* Otherwise it becomes the incoming node, and the current one starts to    *)
(* fade out unless it is fading already.                                    *)
InstantiatedSwap(g) ==
  /\ Succeeds(g)
  /\ currentSynth # None \/ pendingNode # None \/ state # "idle"
  /\ pendingNode' = g
  /\ LET armed == [fadedOut EXCEPT ![g] = TRUE]
     IN IF state = "idle"
        THEN /\ BeginFadeOutWait
             /\ fadedOut' = IF currentSynth = None THEN armed
                            ELSE [armed EXCEPT ![currentSynth] = TRUE]
        ELSE fadedOut' = armed /\ UNCHANGED <<state, fadeOutPollsRemaining>>
  /\ UNCHANGED <<currentSynth, graphVars, fadeGain, fadeOutComplete>>

-----------------------------------------------------------------------------
(* The graph and the device *)

(* The posted rebuild: a node new to the sequence is prepared, then the     *)
(* sequences are exchanged. Without a device nothing is prepared yet.       *)
Rebuild ==
  /\ rebuildDue
  /\ rebuildDue' = FALSE
  /\ rendering' = topology
  /\ IF running /\ topology # None /\ topology # rendering
     THEN /\ fadeGain' = [fadeGain EXCEPT ![topology] = Seed(topology)]
          /\ fadeOutComplete' = [fadeOutComplete EXCEPT ![topology] = fadedOut[topology]]
     ELSE UNCHANGED <<fadeGain, fadeOutComplete>>
  /\ UNCHANGED <<slotVars, topology, running, stops, fadedOut, historyVars>>

DeviceStops ==
  /\ running
  /\ stops < MaxDeviceStops
  /\ stops' = stops + 1
  /\ running' = FALSE
  /\ UNCHANGED <<slotVars, topology, rendering, rebuildDue, nodeVars, historyVars>>

(* The graph is prepared again, with every node of the topology. *)
DeviceStarts ==
  /\ ~ running
  /\ running' = TRUE
  /\ rebuildDue' = FALSE
  /\ rendering' = topology
  /\ IF topology # None
     THEN /\ fadeGain' = [fadeGain EXCEPT ![topology] = Seed(topology)]
          /\ fadeOutComplete' = [fadeOutComplete EXCEPT ![topology] = fadedOut[topology]]
     ELSE UNCHANGED <<fadeGain, fadeOutComplete>>
  /\ UNCHANGED <<slotVars, topology, stops, fadedOut, historyVars>>

(* HostedPluginNode::processBlock: one step of the fade, and the handshake. *)
AudioBlock ==
  /\ running
  /\ rendering # None
  /\ LET gain == IF fadedOut[rendering]
                 THEN IF fadeGain[rendering] > 0 THEN fadeGain[rendering] - 1 ELSE 0
                 ELSE IF fadeGain[rendering] < Unity THEN fadeGain[rendering] + 1 ELSE Unity
     IN /\ fadeGain' = [fadeGain EXCEPT ![rendering] = gain]
        /\ fadeOutComplete' = [fadeOutComplete EXCEPT ![rendering] =
                                 fadedOut[rendering] /\ gain = 0]
  /\ UNCHANGED <<slotVars, graphVars, fadedOut, historyVars>>

-----------------------------------------------------------------------------
Callback(g) == InstantiationDropped(g) \/ InstantiatedFirst(g) \/ InstantiatedSwap(g)

Poll == PollWaits \/ PollEdits

Next ==
  \/ Load \/ Remove \/ Poll \/ DestroySlot
  \/ \E g \in Nodes : Callback(g)
  \/ Rebuild \/ DeviceStops \/ DeviceStarts \/ AudioBlock

Spec == Init /\ [][Next]_vars

-----------------------------------------------------------------------------
(* Properties *)

(* Every variable stays in its range. *)
Ranges ==
  /\ generation \in 0 .. MaxGenerations
  /\ inFlight \subseteq 1 .. generation /\ loaded \subseteq 1 .. generation
  /\ currentSynth \in Nodes \union {None} /\ pendingNode \in Nodes \union {None}
  /\ topology \in Nodes \union {None} /\ rendering \in Nodes \union {None}
  /\ state \in {"idle", "awaitingFadeOut"}
  /\ fadeOutPollsRemaining \in 0 .. MaxFadeOutPolls
  /\ state = "awaitingFadeOut" => fadeOutPollsRemaining > 0
  /\ stops \in 0 .. MaxDeviceStops
  /\ fadedOut \in [Nodes -> BOOLEAN]
  /\ fadeGain \in [Nodes -> 0 .. Unity]
  /\ fadeOutComplete \in [Nodes -> BOOLEAN]
  /\ lastAsked \in {"load", "remove"}
  /\ cut \subseteq Nodes

TypeOK == Ranges /\ {slotAlive, rebuildDue, running} \subseteq BOOLEAN

(* The raw pointer the slot keeps is always the node the graph owns: it     *)
(* never dangles and never misses a node.                                   *)
CurrentIsInserted == slotAlive => currentSynth = topology

(* SynthSlot::isPending, what the UI shows as busy. *)
isPending == inFlight # {} \/ state = "awaitingFadeOut" \/ pendingNode # None

(* The latest request wins: when the slot has settled, it is empty if the   *)
(* latest call was remove, and holds what the latest load asked for if that *)
(* load succeeded, however callbacks, polls and audio blocks were ordered;  *)
(* and what it holds plays, on its way to full level.                       *)
LatestWins ==
  slotAlive /\ ~ isPending =>
    /\ lastAsked = "remove" => currentSynth = None
    /\ generation \in loaded => currentSynth = generation
    /\ currentSynth # None => ~ fadedOut[currentSynth]

(* While the device runs, a synth leaves the render sequence only when it   *)
(* is silent, unless the poll budget ran out on it.                         *)
NoChoppedTail ==
  [][running /\ rendering' # rendering /\ rendering # None
       => fadeGain[rendering] = 0 \/ rendering \in cut]_vars

(* What poll relies on: while it waits there is a synth and it is fading    *)
(* out, and a staged node is never left without someone waiting for it.     *)
HandshakeHasSynth ==
  slotAlive =>
    /\ state = "awaitingFadeOut" => currentSynth # None /\ fadedOut[currentSynth]
    /\ pendingNode # None => state = "awaitingFadeOut"

(* A request never hangs, even if the device is gone and no audio block     *)
(* ever completes the fade.                                                 *)
EventuallySettles == isPending ~> ~ isPending \/ ~ slotAlive

=============================================================================
