--------------------------- MODULE PatternChannel ---------------------------
(***************************************************************************)
(* engine/sequencer/PatternChannel.h with its RetirementQueue, the message *)
(* thread's reclaim and PatternDocument::publishTo, and the audio thread's *)
(* adoption at each block head: the heap-allocated PatternSnapshots cross  *)
(* to the audio thread through one atomic slot and come back through an    *)
(* SPSC queue to be deleted. A snapshot is its build number.               *)
(*                                                                         *)
(* The steps are the accesses to shared memory: the exchanges on           *)
(* pendingPublish, the push and the drain of the queue (BoundedQueue: a    *)
(* drained slot is free only when the whole drain ends), and the deletes.  *)
(***************************************************************************)
EXTENDS Naturals, Sequences, FiniteSets

CONSTANTS
  MaxBuilds,  \* bound on the snapshots built
  RetireRoom, \* items the retirement queue holds (255 for its 256 slots)
  MaxTicks    \* bound on the UI ticks that reclaim without publishing

ASSUME MaxBuildsAssumption == MaxBuilds \in Nat
ASSUME RetireRoomAssumption == RetireRoom \in Nat
ASSUME MaxTicksAssumption == MaxTicks \in Nat

VARIABLES
  buildCounter,   \* the snapshots built are 1 .. buildCounter
  pendingPublish, \* the offered snapshot, or nullptr
  activeSnapshot, \* the sequencer node's held snapshot, or nullptr
  next,           \* adopt's local: the snapshot it has taken, or nullptr
  retired,        \* retirement queue: snapshots waiting for the message thread
  lent,           \* queue slots a drain in progress has emptied but not released
  covered,        \* how many more items the drain in progress covers
  dropped,        \* retirements refused by a full queue: leaks
  deletes,        \* how often each snapshot has been deleted
  ui,             \* message thread: what it is doing
  audio,          \* audio thread: "render", "took" or "handed" (in adopt), "stopped"
  ticks           \* UI ticks so far

queueVars == <<retired, lent, covered, dropped>>
channelVars ==
  <<buildCounter, pendingPublish, activeSnapshot, next, queueVars, deletes, ui, audio, ticks>>

nullptr == 0

Snapshots == 1 .. MaxBuilds

(* Where the message thread can be: idle; inside the reclaim of a UI tick,  *)
(* of a publishTo or of the channel's destructor; about to publish; or in   *)
(* the teardown, after the sequencer node and after the channel.            *)
Reclaiming == {"reclaimTick", "reclaimPublish", "reclaimDestroy"}
UiStates == Reclaiming \union {"idle", "publish", "nodeGone", "destroy", "gone"}

Init ==
  /\ buildCounter = 0
  /\ pendingPublish = nullptr
  /\ activeSnapshot = nullptr
  /\ next = nullptr
  /\ retired = << >>
  /\ lent = 0
  /\ covered = 0
  /\ dropped = 0
  /\ deletes = [s \in Snapshots |-> 0]
  /\ ui = "idle"
  /\ audio = "render"
  /\ ticks = 0

(* RetirementQueue::retire. *)
Retire(s) ==
  /\ retired' = IF s # nullptr /\ Len(retired) + lent < RetireRoom
                THEN Append(retired, s) ELSE retired
  /\ dropped' = IF s # nullptr /\ Len(retired) + lent >= RetireRoom
                THEN dropped + 1 ELSE dropped
  /\ UNCHANGED <<lent, covered>>

(* `delete`, which ignores nullptr. *)
Delete(s) == deletes' = IF s = nullptr THEN deletes ELSE [deletes EXCEPT ![s] = @ + 1]

-----------------------------------------------------------------------------
(* Faults, each one slip away from the code; the mutation runs put one in    *)
(* the place of the action it is named after.                               *)

(* Publish: a store instead of an exchange forgets the displaced snapshot. *)
PublishStores ==
  /\ ui = "publish"
  /\ buildCounter' = buildCounter + 1
  /\ pendingPublish' = buildCounter'
  /\ ui' = "idle"
  /\ UNCHANGED <<activeSnapshot, next, queueVars, deletes, audio, ticks>>

(* Publish: a snapshot offered while another waits is thrown away. *)
PublishIntoEmptyOnly ==
  /\ ui = "publish"
  /\ buildCounter' = buildCounter + 1
  /\ pendingPublish' = IF pendingPublish = nullptr THEN buildCounter' ELSE pendingPublish
  /\ deletes' = IF pendingPublish = nullptr THEN deletes ELSE [deletes EXCEPT ![buildCounter'] = 1]
  /\ ui' = "idle"
  /\ UNCHANGED <<activeSnapshot, next, queueVars, audio, ticks>>

(* DestroyNode: the node forgets to hand its snapshot back. *)
DestroyNodeForgets ==
  /\ ui = "idle"
  /\ audio = "stopped"
  /\ activeSnapshot' = nullptr
  /\ ui' = "nodeGone"
  /\ UNCHANGED <<buildCounter, pendingPublish, next, queueVars, deletes, audio, ticks>>

-----------------------------------------------------------------------------
(* The message thread. *)

(* RetirementQueue::reclaim starts: the drain covers what is ready now. *)
StartReclaim(state) ==
  /\ ui' = state
  /\ covered' = Len(retired)
  /\ UNCHANGED <<pendingPublish, activeSnapshot, next, retired, lent, dropped, deletes, audio>>

(* EngineGraph::reclaimRetiredPatterns, once per UI tick. *)
Tick ==
  /\ ui = "idle"
  /\ ticks < MaxTicks
  /\ ticks' = ticks + 1
  /\ StartReclaim("reclaimTick")
  /\ UNCHANGED buildCounter

(* PatternDocument::publishTo reclaims first, then builds and publishes. *)
PublishTo ==
  /\ ui = "idle"
  /\ buildCounter < MaxBuilds
  /\ StartReclaim("reclaimPublish")
  /\ UNCHANGED <<buildCounter, ticks>>

ReclaimOne ==
  /\ ui \in Reclaiming
  /\ covered > 0
  /\ Delete(Head(retired))
  /\ retired' = Tail(retired)
  /\ lent' = lent + 1
  /\ covered' = covered - 1
  /\ UNCHANGED <<buildCounter, pendingPublish, activeSnapshot, next, dropped, ui, audio, ticks>>

ReclaimDone ==
  /\ ui \in Reclaiming
  /\ covered = 0
  /\ lent' = 0
  /\ ui' = CASE ui = "reclaimTick"    -> "idle"
             [] ui = "reclaimPublish" -> "publish"
             [] ui = "reclaimDestroy" -> "destroy"
  /\ UNCHANGED <<buildCounter, pendingPublish, activeSnapshot, next, retired, covered,
                 dropped, deletes, audio, ticks>>

(* publish: the exchange decides who owns the displaced snapshot. *)
Publish ==
  /\ ui = "publish"
  /\ buildCounter' = buildCounter + 1
  /\ pendingPublish' = buildCounter'
  /\ Delete(pendingPublish)
  /\ ui' = "idle"
  /\ UNCHANGED <<activeSnapshot, next, queueVars, audio, ticks>>

-----------------------------------------------------------------------------
(* The audio thread: adopt, at the head of a block. An empty slot leaves at *)
(* once: a stutter.                                                         *)

AdoptTake ==
  /\ audio = "render"
  /\ pendingPublish # nullptr
  /\ next' = pendingPublish
  /\ pendingPublish' = nullptr
  /\ audio' = "took"
  /\ UNCHANGED <<buildCounter, activeSnapshot, queueVars, deletes, ui, ticks>>

AdoptRetire ==
  /\ audio = "took"
  /\ Retire(activeSnapshot)
  /\ audio' = "handed"
  /\ UNCHANGED <<buildCounter, pendingPublish, activeSnapshot, next, deletes, ui, ticks>>

AdoptHold ==
  /\ audio = "handed"
  /\ activeSnapshot' = next
  /\ next' = nullptr
  /\ audio' = "render"
  /\ UNCHANGED <<buildCounter, pendingPublish, queueVars, deletes, ui, ticks>>

-----------------------------------------------------------------------------
(* The message thread closes and reopens the device, always between two     *)
(* blocks; the sequencer node keeps what it holds. At the end, with the     *)
(* device closed, the graph dies first and its sequencer node retires what  *)
(* it holds; then the channel reclaims and deletes what was never adopted.  *)

SwitchAudio ==
  /\ ui = "idle"
  /\ audio \in {"render", "stopped"}
  /\ audio' = IF audio = "render" THEN "stopped" ELSE "render"
  /\ UNCHANGED <<buildCounter, pendingPublish, activeSnapshot, next, queueVars, deletes, ui, ticks>>

DestroyNode ==
  /\ ui = "idle"
  /\ audio = "stopped"
  /\ Retire(activeSnapshot)
  /\ activeSnapshot' = nullptr
  /\ ui' = "nodeGone"
  /\ UNCHANGED <<buildCounter, pendingPublish, next, deletes, audio, ticks>>

DestroyChannelReclaim ==
  /\ ui = "nodeGone"
  /\ StartReclaim("reclaimDestroy")
  /\ UNCHANGED <<buildCounter, ticks>>

DestroyChannelPending ==
  /\ ui = "destroy"
  /\ Delete(pendingPublish)
  /\ pendingPublish' = nullptr
  /\ ui' = "gone"
  /\ UNCHANGED <<buildCounter, activeSnapshot, next, queueVars, audio, ticks>>

-----------------------------------------------------------------------------
Call == ReclaimOne \/ ReclaimDone \/ Publish

Adopt == AdoptTake \/ AdoptRetire \/ AdoptHold

Teardown == DestroyNode \/ DestroyChannelReclaim \/ DestroyChannelPending

Next == Tick \/ PublishTo \/ Call \/ Adopt \/ SwitchAudio \/ Teardown

Spec == Init /\ [][Next]_channelVars

-----------------------------------------------------------------------------
(* Properties *)

(* Every variable stays in its range. *)
TypeOK ==
  /\ buildCounter \in 0 .. MaxBuilds
  /\ {pendingPublish, activeSnapshot, next} \subseteq 0 .. buildCounter
  /\ retired \in Seq(1 .. buildCounter)
  /\ lent \in Nat /\ covered \in Nat /\ dropped \in Nat
  /\ deletes \in [Snapshots -> Nat]
  /\ ui \in UiStates
  /\ audio \in {"render", "took", "handed", "stopped"}
  /\ ticks \in 0 .. MaxTicks

(* The retirement queue never overflows, so no snapshot is leaked: publishTo *)
(* reclaims before it publishes, and only a publication lets the audio      *)
(* thread retire again. Room for four is enough.                            *)
NeverDropped == dropped = 0

(* The places that own snapshot s. While adopt is between handing the old   *)
(* snapshot back and storing the new one, activeSnapshot owns nothing.      *)
Owners(s) ==
  {<<place, 0>> : place \in {p \in {"pending", "next", "held"} :
                               \/ p = "pending" /\ pendingPublish = s
                               \/ p = "next" /\ next = s
                               \/ p = "held" /\ activeSnapshot = s /\ audio # "handed"}}
  \union {<<"retired", i>> : i \in {j \in 1 .. Len(retired) : retired[j] = s}}

(* Every snapshot built has one owner until it is deleted, and is deleted   *)
(* once: nothing leaks, nothing is freed twice or freed while reachable.    *)
OneOwner ==
  \A s \in 1 .. buildCounter :
    \/ deletes[s] = 1 /\ Owners(s) = {}
    \/ deletes[s] = 0 /\ \E place \in Owners(s) : Owners(s) = {place}

(* After the teardown every snapshot ever built has been deleted. *)
AllFreedAtExit == ui = "gone" => \A s \in 1 .. buildCounter : deletes[s] = 1

=============================================================================
