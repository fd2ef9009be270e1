------------------------- MODULE PatternEditingProofs ------------------------
(***************************************************************************)
(* The channel: as long as the retirement queue holds four items it never  *)
(* overflows, however many snapshots are built, ticks pass and blocks      *)
(* interleave; and then every snapshot has one owner until it is deleted,  *)
(* once.                                                                   *)
(*                                                                         *)
(* The argument counts the snapshots that are, or may still become, items  *)
(* of the queue: those in it, the slots a drain has emptied but not given  *)
(* back, the offer and the one adopt has in hand. Only Publish adds to the *)
(* sum. It runs after a drain that covered all that was in the queue when  *)
(* publishTo began, so that at most the offer and the one in hand of that  *)
(* moment are left: two, and three with the new offer. The node's own      *)
(* snapshot, handed back at the teardown, is the fourth.                   *)
(*                                                                         *)
(* The document: its two stacks, with what it shows in between, are the    *)
(* linear history of EditHistory. The document on the channel: every step  *)
(* is a step of both, and what is published is never half a gesture.       *)
(***************************************************************************)
EXTENDS PatternEditing, SequenceTheorems, TLAPS

Closing == {"nodeGone", "reclaimDestroy", "destroy", "gone"}

(* Snapshots on their way to a retirement: each adoption causes at most one. *)
OnTheWay ==
  (IF pendingPublish # nullptr THEN 1 ELSE 0) + (IF audio = "took" THEN 1 ELSE 0)

(* What the variables range over, as far as the counting needs it. *)
Shape ==
  /\ pendingPublish \in Nat /\ activeSnapshot \in Nat /\ next \in Nat
  /\ buildCounter \in Nat
  /\ retired \in Seq(Nat)
  /\ lent \in Nat /\ covered \in 0 .. Len(retired)
  /\ ui \in UiStates
  /\ audio \in {"render", "took", "handed", "stopped"}

Counting ==
  /\ dropped = 0
  /\ ui \in Closing => audio = "stopped"
  /\ ui \in {"idle", "publish"} => lent = 0
  /\ ui \notin Closing => Len(retired) + lent + OnTheWay <= 3
  /\ ui = "reclaimPublish" => (Len(retired) - covered) + OnTheWay <= 2
  /\ ui = "publish" => Len(retired) + OnTheWay <= 2

IInv == Shape /\ Counting

LEMMA InitIInv == Init => IInv
  BY DEF Init, IInv, Shape, Counting, OnTheWay, nullptr, UiStates, Closing

(* A retirement that finds room queues at most one snapshot. *)
LEMMA RetireWithRoom ==
  ASSUME Shape, Len(retired) + lent < RetireRoom, NEW s \in Nat, Retire(s)
  PROVE  /\ retired' \in Seq(Nat)
         /\ Len(retired') \in {Len(retired), Len(retired) + 1}
         /\ dropped' = dropped /\ lent' = lent /\ covered' = covered
<1>1. Append(retired, s) \in Seq(Nat) /\ Len(Append(retired, s)) = Len(retired) + 1
  BY DEF Shape
<1>2. Len(retired) \in Nat /\ lent \in Nat /\ RetireRoom \in Nat
  BY RetireRoomAssumption DEF Shape
<1>3. QED
  BY <1>1, <1>2 DEF Retire, Shape

(* The message thread preserves the count. *)
LEMMA UiPreserves ==
  ASSUME IInv, Tick \/ PublishTo \/ Call \/ DestroyChannelReclaim \/ DestroyChannelPending
  PROVE  IInv'
<1> USE DEF IInv, Shape, Counting, OnTheWay, nullptr, UiStates, Closing, Reclaiming
<1>1. Len(retired) \in Nat
  OBVIOUS
<1>2. CASE Tick
  BY <1>1, <1>2 DEF Tick, StartReclaim
<1>3. CASE PublishTo
  BY <1>1, <1>3 DEF PublishTo, StartReclaim
<1>4. CASE ReclaimOne
  <2>1. Tail(retired) \in Seq(Nat) /\ Len(Tail(retired)) = Len(retired) - 1
    BY <1>4 DEF ReclaimOne
  <2>2. QED
    BY <1>1, <1>4, <2>1 DEF ReclaimOne
<1>5. CASE ReclaimDone
  BY <1>1, <1>5 DEF ReclaimDone
<1>6. CASE Publish
  BY <1>1, <1>6 DEF Publish, queueVars
<1>7. CASE DestroyChannelReclaim
  BY <1>1, <1>7 DEF DestroyChannelReclaim, StartReclaim
<1>8. CASE DestroyChannelPending
  BY <1>1, <1>8 DEF DestroyChannelPending, queueVars
<1>9. QED
  BY <1>2, <1>3, <1>4, <1>5, <1>6, <1>7, <1>8 DEF Call

(* So does the audio thread, which retires only while the sum is three. *)
LEMMA AudioPreserves ==
  ASSUME RetireRoom >= 4, IInv, Adopt \/ SwitchAudio
  PROVE  IInv'
<1> USE DEF IInv, Shape, Counting, OnTheWay, nullptr, UiStates, Closing, Reclaiming
<1>1. Len(retired) \in Nat
  OBVIOUS
<1>2. CASE AdoptTake
  BY <1>1, <1>2 DEF AdoptTake, queueVars
<1>3. CASE AdoptRetire
  <2>1. Len(retired) + lent < RetireRoom
    BY <1>1, <1>3, RetireRoomAssumption DEF AdoptRetire
  <2>2. /\ retired' \in Seq(Nat)
        /\ Len(retired') \in {Len(retired), Len(retired) + 1}
        /\ dropped' = dropped /\ lent' = lent /\ covered' = covered
    BY <1>3, <2>1, RetireWithRoom DEF AdoptRetire
  <2>3. QED
    BY <1>1, <1>3, <2>2 DEF AdoptRetire
<1>4. CASE AdoptHold
  BY <1>1, <1>4 DEF AdoptHold, queueVars
<1>5. CASE SwitchAudio
  BY <1>1, <1>5 DEF SwitchAudio, queueVars
<1>6. QED
  BY <1>2, <1>3, <1>4, <1>5 DEF Adopt

(* The node hands its snapshot back into the fourth place. *)
LEMMA DestroyNodePreserves ==
  ASSUME RetireRoom >= 4, IInv, DestroyNode
  PROVE  IInv'
<1> USE DEF IInv, Shape, Counting, OnTheWay, nullptr, UiStates, Closing, Reclaiming
<1>1. Len(retired) \in Nat
  OBVIOUS
<1>2. Len(retired) + lent < RetireRoom
  BY <1>1, RetireRoomAssumption DEF DestroyNode
<1>3. /\ retired' \in Seq(Nat)
      /\ Len(retired') \in {Len(retired), Len(retired) + 1}
      /\ dropped' = dropped /\ lent' = lent /\ covered' = covered
  BY <1>2, RetireWithRoom DEF DestroyNode
<1>4. QED
  BY <1>1, <1>3 DEF DestroyNode

(* Every step of either thread preserves the count. *)
LEMMA NextIInv == ASSUME RetireRoom >= 4, IInv, [Next]_channelVars PROVE IInv'
<1>1. CASE UNCHANGED channelVars
  BY <1>1 DEF IInv, Shape, Counting, OnTheWay, channelVars, queueVars
<1>2. CASE Next
  BY <1>2, UiPreserves, AudioPreserves, DestroyNodePreserves DEF Next, Teardown
<1>3. QED
  BY <1>1, <1>2

(* With room for four, no retirement is refused: no snapshot is leaked. *)
THEOREM QueueNeverOverflows ==
  ASSUME RetireRoom >= 4
  PROVE  Spec => []NeverDropped
<1>1. IInv => NeverDropped
  BY DEF IInv, Counting, NeverDropped
<1>2. IInv /\ [Next]_channelVars => IInv'
  BY NextIInv
<1>3. QED
  BY <1>1, <1>2, InitIInv, PTL DEF Spec

-----------------------------------------------------------------------------
(* Who owns a snapshot. The places are told apart without counting them: no  *)
(* two places hold one snapshot, and the undeleted are in some place. That   *)
(* no snapshot falls between two places needs the queue not to overflow.     *)

Held(s) == activeSnapshot = s /\ audio # "handed"
Queued(s) == \E i \in 1 .. Len(retired) : retired[i] = s

Bounds ==
  /\ buildCounter \in 0 .. MaxBuilds
  /\ ui \in {"reclaimPublish", "publish"} => buildCounter < MaxBuilds
  /\ pendingPublish \in 0 .. buildCounter
  /\ activeSnapshot \in 0 .. buildCounter
  /\ next \in 0 .. buildCounter
  /\ retired \in Seq(1 .. buildCounter)
  /\ deletes \in [Snapshots -> {0, 1}]
  /\ \A s \in Snapshots : s > buildCounter => deletes[s] = 0

Separate ==
  /\ pendingPublish # nullptr =>
       pendingPublish # next /\ ~ Held(pendingPublish) /\ ~ Queued(pendingPublish)
  /\ next # nullptr => ~ Held(next) /\ ~ Queued(next)
  /\ activeSnapshot # nullptr /\ audio # "handed" => ~ Queued(activeSnapshot)
  /\ \A i, j \in 1 .. Len(retired) : retired[i] = retired[j] => i = j

Reachable ==
  \A s \in 1 .. buildCounter :
    deletes[s] = 0 <=> pendingPublish = s \/ next = s \/ Held(s) \/ Queued(s)

(* In the teardown one place after another is emptied. *)
Emptied ==
  /\ next # nullptr <=> audio \in {"took", "handed"}
  /\ ui \in Closing => activeSnapshot = nullptr
  /\ ui = "reclaimDestroy" => covered = Len(retired)
  /\ ui \in {"destroy", "gone"} => retired = << >>
  /\ ui = "gone" => pendingPublish = nullptr

OwnerInv == Bounds /\ Separate /\ Reachable /\ Emptied

LEMMA InitOwnerInv == Init => OwnerInv
  BY MaxBuildsAssumption
     DEF Init, OwnerInv, Bounds, Separate, Reachable, Emptied, Held, Queued, Closing,
         Snapshots, nullptr

(* Steps that move no snapshot. *)
LEMMA QuietOwnerInv ==
  ASSUME IInv, OwnerInv,
         Tick \/ PublishTo \/ ReclaimDone \/ SwitchAudio \/ DestroyChannelReclaim
              \/ UNCHANGED channelVars
  PROVE  OwnerInv'
<1> USE DEF IInv, Shape, OwnerInv, Bounds, Separate, Reachable, Emptied, Held, Queued,
            nullptr, UiStates, Closing, Reclaiming
<1>1. CASE Tick
  BY <1>1 DEF Tick, StartReclaim
<1>2. CASE PublishTo
  BY <1>2, MaxBuildsAssumption DEF PublishTo, StartReclaim
<1>3. CASE ReclaimDone
  BY <1>3 DEF ReclaimDone
<1>4. CASE SwitchAudio
  BY <1>4 DEF SwitchAudio, queueVars
<1>5. CASE DestroyChannelReclaim
  BY <1>5 DEF DestroyChannelReclaim, StartReclaim
<1>6. CASE UNCHANGED channelVars
  BY <1>6 DEF channelVars, queueVars
<1>7. QED
  BY <1>1, <1>2, <1>3, <1>4, <1>5, <1>6

(* What a drained snapshot and a queued one do to the queue's contents. *)
LEMMA Drained ==
  ASSUME NEW b \in Nat, retired \in Seq(1 .. b), retired # << >>, retired' = Tail(retired),
         \A i, j \in 1 .. Len(retired) : retired[i] = retired[j] => i = j
  PROVE  /\ Head(retired) \in 1 .. b /\ Queued(Head(retired))
         /\ retired' \in Seq(1 .. b)
         /\ \A i, j \in 1 .. Len(retired') : retired'[i] = retired'[j] => i = j
         /\ \A s : Queued(s)' <=> Queued(s) /\ s # Head(retired)
<1>1. /\ Len(retired) \in Nat \ {0} /\ Head(retired) = retired[1]
      /\ retired' \in Seq(1 .. b) /\ Len(retired') = Len(retired) - 1
      /\ \A j \in 1 .. Len(retired') : retired'[j] = retired[j + 1]
  OBVIOUS
<1>2. Head(retired) \in 1 .. b /\ Queued(Head(retired))
  BY <1>1 DEF Queued
<1>3. \A i, j \in 1 .. Len(retired') : retired'[i] = retired'[j] => i = j
  <2> SUFFICES ASSUME NEW i \in 1 .. Len(retired'), NEW j \in 1 .. Len(retired'),
                      retired'[i] = retired'[j]
               PROVE  i = j
    OBVIOUS
  <2>1. retired[i + 1] = retired[j + 1] /\ {i + 1, j + 1} \subseteq 1 .. Len(retired)
    BY <1>1
  <2>2. QED
    BY <1>1, <2>1
<1>4. ASSUME NEW s PROVE Queued(s)' <=> Queued(s) /\ s # Head(retired)
  <2>1. ASSUME Queued(s)' PROVE Queued(s) /\ s # Head(retired)
    <3>1. PICK j \in 1 .. Len(retired') : retired'[j] = s
      BY <2>1 DEF Queued
    <3>2. retired[j + 1] = s /\ j + 1 \in 1 .. Len(retired) /\ j + 1 # 1 /\ 1 \in 1 .. Len(retired)
      BY <1>1, <3>1
    <3>3. QED
      BY <1>1, <3>2 DEF Queued
  <2>2. ASSUME Queued(s), s # Head(retired) PROVE Queued(s)'
    <3>1. PICK j \in 1 .. Len(retired) : retired[j] = s
      BY <2>2 DEF Queued
    <3>2. j - 1 \in 1 .. Len(retired') /\ retired'[j - 1] = s
      BY <1>1, <2>2, <3>1
    <3>3. QED
      BY <3>2 DEF Queued
  <2>3. QED
    BY <2>1, <2>2
<1>5. QED
  BY <1>1, <1>2, <1>3, <1>4

LEMMA HandedBack ==
  ASSUME NEW b \in Nat, NEW a \in 0 .. b, retired \in Seq(1 .. b), Retire(a),
         Len(retired) + lent < RetireRoom, lent \in Nat, a # nullptr => ~ Queued(a),
         \A i, j \in 1 .. Len(retired) : retired[i] = retired[j] => i = j
  PROVE  /\ retired' \in Seq(1 .. b)
         /\ \A i, j \in 1 .. Len(retired') : retired'[i] = retired'[j] => i = j
         /\ \A s \in 1 .. b : Queued(s)' <=> Queued(s) \/ s = a
<1>1. CASE a = nullptr
  BY <1>1 DEF Retire, Queued, nullptr
<1>2. CASE a # nullptr
  <2>1. /\ Len(retired) \in Nat /\ a \in 1 .. b
        /\ retired' = Append(retired, a)
    BY <1>2, RetireRoomAssumption DEF Retire, nullptr
  <2>2. /\ retired' \in Seq(1 .. b) /\ Len(retired') = Len(retired) + 1
        /\ retired'[Len(retired) + 1] = a
        /\ \A i \in 1 .. Len(retired) : retired'[i] = retired[i]
    BY <2>1
  <2>3. \A i, j \in 1 .. Len(retired') : retired'[i] = retired'[j] => i = j
    <3> SUFFICES ASSUME NEW i \in 1 .. Len(retired'), NEW j \in 1 .. Len(retired'),
                        retired'[i] = retired'[j]
                 PROVE  i = j
      OBVIOUS
    <3>1. i \in 1 .. Len(retired) \/ i = Len(retired) + 1
      BY <2>1, <2>2
    <3>2. j \in 1 .. Len(retired) \/ j = Len(retired) + 1
      BY <2>1, <2>2
    <3>3. QED
      BY <1>2, <2>1, <2>2, <3>1, <3>2 DEF Queued
  <2>4. ASSUME NEW s \in 1 .. b PROVE Queued(s)' <=> Queued(s) \/ s = a
    <3>1. 1 .. Len(retired') = 1 .. Len(retired) \union {Len(retired) + 1}
      BY <2>1, <2>2
    <3>2. QED
      BY <2>2, <3>1 DEF Queued
  <2>5. QED
    BY <2>2, <2>3, <2>4
<1>3. QED
  BY <1>1, <1>2

(* A delete frees a snapshot which its owner alone could reach. *)
LEMMA ReclaimOneOwnerInv == ASSUME IInv, OwnerInv, ReclaimOne PROVE OwnerInv'
<1>1. /\ buildCounter \in Nat /\ retired \in Seq(1 .. buildCounter)
      /\ \A i, j \in 1 .. Len(retired) : retired[i] = retired[j] => i = j
  BY MaxBuildsAssumption DEF OwnerInv, Bounds, Separate
<1>2. retired # << >> /\ retired' = Tail(retired)
  BY <1>1 DEF ReclaimOne, IInv, Shape
<1>3. /\ Head(retired) \in 1 .. buildCounter /\ Queued(Head(retired))
      /\ retired' \in Seq(1 .. buildCounter)
      /\ \A i, j \in 1 .. Len(retired') : retired'[i] = retired'[j] => i = j
      /\ \A s : Queued(s)' <=> Queued(s) /\ s # Head(retired)
  BY <1>1, <1>2, Drained
<1>4. /\ UNCHANGED <<buildCounter, pendingPublish, activeSnapshot, next, ui, audio>>
      /\ deletes' = [deletes EXCEPT ![Head(retired)] = @ + 1]
  BY <1>3 DEF ReclaimOne, Delete, nullptr
<1>5. deletes[Head(retired)] = 0 /\ Head(retired) \in Snapshots
  BY <1>3, MaxBuildsAssumption DEF OwnerInv, Reachable, Bounds, Snapshots
<1>6. Bounds'
  BY <1>1, <1>3, <1>4, <1>5 DEF OwnerInv, Bounds
<1>7. Separate'
  BY <1>3, <1>4 DEF OwnerInv, Separate, Held
<1>8. Reachable'
  <2> SUFFICES ASSUME NEW s \in 1 .. buildCounter
               PROVE  deletes'[s] = 0
                        <=> pendingPublish = s \/ next = s \/ Held(s) \/ Queued(s)'
    BY <1>4 DEF Reachable, Held
  <2>1. CASE s = Head(retired)
    BY <1>3, <1>4, <1>5, <2>1 DEF OwnerInv, Bounds, Separate, Held, nullptr
  <2>2. CASE s # Head(retired)
    BY <1>3, <1>4, <2>2 DEF OwnerInv, Bounds, Reachable
  <2>3. QED
    BY <2>1, <2>2
<1>9. Emptied'
  BY <1>1, <1>2, <1>4 DEF OwnerInv, Emptied, ReclaimOne, Reclaiming, Closing
<1>10. QED
  BY <1>6, <1>7, <1>8, <1>9 DEF OwnerInv

LEMMA PublishOwnerInv ==
  ASSUME IInv, OwnerInv, Publish \/ DestroyChannelPending PROVE OwnerInv'
<1> USE MaxBuildsAssumption
    DEF IInv, Shape, OwnerInv, Bounds, Separate, Reachable, Emptied, Held, Queued, nullptr,
        Snapshots, UiStates, Closing, Reclaiming, Delete, queueVars
<1>1. CASE Publish
  BY <1>1 DEF Publish
<1>2. CASE DestroyChannelPending
  BY <1>2 DEF DestroyChannelPending
<1>3. QED
  BY <1>1, <1>2

(* Adoption moves a snapshot from the offer to adopt's hand, the node's own *)
(* to the queue, and the one in hand to the node.                           *)
LEMMA AdoptOwnerInv ==
  ASSUME RetireRoom >= 4, IInv, OwnerInv, Adopt PROVE OwnerInv'
<1>1. CASE AdoptTake
  BY <1>1 DEF AdoptTake, queueVars, IInv, Shape, OwnerInv, Bounds, Separate, Reachable,
              Emptied, Held, Queued, nullptr, Closing
<1>2. CASE AdoptHold
  BY <1>2 DEF AdoptHold, queueVars, IInv, Shape, Counting, OwnerInv, Bounds, Separate,
              Reachable, Emptied, Held, Queued, nullptr, Closing
<1>3. CASE AdoptRetire
  <2>1. /\ Len(retired) + lent < RetireRoom /\ lent \in Nat /\ ui \notin Closing
        /\ buildCounter \in Nat
    BY <1>3, RetireRoomAssumption, MaxBuildsAssumption
       DEF AdoptRetire, IInv, Shape, Counting, OnTheWay, OwnerInv, Bounds
  <2>2. /\ UNCHANGED <<buildCounter, pendingPublish, activeSnapshot, next, deletes, ui>>
        /\ audio = "took" /\ audio' = "handed" /\ Retire(activeSnapshot)
    BY <1>3 DEF AdoptRetire
  <2>3. /\ retired' \in Seq(1 .. buildCounter)
        /\ \A i, j \in 1 .. Len(retired') : retired'[i] = retired'[j] => i = j
        /\ \A s \in 1 .. buildCounter : Queued(s)' <=> Queued(s) \/ s = activeSnapshot
    BY <2>1, <2>2, HandedBack DEF OwnerInv, Bounds, Separate
  <2>4. Bounds'
    BY <2>2, <2>3 DEF OwnerInv, Bounds
  <2>5. Separate'
    BY <2>2, <2>3 DEF OwnerInv, Bounds, Separate, Held, nullptr
  <2>6. Reachable'
    BY <2>2, <2>3 DEF OwnerInv, Reachable, Held
  <2>7. Emptied'
    BY <2>1, <2>2 DEF OwnerInv, Emptied, Closing
  <2>8. QED
    BY <2>4, <2>5, <2>6, <2>7 DEF OwnerInv
<1>4. QED
  BY <1>1, <1>2, <1>3 DEF Adopt

(* The node, in the teardown, hands back what it holds. *)
LEMMA DestroyNodeOwnerInv ==
  ASSUME RetireRoom >= 4, IInv, OwnerInv, DestroyNode PROVE OwnerInv'
<1>1. /\ Len(retired) + lent < RetireRoom /\ lent \in Nat
      /\ buildCounter \in Nat
  BY RetireRoomAssumption, MaxBuildsAssumption
     DEF DestroyNode, IInv, Shape, Counting, OnTheWay, OwnerInv, Bounds, Closing
<1>2. /\ UNCHANGED <<buildCounter, pendingPublish, next, deletes, audio>>
      /\ audio = "stopped" /\ Retire(activeSnapshot) /\ activeSnapshot' = nullptr
      /\ ui' = "nodeGone"
  BY DEF DestroyNode
<1>3. /\ retired' \in Seq(1 .. buildCounter)
      /\ \A i, j \in 1 .. Len(retired') : retired'[i] = retired'[j] => i = j
      /\ \A s \in 1 .. buildCounter : Queued(s)' <=> Queued(s) \/ s = activeSnapshot
  BY <1>1, <1>2, HandedBack DEF OwnerInv, Bounds, Separate
<1>4. Bounds'
  BY <1>1, <1>2, <1>3 DEF OwnerInv, Bounds, nullptr
<1>5. Separate'
  BY <1>2, <1>3 DEF OwnerInv, Bounds, Separate, Emptied, Held, nullptr
<1>6. Reachable'
  BY <1>2, <1>3 DEF OwnerInv, Reachable, Held, nullptr
<1>7. Emptied'
  BY <1>1, <1>2 DEF OwnerInv, Emptied, Closing
<1>8. QED
  BY <1>4, <1>5, <1>6, <1>7 DEF OwnerInv

LEMMA NextOwnerInv ==
  ASSUME RetireRoom >= 4, IInv, OwnerInv, [Next]_channelVars PROVE OwnerInv'
  BY QuietOwnerInv, ReclaimOneOwnerInv, PublishOwnerInv, AdoptOwnerInv, DestroyNodeOwnerInv
     DEF Next, Call, Teardown

LEMMA OwnersKnown ==
  ASSUME RetireRoom >= 4
  PROVE  Spec => [](IInv /\ OwnerInv)
<1>1. Init => IInv /\ OwnerInv
  BY InitIInv, InitOwnerInv
<1>2. IInv /\ OwnerInv /\ [Next]_channelVars => (IInv /\ OwnerInv)'
  BY NextIInv, NextOwnerInv
<1>3. QED
  BY <1>1, <1>2, PTL DEF Spec

(* With room for four, a snapshot is deleted or is in exactly one place. *)
THEOREM SnapshotsHaveOneOwner ==
  ASSUME RetireRoom >= 4
  PROVE  Spec => []OneOwner
<1>1. ASSUME IInv, OwnerInv PROVE OneOwner
  <2> SUFFICES ASSUME NEW s \in 1 .. buildCounter
               PROVE  \/ deletes[s] = 1 /\ Owners(s) = {}
                      \/ deletes[s] = 0 /\ \E place \in Owners(s) : Owners(s) = {place}
    BY DEF OneOwner
  <2>1. deletes[s] \in {0, 1} /\ s # 0 /\ s \in Nat /\ Len(retired) \in Nat
    BY <1>1, MaxBuildsAssumption DEF OwnerInv, Bounds, Snapshots
  <2>2. /\ <<"pending", 0>> \in Owners(s) <=> pendingPublish = s
        /\ <<"next", 0>> \in Owners(s) <=> next = s
        /\ <<"held", 0>> \in Owners(s) <=> Held(s)
        /\ \A i \in 1 .. Len(retired) : <<"retired", i>> \in Owners(s) <=> retired[i] = s
        /\ \A place \in Owners(s) :
             \/ place \in {<<"pending", 0>>, <<"next", 0>>, <<"held", 0>>}
             \/ \E i \in 1 .. Len(retired) : place = <<"retired", i>>
    BY DEF Owners, Held
  <2>3. CASE deletes[s] = 1
    BY <1>1, <2>1, <2>2, <2>3 DEF OwnerInv, Reachable, Queued
  <2>4. CASE deletes[s] = 0
    <3>1. pendingPublish = s \/ next = s \/ Held(s) \/ Queued(s)
      BY <1>1, <2>4 DEF OwnerInv, Reachable
    <3>2. \E place \in Owners(s) : \A other \in Owners(s) : other = place
      <4>1. CASE pendingPublish = s
        BY <1>1, <2>1, <2>2, <4>1 DEF OwnerInv, Separate, Queued, nullptr
      <4>2. CASE next = s
        BY <1>1, <2>1, <2>2, <4>2 DEF OwnerInv, Separate, Queued, nullptr
      <4>3. CASE Held(s)
        BY <1>1, <2>1, <2>2, <4>3 DEF OwnerInv, Separate, Held, Queued, nullptr
      <4>4. CASE Queued(s)
        <5>1. PICK i \in 1 .. Len(retired) : retired[i] = s
          BY <4>4 DEF Queued
        <5>2. pendingPublish # s /\ next # s /\ ~ Held(s)
          BY <1>1, <2>1, <4>4 DEF OwnerInv, Separate, Held, nullptr
        <5>3. \A j \in 1 .. Len(retired) : retired[j] = s => j = i
          BY <1>1, <5>1 DEF OwnerInv, Separate
        <5>4. <<"retired", i>> \in Owners(s)
          BY <2>2, <5>1
        <5>5. ASSUME NEW other \in Owners(s) PROVE other = <<"retired", i>>
          BY <2>2, <5>2, <5>3
        <5>6. QED
          BY <5>4, <5>5
      <4>5. QED
        BY <3>1, <4>1, <4>2, <4>3, <4>4
    <3>3. QED
      BY <2>4, <3>2
  <2>5. QED
    BY <2>1, <2>3, <2>4
<1>2. QED
  BY <1>1, OwnersKnown, PTL

(* With room for four, the teardown leaves no snapshot undeleted. *)
THEOREM NothingLeaksAtExit ==
  ASSUME RetireRoom >= 4
  PROVE  Spec => []AllFreedAtExit
<1>1. ASSUME IInv, OwnerInv PROVE AllFreedAtExit
  <2> SUFFICES ASSUME ui = "gone", NEW s \in 1 .. buildCounter PROVE deletes[s] = 1
    BY DEF AllFreedAtExit
  <2>1. deletes[s] \in {0, 1} /\ s # 0
    BY <1>1, MaxBuildsAssumption DEF OwnerInv, Bounds, Snapshots
  <2>2. /\ pendingPublish = 0 /\ next = 0 /\ activeSnapshot = 0 /\ retired = << >>
    BY <1>1 DEF IInv, Counting, OwnerInv, Emptied, Closing, nullptr
  <2>3. ~ Queued(s)
    BY <2>2 DEF Queued
  <2>4. QED
    BY <1>1, <2>1, <2>2, <2>3 DEF OwnerInv, Reachable, Held
<1>2. QED
  BY <1>1, OwnersKnown, PTL

-----------------------------------------------------------------------------
(* The document's history: what was done, what it shows, what was undone. *)

Line(u, c, r) == u \o <<c>> \o Reverse(r)

(* Of what elements a line is, the front of a sequence, and a longer one. *)
LineOf(S, line, u, c, r) ==
  /\ line \in Seq(S) /\ Len(line) = Len(u) + 1 + Len(r)
  /\ line[Len(u) + 1] = c
  /\ \A i \in 1 .. Len(u) : line[i] = u[i]
  /\ \A i \in 1 .. Len(r) : line[Len(u) + 1 + i] = r[Len(r) + 1 - i]

FrontOf(S, f, s) ==
  /\ f \in Seq(S) /\ Len(f) = Len(s) - 1
  /\ \A i \in 1 .. Len(s) - 1 : f[i] = s[i]

AppendOf(S, t, s, e) ==
  /\ t \in Seq(S) /\ Len(t) = Len(s) + 1
  /\ t[Len(s) + 1] = e
  /\ \A i \in 1 .. Len(s) : t[i] = s[i]

LEMMA LineShape ==
  ASSUME NEW S, NEW u \in Seq(S), NEW c \in S, NEW r \in Seq(S)
  PROVE  LineOf(S, Line(u, c, r), u, c, r)
<1> DEFINE back == Reverse(r)
<1>1. /\ back \in Seq(S) /\ Len(back) = Len(r)
      /\ \A i \in 1 .. Len(r) : back[i] = r[Len(r) + 1 - i]
  BY DEF Reverse
<1> HIDE DEF back
<1>2. <<c>> \in Seq(S) /\ Len(<<c>>) = 1 /\ <<c>>[1] = c
  OBVIOUS
<1> DEFINE one == u \o <<c>>
<1>3. /\ one \in Seq(S) /\ Len(one) = Len(u) + 1
      /\ \A i \in 1 .. Len(u) : one[i] = u[i]
      /\ one[Len(u) + 1] = c
  BY <1>2
<1> HIDE DEF one
<1>4. /\ one \o back \in Seq(S) /\ Len(one \o back) = Len(one) + Len(back)
      /\ \A i \in 1 .. Len(one) + Len(back) :
           (one \o back)[i] = IF i <= Len(one) THEN one[i] ELSE back[i - Len(one)]
  <2>1. one \in Seq(S) /\ back \in Seq(S)
    BY <1>1, <1>3
  <2> QED
    BY <2>1, ConcatProperties, Zenon
<1>5. Line(u, c, r) = one \o back
  BY DEF Line, one, back
<1>6. Len(u) \in Nat /\ Len(r) \in Nat
  OBVIOUS
<1>7. \A i \in 1 .. Len(u) + 1 : (one \o back)[i] = one[i]
  BY <1>1, <1>3, <1>4, <1>6
<1>8. ASSUME NEW i \in 1 .. Len(r) PROVE (one \o back)[Len(u) + 1 + i] = r[Len(r) + 1 - i]
  <2>1. /\ Len(u) + 1 + i \in 1 .. Len(one) + Len(back) /\ ~ (Len(u) + 1 + i <= Len(one))
        /\ (Len(u) + 1 + i) - Len(one) = i
    BY <1>1, <1>3, <1>6
  <2> QED
    BY <1>1, <1>4, <2>1
<1>9. Len(u) + 1 \in 1 .. Len(u) + 1 /\ \A i \in 1 .. Len(u) : i \in 1 .. Len(u) + 1
  BY <1>6
<1> QED
  BY <1>1, <1>3, <1>4, <1>5, <1>7, <1>8, <1>9 DEF LineOf

LEMMA FrontShape ==
  ASSUME NEW S, NEW s \in Seq(S), s # << >>
  PROVE  Len(s) \in Nat \ {0} /\ Last(s) \in S /\ FrontOf(S, Front(s), s)
<1> DEFINE n == Len(s) - 1
           f == SubSeq(s, 1, n)
<1>1. Len(s) \in Nat \ {0}
  OBVIOUS
<1>2. n \in Nat /\ 1 \in Int /\ n \in Int
  BY <1>1
<1>3. s[Len(s)] \in S /\ \A i \in 1 .. n : s[i] \in S
  BY <1>1, ElementOfSeq
<1> HIDE DEF n
<1>4. /\ f \in Seq(S)
      /\ Len(f) = IF 1 <= n THEN n - 1 + 1 ELSE 0
      /\ \A i \in 1 .. n - 1 + 1 : f[i] = s[1 + i - 1]
  BY <1>2, <1>3, SubSeqProperties
<1> HIDE DEF f
<1>5. /\ Len(f) = n
      /\ \A i \in 1 .. n : f[i] = s[i]
  BY <1>2, <1>4
<1> QED
  BY <1>1, <1>3, <1>4, <1>5, Zenon DEF Last, Front, FrontOf, f, n

LEMMA AppendShape ==
  ASSUME NEW S, NEW s \in Seq(S), NEW e \in S
  PROVE  AppendOf(S, Append(s, e), s, e)
  BY DEF AppendOf

(* Undo moves the cursor back along the line, and redo forward. *)
LEMMA UndoKeepsLine ==
  ASSUME NEW S, NEW u \in Seq(S), NEW c \in S, NEW r \in Seq(S), u # << >>
  PROVE  Line(Front(u), Last(u), Append(r, c)) = Line(u, c, r)
<1> DEFINE v == Front(u)
           d == Last(u)
           q == Append(r, c)
           old == Line(u, c, r)
           new == Line(v, d, q)
<1>1. /\ Len(u) \in Nat \ {0} /\ d \in S /\ d = u[Len(u)] /\ FrontOf(S, v, u)
  BY FrontShape, Zenon DEF Last
<1>2. Len(r) \in Nat /\ AppendOf(S, q, r, c)
  <2>1. AppendOf(S, q, r, c)
    BY AppendShape, Zenon
  <2> QED
    BY <2>1
<1> HIDE DEF v, d, q
<1>3. LineOf(S, old, u, c, r)
  BY LineShape, Zenon
<1>4. LineOf(S, new, v, d, q)
  BY <1>1, <1>2, LineShape, Zenon DEF FrontOf, AppendOf
<1> HIDE DEF old, new
<1> USE DEF LineOf, FrontOf, AppendOf
<1>5. Len(new) = Len(old)
  BY <1>1, <1>2, <1>3, <1>4
<1>6. ASSUME NEW i \in 1 .. Len(new) PROVE new[i] = old[i]
  <2>1. CASE i \in 1 .. Len(u) - 1
    <3>1. i \in 1 .. Len(v) /\ i \in 1 .. Len(u)
      BY <1>1, <2>1
    <3> QED
      BY <1>1, <1>3, <1>4, <2>1, <3>1, Zenon
  <2>2. CASE i = Len(u)
    BY <1>1, <1>3, <1>4, <2>2
  <2>3. CASE i = Len(u) + 1
    <3>1. i = Len(v) + 1 + 1 /\ 1 \in 1 .. Len(q) /\ Len(q) + 1 - 1 = Len(r) + 1
      BY <1>1, <1>2, <2>3
    <3> QED
      BY <1>2, <1>3, <1>4, <2>3, <3>1
  <2>4. ASSUME NEW j \in 1 .. Len(r), i = Len(u) + 1 + j PROVE new[i] = old[i]
    <3>1. i = Len(v) + 1 + (j + 1) /\ j + 1 \in 1 .. Len(q)
          /\ Len(q) + 1 - (j + 1) = Len(r) + 1 - j /\ Len(r) + 1 - j \in 1 .. Len(r)
      BY <1>1, <1>2, <2>4
    <3>2. new[i] = q[Len(r) + 1 - j]
      BY <1>4, <3>1
    <3> QED
      BY <1>2, <1>3, <2>4, <3>1, <3>2
  <2>5. \/ i \in 1 .. Len(u) - 1 \/ i = Len(u) \/ i = Len(u) + 1
        \/ i - Len(u) - 1 \in 1 .. Len(r) /\ i = Len(u) + 1 + (i - Len(u) - 1)
    BY <1>1, <1>2, <1>3, <1>5
  <2> QED
    BY <2>1, <2>2, <2>3, <2>4, <2>5
<1>7. new = old
  BY <1>3, <1>4, <1>5, <1>6, SeqEqual
<1> QED
  BY <1>7 DEF new, old, v, d, q

LEMMA RedoKeepsLine ==
  ASSUME NEW S, NEW u \in Seq(S), NEW c \in S, NEW r \in Seq(S), r # << >>
  PROVE  Line(Append(u, c), Last(r), Front(r)) = Line(u, c, r)
<1> DEFINE t == Append(u, c)
           f == Front(r)
           q == Append(f, Last(r))
           v == Front(t)
<1>1. Len(r) \in Nat \ {0} /\ Last(r) \in S /\ FrontOf(S, f, r)
  BY FrontShape, Zenon
<1>2. Len(u) \in Nat /\ AppendOf(S, t, u, c)
  <2>1. AppendOf(S, t, u, c)
    BY AppendShape, Zenon
  <2> QED
    BY <2>1
<1>3. AppendOf(S, q, f, Last(r))
  BY <1>1, AppendShape, Zenon DEF FrontOf
<1>4. t \in Seq(S) /\ t # << >>
  <2> HIDE DEF t
  <2> QED
    BY <1>2 DEF AppendOf
<1>5. FrontOf(S, v, t)
  BY <1>4, FrontShape, Zenon
<1> HIDE DEF t, f, q, v
<1>6. v = u
  <2>1. v \in Seq(S) /\ Len(v) = Len(u) /\ \A i \in 1 .. Len(v) : v[i] = u[i]
    BY <1>2, <1>5 DEF FrontOf, AppendOf
  <2> QED
    BY <2>1, SeqEqual, Zenon
<1>7. Last(t) = c
  BY <1>2 DEF Last, AppendOf
<1>8. q = r
  <2>1. q \in Seq(S) /\ Len(q) = Len(r) /\ \A i \in 1 .. Len(q) : q[i] = r[i]
    BY <1>1, <1>3 DEF FrontOf, AppendOf, Last
  <2> QED
    BY <2>1, SeqEqual, Zenon
<1>9. f \in Seq(S)
  BY <1>1 DEF FrontOf
<1>10. Line(v, Last(t), q) = Line(t, Last(r), f)
  BY <1>1, <1>4, <1>9, UndoKeepsLine, Zenon DEF v, q
<1> QED
  BY <1>6, <1>7, <1>8, <1>10 DEF t, f

(* A gesture ends the line with its state; the oldest entry falls off it. *)
LEMMA GestureEndsLine ==
  ASSUME NEW S, NEW u \in Seq(S), NEW c \in S, NEW r \in Seq(S), NEW e \in S,
         MaxUndoDepth \in Nat, Len(u) <= MaxUndoDepth
  PROVE  LET grown == Append(u, c)
         IN  Line(IF Len(grown) > MaxUndoDepth THEN Tail(grown) ELSE grown, e, << >>)
               = History!Latest(Append(SubSeq(Line(u, c, r), 1, Len(u) + 1), e))
<1> DEFINE t == Append(u, c)
           line == Line(u, c, r)
           kept == IF Len(t) > MaxUndoDepth THEN Tail(t) ELSE t
           w == Append(t, e)
<1>1. /\ Len(u) \in Nat /\ t \in Seq(S) /\ Len(t) = Len(u) + 1 /\ t # << >>
      /\ t[Len(u) + 1] = c /\ \A i \in 1 .. Len(u) : t[i] = u[i]
  OBVIOUS
<1>2. LineOf(S, line, u, c, r)
  BY LineShape, Zenon
<1> HIDE DEF t, line
<1>3. SubSeq(line, 1, Len(u) + 1) = t
  <2> DEFINE n == Len(u) + 1
             f == SubSeq(line, 1, n)
  <2>1. n \in Nat /\ 1 \in Int /\ n \in Int /\ 1 <= n
    BY <1>1
  <2>2. line \in Seq(S) /\ n <= Len(line) /\ Len(line) \in Nat
    BY <1>1, <1>2 DEF LineOf
  <2>3. \A i \in 1 .. n : line[i] \in S
    BY <2>1, <2>2, ElementOfSeq
  <2>4. \A i \in 1 .. n : line[i] = t[i]
    BY <1>1, <1>2 DEF LineOf
  <2> HIDE DEF n
  <2>5. /\ f \in Seq(S) /\ Len(f) = IF 1 <= n THEN n - 1 + 1 ELSE 0
        /\ \A i \in 1 .. n - 1 + 1 : f[i] = line[1 + i - 1]
    BY <2>1, <2>3, SubSeqProperties
  <2> HIDE DEF f
  <2>6. Len(f) = n /\ \A i \in 1 .. n : f[i] = t[i]
    BY <2>1, <2>4, <2>5
  <2>7. f = t
    BY <1>1, <2>5, <2>6, SeqEqual DEF n
  <2> QED
    BY <2>7 DEF f, n
<1>4. w \in Seq(S) /\ Len(w) = Len(u) + 2 /\ w # << >>
  BY <1>1
<1>5. \A q \in Seq(S) : Line(q, e, << >>) = Append(q, e)
  <2>1. Reverse(<< >>) = << >>
    BY DEF Reverse
  <2>2. \A q \in Seq(S) : q \o <<e>> \in Seq(S) /\ q \o <<e>> = Append(q, e)
    OBVIOUS
  <2> QED
    BY <2>1, <2>2, ConcatEmptySeq DEF Line
<1>6. CASE Len(t) > MaxUndoDepth
  <2>1. Len(w) > MaxUndoDepth + 1 /\ Len(w) - MaxUndoDepth = 2
    BY <1>1, <1>4, <1>6
  <2>2. Tail(w) = Append(Tail(t), e) /\ Tail(t) \in Seq(S)
    BY <1>1
  <2>3. History!Latest(w) = SubSeq(w, 2, Len(w))
    BY <2>1 DEF History!Latest
  <2>4. Tail(w) = SubSeq(w, 2, Len(w))
    BY <1>4, TailIsSubSeq
  <2>5. kept = Tail(t)
    BY <1>6
  <2>6. Line(kept, e, << >>) = History!Latest(w)
    BY <1>5, <2>2, <2>3, <2>4, <2>5
  <2> QED
    BY <1>3, <2>6 DEF t, line
<1>7. CASE ~ (Len(t) > MaxUndoDepth)
  <2>1. ~ (Len(w) > MaxUndoDepth + 1)
    BY <1>1, <1>4, <1>7
  <2>2. History!Latest(w) = SubSeq(w, 1, Len(w))
    BY <2>1 DEF History!Latest
  <2>3. SubSeq(w, 1, Len(w)) = w
    BY <1>4, SubSeqFull
  <2>4. kept = t
    BY <1>7
  <2>5. Line(kept, e, << >>) = History!Latest(w)
    BY <1>1, <1>5, <2>2, <2>3, <2>4
  <2> QED
    BY <1>3, <2>5 DEF t, line
<1> QED
  BY <1>6, <1>7

-----------------------------------------------------------------------------
(* The document: its types, the bound of the two stacks together, and that a *)
(* transaction without an edit has the state it began with.                  *)
DocInv ==
  /\ DocTypeOK
  /\ Len(undoStack) + Len(redoStack) <= MaxUndoDepth
  /\ transactionDepth > 0 /\ ~ transactionChanged => pendingUndo = current

LEMMA InitDoc == DocInit => DocInv
<1> SUFFICES ASSUME DocInit PROVE DocInv
  OBVIOUS
<1>1. DefaultState \in States /\ MaxUndoDepth \in Nat /\ MaxRevision \in Nat /\ MaxDepth \in Nat
  BY ValuesAssumption, BoundsAssumption DEF States
<1>2. << >> \in Seq(States) /\ Len(<< >>) = 0
  OBVIOUS
<1>3. DocTypeOK
  <2>1. 0 \in 0 .. MaxDepth /\ 0 \in 0 .. MaxRevision
    BY <1>1
  <2> QED
    BY <1>1, <1>2, <2>1 DEF DocInit, DocTypeOK
<1>4. Len(undoStack) + Len(redoStack) <= MaxUndoDepth
  BY <1>1, <1>2 DEF DocInit
<1>5. pendingUndo = current
  BY DEF DocInit
<1> QED
  BY <1>3, <1>4, <1>5 DEF DocInv

(* What an edit, or a gesture's end, does to the stacks. *)
LEMMA PushUndoBounded ==
  ASSUME NEW previous \in States, undoStack \in Seq(States), redoStack \in Seq(States),
         Len(undoStack) + Len(redoStack) <= MaxUndoDepth, PushUndo(previous)
  PROVE  /\ undoStack' \in Seq(States) /\ redoStack' \in Seq(States)
         /\ Len(undoStack') + Len(redoStack') <= MaxUndoDepth
<1> DEFINE grown == Append(undoStack, previous)
<1>1. /\ MaxUndoDepth \in Nat /\ Len(undoStack) \in Nat /\ Len(redoStack) \in Nat
      /\ grown \in Seq(States) /\ grown # << >> /\ Len(grown) = Len(undoStack) + 1
  BY BoundsAssumption
<1>2. /\ undoStack' = (IF Len(grown) > MaxUndoDepth THEN Tail(grown) ELSE grown)
      /\ redoStack' = << >>
  BY DEF PushUndo
<1> HIDE DEF grown
<1>3. Tail(grown) \in Seq(States) /\ Len(Tail(grown)) = Len(undoStack)
  BY <1>1
<1> QED
  BY <1>1, <1>2, <1>3

LEMMA EditsStoreStates ==
  ASSUME DocTypeOK, Edit PROVE \E state \in States : EditTo(state)
<1>1. current \in States
  BY DEF DocTypeOK
<1>2. /\ \A value \in PatternValues : [current EXCEPT !.pattern = value] \in States
      /\ \A value \in ProjectValues : [current EXCEPT !.project = value] \in States
  BY <1>1 DEF States
<1> QED
  BY <1>2 DEF Edit, SetPatternField, ApplyEuclid, SetProjectField

LEMMA NextDoc == DocInv /\ [DocNext]_docVars => DocInv'
<1> SUFFICES ASSUME DocInv, [DocNext]_docVars PROVE DocInv'
  OBVIOUS
<1>0. /\ undoStack \in Seq(States) /\ redoStack \in Seq(States)
      /\ Len(undoStack) + Len(redoStack) <= MaxUndoDepth
      /\ current \in States /\ pendingUndo \in States
  BY DEF DocInv, DocTypeOK
<1>1. /\ current \in States /\ pendingUndo \in States /\ published \in States
      /\ undoStack \in Seq(States) /\ redoStack \in Seq(States)
      /\ Len(undoStack) + Len(redoStack) <= MaxUndoDepth
      /\ transactionDepth \in 0 .. MaxDepth /\ transactionChanged \in BOOLEAN
      /\ revision \in 0 .. MaxRevision
      /\ transactionDepth > 0 /\ ~ transactionChanged => pendingUndo = current
  BY DEF DocInv, DocTypeOK
<1>2. MaxDepth \in Nat /\ MaxRevision \in Nat
  BY BoundsAssumption
<1>3. revision < MaxRevision => revision + 1 \in 0 .. MaxRevision
  BY <1>1, <1>2
<1>4. ASSUME NEW state \in States, EditTo(state) PROVE DocInv'
  <2>1. CASE transactionDepth > 0
    BY <1>1, <1>4, <2>1 DEF EditTo, DocInv, DocTypeOK
  <2>2. CASE ~ (transactionDepth > 0)
    <3>1. /\ pendingUndo' = current /\ current' = state /\ published' = state
          /\ revision < MaxRevision /\ revision' = revision + 1 /\ PushUndo(current)
          /\ transactionDepth' = transactionDepth /\ transactionChanged' = transactionChanged
      BY <1>4, <2>2 DEF EditTo, Committing
    <3>2. /\ undoStack' \in Seq(States) /\ redoStack' \in Seq(States)
          /\ Len(undoStack') + Len(redoStack') <= MaxUndoDepth
      BY <1>0, <3>1, PushUndoBounded
    <3> QED
      BY <1>1, <1>3, <2>2, <3>1, <3>2 DEF DocInv, DocTypeOK
  <2> QED
    BY <2>1, <2>2
<1>5. CASE BeginTransaction
  <2>1. transactionDepth < MaxDepth /\ transactionDepth' = transactionDepth + 1
        /\ UNCHANGED <<current, undoStack, redoStack, revision, published>>
    BY <1>5 DEF BeginTransaction
  <2>2. transactionDepth' \in 0 .. MaxDepth
    BY <1>1, <1>2, <2>1
  <2>3. CASE transactionDepth = 0
    <3>1. pendingUndo' = current /\ transactionChanged' = FALSE
      BY <1>5, <2>3 DEF BeginTransaction
    <3> QED
      BY <1>1, <2>1, <2>2, <3>1 DEF DocInv, DocTypeOK
  <2>4. CASE transactionDepth # 0
    <3>1. UNCHANGED <<pendingUndo, transactionChanged>> /\ transactionDepth > 0
      BY <1>1, <1>5, <2>4 DEF BeginTransaction
    <3> QED
      BY <1>1, <2>1, <2>2, <3>1 DEF DocInv, DocTypeOK
  <2> QED
    BY <2>3, <2>4
<1>6. CASE EndInnerTransaction \/ EndUnchangedTransaction
  BY <1>1, <1>2, <1>6 DEF EndInnerTransaction, EndUnchangedTransaction, DocInv, DocTypeOK
<1>7. CASE EndChangedTransaction
  <2>1. /\ UNCHANGED <<current, pendingUndo>> /\ published' = current /\ transactionDepth' = 0
        /\ revision < MaxRevision /\ revision' = revision + 1 /\ PushUndo(pendingUndo)
        /\ transactionChanged' = FALSE
    BY <1>7 DEF EndChangedTransaction, Committing
  <2>3. 0 \in 0 .. MaxDepth /\ ~ (0 > 0) /\ FALSE \in BOOLEAN
    BY <1>2
  <2>2. /\ undoStack' \in Seq(States) /\ redoStack' \in Seq(States)
        /\ Len(undoStack') + Len(redoStack') <= MaxUndoDepth
    BY <1>0, <2>1, PushUndoBounded
  <2> QED
    BY <1>1, <1>3, <2>1, <2>2, <2>3 DEF DocInv, DocTypeOK
<1>8. CASE Undo \/ Redo
  <2>1. /\ UNCHANGED <<pendingUndo, transactionDepth, transactionChanged>>
        /\ transactionDepth = 0 /\ revision < MaxRevision /\ revision' = revision + 1
        /\ published' = current'
    BY <1>8 DEF Undo, Redo, Committing
  <2>2. /\ current' \in States /\ undoStack' \in Seq(States) /\ redoStack' \in Seq(States)
        /\ Len(undoStack') + Len(redoStack') = Len(undoStack) + Len(redoStack)
    <3>1. CASE Undo
      <4>1. /\ undoStack # << >> /\ undoStack' = Front(undoStack)
            /\ current' = Last(undoStack) /\ redoStack' = Append(redoStack, current)
        BY <3>1 DEF Undo, Committing
      <4>2. Last(undoStack) \in States /\ FrontOf(States, undoStack', undoStack)
        BY <1>1, <4>1, FrontShape
      <4>3. AppendOf(States, redoStack', redoStack, current)
        BY <1>1, <4>1, AppendShape
      <4> QED
        BY <1>1, <4>1, <4>2, <4>3 DEF FrontOf, AppendOf
    <3>2. CASE Redo
      <4>1. /\ redoStack # << >> /\ redoStack' = Front(redoStack)
            /\ current' = Last(redoStack) /\ undoStack' = Append(undoStack, current)
        BY <3>2 DEF Redo, Committing
      <4>2. Last(redoStack) \in States /\ FrontOf(States, redoStack', redoStack)
        BY <1>1, <4>1, FrontShape
      <4>3. AppendOf(States, undoStack', undoStack, current)
        BY <1>1, <4>1, AppendShape
      <4> QED
        BY <1>1, <4>1, <4>2, <4>3 DEF FrontOf, AppendOf
    <3> QED
      BY <1>8, <3>1, <3>2
  <2> QED
    BY <1>1, <1>3, <2>1, <2>2 DEF DocInv, DocTypeOK
<1>9. CASE ClearUndoHistory
  <2>1. << >> \in Seq(States) /\ Len(<< >>) + Len(<< >>) <= MaxUndoDepth
    BY BoundsAssumption
  <2> QED
    BY <1>1, <1>9, <2>1 DEF ClearUndoHistory, DocInv, DocTypeOK
<1>10. CASE UNCHANGED docVars
  BY <1>1, <1>10 DEF docVars, DocInv, DocTypeOK
<1> QED
  BY <1>4, <1>5, <1>6, <1>7, <1>8, <1>9, <1>10, EditsStoreStates
     DEF DocNext, EndTransaction, DocInv

(* What a call of the document does to its history: nothing, a gesture, an   *)
(* undo, a redo, or forgetting.                                              *)
Shown == <<undoStack, redoStack, committedState, published>>

Gestured(state) ==
  /\ PushUndo(committedState)
  /\ committedState' = state /\ published' = state

Undone ==
  /\ undoStack # << >>
  /\ undoStack' = Front(undoStack) /\ redoStack' = Append(redoStack, committedState)
  /\ committedState' = Last(undoStack) /\ published' = Last(undoStack)

Redone ==
  /\ redoStack # << >>
  /\ undoStack' = Append(undoStack, committedState) /\ redoStack' = Front(redoStack)
  /\ committedState' = Last(redoStack) /\ published' = Last(redoStack)

Forgotten ==
  /\ undoStack' = << >> /\ redoStack' = << >>
  /\ UNCHANGED <<committedState, published>>

LEMMA DocSteps ==
  ASSUME DocInv, [DocNext]_docVars
  PROVE  \/ UNCHANGED Shown
         \/ \E state \in States : Gestured(state)
         \/ Undone \/ Redone \/ Forgotten
<1> USE DEF Shown, committedState
<1>1. DocTypeOK /\ transactionDepth \in Nat
  BY DEF DocInv, DocTypeOK
<1>2. CASE Edit
  <2>1. PICK state \in States : EditTo(state)
    BY <1>1, <1>2, EditsStoreStates
  <2>2. CASE transactionDepth > 0
    BY <2>1, <2>2 DEF EditTo
  <2>3. CASE ~ (transactionDepth > 0)
    <3>1. Gestured(state)
      BY <2>1, <2>3 DEF EditTo, Gestured, Committing
    <3> QED
      BY <3>1
  <2> QED
    BY <2>2, <2>3
<1>3. CASE BeginTransaction
  BY <1>1, <1>3 DEF BeginTransaction
<1>4. CASE EndInnerTransaction
  BY <1>1, <1>4 DEF EndInnerTransaction
<1>5. CASE EndUnchangedTransaction
  BY <1>1, <1>5 DEF EndUnchangedTransaction, DocInv
<1>6. CASE EndChangedTransaction
  <2>1. Gestured(current) /\ current \in States
    BY <1>1, <1>6 DEF EndChangedTransaction, Gestured, Committing, DocTypeOK
  <2> QED
    BY <2>1
<1>7. CASE Undo
  BY <1>7 DEF Undo, Undone, Committing
<1>8. CASE Redo
  BY <1>8 DEF Redo, Redone, Committing
<1>9. CASE ClearUndoHistory
  BY <1>9 DEF ClearUndoHistory, Forgotten
<1>10. CASE UNCHANGED docVars
  BY <1>10 DEF docVars
<1> QED
  BY <1>2, <1>3, <1>4, <1>5, <1>6, <1>7, <1>8, <1>9, <1>10 DEF DocNext, EndTransaction

LEMMA CommittedIsState == DocInv => committedState \in States
  BY DEF DocInv, DocTypeOK, committedState

(* Each of them is a step, or a stutter, of the linear history. *)
LEMMA DocStepIsHistoryStep ==
  ASSUME DocInv, DocInv', [DocNext]_docVars
  PROVE  [History!HistoryNext]_(History!historyVars)
<1> DEFINE u == undoStack
           r == redoStack
           c == committedState
           line == Line(u, c, r)
<1>1. /\ u \in Seq(States) /\ r \in Seq(States) /\ c \in States
      /\ Len(u) \in Nat /\ MaxUndoDepth \in Nat /\ Len(u) <= MaxUndoDepth
  <2>1. Len(u) + Len(r) <= MaxUndoDepth /\ u \in Seq(States) /\ r \in Seq(States)
    BY DEF DocInv, DocTypeOK
  <2>2. MaxUndoDepth \in Nat /\ Len(u) \in Nat /\ Len(r) \in Nat
    BY <2>1, BoundsAssumption
  <2> QED
    BY <2>1, <2>2, CommittedIsState
<1>2. u' \in Seq(States) /\ r' \in Seq(States)
  BY DEF DocInv, DocTypeOK
<1>3. LineOf(States, line, u, c, r)
  BY <1>1, LineShape, Zenon
<1>4. CASE UNCHANGED Shown
  BY <1>4 DEF Shown, History!historyVars
<1>5. ASSUME NEW state \in States, Gestured(state) PROVE History!Gesture(state)
  <2>1. /\ u' = (LET grown == Append(u, c)
                 IN  IF Len(grown) > MaxUndoDepth THEN Tail(grown) ELSE grown)
        /\ r' = << >> /\ c' = state /\ published' = state
    BY <1>5 DEF Gestured, PushUndo
  <2>2. Line(u', state, << >>) = History!Latest(Append(SubSeq(line, 1, Len(u) + 1), state))
    BY <1>1, <2>1, GestureEndsLine, Zenon
  <2>3. Len(Line(u', state, << >>)) = Len(u') + 1
    <3>1. << >> \in Seq(States) /\ Len(u') \in Nat /\ Len(<< >>) = 0
      BY <1>2
    <3>2. LineOf(States, Line(u', state, << >>), u', state, << >>)
      BY <1>2, <3>1, LineShape, Zenon
    <3> QED
      BY <3>1, <3>2 DEF LineOf
  <2> QED
    BY <2>1, <2>2, <2>3, Zenon DEF History!Gesture, Line
<1>6. CASE Undone
  <2>1. /\ u # << >> /\ u' = Front(u) /\ r' = Append(r, c) /\ c' = Last(u)
        /\ published' = Last(u)
    BY <1>6 DEF Undone
  <2>2. line' = line
    <3>1. Line(u', c', r') = Line(u, c, r)
      BY <1>1, <2>1, UndoKeepsLine, Zenon
    <3> QED
      BY <3>1
  <2>3. Len(u) \in Nat \ {0} /\ Len(u') = Len(u) - 1 /\ Last(u) = u[Len(u)]
    BY <1>1, <2>1, FrontShape DEF FrontOf, Last
  <2>4. line[Len(u)] = u[Len(u)]
    BY <1>3, <2>3 DEF LineOf
  <2>5. Len(u) + 1 > 1 /\ Len(u') + 1 = (Len(u) + 1) - 1 /\ Len(u') + 1 = Len(u)
    BY <2>3
  <2>6. History!Undo
    BY <2>1, <2>2, <2>3, <2>4, <2>5, Zenon DEF History!Undo, Line
  <2> QED
    BY <2>6 DEF History!HistoryNext
<1>7. CASE Redone
  <2>1. /\ r # << >> /\ u' = Append(u, c) /\ r' = Front(r) /\ c' = Last(r)
        /\ published' = Last(r)
    BY <1>7 DEF Redone
  <2>2. line' = line
    <3>1. Line(u', c', r') = Line(u, c, r)
      BY <1>1, <2>1, RedoKeepsLine, Zenon
    <3> QED
      BY <3>1
  <2>3. Len(r) \in Nat \ {0} /\ Len(u') = Len(u) + 1 /\ Last(r) = r[Len(r)]
    BY <1>1, <2>1, AppendShape DEF AppendOf, Last
  <2>4. 1 \in 1 .. Len(r) /\ Len(r) + 1 - 1 = Len(r) /\ Len(u) + 1 + 1 = Len(u') + 1
    BY <1>1, <2>3
  <2>5. line[Len(u') + 1] = Last(r) /\ Len(line) = Len(u) + 1 + Len(r)
    BY <1>3, <2>3, <2>4 DEF LineOf
  <2>6. Len(u) + 1 < Len(u) + 1 + Len(r) /\ Len(u') + 1 = (Len(u) + 1) + 1
    BY <1>1, <2>3
  <2>7. History!Redo
    BY <2>1, <2>2, <2>5, <2>6, Zenon DEF History!Redo, Line
  <2> QED
    BY <2>7 DEF History!HistoryNext
<1>8. CASE Forgotten
  <2>1. u' = << >> /\ r' = << >> /\ c' = c /\ published' = published
    BY <1>8 DEF Forgotten
  <2>2. line[Len(u) + 1] = c
    BY <1>3 DEF LineOf
  <2>3. << >> \o <<c>> \o Reverse(<< >>) = <<c>> /\ Len(<< >>) + 1 = 1
    BY DEF Reverse
  <2>4. History!Forget
    BY <2>1, <2>2, <2>3, Zenon DEF History!Forget, Line
  <2> QED
    BY <2>4 DEF History!HistoryNext
<1> QED
  BY <1>4, <1>5, <1>6, <1>7, <1>8, DocSteps DEF History!HistoryNext

LEMMA InitIsHistoryInit == DocInit => History!HistoryInit
<1> SUFFICES ASSUME DocInit PROVE History!HistoryInit
  OBVIOUS
<1>1. /\ undoStack = << >> /\ redoStack = << >> /\ committedState = DefaultState
      /\ published = DefaultState /\ DefaultState \in States
  BY ValuesAssumption DEF DocInit, committedState, States
<1>2. << >> \o <<DefaultState>> \o Reverse(<< >>) = <<DefaultState>> /\ Len(<< >>) + 1 = 1
      /\ <<DefaultState>>[1] = DefaultState
  BY DEF Reverse
<1> QED
  BY <1>1, <1>2, Zenon DEF History!HistoryInit

(* The document's fields stay in their ranges, for any values, any depth of  *)
(* the undo history and any nesting of transactions.                         *)
THEOREM DocumentTypeCorrect == DocSpec => []DocTypeOK
<1>1. DocInv => DocTypeOK
  BY DEF DocInv
<1> QED
  BY InitDoc, NextDoc, <1>1, PTL DEF DocSpec

(* Two stacks, a captured state and a nesting count are a linear history     *)
(* with a cursor, for any values and any depth.                              *)
THEOREM DocumentIsHistory == DocSpec => ImplementsHistory
<1>1. DocInv /\ DocInv' /\ [DocNext]_docVars => [History!HistoryNext]_(History!historyVars)
  BY DocStepIsHistoryStep
<1> QED
  BY InitDoc, NextDoc, InitIsHistoryInit, <1>1, PTL
     DEF DocSpec, ImplementsHistory, History!HistorySpec

-----------------------------------------------------------------------------
(* The document on its channel: each keeps the other's steps. *)

LEMMA EditingStepIsBoth ==
  [EditingNext]_editingVars => [DocNext]_docVars /\ [Next]_channelVars
<1> SUFFICES ASSUME [EditingNext]_editingVars PROVE [DocNext]_docVars /\ [Next]_channelVars
  OBVIOUS
<1>1. CASE Prime
  BY <1>1 DEF Prime, Next
<1>2. CASE DocumentCall
  BY <1>2 DEF DocumentCall, Next
<1>3. CASE BuildAndPublish
  BY <1>3 DEF BuildAndPublish, Next, Call
<1>4. CASE ChannelStep
  BY <1>4 DEF ChannelStep, Next, Call
<1>5. CASE UNCHANGED editingVars
  BY <1>5 DEF editingVars
<1> QED
  BY <1>1, <1>2, <1>3, <1>4, <1>5 DEF EditingNext

LEMMA EditingIsBoth == EditingSpec => DocSpec /\ Spec
<1>1. EditingInit => DocInit /\ Init
  BY DEF EditingInit
<1> QED
  BY <1>1, EditingStepIsBoth, PTL DEF EditingSpec, DocSpec, Spec

(* What users do and what the audio thread adopts leave the document a       *)
(* linear history.                                                           *)
THEOREM EditingIsHistory == EditingSpec => ImplementsHistory
  BY EditingIsBoth, DocumentIsHistory, PTL

(* Whatever is edited, undone and adopted, every snapshot has one owner      *)
(* until it is deleted, once, if the retirement queue has room for four.     *)
THEOREM EditingKeepsOneOwner ==
  ASSUME RetireRoom >= 4
  PROVE  EditingSpec => []OneOwner
<1>1. Spec => []OneOwner
  BY SnapshotsHaveOneOwner
<1> QED
  BY <1>1, EditingIsBoth, PTL

(* And the teardown leaves none of them undeleted. *)
THEOREM EditingLeaksNothing ==
  ASSUME RetireRoom >= 4
  PROVE  EditingSpec => []AllFreedAtExit
<1>1. Spec => []AllFreedAtExit
  BY NothingLeaksAtExit
<1> QED
  BY <1>1, EditingIsBoth, PTL

-----------------------------------------------------------------------------
(* What is published is a committed state: a publication runs from the call  *)
(* that commits to its end before the document is touched again, so that no  *)
(* transaction is open while a snapshot is built.                            *)

GestureInv ==
  /\ contents \in Seq(wasCommitted) /\ Len(contents) = buildCounter
  /\ committedState \in wasCommitted
  /\ buildCounter = 0 \/ ui \in {"reclaimPublish", "publish"} => transactionDepth = 0
  /\ {pendingPublish, next, activeSnapshot} \subseteq 0 .. buildCounter

LEMMA InitGesture == EditingInit => GestureInv
<1> SUFFICES ASSUME EditingInit PROVE GestureInv
  OBVIOUS
<1>1. /\ contents = << >> /\ wasCommitted = {current} /\ transactionDepth = 0
      /\ buildCounter = 0 /\ pendingPublish = 0 /\ next = 0 /\ activeSnapshot = 0
  BY DEF EditingInit, DocInit, Init, nullptr
<1>2. << >> \in Seq(wasCommitted) /\ Len(<< >>) = 0 /\ 0 \in 0 .. 0
  OBVIOUS
<1> QED
  BY <1>1, <1>2 DEF GestureInv, committedState

LEMMA CommitsWhenClosed ==
  ASSUME DocInv, DocNext, revision' # revision PROVE transactionDepth' = 0
<1>1. transactionDepth \in Nat
  BY DEF DocInv, DocTypeOK
<1>2. CASE Edit
  <2>1. PICK state \in States : EditTo(state)
    BY <1>2, EditsStoreStates DEF DocInv
  <2> QED
    BY <1>1, <2>1 DEF EditTo
<1>3. CASE BeginTransaction \/ EndTransaction \/ Undo \/ Redo \/ ClearUndoHistory
  BY <1>3 DEF BeginTransaction, EndTransaction, EndInnerTransaction, EndUnchangedTransaction,
              EndChangedTransaction, Undo, Redo, ClearUndoHistory
<1> QED
  BY <1>2, <1>3 DEF DocNext

LEMMA NextGesture == DocInv /\ GestureInv /\ [EditingNext]_editingVars => GestureInv'
<1> SUFFICES ASSUME DocInv, GestureInv, [EditingNext]_editingVars PROVE GestureInv'
  OBVIOUS
<1>1. /\ contents \in Seq(wasCommitted) /\ Len(contents) = buildCounter
      /\ committedState \in wasCommitted
      /\ buildCounter = 0 \/ ui \in {"reclaimPublish", "publish"} => transactionDepth = 0
      /\ pendingPublish \in 0 .. buildCounter /\ next \in 0 .. buildCounter
      /\ activeSnapshot \in 0 .. buildCounter /\ buildCounter \in Nat
  BY DEF GestureInv
<1>2. CASE Prime
  <2>1. /\ UNCHANGED <<buildCounter, pendingPublish, next, activeSnapshot, contents,
                       wasCommitted, transactionDepth, current, pendingUndo>>
        /\ buildCounter = 0
    BY <1>2 DEF Prime, PublishTo, StartReclaim, docVars
  <2> QED
    BY <1>1, <2>1 DEF GestureInv, committedState
<1>3. CASE DocumentCall
  <2>1. /\ ui = "idle" /\ DocNext /\ buildCounter # 0
        /\ wasCommitted' = wasCommitted \union {committedState'} /\ contents' = contents
        /\ UNCHANGED <<buildCounter, pendingPublish, next, activeSnapshot>>
        /\ ui' = ui \/ revision' # revision
    BY <1>1, <1>3 DEF DocumentCall, PublishTo, StartReclaim, channelVars
  <2>2. contents' \in Seq(wasCommitted')
    BY <1>1, <2>1, SeqMonotonic
  <2>3. revision' # revision => transactionDepth' = 0
    BY <2>1, CommitsWhenClosed
  <2> QED
    BY <1>1, <2>1, <2>2, <2>3 DEF GestureInv
<1>4. CASE BuildAndPublish
  <2>1. /\ ui = "publish" /\ ui' = "idle" /\ buildCounter' = buildCounter + 1
        /\ pendingPublish' = buildCounter' /\ contents' = Append(contents, current)
        /\ UNCHANGED <<next, activeSnapshot, wasCommitted, current, pendingUndo,
                       transactionDepth>>
    BY <1>4 DEF BuildAndPublish, Publish, docVars
  <2>2. current \in wasCommitted /\ committedState' \in wasCommitted
    BY <1>1, <2>1 DEF committedState
  <2>3. contents' \in Seq(wasCommitted) /\ Len(contents') = buildCounter'
    BY <1>1, <2>1, <2>2
  <2>4. /\ pendingPublish' \in 0 .. buildCounter' /\ next' \in 0 .. buildCounter'
        /\ activeSnapshot' \in 0 .. buildCounter' /\ buildCounter' # 0
    BY <1>1, <2>1
  <2> QED
    BY <2>1, <2>2, <2>3, <2>4 DEF GestureInv
<1>5. CASE ChannelStep
  <2>1. /\ UNCHANGED <<contents, wasCommitted, current, pendingUndo, transactionDepth>>
    BY <1>5 DEF ChannelStep, docVars
  <2>2. /\ buildCounter' = buildCounter
        /\ {pendingPublish', next', activeSnapshot'} \subseteq 0 .. buildCounter'
        /\ ui' \in {"reclaimPublish", "publish"} => ui \in {"reclaimPublish", "publish"}
    BY <1>1, <1>5
       DEF ChannelStep, Tick, StartReclaim, ReclaimOne, ReclaimDone, Adopt, AdoptTake,
           AdoptRetire, AdoptHold, SwitchAudio, Teardown, DestroyNode, DestroyChannelReclaim,
           DestroyChannelPending, Reclaiming, nullptr
  <2> QED
    BY <1>1, <2>1, <2>2 DEF GestureInv, committedState
<1>6. CASE UNCHANGED editingVars
  BY <1>6 DEF editingVars, docVars, channelVars, GestureInv, committedState
<1> QED
  BY <1>2, <1>3, <1>4, <1>5, <1>6 DEF EditingNext

(* The audio thread never renders half a gesture, however edits, nested      *)
(* transactions, undo and redo interleave with its blocks: for any values,   *)
(* any depths and any room in the retirement queue.                          *)
THEOREM GesturesAreWhole == EditingSpec => []NeverHalfAGesture
<1>1. GestureInv => NeverHalfAGesture
  <2> SUFFICES ASSUME GestureInv, activeSnapshot # 0
               PROVE  contents[activeSnapshot] \in wasCommitted
    BY DEF NeverHalfAGesture
  <2>1. contents \in Seq(wasCommitted) /\ activeSnapshot \in 1 .. Len(contents)
    BY DEF GestureInv
  <2> QED
    BY <2>1, ElementOfSeq
<1>2. []DocInv /\ EditingSpec => []GestureInv
  BY InitGesture, NextGesture, PTL DEF EditingSpec
<1>3. EditingSpec => []DocInv
  BY EditingIsBoth, InitDoc, NextDoc, PTL DEF DocSpec
<1> QED
  BY <1>1, <1>2, <1>3, PTL
=============================================================================
