------------------------------ MODULE SpscFifo ------------------------------
(***************************************************************************)
(* engine/graph/SpscFifo.h: the lock-free single-producer single-consumer  *)
(* ring under every queue of the engine, over juce::AbstractFifo.          *)
(*                                                                         *)
(* Each thread's call is split at its shared accesses. A push reads the    *)
(* cursors and is refused or goes on to copy its item and then to publish  *)
(* the slot; a drain reads the cursors, hands the items to its callback    *)
(* one by one, and only then moves the read cursor over all of them. JUCE  *)
(* cursors are sequentially consistent atomics, so interleaving is exact;  *)
(* the storage is plain memory, so two threads in one slot is a data race. *)
(***************************************************************************)
EXTENDS Naturals, Sequences

CONSTANTS
  Items,      \* the values pushed
  Capacity,   \* slots in the ring
  MaxDropped, \* bound on the counted refusals
  NoItem      \* content of a slot never written

ASSUME CapacityAssumption == Capacity \in Nat /\ Capacity >= 2
ASSUME MaxDroppedAssumption == MaxDropped \in Nat

VARIABLES
  storage,      \* the ring
  validStart,   \* read cursor: first slot holding an item
  validEnd,     \* write cursor: first free slot
  droppedCount, \* refused pushes
  producer,     \* where the producer is in push: "idle", "copying", "copied"
  pushed,       \* the item of the push in progress
  ready,        \* number of items the drain in progress covers, 0 outside
  handed        \* how many of them it has passed to the callback

fifoVars ==
  <<storage, validStart, validEnd, droppedCount, producer, pushed, ready, handed>>

Slots == 0 .. Capacity - 1

(* The slot k places after slot s, 0 <= k <= Capacity. *)
Wrap(s, k) == IF s + k >= Capacity THEN s + k - Capacity ELSE s + k

(* AbstractFifo::getNumReady: items between the cursors. *)
NumReady == IF validEnd >= validStart
            THEN validEnd - validStart
            ELSE Capacity - (validStart - validEnd)

(* Fault: the reserved slot is given away too. *)
HasRoomToTheBrim == NumReady < Capacity

(* AbstractFifo::prepareToWrite keeps one slot empty, so that equal cursors *)
(* mean an empty ring.                                                      *)
HasRoom == NumReady < Capacity - 1

Init ==
  /\ storage = [s \in Slots |-> NoItem]
  /\ validStart = 0
  /\ validEnd = 0
  /\ droppedCount = 0
  /\ producer = "idle"
  /\ pushed = NoItem
  /\ ready = 0
  /\ handed = 0

-----------------------------------------------------------------------------
(* The producer thread: push. *)

PushRefused ==
  /\ producer = "idle"
  /\ ~ HasRoom
  /\ droppedCount < MaxDropped
  /\ droppedCount' = droppedCount + 1
  /\ UNCHANGED <<storage, validStart, validEnd, producer, pushed, ready, handed>>

PushBegin(item) ==
  /\ producer = "idle"
  /\ HasRoom
  /\ producer' = "copying"
  /\ pushed' = item
  /\ UNCHANGED <<storage, validStart, validEnd, droppedCount, ready, handed>>

PushCopy ==
  /\ producer = "copying"
  /\ storage' = [storage EXCEPT ![validEnd] = pushed]
  /\ producer' = "copied"
  /\ UNCHANGED <<validStart, validEnd, droppedCount, pushed, ready, handed>>

PushFinish ==
  /\ producer = "copied"
  /\ validEnd' = Wrap(validEnd, 1)
  /\ producer' = "idle"
  /\ pushed' = NoItem
  /\ UNCHANGED <<storage, validStart, droppedCount, ready, handed>>

-----------------------------------------------------------------------------
(* The consumer thread: drain. An empty ring leaves at once: a stutter. *)

DrainBegin ==
  /\ ready = 0
  /\ NumReady > 0
  /\ ready' = NumReady
  /\ handed' = 0
  /\ UNCHANGED <<storage, validStart, validEnd, droppedCount, producer, pushed>>

DrainItem ==
  /\ handed < ready
  /\ handed' = handed + 1
  /\ UNCHANGED <<storage, validStart, validEnd, droppedCount, producer, pushed, ready>>

(* Fault: the consumer releases what is ready now, not what it drained. *)
DrainFinishRereads ==
  /\ ready > 0
  /\ handed = ready
  /\ validStart' = Wrap(validStart, NumReady)
  /\ ready' = 0
  /\ handed' = 0
  /\ UNCHANGED <<storage, validEnd, droppedCount, producer, pushed>>

DrainFinish ==
  /\ ready > 0
  /\ handed = ready
  /\ validStart' = Wrap(validStart, ready)
  /\ ready' = 0
  /\ handed' = 0
  /\ UNCHANGED <<storage, validEnd, droppedCount, producer, pushed>>

-----------------------------------------------------------------------------
Push == PushRefused \/ (\E item \in Items : PushBegin(item)) \/ PushCopy \/ PushFinish

Drain == DrainBegin \/ DrainItem \/ DrainFinish

Next == Push \/ Drain

Spec == Init /\ [][Next]_fifoVars

-----------------------------------------------------------------------------
(* Properties *)

(* Every variable stays in its range. *)
TypeOK ==
  /\ storage \in [Slots -> Items \union {NoItem}]
  /\ validStart \in Slots
  /\ validEnd \in Slots
  /\ droppedCount \in 0 .. MaxDropped
  /\ producer \in {"idle", "copying", "copied"}
  /\ pushed \in Items \union {NoItem}
  /\ ready \in 0 .. Capacity - 1
  /\ handed \in 0 .. ready

(* No data race on the ring: the slot a push is copying into is none of the *)
(* slots a drain in progress still owns, the ones already handed to the     *)
(* callback included (a callback keeps a reference into the storage).       *)
NoSlotRace ==
  producer # "idle" => \A k \in 0 .. Capacity - 1 :
                         k < ready => Wrap(validStart, k) # validEnd

(* The ring implements the bounded queue: accepted items come out once, in  *)
(* order, never before they are copied, and a push is refused only when     *)
(* Capacity - 1 items are waiting or lent.                                  *)
waiting == [i \in 1 .. NumReady - handed |-> storage[Wrap(validStart, handed + i - 1)]]

Abstract == INSTANCE BoundedQueue
              WITH queue <- waiting, lent <- handed, refused <- droppedCount,
                   Room <- Capacity - 1, MaxRefused <- MaxDropped

ImplementsBoundedQueue == Abstract!AbsSpec
=============================================================================
