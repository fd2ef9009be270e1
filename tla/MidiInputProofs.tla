-------------------------- MODULE MidiInputProofs ---------------------------
(***************************************************************************)
(* The ring of SpscFifo, for any capacity and any set of items: its two    *)
(* threads never meet in one slot, and it implements BoundedQueue. Then    *)
(* the keyboards' way to the synth over that ring, for any keys, channels  *)
(* and masks: no note is left with nothing to end it.                      *)
(***************************************************************************)
EXTENDS MidiInput, FiniteSetTheorems, TLAPS

(* NoSlotRace is not inductive: it needs to know that a drain in progress   *)
(* covers no more than what is ready (pushes only add to it), and that a    *)
(* push in progress still has its room (drains only add to it).             *)
IInv ==
  /\ TypeOK
  /\ ready <= NumReady
  /\ producer # "idle" => HasRoom

(* What a push in progress carries, and where it has put it. *)
PushInv ==
  /\ producer = "idle" => pushed = NoItem
  /\ producer # "idle" => pushed \in Items
  /\ producer = "copied" => storage[validEnd] = pushed

RingInv == IInv /\ PushInv

(* The number of ready items is the distance between the cursors, and       *)
(* neither a finished push nor a finished drain confuses a full ring with   *)
(* an empty one.                                                            *)
LEMMA CursorArithmetic ==
  ASSUME TypeOK
  PROVE  /\ NumReady \in 0 .. Capacity - 1
         /\ \A k \in 0 .. Capacity - 1 : Wrap(validStart, k) \in Slots
         /\ Wrap(validEnd, 1) \in Slots
  BY CapacityAssumption DEF TypeOK, NumReady, Wrap, Slots

(* The cursor invariant holds initially. *)
LEMMA InitIInv == Init => IInv
  BY CapacityAssumption, MaxDroppedAssumption
     DEF Init, IInv, TypeOK, NumReady, HasRoom, Slots

(* Every step of either thread preserves the cursor invariant. *)
LEMMA NextIInv == IInv /\ [Next]_fifoVars => IInv'
<1> SUFFICES ASSUME IInv, [Next]_fifoVars PROVE IInv'
  OBVIOUS
<1> USE CapacityAssumption, MaxDroppedAssumption DEF IInv, TypeOK, Slots
<1>1. CASE PushRefused
  BY <1>1 DEF PushRefused, NumReady, HasRoom
<1>2. ASSUME NEW item \in Items, PushBegin(item) PROVE IInv'
  BY <1>2 DEF PushBegin, NumReady, HasRoom
<1>3. CASE PushCopy
  BY <1>3 DEF PushCopy, NumReady, HasRoom
<1>4. CASE PushFinish
  <2>1. TypeOK'
    BY <1>4, CursorArithmetic DEF PushFinish
  <2>2. NumReady' = NumReady + 1
    BY <1>4 DEF PushFinish, NumReady, HasRoom, Wrap
  <2>3. ready' = ready /\ ready \in Nat /\ ready <= NumReady /\ producer' = "idle"
    BY <1>4 DEF PushFinish
  <2>4. NumReady \in Nat
    BY CursorArithmetic
  <2> HIDE DEF TypeOK
  <2> QED
    BY <2>1, <2>2, <2>3, <2>4
<1>5. CASE DrainBegin
  BY <1>5, CursorArithmetic DEF DrainBegin, NumReady, HasRoom
<1>6. CASE DrainItem
  BY <1>6 DEF DrainItem, NumReady, HasRoom
<1>7. CASE DrainFinish
  <2>1. TypeOK'
    BY <1>7, CursorArithmetic DEF DrainFinish
  <2>2. NumReady' = NumReady - ready
    BY <1>7 DEF DrainFinish, NumReady, Wrap
  <2>3. /\ ready' = 0 /\ ready \in Nat /\ ready <= NumReady
        /\ producer' = producer /\ (producer # "idle" => HasRoom)
    BY <1>7 DEF DrainFinish
  <2>4. NumReady \in Nat
    BY CursorArithmetic
  <2> HIDE DEF TypeOK
  <2> QED
    BY <2>1, <2>2, <2>3, <2>4 DEF HasRoom
<1>8. CASE UNCHANGED fifoVars
  BY <1>8 DEF fifoVars, NumReady, HasRoom
<1> QED
  BY <1>1, <1>2, <1>3, <1>4, <1>5, <1>6, <1>7, <1>8 DEF Next, Push, Drain

(* The cursor invariant keeps the two threads out of each other's slots.    *)
LEMMA IInvSeparates == IInv => NoSlotRace
  BY CapacityAssumption DEF IInv, TypeOK, NoSlotRace, NumReady, HasRoom, Wrap, Slots

LEMMA InitRing == Init => RingInv
  BY InitIInv DEF Init, RingInv, PushInv

LEMMA NextRing == RingInv /\ [Next]_fifoVars => RingInv'
<1> SUFFICES ASSUME RingInv, [Next]_fifoVars PROVE PushInv'
  BY NextIInv DEF RingInv
<1> USE DEF RingInv, PushInv
<1>1. ASSUME NEW item \in Items, PushBegin(item) PROVE PushInv'
  BY <1>1 DEF PushBegin
<1>2. CASE PushCopy
  BY <1>2 DEF PushCopy, IInv, TypeOK
<1>3. CASE PushFinish
  BY <1>3 DEF PushFinish
<1>4. CASE PushRefused
  BY <1>4 DEF PushRefused
<1>5. CASE Drain
  BY <1>5 DEF Drain, DrainBegin, DrainItem, DrainFinish
<1>6. CASE UNCHANGED fifoVars
  BY <1>6 DEF fifoVars
<1> QED
  BY <1>1, <1>2, <1>3, <1>4, <1>5, <1>6 DEF Next, Push

(* Every variable of the ring stays in its range, for any capacity.         *)
THEOREM TypeCorrect == Spec => []TypeOK
<1>1. IInv => TypeOK
  BY DEF IInv
<1> QED
  BY InitIInv, NextIInv, <1>1, PTL DEF Spec

(* No push ever copies into a slot that a drain still owns, for any         *)
(* capacity and any interleaving of the two threads.                        *)
THEOREM NoDataRace == Spec => []NoSlotRace
  BY InitIInv, NextIInv, IInvSeparates, PTL DEF Spec

-----------------------------------------------------------------------------
(* What is waiting in the ring, and what each step does to it. *)

LEMMA FunctionIsSeq ==
  ASSUME NEW n \in Nat, NEW S, NEW s \in [1 .. n -> S]
  PROVE  s \in Seq(S) /\ Len(s) = n
OBVIOUS

WaitingShape ==
  /\ NumReady - handed \in Nat /\ NumReady \in 0 .. Capacity - 1
  /\ handed \in Nat /\ handed <= ready
  /\ waiting \in Seq(Items \union {NoItem})
  /\ Len(waiting) = NumReady - handed
  /\ \A i \in 1 .. NumReady - handed :
       waiting[i] = storage[Wrap(validStart, handed + (i - 1))]

LEMMA WaitingFacts == RingInv => WaitingShape
<1> SUFFICES ASSUME RingInv PROVE WaitingShape
  OBVIOUS
<1>1. /\ NumReady - handed \in Nat /\ NumReady \in 0 .. Capacity - 1
      /\ handed \in Nat /\ handed <= ready
  BY CursorArithmetic, CapacityAssumption DEF RingInv, IInv, TypeOK
<1>2. ASSUME NEW i \in 1 .. NumReady - handed
      PROVE  /\ handed + (i - 1) \in 0 .. Capacity - 1
             /\ handed + i - 1 = handed + (i - 1)
  BY <1>1, CapacityAssumption
<1>3. ASSUME NEW i \in 1 .. NumReady - handed
      PROVE  storage[Wrap(validStart, handed + (i - 1))] \in Items \union {NoItem}
  BY <1>2, CursorArithmetic DEF RingInv, IInv, TypeOK
<1>4. waiting = [i \in 1 .. NumReady - handed |-> storage[Wrap(validStart, handed + (i - 1))]]
  BY <1>2 DEF waiting
<1>5. waiting \in [1 .. NumReady - handed -> Items \union {NoItem}]
  BY <1>3, <1>4
<1>6. waiting \in Seq(Items \union {NoItem}) /\ Len(waiting) = NumReady - handed
  BY <1>1, <1>5, FunctionIsSeq
<1>7. \A i \in 1 .. NumReady - handed :
        waiting[i] = storage[Wrap(validStart, handed + (i - 1))]
  BY <1>4
<1> QED
  BY <1>1, <1>6, <1>7 DEF WaitingShape

LEMMA WaitingFactsNext == RingInv' => WaitingShape'
  BY WaitingFacts, PTL

(* The slots of what is waiting are not the free slot at the write cursor.  *)
LEMMA WaitingNotAtEnd ==
  ASSUME RingInv, HasRoom, NEW k \in Nat, k < NumReady
  PROVE  Wrap(validStart, k) # validEnd
  BY CapacityAssumption DEF RingInv, IInv, TypeOK, NumReady, HasRoom, Wrap, Slots

LEMMA PushAppends ==
  ASSUME RingInv, PushFinish
  PROVE  waiting' = Append(waiting, pushed) /\ NumReady < Capacity - 1
<1>1. NumReady' = NumReady + 1
  BY CapacityAssumption DEF PushFinish, RingInv, IInv, TypeOK, Slots, NumReady, HasRoom, Wrap
<1>2. RingInv' /\ handed' = handed /\ storage' = storage /\ validStart' = validStart
  BY NextRing DEF PushFinish, Next, Push
<1>3. DEFINE n == NumReady - handed
<1>4. n \in Nat /\ NumReady' - handed' = n + 1
  BY <1>1, <1>2, WaitingFacts DEF WaitingShape
<1>5. /\ waiting \in Seq(Items \union {NoItem}) /\ Len(waiting) = n
      /\ waiting' \in Seq(Items \union {NoItem}) /\ Len(waiting') = n + 1
      /\ \A i \in 1 .. n : waiting[i] = storage[Wrap(validStart, handed + (i - 1))]
      /\ \A i \in 1 .. n + 1 : waiting'[i] = storage[Wrap(validStart, handed + (i - 1))]
  BY <1>2, <1>4, WaitingFacts, WaitingFactsNext DEF WaitingShape
<1>6. Wrap(validStart, NumReady) = validEnd /\ handed + ((n + 1) - 1) = NumReady
  BY WaitingFacts, CapacityAssumption
     DEF WaitingShape, RingInv, IInv, TypeOK, Slots, NumReady, Wrap
<1>7. waiting'[n + 1] = pushed
  BY <1>4, <1>5, <1>6 DEF PushFinish, RingInv, PushInv
<1>8. NumReady < Capacity - 1
  BY DEF PushFinish, RingInv, IInv, HasRoom
<1> HIDE DEF n
<1> QED
  BY <1>4, <1>5, <1>7, <1>8

LEMMA DrainTakes ==
  ASSUME RingInv, DrainItem
  PROVE  /\ waiting # << >> /\ waiting' = Tail(waiting)
         /\ storage[Wrap(validStart, handed)] = Head(waiting)
<1>1. RingInv' /\ handed' = handed + 1 /\ NumReady' = NumReady
      /\ storage' = storage /\ validStart' = validStart
  BY NextRing DEF DrainItem, Next, Drain, NumReady
<1>2. handed \in Nat /\ handed < NumReady /\ NumReady \in Nat
  BY WaitingFacts, CapacityAssumption DEF WaitingShape, DrainItem, RingInv, IInv, TypeOK
<1> DEFINE n == NumReady - handed
<1>3. n \in Nat \ {0} /\ NumReady' - handed' = n - 1
  BY <1>1, <1>2
<1>4. /\ waiting \in Seq(Items \union {NoItem}) /\ Len(waiting) = n
      /\ waiting' \in Seq(Items \union {NoItem}) /\ Len(waiting') = n - 1
      /\ \A i \in 1 .. n : waiting[i] = storage[Wrap(validStart, handed + (i - 1))]
      /\ \A i \in 1 .. n - 1 : waiting'[i] = storage[Wrap(validStart, (handed + 1) + (i - 1))]
  BY <1>1, <1>3, WaitingFacts, WaitingFactsNext DEF WaitingShape
<1> HIDE DEF n
<1>5. \A i \in 1 .. n - 1 : i + 1 \in 1 .. n /\ (handed + 1) + (i - 1) = handed + ((i + 1) - 1)
  BY <1>2, <1>3
<1>6. \A i \in 1 .. n - 1 : waiting'[i] = waiting[i + 1]
  BY <1>4, <1>5
<1>7. waiting' = Tail(waiting)
  BY <1>3, <1>4, <1>6
<1>8. Head(waiting) = storage[Wrap(validStart, handed)]
  BY <1>2, <1>3, <1>4
<1> QED
  BY <1>3, <1>4, <1>7, <1>8

LEMMA OthersKeep ==
  ASSUME RingInv, [Next]_fifoVars, ~ PushFinish, ~ DrainItem
  PROVE  waiting' = waiting
<1>1. CASE PushCopy
  <2>1. /\ RingInv' /\ handed' = handed /\ NumReady' = NumReady /\ validStart' = validStart
        /\ storage' = [storage EXCEPT ![validEnd] = pushed]
    BY <1>1, NextRing DEF PushCopy, Next, Push, NumReady
  <2>2. \A i \in 1 .. NumReady - handed :
          storage'[Wrap(validStart, handed + (i - 1))] = storage[Wrap(validStart, handed + (i - 1))]
    <3> SUFFICES ASSUME NEW i \in 1 .. NumReady - handed
                 PROVE  storage'[Wrap(validStart, handed + (i - 1))]
                          = storage[Wrap(validStart, handed + (i - 1))]
      OBVIOUS
    <3>1. handed + (i - 1) \in Nat /\ handed + (i - 1) < NumReady
          /\ handed + (i - 1) \in 0 .. Capacity - 1
      BY WaitingFacts, CapacityAssumption DEF WaitingShape
    <3>2. Wrap(validStart, handed + (i - 1)) # validEnd
      BY <3>1, <1>1, WaitingNotAtEnd DEF PushCopy, RingInv, IInv
    <3>3. Wrap(validStart, handed + (i - 1)) \in Slots
      BY <3>1, CursorArithmetic DEF RingInv, IInv
    <3> QED
      BY <2>1, <3>2, <3>3 DEF RingInv, IInv, TypeOK
  <2>3. /\ waiting \in Seq(Items \union {NoItem}) /\ Len(waiting) = NumReady - handed
        /\ waiting' \in Seq(Items \union {NoItem}) /\ Len(waiting') = NumReady - handed
        /\ \A i \in 1 .. NumReady - handed : waiting'[i] = waiting[i]
    BY <2>1, <2>2, WaitingFacts, WaitingFactsNext DEF WaitingShape
  <2> QED
    BY <2>3
<1>2. CASE DrainFinish
  <2>1. /\ RingInv' /\ handed' = 0 /\ storage' = storage /\ handed = ready
        /\ validStart' = Wrap(validStart, ready)
        /\ NumReady' = NumReady - ready
    <3>1. NumReady' = NumReady - ready
      BY <1>2, CapacityAssumption DEF DrainFinish, NumReady, Wrap, RingInv, IInv, TypeOK, Slots
    <3> QED
      BY <1>2, <3>1, NextRing DEF DrainFinish, Next, Drain
  <2>2. \A i \in 1 .. NumReady - ready :
          Wrap(Wrap(validStart, ready), i - 1) = Wrap(validStart, ready + (i - 1))
    BY CapacityAssumption, CursorArithmetic DEF Wrap, RingInv, IInv, TypeOK, Slots
  <2>3. /\ waiting \in Seq(Items \union {NoItem}) /\ Len(waiting) = NumReady - ready
        /\ waiting' \in Seq(Items \union {NoItem}) /\ Len(waiting') = NumReady - ready
        /\ \A i \in 1 .. NumReady - ready : waiting'[i] = waiting[i]
    <3>1. /\ \A i \in 1 .. NumReady - ready :
               waiting[i] = storage[Wrap(validStart, ready + (i - 1))]
          /\ waiting \in Seq(Items \union {NoItem}) /\ Len(waiting) = NumReady - ready
      BY <2>1, WaitingFacts DEF WaitingShape
    <3>2. /\ NumReady' - handed' = NumReady - ready
          /\ \A i \in 1 .. NumReady - ready : 0 + (i - 1) = i - 1
      BY <2>1, WaitingFacts DEF WaitingShape
    <3>3. /\ \A i \in 1 .. NumReady - ready :
               waiting'[i] = storage[Wrap(validStart', i - 1)]
          /\ waiting' \in Seq(Items \union {NoItem}) /\ Len(waiting') = NumReady - ready
      BY <2>1, <3>2, WaitingFacts, WaitingFactsNext DEF WaitingShape
    <3> QED
      BY <2>1, <2>2, <3>1, <3>3
  <2> QED
    BY <2>3
<1>3. CASE DrainBegin
  <2>1. handed' = handed
    BY <1>3 DEF DrainBegin, RingInv, IInv, TypeOK
  <2> QED
    BY <1>3, <2>1 DEF DrainBegin, waiting, NumReady
<1>4. CASE PushRefused \/ (\E item \in Items : PushBegin(item)) \/ UNCHANGED fifoVars
  BY <1>4 DEF PushRefused, PushBegin, fifoVars, waiting, NumReady
<1> QED
  BY <1>1, <1>2, <1>3, <1>4 DEF Next, Push, Drain

(* The ring implements the bounded queue: accepted items come out once, in   *)
(* order, never before they are copied, and a push is refused only when the  *)
(* ring is full, for any capacity and any items.                             *)
THEOREM RingIsBoundedQueue == Spec => ImplementsBoundedQueue
<1>1. Init => Abstract!AbsInit
  <2> SUFFICES ASSUME Init PROVE Abstract!AbsInit
    OBVIOUS
  <2>1. RingInv /\ NumReady = 0 /\ handed = 0 /\ droppedCount = 0
    BY InitRing DEF Init, NumReady
  <2>2. waiting = << >>
    BY <2>1, WaitingFacts DEF WaitingShape
  <2> QED
    BY <2>1, <2>2 DEF Abstract!AbsInit
<1>2. RingInv /\ [Next]_fifoVars => [Abstract!AbsNext]_(Abstract!absVars)
  <2> SUFFICES ASSUME RingInv, [Next]_fifoVars
               PROVE  [Abstract!AbsNext]_(Abstract!absVars)
    OBVIOUS
  <2> USE DEF Abstract!AbsNext, Abstract!absVars
  <2>0. /\ Len(waiting) + handed = NumReady /\ NumReady \in 0 .. Capacity - 1
        /\ Capacity \in Nat
    BY WaitingFacts, CapacityAssumption DEF WaitingShape
  <2>1. CASE PushFinish
    <3>1. pushed \in Items
      BY <2>1 DEF PushFinish, RingInv, PushInv
    <3>2. Abstract!Accept(pushed)
      BY <2>0, <2>1, PushAppends DEF Abstract!Accept, PushFinish
    <3> QED
      BY <3>1, <3>2
  <2>2. CASE DrainItem
    BY <2>2, DrainTakes DEF Abstract!Take, DrainItem
  <2>3. CASE ~ PushFinish /\ ~ DrainItem
    <3>1. waiting' = waiting
      BY <2>3, OthersKeep
    <3>2. CASE PushRefused
      <4>1. Len(waiting) + handed = Capacity - 1
        BY <2>0, <3>2 DEF PushRefused, HasRoom
      <4> QED
        BY <4>1, <3>1, <3>2 DEF PushRefused, Abstract!Refuse
    <3>3. CASE DrainFinish
      BY <3>1, <3>3 DEF DrainFinish, Abstract!Release
    <3>4. CASE DrainBegin
      <4>1. handed' = handed
        BY <3>4 DEF DrainBegin, RingInv, IInv, TypeOK
      <4> QED
        BY <4>1, <3>1, <3>4 DEF DrainBegin
    <3>5. CASE PushCopy \/ (\E item \in Items : PushBegin(item)) \/ UNCHANGED fifoVars
      BY <3>1, <3>5 DEF PushCopy, PushBegin, fifoVars
    <3> QED
      BY <2>3, <3>2, <3>3, <3>4, <3>5 DEF Next, Push, Drain
  <2> QED
    BY <2>1, <2>2, <2>3
<1> QED
  BY InitRing, NextRing, <1>1, <1>2, PTL
     DEF Spec, ImplementsBoundedQueue, Abstract!AbsSpec

-----------------------------------------------------------------------------
(* The keyboards over the ring. *)

LEMMA QueueIsFifo ==
  ASSUME NEW k \in Keys, NEW event \in {On(k), Off(k)}, Queue(event)
  PROVE  Next
  BY NoteAssumption DEF Queue, NoteEvents, Ons, Offs, Next, Push

(* Every step of the three threads is a step of the ring or leaves it alone. *)
LEMMA StepIsFifoStep == [MidiNext]_vars => [Next]_fifoVars
<1> SUFFICES ASSUME [MidiNext]_vars PROVE [Next]_fifoVars
  OBVIOUS
<1>1. ASSUME NEW k \in Keys, HandleNoteOn(k) \/ HandleNoteOff(k) PROVE Next
  BY <1>1, QueueIsFifo DEF HandleNoteOn, HandleNoteOff
<1>2. CASE FinishPush
  BY <1>2 DEF FinishPush, Next, Push
<1>3. ASSUME NEW channels \in Masks, SetMidiChannelMask(channels) PROVE UNCHANGED fifoVars
  BY <1>3 DEF SetMidiChannelMask
<1>4. CASE AllNotesOff \/ DeviceCloses \/ PrepareToPlay
  BY <1>4 DEF AllNotesOff, DeviceCloses, PrepareToPlay
<1>5. CASE MidiThread
  BY <1>5 DEF MidiThread, HardwareNoteOn, HardwareNoteOff, HardwareSweep
<1>6. CASE ReadMask \/ Flush
  BY <1>6 DEF ReadMask, Flush
<1>7. CASE TakeHardware \/ PassHardware \/ PublishCount
  BY <1>7 DEF TakeHardware, PassHardware, PublishCount
<1>8. CASE DrainNotes \/ PassNote \/ DrainedNotes
  BY <1>8 DEF DrainNotes, PassNote, DrainedNotes, Next, Drain
<1>9. CASE UNCHANGED vars
  BY <1>9 DEF vars
<1> QED
  BY <1>1, <1>2, <1>3, <1>4, <1>5, <1>6, <1>7, <1>8, <1>9 DEF MidiNext, MessageThread, AudioBlock

(* The composition implements the ring: the three threads of a keyboard      *)
(* never use the note queue but as its single producer and single consumer.  *)
THEOREM QueueIsUsedAsRing == MidiSpec => Spec
<1>1. MidiInit => Init
  BY DEF MidiInit
<1> QED
  BY <1>1, StepIsFifoStep, PTL DEF MidiSpec, Spec

(* A note is never pushed into a slot whose event the audio block is still   *)
(* handing to the synth, for any keys, masks and capacity.                   *)
THEOREM NotesNeverRace == MidiSpec => []NoSlotRace
  BY QueueIsUsedAsRing, NoDataRace, PTL

(* So every note that is accepted reaches the node once, in order.           *)
THEOREM NotesAreQueued == MidiSpec => ImplementsBoundedQueue
  BY QueueIsUsedAsRing, RingIsBoundedQueue, PTL

-----------------------------------------------------------------------------
(* What each step does to the notes: one the synth holds, and the events on  *)
(* their way to it. *)

noteVars == <<waiting, pushed, held, hardwareHeld, hardwareScratch, collector, synth,
              liveVoices, lost>>

NotesTypes ==
  /\ waiting \in Seq(NoteEvents)
  /\ pushed \in NoteEvents \union {NoItem}
  /\ collector \in Seq(HardwareEvents)
  /\ hardwareScratch \in Seq(HardwareEvents)
  /\ held \subseteq Keys /\ hardwareHeld \subseteq Keys
  /\ synth \subseteq Keys /\ lost \subseteq Keys
  /\ liveVoices \in Nat

(* A push carries an event, and the hardware's messages are in hand only     *)
(* where a block passes them on.                                             *)
NotesPlaces ==
  /\ producer # "idle" => pushed \in NoteEvents
  /\ block # "scratch" => hardwareScratch = << >>
  /\ block # "outside" => running

NotesInv == NotesTypes /\ NotesPlaces

Pressed(k) ==
  /\ k \notin held /\ held' = held \union {k}
  /\ pushed = NoItem /\ pushed' \in {NoItem, On(k)}
  /\ UNCHANGED <<waiting, hardwareHeld, hardwareScratch, collector, synth, liveVoices, lost>>

Released(k) ==
  /\ k \in held /\ held' = held \ {k}
  /\ pushed = NoItem
  /\ \/ pushed' = Off(k) /\ lost' = lost
     \/ pushed' = NoItem /\ lost' = lost \union {k}
  /\ UNCHANGED <<waiting, hardwareHeld, hardwareScratch, collector, synth, liveVoices>>

Queued ==
  /\ pushed \in NoteEvents
  /\ waiting' = Append(waiting, pushed) /\ pushed' = NoItem
  /\ UNCHANGED <<held, hardwareHeld, hardwareScratch, collector, synth, liveVoices, lost>>

Passes(event) ==
  synth' = Pass(Heard, event).synth /\ liveVoices' = Pass(Heard, event).liveVoices

QueuedPasses ==
  /\ waiting # << >> /\ waiting' = Tail(waiting) /\ Passes(Head(waiting))
  /\ UNCHANGED <<pushed, held, hardwareHeld, hardwareScratch, collector, lost>>

Restarted ==
  /\ hardwareScratch = << >>
  /\ collector' = << >> /\ lost' = lost \union OffKeys(collector)
  /\ synth' \in {synth, {}}
  /\ UNCHANGED <<waiting, pushed, held, hardwareHeld, hardwareScratch, liveVoices>>

HardwarePressed(k) ==
  /\ k \notin hardwareHeld /\ hardwareHeld' = hardwareHeld \union {k}
  /\ collector' = Append(collector, On(k))
  /\ UNCHANGED <<waiting, pushed, held, hardwareScratch, synth, liveVoices, lost>>

HardwareReleased(k) ==
  /\ k \in hardwareHeld /\ hardwareHeld' = hardwareHeld \ {k}
  /\ collector' = Append(collector, Off(k))
  /\ UNCHANGED <<waiting, pushed, held, hardwareScratch, synth, liveVoices, lost>>

Swept ==
  /\ collector' = Append(collector, Sweep)
  /\ UNCHANGED <<waiting, pushed, held, hardwareHeld, hardwareScratch, synth, liveVoices, lost>>

Flushed ==
  /\ synth' = {} /\ liveVoices' = 0
  /\ UNCHANGED <<waiting, pushed, held, hardwareHeld, hardwareScratch, collector, lost>>

Taken ==
  /\ hardwareScratch = << >> /\ hardwareScratch' = collector /\ collector' = << >>
  /\ UNCHANGED <<waiting, pushed, held, hardwareHeld, synth, liveVoices, lost>>

HardwarePasses ==
  /\ hardwareScratch # << >> /\ hardwareScratch' = Tail(hardwareScratch)
  /\ Passes(Head(hardwareScratch))
  /\ UNCHANGED <<waiting, pushed, held, hardwareHeld, collector, lost>>

NoteStep ==
  \/ \E k \in Keys : Pressed(k) \/ Released(k) \/ HardwarePressed(k) \/ HardwareReleased(k)
  \/ Queued \/ QueuedPasses \/ Restarted \/ Swept \/ Flushed \/ Taken \/ HardwarePasses
  \/ UNCHANGED noteVars

LEMMA QueueSteps ==
  ASSUME RingInv, NEW k \in Keys, NEW event \in {On(k), Off(k)}, Queue(event)
  PROVE  /\ waiting' = waiting /\ producer = "idle" /\ pushed = NoItem
         /\ \/ pushed' = event /\ lost' = lost
            \/ pushed' = pushed /\ lost' = IF event.kind = "off" THEN lost \union {event.key}
                                                                ELSE lost
<1>1. ~ PushFinish /\ ~ DrainItem /\ producer = "idle"
  <2>1. producer = "idle" /\ handed' = handed
    BY DEF Queue, PushBegin, PushRefused
  <2> QED
    BY <2>1 DEF PushFinish, DrainItem, RingInv, IInv, TypeOK
<1>2. waiting' = waiting
  BY <1>1, QueueIsFifo, OthersKeep
<1> QED
  BY <1>1, <1>2 DEF Queue, PushBegin, PushRefused, RingInv, PushInv

LEMMA RingUntouched == UNCHANGED fifoVars => waiting' = waiting /\ pushed' = pushed
  BY DEF fifoVars, waiting, NumReady

LEMMA MidiSteps == RingInv /\ NotesInv /\ [MidiNext]_vars => NoteStep
<1> SUFFICES ASSUME RingInv, NotesInv, [MidiNext]_vars PROVE NoteStep
  OBVIOUS
<1> USE DEF NoteStep
<1>1. ASSUME NEW k \in Keys, HandleNoteOn(k) PROVE NoteStep
  BY <1>1, QueueSteps DEF HandleNoteOn, Pressed, On, nodeVars
<1>2. ASSUME NEW k \in Keys, HandleNoteOff(k) PROVE NoteStep
  BY <1>2, QueueSteps DEF HandleNoteOff, Released, Off, nodeVars
<1>3. CASE FinishPush
  <2>1. CASE PushFinish
    BY <1>3, <2>1, PushAppends DEF FinishPush, PushFinish, Queued, NotesInv, NotesPlaces, keyboardVars, nodeVars
  <2>2. CASE PushCopy
    <3>1. waiting' = waiting
      BY <2>2, OthersKeep DEF PushCopy, PushFinish, DrainItem, Next, Push
    <3> QED
      BY <1>3, <2>2, <3>1 DEF FinishPush, PushCopy, noteVars, keyboardVars, nodeVars
  <2> QED
    BY <1>3, <2>1, <2>2 DEF FinishPush
<1>4. CASE PassNote
  <2>1. ~ PushFinish /\ pushed' = pushed
    BY <1>4 DEF PassNote, DrainItem, PushFinish
  <2> QED
    BY <1>4, <2>1, DrainTakes DEF PassNote, QueuedPasses, Passes, keyboardVars
<1>5. CASE DrainNotes \/ DrainedNotes
  <2>1. ~ PushFinish /\ ~ DrainItem /\ [Next]_fifoVars /\ pushed' = pushed
    BY <1>5 DEF DrainNotes, DrainedNotes, DrainBegin, DrainFinish, DrainItem, PushFinish,
                Next, Drain, RingInv, PushInv, fifoVars, IInv, TypeOK
  <2> QED
    BY <1>5, <2>1, OthersKeep DEF DrainNotes, DrainedNotes, noteVars, keyboardVars, nodeVars
<1>6. ASSUME NEW channels \in Masks, SetMidiChannelMask(channels) PROVE NoteStep
  BY <1>6, RingUntouched DEF SetMidiChannelMask, noteVars, keyboardVars, nodeVars
<1>7. CASE AllNotesOff \/ DeviceCloses
  BY <1>7, RingUntouched DEF AllNotesOff, DeviceCloses, noteVars, keyboardVars, nodeVars
<1>8. CASE PrepareToPlay
  <2>1. hardwareScratch = << >>
    BY <1>8 DEF PrepareToPlay, NotesInv, NotesPlaces
  <2> QED
    BY <1>8, <2>1, RingUntouched DEF PrepareToPlay, Restarted, OffKeys, keyboardVars
<1>9. ASSUME NEW k \in Keys, HardwareNoteOn(k) \/ HardwareNoteOff(k) PROVE NoteStep
  BY <1>9, RingUntouched
     DEF HardwareNoteOn, HardwareNoteOff, HardwarePressed, HardwareReleased, nodeVars
<1>10. CASE HardwareSweep
  BY <1>10, RingUntouched DEF HardwareSweep, Swept, keyboardVars, nodeVars
<1>11. CASE ReadMask \/ PublishCount
  BY <1>11, RingUntouched DEF ReadMask, PublishCount, noteVars, keyboardVars
<1>12. CASE Flush
  BY <1>12, RingUntouched DEF Flush, Flushed, noteVars, keyboardVars
<1>13. CASE TakeHardware
  BY <1>13, RingUntouched DEF TakeHardware, Taken, NotesInv, NotesPlaces, keyboardVars
<1>14. CASE PassHardware
  BY <1>14, RingUntouched DEF PassHardware, HardwarePasses, Passes, keyboardVars
<1>15. CASE UNCHANGED vars
  BY <1>15, RingUntouched DEF vars, noteVars, keyboardVars, nodeVars
<1> QED
  BY <1>1, <1>2, <1>3, <1>4, <1>5, <1>6, <1>7, <1>8, <1>9, <1>10, <1>11, <1>12, <1>13,
     <1>14, <1>15
     DEF MidiNext, MessageThread, MidiThread, AudioBlock

(* What one event does to the synth and to the count. *)
LEMMA PassFacts ==
  ASSUME NotesInv, NEW event \in HardwareEvents, Passes(event)
  PROVE  /\ synth' \subseteq Keys /\ liveVoices' \in Nat
         /\ event = Sweep => synth' = {} /\ liveVoices' = liveVoices
         /\ \A k \in Keys :
              event = On(k) => /\ synth' \subseteq synth \union {k}
                               /\ liveVoices' <= liveVoices + 1
         /\ \A k \in Keys :
              event = Off(k) => /\ synth' = synth \ {k}
                                /\ liveVoices' = IF liveVoices > 0 THEN liveVoices - 1 ELSE 0
<1> DEFINE w == Pass(Heard, event)
<1>1. synth \subseteq Keys /\ liveVoices \in Nat
  BY DEF NotesInv, NotesTypes
<1>2. synth' = w.synth /\ liveVoices' = w.liveVoices
  BY DEF Passes
<1>3. CASE event = Sweep
  <2>1. event.kind = "sweep"
    BY <1>3 DEF Sweep
  <2>2. w = [Heard EXCEPT !.synth = {}]
    BY <2>1 DEF Pass
  <2>3. w.synth = {} /\ w.liveVoices = liveVoices
    BY <2>2 DEF Heard
  <2> QED
    BY <1>1, <1>2, <1>3, <2>1, <2>3 DEF On, Off
<1>4. ASSUME NEW k \in Keys, event = On(k)
      PROVE  /\ synth' \subseteq synth \union {k} /\ liveVoices' \in Nat
             /\ liveVoices' <= liveVoices + 1
  <2>1. event.kind = "on" /\ event.key = k
    BY <1>4 DEF On
  <2>2. CASE Channel[k] \in mask
    <3>1. w = [synth |-> Heard.synth \union {k}, liveVoices |-> Heard.liveVoices + 1]
      BY <2>1, <2>2 DEF Pass
    <3>2. w.synth = synth \union {k} /\ w.liveVoices = liveVoices + 1
      BY <3>1 DEF Heard
    <3> QED
      BY <1>1, <1>2, <3>2
  <2>3. CASE Channel[k] \notin mask
    <3>1. w = Heard
      BY <2>1, <2>3 DEF Pass
    <3> QED
      BY <1>1, <1>2, <3>1 DEF Heard
  <2> QED
    BY <2>2, <2>3
<1>5. ASSUME NEW k \in Keys, event = Off(k)
      PROVE  /\ synth' = synth \ {k}
             /\ liveVoices' = IF liveVoices > 0 THEN liveVoices - 1 ELSE 0
  <2>1. event.kind = "off" /\ event.key = k
    BY <1>5 DEF Off
  <2>2. w = [synth |-> Heard.synth \ {k},
             liveVoices |-> IF Heard.liveVoices > 0 THEN Heard.liveVoices - 1 ELSE 0]
    BY <2>1 DEF Pass
  <2>3. w.synth = synth \ {k} /\ w.liveVoices = IF liveVoices > 0 THEN liveVoices - 1 ELSE 0
    BY <2>2 DEF Heard
  <2> QED
    BY <1>2, <2>3
<1> HIDE DEF w
<1>6. event = Sweep \/ \E k \in Keys : event = On(k) \/ event = Off(k)
  BY DEF HardwareEvents, NoteEvents, Ons, Offs
<1>7. \A k \in Keys : Sweep # On(k) /\ Sweep # Off(k) /\ \A l \in Keys : On(k) # Off(l)
  <2>1. \A k \in Keys : Sweep.kind = "sweep" /\ On(k).kind = "on" /\ Off(k).kind = "off"
    BY DEF Sweep, On, Off
  <2> QED
    BY <2>1
<1>8. CASE event = Sweep
  BY <1>1, <1>3, <1>7, <1>8
<1>9. ASSUME NEW k \in Keys, event = On(k) PROVE synth' \subseteq Keys /\ liveVoices' \in Nat
  BY <1>1, <1>4, <1>9
<1>10. ASSUME NEW k \in Keys, event = Off(k) PROVE synth' \subseteq Keys /\ liveVoices' \in Nat
  BY <1>1, <1>5, <1>10
<1> QED
  BY <1>3, <1>4, <1>5, <1>6, <1>7, <1>8, <1>9, <1>10

LEMMA EventTypes ==
  /\ NoteEvents \subseteq HardwareEvents /\ Sweep \in HardwareEvents
  /\ NoItem \notin NoteEvents
  /\ \A k \in Keys : On(k) \in NoteEvents /\ Off(k) \in NoteEvents
  BY NoteAssumption DEF HardwareEvents, NoteEvents, Ons, Offs

LEMMA SequenceParts ==
  ASSUME NEW S, NEW s \in Seq(S)
  PROVE  /\ \A e \in S : Append(s, e) \in Seq(S)
         /\ s # << >> => Tail(s) \in Seq(S) /\ Head(s) \in S
OBVIOUS

LEMMA InitNotes == MidiInit => RingInv /\ NotesInv
<1> SUFFICES ASSUME MidiInit PROVE RingInv /\ NotesInv
  OBVIOUS
<1>1. RingInv /\ NumReady = 0 /\ handed = 0
  BY InitRing DEF MidiInit, Init, NumReady
<1>2. waiting = << >>
  BY <1>1, WaitingFacts DEF WaitingShape
<1> QED
  BY <1>1, <1>2 DEF MidiInit, Init, NotesInv, NotesTypes, NotesPlaces

LEMMA NextTypes == RingInv /\ NotesInv /\ [MidiNext]_vars => NotesTypes'
<1> SUFFICES ASSUME RingInv, NotesInv, [MidiNext]_vars PROVE NotesTypes'
  OBVIOUS
<1> USE DEF NotesTypes
<1>1. NotesTypes
  BY DEF NotesInv
<1>2. ASSUME NEW k \in Keys, Pressed(k) \/ Released(k) PROVE NotesTypes'
  BY <1>1, <1>2, EventTypes DEF Pressed, Released
<1>3. ASSUME NEW k \in Keys, HardwarePressed(k) \/ HardwareReleased(k) PROVE NotesTypes'
  <2>1. Append(collector, On(k)) \in Seq(HardwareEvents)
        /\ Append(collector, Off(k)) \in Seq(HardwareEvents)
    BY <1>1, EventTypes, SequenceParts
  <2> QED
    BY <1>1, <1>3, <2>1 DEF HardwarePressed, HardwareReleased
<1>4. CASE Queued
  BY <1>1, <1>4, SequenceParts DEF Queued
<1>5. CASE QueuedPasses
  <2>1. Tail(waiting) \in Seq(NoteEvents) /\ Head(waiting) \in HardwareEvents
    BY <1>1, <1>5, EventTypes, SequenceParts DEF QueuedPasses
  <2> QED
    BY <1>1, <1>5, <2>1, PassFacts DEF QueuedPasses
<1>6. CASE HardwarePasses
  <2>1. Tail(hardwareScratch) \in Seq(HardwareEvents) /\ Head(hardwareScratch) \in HardwareEvents
    BY <1>1, <1>6, SequenceParts DEF HardwarePasses
  <2> QED
    BY <1>1, <1>6, <2>1, PassFacts DEF HardwarePasses
<1>7. CASE Restarted
  BY <1>1, <1>7 DEF Restarted, OffKeys
<1>8. CASE Swept
  BY <1>1, <1>8, EventTypes, SequenceParts DEF Swept
<1>9. CASE Flushed \/ Taken
  BY <1>1, <1>9 DEF Flushed, Taken
<1>10. CASE UNCHANGED noteVars
  BY <1>1, <1>10 DEF noteVars
<1> QED
  BY <1>2, <1>3, <1>4, <1>5, <1>6, <1>7, <1>8, <1>9, <1>10, MidiSteps DEF NoteStep

LEMMA NextPlaces == RingInv /\ NotesInv /\ [MidiNext]_vars => NotesPlaces'
<1> SUFFICES ASSUME RingInv, NotesInv, [MidiNext]_vars PROVE NotesPlaces'
  OBVIOUS
<1> USE DEF NotesInv, NotesPlaces
<1>1. ASSUME NEW k \in Keys, HandleNoteOn(k) \/ HandleNoteOff(k) PROVE NotesPlaces'
  BY <1>1, EventTypes DEF HandleNoteOn, HandleNoteOff, Queue, PushBegin, PushRefused, nodeVars
<1>2. CASE FinishPush
  BY <1>2 DEF FinishPush, PushCopy, PushFinish, nodeVars
<1>3. ASSUME NEW channels \in Masks, SetMidiChannelMask(channels) PROVE NotesPlaces'
  BY <1>3 DEF SetMidiChannelMask, fifoVars, nodeVars
<1>4. CASE AllNotesOff \/ DeviceCloses \/ PrepareToPlay
  BY <1>4 DEF AllNotesOff, DeviceCloses, PrepareToPlay, fifoVars, nodeVars
<1>5. ASSUME NEW k \in Keys, HardwareNoteOn(k) \/ HardwareNoteOff(k) PROVE NotesPlaces'
  BY <1>5 DEF HardwareNoteOn, HardwareNoteOff, fifoVars, nodeVars
<1>6. CASE HardwareSweep
  BY <1>6 DEF HardwareSweep, fifoVars, nodeVars
<1>7. CASE ReadMask \/ Flush
  BY <1>7 DEF ReadMask, Flush, fifoVars
<1>8. CASE DrainNotes \/ PassNote \/ DrainedNotes
  BY <1>8 DEF DrainNotes, PassNote, DrainedNotes, DrainBegin, DrainItem, DrainFinish,
              fifoVars, nodeVars
<1>9. CASE TakeHardware \/ PassHardware \/ PublishCount
  BY <1>9 DEF TakeHardware, PassHardware, PublishCount, fifoVars
<1>10. CASE UNCHANGED vars
  BY <1>10 DEF vars, fifoVars, nodeVars
<1> QED
  BY <1>1, <1>2, <1>3, <1>4, <1>5, <1>6, <1>7, <1>8, <1>9, <1>10
     DEF MidiNext, MessageThread, MidiThread, AudioBlock

(* The rest of what has a type: the masks, the block's place and the count.  *)
BlockTypes ==
  /\ channelMask \subseteq Channels /\ mask \subseteq Channels
  /\ block \in {"outside", "flush", "drain", "hardware", "scratch"}
  /\ voiceCount \in Nat

LEMMA NextBlockTypes == NotesInv /\ BlockTypes /\ [MidiNext]_vars => BlockTypes'
<1> SUFFICES ASSUME NotesInv, BlockTypes, [MidiNext]_vars PROVE BlockTypes'
  OBVIOUS
<1> USE DEF BlockTypes
<1>1. ASSUME NEW k \in Keys, HandleNoteOn(k) \/ HandleNoteOff(k) PROVE BlockTypes'
  BY <1>1 DEF HandleNoteOn, HandleNoteOff, controlVars, nodeVars
<1>2. CASE FinishPush
  BY <1>2 DEF FinishPush, controlVars, nodeVars
<1>3. ASSUME NEW channels \in Masks, SetMidiChannelMask(channels) PROVE BlockTypes'
  BY <1>3, MaskAssumption DEF SetMidiChannelMask, nodeVars
<1>4. CASE AllNotesOff \/ DeviceCloses \/ PrepareToPlay
  BY <1>4 DEF AllNotesOff, DeviceCloses, PrepareToPlay, controlVars, nodeVars
<1>5. ASSUME NEW k \in Keys, HardwareNoteOn(k) \/ HardwareNoteOff(k) PROVE BlockTypes'
  BY <1>5 DEF HardwareNoteOn, HardwareNoteOff, controlVars, nodeVars
<1>6. CASE HardwareSweep
  BY <1>6 DEF HardwareSweep, controlVars, nodeVars
<1>7. CASE ReadMask \/ Flush
  BY <1>7 DEF ReadMask, Flush, controlVars
<1>8. CASE DrainNotes \/ PassNote \/ DrainedNotes
  BY <1>8 DEF DrainNotes, PassNote, DrainedNotes, controlVars, nodeVars
<1>9. CASE TakeHardware \/ PassHardware \/ PublishCount
  BY <1>9 DEF TakeHardware, PassHardware, PublishCount, controlVars, NotesInv, NotesTypes
<1>10. CASE UNCHANGED vars
  BY <1>10 DEF vars, controlVars, nodeVars
<1> QED
  BY <1>1, <1>2, <1>3, <1>4, <1>5, <1>6, <1>7, <1>8, <1>9, <1>10
     DEF MidiNext, MessageThread, MidiThread, AudioBlock

LEMMA RingNext == RingInv /\ [MidiNext]_vars => RingInv'
  BY StepIsFifoStep, NextRing

LEMMA NotesNext == RingInv /\ NotesInv /\ [MidiNext]_vars => NotesInv'
  BY NextTypes, NextPlaces DEF NotesInv

(* The keys, the queue, the collector and the node stay in their ranges,     *)
(* whatever the three threads do, for any keys, masks and capacity.          *)
THEOREM NotesTypeCorrect == MidiSpec => []MidiTypeOK
<1>1. MidiInit => BlockTypes
  BY DEF MidiInit, BlockTypes
<1>2. RingInv /\ NotesInv /\ BlockTypes => MidiTypeOK
  BY DEF RingInv, IInv, NotesInv, NotesTypes, BlockTypes, MidiTypeOK
<1> QED
  BY InitNotes, RingNext, NotesNext, NextBlockTypes, <1>1, <1>2, PTL DEF MidiSpec

-----------------------------------------------------------------------------
(* Every note-on on its way is followed by its note-off, or its key is still *)
(* down, or its off is lost.                                                 *)

(* In the events s, an on whose key is not in kept has its off behind it.    *)
Ended(s, kept) ==
  \A k \in Keys : \A i \in DOMAIN s :
    s[i] = On(k) => k \in kept \/ \E j \in DOMAIN s : j > i /\ s[j] = Off(k)

EndsInv ==
  /\ Ended(waiting, held \union lost \union OffKeys(<<pushed>>))
  /\ \A k \in Keys : pushed = On(k) => k \in held \union lost
  /\ Ended(hardwareScratch, hardwareHeld \union lost \union OffKeys(collector))
  /\ Ended(collector, hardwareHeld \union lost)
  /\ NoStuckNote

LEMMA OnIsNotOff ==
  /\ \A k, l \in Keys : On(k) # Off(l) /\ (On(k) = On(l) => k = l) /\ (Off(k) = Off(l) => k = l)
  /\ \A k \in Keys : Sweep # On(k) /\ Sweep # Off(k) /\ NoItem # On(k) /\ NoItem # Off(k)
<1>1. \A k \in Keys : /\ On(k).kind = "on" /\ Off(k).kind = "off" /\ Sweep.kind = "sweep"
                      /\ On(k).key = k /\ Off(k).key = k
  BY DEF On, Off, Sweep
<1> QED
  BY <1>1, EventTypes

LEMMA EndedGrows ==
  ASSUME NEW s, NEW kept, NEW more, kept \cap Keys \subseteq more, Ended(s, kept)
  PROVE  Ended(s, more)
  BY DEF Ended

LEMMA EndedEmpty == \A kept : Ended(<< >>, kept)
  BY DEF Ended

LEMMA EndedAppend ==
  ASSUME NEW S, NEW s \in Seq(S), NEW e \in S, NEW kept, NEW more, Ended(s, kept),
         \A k \in Keys : k \in kept => k \in more \/ e = Off(k),
         \A k \in Keys : e = On(k) => k \in more
  PROVE  Ended(Append(s, e), more)
<1> DEFINE t == Append(s, e)
<1>1. /\ Len(s) \in Nat /\ DOMAIN s = 1 .. Len(s) /\ DOMAIN t = 1 .. Len(s) + 1
      /\ \A i \in DOMAIN s : t[i] = s[i] /\ i \in DOMAIN t /\ i < Len(s) + 1
      /\ t[Len(s) + 1] = e /\ Len(s) + 1 \in DOMAIN t
  OBVIOUS
<1> HIDE DEF t
<1>2. SUFFICES ASSUME NEW k \in Keys, NEW i \in DOMAIN t, t[i] = On(k), k \notin more
               PROVE  \E j \in DOMAIN t : j > i /\ t[j] = Off(k)
  BY DEF Ended, t
<1>3. e # On(k)
  BY <1>2
<1>4. i \in DOMAIN s
  BY <1>1, <1>2, <1>3
<1>5. CASE k \in kept
  BY <1>1, <1>2, <1>4, <1>5
<1>6. CASE k \notin kept
  <2>1. PICK j \in DOMAIN s : j > i /\ s[j] = Off(k)
    BY <1>1, <1>2, <1>4, <1>6 DEF Ended
  <2> QED
    BY <1>1, <2>1
<1> QED
  BY <1>5, <1>6

LEMMA EndedTail ==
  ASSUME NEW S, NEW s \in Seq(S), s # << >>, NEW kept, Ended(s, kept)
  PROVE  /\ Ended(Tail(s), kept)
         /\ \A k \in Keys : Head(s) = On(k) => k \in kept \/ k \in OffKeys(Tail(s))
<1> DEFINE t == Tail(s)
<1>1. /\ Len(s) \in Nat \ {0} /\ DOMAIN s = 1 .. Len(s) /\ DOMAIN t = 1 .. Len(s) - 1
      /\ \A i \in DOMAIN t : t[i] = s[i + 1] /\ i + 1 \in DOMAIN s
      /\ \A j \in DOMAIN s : j > 1 => j - 1 \in DOMAIN t /\ t[j - 1] = s[j]
      /\ Head(s) = s[1] /\ 1 \in DOMAIN s
  OBVIOUS
<1> HIDE DEF t
<1>2. Ended(t, kept)
  <2>1. SUFFICES ASSUME NEW k \in Keys, NEW i \in DOMAIN t, t[i] = On(k), k \notin kept
                 PROVE  \E j \in DOMAIN t : j > i /\ t[j] = Off(k)
    BY DEF Ended
  <2>2. PICK j \in DOMAIN s : j > i + 1 /\ s[j] = Off(k)
    BY <1>1, <2>1 DEF Ended
  <2>3. j - 1 \in DOMAIN t /\ j - 1 > i /\ t[j - 1] = Off(k)
    BY <1>1, <2>1, <2>2
  <2> QED
    BY <2>3
<1>3. ASSUME NEW k \in Keys, Head(s) = On(k), k \notin kept PROVE k \in OffKeys(t)
  <2>1. PICK j \in DOMAIN s : j > 1 /\ s[j] = Off(k)
    BY <1>1, <1>3 DEF Ended
  <2>2. j - 1 \in DOMAIN t /\ t[j - 1] = Off(k)
    BY <1>1, <2>1
  <2> QED
    BY <2>2 DEF OffKeys, ToSet
<1> QED
  BY <1>2, <1>3 DEF t

(* The keys whose off is in a sequence, as the sequence changes.             *)
LEMMA OffKeysBase ==
  /\ OffKeys(<< >>) = {}
  /\ \A e : OffKeys(<<e>>) = {k \in Keys : e = Off(k)}
<1>1. ToSet(<< >>) = {}
  BY DEF ToSet
<1>2. \A e : ToSet(<<e>>) = {e}
  BY DEF ToSet
<1> QED
  BY <1>1, <1>2 DEF OffKeys

LEMMA OffKeysAppend ==
  ASSUME NEW S, NEW s \in Seq(S), NEW e \in S
  PROVE  OffKeys(Append(s, e)) = OffKeys(s) \union OffKeys(<<e>>)
<1> DEFINE t == Append(s, e)
<1>1. /\ Len(s) \in Nat /\ DOMAIN s = 1 .. Len(s) /\ DOMAIN t = 1 .. Len(s) + 1
      /\ \A i \in DOMAIN s : t[i] = s[i] /\ i \in DOMAIN t
      /\ \A i \in DOMAIN t : i \in DOMAIN s \/ i = Len(s) + 1
      /\ t[Len(s) + 1] = e /\ Len(s) + 1 \in DOMAIN t
  OBVIOUS
<1> HIDE DEF t
<1>2. ToSet(t) = ToSet(s) \union {e}
  BY <1>1 DEF ToSet
<1> QED
  BY <1>2, OffKeysBase DEF OffKeys, t

LEMMA OffKeysTail ==
  ASSUME NEW S, NEW s \in Seq(S), s # << >>
  PROVE  OffKeys(s) = OffKeys(Tail(s)) \union OffKeys(<<Head(s)>>)
<1> DEFINE t == Tail(s)
<1>1. /\ Len(s) \in Nat \ {0} /\ DOMAIN s = 1 .. Len(s) /\ DOMAIN t = 1 .. Len(s) - 1
      /\ \A i \in DOMAIN t : t[i] = s[i + 1] /\ i + 1 \in DOMAIN s
      /\ \A j \in DOMAIN s : j # 1 => j - 1 \in DOMAIN t /\ t[j - 1] = s[j]
      /\ Head(s) = s[1] /\ 1 \in DOMAIN s
  OBVIOUS
<1> HIDE DEF t
<1>2. ToSet(s) = ToSet(t) \union {Head(s)}
  BY <1>1 DEF ToSet
<1> QED
  BY <1>2, OffKeysBase DEF OffKeys, t

LEMMA InitEnds == MidiInit => EndsInv
<1> SUFFICES ASSUME MidiInit PROVE EndsInv
  OBVIOUS
<1>1. waiting = << >>
  <2>1. RingInv /\ NumReady = 0 /\ handed = 0
    BY InitRing DEF MidiInit, Init, NumReady
  <2> QED
    BY <2>1, WaitingFacts DEF WaitingShape
<1>2. collector = << >> /\ hardwareScratch = << >> /\ pushed = NoItem /\ synth = {}
  BY DEF MidiInit, Init
<1> QED
  BY <1>1, <1>2, EndedEmpty, OnIsNotOff DEF EndsInv, NoStuckNote

LEMMA NextEnds == RingInv /\ NotesInv /\ EndsInv /\ [MidiNext]_vars => EndsInv'
<1> SUFFICES ASSUME RingInv, NotesInv, EndsInv, [MidiNext]_vars PROVE EndsInv'
  OBVIOUS
<1> DEFINE kept == held \union lost \union OffKeys(<<pushed>>)
           keptHardware == hardwareHeld \union lost \union OffKeys(collector)
<1>0. /\ NotesTypes /\ NotesTypes'
      /\ \A e : OffKeys(<<e>>) = {k \in Keys : e = Off(k)}
      /\ OffKeys(<< >>) = {}
  BY NextTypes, OffKeysBase DEF NotesInv
<1>1. ASSUME NEW k \in Keys, Pressed(k) PROVE EndsInv'
  <2>1. UNCHANGED <<waiting, hardwareHeld, hardwareScratch, collector, synth, lost>>
        /\ held' = held \union {k} /\ pushed = NoItem /\ pushed' \in {NoItem, On(k)}
    BY <1>1 DEF Pressed
  <2>2. OffKeys(<<pushed>>) = {} /\ OffKeys(<<pushed'>>) = {}
    BY <1>0, <2>1, OnIsNotOff
  <2>3. Ended(waiting', held' \union lost' \union OffKeys(<<pushed'>>))
    BY <2>1, <2>2, EndedGrows DEF EndsInv
  <2>4. \A l \in Keys : pushed' = On(l) => l \in held' \union lost'
    BY <2>1, OnIsNotOff
  <2> QED
    BY <2>1, <2>2, <2>3, <2>4 DEF EndsInv, NoStuckNote
<1>2. ASSUME NEW k \in Keys, Released(k) PROVE EndsInv'
  <2>1. /\ UNCHANGED <<waiting, hardwareHeld, hardwareScratch, collector, synth>>
        /\ held' = held \ {k} /\ pushed = NoItem
        /\ (pushed' = Off(k) /\ lost' = lost) \/ (pushed' = NoItem /\ lost' = lost \union {k})
    BY <1>2 DEF Released
  <2>2. OffKeys(<<pushed>>) = {} /\ k \in lost' \union OffKeys(<<pushed'>>) /\ lost \subseteq lost'
    BY <1>0, <2>1, OnIsNotOff
  <2>3. Ended(waiting', held' \union lost' \union OffKeys(<<pushed'>>))
    BY <2>1, <2>2, EndedGrows DEF EndsInv
  <2>4. \A l \in Keys : pushed' = On(l) => l \in held' \union lost'
    BY <2>1, OnIsNotOff
  <2>5. /\ Ended(hardwareScratch', hardwareHeld' \union lost' \union OffKeys(collector'))
        /\ Ended(collector', hardwareHeld' \union lost')
    BY <2>1, <2>2, EndedGrows DEF EndsInv
  <2>6. NoStuckNote'
    BY <2>1, <2>2 DEF EndsInv, NoStuckNote
  <2> QED
    BY <2>3, <2>4, <2>5, <2>6 DEF EndsInv
<1>3. CASE Queued
  <2>1. /\ UNCHANGED <<held, hardwareHeld, hardwareScratch, collector, synth, lost>>
        /\ waiting' = Append(waiting, pushed) /\ pushed' = NoItem /\ pushed \in NoteEvents
    BY <1>3 DEF Queued
  <2>2. OffKeys(<<pushed'>>) = {} /\ OffKeys(waiting') = OffKeys(waiting) \union OffKeys(<<pushed>>)
    BY <1>0, <2>1, OnIsNotOff, OffKeysAppend DEF NotesTypes
  <2>3. Ended(waiting', held' \union lost' \union OffKeys(<<pushed'>>))
    <3>1. waiting \in Seq(NoteEvents)
      BY <1>0 DEF NotesTypes
    <3>2. Ended(waiting', held \union lost)
      BY <1>0, <2>1, <3>1, EndedAppend DEF EndsInv
    <3> QED
      BY <2>1, <2>2, <3>2, EndedGrows
  <2>4. \A l \in Keys : pushed' # On(l)
    BY <2>1, OnIsNotOff
  <2> QED
    BY <2>1, <2>2, <2>3, <2>4 DEF EndsInv, NoStuckNote
<1>4. CASE QueuedPasses
  <2>1. /\ UNCHANGED <<pushed, held, hardwareHeld, hardwareScratch, collector, lost>>
        /\ waiting # << >> /\ waiting' = Tail(waiting) /\ Passes(Head(waiting))
        /\ waiting \in Seq(NoteEvents)
    BY <1>0, <1>4 DEF QueuedPasses, NotesTypes
  <2>2. /\ Head(waiting) \in NoteEvents
        /\ OffKeys(waiting) = OffKeys(waiting') \union OffKeys(<<Head(waiting)>>)
        /\ Ended(waiting', kept)
        /\ \A k \in Keys : Head(waiting) = On(k) => k \in kept \union OffKeys(waiting')
    BY <2>1, SequenceParts, OffKeysTail, EndedTail DEF EndsInv
  <2>3. PICK k \in Keys : Head(waiting) = On(k) \/ Head(waiting) = Off(k)
    BY <2>2 DEF NoteEvents, Ons, Offs
  <2>4. NoStuckNote'
    <3>1. CASE Head(waiting) = On(k)
      <4>1. synth' \subseteq synth \union {k} /\ k \in kept \union OffKeys(waiting')
        BY <2>1, <2>2, <3>1, EventTypes, PassFacts
      <4>2. OffKeys(waiting') = OffKeys(waiting)
        BY <1>0, <2>2, <3>1, OnIsNotOff
      <4> QED
        BY <2>1, <4>1, <4>2 DEF EndsInv, NoStuckNote
    <3>2. CASE Head(waiting) = Off(k)
      <4>1. synth' = synth \ {k}
        BY <2>1, <2>2, <3>2, EventTypes, PassFacts
      <4>2. OffKeys(waiting) \subseteq OffKeys(waiting') \union {k}
        BY <1>0, <2>2, <3>2, OnIsNotOff
      <4> QED
        BY <2>1, <4>1, <4>2 DEF EndsInv, NoStuckNote
    <3> QED
      BY <2>3, <3>1, <3>2
  <2> QED
    BY <2>1, <2>2, <2>4 DEF EndsInv
<1>5. CASE HardwarePasses
  <2>1. /\ UNCHANGED <<waiting, pushed, held, hardwareHeld, collector, lost>>
        /\ hardwareScratch # << >> /\ hardwareScratch' = Tail(hardwareScratch)
        /\ Passes(Head(hardwareScratch)) /\ hardwareScratch \in Seq(HardwareEvents)
    BY <1>0, <1>5 DEF HardwarePasses, NotesTypes
  <2>2. /\ Head(hardwareScratch) \in HardwareEvents
        /\ OffKeys(hardwareScratch)
             = OffKeys(hardwareScratch') \union OffKeys(<<Head(hardwareScratch)>>)
        /\ Ended(hardwareScratch', keptHardware)
        /\ \A k \in Keys : Head(hardwareScratch) = On(k)
                             => k \in keptHardware \union OffKeys(hardwareScratch')
    BY <2>1, SequenceParts, OffKeysTail, EndedTail DEF EndsInv
  <2>3. NoStuckNote'
    <3>1. ASSUME NEW k \in Keys, Head(hardwareScratch) = On(k) PROVE NoStuckNote'
      <4>1. synth' \subseteq synth \union {k}
            /\ k \in keptHardware \union OffKeys(hardwareScratch')
        BY <2>1, <2>2, <3>1, PassFacts
      <4>2. OffKeys(hardwareScratch') = OffKeys(hardwareScratch)
        BY <1>0, <2>2, <3>1, OnIsNotOff
      <4> QED
        BY <2>1, <4>1, <4>2 DEF EndsInv, NoStuckNote
    <3>2. ASSUME NEW k \in Keys, Head(hardwareScratch) = Off(k) PROVE NoStuckNote'
      <4>1. synth' = synth \ {k}
        BY <2>1, <2>2, <3>2, PassFacts
      <4>2. OffKeys(hardwareScratch) \subseteq OffKeys(hardwareScratch') \union {k}
        BY <1>0, <2>2, <3>2, OnIsNotOff
      <4> QED
        BY <2>1, <4>1, <4>2 DEF EndsInv, NoStuckNote
    <3>3. CASE Head(hardwareScratch) = Sweep
      BY <2>1, <2>2, <3>3, PassFacts DEF NoStuckNote
    <3> QED
      BY <2>2, <3>1, <3>2, <3>3 DEF HardwareEvents, NoteEvents, Ons, Offs
  <2> QED
    BY <2>1, <2>2, <2>3 DEF EndsInv
<1>6. CASE Restarted
  <2>1. /\ UNCHANGED <<waiting, pushed, held, hardwareHeld, hardwareScratch>>
        /\ hardwareScratch = << >> /\ collector' = << >>
        /\ lost' = lost \union OffKeys(collector) /\ synth' \subseteq synth
    BY <1>6 DEF Restarted
  <2>2. Ended(waiting', held' \union lost' \union OffKeys(<<pushed'>>))
    BY <2>1, EndedGrows DEF EndsInv
  <2>3. /\ Ended(hardwareScratch', hardwareHeld' \union lost' \union OffKeys(collector'))
        /\ Ended(collector', hardwareHeld' \union lost')
    BY <2>1, EndedEmpty
  <2>4. NoStuckNote'
    BY <1>0, <2>1 DEF EndsInv, NoStuckNote
  <2> QED
    BY <2>1, <2>2, <2>3, <2>4 DEF EndsInv
<1>7. ASSUME NEW k \in Keys, HardwarePressed(k) \/ HardwareReleased(k) PROVE EndsInv'
  <2> DEFINE event == IF HardwarePressed(k) THEN On(k) ELSE Off(k)
  <2>1. /\ UNCHANGED <<waiting, pushed, held, hardwareScratch, synth, lost>>
        /\ collector' = Append(collector, event) /\ collector \in Seq(HardwareEvents)
        /\ event \in {On(k), Off(k)} /\ event \in HardwareEvents
    BY <1>0, <1>7, EventTypes DEF HardwarePressed, HardwareReleased, NotesTypes
  <2>2. \A l \in Keys : l \in hardwareHeld => l \in hardwareHeld' \/ event = Off(l)
    BY <1>7 DEF HardwarePressed, HardwareReleased
  <2>3. \A l \in Keys : event = On(l) => l \in hardwareHeld'
    BY <1>7, OnIsNotOff DEF HardwarePressed, HardwareReleased
  <2> HIDE DEF event
  <2>4. OffKeys(collector') = OffKeys(collector) \union OffKeys(<<event>>)
    BY <2>1, OffKeysAppend
  <2>5. Ended(collector', hardwareHeld' \union lost')
    BY <2>1, <2>2, <2>3, EndedAppend DEF EndsInv
  <2>6. keptHardware \cap Keys \subseteq hardwareHeld' \union lost' \union OffKeys(collector')
    BY <1>0, <2>1, <2>2, <2>4
  <2>7. Ended(hardwareScratch', hardwareHeld' \union lost' \union OffKeys(collector'))
    BY <2>1, <2>6, EndedGrows DEF EndsInv
  <2>8. NoStuckNote'
    BY <1>0, <2>1, <2>2, <2>4 DEF EndsInv, NoStuckNote, NotesTypes
  <2> QED
    BY <2>1, <2>5, <2>7, <2>8 DEF EndsInv
<1>8. CASE Swept
  <2>1. /\ UNCHANGED <<waiting, pushed, held, hardwareHeld, hardwareScratch, synth, lost>>
        /\ collector' = Append(collector, Sweep) /\ collector \in Seq(HardwareEvents)
        /\ Sweep \in HardwareEvents
    BY <1>0, <1>8, EventTypes DEF Swept, NotesTypes
  <2>2. OffKeys(collector') = OffKeys(collector)
    <3>1. OffKeys(collector') = OffKeys(collector) \union OffKeys(<<Sweep>>)
      BY <2>1, OffKeysAppend
    <3>2. OffKeys(<<Sweep>>) = {}
      BY <1>0, OnIsNotOff
    <3> QED
      BY <3>1, <3>2
  <2>3. Ended(collector', hardwareHeld \union lost)
    BY <2>1, OnIsNotOff, EndedAppend DEF EndsInv
  <2> QED
    BY <2>1, <2>2, <2>3 DEF EndsInv, NoStuckNote
<1>9. CASE Flushed
  BY <1>9 DEF Flushed, EndsInv, NoStuckNote
<1>10. CASE Taken
  <2>1. /\ UNCHANGED <<waiting, pushed, held, hardwareHeld, synth, lost>>
        /\ hardwareScratch = << >> /\ hardwareScratch' = collector /\ collector' = << >>
    BY <1>10 DEF Taken
  <2>2. /\ Ended(hardwareScratch', hardwareHeld' \union lost' \union OffKeys(collector'))
        /\ Ended(collector', hardwareHeld' \union lost')
    BY <2>1, EndedEmpty, EndedGrows DEF EndsInv
  <2> QED
    BY <1>0, <2>1, <2>2 DEF EndsInv, NoStuckNote
<1>11. CASE UNCHANGED noteVars
  BY <1>11 DEF noteVars, EndsInv, NoStuckNote
<1> QED
  BY <1>1, <1>2, <1>3, <1>4, <1>5, <1>6, <1>7, <1>8, <1>9, <1>10, <1>11, MidiSteps DEF NoteStep

(* No note hangs: whatever the mask, a panic, a full queue or a restart do   *)
(* while it is held, a note the synth holds has its key down, its off on the *)
(* way, or its off refused or cleared; for any keys, masks and capacity.     *)
THEOREM NoNoteIsStuck == MidiSpec => []NoStuckNote
<1>1. EndsInv => NoStuckNote
  BY DEF EndsInv
<1> QED
  BY InitNotes, InitEnds, RingNext, NotesNext, NextEnds, <1>1, PTL DEF MidiSpec

-----------------------------------------------------------------------------
(* How many events of a kind are in a sequence from some place on. *)

Is(e, E) == IF e \in E THEN 1 ELSE 0

LEMMA CountIsNat ==
  ASSUME NEW S, NEW s \in Seq(S), NEW i \in Nat, NEW E
  PROVE  /\ IsFiniteSet({j \in i .. Len(s) : s[j] \in E})
         /\ CountFrom(s, i, E) \in Nat
         /\ i > Len(s) => CountFrom(s, i, E) = 0
<1>1. i \in Int /\ Len(s) \in Int
  OBVIOUS
<1>2. IsFiniteSet(i .. Len(s)) /\ {j \in i .. Len(s) : s[j] \in E} \in SUBSET (i .. Len(s))
  BY <1>1, FS_Interval
<1>3. i > Len(s) => {j \in i .. Len(s) : s[j] \in E} = {}
  BY <1>1
<1> QED
  BY <1>2, <1>3, FS_Subset, FS_CardinalityType, FS_EmptySet DEF CountFrom

LEMMA CountAppend ==
  ASSUME NEW S, NEW s \in Seq(S), NEW e \in S, NEW E, NEW i \in 1 .. Len(s) + 1
  PROVE  CountFrom(Append(s, e), i, E) = CountFrom(s, i, E) + Is(e, E)
<1> DEFINE t == Append(s, e)
           n == Len(s)
           A == {j \in i .. Len(s) : s[j] \in E}
           B == {j \in i .. Len(t) : t[j] \in E}
<1>1. /\ n \in Nat /\ Len(t) = n + 1 /\ t[n + 1] = e
      /\ i .. n + 1 = (i .. n) \union {n + 1} /\ n + 1 \notin i .. n
      /\ \A j \in i .. n : t[j] = s[j]
  OBVIOUS
<1>2. IsFiniteSet(A) /\ Cardinality(A) \in Nat
  <2>1. i \in Nat
    OBVIOUS
  <2> QED
    BY <2>1, CountIsNat DEF CountFrom
<1> HIDE DEF t
<1>3. CASE e \in E
  <2>1. B = A \union {n + 1} /\ n + 1 \notin A
    BY <1>1, <1>3
  <2>2. Cardinality(B) = Cardinality(A) + 1
    BY <1>2, <2>1, FS_AddElement
  <2> QED
    BY <1>3, <2>2 DEF CountFrom, Is, t
<1>4. CASE e \notin E
  <2>1. B = A
    BY <1>1, <1>4
  <2>2. Cardinality(B) = Cardinality(A) + 0
    <3> HIDE DEF A, B
    <3> QED
      BY <1>2, <2>1
  <2> QED
    BY <1>4, <2>2 DEF CountFrom, Is, t
<1> QED
  BY <1>3, <1>4

LEMMA CountTail ==
  ASSUME NEW S, NEW s \in Seq(S), s # << >>, NEW E, NEW i \in 1 .. Len(s)
  PROVE  CountFrom(Tail(s), i, E) = CountFrom(s, i + 1, E)
<1> DEFINE t == Tail(s)
           A == {j \in i .. Len(t) : t[j] \in E}
           B == {j \in i + 1 .. Len(s) : s[j] \in E}
           f == [j \in A |-> j + 1]
<1>1. /\ Len(s) \in Nat /\ Len(t) = Len(s) - 1
      /\ \A j \in i .. Len(t) : t[j] = s[j + 1] /\ j + 1 \in i + 1 .. Len(s)
      /\ \A j \in i + 1 .. Len(s) : j - 1 \in i .. Len(t) /\ t[j - 1] = s[j] /\ (j - 1) + 1 = j
  OBVIOUS
<1> HIDE DEF t
<1>2. f \in [A -> B]
  BY <1>1
<1>3. \A j, k \in A : f[j] = f[k] => j = k
  OBVIOUS
<1>4. \A k \in B : \E j \in A : f[j] = k
  <2> SUFFICES ASSUME NEW k \in B PROVE k - 1 \in A /\ (k - 1) + 1 = k
    OBVIOUS
  <2> QED
    BY <1>1
<1>5. f \in Bijection(A, B)
  <2> HIDE DEF A, B, f
  <2> QED
    BY <1>2, <1>3, <1>4 DEF Bijection, Injection, Surjection, IsInjective
<1>6. IsFiniteSet(A)
  <2>1. t \in Seq(S) /\ i \in Nat
    BY DEF t
  <2> QED
    BY <2>1, CountIsNat
<1>7. Cardinality(A) = Cardinality(B)
  <2> HIDE DEF A, B, f
  <2> QED
    BY <1>5, <1>6, FS_Bijection DEF ExistsBijection
<1> QED
  BY <1>7 DEF CountFrom, t

LEMMA CountHead ==
  ASSUME NEW S, NEW s \in Seq(S), s # << >>, NEW E
  PROVE  CountFrom(s, 1, E) = CountFrom(Tail(s), 1, E) + Is(Head(s), E)
<1> DEFINE A == {j \in 1 .. Len(s) : s[j] \in E}
           B == {j \in 2 .. Len(s) : s[j] \in E}
<1>1. /\ Len(s) \in Nat \ {0} /\ 1 \in 1 .. Len(s) /\ 1 .. Len(s) = (2 .. Len(s)) \union {1}
      /\ 1 \notin 2 .. Len(s) /\ Head(s) = s[1]
  OBVIOUS
<1>2. IsFiniteSet(B) /\ Cardinality(B) \in Nat
  BY CountIsNat DEF CountFrom
<1>3. CountFrom(Tail(s), 1, E) = Cardinality(B)
  <2>1. CountFrom(Tail(s), 1, E) = CountFrom(s, 1 + 1, E) /\ 1 + 1 = 2
    BY <1>1, CountTail
  <2> QED
    BY <2>1 DEF CountFrom
<1>4. CASE Head(s) \in E
  <2>1. A = B \union {1} /\ 1 \notin B
    BY <1>1, <1>4
  <2>2. Cardinality(A) = Cardinality(B) + 1
    BY <1>2, <2>1, FS_AddElement
  <2> QED
    BY <1>3, <1>4, <2>2 DEF CountFrom, Is
<1>5. CASE Head(s) \notin E
  <2>1. A = B
    BY <1>1, <1>5
  <2>2. Cardinality(A) = Cardinality(B) + 0
    <3> HIDE DEF A, B
    <3> QED
      BY <1>2, <2>1
  <2> QED
    BY <1>3, <1>5, <2>2 DEF CountFrom, Is
<1> QED
  BY <1>4, <1>5

(* Behind every place in s, with a more ons and b more offs still to come,   *)
(* no more ons than offs and the n keys that are down.                       *)
Balanced(s, a, b, n) ==
  \A i \in 1 .. Len(s) + 1 :
    CountFrom(s, i, Ons) + a <= CountFrom(s, i, Offs) + b + n

LEMMA BalancedGrows ==
  ASSUME NEW S, NEW s \in Seq(S), NEW a \in Nat, NEW b \in Nat, NEW n \in Nat,
         NEW c \in Nat, NEW d \in Nat, NEW m \in Nat,
         Balanced(s, a, b, n), c + (b + n) <= a + (d + m)
  PROVE  Balanced(s, c, d, m)
<1> SUFFICES ASSUME NEW i \in 1 .. Len(s) + 1
             PROVE  CountFrom(s, i, Ons) + c <= CountFrom(s, i, Offs) + d + m
  BY DEF Balanced
<1>1. CountFrom(s, i, Ons) \in Nat /\ CountFrom(s, i, Offs) \in Nat
  <2>1. i \in Nat
    OBVIOUS
  <2> QED
    BY <2>1, CountIsNat
<1>2. CountFrom(s, i, Ons) + a <= CountFrom(s, i, Offs) + b + n
  BY DEF Balanced
<1> QED
  BY <1>1, <1>2

LEMMA BalancedEmpty ==
  ASSUME NEW a \in Nat, NEW b \in Nat, NEW n \in Nat, a <= b + n
  PROVE  Balanced(<< >>, a, b, n)
<1>1. << >> \in Seq({}) /\ Len(<< >>) = 0
  OBVIOUS
<1>2. CountFrom(<< >>, 1, Ons) = 0 /\ CountFrom(<< >>, 1, Offs) = 0
  <2>1. 1 \in Nat /\ 1 > 0
    OBVIOUS
  <2> QED
    BY <1>1, <2>1, CountIsNat
<1>3. \A i \in 1 .. Len(<< >>) + 1 : i = 1
  BY <1>1
<1>4. 0 + a <= 0 + b + n
  OBVIOUS
<1> QED
  BY <1>2, <1>3, <1>4 DEF Balanced

LEMMA BalancedEnd ==
  ASSUME NEW S, NEW s \in Seq(S), NEW a \in Nat, NEW b \in Nat, NEW n \in Nat,
         Balanced(s, a, b, n)
  PROVE  /\ a <= b + n
         /\ CountFrom(s, 1, Ons) + a <= CountFrom(s, 1, Offs) + b + n
<1>1. Len(s) + 1 \in 1 .. Len(s) + 1 /\ 1 \in 1 .. Len(s) + 1 /\ Len(s) + 1 > Len(s)
      /\ Len(s) + 1 \in Nat
  OBVIOUS
<1>2. CountFrom(s, Len(s) + 1, Ons) = 0 /\ CountFrom(s, Len(s) + 1, Offs) = 0
  BY <1>1, CountIsNat
<1>3. CountFrom(s, Len(s) + 1, Ons) + a <= CountFrom(s, Len(s) + 1, Offs) + b + n
  BY <1>1 DEF Balanced
<1>4. CountFrom(s, 1, Ons) + a <= CountFrom(s, 1, Offs) + b + n
  BY <1>1 DEF Balanced
<1> QED
  BY <1>2, <1>3, <1>4

LEMMA BalancedAppend ==
  ASSUME NEW S, NEW s \in Seq(S), NEW e \in S, NEW n \in Nat,
         Balanced(s, Is(e, Ons), Is(e, Offs), n)
  PROVE  Balanced(Append(s, e), 0, 0, n)
<1> SUFFICES ASSUME NEW i \in 1 .. Len(s) + 2
             PROVE  CountFrom(Append(s, e), i, Ons) + 0
                      <= CountFrom(Append(s, e), i, Offs) + 0 + n
  BY DEF Balanced
<1>1. Append(s, e) \in Seq(S) /\ Len(Append(s, e)) = Len(s) + 1 /\ i \in Nat /\ Len(s) \in Nat
  OBVIOUS
<1>2. CASE i = Len(s) + 2
  <2>1. CountFrom(Append(s, e), i, Ons) = 0 /\ CountFrom(Append(s, e), i, Offs) = 0
    <3>1. i > Len(Append(s, e))
      BY <1>1, <1>2
    <3> QED
      BY <1>1, <3>1, CountIsNat
  <2> QED
    BY <2>1
<1>3. CASE i \in 1 .. Len(s) + 1
  <2>1. /\ CountFrom(Append(s, e), i, Ons) = CountFrom(s, i, Ons) + Is(e, Ons)
        /\ CountFrom(Append(s, e), i, Offs) = CountFrom(s, i, Offs) + Is(e, Offs)
    BY <1>3, CountAppend
  <2>2. CountFrom(s, i, Ons) + Is(e, Ons) <= CountFrom(s, i, Offs) + Is(e, Offs) + n
    BY <1>3 DEF Balanced
  <2>3. CountFrom(Append(s, e), i, Ons) \in Nat /\ CountFrom(Append(s, e), i, Offs) \in Nat
    BY <1>1, CountIsNat
  <2> QED
    BY <2>1, <2>2, <2>3
<1> QED
  BY <1>1, <1>2, <1>3

LEMMA BalancedTail ==
  ASSUME NEW S, NEW s \in Seq(S), s # << >>, NEW a, NEW b, NEW n, Balanced(s, a, b, n)
  PROVE  Balanced(Tail(s), a, b, n)
<1> SUFFICES ASSUME NEW i \in 1 .. Len(s)
             PROVE  CountFrom(Tail(s), i, Ons) + a <= CountFrom(Tail(s), i, Offs) + b + n
  BY Len(Tail(s)) + 1 = Len(s) DEF Balanced
<1>1. i + 1 \in 1 .. Len(s) + 1
  OBVIOUS
<1> QED
  BY <1>1, CountTail DEF Balanced

LEMMA IsFacts ==
  /\ \A e, E : Is(e, E) \in {0, 1}
  /\ \A k \in Keys : /\ Is(On(k), Ons) = 1 /\ Is(On(k), Offs) = 0
                     /\ Is(Off(k), Ons) = 0 /\ Is(Off(k), Offs) = 1
  /\ Is(Sweep, Ons) = 0 /\ Is(Sweep, Offs) = 0
  /\ Is(NoItem, Ons) = 0 /\ Is(NoItem, Offs) = 0
<1>1. /\ \A k \in Keys : On(k) \in Ons /\ On(k) \notin Offs /\ Off(k) \in Offs /\ Off(k) \notin Ons
      /\ Sweep \notin Ons /\ Sweep \notin Offs /\ NoItem \notin Ons /\ NoItem \notin Offs
  BY OnIsNotOff DEF Ons, Offs
<1> QED
  BY <1>1 DEF Is

(* The ons and the offs on their way, from the screen and from the hardware. *)
ScreenOns == CountFrom(waiting, 1, Ons) + Is(pushed, Ons)
ScreenOffs == CountFrom(waiting, 1, Offs) + Is(pushed, Offs)
HardwareOns == CountFrom(hardwareScratch, 1, Ons) + CountFrom(collector, 1, Ons)
HardwareOffs == CountFrom(hardwareScratch, 1, Offs) + CountFrom(collector, 1, Offs)

(* No event on its way is an on whose off is neither behind it nor owed by a *)
(* key that is down, on either keyboard, and what sounds is owed as well.    *)
ScreenBalance == Balanced(waiting, Is(pushed, Ons), Is(pushed, Offs), Cardinality(held))

HardwareBalance ==
  /\ Balanced(collector, 0, 0, Cardinality(hardwareHeld))
  /\ Balanced(hardwareScratch, CountFrom(collector, 1, Ons), CountFrom(collector, 1, Offs),
              Cardinality(hardwareHeld))

VoicesBalance ==
  liveVoices + ScreenOns + HardwareOns
    <= Cardinality(held) + Cardinality(hardwareHeld) + ScreenOffs + HardwareOffs

FewHeld == IsFiniteSet(held) /\ IsFiniteSet(hardwareHeld)

CountInv ==
  /\ FewHeld
  /\ lost = {} => ScreenBalance /\ HardwareBalance /\ VoicesBalance

CountTypes ==
  /\ {Cardinality(held), Cardinality(hardwareHeld), liveVoices} \subseteq Nat
  /\ {ScreenOns, ScreenOffs, HardwareOns, HardwareOffs} \subseteq Nat
  /\ {CountFrom(waiting, 1, Ons), CountFrom(waiting, 1, Offs),
      CountFrom(hardwareScratch, 1, Ons), CountFrom(hardwareScratch, 1, Offs),
      CountFrom(collector, 1, Ons), CountFrom(collector, 1, Offs),
      Is(pushed, Ons), Is(pushed, Offs)} \subseteq Nat

LEMMA CountsAreNat ==
  NotesTypes /\ FewHeld => CountTypes
<1> SUFFICES ASSUME NotesTypes, IsFiniteSet(held), IsFiniteSet(hardwareHeld) PROVE CountTypes
  BY DEF FewHeld
<1>1. Cardinality(held) \in Nat /\ Cardinality(hardwareHeld) \in Nat /\ liveVoices \in Nat
  BY FS_CardinalityType DEF NotesTypes
<1>2. \A s, E : s \in Seq(NoteEvents) \/ s \in Seq(HardwareEvents) => CountFrom(s, 1, E) \in Nat
  <2>1. 1 \in Nat
    OBVIOUS
  <2> QED
    BY <2>1, CountIsNat
<1>3. \A e, E : Is(e, E) \in Nat
  BY DEF Is
<1>4. /\ CountFrom(waiting, 1, Ons) \in Nat /\ CountFrom(waiting, 1, Offs) \in Nat
      /\ CountFrom(hardwareScratch, 1, Ons) \in Nat /\ CountFrom(hardwareScratch, 1, Offs) \in Nat
      /\ CountFrom(collector, 1, Ons) \in Nat /\ CountFrom(collector, 1, Offs) \in Nat
      /\ Is(pushed, Ons) \in Nat /\ Is(pushed, Offs) \in Nat
  BY <1>2, <1>3 DEF NotesTypes
<1>5. /\ ScreenOns \in Nat /\ ScreenOffs \in Nat /\ HardwareOns \in Nat /\ HardwareOffs \in Nat
  BY <1>4 DEF ScreenOns, ScreenOffs, HardwareOns, HardwareOffs
<1> QED
  BY <1>1, <1>4, <1>5 DEF CountTypes

SilenceIsOwed ==
  ScreenOns + HardwareOns
    <= Cardinality(held) + Cardinality(hardwareHeld) + ScreenOffs + HardwareOffs

(* With both keyboards in balance, no voice counted is a balance of them all. *)
LEMMA SilenceBalances ==
  CountTypes /\ NotesTypes /\ ScreenBalance /\ HardwareBalance => SilenceIsOwed
<1> SUFFICES ASSUME CountTypes, NotesTypes, ScreenBalance, HardwareBalance PROVE SilenceIsOwed
  OBVIOUS
<1>1. CountFrom(waiting, 1, Ons) + Is(pushed, Ons)
        <= CountFrom(waiting, 1, Offs) + Is(pushed, Offs) + Cardinality(held)
  BY BalancedEnd DEF ScreenBalance, CountTypes, NotesTypes
<1>2. CountFrom(hardwareScratch, 1, Ons) + CountFrom(collector, 1, Ons)
        <= CountFrom(hardwareScratch, 1, Offs) + CountFrom(collector, 1, Offs)
             + Cardinality(hardwareHeld)
  BY BalancedEnd DEF HardwareBalance, CountTypes, NotesTypes
<1> QED
  BY <1>1, <1>2
     DEF SilenceIsOwed, CountTypes, ScreenOns, ScreenOffs, HardwareOns, HardwareOffs

LEMMA SilenceBalancesNext ==
  CountTypes' /\ NotesTypes' /\ ScreenBalance' /\ HardwareBalance' => SilenceIsOwed'
  BY SilenceBalances, PTL

LEMMA InitCounts == MidiInit => CountInv
<1> SUFFICES ASSUME MidiInit PROVE CountInv
  OBVIOUS
<1>1. waiting = << >>
  <2>1. RingInv /\ NumReady = 0 /\ handed = 0
    BY InitRing DEF MidiInit, Init, NumReady
  <2> QED
    BY <2>1, WaitingFacts DEF WaitingShape
<1>2. /\ collector = << >> /\ hardwareScratch = << >> /\ pushed = NoItem /\ liveVoices = 0
      /\ held = {} /\ hardwareHeld = {}
  BY DEF MidiInit, Init
<1>3. Cardinality({}) = 0 /\ IsFiniteSet({})
  BY FS_EmptySet
<1>4. \A E : CountFrom(<< >>, 1, E) = 0
  <2>1. << >> \in Seq({}) /\ 1 \in Nat /\ 1 > Len(<< >>)
    OBVIOUS
  <2> QED
    BY <2>1, CountIsNat
<1>5. Balanced(<< >>, 0, 0, 0)
  BY BalancedEmpty
<1> QED
  BY <1>1, <1>2, <1>3, <1>4, <1>5, IsFacts
     DEF CountInv, FewHeld, ScreenBalance, HardwareBalance, VoicesBalance, ScreenOns,
         ScreenOffs, HardwareOns, HardwareOffs

(* A key that goes down or up, and its event into the slot of the push. *)
LEMMA ScreenCounts ==
  ASSUME NotesTypes, CountTypes, CountTypes', IsFiniteSet(held), ScreenBalance,
         NEW k \in Keys, Pressed(k) \/ Released(k), lost' = {}
  PROVE  /\ ScreenBalance'
         /\ ScreenOns' + Cardinality(held) + ScreenOffs
              <= Cardinality(held') + ScreenOffs' + ScreenOns
<1>1. waiting' = waiting /\ pushed = NoItem
  BY DEF Pressed, Released
<1>2. Is(pushed, Ons) = 0 /\ Is(pushed, Offs) = 0
  BY <1>1, IsFacts
<1>3. /\ Cardinality(held) \in Nat /\ Cardinality(held') \in Nat
      /\ Is(pushed', Ons) \in Nat /\ Is(pushed', Offs) \in Nat
      /\ CountFrom(waiting, 1, Ons) \in Nat /\ CountFrom(waiting, 1, Offs) \in Nat
  BY DEF CountTypes
<1>4. Is(pushed', Ons) + Cardinality(held) <= Cardinality(held') + Is(pushed', Offs)
  <2>1. CASE Pressed(k)
    <3>1. k \notin held /\ held' = held \union {k} /\ pushed' \in {NoItem, On(k)}
      BY <2>1 DEF Pressed
    <3>2. Cardinality(held') = Cardinality(held) + 1
      BY <3>1, FS_AddElement
    <3>3. Is(pushed', Ons) \in {0, 1} /\ Is(pushed', Offs) = 0
      BY <3>1, IsFacts
    <3> QED
      BY <1>3, <3>2, <3>3
  <2>2. CASE Released(k)
    <3>1. k \in held /\ held' = held \ {k} /\ pushed' = Off(k)
      BY <2>2 DEF Released
    <3>2. Cardinality(held') = Cardinality(held) - 1
      BY <3>1, FS_RemoveElement
    <3>3. Is(pushed', Ons) = 0 /\ Is(pushed', Offs) = 1
      BY <3>1, IsFacts
    <3> QED
      BY <1>3, <3>2, <3>3
  <2> QED
    BY <2>1, <2>2
<1>5. Is(pushed', Ons) + (Is(pushed, Offs) + Cardinality(held))
        <= Is(pushed, Ons) + (Is(pushed', Offs) + Cardinality(held'))
  BY <1>2, <1>3, <1>4
<1>6. ScreenBalance'
  <2>1. waiting \in Seq(NoteEvents) /\ Is(pushed, Ons) \in Nat /\ Is(pushed, Offs) \in Nat
    BY <1>2 DEF NotesTypes
  <2>2. Balanced(waiting, Is(pushed', Ons), Is(pushed', Offs), Cardinality(held'))
    BY <1>3, <1>5, <2>1, BalancedGrows DEF ScreenBalance
  <2> QED
    BY <1>1, <2>2 DEF ScreenBalance
<1> QED
  BY <1>1, <1>2, <1>3, <1>4, <1>6 DEF ScreenOns, ScreenOffs

(* The same for a key of the hardware, and its message into the collector. *)
LEMMA HardwareCounts ==
  ASSUME NotesTypes, CountTypes, CountTypes', IsFiniteSet(hardwareHeld), HardwareBalance,
         NEW k \in Keys, HardwarePressed(k) \/ HardwareReleased(k)
  PROVE  /\ HardwareBalance'
         /\ HardwareOns' + Cardinality(hardwareHeld) + HardwareOffs
              <= Cardinality(hardwareHeld') + HardwareOffs' + HardwareOns
<1> DEFINE event == IF HardwarePressed(k) THEN On(k) ELSE Off(k)
           n == Cardinality(hardwareHeld)
           m == Cardinality(hardwareHeld')
           ons == CountFrom(collector, 1, Ons)
           offs == CountFrom(collector, 1, Offs)
<1>1. /\ hardwareScratch' = hardwareScratch /\ collector' = Append(collector, event)
      /\ collector \in Seq(HardwareEvents) /\ hardwareScratch \in Seq(HardwareEvents)
      /\ event \in HardwareEvents
  BY EventTypes DEF HardwarePressed, HardwareReleased, NotesTypes
<1>2. n \in Nat /\ m \in Nat /\ ons \in Nat /\ offs \in Nat
  BY DEF CountTypes
<1>3. Is(event, Ons) \in {0, 1} /\ Is(event, Offs) \in {0, 1}
      /\ Is(event, Ons) + n = Is(event, Offs) + m
  <2>1. CASE HardwarePressed(k)
    <3>1. k \notin hardwareHeld /\ hardwareHeld' = hardwareHeld \union {k} /\ event = On(k)
      BY <2>1 DEF HardwarePressed
    <3>2. m = n + 1
      BY <3>1, FS_AddElement
    <3>3. Is(event, Ons) = 1 /\ Is(event, Offs) = 0
      BY <3>1, IsFacts
    <3> QED
      BY <1>2, <3>2, <3>3
  <2>2. CASE ~ HardwarePressed(k)
    <3>1. k \in hardwareHeld /\ hardwareHeld' = hardwareHeld \ {k} /\ event = Off(k)
      BY <2>2 DEF HardwareReleased
    <3>2. m = n - 1
      BY <3>1, FS_RemoveElement
    <3>3. Is(event, Ons) = 0 /\ Is(event, Offs) = 1
      BY <3>1, IsFacts
    <3> QED
      BY <1>2, <3>2, <3>3
  <2> QED
    BY <2>1, <2>2
<1> HIDE DEF event, n, m, ons, offs
<1>4. /\ CountFrom(collector', 1, Ons) = ons + Is(event, Ons)
      /\ CountFrom(collector', 1, Offs) = offs + Is(event, Offs)
  <2>1. 1 \in 1 .. Len(collector) + 1
    BY <1>1
  <2> QED
    BY <1>1, <2>1, CountAppend DEF ons, offs
<1>5. Balanced(collector', 0, 0, m)
  <2>1. Is(event, Ons) + (0 + n) <= 0 + (Is(event, Offs) + m)
    BY <1>2, <1>3
  <2>2. Balanced(collector, 0, 0, n) /\ 0 \in Nat /\ Is(event, Ons) \in Nat /\ Is(event, Offs) \in Nat
    BY <1>3 DEF HardwareBalance, n
  <2>3. Balanced(collector, Is(event, Ons), Is(event, Offs), m)
    BY <1>1, <1>2, <2>1, <2>2, BalancedGrows
  <2> QED
    BY <1>1, <1>2, <2>3, BalancedAppend
<1>6. Balanced(hardwareScratch, ons + Is(event, Ons), offs + Is(event, Offs), m)
  <2>1. (ons + Is(event, Ons)) + (offs + n) <= ons + ((offs + Is(event, Offs)) + m)
    BY <1>2, <1>3
  <2>2. Balanced(hardwareScratch, ons, offs, n) /\ ons + Is(event, Ons) \in Nat
        /\ offs + Is(event, Offs) \in Nat
    BY <1>2, <1>3 DEF HardwareBalance, n, ons, offs
  <2> QED
    BY <1>1, <1>2, <2>1, <2>2, BalancedGrows
<1>7. HardwareBalance'
  BY <1>1, <1>4, <1>5, <1>6 DEF HardwareBalance, m
<1>8. /\ CountFrom(hardwareScratch, 1, Ons) \in Nat /\ CountFrom(hardwareScratch, 1, Offs) \in Nat
      /\ HardwareOns = CountFrom(hardwareScratch, 1, Ons) + ons
      /\ HardwareOffs = CountFrom(hardwareScratch, 1, Offs) + offs
      /\ HardwareOns' = CountFrom(hardwareScratch, 1, Ons) + (ons + Is(event, Ons))
      /\ HardwareOffs' = CountFrom(hardwareScratch, 1, Offs) + (offs + Is(event, Offs))
  BY <1>1, <1>4 DEF CountTypes, HardwareOns, HardwareOffs, ons, offs
<1>9. HardwareOns' + n + HardwareOffs <= m + HardwareOffs' + HardwareOns
  BY <1>2, <1>3, <1>8
<1> QED
  BY <1>7, <1>9 DEF n, m

LEMMA EmptyCounts ==
  /\ \A E : CountFrom(<< >>, 1, E) = 0
  /\ \A S : \A s \in Seq(S) : OffKeys(s) = {} => CountFrom(s, 1, Offs) = 0
<1>1. \A E : CountFrom(<< >>, 1, E) = 0
  <2>1. << >> \in Seq({}) /\ 1 \in Nat /\ 1 > Len(<< >>)
    OBVIOUS
  <2> QED
    BY <2>1, CountIsNat
<1>2. ASSUME NEW S, NEW s \in Seq(S), OffKeys(s) = {} PROVE CountFrom(s, 1, Offs) = 0
  <2>1. \A k \in Keys : \A j \in 1 .. Len(s) : s[j] # Off(k)
    BY <1>2 DEF OffKeys, ToSet
  <2>2. {j \in 1 .. Len(s) : s[j] \in Offs} = {}
    BY <2>1 DEF Offs
  <2> QED
    BY <2>2, FS_EmptySet DEF CountFrom
<1> QED
  BY <1>1, <1>2

(* The event that passes takes its on, or its off, out of what is on its way *)
(* and into the count, which stops at zero.                                  *)
LEMMA PassCounts ==
  ASSUME NotesInv, NEW event \in HardwareEvents, Passes(event)
  PROVE  liveVoices' = 0 \/ liveVoices' + Is(event, Offs) <= liveVoices + Is(event, Ons)
<1>1. liveVoices \in Nat /\ liveVoices' \in Nat
  BY PassFacts DEF NotesInv, NotesTypes
<1>2. CASE event = Sweep
  <2>1. liveVoices' = liveVoices
    BY <1>2, PassFacts
  <2>2. Is(event, Ons) = 0 /\ Is(event, Offs) = 0
    BY <1>2, IsFacts
  <2> QED
    BY <1>1, <2>1, <2>2
<1>3. ASSUME NEW k \in Keys, event = On(k)
      PROVE  liveVoices' + Is(event, Offs) <= liveVoices + Is(event, Ons)
  BY <1>1, <1>3, PassFacts, IsFacts
<1>4. ASSUME NEW k \in Keys, event = Off(k)
      PROVE  liveVoices' = 0 \/ liveVoices' + Is(event, Offs) <= liveVoices + Is(event, Ons)
  <2>1. liveVoices' = IF liveVoices > 0 THEN liveVoices - 1 ELSE 0
    BY <1>4, PassFacts
  <2>2. Is(event, Ons) = 0 /\ Is(event, Offs) = 1
    BY <1>4, IsFacts
  <2> QED
    BY <1>1, <2>1, <2>2
<1> QED
  BY <1>2, <1>3, <1>4 DEF HardwareEvents, NoteEvents, Ons, Offs

LEMMA NextFinite ==
  FewHeld /\ NoteStep => FewHeld'
<1> SUFFICES ASSUME IsFiniteSet(held), IsFiniteSet(hardwareHeld), NoteStep
             PROVE  IsFiniteSet(held') /\ IsFiniteSet(hardwareHeld')
  BY DEF FewHeld
<1>1. \A k : /\ IsFiniteSet(held \union {k}) /\ IsFiniteSet(held \ {k})
             /\ IsFiniteSet(hardwareHeld \union {k}) /\ IsFiniteSet(hardwareHeld \ {k})
  BY FS_AddElement, FS_RemoveElement
<1> QED
  BY <1>1 DEF NoteStep, Pressed, Released, HardwarePressed, HardwareReleased, Queued,
              QueuedPasses, Restarted, Swept, Flushed, Taken, HardwarePasses, noteVars

LEMMA LostStaysLost == NoteStep /\ lost' = {} => lost = {}
  BY DEF NoteStep, Pressed, Released, HardwarePressed, HardwareReleased, Queued,
         QueuedPasses, Restarted, Swept, Flushed, Taken, HardwarePasses, noteVars

LEMMA NextCounts == RingInv /\ NotesInv /\ CountInv /\ [MidiNext]_vars => CountInv'
<1> SUFFICES ASSUME RingInv, NotesInv, CountInv, [MidiNext]_vars, lost' = {}
             PROVE  ScreenBalance' /\ HardwareBalance' /\ VoicesBalance'
  BY MidiSteps, NextFinite DEF CountInv
<1>1. NoteStep /\ NotesTypes /\ NotesTypes'
  BY MidiSteps, NextTypes DEF NotesInv
<1>2. ScreenBalance /\ HardwareBalance /\ VoicesBalance
  BY <1>1, LostStaysLost DEF CountInv
<1>3. IsFiniteSet(held) /\ IsFiniteSet(hardwareHeld) /\ CountTypes /\ CountTypes'
  <2>1. FewHeld /\ FewHeld'
    BY <1>1, NextFinite DEF CountInv
  <2>2. NotesTypes' /\ FewHeld' => CountTypes'
    BY CountsAreNat, PTL
  <2> QED
    BY <1>1, <2>1, <2>2, CountsAreNat DEF FewHeld
<1>4. /\ liveVoices \in Nat /\ liveVoices' \in Nat
      /\ Cardinality(held) \in Nat /\ Cardinality(held') \in Nat
      /\ Cardinality(hardwareHeld) \in Nat /\ Cardinality(hardwareHeld') \in Nat
      /\ ScreenOns \in Nat /\ ScreenOffs \in Nat /\ HardwareOns \in Nat /\ HardwareOffs \in Nat
      /\ ScreenOns' \in Nat /\ ScreenOffs' \in Nat
      /\ HardwareOns' \in Nat /\ HardwareOffs' \in Nat
  BY <1>3 DEF CountTypes
<1>5. ScreenBalance' /\ HardwareBalance' /\ liveVoices' = 0 => VoicesBalance'
  BY <1>1, <1>3, <1>4, SilenceBalancesNext DEF SilenceIsOwed, VoicesBalance
<1>6. ASSUME NEW k \in Keys, Pressed(k) \/ Released(k)
      PROVE  ScreenBalance' /\ HardwareBalance' /\ VoicesBalance'
  <2>1. /\ ScreenBalance'
        /\ ScreenOns' + Cardinality(held) + ScreenOffs
             <= Cardinality(held') + ScreenOffs' + ScreenOns
    BY <1>1, <1>2, <1>3, <1>6, ScreenCounts
  <2>2. UNCHANGED <<hardwareHeld, hardwareScratch, collector, liveVoices>>
    BY <1>6 DEF Pressed, Released
  <2>3. HardwareBalance' /\ HardwareOns' = HardwareOns /\ HardwareOffs' = HardwareOffs
        /\ Cardinality(hardwareHeld') = Cardinality(hardwareHeld)
    BY <1>2, <2>2 DEF HardwareBalance, HardwareOns, HardwareOffs
  <2> QED
    BY <1>2, <1>4, <2>1, <2>2, <2>3 DEF VoicesBalance
<1>7. ASSUME NEW k \in Keys, HardwarePressed(k) \/ HardwareReleased(k)
      PROVE  ScreenBalance' /\ HardwareBalance' /\ VoicesBalance'
  <2>1. /\ HardwareBalance'
        /\ HardwareOns' + Cardinality(hardwareHeld) + HardwareOffs
             <= Cardinality(hardwareHeld') + HardwareOffs' + HardwareOns
    BY <1>1, <1>2, <1>3, <1>7, HardwareCounts
  <2>2. UNCHANGED <<held, waiting, pushed, liveVoices>>
    BY <1>7 DEF HardwarePressed, HardwareReleased
  <2>3. ScreenBalance' /\ ScreenOns' = ScreenOns /\ ScreenOffs' = ScreenOffs
        /\ Cardinality(held') = Cardinality(held)
    BY <1>2, <2>2 DEF ScreenBalance, ScreenOns, ScreenOffs
  <2> QED
    BY <1>2, <1>4, <2>1, <2>2, <2>3 DEF VoicesBalance
<1>8. CASE Queued
  <2>1. /\ UNCHANGED <<held, hardwareHeld, hardwareScratch, collector, liveVoices>>
        /\ waiting' = Append(waiting, pushed) /\ pushed' = NoItem /\ pushed \in NoteEvents
        /\ waiting \in Seq(NoteEvents)
    BY <1>1, <1>8 DEF Queued, NotesTypes
  <2>2. Is(pushed', Ons) = 0 /\ Is(pushed', Offs) = 0
    BY <2>1, IsFacts
  <2>3. ScreenBalance'
    <3>1. Balanced(Append(waiting, pushed), 0, 0, Cardinality(held))
      BY <1>2, <1>4, <2>1, BalancedAppend DEF ScreenBalance
    <3> QED
      BY <2>1, <2>2, <3>1 DEF ScreenBalance
  <2>4. ScreenOns' = ScreenOns /\ ScreenOffs' = ScreenOffs
    <3>1. 1 \in 1 .. Len(waiting) + 1
      BY <2>1
    <3>2. /\ CountFrom(waiting', 1, Ons) = CountFrom(waiting, 1, Ons) + Is(pushed, Ons)
          /\ CountFrom(waiting', 1, Offs) = CountFrom(waiting, 1, Offs) + Is(pushed, Offs)
      BY <2>1, <3>1, CountAppend
    <3> QED
      BY <1>4, <2>2, <3>2 DEF ScreenOns, ScreenOffs
  <2>5. HardwareBalance' /\ VoicesBalance'
    BY <1>2, <2>1, <2>4 DEF HardwareBalance, VoicesBalance, HardwareOns, HardwareOffs
  <2> QED
    BY <2>3, <2>5
<1>9. CASE QueuedPasses
  <2> DEFINE event == Head(waiting)
  <2>1. /\ UNCHANGED <<pushed, held, hardwareHeld, hardwareScratch, collector>>
        /\ waiting # << >> /\ waiting' = Tail(waiting) /\ Passes(event)
        /\ waiting \in Seq(NoteEvents) /\ event \in HardwareEvents
    BY <1>1, <1>9, EventTypes, SequenceParts DEF QueuedPasses, NotesTypes
  <2> HIDE DEF event
  <2>2. ScreenBalance' /\ HardwareBalance'
    BY <1>2, <2>1, BalancedTail DEF ScreenBalance, HardwareBalance
  <2>3. ScreenOns = ScreenOns' + Is(event, Ons) /\ ScreenOffs = ScreenOffs' + Is(event, Offs)
    <3>1. /\ CountFrom(waiting, 1, Ons) = CountFrom(waiting', 1, Ons) + Is(event, Ons)
          /\ CountFrom(waiting, 1, Offs) = CountFrom(waiting', 1, Offs) + Is(event, Offs)
      BY <2>1, CountHead DEF event
    <3>2. /\ CountFrom(waiting', 1, Ons) \in Nat /\ CountFrom(waiting', 1, Offs) \in Nat
          /\ Is(event, Ons) \in Nat /\ Is(event, Offs) \in Nat
          /\ Is(pushed, Ons) \in Nat /\ Is(pushed, Offs) \in Nat
      BY <1>3, IsFacts DEF CountTypes
    <3> QED
      BY <2>1, <3>1, <3>2 DEF ScreenOns, ScreenOffs
  <2>4. HardwareOns' = HardwareOns /\ HardwareOffs' = HardwareOffs
    BY <2>1 DEF HardwareOns, HardwareOffs
  <2>5. Is(event, Ons) \in Nat /\ Is(event, Offs) \in Nat
    BY IsFacts
  <2>6. CASE liveVoices' + Is(event, Offs) <= liveVoices + Is(event, Ons)
    <3>1. liveVoices + (ScreenOns' + Is(event, Ons)) + HardwareOns
            <= Cardinality(held) + Cardinality(hardwareHeld)
                 + (ScreenOffs' + Is(event, Offs)) + HardwareOffs
      BY <1>2, <2>3 DEF VoicesBalance
    <3>2. liveVoices' + ScreenOns' + HardwareOns
            <= Cardinality(held) + Cardinality(hardwareHeld) + ScreenOffs' + HardwareOffs
      BY <1>4, <2>5, <2>6, <3>1
    <3> QED
      BY <2>1, <2>2, <2>4, <3>2 DEF VoicesBalance
  <2> QED
    BY <1>5, <2>1, <2>2, <2>6, PassCounts
<1>10. CASE HardwarePasses
  <2> DEFINE event == Head(hardwareScratch)
  <2>1. /\ UNCHANGED <<waiting, pushed, held, hardwareHeld, collector>>
        /\ hardwareScratch # << >> /\ hardwareScratch' = Tail(hardwareScratch)
        /\ Passes(event) /\ hardwareScratch \in Seq(HardwareEvents) /\ event \in HardwareEvents
    BY <1>1, <1>10, SequenceParts DEF HardwarePasses, NotesTypes
  <2> HIDE DEF event
  <2>2. ScreenBalance' /\ HardwareBalance'
    BY <1>2, <2>1, BalancedTail DEF ScreenBalance, HardwareBalance
  <2>3. /\ HardwareOns = HardwareOns' + Is(event, Ons)
        /\ HardwareOffs = HardwareOffs' + Is(event, Offs)
    <3>1. /\ CountFrom(hardwareScratch, 1, Ons)
               = CountFrom(hardwareScratch', 1, Ons) + Is(event, Ons)
          /\ CountFrom(hardwareScratch, 1, Offs)
               = CountFrom(hardwareScratch', 1, Offs) + Is(event, Offs)
      BY <2>1, CountHead DEF event
    <3>2. /\ CountFrom(hardwareScratch', 1, Ons) \in Nat
          /\ CountFrom(hardwareScratch', 1, Offs) \in Nat
          /\ Is(event, Ons) \in Nat /\ Is(event, Offs) \in Nat
          /\ CountFrom(collector, 1, Ons) \in Nat /\ CountFrom(collector, 1, Offs) \in Nat
      BY <1>3, IsFacts DEF CountTypes
    <3> QED
      BY <2>1, <3>1, <3>2 DEF HardwareOns, HardwareOffs
  <2>4. ScreenOns' = ScreenOns /\ ScreenOffs' = ScreenOffs
    BY <2>1 DEF ScreenOns, ScreenOffs
  <2>5. Is(event, Ons) \in Nat /\ Is(event, Offs) \in Nat
    BY IsFacts
  <2>6. CASE liveVoices' + Is(event, Offs) <= liveVoices + Is(event, Ons)
    <3>1. liveVoices + ScreenOns + (HardwareOns' + Is(event, Ons))
            <= Cardinality(held) + Cardinality(hardwareHeld)
                 + ScreenOffs + (HardwareOffs' + Is(event, Offs))
      BY <1>2, <2>3 DEF VoicesBalance
    <3>2. liveVoices' + ScreenOns + HardwareOns'
            <= Cardinality(held) + Cardinality(hardwareHeld) + ScreenOffs + HardwareOffs'
      BY <1>4, <2>5, <2>6, <3>1
    <3> QED
      BY <2>1, <2>2, <2>4, <3>2 DEF VoicesBalance
  <2> QED
    BY <1>5, <2>1, <2>2, <2>6, PassCounts
<1>11. CASE Restarted
  <2>1. /\ UNCHANGED <<waiting, pushed, held, hardwareHeld, hardwareScratch, liveVoices>>
        /\ hardwareScratch = << >> /\ collector' = << >> /\ OffKeys(collector) = {}
        /\ collector \in Seq(HardwareEvents)
    BY <1>1, <1>11 DEF Restarted, NotesTypes
  <2>2. /\ CountFrom(<< >>, 1, Ons) = 0 /\ CountFrom(<< >>, 1, Offs) = 0
        /\ CountFrom(collector, 1, Offs) = 0
    BY <2>1, EmptyCounts
  <2>3. ScreenBalance' /\ ScreenOns' = ScreenOns /\ ScreenOffs' = ScreenOffs
    BY <1>2, <2>1 DEF ScreenBalance, ScreenOns, ScreenOffs
  <2>4. HardwareBalance'
    <3>1. Balanced(<< >>, 0, 0, Cardinality(hardwareHeld))
      BY <1>4, BalancedEmpty
    <3> QED
      BY <2>1, <2>2, <3>1 DEF HardwareBalance
  <2>5. HardwareOns' = 0 /\ HardwareOffs' = 0 /\ HardwareOffs = 0
    BY <2>1, <2>2 DEF HardwareOns, HardwareOffs
  <2> QED
    BY <1>2, <1>4, <2>1, <2>3, <2>4, <2>5 DEF VoicesBalance
<1>12. CASE Swept
  <2>1. /\ UNCHANGED <<waiting, pushed, held, hardwareHeld, hardwareScratch, liveVoices>>
        /\ collector' = Append(collector, Sweep) /\ collector \in Seq(HardwareEvents)
        /\ Sweep \in HardwareEvents
    BY <1>1, <1>12, EventTypes DEF Swept, NotesTypes
  <2>2. ScreenBalance' /\ ScreenOns' = ScreenOns /\ ScreenOffs' = ScreenOffs
    BY <1>2, <2>1 DEF ScreenBalance, ScreenOns, ScreenOffs
  <2>3. /\ CountFrom(collector', 1, Ons) = CountFrom(collector, 1, Ons)
        /\ CountFrom(collector', 1, Offs) = CountFrom(collector, 1, Offs)
    <3>1. 1 \in 1 .. Len(collector) + 1
      BY <2>1
    <3>2. /\ CountFrom(collector', 1, Ons) = CountFrom(collector, 1, Ons) + Is(Sweep, Ons)
          /\ CountFrom(collector', 1, Offs) = CountFrom(collector, 1, Offs) + Is(Sweep, Offs)
      BY <2>1, <3>1, CountAppend
    <3> QED
      BY <1>3, <3>2, IsFacts DEF CountTypes
  <2>4. HardwareBalance'
    <3>1. Balanced(collector', 0, 0, Cardinality(hardwareHeld))
      BY <1>2, <1>4, <2>1, BalancedAppend, IsFacts DEF HardwareBalance
    <3> QED
      BY <1>2, <2>1, <2>3, <3>1 DEF HardwareBalance
  <2> QED
    BY <1>2, <2>1, <2>2, <2>3, <2>4 DEF VoicesBalance, HardwareOns, HardwareOffs
<1>13. CASE Flushed
  <2>1. /\ UNCHANGED <<waiting, pushed, held, hardwareHeld, hardwareScratch, collector>>
        /\ liveVoices' = 0
    BY <1>13 DEF Flushed
  <2>2. ScreenBalance' /\ HardwareBalance'
    BY <1>2, <2>1 DEF ScreenBalance, HardwareBalance
  <2> QED
    BY <1>5, <2>1, <2>2
<1>14. CASE Taken
  <2>1. /\ UNCHANGED <<waiting, pushed, held, hardwareHeld, liveVoices>>
        /\ hardwareScratch = << >> /\ hardwareScratch' = collector /\ collector' = << >>
    BY <1>14 DEF Taken
  <2>2. CountFrom(<< >>, 1, Ons) = 0 /\ CountFrom(<< >>, 1, Offs) = 0
    BY EmptyCounts
  <2>3. ScreenBalance' /\ ScreenOns' = ScreenOns /\ ScreenOffs' = ScreenOffs
    BY <1>2, <2>1 DEF ScreenBalance, ScreenOns, ScreenOffs
  <2>4. HardwareBalance'
    <3>1. Balanced(<< >>, 0, 0, Cardinality(hardwareHeld))
      BY <1>4, BalancedEmpty
    <3> QED
      BY <1>2, <2>1, <2>2, <3>1 DEF HardwareBalance
  <2>5. HardwareOns' = HardwareOns /\ HardwareOffs' = HardwareOffs
    BY <1>3, <2>1, <2>2 DEF HardwareOns, HardwareOffs, CountTypes
  <2> QED
    BY <1>2, <2>1, <2>3, <2>4, <2>5 DEF VoicesBalance
<1>15. CASE UNCHANGED noteVars
  <2>1. UNCHANGED <<waiting, pushed, held, hardwareHeld, hardwareScratch, collector, liveVoices>>
    BY <1>15 DEF noteVars
  <2> QED
    BY <1>2, <2>1 DEF ScreenBalance, HardwareBalance, VoicesBalance, ScreenOns, ScreenOffs,
                      HardwareOns, HardwareOffs
<1> QED
  BY <1>1, <1>6, <1>7, <1>8, <1>9, <1>10, <1>11, <1>12, <1>13, <1>14, <1>15 DEF NoteStep

(* The voice count never outlives the notes: while no off is lost, it is at  *)
(* most the offs that are still owed, for any keys, masks and capacity.      *)
THEOREM VoicesNeverOutliveNotes == MidiSpec => []VoicesAreOwed
<1>1. RingInv /\ NotesInv /\ CountInv => VoicesAreOwed
  <2> SUFFICES ASSUME NotesTypes, FewHeld, VoicesBalance PROVE VoicesAreOwed
    BY DEF NotesInv, CountInv, VoicesAreOwed
  <2>1. CountTypes
    BY CountsAreNat
  <2>2. CountFrom(<<pushed>>, 1, Offs) = Is(pushed, Offs)
    <3> DEFINE s == << >>
               S == {pushed}
    <3>1. s \in Seq(S) /\ pushed \in S /\ 1 \in 1 .. Len(s) + 1 /\ Append(s, pushed) = <<pushed>>
      OBVIOUS
    <3> HIDE DEF s, S
    <3>2. CountFrom(Append(s, pushed), 1, Offs) = CountFrom(s, 1, Offs) + Is(pushed, Offs)
      BY <3>1, CountAppend
    <3>3. CountFrom(s, 1, Offs) = 0 /\ Is(pushed, Offs) \in Nat
      BY <2>1, EmptyCounts DEF CountTypes, s
    <3> QED
      BY <3>1, <3>2, <3>3
  <2>3. liveVoices + ScreenOns + HardwareOns
          <= Cardinality(held) + Cardinality(hardwareHeld) + ScreenOffs + HardwareOffs
    BY DEF VoicesBalance
  <2>4. liveVoices <= Cardinality(held) + CountFrom(waiting, 1, Offs) + Is(pushed, Offs)
                        + Cardinality(hardwareHeld) + CountFrom(hardwareScratch, 1, Offs)
                        + CountFrom(collector, 1, Offs)
    BY <2>1, <2>3 DEF CountTypes, ScreenOffs, HardwareOffs
  <2> QED
    BY <2>2, <2>4 DEF VoicesAreOwed, Count
<1> QED
  BY InitNotes, InitCounts, RingNext, NotesNext, NextCounts, <1>1, PTL DEF MidiSpec
=============================================================================
