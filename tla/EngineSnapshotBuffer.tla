------------------------ MODULE EngineSnapshotBuffer ------------------------
(***************************************************************************)
(* engine/graph/EngineSnapshotBuffer.h: the triple buffer that carries one *)
(* EngineSnapshot per audio block to the UI, with its writer, the tail of  *)
(* MasterProcessor::processBlock, and its reader, the UI timer.            *)
(*                                                                         *)
(* A snapshot is a struct of several words, so it is modelled by its two   *)
(* halves, each holding the number of the block it was taken in; the       *)
(* writer stores and the UI loads one half at a time. `ready` is an        *)
(* acquire-release atomic and the only word both threads touch, so its     *)
(* accesses are atomic steps and everything else happens between them.     *)
(***************************************************************************)
EXTENDS Naturals

CONSTANT MaxBlocks  \* bound on the audio blocks processed

ASSUME MaxBlocksAssumption == MaxBlocks \in Nat

VARIABLES
  slots,        \* the three snapshots: <<first half, second half>>
  writeSlot,    \* writer-private slot index
  readSlot,     \* reader-private slot index
  ready,        \* the shared word: middle slot index and fresh bit
  blockCounter, \* MasterProcessor's block number
  writer,       \* "idle", "first" or "second" half stored
  reader,       \* "idle", "swapping", "returned", "first" or "second" half loaded
  loaded        \* the halves the UI has loaded through the returned reference

bufferVars ==
  <<slots, writeSlot, readSlot, ready, blockCounter, writer, reader, loaded>>

SlotIndex == 0 .. 2

Empty == <<0, 0>>

BufferInit ==
  /\ slots = [i \in SlotIndex |-> Empty]
  /\ writeSlot = 0
  /\ readSlot = 1
  /\ ready = [index |-> 2, fresh |-> FALSE]
  /\ blockCounter = 0
  /\ writer = "idle"
  /\ reader = "idle"
  /\ loaded = Empty

-----------------------------------------------------------------------------
(* Faults, each one slip away from the code; the mutation runs put one in    *)
(* the place of the action it is named after.                               *)

(* Commit: the previous middle slot is not reclaimed. *)
CommitKeepsSlot ==
  /\ writer = "second"
  /\ ready' = [index |-> writeSlot, fresh |-> TRUE]
  /\ writer' = "idle"
  /\ UNCHANGED <<slots, writeSlot, readSlot, blockCounter, reader, loaded>>

(* Commit: the slot is published without the fresh bit. *)
CommitNotFresh ==
  /\ writer = "second"
  /\ ready' = [index |-> writeSlot, fresh |-> FALSE]
  /\ writeSlot' = ready.index
  /\ writer' = "idle"
  /\ UNCHANGED <<slots, readSlot, blockCounter, reader, loaded>>

(* ReadExchange: the bit is cleared in place, the old slot is not handed back. *)
ReadClearsBit ==
  /\ reader = "swapping"
  /\ ready' = [ready EXCEPT !.fresh = FALSE]
  /\ readSlot' = ready.index
  /\ reader' = "returned"
  /\ UNCHANGED <<slots, writeSlot, blockCounter, writer, loaded>>

(* ReadExchange: the slot handed back is still marked fresh. *)
ReadStaysFresh ==
  /\ reader = "swapping"
  /\ ready' = [index |-> readSlot, fresh |-> TRUE]
  /\ readSlot' = ready.index
  /\ reader' = "returned"
  /\ UNCHANGED <<slots, writeSlot, blockCounter, writer, loaded>>

-----------------------------------------------------------------------------
(* The audio thread: one snapshot at the end of every block. *)

(* beginWrite() and the copy into the slot it returns. *)
WriteFirstHalf ==
  /\ writer = "idle"
  /\ blockCounter < MaxBlocks
  /\ blockCounter' = blockCounter + 1
  /\ slots' = [slots EXCEPT ![writeSlot][1] = blockCounter']
  /\ writer' = "first"
  /\ UNCHANGED <<writeSlot, readSlot, ready, reader, loaded>>

WriteSecondHalf ==
  /\ writer = "first"
  /\ slots' = [slots EXCEPT ![writeSlot][2] = blockCounter]
  /\ writer' = "second"
  /\ UNCHANGED <<writeSlot, readSlot, ready, blockCounter, reader, loaded>>

Commit ==
  /\ writer = "second"
  /\ ready' = [index |-> writeSlot, fresh |-> TRUE]
  /\ writeSlot' = ready.index
  /\ writer' = "idle"
  /\ UNCHANGED <<slots, readSlot, blockCounter, reader, loaded>>

-----------------------------------------------------------------------------
(* The message thread: read() and the use of the reference it returns. *)

(* read() loads the shared word and finds it stale: it returns its own slot. *)
ReadStale ==
  /\ reader = "idle"
  /\ ~ ready.fresh
  /\ reader' = "returned"
  /\ UNCHANGED <<slots, writeSlot, readSlot, ready, blockCounter, writer, loaded>>

ReadFresh ==
  /\ reader = "idle"
  /\ ready.fresh
  /\ reader' = "swapping"
  /\ UNCHANGED <<slots, writeSlot, readSlot, ready, blockCounter, writer, loaded>>

(* The adopting exchange; the writer may have committed again since the load. *)
ReadExchange ==
  /\ reader = "swapping"
  /\ ready' = [index |-> readSlot, fresh |-> FALSE]
  /\ readSlot' = ready.index
  /\ reader' = "returned"
  /\ UNCHANGED <<slots, writeSlot, blockCounter, writer, loaded>>

UseFirstHalf ==
  /\ reader = "returned"
  /\ loaded' = [loaded EXCEPT ![1] = slots[readSlot][1]]
  /\ reader' = "first"
  /\ UNCHANGED <<slots, writeSlot, readSlot, ready, blockCounter, writer>>

UseSecondHalf ==
  /\ reader = "first"
  /\ loaded' = [loaded EXCEPT ![2] = slots[readSlot][2]]
  /\ reader' = "second"
  /\ UNCHANGED <<slots, writeSlot, readSlot, ready, blockCounter, writer>>

(* The UI is done with this frame. *)
FrameDone ==
  /\ reader = "second"
  /\ reader' = "idle"
  /\ UNCHANGED <<slots, writeSlot, readSlot, ready, blockCounter, writer, loaded>>

-----------------------------------------------------------------------------
Audio == WriteFirstHalf \/ WriteSecondHalf \/ Commit

Frame ==
  \/ ReadStale \/ ReadFresh \/ ReadExchange
  \/ UseFirstHalf \/ UseSecondHalf \/ FrameDone

BufferNext == Audio \/ Frame

BufferSpec == BufferInit /\ [][BufferNext]_bufferVars

-----------------------------------------------------------------------------
(* Properties *)

(* Every variable stays in its range. *)
TypeOK ==
  /\ slots \in [SlotIndex -> (0 .. MaxBlocks) \X (0 .. MaxBlocks)]
  /\ writeSlot \in SlotIndex
  /\ readSlot \in SlotIndex
  /\ ready \in [index : SlotIndex, fresh : BOOLEAN]
  /\ blockCounter \in 0 .. MaxBlocks
  /\ writer \in {"idle", "first", "second"}
  /\ reader \in {"idle", "swapping", "returned", "first", "second"}
  /\ loaded \in (0 .. MaxBlocks) \X (0 .. MaxBlocks)

(* The single-owner invariant of the header: the writer's slot, the         *)
(* reader's slot and the middle one are the three slots, each exactly once. *)
SingleOwner == {writeSlot, readSlot, ready.index} = SlotIndex

(* The last block the writer has committed. *)
committed == IF writer = "idle" THEN blockCounter ELSE blockCounter - 1

(* A frame never shows a torn snapshot, half of one block and half of       *)
(* another, however the two threads interleave.                             *)
NeverTorn == reader = "second" => loaded[1] = loaded[2]

(* A reader that finds nothing fresh is not behind: its slot already holds  *)
(* the last committed block. Otherwise the middle slot does.                *)
NothingMissed ==
  slots[IF ready.fresh THEN ready.index ELSE readSlot] = <<committed, committed>>

(* A frame never shows an older block than the frame before it. *)
NeverBackwards == [][\A half \in 1 .. 2 : loaded'[half] >= loaded[half]]_bufferVars

(* read() returns in this step. *)
ReadReturns == reader # "returned" /\ reader' = "returned"

Register == INSTANCE LatestValue WITH latest <- committed, seen <- slots[readSlot][1]

(* The buffer is an atomic register: every commit is one write, and every   *)
(* read() that returns, with a new slot or with its old one, has read the   *)
(* latest value.                                                            *)
ImplementsRegister ==
  /\ Register!RegisterSpec
  /\ [][ReadReturns => Register!Read]_bufferVars
=============================================================================
