-------------------------- MODULE SoundingNoteTable --------------------------
(***************************************************************************)
(* engine/midi/SoundingNoteTable: the notes the sequencer has started and  *)
(* not yet ended, and every way it ends them.                              *)
(*                                                                         *)
(* A table is a sequence of entries in order of registration. An operation *)
(* takes a state [table, midi] and returns one. Positions are absolute     *)
(* samples: the block offset an event is added at is its sample minus the  *)
(* block's first. Channel and note are one pitch.                          *)
(***************************************************************************)
EXTENDS Integers, Sequences, FiniteSets, SequencesExt

CONSTANT TableCapacity  \* entries the table holds

Low(a, b) == IF a < b THEN a ELSE b
High(a, b) == IF a < b THEN b ELSE a

Entry(pitch, on, due) == [pitch |-> pitch, on |-> on, due |-> due]
Event(kind, pitch, at) == [kind |-> kind, pitch |-> pitch, at |-> at]
AnyPitch == "any"

(* A block: its first sample and its length. *)
Span(start, size) == [start |-> start, size |-> size]
BlockEnd(block) == block.start + block.size

(* juce::MidiBuffer::addEvent: sorted by position, and an event goes behind  *)
(* those already at its position.                                            *)
AddEvent(midi, event) ==
  InsertAt(midi, 1 + Cardinality({i \in DOMAIN midi : midi[i].at <= event.at}), event)

(* Fault: an entry started in this block may be ended before it started. *)
PlacementWithoutFloor(entry, cap, block) ==
  Low(entry.due, High(block.start, cap))

(* placementSampleFor: no later than the entry's own schedule nor than the   *)
(* cap, and never before its onset when that lies in this block.             *)
Placement(entry, cap, block) ==
  LET comparable == entry.on >= block.start /\ entry.on < BlockEnd(block)
      floor == IF comparable THEN entry.on ELSE block.start
  IN  Low(entry.due, High(floor, cap))

(* Fault: the position is not brought into the block. *)
InBlockUnclamped(sample, block) == sample

(* offsetForSample, as an absolute sample of the block. *)
InBlock(sample, block) == High(block.start, Low(BlockEnd(block) - 1, sample))

NoteOff(midi, entry, cap, block) ==
  AddEvent(midi, Event("off", entry.pitch, InBlock(Placement(entry, cap, block), block)))

(* Fault: the first entry of the pitch, wherever it starts. *)
FindAny(table, pitch, sample) ==
  LET started == {i \in DOMAIN table : table[i].pitch = pitch}
  IN  IF started = {} THEN 0
      ELSE CHOOSE i \in started : \A k \in started : i <= k

(* findStartedAtOrBefore: the entry of this pitch that started last, not     *)
(* after the given sample; 0 when there is none.                             *)
FindStartedAtOrBefore(table, pitch, sample) ==
  LET started == {i \in DOMAIN table : table[i].pitch = pitch /\ table[i].on <= sample}
  IN  IF started = {} THEN 0
      ELSE CHOOSE i \in started :
             \A k \in started : table[k].on < table[i].on
                                \/ (table[k].on = table[i].on /\ k <= i)

(* add: a full table refuses. *)
CanAdd(table) == Len(table) < TableCapacity

RetireNoLaterThan(s, i, cap, block) ==
  [s EXCEPT !.midi = NoteOff(@, s.table[i], cap, block),
            !.table = RemoveAt(@, i)]

(* Fault: an off due on the last sample of the block waits for the next. *)
EmitDueOneLate(s, block) ==
  LET Visit(acc, e) ==
        IF e.due < BlockEnd(block) - 1
        THEN [acc EXCEPT !.midi = NoteOff(@, e, e.due, block)]
        ELSE [acc EXCEPT !.table = Append(@, e)]
      after == FoldLeft(Visit, [table |-> << >>, midi |-> s.midi], s.table)
  IN  [s EXCEPT !.table = after.table, !.midi = after.midi]

(* emitDueNoteOffs: one pass in table order; every entry due before the      *)
(* block ends is ended, the others keep their order.                         *)
EmitDueNoteOffs(s, block) ==
  LET Visit(acc, e) ==
        IF e.due < BlockEnd(block)
        THEN [acc EXCEPT !.midi = NoteOff(@, e, e.due, block)]
        ELSE [acc EXCEPT !.table = Append(@, e)]
      after == FoldLeft(Visit, [table |-> << >>, midi |-> s.midi], s.table)
  IN  [s EXCEPT !.table = after.table, !.midi = after.midi]

(* flush: every entry ends. One due in this block before the release point   *)
(* has ended on its own; the others are cut at the sample before that point, *)
(* and the sweep (all-notes-off) follows when there were any.                *)
Flush(s, block, releaseFrom) ==
  LET Ended(e) == e.due >= block.start /\ e.due < releaseFrom
      Cut(e) == IF Ended(e) THEN e.due ELSE releaseFrom - 1
      offs == FoldLeft(LAMBDA m, e : NoteOff(m, e, Cut(e), block), s.midi, s.table)
      swept == \E i \in DOMAIN s.table : ~ Ended(s.table[i])
  IN  [s EXCEPT !.midi = IF swept
                         THEN AddEvent(offs, Event("sweep", AnyPitch,
                                                   InBlock(releaseFrom - 1, block)))
                         ELSE offs,
                !.table = << >>]
=============================================================================
