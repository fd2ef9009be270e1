------------------------------ MODULE MidiInput ------------------------------
(***************************************************************************)
(* Notes on their way from the keys to the synth:                          *)
(* engine/graph/MidiInputProcessor with MidiInputControl, the on-screen    *)
(* keyboard of DebugPanel, AudioEngine's pushNoteOn and pushNoteOff, the   *)
(* channel mask, the all-notes-off request SynthSlot makes before it takes *)
(* a synth out, and a hardware keyboard on the MIDI thread.                *)
(*                                                                         *)
(* The note queue is the ring of SpscFifo, step by step: the message       *)
(* thread is its producer, the audio block its consumer. An audio block    *)
(* reads the mask, takes the request, drains the queue, takes what the     *)
(* collector holds, passes it on one by one and publishes its count; the   *)
(* other two threads may act between any two of these.                     *)
(***************************************************************************)
EXTENDS SpscFifo, FiniteSets, SequencesExt

CONSTANTS
  Keys,        \* the keys: a note number on a channel
  Channel,     \* the channel a key plays on
  Masks,       \* the channel masks that may be set: sets of channels
  MaxPresses,  \* bound on the notes of the on-screen keyboard
  MaxOthers    \* bound on the hardware notes, mask changes, all-notes-off
               \* requests and device restarts taken together

VARIABLES
  held,           \* keys down on the on-screen keyboard
  hardwareHeld,   \* keys down on the hardware keyboard
  collector,      \* hardware messages waiting in juce::MidiMessageCollector
  channelMask, allNotesOffRequested, voiceCount, \* MidiInputControl
  running,        \* the device is open and calls processBlock
  block,          \* where processBlock is
  mask,           \* the mask this block reads
  hardwareScratch, \* the hardware messages this block has taken, not yet passed
  liveVoices,
  synth,          \* keys the synth is holding
  lost,           \* history: keys whose note-off never reached the node
  presses, others

controlVars == <<channelMask, allNotesOffRequested, voiceCount>>
keyboardVars == <<held, hardwareHeld>>
nodeVars == <<running, block, mask, hardwareScratch, liveVoices, synth>>
countVars == <<presses, others>>
vars == <<fifoVars, keyboardVars, collector, controlVars, nodeVars, lost, countVars>>

Channels == {Channel[k] : k \in Keys}

On(k) == [kind |-> "on", key |-> k]
Off(k) == [kind |-> "off", key |-> k]
Sweep == [kind |-> "sweep"]

Ons == {On(k) : k \in Keys}
Offs == {Off(k) : k \in Keys}

(* What travels in the note queue, and in the collector. *)
NoteEvents == Ons \union Offs
HardwareEvents == NoteEvents \union {Sweep}

ASSUME MaskAssumption == Masks \subseteq SUBSET Channels

ASSUME NoteAssumption == NoteEvents \subseteq Items /\ NoItem \notin NoteEvents

MidiInit ==
  /\ Init
  /\ held = {} /\ hardwareHeld = {}
  /\ collector = << >>
  /\ channelMask = Channels
  /\ allNotesOffRequested = FALSE
  /\ voiceCount = 0
  /\ running = TRUE
  /\ block = "outside"
  /\ mask = Channels
  /\ hardwareScratch = << >>
  /\ liveVoices = 0
  /\ synth = {}
  /\ lost = {}
  /\ presses = 0 /\ others = 0

-----------------------------------------------------------------------------
(* One event through the node: w is what it changes, [synth, liveVoices].   *)

(* Fault: the mask gates every event of its channel. *)
PassGatesOffs(w, event) ==
  CASE event.kind = "sweep" -> [w EXCEPT !.synth = {}]
    [] event.kind # "sweep" /\ Channel[event.key] \notin mask -> w
    [] event.kind = "on" /\ Channel[event.key] \in mask ->
         [synth |-> w.synth \union {event.key}, liveVoices |-> w.liveVoices + 1]
    [] event.kind = "off" /\ Channel[event.key] \in mask ->
         [synth |-> w.synth \ {event.key},
          liveVoices |-> IF w.liveVoices > 0 THEN w.liveVoices - 1 ELSE 0]

(* Fault: a masked note-on is dropped and counted. *)
PassCountsMasked(w, event) ==
  CASE event.kind = "sweep" -> [w EXCEPT !.synth = {}]
    [] event.kind = "on" ->
         [synth |-> w.synth \union {k \in {event.key} : Channel[k] \in mask},
          liveVoices |-> w.liveVoices + 1]
    [] event.kind = "off" /\ Channel[event.key] \in mask ->
         [synth |-> w.synth \ {event.key},
          liveVoices |-> IF w.liveVoices > 0 THEN w.liveVoices - 1 ELSE 0]
    [] OTHER -> [w EXCEPT !.synth = @ \ {event.key}]

(* The mask gates note-ons only: an off always passes and always counts.    *)
(* A sweep (all notes off) that comes from the hardware passes uncounted.   *)
Pass(w, event) ==
  CASE event.kind = "sweep" -> [w EXCEPT !.synth = {}]
    [] event.kind = "on" /\ Channel[event.key] \notin mask -> w
    [] event.kind = "on" /\ Channel[event.key] \in mask ->
         [synth |-> w.synth \union {event.key}, liveVoices |-> w.liveVoices + 1]
    [] event.kind = "off" ->
         [synth |-> w.synth \ {event.key},
          liveVoices |-> IF w.liveVoices > 0 THEN w.liveVoices - 1 ELSE 0]

Heard == [synth |-> synth, liveVoices |-> liveVoices]

-----------------------------------------------------------------------------
(* The message thread: one call at a time, and a push is several steps.     *)

(* A push that finds no room drops its event. *)
Queue(event) ==
  \/ PushBegin(event) /\ UNCHANGED lost
  \/ PushRefused /\ lost' = IF event.kind = "off" THEN lost \union {event.key} ELSE lost

HandleNoteOn(k) ==
  /\ k \notin held
  /\ presses < MaxPresses
  /\ presses' = presses + 1
  /\ held' = held \union {k}
  /\ Queue(On(k))
  /\ UNCHANGED <<hardwareHeld, collector, controlVars, nodeVars, others>>

HandleNoteOff(k) ==
  /\ k \in held
  /\ held' = held \ {k}
  /\ Queue(Off(k))
  /\ UNCHANGED <<hardwareHeld, collector, controlVars, nodeVars, countVars>>

FinishPush ==
  /\ PushCopy \/ PushFinish
  /\ UNCHANGED <<keyboardVars, collector, controlVars, nodeVars, lost, countVars>>

SetMidiChannelMask(channels) ==
  /\ producer = "idle"
  /\ channels # channelMask
  /\ others < MaxOthers
  /\ others' = others + 1
  /\ channelMask' = channels
  /\ UNCHANGED <<fifoVars, keyboardVars, collector, allNotesOffRequested, voiceCount,
                 nodeVars, lost, presses>>

AllNotesOff ==
  /\ producer = "idle"
  /\ others < MaxOthers
  /\ others' = others + 1
  /\ allNotesOffRequested' = TRUE
  /\ UNCHANGED <<fifoVars, keyboardVars, collector, channelMask, voiceCount, nodeVars,
                 lost, presses>>

(* The device closes between two blocks, and opens again: prepareToPlay     *)
(* empties the collector; what the synth still holds is up to the synth.    *)
DeviceCloses ==
  /\ running
  /\ block = "outside"
  /\ others < MaxOthers
  /\ others' = others + 1
  /\ running' = FALSE
  /\ UNCHANGED <<fifoVars, keyboardVars, collector, controlVars, block, mask,
                 hardwareScratch, liveVoices, synth, lost, presses>>

PrepareToPlay ==
  /\ ~ running
  /\ producer = "idle"
  /\ running' = TRUE
  /\ collector' = << >>
  /\ lost' = lost \union {k \in Keys : Off(k) \in ToSet(collector)}
  /\ synth' \in {synth, {}}
  /\ UNCHANGED <<fifoVars, keyboardVars, controlVars, block, mask, hardwareScratch,
                 liveVoices, countVars>>

-----------------------------------------------------------------------------
(* The MIDI thread: the hardware keyboard. *)

HardwareNoteOn(k) ==
  /\ k \notin hardwareHeld
  /\ others < MaxOthers
  /\ others' = others + 1
  /\ hardwareHeld' = hardwareHeld \union {k}
  /\ collector' = Append(collector, On(k))
  /\ UNCHANGED <<fifoVars, held, controlVars, nodeVars, lost, presses>>

HardwareNoteOff(k) ==
  /\ k \in hardwareHeld
  /\ hardwareHeld' = hardwareHeld \ {k}
  /\ collector' = Append(collector, Off(k))
  /\ UNCHANGED <<fifoVars, held, controlVars, nodeVars, lost, countVars>>

HardwareSweep ==
  /\ others < MaxOthers
  /\ others' = others + 1
  /\ collector' = Append(collector, Sweep)
  /\ UNCHANGED <<fifoVars, keyboardVars, controlVars, nodeVars, lost, presses>>

-----------------------------------------------------------------------------
(* The audio thread: processBlock. *)

ReadMask ==
  /\ running
  /\ block = "outside"
  /\ mask' = channelMask
  /\ block' = "flush"
  /\ UNCHANGED <<fifoVars, keyboardVars, collector, controlVars, running, hardwareScratch,
                 liveVoices, synth, lost, countVars>>

(* The request is taken in one exchange, before anything queued is drained. *)
Flush ==
  /\ block = "flush"
  /\ block' = "drain"
  /\ allNotesOffRequested' = FALSE
  /\ IF allNotesOffRequested
     THEN synth' = {} /\ liveVoices' = 0
     ELSE UNCHANGED <<synth, liveVoices>>
  /\ UNCHANGED <<fifoVars, keyboardVars, collector, channelMask, voiceCount, running, mask,
                 hardwareScratch, lost, countVars>>

DrainNotes ==
  /\ block = "drain"
  /\ DrainBegin
  /\ UNCHANGED <<keyboardVars, collector, controlVars, nodeVars, lost, countVars>>

PassNote ==
  /\ block = "drain"
  /\ DrainItem
  /\ LET w == Pass(Heard, storage[Wrap(validStart, handed)])
     IN  /\ synth' = w.synth
         /\ liveVoices' = w.liveVoices
  /\ UNCHANGED <<keyboardVars, collector, controlVars, running, block, mask, hardwareScratch,
                 lost, countVars>>

(* The drain is over, or there was nothing to drain. *)
DrainedNotes ==
  /\ block = "drain"
  /\ DrainFinish \/ (ready = 0 /\ NumReady = 0 /\ UNCHANGED fifoVars)
  /\ block' = "hardware"
  /\ UNCHANGED <<keyboardVars, collector, controlVars, running, mask, hardwareScratch,
                 liveVoices, synth, lost, countVars>>

(* Everything the collector holds is taken, under its lock. *)
TakeHardware ==
  /\ block = "hardware"
  /\ block' = "scratch"
  /\ hardwareScratch' = collector
  /\ collector' = << >>
  /\ UNCHANGED <<fifoVars, keyboardVars, controlVars, running, mask, liveVoices, synth,
                 lost, countVars>>

PassHardware ==
  /\ block = "scratch"
  /\ hardwareScratch # << >>
  /\ LET w == Pass(Heard, Head(hardwareScratch))
     IN  /\ synth' = w.synth
         /\ liveVoices' = w.liveVoices
  /\ hardwareScratch' = Tail(hardwareScratch)
  /\ UNCHANGED <<fifoVars, keyboardVars, collector, controlVars, running, block, mask,
                 lost, countVars>>

(* Fault: the request is also cleared when the block is over. *)
PublishCountClears ==
  /\ block = "scratch"
  /\ hardwareScratch = << >>
  /\ voiceCount' = liveVoices
  /\ block' = "outside"
  /\ allNotesOffRequested' = FALSE
  /\ UNCHANGED <<fifoVars, keyboardVars, collector, channelMask, running, mask,
                 hardwareScratch, liveVoices, synth, lost, countVars>>

PublishCount ==
  /\ block = "scratch"
  /\ hardwareScratch = << >>
  /\ voiceCount' = liveVoices
  /\ block' = "outside"
  /\ UNCHANGED <<fifoVars, keyboardVars, collector, channelMask, allNotesOffRequested,
                 running, mask, hardwareScratch, liveVoices, synth, lost, countVars>>

-----------------------------------------------------------------------------
MessageThread ==
  \/ \E k \in Keys : HandleNoteOn(k) \/ HandleNoteOff(k)
  \/ FinishPush
  \/ \E channels \in Masks : SetMidiChannelMask(channels)
  \/ AllNotesOff
  \/ DeviceCloses \/ PrepareToPlay

MidiThread ==
  \/ \E k \in Keys : HardwareNoteOn(k) \/ HardwareNoteOff(k)
  \/ HardwareSweep

AudioBlock ==
  \/ ReadMask \/ Flush
  \/ DrainNotes \/ PassNote \/ DrainedNotes
  \/ TakeHardware \/ PassHardware \/ PublishCount

MidiNext == MessageThread \/ MidiThread \/ AudioBlock

MidiSpec == MidiInit /\ [][MidiNext]_vars

(* While the device is open it calls the block; keys owe nothing. *)
FairMidiSpec == MidiSpec /\ WF_vars(AudioBlock)

-----------------------------------------------------------------------------
(* Properties *)

(* Every variable stays in its range. *)
MidiTypeOK ==
  /\ TypeOK
  /\ held \subseteq Keys /\ hardwareHeld \subseteq Keys
  /\ synth \subseteq Keys /\ lost \subseteq Keys
  /\ collector \in Seq(HardwareEvents)
  /\ hardwareScratch \in Seq(HardwareEvents)
  /\ channelMask \subseteq Channels /\ mask \subseteq Channels
  /\ block \in {"outside", "flush", "drain", "hardware", "scratch"}
  /\ {liveVoices, voiceCount} \subseteq Nat

(* The keys whose note-off is among the events s. *)
OffKeys(s) == {k \in Keys : Off(k) \in ToSet(s)}

(* No note hangs, whatever the mask, a panic, a full queue or a restart do  *)
(* while it is held: what the synth holds is a key still down, or its off   *)
(* is on the way, or that off was refused by the queue or cleared with the  *)
(* collector.                                                               *)
NoStuckNote ==
  synth \subseteq held \union hardwareHeld \union lost
                  \union OffKeys(waiting) \union OffKeys(<<pushed>>)
                  \union OffKeys(hardwareScratch) \union OffKeys(collector)

(* How many of the events s, from the i-th on, are in E. *)
CountFrom(s, i, E) == Cardinality({j \in i .. Len(s) : s[j] \in E})

Count(s, E) == CountFrom(s, 1, E)

(* The voice count never outlives the notes: it is at most the offs still   *)
(* owed, so it is zero again once every key is up and everything queued has *)
(* passed, unless an off was lost.                                          *)
VoicesAreOwed ==
  lost = {} =>
    liveVoices <= Cardinality(held) + Count(waiting, Offs) + Count(<<pushed>>, Offs)
                  + Cardinality(hardwareHeld) + Count(hardwareScratch, Offs)
                  + Count(collector, Offs)

(* An all-notes-off that is asked for reaches what is sounding then, even   *)
(* if it is asked for in the middle of a block; only a device that is       *)
(* closed leaves it waiting.                                                *)
PanicSilences ==
  \A k \in Keys :
    (allNotesOffRequested /\ k \in synth) ~> (k \notin synth \/ ~ running)

(* What MidiInputControl.h says of voiceCount, "live MIDI-in sounding-note  *)
(* count": between blocks no note sounds uncounted.                         *)
EveryNoteCounted == block = "outside" => Cardinality(synth) <= voiceCount
=============================================================================
