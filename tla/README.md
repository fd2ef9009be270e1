# Formal model of ARPBOX

TLA+ specifications, TLC configurations and TLAPS proofs for the ARPBOX engine
(`engine/`), its plug-in hosting (`hosting/`) and the message-thread
coordinators in `app/`. The code is the reference: every definition names, in
`PROJECT.json` under `map`, the lines it stands for.

## 1. Inventory

### 1.1 The threads

| Thread | Runs | May never |
|---|---|---|
| message | UI, `PatternDocument` edits, `SynthSlot`, graph topology, device fallback, the start, watch and save of a plug-in scan | block on audio |
| audio | one graph render per block: `TransportProcessor` (drains the commands) -> `MidiInputProcessor` -> `SequencerProcessor` -> synth -> `MasterProcessor` | allocate, free, lock |
| device / MIDI-in | `audioDeviceError`, `handleIncomingMidiMessage` | |
| scan | `PluginManager::scanAll`, one at a time, inside the program | touch the widgets or the list's file |

Only three mechanisms cross between them: SPSC FIFOs (`SpscFifo`), the snapshot
triple buffer (`EngineSnapshotBuffer`), and the pattern publish slot with its
retirement queue (`PatternChannel`). A few `std::atomic` flags
(`MidiInputControl`, `ToneControl`, the fade flags of `HostedPluginNode`)
complete the list.

### 1.2 The components

| Component | State | Operations | Correct when |
|---|---|---|---|
| `SpscFifo` | ring storage, read and write cursors, `droppedCount` | `push`, `drain` | what is drained is exactly what was accepted, in order, once; no slot is read and written at the same time; a refused push is counted |
| `EngineSnapshotBuffer` | 3 slots, `writeSlot`, `readSlot`, `ready` (index + fresh bit) | `beginWrite`, `commit`, `read` | reader and writer never touch one slot together; the reader never goes back in time; a read returns a whole snapshot |
| `RetirementQueue`, `PatternChannel` | pending slot, queue of retired pointers | `publish`, `reclaim`, `adopt`, `retire` | each snapshot has one owner, is freed once, by the message thread, and never while the audio thread holds it |
| `PatternDocument` | current state, undo/redo stacks, transaction depth, revision, build counter | setters, `beginTransaction`, `endTransaction`, `undo`, `redo`, `publishTo` | undo and redo are inverse; every change outside a transaction is offered to the audio thread; a group is one undo step |
| `Transport` | sample position, tempo anchor, play flag, latched block view, edges, stop counter | `prepare`, `beginBlock`, `applyCommand` | one latched view per block; blocks tile the timeline; each stop/locate edge is seen in exactly one block |
| `SequencerProcessor` | held snapshot, active pattern, pending switch, `lastFiredAdoptStepIndex`, sounding table | `processBlock`, `applyCommand`, `prepareToPlay`, `releaseResources` | a requested switch happens once, at its boundary, whatever the block size; no note hangs |
| `SoundingNoteTable` | entries (channel, note, on, due), drop counter | `add`, `retireNoLaterThan`, `emitDueNoteOffs`, `flush`, `reset` | every note-on gets one note-off, not before its on, never after its due sample |
| `evaluateStep`, `StepLogic`, `DirectionModes`, `Euclid`, `Rng` | none (pure) | lane reads, conditions, probability, ratchets, traversal, euclid | the value depends on (snapshot, pattern, step, runtime) only |
| `MidiInputProcessor` | live voice count, scratch buffer | `processBlock` | note-offs always pass; panic clears; the count never goes negative |
| `MasterProcessor` | gain, limiter, block counter, last latency, device status | `processBlock`, `applyCommand` | finite output; one snapshot per block; one latency event per change |
| `EngineGraph` | nodes and connections, the synth node id | `setSynth`, `removeSynth`, `allNotesOff`, `prepareToPlay` | at most one synth; nodes freed on the message thread |
| `HostedPluginNode` | `fadedOut`, `bypassed`, `fadeGain`, `fadeOutComplete`, inner plug-in | `fadeIn`, `fadeOut`, `prepareToPlay`, `processBlock`, latency polling | click-free ramps; the completion flag is true only when silent |
| `SynthSlot` | generation, in-flight count, current and pending node, state, poll budget | `load`, `onInstantiated`, `remove`, `poll` | latest request wins; swaps happen in silence; never waits for ever; never holds a freed node |
| `PluginInstantiator` | none | `instantiate` | exactly one callback, on the message thread |
| `PluginManager`, `InProcessScanner` | known list, dead-man's pedal file, list file | `scanFormat`, `scanAll`, `cancelScan`, `save`, `restore` | a crashing plug-in is scanned once; nothing is lost on a failed save |
| `AudioEngine` | device status, error latches, retry window, sample-rate clamp | `handleAsyncUpdate`, `performFallback`, `enforceSampleRateCeiling`, `changeListenerCallback` | bounded reopen attempts; the engine never runs above the ceiling; the banner tells the truth |
| `DebugPanel`, `MainWindow`, `Main` | widgets | UI | (presentation) |

### 1.3 How they interact

- **Edits.** `PatternDocument` changes its state on the message thread; each
  committed change reclaims the retirement queue, builds an immutable
  `PatternSnapshot` and exchanges it into `PatternChannel`. The sequencer adopts
  it at the head of its next block and hands the old one back through the
  retirement queue, which the message thread empties (at each publication and
  once per UI tick) and deletes.
- **Commands.** The UI pushes `EngineCommand`s into an `SpscFifo`; the transport
  node drains all of them at the head of a render, and every node sees each one
  (`applyCommand`) before any node renders.
- **Time.** `Transport::beginBlock` latches one view of the block (position,
  tempo, play flag, stop and jump edges); the sequencer reads only that view.
- **Feedback.** `MasterProcessor` writes one `EngineSnapshot` per block into the
  triple buffer; `DebugPanel` reads it once per frame.
- **Instruments.** `SynthSlot` asks `PluginInstantiator` for a plug-in, edits the
  topology of `EngineGraph`, and follows the fade of `HostedPluginNode` through
  atomics by polling once per UI frame.
- **Scans.** `DebugPanel` starts a worker that loads every plug-in file to see what is
  in it, reads the growing list once per frame and saves it now and then. A file
  beside the list, the dead man's pedal, names the plug-in being loaded, so that the
  next start knows which one took the program down.
- **Devices.** The device thread latches an error and triggers an asynchronous
  update; the message thread of `AudioEngine` answers by reopening a device.

### 1.4 What is hard

Preemption inside the lock-free exchanges; a snapshot, node or message that is
freed twice, too early or never; the order of callbacks, polls, rebuilds and
audio blocks in a swap; edges that must be seen in exactly one block; music that
must not depend on where a block ends; a pattern switch resolved in one block
and made in another, with edits, tempo changes, stops, jumps and other requests
between; bounded retry over a counter that wraps; a change notification that reports
the program's own action; a foreign plug-in that crashes or hangs the process between
two writes of two files that must agree; a cancel that meets the start of what it
cancels; note-offs that must pass whatever stops note-ons; a value that is revised on
one thread, forwarded by a second and reported by a third.
`PROJECT.json` lists each under `hazards` at its line,
with the properties that watch it.

## 2. Modules

| Module | Extends / uses | Stands for |
|---|---|---|
| `BoundedQueue` | | abstract: a queue of limited room whose drained slots come back at the end of a drain |
| `SpscFifo` | INSTANCE `BoundedQueue` | `engine/graph/SpscFifo.h` over `juce::AbstractFifo` (external) |
| `LatestValue` | | abstract: a register that is written, and read atomically |
| `EngineSnapshotBuffer` | INSTANCE `LatestValue` | `engine/graph/EngineSnapshotBuffer.h`, with `MasterProcessor` writing and a UI frame reading |
| `PatternChannel` | | `engine/sequencer/PatternChannel.h`, `engine/graph/RetirementQueue.h`, the adoption, the teardown |
| `EditHistory` | | abstract: undo and redo over a line of states |
| `PatternDocument` | INSTANCE `EditHistory` | `engine/sequencer/PatternDocument` |
| `PatternEditing` | EXTENDS `PatternDocument`, `PatternChannel` | the two composed, as `EngineGraph::buildGraph` attaches them |
| `Transport` | | `engine/graph/Transport`, `TransportProcessor` |
| `SoundingNoteTable` | | `engine/midi/SoundingNoteTable`, as operators |
| `SequencerProcessor` | EXTENDS `Transport`, `SoundingNoteTable` | `engine/sequencer/SequencerProcessor`, one whole render of the graph |
| `DirectionModes`, `Euclid` | | `engine/sequencer/DirectionModes`, `engine/sequencer/Euclid`, as operators |
| `StepLogic` | EXTENDS `Euclid` | `evaluateStep`, `engine/sequencer/StepLogic`, `PatternSnapshot`, the lane reads, as operators |
| `ArpeggioWalk` | EXTENDS `StepLogic` | abstract: an arpeggiator that remembers its place, its loop and what it last heard |
| `StepEvaluation` | EXTENDS `StepLogic`, `DirectionModes`; INSTANCE `ArpeggioWalk` | a snapshot built and its steps evaluated, forward, back, with the FILL pad moving |
| `SynthSlot` | | `app/SynthSlot`, with the graph's `setSynth`/`removeSynth`, the fade of `HostedPluginNode`, the instantiator and the device |
| `LatencyReport` | EXTENDS `SynthSlot` | the latency of the plug-in in the slot, from its revision through `HostedPluginNode`, the graph and `MasterProcessor` to the panel |
| `MidiInput` | EXTENDS `SpscFifo` | `engine/graph/MidiInputProcessor` and `MidiInputControl` with the two keyboards and the note queue |
| `PluginScan` | | `hosting/PluginManager` and `InProcessScanner`, the scan panel, start and shutdown, over several runs of the program |
| `AudioEngine` | | `app/AudioEngine`: device loss, fallback, sample-rate ceiling, banner |
| `Folding` | | `FoldLeft` as the sequence of its accumulators, for the proofs |

Each `MC*` module gives a module its small instance, each `*Proofs` module holds the
theorems about one, or about a composition and its parts: `MidiInputProofs` about
`SpscFifo` and `MidiInput`, `PatternEditingProofs` about `PatternChannel`,
`PatternDocument` and `PatternEditing`, `LatencyReportProofs` about `SynthSlot` and
`LatencyReport`, `SequencerProofs` about `Transport`, `SoundingNoteTable` and
`SequencerProcessor`, `StepEvaluationProofs` about `StepEvaluation` with the operators of
`StepLogic`, `Euclid` and `DirectionModes` and the walk of `ArpeggioWalk`,
`AudioEngineProofs` about `AudioEngine` and about `EngineSnapshotBuffer`, which
`AudioEngine::snapshots()` hands to the panel. A definition headed `Fault` is a plausible slip of the
definition it names; it belongs to no specification, and `PROJECT.json` lists
under `mutants` the property that catches it.

### 2.1 Correspondence

**`SpscFifo`.** `push` and `drain` are cut at their shared accesses: reading the
other side's cursor, writing or reading a slot, storing the own cursor.
`validStart` and `validEnd` are the two atomics of `juce::AbstractFifo`; `push` may
be interrupted between any two, and a drain in progress covers only what was
ready when it began. `droppedCount` is capped by `MaxDropped`.

**`EngineSnapshotBuffer`.** Three slots, the writer's and the reader's index and
`ready` (index and fresh bit, exchanged in one step). The copy of a snapshot is
two half-writes, and the reader's use of a slot two half-reads, so that a torn
frame would be seen.

**`PatternChannel`.** A snapshot is its build number. Each exchange, push, pop and
delete is a step; `adopt` is three. A popped slot is given back only by
`ReclaimDone`, the end of the drain. `deletes` counts the deletions of each
snapshot, so that a leak is 0 and a double free 2.

**`PatternDocument`.** The document is a pair of a pattern value and a project
value. A setter that does not change anything returns early; one inside a
transaction changes the state and commits nothing; the outermost
`endTransaction` commits at most one history entry; `undo` and `redo` are
refused inside a transaction. `EditHistory` is the line of committed states
with a position in it; `PatternDocument` refines it.

**`PatternEditing`.** The committed changes call `publishTo`, which runs to its
end before another call of the message thread, while the audio thread adopts in
between at any step.

**`Transport`.** Positions are whole samples, musical positions whole ticks. `bpm`
is the ticks times rate per sample, so that every position of the instance is
exact; `reanchor` moves the anchor to the present before a tempo or rate change.
Commands are drained one by one (`draining`), then `BeginBlock` latches the view
and advances.

**`SequencerProcessor`.** `Render(n)` is one call of the graph: the transport's
latch, the adoption, `handleDiscontinuities`, `resolvePendingSwitch`, the walk
over the steps, `emitDueNoteOffs` and the pre-flush, in the code's order.
A step's content is `[shift, fillOnly, notes]`: its micro-timing displacement,
its FILL condition and its ratchets as onsets with lengths, of a pitch out of `Pitches`
and at most `LongestNote` long (in the code, what a gate length and the ties can add up
to). `emitDueNoteOffs` is one pass over the table, a fold, as it is in the code. `midi` is what the
render emitted in buffer order, `synth` what an instrument that listens to it
holds.

**`StepEvaluation`.** The code keeps nothing from one step to the next: a step's note
comes from the gate lane's prefix table, a PRE condition from looking back over
`previousGatedOffset`, at most `MaxPreChainDepth` gated steps. `ArpeggioWalk` states
what that must add up to, as a machine with a memory: phase, loop and cursor are
counted step by step, PRE is what was heard last. The refinement maps the counters
to the code's closed forms; `heard`, `age` and `plain` are history variables. The
hash is a choice: `rolls` is the set of steps and children whose roll passes, drawn
once, so that a step asked about twice answers alike. A table of traversal is
written entry by entry, every choice of the hash included. The two walks of
`conditionPasses` are `Hops` and `ChainDepth`, backwards to the anchor, and `ReplayAll`,
forwards again, a fold over the links; the loop over the ratchets of a step is a fold
over its children (`AddChild`). A pattern is a member of `PatternSet`: the lanes' ranges
of `laneRange`, which every write to a lane and the snapshot's own clamps keep.

**`SynthSlot`.** A node is the generation of the `load` that made it. `Rebuild` is
the asynchronous exchange of the render sequence, so that `topology` and
`rendering` differ for a while; the fade's seed is taken when the node is
prepared. `AudioBlock` moves the fade one step and sets the handshake flag.

**`LatencyReport`.** Every step of `SynthSlot` is taken here too, with what it means for
latency: a frame polls the flag of the current node before it polls the slot and
drains the events after; a rebuild prepares the new node, which forwards its latency,
and computes the graph's total; a block reports a total that differs from the last
one. `ChangedOnMessageThread` and `ChangedOnAudioThread` are the two sides of
`audioProcessorChanged`. `refused` remembers that an event met a full queue.

**`MidiInput`.** The ring is `SpscFifo` step by step, so an audio block is many steps:
read the mask, take the all-notes-off request in one exchange, drain the queue item
by item, take all of the collector into `hardwareScratch`, pass that on event by event,
publish the count. The message thread presses keys, sets
the mask and asks for silence between any two of them, and the MIDI thread fills the
collector. `Pass` is what happens to one event: the mask stops note-ons only. `lost`
names the keys whose off a full queue refused or a restart cleared. The widgets never
set the mask; `AudioEngine::setMidiChannelMask` does, and is what the tests call.

**`PluginScan`.** A session is one run of the program; `Crash` ends it at any step,
`JoinTimesOut` kills a worker that hangs when the window closes. Two files outlive it:
`listFile` is replaced whole or not at all, `pedalFile` is written before and after each
load. The worker's loop is cut at its tests of the two cancel channels and its writes
of the pedal. A save in the middle of a scan is two steps, the count of types and
the write, while the worker goes on. `killer`, `offenders`, `cancelled`, `begunSince` and
`migration` are history. A plug-in stands for its file and the one type in it.
`scanFormat`, called by tests alone, is the body of `scanAll`'s loop.

**`AudioEngine`.** `AudioDeviceError` and `TriggerAsyncUpdate` are the two
statements of the device thread, `HandleAsyncUpdate`, `Reopen` and `Verdict` one
message-thread callback, cut where the device thread may come in.
The device manager (external) is a choice: an open may fail or land on any rate
the device offers. `Counter` is the 32-bit millisecond counter, wrapping.

### 2.2 Runs

| Run | States | Shows |
|---|---|---|
| `midi_input` | 510 k | no slot of the note ring is read and written at once; the ring is a `BoundedQueue`, its room back after each drain; no note hangs under a mask, a panic, a full queue or a restart; the voice count goes back to zero; a panic silences |
| `snapshot_buffer` | 0.8 k | no frame is torn; the buffer is a `LatestValue`: it never goes back, and the last block is shown in the end |
| `pattern_editing` | 766 k | undo history; one owner per snapshot; everything freed at exit; the audio thread never plays half a gesture and ends up with the last committed state |
| `synth_slot` | 341 k | latest request wins; no dangling pointer; no cut tail outside the budget; no request hangs; the panel ends with the latency of the synth that is there |
| `sequencer_music` | 83 k | each displaced, ratcheted or filled note is played once, on its sample, from the pattern that is due, for every sequence of block sizes; a switch of each quantize mode, replaced or not, is made once, on its boundary; the gap of equal pitches is kept and the MIDI well formed |
| `sequencer_tempo` | 76 k | blocks tile the timeline through tempo changes, stops, locates and a device restart; no note hangs, not under an edit nor with a full table |
| `step_evaluation` | 56 k | euclidean rhythms are even; traversal orders have the shape they promise, seam included; the notes of a step lie in its reach; steps evaluated without a memory do what an arpeggiator with one does |
| `audio_engine` | 424 k | bounded reopening; no rate above the ceiling; the clamp note and the fallback banner are true; a loss is answered |
| `plugin_scan` | 139 k | a quarantined plug-in stays out through a failed migration; nothing banked is lost; a cancel lands within one file and never ends a later scan; saves and worker never meet on the blacklist; what is found is banked or the panel says why not |
| `sequencer_grid_edit` | violated | see 2.4 |
| `sequencer_early_step` | violated | see 2.4 |
| `plugin_scan_quarantine` | violated | see 2.4 |

`AnchorBehind` and the type invariants of the modules are used in the proofs (section 3)
or state the ranges of the variables for the reader; no run lists them, since a wrong
range shows as an error of TLC in the same run. `HandshakeHasSynth` and
`NeverDropped` follow from listed properties and are proved.

### 2.3 Bounds, and why they are enough

- `midi_input`: a ring of 3 slots holds 2 items, so that it is empty, partly filled and
  full at every wrap position, and refuses an off as well as an on; two keys on two
  channels tell an exchange of order and a mask that hits one of them; two presses,
  and two of hardware note, hardware sweep, mask change, panic and restart in any
  pair. The proofs cover every capacity for the race.
- `snapshot_buffer`: five blocks are more than the three slots, so each slot is
  reused by each role; the proof removes the bound.
- `pattern_editing`: four builds (the initial snapshot, three changes), one undo
  entry so that the oldest one is dropped, transactions nested twice, two values
  of each half of the document. `RetireRoom` is the least the proof needs; the
  code has 255.
- `synth_slot`: three calls of `load` or `remove` overlap in every way (a swap
  over a swap needs three; the
  proofs remove the bound); the poll budget is 2 instead of 30 and a fade takes
  2 blocks, so each of silence and time-out can come first; one device restart.
  Two latencies, revised twice on either thread; an event queue of two, so that one
  event can be refused.
- `sequencer_tempo`: two tempos, so that tempo changes meet notes, blocks and edges;
  a locate off the sample grid and one before the start; one restart. The rate
  stays the same there (a change of it is a change of tempo to the anchor); the proof
  covers every rate. The code's doubles round; the model's positions are exact. So
  what the code does about rounding (the two snaps of `sampleForPpq` and of the
  ownership test) is not seen here.
- sequencer runs: eight samples per step, blocks shorter than a step, longer
  than one and across one and a half, in every order, over three to six steps;
  steps displaced by half a step late and early; ratchets; a note of three and a
  half steps; a table of four entries, or of one. Onsets of a pitch are two samples
  apart or more (in the code, at least 91). At most one command is drained per
  render: two in one render differ only in the last value of what they set. In
  `sequencer_music` the contents and the commands make three studies in one instance:
  notes that meet, with one switch; onsets far apart, with a second request that
  replaces the first; notes that meet, with a stop and a restart. What is left out is a
  replaced switch over notes that meet (2.4).
- `step_evaluation`: six patterns whose lanes have lengths and divisions out of step, so
  that gate, conditions, probability and pitch meet in every way over 24 steps, nine
  of them below zero: PRE runs shorter and longer than the chain that is followed, a
  cycle with no anchor, with no gated step, with no note in the pool; every subset of
  five rolls; the FILL pad moves once. Traversals of pools of up to three notes (a
  random order of three makes every choice of the code); necklaces of 1 to 10 steps,
  rotated both ways, asked for below, at and above their limits.
- `plugin_scan`: a good plug-in, one that crashes, one that hangs and a file with
  nothing in it, in two formats with a bad one each; three launches, so that what a
  crash left is read twice; two scans, so that an old cancel meets a new scan; one
  failed write and one death that no plug-in caused; an older release with and
  without a list and a pedal. The proofs remove all of these bounds.
- `audio_engine`: three devices (one below the ceiling, one that can be brought
  under it, one that cannot), two attempts per window, four errors, so that the cap is
  reached; a window of 2 in a horizon of 3, so that it also elapses. The counter
  starts at 0 and at 3 of 4, so it wraps. `Modulus > Horizon` leaves out that the counter
  comes back after 49 days to where it was.

Deadlock is checked for the triple buffer, whose loops never end. The other systems
stop when torn down or when their bounded calls are spent.

### 2.4 Where the code and its comments disagree

1. `sequencer_grid_edit`: a step length edited while a switch is resolved leaves
   the switch's step index in the units of the old grid. With shorter steps it
   falls behind the playhead and the switch waits for a stop, a jump or another
   request, against `SequencerProcessor.cpp:1249`; with longer ones it comes late.
2. `sequencer_early_step`: the first step of the new pattern, when displaced early
   across a block's edge, is played from the outgoing pattern or lost, against
   `SequencerProcessor.cpp:1243`.
3. `plugin_scan_quarantine`: a plug-in that crashed the program is put on the blacklist
   in memory at the next start. The next scan passes over it and takes its name out
   of the pedal, before any save has written the blacklist; if another plug-in then
   crashes the program, the first one is loaded again, against `PluginManager.cpp:201`.

Kept as configurations that a reader can run, and not among the runs:

- `MCAudioEngineBanner.cfg` (`DeadMeansSilent`): after "dead", a working device chosen by
  the user plays under the dead banner, against `DeviceStatus.h:27`.
- `MCPluginScanMigration.cfg` (`MigrationRetries`): a migration that failed is not retried:
  the save at the shutdown of the same session creates the file whose absence is the
  condition, against `PluginManager.cpp:262`.
- `MCSequencerReplaced.cfg` (`GapKept`): a request that replaces a switch already resolved
  leaves a note cut at the boundary that was given up, or two equal pitches without
  their gap, against `SequencerProcessor.cpp:609`, which expects the flush of a switch that
  no longer comes.

Met while reading, too small for a configuration:

- `MidiInputControl.h` calls `voiceCount` the number of notes sounding; a key pressed on both
  keyboards, or let go after a sweep from the hardware, counts differently
  (`EveryNoteCounted` states the promise; `VoicesAreOwed` is what holds).
- `StepLogic.cpp:350` promises that PRE means "did that step actually sound"; the anchor
  is evaluated anew with the FILL pad of the present, so a step whose predecessor
  depends on FILL disagrees with what was heard when the pad moves between the two.
  `ArpeggioWalk` forgets what it heard when the pad moves.
- After a rise of the tempo, a note scheduled at the old one may end inside a new note
  of its pitch that came early: the reason why `CleanStream` is checked at one tempo.
- `SpscFifo.h:38` calls `Capacity` the number of items; the ring holds one less.
- `SynthSlot.cpp:121` says the incoming gain is seeded 0; the node is prepared by
  the asynchronous rebuild, after `fadeIn`, and is seeded open.
- `SequencerProcessor.cpp:975` has notes of a jump end at offset 0; an entry whose
  onset number lies in the new block ends there (`SoundingNoteTable.cpp:30`).
- `SequencerProcessor.cpp:679`: two notes of one pitch on one sample come out as
  on, off, on, off, not on, on, off, off.
- `AudioEngine.cpp:18` speaks of a rolling window; the window is fixed, so nearly
  twice the attempts fit in one span of its length. `ChurnBounded` states the
  bound the code does keep.

### 2.5 Fairness

- `MidiInput`: an open device calls the block, which runs to its end. Nothing makes a key
  go down or up.
- `EngineSnapshotBuffer`: blocks and frames go on.
- `PatternEditing`: the graph primes the channel, a publication that began ends (it is
  one call on the message thread), and audio blocks come while the device is open.
  Nothing makes the user edit.
- `LatencyReport`, with `SynthSlot`: UI frames poll, an instantiation calls back, posted
  rebuilds run, and a device renders as long as it is open. That it is open is not assumed:
  the time-out exists because it may stop, and `LatencyIsShown` speaks of devices that stay.
- `PluginScan`: frames come while the window is open, seconds pass, and the worker goes on
  except inside a plug-in that hangs. Nothing makes the user scan or cancel.
- `AudioEngine`: a device callback returns, and the message loop delivers what is
  queued. Errors and selections are never forced.

All is weak fairness: each of these stays enabled until it is taken.

## 3. Proofs

TLAPS checks the theorems below for every value of the constants, from the
assumptions stated beside the constants and no others.

| Theorem | Rests on |
|---|---|
| `MidiInputProofs!TypeCorrect`, `NoDataRace` (of `SpscFifo`) | a drain in progress covers no more than what is ready (pushes only add to it), and a push in progress keeps its room (drains only add to it). `NoSlotRace` alone is not inductive: it says nothing of what a stale read allows. |
| `MidiInputProofs!RingIsBoundedQueue` (of `SpscFifo`) | the sequence of the items between the cursors (`waiting`): a push that publishes appends to it, an item that is handed over is its head, whatever wraps; a slot a push is filling is outside it. |
| `MidiInputProofs!QueueIsUsedAsRing`, `NotesNeverRace`, `NotesAreQueued` | a step of the keyboards, the mask, the panic or the block is a step of `SpscFifo` or leaves its variables alone, so what holds of the ring carries over: every note that is accepted reaches the node once, in order. |
| `MidiInputProofs!NotesTypeCorrect`, `NoNoteIsStuck` | a note that sounds is held, lost, or has an off on its way (`NoStuckNote`); to be inductive this must say as much of the notes that are still on their way: every on being pushed, in the queue, in the collector or in the block's scratch has its key held, or lost, or its off behind it (`EndsInv`, with `NotesInv`: a push carries an event, and the scratch holds events only where the block passes them). |
| `MidiInputProofs!VoicesNeverOutliveNotes` | counting (`CountInv`). While nothing was lost, the ons of a source less its offs, counted from any event on, balance its held keys (`ScreenBalance`, `HardwareBalance`), and the count the node keeps balances both (`VoicesBalance`). An upper bound alone is not inductive: an off that meets a count of zero does not lower it. |
| `AudioEngineProofs!TypeCorrect`, `OneOwnerEach`, `NoTearing`, `Monotonic`, `BufferIsRegister` (of `EngineSnapshotBuffer`) | writer, reader and `ready` hold a permutation of the slots, and each slot's contents follow from its role: the reader's and the middle one are whole, and the last committed block is in the middle one when it is fresh, in the reader's otherwise. The refinement maps a commit to a write and a read() that returns to a read. |
| `PatternEditingProofs!QueueNeverOverflows` (of `PatternChannel`) | counting. Items in the queue, slots lent to a drain, the offer and the snapshot in hand are at most three before the teardown; a publication is the only step that adds, and it runs after a drain that covered all but two. The node's own snapshot is the fourth. Hence `RetireRoom >= 4` is enough for any number of builds. |
| `PatternEditingProofs!SnapshotsHaveOneOwner`, `NothingLeaksAtExit` (of `PatternChannel`) | the queue's room (above), without which a refused snapshot belongs to nobody; no two places hold one snapshot (`Separate`), and a snapshot is undeleted exactly when some place holds it (`Reachable`); the teardown empties one place after another (`Emptied`). While `adopt` has handed its old snapshot back and not yet stored the new one, `activeSnapshot` is a stale pointer and counts as no place. |
| `PatternEditingProofs!DocumentTypeCorrect`, `DocumentIsHistory` (of `PatternDocument`) | two stacks, the state captured at the outermost `beginTransaction` and a depth are one line of states with a place in it. For that the two stacks together must stay within the depth, and a transaction that changed nothing must be in the state it began with (`DocInv`). Pushing, dropping the oldest entry, undoing and redoing are a commit or a move on that line, each setter in a transaction a stutter. |
| `PatternEditingProofs!EditingIsHistory`, `EditingKeepsOneOwner`, `EditingLeaksNothing` | a step of the composition is a step of each part or leaves it alone. |
| `PatternEditingProofs!GesturesAreWhole` | every snapshot that was built is of a state that was committed, since no transaction is open while one is built (`GestureInv`); so the one that plays is. |
| `SequencerProofs!TypeCorrect`, `AnchorStaysBehind`, `EdgesAreLatched`, `TimelineIsTiled` (of `Transport`), `NodeTilesTheTimeline` | `TypeOK`, `AnchorBehind` and `NoEdgeWaits` together are inductive (`Inductive`); tiling is a step property that follows from them, since the anchor is behind the position and re-anchoring keeps the line through it. The node's other steps leave the clock alone. |
| `SequencerProofs!SwitchStaysAhead` | the step of a resolved switch is not behind the playhead, or a jump waits to be latched that makes the node forget the step (`Ahead`). A render walks over every step it owns, so it makes the switch or ends before it. Needs that the snapshots share a grid (`GridsAgree`): the run `sequencer_grid_edit` shows the statement false without it. |
| `SequencerProofs!RequestsAreHonoured` | with `Ahead`, the step of a resolved switch is the first of a quantum of the pattern that plays (`OnStep`). `patternEnd` counts in gate lanes, so the snapshots must agree on the length of these as well (`PeriodsAgree`); the code's own caveat is that an edit in between moves the boundary. |
| `SequencerProofs!SeqTypeCorrect`, `NoNoteHangs` | what a render emits so far (the tape) and the table: whoever listens to the tape holds only pitches the table has an entry for (`Owed`). Adding a note to a full table, cutting one short, ending the due ones and both flushes keep that, for every table, and the steps a render visits are folds over these. What the synth holds after the render follows (`HeardIsOwed`). Between renders every entry is due no earlier than the playhead and no later than the longest note after it, and a transport that stands still has none (`Held`). |
| `SequencerProofs!GapIsKept` | every note in the table is clear of every onset of its pitch in play, at every step index and not only within reach of the block (`NotesAreClear`), seen on the line that the latched block lies on: while that line stays, an onset falls on one sample whichever block renders it (`LineIsShared`). That the scan of `emitNote` misses none is `SoughtOnsetEnds` for the steps it looks at and `FarOnset` for those beyond: a step past the cap of 7, or past `Lookahead`, begins after the longest note has ended. A step of the walk, an early or late displacement and a resolved switch each keep it (`PlayNotePlays`, `FirePlays`, `WalkPlays`), and a switch that is made flushes the notes cut for the old pattern. Two hypotheses. `NotesLieInSteps` is of the constants: a step is shifted by half its length at most, its notes lie in it in order, a note lasts four steps at most, a step is at least a sample long; `StepsFit` proves the first two of the steps the evaluator makes, the third is the LENGTH lane's 400 % (`SequencerProcessor.h:121`), and the fourth holds at every tempo and step length the program can set. `Undisturbed` is of the behaviour: while there are notes nothing they were cut for changes, that is no edit, tempo or fill change and no second request over a resolved switch. The code cuts a note once and does not come back to it, so without this the statement is false (`MCSequencerReplaced.cfg`). |
| `PluginScanProofs!TypeCorrect`, `QuarantineKept`, `CancelAlwaysLands`, `ScanSeesEverything`, `BankedStays`, `SavesReadAQuietList` | memory holds all that the list file holds, except after a forced kill, which saves nothing; the plug-in being loaded is in the pedal, and all else in the pedal is on the blacklist already, so that applying it again changes nothing; what is to do and what is done cover each format up to the current one; after a cancel the worker passes one of the tests before it begins a file. |
| `LatencyReportProofs!PointerIsSafe`, `LatestCallWins`, `TailsAreNotChopped` (of `SynthSlot`) | the slot's states: which of the current node, the pending node and the graph's node agree in each, and that the flag of a finished fade is true only when the gain is zero and the fade was asked for. |
| `LatencyReportProofs!SlotIsUndisturbed`, `SlotPromisesKept` | every step of the composition is a step of `SynthSlot` or leaves it alone. |
| `AudioEngineProofs!NeverAboveCeiling`, `ClampNeverLies` | whatever enforcing the ceiling comes to leaves an open device within it and a clamp note that is true of it (`EnforcedFacts`); a device may exceed the ceiling, or the note be stale, only while a broadcast is queued (`SetupInv`). |
| `AudioEngineProofs!BannerSurvivesItsBroadcast` | until the setup is changed, the open device is the one the banner names (`BannerInv`), so the broadcast that the fallback itself causes finds it as it was. |
| `AudioEngineProofs!ChurnIsBounded`, `GivesUpOnlyInChurn` | the reopenings are in order of time (`HistoryOK`); those of the open window are the last `attemptsInWindow` of them, the first of these opened it, and the windows before lie a whole `Window` back (`WindowOK`). The window is measured by the difference of two values of the counter, which is the time that passed as long as that is less than `Modulus` (`Elapsed`, `WrappedDifference`). |
| `StepEvaluationProofs!EvaluatorIsArpeggiator` | the walk's counters are closed forms of the index, so the step in front of it must move each of them as the machine counts: quotient and remainder of the gate cycle move by one, over its seam and below zero (`Division`, `Quotient`), the ordinal grows by one over a gated step (`BeforeNext`), the pool's note is the rung the ladder has climbed to (`ClimbIsDegree`). What PRE answers is the hard half, and `ImplementsWalk` says nothing of it between two steps: by the invariant `HistoryInv` the last `age` gated steps look back, the one before them does not, and evaluating the last of them again comes to what was heard (`Remembers`); the last `plain` of them are all PRE (`RunOfPre`). The table finds the nearest gated step (`NextPrevious`), so the chain of the next step is that of this one and one link more (`HopsFromPrevious`), and replaying it ends one result later (`ChainFrom`); a chain as long as is followed replays to failure if all its links are PRE (`ChainTooLong`) and to something otherwise (`ChainEnds`). |
| `StepEvaluationProofs!OrdersHaveTheirShape` | each entry that was written is the one its mode computes for its place, and in the two random modes is a neighbour of the last, or not its equal (`TableInv`); the places of a note are then written down for each mode (`OnceAt`, `TwiceAt`, and thirds for the spiral, `Unwinds`), which counts them. |
| `StepEvaluationProofs!RhythmsAreEven` | the gate lane is the one it was or the rhythm asked for (`RhythmInv`). A pulse is where the line `e * k / n`, rounded down, rises (`Struck`), so the pulses in a window are the difference of two of its values (`PulsesAreLevels`), and windows of one width differ by one at most (`WindowOfLine`). |
| `StepEvaluationProofs!StepsFit` | what plays is a snapshot of one of the patterns, whose lanes keep their ranges (`StepsInv`); over the fold of the children, each note begins in a slot of its own behind those before it (`ChildrenLieInStep`, `OneMoreChild`), and the ramp is a line, rounded and limited, which keeps its order (`LineRises`, `RoundingGrows`, `ClampGrows`). |

The library states induction with an operator parameter, which the provers here cannot
instantiate. `Folding` makes the step of a fold a constant operator instead: a module that
folds takes an instance with its own step, `FoldRuns` gives the accumulators of the fold one
after the other and `Counting`, proved by well-founded induction over a set of numbers,
counts an invariant up along them. `SequencerProofs` does so for the steps of a render, the
notes of a step, a flush, the due offs and the synth that listens, `StepEvaluationProofs` for
the children of a step and the links of a chain.

Flags that TLC checks to be Boolean are left out of the proved type invariants of
`PluginScan` and `SynthSlot` (their `Ranges`): no other conjunct needs them.

Only model-checked:

- liveness (fairness and ENABLED are beyond the prover): `PanicSilences`, `AudioCatchesUp`,
  `EventuallySettles`, `LatencyIsShown`, `LossIsAnswered`, `BankedOrTold`, and that the last
  block is shown in the end. `BufferIsRegister` and the other refinements are of safety
  specifications;
- what the sequencer plays: `PlaysTheMusic` and `CleanStream`, which compare a whole render
  with the music in its span. They are about the tape of one render from its first sample to
  its last, and so need the order of the steps it visits as well as the notes of each.

## 4. Not modelled

- `Rng`: fixed integer mixing, tested by exact vectors. `Provenance`: data. `TestToneProcessor`, `TransportPlayHead`: a sine and an
  adapter.
- In `SequencerProcessor` a step is a constant; what a step is made of is the matter of
  `StepEvaluation`. The numbering of the 30 A:B conditions, the clamping of loaded
  values and the sharing of traversal tables between patterns are left out.
- Gain, limiter, metering, bus negotiation: signal processing.
- Of `HostedPluginNode`, the bypass (nothing in the program sets it). Of a scan, what one
  plug-in file reports and the sorting of the list; scanning in a process of its own is
  announced in the code and does not exist yet.
- The settings file, its migration and the cached readout of `AudioEngine`; MIDI
  forwarding; the widgets.
- Within modelled parts: that an instrument forgets its notes when the device
  restarts is an assumption about plug-ins; the sequencer's net for a stop
  without an edge is written (`missedStop`) and cannot fire while
  `NoEdgeWaits` holds.

## 5. Plan

Done, in this order: the lock-free exchanges (`SpscFifo`, `EngineSnapshotBuffer`,
`PatternChannel`), the document and its composition with the channel, the
transport, the sequencer with its note table, the instrument slot, the device
fallback, the evaluation of steps, the note input over the ring, the plug-in scan with its
crashes, the report of latencies around the slot.

Next, to extend the model: `AudioEngine`'s settings file and its migration; the
composition of `AudioEngine`'s restarts with `SynthSlot` and the sequencer in one
module, where they are now a restart action of each.

Proved since: the refinements of `BoundedQueue` and `EditHistory`, the notes and the voice
count of `MidiInput`, the composition of document and channel, `AudioEngine`'s bounds and
banner, the switch, the notes and the gaps between the notes of the sequencer, and the whole of the step logic: the traversal
orders, the euclidean rhythms, the place of a step's notes, and that evaluating a step
without a memory is what an arpeggiator with one does.

Next, to prove: `CleanStream` from `GapIsKept` and the invariant `Held`, which needs the
order of the entries of one pitch, and that a render visits each step it owns once, which is
half of `PlaysTheMusic`.
