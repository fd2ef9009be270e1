------------------------- MODULE SequencerProcessor --------------------------
(***************************************************************************)
(* engine/sequencer/SequencerProcessor: the arpeggiator node, rendered     *)
(* after the transport in every block of the audio thread.                 *)
(*                                                                         *)
(* One render drains the commands (Transport and this node both see each), *)
(* latches the block, adopts a newer snapshot, handles a stop or a jump,   *)
(* resolves a requested pattern switch to a step, walks the steps that may *)
(* sound in the block, ends the notes that are due and, when the switch is *)
(* at the very end of the block, ends all of them. Nothing here knows the  *)
(* size of the blocks to come: what is played must not depend on it.       *)
(*                                                                         *)
(* Positions are exact (see Transport); the pattern content is a constant, *)
(* a sequence of steps per snapshot and pattern, repeated for ever.        *)
(***************************************************************************)
EXTENDS Transport, SoundingNoteTable

CONSTANTS
  Patterns,    \* pattern numbers
  Snapshots,   \* names of the document states that can be published
  NoSnapshot,  \* nullptr
  Grid,        \* ticks per step of a snapshot
  Steps,       \* Steps[snapshot][pattern]: the steps of one cycle, records
               \* [shift, fillOnly, notes], notes a sequence of records
               \* [pitch, position, length]; all distances in ticks
  StartPattern,\* the pattern a snapshot starts on
  Pitches,     \* pitches a step may play
  LongestNote, \* ticks of the longest note (the LENGTH lane's limit)
  Beat, Bar,   \* ticks
  Quantizes,   \* quantize modes a request may name
  Requests,    \* pattern numbers a request may name
  MaxEdits,    \* bound on the snapshots published
  MaxCommands, \* bound on the commands drained by one render
  MaxRequests  \* bound on the switch requests

Modes == {"instant", "beat", "bar", "patternEnd"}

(* One cycle of a pattern: it is never empty. *)
IsCycle(cycle) ==
  /\ Len(cycle) \in Nat \ {0} /\ DOMAIN cycle = 1 .. Len(cycle)
  /\ \A k \in DOMAIN cycle :
       LET step == cycle[k]
       IN  /\ step.shift \in Int /\ step.fillOnly \in BOOLEAN
           /\ Len(step.notes) \in Nat /\ DOMAIN step.notes = 1 .. Len(step.notes)
           /\ \A j \in DOMAIN step.notes :
                /\ step.notes[j].pitch \in Pitches /\ step.notes[j].position \in Nat
                /\ step.notes[j].length \in 0 .. LongestNote

ASSUME SequencerAssumption ==
  /\ 0 \in Patterns
  /\ NoSnapshot \notin Snapshots
  /\ \A s \in Snapshots :
       /\ Grid[s] \in Nat \ {0}
       /\ StartPattern[s] \in Patterns
       /\ \A p \in Patterns : IsCycle(Steps[s][p])
  /\ Beat \in Nat \ {0} /\ Bar \in Nat \ {0}
  /\ TableCapacity \in Nat
  /\ LongestNote \in Nat \ {0}

(* INT64_MIN: below every step a bounded timeline reaches. *)
NeverFired == -1000000

VARIABLES
  activeSnapshot,
  offered,            \* the snapshot waiting in the channel, or NoSnapshot
  activePattern, patternSeeded,
  switch,             \* pending switch: [requested, pattern, quantize, resolved, step]
  lastFired,          \* lastFiredAdoptStepIndex
  stopSeeded, lastSeenStop,
  fillHeld,
  table,              \* the sounding notes
  midi,               \* what the last step rendered, in order of position
  synth,              \* pitches the synth downstream is holding
  edits, commands, requests

switchVars == <<switch, activePattern, lastFired>>
sequencerVars ==
  <<activeSnapshot, offered, activePattern, patternSeeded, switch, lastFired, stopSeeded,
    lastSeenStop, fillHeld, table, midi, synth, edits, commands, requests>>
vars == <<transportVars, sequencerVars>>

CeilDiv(a, b) == -((-a) \div b)
TruncDiv(a, b) == IF a >= 0 THEN a \div b ELSE -((-a) \div b)

-----------------------------------------------------------------------------
(* The emission core, evaluateStep: a function of the snapshot, the pattern, *)
(* the step and the fill flag, for any step index (negative ones included).  *)

StepAt(snapshot, pattern, index) ==
  LET cycle == Steps[snapshot][pattern] IN cycle[1 + (index % Len(cycle))]

EvaluateStep(snapshot, pattern, index, fill) ==
  LET step == StepAt(snapshot, pattern, index)
  IN  IF step.fillOnly /\ ~ fill THEN [shift |-> 0, notes |-> << >>] ELSE step

(* sampleForPpq: the sample a position falls on, seen from a block. *)
SampleForPpq(ppq, view) == view.samples + (ppq - view.ppq) \div PpqPerSample

(* ownsPpq: the one ownership test. *)
OwnsPpq(ppq, view) == ppq >= view.ppq /\ ppq < BlockEndPpq(view)

NotePpq(index, emission, child, grid) ==
  index * grid + emission.shift + emission.notes[child].position

(* eventReachesAdoptBoundary, discontinuedByPatternSwitch: a note of a step  *)
(* before a switch that sounds at or after it is not played.                 *)
ReachesBoundary(index, ppq, boundary, grid) ==
  index < boundary /\ ppq >= boundary * grid

(* Fault: a switch that landed in this very block is forgotten. *)
DiscontinuedWhilePending(w, index, ppq, grid) ==
  w.switch.resolved /\ ReachesBoundary(index, ppq, w.switch.step, grid)

DiscontinuedBySwitch(w, index, ppq, grid) ==
  \/ ReachesBoundary(index, ppq, w.lastFired, grid)
  \/ w.switch.resolved /\ ReachesBoundary(index, ppq, w.switch.step, grid)

MaxLookahead == 7

(* Fault: the scan is derived for steps without ratchets. *)
ScanBackShort == 1

(* How far the walk looks around the steps of its block (stepScanBack,       *)
(* stepScanForward).                                                         *)
ScanBack == 2
ScanForward == 1

(* cutoffForSamePitch: a note ends one sample before the next onset of its   *)
(* pitch, if that comes before its natural end. w is the walk so far, o the  *)
(* note: [index, child, pitch, on, due, lookahead], c the block's context.   *)
CutoffForSamePitch(w, o, emission, c) ==
  LET Predicted(index) ==
        IF index = o.index THEN emission
        ELSE EvaluateStep(c.snapshot, w.pattern, index, fillHeld)
      Scanned ==
        {index \in o.index - 1 .. o.index + o.lookahead :
           /\ index > o.index /\ w.switch.resolved => index < w.switch.step
           /\ index < o.index => index >= w.lastFired}
      Candidates(index) ==
        {child \in DOMAIN Predicted(index).notes :
           /\ index = o.index => child > o.child
           /\ Predicted(index).notes[child].pitch = o.pitch}
      Onsets ==
        UNION {{SampleForPpq(NotePpq(index, Predicted(index), child, c.grid), c.view) :
                  child \in Candidates(index)} : index \in Scanned}
      Cutting == {s \in Onsets : s > o.on /\ s - 1 < o.due}
  IN  IF Cutting = {} THEN o.due ELSE High(o.on, Min(Cutting) - 1)

(* Fault: only the next step is looked at. *)
LookaheadNext(reach, grid) == 1

(* How many steps ahead a note lasting reach samples from its step's own     *)
(* boundary can meet an onset.                                               *)
Lookahead(reach, grid) ==
  LET stepSamples == grid \div PpqPerSample
  IN  IF stepSamples >= 1
      THEN High(1, Low(MaxLookahead, TruncDiv(reach, stepSamples) + 2))
      ELSE MaxLookahead

(* emitNote: end what sounds on this pitch, schedule this note's own end,    *)
(* and play it unless the table is full.                                     *)
EmitNote(w, index, child, emission, on, c) ==
  LET note == emission.notes[child]
      existing == FindStartedAtOrBefore(w.table, note.pitch, on)
      retired ==
        IF existing = 0 THEN w
        ELSE RetireNoLaterThan(w, existing,
               IF w.table[existing].due <= on THEN on ELSE on - 1, c.block)
      natural == on + High(1, RoundedSample(note.length, PpqPerSample))
      reach == natural - SampleForPpq(index * c.grid, c.view)
      due == CutoffForSamePitch(w, [index |-> index, child |-> child,
                                    pitch |-> note.pitch, on |-> on, due |-> natural,
                                    lookahead |-> Lookahead(reach, c.grid)],
                                emission, c)
  IN  IF ~ CanAdd(retired.table) THEN retired
      ELSE [retired EXCEPT !.table = Append(@, Entry(note.pitch, on, due)),
                           !.midi = AddEvent(@, Event("on", note.pitch, on))]

-----------------------------------------------------------------------------
(* The walk. Its state w is [table, midi, pattern, switch, lastFired]. *)

ClearedSwitch(s) == [s EXCEPT !.requested = FALSE, !.resolved = FALSE]

(* Fault: the table is emptied without its note-offs. *)
HandleDiscontinuitiesResets(w, view, block) ==
  LET missedStop == stopSeeded /\ stopCounter # lastSeenStop
  IN  IF view.stopped \/ view.jumped \/ missedStop
      THEN [w EXCEPT !.table = << >>, !.switch.resolved = FALSE, !.lastFired = NeverFired]
      ELSE w

(* handleDiscontinuities: a stop or a jump ends every note at the head of    *)
(* the block and forgets the step a switch was resolved to, not the request. *)
HandleDiscontinuities(w, view, block) ==
  LET missedStop == stopSeeded /\ stopCounter # lastSeenStop
  IN  IF view.stopped \/ view.jumped \/ missedStop
      THEN [Flush(w, block, view.samples) EXCEPT !.switch.resolved = FALSE,
                                                 !.lastFired = NeverFired]
      ELSE w

(* The length of a pattern's cycle: its gate lane's. *)
GatePeriod(snapshot, pattern) == Len(Steps[snapshot][pattern])

QuantumTicks(quantize, snapshot, pattern) ==
  CASE quantize = "instant" -> Grid[snapshot]
    [] quantize = "beat" -> Beat
    [] quantize = "bar" -> Bar
    [] quantize = "patternEnd" -> GatePeriod(snapshot, pattern) * Grid[snapshot]

(* Fault: the multiple at or before the block's start. *)
TargetFloors(quantize, ppq, quantum) ==
  IF quantize = "instant" THEN ppq ELSE (ppq \div quantum) * quantum

Target(quantize, ppq, quantum) ==
  IF quantize = "instant" THEN ppq ELSE CeilDiv(ppq, quantum) * quantum

(* resolvePendingSwitch: once, to the first step at or after the first       *)
(* multiple of the quantum at or after the block's start.                    *)
ResolvePendingSwitch(w, c) ==
  IF ~ w.switch.requested \/ w.switch.resolved THEN w
  ELSE IF w.switch.pattern = w.pattern THEN [w EXCEPT !.switch = ClearedSwitch(@)]
  ELSE LET quantum == QuantumTicks(w.switch.quantize, c.snapshot, w.pattern)
           target == Target(w.switch.quantize, c.view.ppq, quantum)
       IN  [w EXCEPT !.switch.resolved = TRUE,
                     !.switch.step = CeilDiv(target, c.grid)]

(* Fault: the first block whose walk visits the step takes the switch. *)
FireSwitchUnowned(w, index, c) ==
  IF w.switch.resolved /\ index = w.switch.step
  THEN LET adoptSample == High(c.view.samples, SampleForPpq(index * c.grid, c.view))
       IN  [Flush(w, c.block, adoptSample) EXCEPT !.pattern = w.switch.pattern,
                                                  !.lastFired = index,
                                                  !.switch = ClearedSwitch(@)]
  ELSE w

(* The switch lands: in the walk, at its step, in the block that owns it.    *)
FireSwitch(w, index, c) ==
  IF w.switch.resolved /\ index = w.switch.step /\ OwnsPpq(index * c.grid, c.view)
  THEN LET adoptSample == High(c.view.samples, SampleForPpq(index * c.grid, c.view))
       IN  [Flush(w, c.block, adoptSample) EXCEPT !.pattern = w.switch.pattern,
                                                  !.lastFired = index,
                                                  !.switch = ClearedSwitch(@)]
  ELSE w

(* One step of the walk: the switch, then each note this block owns. *)
WalkStep(w, index, c) ==
  LET fired == FireSwitch(w, index, c)
      emission == EvaluateStep(c.snapshot, fired.pattern, index, fillHeld)
      Emit(acc, child) ==
        LET ppq == NotePpq(index, emission, child, c.grid)
            on == High(c.view.samples, SampleForPpq(ppq, c.view))
        IN  IF DiscontinuedBySwitch(acc, index, ppq, c.grid) \/ ~ OwnsPpq(ppq, c.view)
            THEN acc
            ELSE EmitNote(acc, index, child, emission, on, c)
  IN  FoldLeftDomain(Emit, fired, emission.notes)

(* The steps that may place a note in the block: two before its first, one   *)
(* after its last.                                                           *)
Walk(w, c) ==
  LET first == CeilDiv(c.view.ppq, c.grid) - ScanBack
      last == CeilDiv(BlockEndPpq(c.view), c.grid) + ScanForward - 1
  IN  FoldLeft(LAMBDA acc, index : WalkStep(acc, index, c), w,
               [k \in 1 .. last - first + 1 |-> first + k - 1])

(* The pre-flush: the switch is at the first sample after this block. *)
PreFlush(w, c) ==
  LET adoptSample == SampleForPpq(w.switch.step * c.grid, c.view)
  IN  IF w.switch.resolved /\ c.view.playing /\ adoptSample = BlockEnd(c.block)
      THEN Flush(w, c.block, adoptSample)
      ELSE w

(* processBlock, after the adoption, on the latched view. *)
ProcessBlock(snapshot, pattern, view) ==
  LET block == Span(view.samples, view.length)
      start == [table |-> table, midi |-> << >>, pattern |-> pattern,
                switch |-> switch, lastFired |-> lastFired]
      settled == HandleDiscontinuities(start, view, block)
  IN  IF snapshot = NoSnapshot THEN EmitDueNoteOffs(settled, block)
      ELSE LET c == [snapshot |-> snapshot, grid |-> Grid[snapshot], view |-> view,
                     block |-> block]
               ready == ResolvePendingSwitch(settled, c)
               walked == IF view.playing THEN Walk(ready, c) ELSE ready
           IN  PreFlush(EmitDueNoteOffs(walked, block), c)

(* What the synth holds after an event. *)
Heard(held, event) ==
  CASE event.kind = "on" -> held \union {event.pitch}
    [] event.kind = "off" -> held \ {event.pitch}
    [] event.kind = "sweep" -> {}

-----------------------------------------------------------------------------
(* The system: the message thread publishes and sends commands, the audio    *)
(* thread renders.                                                           *)

SeqInit ==
  /\ Init
  /\ activeSnapshot = NoSnapshot
  /\ offered \in Snapshots      \* the graph primes the channel
  /\ activePattern = 0 /\ patternSeeded = FALSE
  /\ switch = [requested |-> FALSE, pattern |-> 0, quantize |-> "bar",
               resolved |-> FALSE, step |-> 0]
  /\ lastFired = NeverFired
  /\ stopSeeded = FALSE /\ lastSeenStop = 0
  /\ fillHeld = FALSE
  /\ table = << >> /\ midi = << >> /\ synth = {}
  /\ edits = 0 /\ commands = 0 /\ requests = 0

(* PatternDocument publishes a new state into the channel. *)
Publish(snapshot) ==
  /\ edits < MaxEdits
  /\ edits' = edits + 1
  /\ offered' = snapshot
  /\ UNCHANGED transportVars
  /\ UNCHANGED <<activeSnapshot, activePattern, patternSeeded, switch, lastFired,
                 stopSeeded, lastSeenStop, fillHeld, table, synth, commands, requests>>
  /\ midi' = << >>

Drained ==
  /\ commands < MaxCommands
  /\ commands' = commands + 1

TransportCommand ==
  /\ Drained
  /\ Command
  /\ UNCHANGED <<activeSnapshot, offered, activePattern, patternSeeded, switch,
                 lastFired, stopSeeded, lastSeenStop, fillHeld, table, synth, edits,
                 requests>>
  /\ midi' = << >>

(* applyCommand: a request replaces the one outstanding; a pattern or a mode *)
(* out of range is ignored.                                                  *)
QueuePatternSwitch(pattern, quantize) ==
  /\ Drained
  /\ requests < MaxRequests
  /\ requests' = requests + 1
  /\ draining' = TRUE
  /\ switch' = IF pattern \in Patterns /\ quantize \in Modes
               THEN [requested |-> TRUE, pattern |-> pattern, quantize |-> quantize,
                     resolved |-> FALSE, step |-> switch.step]
               ELSE switch
  /\ UNCHANGED <<samplePosition, anchorSample, anchorPpq, bpm, sampleRate, playing,
                 stopEdge, positionJumpEdge, stopCounter, latched, prepares>>
  /\ UNCHANGED <<activeSnapshot, offered, activePattern, patternSeeded, lastFired,
                 stopSeeded, lastSeenStop, fillHeld, table, synth, edits>>
  /\ midi' = << >>

SetFillHeld ==
  /\ Drained
  /\ requests < MaxRequests
  /\ requests' = requests + 1
  /\ draining' = TRUE
  /\ fillHeld' = ~ fillHeld
  /\ UNCHANGED <<samplePosition, anchorSample, anchorPpq, bpm, sampleRate, playing,
                 stopEdge, positionJumpEdge, stopCounter, latched, prepares>>
  /\ UNCHANGED <<activeSnapshot, offered, activePattern, patternSeeded, switch,
                 lastFired, stopSeeded, lastSeenStop, table, synth, edits>>
  /\ midi' = << >>

(* One render of n samples: the transport, then this node on the view the    *)
(* transport latched; the first snapshot adopted decides the first pattern.  *)
Render(n) ==
  /\ BeginBlock(n)
  /\ activeSnapshot' = IF offered # NoSnapshot THEN offered ELSE activeSnapshot
  /\ offered' = NoSnapshot
  /\ patternSeeded' = (activeSnapshot' # NoSnapshot)
  /\ LET pattern == IF patternSeeded' /\ ~ patternSeeded
                    THEN StartPattern[activeSnapshot'] ELSE activePattern
     IN  \E after \in {ProcessBlock(activeSnapshot', pattern, latched')} :
           /\ table' = after.table
           /\ midi' = after.midi
           /\ synth' = FoldLeft(Heard, synth, after.midi)
           /\ activePattern' = after.pattern
           /\ switch' = after.switch
           /\ lastFired' = after.lastFired
  /\ stopSeeded' = TRUE
  /\ lastSeenStop' = stopCounter
  /\ commands' = 0
  /\ UNCHANGED <<fillHeld, edits, requests>>

(* The device restarts: every node is prepared again, the synth included.    *)
DeviceRestart(rate) ==
  /\ Prepare(rate)
  /\ table' = << >>
  /\ synth' = {}
  /\ midi' = << >>
  /\ stopSeeded' = FALSE
  /\ switch' = [switch EXCEPT !.resolved = FALSE]
  /\ UNCHANGED <<activeSnapshot, offered, activePattern, patternSeeded, lastFired,
                 lastSeenStop, fillHeld, edits, commands, requests>>

SeqNext ==
  \/ \E snapshot \in Snapshots : Publish(snapshot)
  \/ TransportCommand
  \/ \E pattern \in Requests, quantize \in Quantizes : QueuePatternSwitch(pattern, quantize)
  \/ SetFillHeld
  \/ \E n \in BlockSizes : Render(n)
  \/ \E rate \in Rates : DeviceRestart(rate)

SeqSpec == SeqInit /\ [][SeqNext]_vars

-----------------------------------------------------------------------------
(* Properties *)

(* The step is a render. *)
Rendered == ~ draining' /\ edits' = edits /\ prepares' = prepares

(* Every variable of the node stays in its range. *)
SeqTypeOK ==
  /\ TypeOK
  /\ activeSnapshot \in Snapshots \union {NoSnapshot}
  /\ offered \in Snapshots \union {NoSnapshot}
  /\ activePattern \in Patterns
  /\ switch.pattern \in Patterns /\ switch.quantize \in Modes
  /\ switch.resolved => switch.requested
  /\ Len(table) <= TableCapacity
  /\ \A i \in DOMAIN table : table[i].on <= table[i].due
  /\ \A i \in DOMAIN midi : midi[i].at \in latched.samples .. latched.samples + latched.length - 1

(* No note hangs: whatever the synth is still holding after a render has an  *)
(* entry whose end is still to come and at most the longest note away, and   *)
(* nothing is held by a stopped transport.                                   *)
NoHungNote ==
  ~ draining =>
    /\ \A p \in synth : \E i \in DOMAIN table :
         /\ table[i].pitch = p
         /\ table[i].due \in samplePosition .. samplePosition + LongestNote
    /\ ~ playing => synth = {} /\ table = << >>

(* What the synth is sent is well formed, whatever the order the walk meets  *)
(* the notes in: no pitch is started while it is sounding, no note ends on   *)
(* the sample it starts on and nothing is ended that is not sounding, but    *)
(* after a jump: sealOffset compares sample numbers only, so an entry of the *)
(* old timeline can pass for one started in the new block and end in it.     *)
CleanStream ==
  [][\A i \in DOMAIN midi' :
       LET e == midi'[i]
           held == FoldLeft(Heard, synth, SubSeq(midi', 1, i - 1))
       IN  /\ e.kind = "on" => e.pitch \notin held
           /\ e.kind = "off" =>
                /\ e.pitch \in held \/ latched'.jumped
                /\ \A k \in 1 .. i - 1 : midi'[k] # Event("on", e.pitch, e.at)]_vars

(* The music of a timeline: every note of every step there is, the steps     *)
(* before the given boundary played from one pattern and the others from     *)
(* another, less the notes of the former that sound at or after it.          *)
Reach(ppq, grid) == ppq \div grid - 4 .. ppq \div grid + 4

Music(steps, before, boundary, after, fill) ==
  LET Of(index) == EvaluateStep(activeSnapshot, IF index < boundary THEN before ELSE after,
                                index, fill)
      grid == Grid[activeSnapshot]
      Onset(index, child) ==
        [ppq |-> NotePpq(index, Of(index), child, grid),
         pitch |-> Of(index).notes[child].pitch, index |-> index, child |-> child]
      Onsets ==
        UNION {{Onset(index, child) : child \in DOMAIN Of(index).notes} : index \in steps}
  IN  {n \in Onsets : ~ ReachesBoundary(n.index, n.ppq, boundary, grid)}

(* What a render plays is the music that lies in its span: each note exactly *)
(* once, on its own sample, from the pattern whose step it is, wherever the  *)
(* edges of the blocks fall.                                                 *)
PlaysTheMusic ==
  [][Rendered /\ latched'.playing /\ activeSnapshot' = activeSnapshot =>
       LET view == latched'
           pending == switch'.resolved
           notes == Music(Reach(view.ppq, Grid[activeSnapshot])
                            \union Reach(BlockEndPpq(view), Grid[activeSnapshot]),
                          activePattern,
                          IF pending THEN switch'.step ELSE lastFired',
                          IF pending THEN switch'.pattern ELSE activePattern',
                          fillHeld)
           mine == {n \in notes : n.ppq >= view.ppq /\ n.ppq < BlockEndPpq(view)}
           IsOn(e) == e.kind = "on"
           ons == SelectSeq(midi', IsOn)
       IN  /\ Len(ons) = Cardinality(mine)
           /\ \A n \in mine : \E i \in DOMAIN ons :
                ons[i].pitch = n.pitch /\ ons[i].at = SampleForPpq(n.ppq, view)]_vars

(* A note is scheduled to end at least one sample before the next onset of   *)
(* its pitch, so that the gap between them cannot depend on where a block    *)
(* edge falls (the lookahead of emitNote, issue #46).                        *)
GapKept ==
  ~ draining /\ activeSnapshot # NoSnapshot =>
    \A i \in DOMAIN table :
      \A n \in Music(Reach(latched.ppq, Grid[activeSnapshot])
                      \union Reach(BlockEndPpq(latched) + LongestNote, Grid[activeSnapshot]),
                    activePattern, lastFired, activePattern, fillHeld) :
        /\ n.index >= lastFired
        /\ n.pitch = table[i].pitch
        /\ switch.resolved => n.index < switch.step
        => ~ (SampleForPpq(n.ppq, latched) \in table[i].on + 1 .. table[i].due)

(* A resolved switch is never behind the playhead: the walk is still to      *)
(* visit its step (processBlock: "the index can never fall BELOW this        *)
(* block's range and be silently skipped").                                  *)
SwitchAhead == switch.resolved /\ ~ draining => switch.step * Grid[activeSnapshot] >= PpqNow

(* A request ends only by being granted: when it goes the pattern asked for  *)
(* is the one playing, and a pattern changes only in the block that holds    *)
(* the first step of a quantum.                                              *)
SwitchHonoured ==
  [][/\ switch.requested /\ ~ switch'.requested => activePattern' = switch.pattern
     /\ patternSeeded /\ activePattern' # activePattern =>
          LET grid == Grid[activeSnapshot']
              quantum == QuantumTicks(switch.quantize, activeSnapshot', activePattern)
          IN  /\ OwnsPpq(lastFired' * grid, latched')
              /\ \E k \in 0 .. lastFired' * grid : lastFired' = CeilDiv(k * quantum, grid)]_vars

=============================================================================
