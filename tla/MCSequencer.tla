----------------------------- MODULE MCSequencer -----------------------------
(* One tick per sample at the base tempo, eight ticks per step. The notes    *)
(* meet on purpose: one pitch on neighbouring steps, a step half a step late *)
(* and one a quarter of a step early, a two-note ratchet, a note of more     *)
(* than three steps, a fill step. Onsets lie at least two samples apart (the *)
(* code's closest are 91).                                                   *)
EXTENDS SequencerProcessor

Note(pitch, position, length) == [pitch |-> pitch, position |-> position, length |-> length]
Step(shift, notes) == [shift |-> shift, fillOnly |-> FALSE, notes |-> notes]
FillStep(shift, notes) == [shift |-> shift, fillOnly |-> TRUE, notes |-> notes]
Rest == Step(0, << >>)

LongRatchet == Step(4, <<Note("C", 0, 7), Note("C", 6, 7)>>)
Late == <<LongRatchet, Step(0, <<Note("C", 0, 28)>>)>>
Early == <<LongRatchet, Step(-2, <<Note("C", 0, 9)>>), FillStep(-1, <<Note("E", 0, 3)>>)>>
Sparse == <<Step(4, <<Note("E", 0, 12), Note("E", 5, 3)>>), Rest, Step(1, <<Note("C", 0, 30)>>)>>
Apart == <<Step(4, <<Note("C", 0, 7), Note("D", 6, 7)>>), Step(0, <<Note("E", 0, 13)>>)>>
ApartToo == <<Step(4, <<Note("F", 0, 12), Note("G", 5, 3)>>), Rest, Step(1, <<Note("A", 0, 20)>>)>>
HalfEarly == <<Step(-4, <<Note("E", 0, 4)>>)>>

(* Off the sample grid at the faster tempo, and before the start. *)
MCLocateTargets == {21, -1}

(* Snapshots: a plain one; edits of its pattern 0, of its pitches (no two    *)
(* notes share one), of its grid, and of its pattern 1.                      *)
Contents ==
  [plain |-> [grid |-> 8, patterns |-> <<Late, Sparse>>],
   edited |-> [grid |-> 8, patterns |-> <<Early, Sparse>>],
   apart |-> [grid |-> 8, patterns |-> <<Apart, ApartToo>>],
   finer |-> [grid |-> 4, patterns |-> <<Sparse, HalfEarly>>],
   ahead |-> [grid |-> 8, patterns |-> <<Late, HalfEarly>>]]

MCSteps == [s \in DOMAIN Contents |-> [p \in Patterns |-> Contents[s].patterns[p + 1]]]
MCGrid == [s \in DOMAIN Contents |-> Contents[s].grid]
MCStart == [s \in DOMAIN Contents |-> 0]

(* Three studies in one run: a switch under "plain", a switch replaced by    *)
(* another under "apart", a stop and a restart under "edited". The notes of  *)
(* "apart" do not meet because a note cut for the music after a resolved     *)
(* switch is not cut again when the switch is replaced. The steps of         *)
(* "edited" sound before their boundary, which the run on "ahead" is about.  *)
Plays(snapshot) == snapshot \in {offered, activeSnapshot}

MCNext ==
  \/ \E snapshot \in Snapshots : Publish(snapshot)
  \/ TransportCommand
  \/ /\ Plays("apart") \/ (Plays("plain") /\ requests = 0)
     /\ \E pattern \in Requests, quantize \in Quantizes : QueuePatternSwitch(pattern, quantize)
  \/ SetFillHeld
  \/ \E n \in BlockSizes : Render(n)
  \/ Plays("edited") /\ \E rate \in Rates : DeviceRestart(rate)

MCSpec == SeqInit /\ [][MCNext]_vars
=============================================================================
