--------------------------- MODULE PatternEditing ---------------------------
(***************************************************************************)
(* The pattern document attached to the graph's pattern channel            *)
(* (EngineGraph::buildGraph): every committed change runs publishTo to its *)
(* end before the message thread does anything else, while the audio       *)
(* thread adopts whenever a block begins.                                  *)
(***************************************************************************)
EXTENDS PatternDocument, PatternChannel

VARIABLES
  contents,    \* contents[n] is the state snapshot n was built from
  wasCommitted \* history: every state that was ever the committed one

editingVars == <<docVars, channelVars, contents, wasCommitted>>

EditingInit ==
  /\ DocInit
  /\ Init
  /\ contents = << >>
  /\ wasCommitted = {current}

(* buildGraph primes the channel with one snapshot of the default document. *)
Prime ==
  /\ buildCounter = 0
  /\ PublishTo
  /\ UNCHANGED <<docVars, contents, wasCommitted>>

(* A committed change republishes; any other call leaves the channel alone. *)
DocumentCall ==
  /\ ui = "idle"
  /\ buildCounter > 0
  /\ DocNext
  /\ IF revision' = revision THEN UNCHANGED channelVars ELSE PublishTo
  /\ wasCommitted' = wasCommitted \union {committedState'}
  /\ UNCHANGED contents

(* buildPatternSnapshot copies the state as publishTo finds it. *)
BuildAndPublish ==
  /\ Publish
  /\ contents' = Append(contents, current)
  /\ UNCHANGED <<docVars, wasCommitted>>

ChannelStep ==
  /\ \/ Tick \/ ReclaimOne \/ ReclaimDone
     \/ Adopt \/ SwitchAudio \/ Teardown
  /\ UNCHANGED <<docVars, contents, wasCommitted>>

EditingNext == Prime \/ DocumentCall \/ BuildAndPublish \/ ChannelStep

PublishingCall == BuildAndPublish \/ (ChannelStep /\ ui \in Reclaiming)

AudioBlock == ChannelStep /\ Adopt

EditingSpec == EditingInit /\ [][EditingNext]_editingVars

FairEditingSpec ==
  EditingSpec /\ WF_editingVars(Prime) /\ WF_editingVars(PublishingCall) /\ WF_editingVars(AudioBlock)

-----------------------------------------------------------------------------
(* Properties *)

(* The audio thread never renders from a state that exists only inside an   *)
(* unfinished gesture.                                                      *)
NeverHalfAGesture ==
  activeSnapshot # 0 => contents[activeSnapshot] \in wasCommitted

(* If the device stays open and the document is not torn down, the audio    *)
(* thread ends up rendering the committed state of the document, however    *)
(* edits, undo, redo and transactions were interleaved with its blocks.     *)
AudioCatchesUp ==
  <>[](audio # "stopped")
    => <>[](activeSnapshot # 0 /\ contents[activeSnapshot] = committedState)
=============================================================================
