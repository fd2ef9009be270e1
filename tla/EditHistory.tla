---------------------------- MODULE EditHistory -----------------------------
(***************************************************************************)
(* What the pattern document promises about editing: a linear history of   *)
(* committed states with a cursor. A gesture appends one state after the   *)
(* cursor and forgets what was undone; undo and redo only move the cursor; *)
(* the oldest states are forgotten beyond MaxUndoDepth.                    *)
(***************************************************************************)
EXTENDS Naturals, Sequences

CONSTANTS
  States,      \* the values of the document
  MaxUndoDepth \* undo entries retained

VARIABLES
  versions,   \* the committed states, oldest first
  cursor,     \* the one the document shows
  announced   \* the last state given to the audio thread

historyVars == <<versions, cursor, announced>>

HistoryInit ==
  /\ \E s \in States : versions = <<s>>
  /\ cursor = 1
  /\ announced = versions[1]

(* The last MaxUndoDepth + 1 of a sequence. *)
Latest(seq) ==
  SubSeq(seq, IF Len(seq) > MaxUndoDepth + 1 THEN Len(seq) - MaxUndoDepth ELSE 1, Len(seq))

Gesture(s) ==
  /\ versions' = Latest(Append(SubSeq(versions, 1, cursor), s))
  /\ cursor' = Len(versions')
  /\ announced' = s

Undo ==
  /\ cursor > 1
  /\ cursor' = cursor - 1
  /\ announced' = versions[cursor']
  /\ UNCHANGED versions

Redo ==
  /\ cursor < Len(versions)
  /\ cursor' = cursor + 1
  /\ announced' = versions[cursor']
  /\ UNCHANGED versions

Forget ==
  /\ versions' = <<versions[cursor]>>
  /\ cursor' = 1
  /\ UNCHANGED announced

HistoryNext ==
  \/ \E s \in States : Gesture(s)
  \/ Undo
  \/ Redo
  \/ Forget

HistorySpec == HistoryInit /\ [][HistoryNext]_historyVars
=============================================================================
