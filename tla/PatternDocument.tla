-------------------------- MODULE PatternDocument ---------------------------
(***************************************************************************)
(* engine/sequencer/PatternDocument.cpp: the message thread's editable     *)
(* pattern set, with capped undo and redo, nestable transactions, and a    *)
(* republication after every committed change.                             *)
(*                                                                         *)
(* A PatternSetState is a pair: the field a pattern-level setter writes    *)
(* and the field a project-level setter writes. A setter clamps or rejects *)
(* its argument and returns without a trace when nothing would change, so  *)
(* its whole effect is to store one different legal value.                 *)
(***************************************************************************)
EXTENDS Naturals, Sequences, SequencesExt

CONSTANTS
  PatternValues, \* legal contents of the patterns (lanes, direction, seed, euclid)
  ProjectValues, \* legal project-level settings (grid, swing, ramp, pool, channel, start)
  DefaultState,  \* the state a document is constructed with
  MaxUndoDepth,  \* undo entries retained (256 in the code)
  MaxRevision,   \* bound on the committed changes
  MaxDepth       \* bound on nested transactions

ASSUME ValuesAssumption == DefaultState \in [pattern : PatternValues, project : ProjectValues]
ASSUME BoundsAssumption ==
  MaxUndoDepth \in Nat \ {0} /\ MaxRevision \in Nat /\ MaxDepth \in Nat

VARIABLES
  current,            \* the authoritative state
  pendingUndo,        \* the state captured before the edit or transaction
  undoStack,          \* older states, oldest first
  redoStack,          \* undone states, the next one to redo last
  transactionDepth,   \* open transactions
  transactionChanged, \* an edit happened in the open transaction
  revision,           \* committed changes
  published           \* the state of the last snapshot built and published

docVars == <<current, pendingUndo, undoStack, redoStack, transactionDepth,
             transactionChanged, revision, published>>

States == [pattern : PatternValues, project : ProjectValues]

DocInit ==
  /\ current = DefaultState
  /\ pendingUndo = DefaultState
  /\ undoStack = << >>
  /\ redoStack = << >>
  /\ transactionDepth = 0
  /\ transactionChanged = FALSE
  /\ revision = 0
  /\ published = DefaultState

-----------------------------------------------------------------------------
(* Faults, each one slip away from the code; the mutation runs put one in    *)
(* the place of the definition it is named after.                           *)

(* PushUndo: the stack is not trimmed. *)
PushUndoUncapped(previous) ==
  /\ undoStack' = Append(undoStack, previous)
  /\ redoStack' = << >>

-----------------------------------------------------------------------------
(* pushUndo: a new change drops the redo branch and the oldest entries. *)
PushUndo(previous) ==
  /\ undoStack' = LET grown == Append(undoStack, previous)
                  IN IF Len(grown) > MaxUndoDepth THEN Tail(grown) ELSE grown
  /\ redoStack' = << >>

(* ++revision and republish, which builds a snapshot of the new state. *)
Committing(state) ==
  /\ revision < MaxRevision
  /\ revision' = revision + 1
  /\ current' = state
  /\ published' = state

(* Fault in EditTo: endEdit does not look at the open transaction. *)
EditToAlwaysCommits(state) ==
  /\ IF transactionDepth > 0
     THEN transactionChanged' = TRUE /\ UNCHANGED pendingUndo
     ELSE pendingUndo' = current /\ UNCHANGED transactionChanged
  /\ PushUndo(pendingUndo')
  /\ Committing(state)
  /\ UNCHANGED transactionDepth

(* beginEdit, the mutation, endEdit. *)
EditTo(state) ==
  IF transactionDepth > 0
  THEN /\ current' = state
       /\ transactionChanged' = TRUE
       /\ UNCHANGED <<pendingUndo, undoStack, redoStack, transactionDepth, revision, published>>
  ELSE /\ pendingUndo' = current
       /\ PushUndo(current)
       /\ Committing(state)
       /\ UNCHANGED <<transactionDepth, transactionChanged>>

SetPatternField(value) ==
  /\ value # current.pattern
  /\ EditTo([current EXCEPT !.pattern = value])

(* applyEuclid makes no comparison: applying it twice is two edits. *)
ApplyEuclid(value) == EditTo([current EXCEPT !.pattern = value])

SetProjectField(value) ==
  /\ value # current.project
  /\ EditTo([current EXCEPT !.project = value])

BeginTransaction ==
  /\ transactionDepth < MaxDepth
  /\ transactionDepth' = transactionDepth + 1
  /\ IF transactionDepth = 0
     THEN pendingUndo' = current /\ transactionChanged' = FALSE
     ELSE UNCHANGED <<pendingUndo, transactionChanged>>
  /\ UNCHANGED <<current, undoStack, redoStack, revision, published>>

EndInnerTransaction ==
  /\ transactionDepth > 1
  /\ transactionDepth' = transactionDepth - 1
  /\ UNCHANGED <<current, pendingUndo, undoStack, redoStack, transactionChanged, revision, published>>

EndUnchangedTransaction ==
  /\ transactionDepth = 1
  /\ ~ transactionChanged
  /\ transactionDepth' = 0
  /\ UNCHANGED <<current, pendingUndo, undoStack, redoStack, transactionChanged, revision, published>>

EndChangedTransaction ==
  /\ transactionDepth = 1
  /\ transactionChanged
  /\ transactionDepth' = 0
  /\ transactionChanged' = FALSE
  /\ PushUndo(pendingUndo)
  /\ Committing(current)
  /\ UNCHANGED pendingUndo

Undo ==
  /\ transactionDepth = 0
  /\ undoStack # << >>
  /\ redoStack' = Append(redoStack, current)
  /\ undoStack' = Front(undoStack)
  /\ Committing(Last(undoStack))
  /\ UNCHANGED <<pendingUndo, transactionDepth, transactionChanged>>

Redo ==
  /\ transactionDepth = 0
  /\ redoStack # << >>
  /\ undoStack' = Append(undoStack, current)
  /\ redoStack' = Front(redoStack)
  /\ Committing(Last(redoStack))
  /\ UNCHANGED <<pendingUndo, transactionDepth, transactionChanged>>

ClearUndoHistory ==
  /\ undoStack' = << >>
  /\ redoStack' = << >>
  /\ UNCHANGED <<current, pendingUndo, transactionDepth, transactionChanged, revision, published>>

-----------------------------------------------------------------------------
Edit ==
  \/ \E value \in PatternValues : SetPatternField(value) \/ ApplyEuclid(value)
  \/ \E value \in ProjectValues : SetProjectField(value)

EndTransaction == EndInnerTransaction \/ EndUnchangedTransaction \/ EndChangedTransaction

DocNext == Edit \/ BeginTransaction \/ EndTransaction \/ Undo \/ Redo \/ ClearUndoHistory

DocSpec == DocInit /\ [][DocNext]_docVars

-----------------------------------------------------------------------------
(* Properties *)

(* Every variable stays in its range. *)
DocTypeOK ==
  /\ {current, pendingUndo, published} \subseteq States
  /\ undoStack \in Seq(States)
  /\ redoStack \in Seq(States)
  /\ transactionDepth \in 0 .. MaxDepth
  /\ transactionChanged \in BOOLEAN
  /\ revision \in 0 .. MaxRevision

(* The document as the user's history sees it: a gesture in progress does   *)
(* not show until its outermost transaction ends.                           *)
committedState == IF transactionDepth > 0 THEN pendingUndo ELSE current

(* The two stacks, the captured state and the nesting count implement a     *)
(* linear history with a cursor: a gesture, however many edits and nested   *)
(* transactions it is made of, is one entry, and undo and redo are inverse. *)
History ==
  INSTANCE EditHistory
    WITH versions <- undoStack \o <<committedState>> \o Reverse(redoStack),
         cursor <- Len(undoStack) + 1,
         announced <- published

ImplementsHistory == History!HistorySpec
=============================================================================
