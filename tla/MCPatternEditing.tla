--------------------------- MODULE MCPatternEditing -------------------------
(* Two pattern contents and two project settings, one undo entry, nested    *)
(* transactions; the initial snapshot and three changes.                    *)
EXTENDS PatternEditing

CONSTANTS silent, drums, straight, swung

MCPatternValues == {silent, drums}
MCProjectValues == {straight, swung}
MCDefaultState == [pattern |-> silent, project |-> straight]
=============================================================================
