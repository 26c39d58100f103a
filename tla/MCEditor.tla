------------------------------ MODULE MCEditor ------------------------------
(* Three tabs are enough for a table view between two SQL tabs, and two    *)
(* texts besides the empty one for a snapshot that is of the wrong tab; a  *)
(* stack of one loses its oldest entry at the second edit.                 *)
EXTENDS Editor, TLC

CONSTANTS a, b, orders

EditorSymmetry == Permutations({a, b})

(* What is on disk cannot matter when no start is left to read it.         *)
Memory == <<run, starts, tabVars, undoVars, uiVars, format, ghostVars, edits>>
EditorView == IF starts = MaxStarts THEN Memory ELSE <<Memory, diskVars>>
=============================================================================
