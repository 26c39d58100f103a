---------------------------- MODULE UndoHistory ----------------------------
(***************************************************************************)
(* What an undo stack promises: the states before the actions done, the    *)
(* present one, and the states after the actions undone, in one line.      *)
(* Undo brings back exactly the state before the last action, redo exactly *)
(* the one it left; a new action cuts the states undone off; at most Max   *)
(* of them are remembered, and the oldest goes first.  Nothing is promised *)
(* once the state was changed behind the stack's back, until the stack is  *)
(* started anew.                                                           *)
(***************************************************************************)
EXTENDS Naturals, Sequences

CONSTANTS State, Max

VARIABLES past, present, future, intact

line == <<past, present, future, intact>>

Last(s)  == s[Len(s)]
Front(s) == SubSeq(s, 1, Len(s) - 1)
Capped(s) == IF Len(s) > Max THEN Tail(s) ELSE s

Init == past = <<>> /\ future = <<>> /\ present \in State /\ intact = TRUE

Act ==
    /\ present' \in State
    /\ past' = Capped(Append(past, present)) /\ future' = <<>>
    /\ UNCHANGED intact

Undo ==
    /\ past # <<>>
    /\ present' = Last(past) /\ past' = Front(past) /\ future' = Append(future, present)
    /\ UNCHANGED intact

Redo ==
    /\ future # <<>>
    /\ present' = Last(future) /\ future' = Front(future) /\ past' = Append(past, present)
    /\ UNCHANGED intact

Disturb == ~intact'

StartAnew == past' = <<>> /\ future' = <<>> /\ intact' = TRUE /\ UNCHANGED present

Next == Act \/ Undo \/ Redo \/ Disturb \/ StartAnew

Spec == Init /\ [][Next]_line
=============================================================================
