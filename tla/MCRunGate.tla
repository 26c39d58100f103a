------------------------------ MODULE MCRunGate ------------------------------
(* Nothing, a dangerous update with a placeholder, and two statements of   *)
(* which one has a placeholder and the other writes.                       *)
EXTENDS RunGate, TLC

CONSTANTS a, b, p1, p2

st(class, where, holes) == [class |-> class, where |-> where, holes |-> holes]

MCTexts == {<<>>,
            <<st("update", FALSE, TRUE)>>,
            <<st("select", TRUE, TRUE), st("write", FALSE, FALSE)>>}

GateSymmetry == Permutations({a, b}) \cup Permutations({p1, p2})
=============================================================================
