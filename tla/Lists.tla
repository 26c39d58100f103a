------------------------------- MODULE Lists --------------------------------
(***************************************************************************)
(* Parts of a list.                                                        *)
(***************************************************************************)
EXTENDS Integers, Sequences, FiniteSets, SequencesExt

(* What a list has from i on to before j.                                  *)
Upto(t, i, j) == SubSeq(t, i, j - 1)

(* The numbers of S up to n in order, and what a list has at them.         *)
Ascending(S, n) ==
    LET from[i \in 1 .. n + 1] ==
          IF i > n THEN <<>>
          ELSE (IF i \in S THEN <<i>> ELSE <<>>) \o from[i + 1]
    IN  from[1]

Kept(list, S) == LET at == Ascending(S, Len(list)) IN [k \in DOMAIN at |-> list[at[k]]]
=============================================================================
