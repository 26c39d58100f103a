------------------------- MODULE MCConnectionGroups -------------------------
(***************************************************************************)
(* ConnectionGroups for TLC: a connection, two group ids, two names and    *)
(* two colours.                                                            *)
(***************************************************************************)
EXTENDS ConnectionGroups, TLC

CONSTANTS a, g1, g2, n1, n2, o1, o2

GroupSymmetry == Permutations(GroupIds)
=============================================================================
