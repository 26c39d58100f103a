--------------------------- MODULE MCConnections ---------------------------
(***************************************************************************)
(* Connections for TLC: an SSH connection and a plain one, two host keys.  *)
(***************************************************************************)
EXTENDS Connections, TLC

CONSTANTS a, b, k1, k2

KeySymmetry == Permutations(Keys)
=============================================================================
