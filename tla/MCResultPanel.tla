--------------------------- MODULE MCResultPanel ---------------------------
(* Two tables for a view to be mistaken for the other, two runs for one    *)
(* result to arrive on top of the other, and as many fetches.              *)
EXTENDS ResultPanel

CONSTANTS orders, users, c1, c2, f
=============================================================================
