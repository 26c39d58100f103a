----------------------------- MODULE MCMetadata -----------------------------
(* One connection: the cache keeps the entries of two apart, and an answer *)
(* for another one stops the spinner no differently from an early answer,  *)
(* or a failed connect, of the same.  Three commands, so that two fetches  *)
(* overlap and a third, alone, settles the entry; two versions to tell an  *)
(* old schema from a new one.                                              *)
EXTENDS Metadata

CONSTANTS c1
=============================================================================
