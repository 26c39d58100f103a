-------------------------- MODULE MCQueryLifecycle --------------------------
(***************************************************************************)
(* QueryLifecycle for TLC.  Two runs are enough for one to supersede the   *)
(* other, two statements for a RunAll to be stopped half-way, and two      *)
(* slots for a sender to find the channel full and for two senders to      *)
(* race; the .cfg files give the values.                                   *)
(***************************************************************************)
EXTENDS QueryLifecycle
=============================================================================
