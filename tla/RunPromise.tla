----------------------------- MODULE RunPromise -----------------------------
(***************************************************************************)
(* What the query controller promises about runs, whatever commands arrive *)
(* and however the database behaves.  A run is started in the order of its *)
(* number, only while no other run is live; a live run may be told to      *)
(* stop, and a run that was told to stop ends.  Nothing is said about how  *)
(* a run is executed or reported: that is QueryLifecycle.                  *)
(***************************************************************************)
EXTENDS Naturals

CONSTANT MaxRuns

Run == 1 .. MaxRuns

VARIABLE phase

Phases == {"none", "live", "stopping", "over"}

TypeOK == phase \in [Run -> Phases]

Init == phase = [r \in Run |-> "none"]

Move(r, from, to) ==
    /\ phase[r] \in from
    /\ phase' = [phase EXCEPT ![r] = to]

Start(r) ==
    /\ \A p \in Run : phase[p] # "live"
    /\ \A p \in Run : p < r => phase[p] # "none"
    /\ Move(r, {"none"}, "live")

Stop(r) == Move(r, {"live"}, "stopping")

End(r) == Move(r, {"live", "stopping"}, "over")

Next == \E r \in Run : Start(r) \/ Stop(r) \/ End(r)

(* The safety part, and the whole promise: a run told to stop ends even if *)
(* the database never answers it.                                          *)
SafeSpec == Init /\ [][Next]_phase

StopsWhenTold(r) == Move(r, {"stopping"}, "over")

Spec == SafeSpec /\ \A r \in Run : WF_phase(StopsWhenTold(r))

(* Two runs are never live together: one Cancel reaches everything that is *)
(* executing.                                                              *)
AtMostOneLive ==
    \A p, r \in Run : phase[p] = "live" /\ phase[r] = "live" => p = r
=============================================================================
