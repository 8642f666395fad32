------------------------------- MODULE GroupStep -------------------------------
(***************************************************************************)
(* A run of a resolution group as the bind that waits for it sees it: the  *)
(* controller's run is open, and then there is an outcome, which is final. *)
(* No goroutine of the group publishes once the bind has gone on.          *)
(***************************************************************************)
EXTENDS GroupOutcome

CONSTANTS Members, Mode

VARIABLE outcome  \* the outcome, as a set of at most one

Init == outcome = {}
Return ==
  /\ outcome = {} /\ outcome' # {}
  /\ \E o \in Outcomes(Members, Mode) : outcome' = {o}
Spec == Init /\ [][Return]_outcome
=============================================================================
