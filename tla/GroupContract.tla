---------------------------- MODULE GroupContract ----------------------------
(***************************************************************************)
(* What a dependency-mode resolution group promises to the caller of Bind  *)
(* and to the controller, without permits, channels, goroutines' phases or *)
(* the order in which results are received (README, Explicit Dependency    *)
(* Groups): members start only after their prerequisites succeeded, no     *)
(* more than Limit run, nothing starts after cancellation, every member is *)
(* settled before the run is closed, and the verdict is nil only when all  *)
(* members succeeded.                                                      *)
(***************************************************************************)
EXTENDS Naturals, FiniteSets

CONSTANTS Members, Limit, Plans

VARIABLES
  dependsOn,  \* the prerequisite graph
  phase,      \* phase[m]: waiting, running, succeeded, failed, skipped
  cancelled,  \* the group's context is canceled
  verdict     \* open, then what was decided, then what Bind returned

vars == <<dependsOn, phase, cancelled, verdict>>

Phases == {"waiting", "running", "succeeded", "failed", "skipped"}
Settled == {"succeeded", "failed", "skipped"}

Init ==
  /\ dependsOn \in Plans
  /\ phase = [m \in Members |-> "waiting"]
  /\ cancelled = FALSE
  /\ verdict = "open"

Start(m) ==
  /\ phase[m] = "waiting"
  /\ ~cancelled
  /\ \A p \in dependsOn[m] : phase[p] = "succeeded"
  /\ Cardinality({w \in Members : phase[w] = "running"}) < Limit
  /\ phase' = [phase EXCEPT ![m] = "running"]
  /\ UNCHANGED <<dependsOn, cancelled, verdict>>

Finish(m) ==
  /\ phase[m] = "running"
  /\ \E s \in {"succeeded", "failed"} : phase' = [phase EXCEPT ![m] = s]
  /\ UNCHANGED <<dependsOn, cancelled, verdict>>

\* A skip may itself cancel the group: its observation can fail.
Skip(m) ==
  /\ phase[m] = "waiting"
  /\ cancelled \/ \E p \in dependsOn[m] : phase[p] \in {"failed", "skipped"}
  /\ phase' = [phase EXCEPT ![m] = "skipped"]
  /\ cancelled' \in {cancelled, TRUE}
  /\ UNCHANGED <<dependsOn, verdict>>

Cancel ==
  /\ ~cancelled
  /\ cancelled' = TRUE
  /\ UNCHANGED <<dependsOn, phase, verdict>>

Decide ==
  /\ verdict = "open"
  /\ \A m \in Members : phase[m] \in Settled
  /\ verdict' = IF ~cancelled /\ \A m \in Members : phase[m] = "succeeded"
                THEN "decided nil" ELSE "decided error"
  /\ cancelled' = TRUE
  /\ UNCHANGED <<dependsOn, phase>>

Close ==
  /\ verdict \in {"decided nil", "decided error"}
  /\ verdict' \in IF verdict = "decided nil" THEN {"nil", "error"} ELSE {"error"}
  /\ UNCHANGED <<dependsOn, phase, cancelled>>

Next ==
  \/ \E m \in Members : Start(m) \/ Finish(m) \/ Skip(m)
  \/ Cancel \/ Decide \/ Close

Spec == Init /\ [][Next]_vars
=============================================================================
