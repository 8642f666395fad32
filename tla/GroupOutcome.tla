----------------------------- MODULE GroupOutcome -----------------------------
(***************************************************************************)
(* What a run of a resolution group comes to, for the bind that waits for  *)
(* it: which members were attempted, which of them published, and whether  *)
(* the group returned an error.  GroupedBind takes such an outcome in one  *)
(* step; GroupStep says that a run is this one step, and nothing before or *)
(* after it.                                                               *)
(***************************************************************************)

\* A group in dependency mode returns nil only after it attempted every
\* member; in the default mode its controller may deny some.
Outcomes(members, mode) ==
    {o \in [attempted : SUBSET members, published : SUBSET members, error : BOOLEAN] :
        /\ o.published \subseteq o.attempted
        /\ mode = "dependencies" /\ ~o.error => o.attempted = members}
=============================================================================
