------------------------ MODULE ResolutionSchedulerMC ------------------------
(* Small nestings for TLC. *)
EXTENDS ResolutionScheduler

CONSTANTS a, b, c, d

\* Two descendants of one member compete for two permits with an independent
\* member; and a chain of three, whose ancestors alone could take both permits, beside an
\* independent member.
SmallForests ==
  { [t \in Tasks |-> CASE t \in {c, d} -> a [] OTHER -> Nothing],
    [t \in Tasks |-> CASE t = b -> a [] t = c -> b [] OTHER -> Nothing] }
=============================================================================
