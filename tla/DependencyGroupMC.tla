-------------------------- MODULE DependencyGroupMC --------------------------
(* Groups of three members for TLC. *)
EXTENDS DependencyGroup

\* The graphs on three members up to renaming and to edges that follow from
\* others, with prerequisites declared first, and two declared the other way round, which need further rounds of
\* the coordinator's scan.  Without edges three members compete for two permits.
ShapedPlans == {
  <<{}, {}, {}>>, <<{}, {1}, {}>>, <<{}, {1}, {2}>>,
  <<{}, {1}, {1}>>, <<{}, {}, {1, 2}>>,
  <<{2}, {3}, {}>>, <<{2, 3}, {}, {}>>}

\* Member 1, a prerequisite in most graphs, has a presence marker whose write may
\* fail; the field of member 2 may be out of reach.
Writes == <<{"ok", "marker"}, {"ok", "field"}, {"ok"}>>
=============================================================================
