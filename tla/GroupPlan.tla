------------------------------ MODULE GroupPlan ------------------------------
(***************************************************************************)
(* Compilation of resolution groups: Plan.compileResolutionGroups turns    *)
(* the bindings of a plan, in declaration order, into groups with their    *)
(* barriers and members, or refuses the plan.  One action is one iteration *)
(* of a loop or one call of the recursive visit.                           *)
(*                                                                         *)
(* A binding is a record; a reference is a path or an alias.  The place a  *)
(* binding writes is the set of leaf fields below its path, so two paths   *)
(* overlap when the sets meet.                                             *)
(***************************************************************************)
EXTENDS Naturals, Sequences, SequencesExt

CONSTANT Ungrouped  \* the group of a binding without ResolutionGroup

VARIABLES
  decl,     \* the bindings
  verdict,  \* "none", "members" and "search" in the two loops, "ok" or "refused"
  groups,   \* the groups, as far as they are compiled
  past,     \* how many bindings the loop over the bindings is past
  current,  \* the group whose members are searched for cycles, 0 before the first
  tried,    \* how many members of it were visited from the loop
  calls,    \* the calls of visit in progress
  tries,    \* per binding, how many prerequisites its call of visit is past
  visiting, visited

search == <<current, tried, calls, tries, visiting, visited>>

Init ==
  /\ verdict = "none" /\ groups = << >> /\ past = 0
  /\ current = 0 /\ tried = 0 /\ calls = << >> /\ tries = << >>
  /\ visiting = {} /\ visited = {}

Indexes == DOMAIN decl
Grouped(i) == decl[i].group # Ungrouped

-----------------------------------------------------------------------------
(* References.                                                             *)

AmbiguousAlias ==
  \E i, j \in Indexes : i # j /\ decl[i].alias # "" /\ decl[i].alias = decl[j].alias

\* A path wins over an alias.
Meant(n) ==
  LET byPath == {i \in Indexes : decl[i].path = n}
  IN  IF byPath # {} THEN byPath ELSE {i \in Indexes : n # "" /\ decl[i].alias = n}

\* The binding a reference means, 0 for none.
Canonical(n) == IF Meant(n) = {} THEN 0 ELSE CHOOSE i \in Meant(n) : TRUE

CanonicalAll(names) == [k \in DOMAIN names |-> Canonical(names[k])]

\* Barriers are other bindings outside every group, each named once.
Barriers(i, s) ==
  IsInjective(s) /\ \A k \in DOMAIN s : s[k] \notin {0, i} /\ ~Grouped(s[k])

\* Prerequisites are other members of the same group, each named once.
Prerequisites(i, s) ==
  IsInjective(s) /\ \A k \in DOMAIN s : s[k] \notin {0, i} /\ decl[s[k]].group = decl[i].group

ValidMember(i) ==
  /\ decl[i].eligible
  /\ decl[i].mode = "concurrent" => decl[i].after # << >>
  /\ Barriers(i, CanonicalAll(decl[i].after))
  /\ Prerequisites(i, CanonicalAll(decl[i].dependsOn))

-----------------------------------------------------------------------------
(* The loop over the bindings.                                             *)

Refuse == verdict' = "refused" /\ UNCHANGED groups

\* A plan without groups has nothing to compile.
Start ==
  /\ verdict = "none"
  /\ IF \A i \in Indexes : ~Grouped(i) THEN verdict' = "ok" /\ UNCHANGED groups
     ELSE IF AmbiguousAlias THEN Refuse
     ELSE verdict' = "members" /\ UNCHANGED groups
  /\ UNCHANGED <<decl, past, search>>

\* MUTANT of KnownGroup: only the group of the previous member is looked at.
KnownGroupLast(i) == {k \in DOMAIN groups : k = Len(groups) /\ groups[k].name = decl[i].group}

KnownGroup(i) == {k \in DOMAIN groups : groups[k].name = decl[i].group}

\* The group a member opens.
Opened(i) ==
  [ name |-> decl[i].group, mode |-> decl[i].mode, after |-> CanonicalAll(decl[i].after),
    members |-> <<i>> ]

Consistent(group, i) == group.mode = decl[i].mode /\ group.after = CanonicalAll(decl[i].after)

AddMember(i) ==
  \/ /\ KnownGroup(i) = {}
     /\ groups' = Append(groups, Opened(i)) /\ UNCHANGED verdict
  \/ \E k \in KnownGroup(i) :
       IF Consistent(groups[k], i)
       THEN groups' = [groups EXCEPT ![k].members = Append(@, i)] /\ UNCHANGED verdict
       ELSE Refuse

AddBinding ==
  /\ verdict = "members" /\ past < Len(decl) /\ past' = past + 1
  /\ IF ~Grouped(past') THEN UNCHANGED <<verdict, groups>>
     ELSE IF ValidMember(past') THEN AddMember(past')
     ELSE Refuse
  /\ UNCHANGED <<decl, search>>

-----------------------------------------------------------------------------
(* The loop over the groups, with the search for prerequisite cycles.      *)

Overlapping(group) ==
  /\ group.mode = "dependencies"
  /\ \E i, j \in ToSet(group.members) : i # j /\ decl[i].fields \cap decl[j].fields # {}

Searched ==
  \/ verdict = "members" /\ past = Len(decl)
  \/ verdict = "search" /\ calls = << >> /\ tried = Len(groups[current].members)

NextGroup ==
  /\ Searched
  /\ IF current = Len(groups) THEN verdict' = "ok" /\ UNCHANGED search
     ELSE IF Overlapping(groups[current + 1]) THEN verdict' = "refused" /\ UNCHANGED search
     ELSE /\ verdict' = "search" /\ current' = current + 1
          /\ tried' = 0 /\ tries' = [i \in Indexes |-> 0]
          /\ visiting' = {} /\ visited' = {} /\ UNCHANGED calls
  /\ UNCHANGED <<decl, groups, past>>

\* The call of visit: a member on the path is a cycle, a visited one is done.
Call(i) ==
  IF i \in visiting THEN verdict' = "refused" /\ UNCHANGED <<calls, visiting>>
  ELSE IF i \in visited THEN UNCHANGED <<verdict, calls, visiting>>
  ELSE calls' = Append(calls, i) /\ visiting' = visiting \cup {i} /\ UNCHANGED verdict

\* MUTANT of Leave: a member stays on the path after its prerequisites.
LeaveOnPath(i) == calls' = Front(calls) /\ visited' = visited \cup {i} /\ UNCHANGED visiting

Leave(i) == calls' = Front(calls) /\ visited' = visited \cup {i} /\ visiting' = visiting \ {i}

VisitMember ==
  /\ verdict = "search" /\ calls = << >> /\ tried < Len(groups[current].members)
  /\ tried' = tried + 1 /\ Call(groups[current].members[tried'])
  /\ UNCHANGED <<decl, groups, past, current, tries, visited>>

\* The loop of the last call over its member's prerequisites.
Visit ==
  /\ verdict = "search" /\ calls # << >>
  /\ LET i == Last(calls)
     IN  \/ /\ tries[i] < Len(decl[i].dependsOn) /\ tries' = [tries EXCEPT ![i] = @ + 1]
            /\ Call(Canonical(decl[i].dependsOn[tries'[i]])) /\ UNCHANGED visited
         \/ tries[i] = Len(decl[i].dependsOn) /\ Leave(i) /\ UNCHANGED <<verdict, tries>>
  /\ UNCHANGED <<decl, groups, past, current, tried>>

Compile == Start \/ AddBinding \/ NextGroup \/ VisitMember \/ Visit

-----------------------------------------------------------------------------
(* Properties.                                                             *)

\* Every reference of a list means one binding other than i, a different one
\* each, of the wanted kind.
Refers(i, names, Wanted(_)) ==
  /\ \A k \in DOMAIN names : \E j \in Indexes \ {i} : Meant(names[k]) = {j} /\ Wanted(j)
  /\ \A k, l \in DOMAIN names : k # l => Meant(names[k]) # Meant(names[l])

Peers(i, j) == Grouped(i) /\ decl[j].group = decl[i].group

Needs(i, j) == Grouped(i) /\ \E n \in ToSet(decl[i].dependsOn) : j \in Meant(n)

\* There is a cycle exactly if some bindings all need one of their number.
NoCycle ==
  \A S \in (SUBSET Indexes) \ {{}} : \E i \in S : \A j \in S : ~Needs(i, j)

\* What a plan with groups has to satisfy, whatever the order of declaration.
WellFormed ==
  /\ \A i, j \in Indexes : i # j /\ decl[i].alias # "" => decl[i].alias # decl[j].alias
  /\ \A i \in Indexes : Grouped(i) =>
       /\ decl[i].eligible
       /\ decl[i].mode = "concurrent" => decl[i].after # << >>
       /\ Refers(i, decl[i].after, LAMBDA j : ~Grouped(j))
       /\ Refers(i, decl[i].dependsOn, LAMBDA j : Peers(i, j))
  /\ \A i, j \in Indexes : Peers(i, j) /\ i # j =>
       /\ decl[i].mode = decl[j].mode
       /\ [k \in DOMAIN decl[i].after |-> Meant(decl[i].after[k])]
            = [k \in DOMAIN decl[j].after |-> Meant(decl[j].after[k])]
       /\ decl[i].mode = "dependencies" => decl[i].fields \cap decl[j].fields = {}
  /\ NoCycle

\* The groups of a compiled plan partition the grouped bindings, keep their
\* declaration order, hold the prerequisites of their members, and wait for
\* bindings outside every group only, each named once: what a grouped bind relies on
\* to bind each binding once, to open every group and to find a prerequisite in byPath.
GroupsPartition ==
  /\ \A i \in Indexes : Grouped(i) <=> \E k \in DOMAIN groups : i \in ToSet(groups[k].members)
  /\ \A k, l \in DOMAIN groups :
       k # l => ToSet(groups[k].members) \cap ToSet(groups[l].members) = {}
  /\ \A k \in DOMAIN groups :
       /\ \A x, y \in DOMAIN groups[k].members :
            x < y => groups[k].members[x] < groups[k].members[y]
       /\ \A i \in ToSet(groups[k].members), j \in Indexes :
            Needs(i, j) => j \in ToSet(groups[k].members)
       /\ IsInjective(groups[k].after)
       /\ \A b \in ToSet(groups[k].after) : b \in Indexes /\ ~Grouped(b)

\* A plan compiles exactly when it is well formed: the depth-first search finds
\* every prerequisite cycle and takes no diamond for one, references mean what
\* they should under aliases, and the declaration order makes no difference.  What
\* it compiles to is a partition.
CompilesWellFormed ==
  /\ verdict \in {"ok", "refused"} /\ (\E i \in Indexes : Grouped(i)) =>
       (verdict = "ok" <=> WellFormed)
  /\ verdict = "ok" => GroupsPartition
=============================================================================
