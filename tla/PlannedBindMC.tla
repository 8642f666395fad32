---------------------------- MODULE PlannedBindMC ----------------------------
(* Small declarations for TLC. *)
EXTENDS PlannedBind, FiniteSetsExt

Names == <<"a", "b", "c", "d", "e">>

Member(group, mode, after, dependsOn) ==
  [ path |-> "", alias |-> "", group |-> group, mode |-> mode, after |-> after,
    dependsOn |-> dependsOn, eligible |-> TRUE, fields |-> {}, marker |-> {}, priority |-> 0,
    in |-> "", param |-> FALSE ]
Plain(alias) == [Member(Ungrouped, "concurrent", << >>, << >>) EXCEPT !.alias = alias]

\* The bindings of s with paths a, b, ...; each writes a field <<i>> of its own.
Declared(s) == [i \in DOMAIN s |-> [s[i] EXCEPT !.path = Names[i], !.fields = @ \cup {<<i>>}]]
DeclarationsOf(n, S) == {Declared(s) : s \in [1..n -> S]}

-----------------------------------------------------------------------------
(* Declarations that are compiled only.                                    *)

\* Every prerequisite graph over three members, with self references.
ThreePaths == {"a", "b", "c"}
Graphs ==
  DeclarationsOf(3, {Member("g", "dependencies", << >>, SetToSeq(d)) : d \in SUBSET ThreePaths})

\* Two groups and plain bindings that refer to one another by path and by
\* alias; the alias of one may be the path of another.
References ==
  DeclarationsOf(3, {Plain(alias) : alias \in {"", "x", "b"}} \cup
             {Member(group, mode, after, dependsOn) :
                group \in {"g", "h"}, mode \in {"concurrent", "dependencies"},
                after \in {<< >>, <<"x">>, <<"a", "x">>, <<"x", "a">>},
                dependsOn \in {<< >>, <<"a">>, <<"b">>}})

\* Members with a common field, and members that cannot be grouped.
Conflicts ==
  DeclarationsOf(2, {[Member("g", mode, << >>, << >>) EXCEPT !.fields = written, !.eligible = eligible] :
                mode \in {"concurrent", "dependencies"}, written \in {{}, {<<1>>}},
                eligible \in BOOLEAN})

-----------------------------------------------------------------------------
(* Declarations that are bound.                                            *)

\* The markers of the odd bindings are fields <<0, i>> of a common marker record;
\* the binding "whole" binds that record as a whole.
Marked(d, whole) ==
  [i \in DOMAIN d |->
     [d[i] EXCEPT !.marker = IF i % 2 = 1 THEN {<<0, i>>} ELSE {},
                  !.fields = IF i = whole THEN {<<0, j>> : j \in DOMAIN d} ELSE @]]

Late(priority, b) == [b EXCEPT !.priority = priority]

\* Two groups that share a barrier, one with a prerequisite, and a binding more.
TwoGroups(first, second) ==
  Declared(<< Late(2, Plain("")), Member("g", first, <<"a">>, << >>),
              Late(1, Member("g", first, <<"a">>, <<"b">>)),
              Member("h", second, <<"a", "e">>, << >>), Late(1, Plain("")) >>)

\* A group beside bindings of equal priority, without barriers or with both as
\* barriers, the last one first.
OneGroup(after) == Declared(<< Member("g", "dependencies", after, << >>), Plain(""), Plain("") >>)
Afters == {<< >>, <<"c", "b">>}

Modes == {"concurrent", "dependencies"}
BoundDeclarations ==
  {Marked(TwoGroups(first, second), whole) : first, second \in Modes, whole \in {0, 5}}
    \cup {Marked(OneGroup(after), whole) : after \in Afters, whole \in {0, 2}}

-----------------------------------------------------------------------------
(* Declarations whose fields are named.                                    *)

\* Bindings of p in x, of y and of x; a name or a place is that of a field or, z,
\* of a field of one target only.
Places == <<"x.p", "y", "x">>
PlainSources ==
  {[Plain(alias) EXCEPT !.in = in, !.param = param] :
     alias \in {"x", "z", ""}, in \in {"y", "z", ""}, param \in BOOLEAN}

SmallNamed ==
  {[i \in DOMAIN s |-> [s[i] EXCEPT !.path = Places[i], !.fields = {<<i>>}]] :
     s \in [1..2 -> PlainSources] \cup [1..3 -> PlainSources]}

SmallTargets == {{"x", "y"}, {"x", "y", "z"}}
SmallAliases == {<< >>, << <<"y", "y">>, <<"z", "y">> >>}

-----------------------------------------------------------------------------
SmallDeclarations == Graphs \cup References \cup Conflicts \cup BoundDeclarations

\* What the declarations that are bound compile to.
Group(name, mode, after, members) ==
  [name |-> name, mode |-> mode, after |-> after, members |-> members]

SmallPlans ==
  {Linked(Marked(TwoGroups(first, second), whole),
          << Group("g", first, <<1>>, <<2, 3>>), Group("h", second, <<1, 5>>, <<4>>) >>) :
     first, second \in Modes, whole \in {0, 5}}
    \cup {Linked(Marked(OneGroup(after), whole),
                 << Group("g", "dependencies", IF after = << >> THEN << >> ELSE <<3, 2>>, <<1>>) >>) :
            after \in Afters, whole \in {0, 2}}

SmallSelections == UNION {[1..n -> 0..5] : n \in 0..2}

SmallInvocations ==
  {{}} \cup {{"controller"} \cup S : S \in SUBSET {"resolved", "own"}} \cup
  {{"controller", x} : x \in {"replay", "cache", "capture", "kinds", "lease"}}
=============================================================================
