-------------------------- MODULE PlannedBindProofs --------------------------
(***************************************************************************)
(* Proofs about PlannedBind: compilation, naming and bind of any plan.     *)
(***************************************************************************)
EXTENDS PlannedBind, SequenceTheorems, TLAPS

-----------------------------------------------------------------------------
(* Compilation.                                                            *)

HasGroups == \E i \in Compiler!Indexes : Compiler!Grouped(i)

MembersAt(k) == ToSet(groups[k].members)

Descriptor == [ name : {decl[i].group : i \in Compiler!Indexes},
                mode : {decl[i].mode : i \in Compiler!Indexes},
                after : Seq(Nat), members : Seq(Compiler!Indexes) ]

CompiledType ==
  /\ DeclarationOf(decl)
  /\ verdict \in {"none", "members", "search", "ok", "refused"}
  /\ past \in 0..Len(decl)
  /\ groups \in Seq(Descriptor)
  /\ current \in 0..Len(groups) /\ tried \in Nat
  /\ calls \in Seq(Compiler!Indexes)
  /\ visiting \subseteq Compiler!Indexes /\ visited \subseteq Compiler!Indexes

\* The groups hold the grouped bindings the loop is past, each in its place.
Kept ==
  /\ \A i \in 1..past : Compiler!Grouped(i) =>
       Compiler!ValidMember(i) /\ \E k \in DOMAIN groups : i \in MembersAt(k)
  /\ \A k \in DOMAIN groups : groups[k].members # << >>
  /\ \A k \in DOMAIN groups : \A i \in MembersAt(k) :
       /\ i \in 1..past /\ Compiler!Grouped(i) /\ decl[i].group = groups[k].name
       /\ Compiler!Consistent(groups[k], i)
  /\ \A k \in DOMAIN groups : \A x, y \in DOMAIN groups[k].members :
       x < y => groups[k].members[x] < groups[k].members[y]
  /\ \A k, l \in DOMAIN groups : k # l => groups[k].name # groups[l].name

Collected ==
  /\ verdict = "none" => groups = << >> /\ past = 0
  /\ verdict \in {"none", "members"} => current = 0 /\ calls = << >>
  /\ verdict \in {"members", "search", "refused"} => HasGroups
  /\ verdict = "search" => current # 0
  /\ verdict \in {"search", "ok"} /\ HasGroups => past = Len(decl)
  /\ verdict = "ok" => IF HasGroups THEN current = Len(groups) ELSE groups = << >>
  /\ verdict \in {"members", "search", "ok"} /\ HasGroups => ~Compiler!AmbiguousAlias
  /\ verdict # "refused" => Kept

\* No binding of V starts an endless path of needs within V.
Grounded(V) ==
  \A S \in (SUBSET V) \ {{}} : \E i \in S : \A j \in S : ~Compiler!Needs(i, j)

Verified(k) == ~Compiler!Overlapping(groups[k]) /\ Grounded(MembersAt(k))

Prerequisite(i, m) == Compiler!Canonical(decl[i].dependsOn[m])

\* The search when t members of the group were tried, path is the calls in progress,
\* passed[i] counts the prerequisites the call of i is past, and done is visited.  What
\* is visited needs only what is visited; what is on the path needs the next call,
\* and what its loop is past is visited or that call.
SearchState(t, path, passed, done) ==
  /\ ~Compiler!Overlapping(groups[current])
  /\ t \in 0..Len(groups[current].members)
  /\ path \in Seq(MembersAt(current)) /\ done \subseteq MembersAt(current)
  /\ \A x, y \in DOMAIN path : path[x] = path[y] => x = y
  /\ \A x \in DOMAIN path : path[x] \notin done
  /\ Grounded(done)
  /\ \A i \in done : \A j \in Compiler!Indexes : Compiler!Needs(i, j) => j \in done
  /\ passed \in [Compiler!Indexes -> Nat]
  /\ \A i \in Compiler!Indexes : passed[i] <= Len(decl[i].dependsOn)
  /\ \A i \in Compiler!Indexes \ (ToSet(path) \cup done) : passed[i] = 0
  /\ \A x \in DOMAIN path : \A m \in 1..passed[path[x]] :
       \/ Prerequisite(path[x], m) \in done
       \/ x < Len(path) /\ Prerequisite(path[x], m) = path[x + 1]
  /\ \A x \in 1..(Len(path) - 1) : Compiler!Needs(path[x], path[x + 1])
  /\ \A y \in 1..t : \/ groups[current].members[y] \in done
                     \/ path # << >> /\ groups[current].members[y] = path[1]

Searching ==
  verdict = "search" => visiting = ToSet(calls) /\ SearchState(tried, calls, tries, visited)

CompiledInv ==
  /\ CompiledType /\ Collected /\ Searching
  /\ verdict # "refused" => \A k \in DOMAIN groups : k < current => Verified(k)
  /\ verdict = "ok" => \A k \in DOMAIN groups : Verified(k)
  /\ verdict = "refused" => ~Compiler!WellFormed
-----------------------------------------------------------------------------
(* What references mean.                                                   *)

LEMMA IndexesFrom1 ==
  ASSUME DeclarationOf(decl)
  PROVE  /\ Len(decl) \in Nat /\ Compiler!Indexes = 1..Len(decl)
         /\ \A i \in Compiler!Indexes :
              /\ decl[i].after \in Seq(ToSet(decl[i].after))
              /\ Len(decl[i].after) \in Nat /\ DOMAIN decl[i].after = 1..Len(decl[i].after)
              /\ decl[i].dependsOn \in Seq(ToSet(decl[i].dependsOn))
              /\ Len(decl[i].dependsOn) \in Nat
              /\ DOMAIN decl[i].dependsOn = 1..Len(decl[i].dependsOn)
BY LenProperties DEF DeclarationOf, Compiler!Indexes

\* A name means a binding whose path or alias it is.
LEMMA CanonicalMeant ==
  ASSUME DeclarationOf(decl), NEW n
  PROVE  /\ Compiler!Meant(n) \subseteq Compiler!Indexes
         /\ Compiler!Canonical(n) \in Nat
         /\ Compiler!Canonical(n) = 0 <=> Compiler!Meant(n) = {}
         /\ Compiler!Canonical(n) # 0 => Compiler!Canonical(n) \in Compiler!Meant(n)
<1>1. Compiler!Meant(n) \subseteq Compiler!Indexes
  BY DEF Compiler!Meant
<1>2. \A i \in Compiler!Meant(n) : i \in Nat \ {0}
  BY <1>1, IndexesFrom1
<1>3. Compiler!Meant(n) # {} => Compiler!Canonical(n) \in Compiler!Meant(n)
  BY DEF Compiler!Canonical
<1>4. Compiler!Meant(n) = {} => Compiler!Canonical(n) = 0
  BY DEF Compiler!Canonical
<1> QED
  BY <1>1, <1>2, <1>3, <1>4

\* Without an ambiguous alias it means one at most.
LEMMA MeantOnce ==
  ASSUME DeclarationOf(decl), ~Compiler!AmbiguousAlias, NEW n
  PROVE  /\ \A a, b \in Compiler!Meant(n) : a = b
         /\ Compiler!Canonical(n) # 0 => Compiler!Meant(n) = {Compiler!Canonical(n)}
<1>1. \A a, b \in Compiler!Indexes : decl[a].path = decl[b].path => a = b
  BY DEF DeclarationOf, Compiler!Indexes
<1>2. \A a, b \in Compiler!Indexes :
        decl[a].alias = n /\ decl[b].alias = n /\ n # "" => a = b
  BY DEF Compiler!AmbiguousAlias
<1>3. \A a, b \in Compiler!Meant(n) : a = b
  BY <1>1, <1>2 DEF Compiler!Meant
<1> QED
  BY <1>3, CanonicalMeant

LEMMA CanonicalsOf ==
  ASSUME DeclarationOf(decl), NEW s, s \in Seq(ToSet(s))
  PROVE  /\ Compiler!CanonicalAll(s) \in Seq(Nat)
         /\ DOMAIN Compiler!CanonicalAll(s) = DOMAIN s /\ DOMAIN s = 1..Len(s) /\ Len(s) \in Nat
         /\ \A k \in DOMAIN s : Compiler!CanonicalAll(s)[k] = Compiler!Canonical(s[k])
<1>1. DOMAIN s = 1..Len(s) /\ Len(s) \in Nat
  BY LenProperties
<1>2. \A k \in DOMAIN s : Compiler!Canonical(s[k]) \in Nat
  BY CanonicalMeant
<1> QED
  BY <1>1, <1>2 DEF Compiler!CanonicalAll

\* A list of references is accepted as barriers, or as prerequisites, exactly if
\* each of them means one binding of the wanted kind.
LEMMA BarriersRefer ==
  ASSUME DeclarationOf(decl), ~Compiler!AmbiguousAlias,
         NEW i \in Compiler!Indexes, NEW s, s \in Seq(ToSet(s))
  PROVE  Compiler!Barriers(i, Compiler!CanonicalAll(s))
           <=> Compiler!Refers(i, s, LAMBDA j : ~Compiler!Grouped(j))
<1> DEFINE c(k) == Compiler!Canonical(s[k])
           M(k) == Compiler!Meant(s[k])
           C == Compiler!CanonicalAll(s)
<1>0. DOMAIN C = DOMAIN s /\ \A k \in DOMAIN s : C[k] = c(k)
  BY CanonicalsOf
<1>1. \A k \in DOMAIN s : /\ M(k) \subseteq Compiler!Indexes
                          /\ c(k) = 0 <=> M(k) = {}
                          /\ c(k) # 0 => M(k) = {c(k)}
  BY CanonicalMeant, MeantOnce
<1>2. \A k \in DOMAIN s :
        (c(k) \notin {0, i} /\ ~Compiler!Grouped(c(k)))
          <=> \E j \in Compiler!Indexes \ {i} : M(k) = {j} /\ ~Compiler!Grouped(j)
  BY <1>1
<1>3. (\A k \in DOMAIN s : c(k) # 0) =>
        \A k, l \in DOMAIN s : (c(k) = c(l) => k = l) <=> (k # l => M(k) # M(l))
  BY <1>1
<1>4. Compiler!Barriers(i, Compiler!CanonicalAll(s))
        <=> /\ \A k, l \in DOMAIN s : c(k) = c(l) => k = l
            /\ \A k \in DOMAIN s : c(k) \notin {0, i} /\ ~Compiler!Grouped(c(k))
  <2> HIDE DEF c, C
  <2> QED  BY <1>0 DEF Compiler!Barriers, Compiler!IsInjective, C
<1>5. Compiler!Refers(i, s, LAMBDA j : ~Compiler!Grouped(j))
        <=> /\ \A k \in DOMAIN s :
                 \E j \in Compiler!Indexes \ {i} : M(k) = {j} /\ ~Compiler!Grouped(j)
            /\ \A k, l \in DOMAIN s : k # l => M(k) # M(l)
  BY DEF Compiler!Refers
<1> HIDE DEF c, M
<1> QED
  BY <1>2, <1>3, <1>4, <1>5

LEMMA PrerequisitesRefer ==
  ASSUME DeclarationOf(decl), ~Compiler!AmbiguousAlias,
         NEW i \in Compiler!Indexes, Compiler!Grouped(i), NEW s, s \in Seq(ToSet(s))
  PROVE  Compiler!Prerequisites(i, Compiler!CanonicalAll(s))
           <=> Compiler!Refers(i, s, LAMBDA j : Compiler!Peers(i, j))
<1> DEFINE c(k) == Compiler!Canonical(s[k])
           M(k) == Compiler!Meant(s[k])
           C == Compiler!CanonicalAll(s)
<1>0. DOMAIN C = DOMAIN s /\ \A k \in DOMAIN s : C[k] = c(k)
  BY CanonicalsOf
<1>1. \A k \in DOMAIN s : /\ M(k) \subseteq Compiler!Indexes
                          /\ c(k) = 0 <=> M(k) = {}
                          /\ c(k) # 0 => M(k) = {c(k)}
  BY CanonicalMeant, MeantOnce
<1>2. \A k \in DOMAIN s :
        (c(k) \notin {0, i} /\ Compiler!Peers(i, c(k)))
          <=> \E j \in Compiler!Indexes \ {i} : M(k) = {j} /\ Compiler!Peers(i, j)
  BY <1>1
<1>3. (\A k \in DOMAIN s : c(k) # 0) =>
        \A k, l \in DOMAIN s : (c(k) = c(l) => k = l) <=> (k # l => M(k) # M(l))
  BY <1>1
<1>4. Compiler!Prerequisites(i, Compiler!CanonicalAll(s))
        <=> /\ \A k, l \in DOMAIN s : c(k) = c(l) => k = l
            /\ \A k \in DOMAIN s : c(k) \notin {0, i} /\ Compiler!Peers(i, c(k))
  <2> HIDE DEF c, C
  <2> QED  BY <1>0 DEF Compiler!Prerequisites, Compiler!Peers, Compiler!IsInjective, C
<1>5. Compiler!Refers(i, s, LAMBDA j : Compiler!Peers(i, j))
        <=> /\ \A k \in DOMAIN s :
                 \E j \in Compiler!Indexes \ {i} : M(k) = {j} /\ Compiler!Peers(i, j)
            /\ \A k, l \in DOMAIN s : k # l => M(k) # M(l)
  BY DEF Compiler!Refers
<1> HIDE DEF c, M
<1> QED
  BY <1>2, <1>3, <1>4, <1>5

\* What the prerequisites of a valid member are, and that it needs nothing else.
LEMMA ValidNeeds ==
  ASSUME DeclarationOf(decl), ~Compiler!AmbiguousAlias,
         NEW i \in Compiler!Indexes, Compiler!Grouped(i), Compiler!ValidMember(i)
  PROVE  /\ \A m \in 1..Len(decl[i].dependsOn) :
              /\ Prerequisite(i, m) \in Compiler!Indexes \ {i}
              /\ decl[Prerequisite(i, m)].group = decl[i].group
              /\ Compiler!Needs(i, Prerequisite(i, m))
         /\ \A j : Compiler!Needs(i, j) =>
              \E m \in 1..Len(decl[i].dependsOn) : j = Prerequisite(i, m)
<1> DEFINE d == decl[i].dependsOn
<1>1. d \in Seq(ToSet(d)) /\ DOMAIN d = 1..Len(d)
  BY IndexesFrom1
<1>2. \A m \in DOMAIN d :
        Prerequisite(i, m) \notin {0, i} /\ decl[Prerequisite(i, m)].group = decl[i].group
  BY <1>1, CanonicalsOf DEF Compiler!ValidMember, Compiler!Prerequisites, Prerequisite
<1>3. \A m \in DOMAIN d : Compiler!Meant(d[m]) = {Prerequisite(i, m)}
                          /\ Prerequisite(i, m) \in Compiler!Indexes
  <2> SUFFICES ASSUME NEW m \in DOMAIN d
               PROVE  /\ Compiler!Meant(d[m]) = {Prerequisite(i, m)}
                      /\ Prerequisite(i, m) \in Compiler!Indexes
    OBVIOUS
  <2>1. Compiler!Canonical(d[m]) # 0
    BY <1>2 DEF Prerequisite
  <2> QED
    BY <2>1, MeantOnce, CanonicalMeant DEF Prerequisite
<1>4. Compiler!ToSet(d) = {d[m] : m \in DOMAIN d}
  BY DEF Compiler!ToSet
<1>5. \A m \in DOMAIN d : d[m] \in Compiler!ToSet(d) /\ Compiler!Needs(i, Prerequisite(i, m))
  BY <1>3, <1>4 DEF Compiler!Needs
<1>6. ASSUME NEW j, Compiler!Needs(i, j)  PROVE \E m \in DOMAIN d : j = Prerequisite(i, m)
  BY <1>3, <1>4, <1>6 DEF Compiler!Needs, Prerequisite
<1> HIDE DEF d
<1> QED
  BY <1>1, <1>2, <1>3, <1>5, <1>6 DEF d

-----------------------------------------------------------------------------
(* What makes a declaration well formed, and what keeps it from being so.  *)

LEMMA ValidMembers ==
  ASSUME DeclarationOf(decl), ~Compiler!AmbiguousAlias,
         NEW i \in Compiler!Indexes, Compiler!Grouped(i)
  PROVE  Compiler!ValidMember(i) <=>
           /\ decl[i].eligible
           /\ decl[i].mode = "concurrent" => decl[i].after # << >>
           /\ Compiler!Refers(i, decl[i].after, LAMBDA j : ~Compiler!Grouped(j))
           /\ Compiler!Refers(i, decl[i].dependsOn, LAMBDA j : Compiler!Peers(i, j))
<1>1. /\ decl[i].after \in Seq(ToSet(decl[i].after))
      /\ decl[i].dependsOn \in Seq(ToSet(decl[i].dependsOn))
  BY IndexesFrom1
<1>2. Compiler!Barriers(i, Compiler!CanonicalAll(decl[i].after))
        <=> Compiler!Refers(i, decl[i].after, LAMBDA j : ~Compiler!Grouped(j))
  BY <1>1, BarriersRefer
<1>3. Compiler!Prerequisites(i, Compiler!CanonicalAll(decl[i].dependsOn))
        <=> Compiler!Refers(i, decl[i].dependsOn, LAMBDA j : Compiler!Peers(i, j))
  BY <1>1, PrerequisitesRefer
<1> QED
  BY <1>2, <1>3 DEF Compiler!ValidMember

LEMMA AmbiguousBreaks ==
  ASSUME Compiler!AmbiguousAlias  PROVE ~Compiler!WellFormed
BY DEF Compiler!AmbiguousAlias, Compiler!WellFormed

LEMMA InvalidBreaks ==
  ASSUME DeclarationOf(decl), ~Compiler!AmbiguousAlias,
         NEW i \in Compiler!Indexes, Compiler!Grouped(i), ~Compiler!ValidMember(i)
  PROVE  ~Compiler!WellFormed
BY ValidMembers DEF Compiler!WellFormed

\* Lists of references mean the same when they name the same bindings in order.
LEMMA SameReferences ==
  ASSUME DeclarationOf(decl), NEW s, NEW t, s \in Seq(ToSet(s)), t \in Seq(ToSet(t))
  PROVE  LET M(u) == [k \in DOMAIN u |-> Compiler!Meant(u[k])]
             C(u) == Compiler!CanonicalAll(u)
         IN  /\ M(s) = M(t) => C(s) = C(t)
             /\ (C(s) = C(t) /\ ~Compiler!AmbiguousAlias /\ \A k \in DOMAIN s : C(s)[k] # 0) => M(s) = M(t)
<1> DEFINE M(u) == [k \in DOMAIN u |-> Compiler!Meant(u[k])]
           C(u) == Compiler!CanonicalAll(u)
<1>1. ASSUME M(s) = M(t)  PROVE C(s) = C(t)
  <2>1. DOMAIN s = DOMAIN t /\ \A k \in DOMAIN s : Compiler!Meant(s[k]) = Compiler!Meant(t[k])
    <3>1. DOMAIN s = DOMAIN M(s) /\ DOMAIN t = DOMAIN M(t)
      OBVIOUS
    <3>2. \A k \in DOMAIN s : M(s)[k] = Compiler!Meant(s[k])
      OBVIOUS
    <3>3. \A k \in DOMAIN t : M(t)[k] = Compiler!Meant(t[k])
      OBVIOUS
    <3> HIDE DEF M
    <3> QED
      BY <1>1, <3>1, <3>2, <3>3
  <2>2. \A k \in DOMAIN s : Compiler!Canonical(s[k]) = Compiler!Canonical(t[k])
    <3> SUFFICES ASSUME NEW n, NEW m, Compiler!Meant(n) = Compiler!Meant(m)
                 PROVE  Compiler!Canonical(n) = Compiler!Canonical(m)
      BY <2>1
    <3> QED
      BY DEF Compiler!Canonical
  <2> QED
    BY <2>1, <2>2 DEF Compiler!CanonicalAll
<1>2. ASSUME C(s) = C(t), ~Compiler!AmbiguousAlias, \A k \in DOMAIN s : C(s)[k] # 0
      PROVE  M(s) = M(t)
  <2>1. DOMAIN s = DOMAIN t
        /\ \A k \in DOMAIN s : /\ Compiler!Canonical(s[k]) = Compiler!Canonical(t[k])
                               /\ Compiler!Canonical(s[k]) # 0
    <3>1. DOMAIN C(s) = DOMAIN s /\ DOMAIN C(t) = DOMAIN t
      BY CanonicalsOf
    <3>2. \A k \in DOMAIN s : C(s)[k] = Compiler!Canonical(s[k])
      BY CanonicalsOf
    <3>3. \A k \in DOMAIN t : C(t)[k] = Compiler!Canonical(t[k])
      BY CanonicalsOf
    <3> HIDE DEF C
    <3> QED
      BY <1>2, <3>1, <3>2, <3>3
  <2>2. \A k \in DOMAIN s : Compiler!Meant(s[k]) = Compiler!Meant(t[k])
    BY <1>2, <2>1, MeantOnce
  <2> QED
    BY <2>1, <2>2
<1> QED
  BY <1>1, <1>2

\* Two members of one group that differ in mode or in barriers.
LEMMA InconsistentBreaks ==
  ASSUME DeclarationOf(decl), NEW i \in Compiler!Indexes, NEW j \in Compiler!Indexes,
         i # j, Compiler!Peers(i, j),
         \/ decl[i].mode # decl[j].mode
         \/ Compiler!CanonicalAll(decl[i].after) # Compiler!CanonicalAll(decl[j].after)
  PROVE  ~Compiler!WellFormed
<1>1. /\ decl[i].after \in Seq(ToSet(decl[i].after))
      /\ decl[j].after \in Seq(ToSet(decl[j].after))
  BY IndexesFrom1
<1>2. [k \in DOMAIN decl[i].after |-> Compiler!Meant(decl[i].after[k])]
        = [k \in DOMAIN decl[j].after |-> Compiler!Meant(decl[j].after[k])]
      => Compiler!CanonicalAll(decl[i].after) = Compiler!CanonicalAll(decl[j].after)
  BY <1>1, SameReferences
<1> QED
  BY <1>2 DEF Compiler!WellFormed

-----------------------------------------------------------------------------
(* A plan whose groups were all collected and verified.                    *)

LEMMA GroupsTyped ==
  ASSUME CompiledType
  PROVE  /\ DOMAIN groups = 1..Len(groups) /\ Len(groups) \in Nat
         /\ \A k \in DOMAIN groups :
              /\ groups[k].members \in Seq(Compiler!Indexes)
              /\ DOMAIN groups[k].members = 1..Len(groups[k].members)
              /\ Len(groups[k].members) \in Nat
              /\ MembersAt(k) \subseteq Compiler!Indexes
<1>1. DOMAIN groups = 1..Len(groups) /\ Len(groups) \in Nat
  BY LenProperties DEF CompiledType
<1>2. ASSUME NEW k \in DOMAIN groups
      PROVE  /\ groups[k].members \in Seq(Compiler!Indexes)
             /\ DOMAIN groups[k].members = 1..Len(groups[k].members)
             /\ Len(groups[k].members) \in Nat
             /\ MembersAt(k) \subseteq Compiler!Indexes
  <2>1. groups[k].members \in Seq(Compiler!Indexes)
    <3>1. groups[k] \in Descriptor
      BY <1>1, ElementOfSeq DEF CompiledType
    <3> QED
      BY <3>1 DEF Descriptor
  <2> QED
    BY <2>1, LenProperties, ElementOfSeq DEF MembersAt, ToSet
<1> QED
  BY <1>1, <1>2

\* Where the members of one group are.
LEMMA PeersTogether ==
  ASSUME CompiledType, Kept, past = Len(decl),
         NEW i \in Compiler!Indexes, NEW j \in Compiler!Indexes, Compiler!Peers(i, j)
  PROVE  /\ Compiler!Grouped(i) /\ Compiler!ValidMember(i)
         /\ Compiler!Grouped(j) /\ Compiler!ValidMember(j)
         /\ \E k \in DOMAIN groups : {i, j} \subseteq MembersAt(k)
<1>1. Compiler!Grouped(i) /\ Compiler!Grouped(j) /\ decl[i].group = decl[j].group
  BY DEF Compiler!Peers, Compiler!Grouped
<1>2. i \in 1..past /\ j \in 1..past
  BY IndexesFrom1 DEF CompiledType
<1>3. /\ Compiler!ValidMember(i) /\ Compiler!ValidMember(j)
      /\ \E k \in DOMAIN groups : i \in MembersAt(k)
      /\ \E k \in DOMAIN groups : j \in MembersAt(k)
  BY <1>1, <1>2 DEF Kept
<1>4. PICK k \in DOMAIN groups : i \in MembersAt(k)
  BY <1>3
<1>5. PICK l \in DOMAIN groups : j \in MembersAt(l)
  BY <1>3
<1>6. groups[k].name = groups[l].name
  BY <1>1, <1>4, <1>5 DEF Kept
<1> QED
  BY <1>1, <1>3, <1>4, <1>5, <1>6 DEF Kept

\* Prerequisites are members of the same group.
LEMMA NeedsWithin ==
  ASSUME CompiledType, Kept, past = Len(decl), ~Compiler!AmbiguousAlias,
         NEW k \in DOMAIN groups, NEW i \in MembersAt(k), NEW j, Compiler!Needs(i, j)
  PROVE  j \in MembersAt(k)
<1>1. i \in Compiler!Indexes /\ Compiler!Grouped(i) /\ decl[i].group = groups[k].name
  BY GroupsTyped DEF Kept
<1>2. Compiler!ValidMember(i)
  BY <1>1, IndexesFrom1 DEF Kept, CompiledType
<1>3. j \in Compiler!Indexes /\ decl[j].group = decl[i].group
  BY <1>1, <1>2, ValidNeeds DEF CompiledType
<1>4. Compiler!Peers(j, i)
  BY <1>1, <1>3 DEF Compiler!Peers, Compiler!Grouped
<1>5. PICK l \in DOMAIN groups : {j, i} \subseteq MembersAt(l)
  BY <1>1, <1>3, <1>4, PeersTogether
<1>6. groups[l].name = groups[k].name
  BY <1>1, <1>5 DEF Kept
<1> QED
  BY <1>5, <1>6 DEF Kept

LEMMA VerifiedAcyclic ==
  ASSUME CompiledType, Kept, past = Len(decl), ~Compiler!AmbiguousAlias,
         \A k \in DOMAIN groups : Verified(k)
  PROVE  Compiler!NoCycle
<1> SUFFICES ASSUME NEW S \in (SUBSET Compiler!Indexes) \ {{}},
                    \A i \in S : \E j \in S : Compiler!Needs(i, j)
             PROVE  FALSE
  BY DEF Compiler!NoCycle
<1>1. PICK i \in S : Compiler!Grouped(i)
  BY DEF Compiler!Needs
<1>2. PICK k \in DOMAIN groups : i \in MembersAt(k)
  BY <1>1, IndexesFrom1 DEF Kept, CompiledType
<1>3. S \cap MembersAt(k) \in (SUBSET MembersAt(k)) \ {{}}
  BY <1>2
<1>4. PICK m \in S \cap MembersAt(k) : \A j \in S \cap MembersAt(k) : ~Compiler!Needs(m, j)
  BY <1>3 DEF Verified, Grounded
<1>5. PICK j \in S : Compiler!Needs(m, j)
  BY <1>4
<1>6. j \in MembersAt(k)
  BY <1>4, <1>5, NeedsWithin
<1> QED
  BY <1>4, <1>5, <1>6

LEMMA VerifiedWellFormed ==
  ASSUME CompiledType, Kept, past = Len(decl), ~Compiler!AmbiguousAlias,
         \A k \in DOMAIN groups : Verified(k)
  PROVE  Compiler!WellFormed
<1>1. \A i, j \in Compiler!Indexes : i # j /\ decl[i].alias # "" => decl[i].alias # decl[j].alias
  BY DEF Compiler!AmbiguousAlias
<1>2. \A i \in Compiler!Indexes : Compiler!Grouped(i) => Compiler!ValidMember(i)
  BY IndexesFrom1 DEF Kept, CompiledType
<1>3. ASSUME NEW i \in Compiler!Indexes, NEW j \in Compiler!Indexes, Compiler!Peers(i, j), i # j
      PROVE  /\ decl[i].mode = decl[j].mode
             /\ [k \in DOMAIN decl[i].after |-> Compiler!Meant(decl[i].after[k])]
                  = [k \in DOMAIN decl[j].after |-> Compiler!Meant(decl[j].after[k])]
             /\ decl[i].mode = "dependencies" => decl[i].fields \cap decl[j].fields = {}
  <2>1. PICK k \in DOMAIN groups : {i, j} \subseteq MembersAt(k)
    BY <1>3, PeersTogether
  <2>2. Compiler!Consistent(groups[k], i) /\ Compiler!Consistent(groups[k], j)
    BY <2>1 DEF Kept
  <2>3. Compiler!ValidMember(i)
    BY <1>3, PeersTogether
  <2>4. \A x \in DOMAIN decl[i].after : Compiler!CanonicalAll(decl[i].after)[x] # 0
    BY <2>3, IndexesFrom1, CanonicalsOf DEF Compiler!ValidMember, Compiler!Barriers, CompiledType
  <2>5. Compiler!CanonicalAll(decl[i].after) = Compiler!CanonicalAll(decl[j].after)
    BY <2>2 DEF Compiler!Consistent
  <2>6. /\ decl[i].after \in Seq(ToSet(decl[i].after))
        /\ decl[j].after \in Seq(ToSet(decl[j].after))
    BY IndexesFrom1 DEF CompiledType
  <2>7. [x \in DOMAIN decl[i].after |-> Compiler!Meant(decl[i].after[x])]
          = [x \in DOMAIN decl[j].after |-> Compiler!Meant(decl[j].after[x])]
    BY <2>4, <2>5, <2>6, SameReferences DEF CompiledType
  <2>8. decl[i].mode = "dependencies" => decl[i].fields \cap decl[j].fields = {}
    BY <1>3, <2>1, <2>2
       DEF Verified, Compiler!Overlapping, Compiler!Consistent, MembersAt, ToSet, Compiler!ToSet
  <2> QED
    BY <2>2, <2>7, <2>8 DEF Compiler!Consistent
<1>4. \A i \in Compiler!Indexes : Compiler!Grouped(i) =>
        /\ decl[i].eligible
        /\ decl[i].mode = "concurrent" => decl[i].after # << >>
        /\ Compiler!Refers(i, decl[i].after, LAMBDA j : ~Compiler!Grouped(j))
        /\ Compiler!Refers(i, decl[i].dependsOn, LAMBDA j : Compiler!Peers(i, j))
  BY <1>2, ValidMembers DEF CompiledType
<1> QED
  BY <1>1, <1>3, <1>4, VerifiedAcyclic DEF Compiler!WellFormed

LEMMA KeptPartition ==
  ASSUME CompiledType, Kept, past = Len(decl), ~Compiler!AmbiguousAlias
  PROVE  Compiler!GroupsPartition
<1>1. \A k \in DOMAIN groups : Compiler!ToSet(groups[k].members) = MembersAt(k)
  BY DEF MembersAt, ToSet, Compiler!ToSet
<1>2. \A i \in Compiler!Indexes :
        Compiler!Grouped(i) <=> \E k \in DOMAIN groups : i \in MembersAt(k)
  BY IndexesFrom1 DEF Kept, CompiledType
<1>3. \A k, l \in DOMAIN groups : k # l => MembersAt(k) \cap MembersAt(l) = {}
  BY DEF Kept
<1>4. \A k \in DOMAIN groups : \A x, y \in DOMAIN groups[k].members :
        x < y => groups[k].members[x] < groups[k].members[y]
  BY DEF Kept
<1>5. \A k \in DOMAIN groups : \A i \in MembersAt(k), j \in Compiler!Indexes :
        Compiler!Needs(i, j) => j \in MembersAt(k)
  BY NeedsWithin
<1>6. ASSUME NEW k \in DOMAIN groups
      PROVE  /\ Compiler!IsInjective(groups[k].after)
             /\ \A b \in Compiler!ToSet(groups[k].after) :
                  b \in Compiler!Indexes /\ ~Compiler!Grouped(b)
  <2>1. groups[k].members # << >> /\ groups[k].members \in Seq(Compiler!Indexes)
    BY GroupsTyped DEF Kept
  <2>2. PICK i : i \in MembersAt(k)
    <3>1. Len(groups[k].members) \in Nat \ {0}
      BY <2>1, EmptySeq
    <3>2. 1 \in DOMAIN groups[k].members
      BY <3>1, GroupsTyped
    <3> QED
      BY <3>2 DEF MembersAt, ToSet
  <2>3. /\ i \in Compiler!Indexes /\ Compiler!Grouped(i) /\ Compiler!ValidMember(i)
        /\ groups[k].after = Compiler!CanonicalAll(decl[i].after)
    BY <2>2, IndexesFrom1 DEF Kept, CompiledType, Compiler!Consistent
  <2>4. Compiler!IsInjective(groups[k].after)
    BY <2>3 DEF Compiler!ValidMember, Compiler!Barriers
  <2>5. ASSUME NEW b \in Compiler!ToSet(groups[k].after)
        PROVE  b \in Compiler!Indexes /\ ~Compiler!Grouped(b)
    <3>1. PICK x \in DOMAIN groups[k].after : b = groups[k].after[x]
      BY DEF Compiler!ToSet
    <3>2. decl[i].after \in Seq(ToSet(decl[i].after))
      BY <2>3, IndexesFrom1 DEF CompiledType
    <3>3. x \in DOMAIN decl[i].after /\ b = Compiler!Canonical(decl[i].after[x])
      BY <2>3, <3>1, <3>2, CanonicalsOf DEF CompiledType
    <3>4. b # 0 /\ ~Compiler!Grouped(b)
      BY <2>3, <3>1 DEF Compiler!ValidMember, Compiler!Barriers
    <3> QED
      BY <3>3, <3>4, CanonicalMeant DEF CompiledType
  <2> QED
    BY <2>4, <2>5
<1> QED
  BY <1>1, <1>2, <1>3, <1>4, <1>5, <1>6 DEF Compiler!GroupsPartition

-----------------------------------------------------------------------------
(* The invariant at the start, and through the loop over the bindings.     *)

LEMMA CompiledAtInit ==
  ASSUME PlannedInit  PROVE CompiledInv
<1>1. DeclarationOf(decl)
  BY DeclarationsAssumption DEF PlannedInit
<1>2. /\ verdict = "none" /\ groups = << >> /\ past = 0 /\ current = 0 /\ tried = 0
      /\ calls = << >> /\ visiting = {} /\ visited = {}
  BY DEF PlannedInit, Compiler!Init
<1>3. Len(decl) \in Nat /\ Len(groups) = 0 /\ DOMAIN groups = {}
  BY <1>1, <1>2, IndexesFrom1
<1>4. CompiledType
  BY <1>1, <1>2, <1>3, EmptySeq DEF CompiledType
<1>5. Kept
  BY <1>2, <1>3 DEF Kept
<1> QED
  BY <1>2, <1>3, <1>4, <1>5 DEF CompiledInv, Collected, Searching

\* Everything said of the declaration alone stays as it is.
LEMMA DeclarationStays ==
  ASSUME decl' = decl
  PROVE  /\ DeclarationOf(decl)' <=> DeclarationOf(decl)
         /\ Compiler!Indexes' = Compiler!Indexes /\ Descriptor' = Descriptor
         /\ HasGroups' <=> HasGroups
         /\ Compiler!AmbiguousAlias' <=> Compiler!AmbiguousAlias
         /\ \A i : Compiler!Grouped(i)' <=> Compiler!Grouped(i)
         /\ \A n : Compiler!Canonical(n)' = Compiler!Canonical(n)
         /\ \A s : Compiler!CanonicalAll(s)' = Compiler!CanonicalAll(s)
         /\ \A i : Compiler!ValidMember(i)' <=> Compiler!ValidMember(i)
         /\ \A i, j : Compiler!Needs(i, j)' <=> Compiler!Needs(i, j)
         /\ \A V : Grounded(V)' <=> Grounded(V)
         /\ \A i, m : Prerequisite(i, m)' = Prerequisite(i, m)
         /\ Compiler!WellFormed' <=> Compiler!WellFormed
<1>1. DeclarationOf(decl)' <=> DeclarationOf(decl)
  BY DEF DeclarationOf
<1>2. Compiler!Indexes' = Compiler!Indexes
  BY DEF Compiler!Indexes
<1>3. \A i : Compiler!Grouped(i)' <=> Compiler!Grouped(i)
  BY DEF Compiler!Grouped
<1>4. HasGroups' <=> HasGroups
  BY <1>2, <1>3 DEF HasGroups
<1>5. Compiler!AmbiguousAlias' <=> Compiler!AmbiguousAlias
  BY <1>2 DEF Compiler!AmbiguousAlias
<1>6. \A n : Compiler!Meant(n)' = Compiler!Meant(n)
  BY <1>2 DEF Compiler!Meant
<1>7. \A n : Compiler!Canonical(n)' = Compiler!Canonical(n)
  <2> SUFFICES ASSUME NEW n, NEW M, Compiler!Meant(n) = M, Compiler!Meant(n)' = M
               PROVE  Compiler!Canonical(n)' = Compiler!Canonical(n)
    BY <1>6
  <2> QED
    BY DEF Compiler!Canonical
<1>8. \A s : Compiler!CanonicalAll(s)' = Compiler!CanonicalAll(s)
  BY <1>7 DEF Compiler!CanonicalAll
<1>9. \A i : Compiler!ValidMember(i)' <=> Compiler!ValidMember(i)
  BY <1>3, <1>8 DEF Compiler!ValidMember, Compiler!Barriers, Compiler!Prerequisites
<1>10. \A i, j : Compiler!Needs(i, j)' <=> Compiler!Needs(i, j)
  BY <1>3, <1>6 DEF Compiler!Needs
<1>11. \A V : Grounded(V)' <=> Grounded(V)
  BY <1>10 DEF Grounded
<1>12. \A i, m : Prerequisite(i, m)' = Prerequisite(i, m)
  BY <1>7 DEF Prerequisite
<1>13. Compiler!NoCycle' <=> Compiler!NoCycle
  BY <1>2, <1>10 DEF Compiler!NoCycle
<1>14. Compiler!WellFormed' <=> Compiler!WellFormed
  <2>1. \A i, j : Compiler!Peers(i, j)' <=> Compiler!Peers(i, j)
    BY <1>3 DEF Compiler!Peers
  <2> DEFINE Awaits(i) == Compiler!Refers(i, decl[i].after, LAMBDA j : ~Compiler!Grouped(j))
             Depends(i) == Compiler!Refers(i, decl[i].dependsOn, LAMBDA j : Compiler!Peers(i, j))
  <2>2. \A i : Awaits(i)' <=> Awaits(i)
    BY <1>2, <1>3, <1>6 DEF Compiler!Refers
  <2>3. \A i : Depends(i)' <=> Depends(i)
    BY <1>2, <1>6, <2>1 DEF Compiler!Refers
  <2>4. \A i : [k \in DOMAIN decl[i].after |-> Compiler!Meant(decl[i].after[k])]'
               = [k \in DOMAIN decl[i].after |-> Compiler!Meant(decl[i].after[k])]
    BY <1>6
  <2> DEFINE Distinct == \A i, j \in Compiler!Indexes :
                           i # j /\ decl[i].alias # "" => decl[i].alias # decl[j].alias
             Valid == \A i \in Compiler!Indexes : Compiler!Grouped(i) =>
               /\ decl[i].eligible
               /\ decl[i].mode = "concurrent" => decl[i].after # << >>
               /\ Awaits(i) /\ Depends(i)
             Alike == \A i, j \in Compiler!Indexes : Compiler!Peers(i, j) /\ i # j =>
               /\ decl[i].mode = decl[j].mode
               /\ [k \in DOMAIN decl[i].after |-> Compiler!Meant(decl[i].after[k])]
                    = [k \in DOMAIN decl[j].after |-> Compiler!Meant(decl[j].after[k])]
               /\ decl[i].mode = "dependencies" => decl[i].fields \cap decl[j].fields = {}
  <2>5. Distinct' <=> Distinct
    BY <1>2
  <2>6. Valid' <=> Valid
    <3> HIDE DEF Awaits, Depends
    <3> QED
      BY <1>2, <1>3, <2>2, <2>3
  <2>7. Alike' <=> Alike
    BY <1>2, <2>1, <2>4
  <2>8. Compiler!WellFormed <=> Distinct /\ Valid /\ Alike /\ Compiler!NoCycle
    BY DEF Compiler!WellFormed
  <2>9. Compiler!WellFormed' <=> (Distinct /\ Valid /\ Alike /\ Compiler!NoCycle)'
    BY DEF Compiler!WellFormed
  <2> HIDE DEF Distinct, Valid, Alike
  <2> QED
    BY <1>13, <2>5, <2>6, <2>7, <2>8, <2>9
<1>15. Descriptor' = Descriptor
  BY <1>2 DEF Descriptor
<1> QED
  BY <1>1, <1>2, <1>3, <1>4, <1>5, <1>7, <1>8, <1>9, <1>10, <1>11, <1>12, <1>14, <1>15

LEMMA StartKeeps ==
  ASSUME CompiledInv, Compiler!Start  PROVE CompiledInv'
<1> USE DEF CompiledInv
<1>1. /\ decl' = decl /\ groups' = groups /\ past' = past /\ current' = current
      /\ calls' = calls /\ tried' = tried /\ tries' = tries
      /\ visiting' = visiting /\ visited' = visited
  BY DEF Compiler!Start, Compiler!Refuse, Compiler!search
<1>2. groups = << >> /\ past = 0 /\ current = 0 /\ calls = << >>
  BY DEF Compiler!Start, Collected
<1>3. /\ verdict' \in {"ok", "refused", "members"}
      /\ verdict' = "ok" <=> ~HasGroups
      /\ verdict' = "refused" => Compiler!AmbiguousAlias
      /\ verdict' = "members" => ~Compiler!AmbiguousAlias
  BY DEF Compiler!Start, Compiler!Refuse, HasGroups
<1>4. CompiledType'
  BY <1>1, <1>3, DeclarationStays DEF CompiledType
<1>5. Kept' /\ (HasGroups' <=> HasGroups) /\ (Compiler!AmbiguousAlias' <=> Compiler!AmbiguousAlias)
  <2>1. Len(groups) = 0 /\ DOMAIN groups = {}
    BY <1>2
  <2> QED
    BY <1>1, <1>2, <2>1, DeclarationStays DEF Kept
<1>6. Collected'
  BY <1>1, <1>2, <1>3, <1>5 DEF Collected
<1>7. Searching'
  BY <1>3 DEF Searching
<1>8. verdict' = "refused" => ~Compiler!WellFormed'
  BY <1>1, <1>3, AmbiguousBreaks, DeclarationStays
<1> QED
  BY <1>1, <1>2, <1>3, <1>4, <1>6, <1>7, <1>8

LEMMA Appended ==
  ASSUME NEW S, NEW s \in Seq(S), NEW e \in S
  PROVE  /\ Append(s, e) \in Seq(S) /\ Append(s, e) # << >> /\ Len(s) \in Nat
         /\ DOMAIN s = 1..Len(s) /\ DOMAIN Append(s, e) = 1..(Len(s) + 1)
         /\ Len(Append(s, e)) = Len(s) + 1
         /\ \A k \in 1..Len(s) : Append(s, e)[k] = s[k]
         /\ Append(s, e)[Len(s) + 1] = e
         /\ ToSet(Append(s, e)) = ToSet(s) \cup {e}
<1>1. /\ Append(s, e) \in Seq(S) /\ Append(s, e) # << >> /\ Len(s) \in Nat
      /\ DOMAIN s = 1..Len(s) /\ DOMAIN Append(s, e) = 1..(Len(s) + 1)
      /\ Len(Append(s, e)) = Len(s) + 1
      /\ \A k \in 1..Len(s) : Append(s, e)[k] = s[k]
      /\ Append(s, e)[Len(s) + 1] = e
  BY LenProperties, AppendProperties
<1>2. ToSet(Append(s, e)) = ToSet(s) \cup {e}
  <2>1. 1..(Len(s) + 1) = 1..Len(s) \cup {Len(s) + 1}
    BY <1>1
  <2> QED
    BY <1>1, <2>1 DEF ToSet
<1> QED
  BY <1>1, <1>2

\* A member that opens a group.
LEMMA OpenKeeps ==
  ASSUME CompiledType, Kept, decl' = decl, past' = past + 1, past' \in Compiler!Indexes,
         Compiler!Grouped(past'), Compiler!ValidMember(past'), Compiler!KnownGroup(past') = {},
         groups' = Append(groups, Compiler!Opened(past'))
  PROVE  groups' \in Seq(Descriptor) /\ Kept'
<1>a. PICK n : n = Len(groups)
  OBVIOUS
<1>b. PICK p : p = past'
  OBVIOUS
<1>c. PICK g : g = Compiler!Opened(p)
  OBVIOUS
<1>1. g \in Descriptor /\ g.members = <<p>> /\ g.members # << >> /\ g.name = decl[p].group
      /\ Compiler!Consistent(g, p)
  <2>1. Compiler!CanonicalAll(decl[p].after) \in Seq(Nat)
    BY <1>b, IndexesFrom1, CanonicalsOf DEF CompiledType
  <2>2. <<p>> \in Seq(Compiler!Indexes)
    BY <1>b
  <2>3. <<p>> # << >>
    OBVIOUS
  <2> QED
    BY <1>b, <1>c, <2>1, <2>2, <2>3 DEF Compiler!Opened, Descriptor, Compiler!Consistent
<1>2. /\ groups' \in Seq(Descriptor) /\ n \in Nat
      /\ DOMAIN groups = 1..n /\ DOMAIN groups' = 1..(n + 1)
      /\ \A k \in 1..n : groups'[k] = groups[k]
      /\ groups'[n + 1] = g
  BY <1>a, <1>b, <1>c, <1>1, Appended DEF CompiledType
<1>3. /\ \A k \in 1..n : MembersAt(k)' = MembersAt(k)
      /\ MembersAt(n + 1)' = {p}
  <2>1. \A k \in 1..n : MembersAt(k)' = MembersAt(k)
    BY <1>2 DEF MembersAt
  <2>2. MembersAt(n + 1)' = ToSet(<<p>>)
    BY <1>1, <1>2 DEF MembersAt
  <2>3. ToSet(<<p>>) = {p}
    BY DEF ToSet
  <2> QED
    BY <2>1, <2>2, <2>3
<1>4. past \in Nat /\ p = past + 1
  BY <1>b, IndexesFrom1 DEF CompiledType
<1>5. \A i \in 1..p : Compiler!Grouped(i) =>
        Compiler!ValidMember(i) /\ \E k \in 1..(n + 1) : i \in MembersAt(k)'
  <2> SUFFICES ASSUME NEW i \in 1..p, Compiler!Grouped(i)
               PROVE  Compiler!ValidMember(i) /\ \E k \in 1..(n + 1) : i \in MembersAt(k)'
    OBVIOUS
  <2>1. CASE i = p
    BY <1>b, <1>2, <1>3, <2>1
  <2>2. CASE i # p
    <3>1. i \in 1..past
      BY <1>4, <2>2
    <3>2. Compiler!ValidMember(i)
      BY <3>1 DEF Kept
    <3>3. PICK k \in 1..n : i \in MembersAt(k)
      BY <1>2, <3>1 DEF Kept
    <3> QED
      BY <1>2, <1>3, <3>2, <3>3
  <2> QED
    BY <2>1, <2>2
<1>6. \A k \in 1..(n + 1) : groups'[k].members # << >>
  <2> SUFFICES ASSUME NEW k \in 1..(n + 1)  PROVE groups'[k].members # << >>
    OBVIOUS
  <2>1. CASE k = n + 1
    BY <1>1, <1>2, <2>1
  <2>2. CASE k # n + 1
    <3>1. k \in 1..n
      BY <1>2, <2>2
    <3> QED
      BY <1>2, <3>1 DEF Kept
  <2> QED
    BY <2>1, <2>2
<1>7. \A k \in 1..(n + 1) : \A i \in MembersAt(k)' :
        /\ i \in 1..p /\ Compiler!Grouped(i) /\ decl[i].group = groups'[k].name
        /\ Compiler!Consistent(groups'[k], i)
  <2> SUFFICES ASSUME NEW k \in 1..(n + 1), NEW i \in MembersAt(k)'
               PROVE  /\ i \in 1..p /\ Compiler!Grouped(i) /\ decl[i].group = groups'[k].name
                      /\ Compiler!Consistent(groups'[k], i)
    OBVIOUS
  <2>1. CASE k = n + 1
    BY <1>b, <1>1, <1>2, <1>3, <1>4, <2>1
  <2>2. CASE k # n + 1
    <3>1. k \in 1..n
      BY <1>2, <2>2
    <3>2. i \in MembersAt(k) /\ groups'[k] = groups[k]
      BY <1>2, <1>3, <3>1
    <3> QED
      BY <1>2, <1>4, <3>1, <3>2 DEF Kept
  <2> QED
    BY <2>1, <2>2
<1>8. \A k \in 1..(n + 1) : \A x, y \in DOMAIN groups'[k].members :
        x < y => groups'[k].members[x] < groups'[k].members[y]
  <2> SUFFICES ASSUME NEW k \in 1..(n + 1)
               PROVE  \A x, y \in DOMAIN groups'[k].members :
                        x < y => groups'[k].members[x] < groups'[k].members[y]
    OBVIOUS
  <2>1. CASE k = n + 1
    BY <1>1, <1>2, <2>1
  <2>2. CASE k # n + 1
    <3>1. k \in 1..n
      BY <1>2, <2>2
    <3> QED
      BY <1>2, <3>1 DEF Kept
  <2> QED
    BY <2>1, <2>2
<1>9. \A k, l \in 1..(n + 1) : k # l => groups'[k].name # groups'[l].name
  <2>1. \A k \in 1..n : groups[k].name # decl[p].group
    BY <1>b, <1>2 DEF Compiler!KnownGroup
  <2>2. \A k, l \in 1..n : k # l => groups[k].name # groups[l].name
    BY <1>2 DEF Kept
  <2>3. \A k \in 1..(n + 1) : k \in 1..n \/ k = n + 1
    BY <1>2
  <2> QED
    BY <1>1, <1>2, <2>1, <2>2, <2>3
<1>10. Kept'
  <2>1. \A i : Compiler!Grouped(i)' <=> Compiler!Grouped(i)
    BY DeclarationStays
  <2>2. \A i : Compiler!ValidMember(i)' <=> Compiler!ValidMember(i)
    BY DeclarationStays
  <2>3. \A h, i : Compiler!Consistent(h, i)' <=> Compiler!Consistent(h, i)
    BY DeclarationStays DEF Compiler!Consistent
  <2>4. (\A i \in 1..past : Compiler!Grouped(i) =>
          Compiler!ValidMember(i) /\ \E k \in DOMAIN groups : i \in MembersAt(k))'
    BY <1>b, <1>2, <1>5, <2>1, <2>2
  <2>5. (\A k \in DOMAIN groups : groups[k].members # << >>)'
    BY <1>2, <1>6
  <2>6. (\A k \in DOMAIN groups : \A i \in MembersAt(k) :
          /\ i \in 1..past /\ Compiler!Grouped(i) /\ decl[i].group = groups[k].name
          /\ Compiler!Consistent(groups[k], i))'
    BY <1>b, <1>2, <1>7, <2>1, <2>3
  <2>7. (\A k \in DOMAIN groups : \A x, y \in DOMAIN groups[k].members :
          x < y => groups[k].members[x] < groups[k].members[y])'
    BY <1>2, <1>8
  <2>8. (\A k, l \in DOMAIN groups : k # l => groups[k].name # groups[l].name)'
    BY <1>2, <1>9
  <2> QED
    BY <2>4, <2>5, <2>6, <2>7, <2>8 DEF Kept
<1> QED
  BY <1>2, <1>10

\* A member that joins the group it names.
LEMMA JoinKeeps ==
  ASSUME CompiledType, Kept, decl' = decl, past' = past + 1, past' \in Compiler!Indexes,
         Compiler!Grouped(past'), Compiler!ValidMember(past'),
         NEW h \in Compiler!KnownGroup(past'), Compiler!Consistent(groups[h], past'),
         groups' = [groups EXCEPT ![h].members = Append(@, past')]
  PROVE  groups' \in Seq(Descriptor) /\ Kept'
<1>a. PICK n : n = Len(groups)
  OBVIOUS
<1>b. PICK p : p = past'
  OBVIOUS
<1>c. PICK g : g = [groups[h] EXCEPT !.members = Append(@, p)]
  OBVIOUS
<1>0. /\ n \in Nat /\ DOMAIN groups = 1..n /\ h \in 1..n
      /\ groups[h] \in Descriptor /\ groups[h].name = decl[p].group
  <2>1. n \in Nat /\ DOMAIN groups = 1..n /\ h \in 1..n /\ groups[h].name = decl[p].group
    BY <1>a, <1>b, GroupsTyped DEF Compiler!KnownGroup
  <2> QED
    BY <1>a, <2>1, ElementOfSeq DEF CompiledType
<1>1. /\ g \in Descriptor /\ g.name = groups[h].name /\ g.mode = groups[h].mode
      /\ g.after = groups[h].after /\ g.members = Append(groups[h].members, p)
      /\ groups[h].members \in Seq(Compiler!Indexes)
  <2>1. Append(groups[h].members, p) \in Seq(Compiler!Indexes)
        /\ groups[h].members \in Seq(Compiler!Indexes)
    BY <1>0, <1>b, Appended DEF Descriptor
  <2> QED
    BY <1>0, <1>c, <2>1 DEF Descriptor
<1>2. /\ groups' \in Seq(Descriptor) /\ DOMAIN groups' = 1..n
      /\ \A k \in 1..n : groups'[k] = IF k = h THEN g ELSE groups[k]
  <2>1. groups' = [groups EXCEPT ![h] = g]
    BY <1>b, <1>c
  <2>2. groups \in Seq(Descriptor) /\ h \in 1..Len(groups) /\ g \in Descriptor
    BY <1>a, <1>0, <1>1 DEF CompiledType
  <2>3. PICK new : new = [groups EXCEPT ![h] = g]
    OBVIOUS
  <2>4. /\ new \in Seq(Descriptor) /\ Len(new) = Len(groups)
        /\ \A k \in 1..Len(groups) : new[k] = IF k = h THEN g ELSE groups[k]
    BY <2>2, <2>3, ExceptSeq
  <2>5. DOMAIN new = 1..n
    BY <1>a, <2>4, LenProperties
  <2> QED
    BY <1>a, <2>1, <2>3, <2>4, <2>5
<1>3. \A k \in 1..n : MembersAt(k)' = IF k = h THEN MembersAt(k) \cup {p} ELSE MembersAt(k)
  <2>1. ToSet(g.members) = ToSet(groups[h].members) \cup {p}
    BY <1>1, <1>b, Appended
  <2> QED
    BY <1>2, <2>1 DEF MembersAt
<1>4. past \in Nat /\ p = past + 1
  BY <1>b, IndexesFrom1 DEF CompiledType
<1>5. \A i \in 1..p : Compiler!Grouped(i) =>
        Compiler!ValidMember(i) /\ \E k \in 1..n : i \in MembersAt(k)'
  <2> SUFFICES ASSUME NEW i \in 1..p, Compiler!Grouped(i)
               PROVE  Compiler!ValidMember(i) /\ \E k \in 1..n : i \in MembersAt(k)'
    OBVIOUS
  <2>1. CASE i = p
    BY <1>b, <1>0, <1>3, <2>1
  <2>2. CASE i # p
    <3>1. i \in 1..past
      BY <1>4, <2>2
    <3>2. Compiler!ValidMember(i)
      BY <3>1 DEF Kept
    <3>3. PICK k \in 1..n : i \in MembersAt(k)
      BY <1>0, <3>1 DEF Kept
    <3> QED
      BY <1>3, <3>2, <3>3
  <2> QED
    BY <2>1, <2>2
<1>6. \A k \in 1..n : groups'[k].members # << >>
  <2>1. \A k \in 1..n : groups[k].members # << >>
    BY <1>0 DEF Kept
  <2>2. g.members # << >>
    BY <1>1, <1>b, Appended
  <2> QED
    BY <1>2, <2>1, <2>2
<1>7. \A k \in 1..n : \A i \in MembersAt(k)' :
        /\ i \in 1..p /\ Compiler!Grouped(i) /\ decl[i].group = groups'[k].name
        /\ Compiler!Consistent(groups'[k], i)
  <2> SUFFICES ASSUME NEW k \in 1..n, NEW i \in MembersAt(k)'
               PROVE  /\ i \in 1..p /\ Compiler!Grouped(i) /\ decl[i].group = groups'[k].name
                      /\ Compiler!Consistent(groups'[k], i)
    OBVIOUS
  <2>1. groups'[k].name = groups[k].name /\ groups'[k].mode = groups[k].mode
        /\ groups'[k].after = groups[k].after
    BY <1>1, <1>2
  <2>2. CASE i = p /\ k = h
    BY <1>b, <1>0, <1>4, <2>1, <2>2 DEF Compiler!Consistent
  <2>3. CASE i \in MembersAt(k)
    BY <1>0, <1>4, <2>1, <2>3 DEF Kept, Compiler!Consistent
  <2> QED
    BY <1>3, <2>2, <2>3
<1>8. \A k \in 1..n : \A x, y \in DOMAIN groups'[k].members :
        x < y => groups'[k].members[x] < groups'[k].members[y]
  <2> SUFFICES ASSUME NEW k \in 1..n
               PROVE  \A x, y \in DOMAIN groups'[k].members :
                        x < y => groups'[k].members[x] < groups'[k].members[y]
    OBVIOUS
  <2>1. CASE k = h
    <3>1. PICK s : s = groups[h].members
      OBVIOUS
    <3>2. PICK t : t = groups'[k].members
      OBVIOUS
    <3>3. PICK m : m = Len(s)
      OBVIOUS
    <3>4. /\ m \in Nat /\ DOMAIN s = 1..m /\ DOMAIN t = 1..(m + 1)
          /\ \A x \in 1..m : t[x] = s[x]
          /\ t[m + 1] = p
      BY <1>1, <1>2, <1>b, <2>1, <3>1, <3>2, <3>3, Appended
    <3>5. \A x \in 1..m : s[x] \in 1..past
      BY <1>0, <2>1, <3>1, <3>4 DEF Kept, MembersAt, ToSet
    <3>6. \A x, y \in 1..m : x < y => s[x] < s[y]
      BY <1>0, <2>1, <3>1, <3>4 DEF Kept
    <3>7. ASSUME NEW x \in 1..(m + 1), NEW y \in 1..(m + 1), x < y
          PROVE  t[x] < t[y]
      <4>1. x \in 1..m
        BY <3>4, <3>7
      <4>2. CASE y = m + 1
        BY <1>4, <3>4, <3>5, <4>1, <4>2
      <4>3. CASE y \in 1..m
        BY <3>4, <3>6, <3>7, <4>1, <4>3
      <4> QED
        BY <3>4, <4>2, <4>3
    <3> QED
      BY <3>2, <3>4, <3>7
  <2>2. CASE k # h
    BY <1>0, <1>2, <2>2 DEF Kept
  <2> QED
    BY <2>1, <2>2
<1>9. \A k, l \in 1..n : k # l => groups'[k].name # groups'[l].name
  <2>1. \A k \in 1..n : groups'[k].name = groups[k].name
    BY <1>1, <1>2
  <2> QED
    BY <1>0, <2>1 DEF Kept
<1>10. Kept'
  <2>1. \A i : Compiler!Grouped(i)' <=> Compiler!Grouped(i)
    BY DeclarationStays
  <2>2. \A i : Compiler!ValidMember(i)' <=> Compiler!ValidMember(i)
    BY DeclarationStays
  <2>3. \A x, i : Compiler!Consistent(x, i)' <=> Compiler!Consistent(x, i)
    BY DeclarationStays DEF Compiler!Consistent
  <2>4. (\A i \in 1..past : Compiler!Grouped(i) =>
          Compiler!ValidMember(i) /\ \E k \in DOMAIN groups : i \in MembersAt(k))'
    BY <1>b, <1>2, <1>5, <2>1, <2>2
  <2>5. (\A k \in DOMAIN groups : groups[k].members # << >>)'
    BY <1>2, <1>6
  <2>6. (\A k \in DOMAIN groups : \A i \in MembersAt(k) :
          /\ i \in 1..past /\ Compiler!Grouped(i) /\ decl[i].group = groups[k].name
          /\ Compiler!Consistent(groups[k], i))'
    BY <1>b, <1>2, <1>7, <2>1, <2>3
  <2>7. (\A k \in DOMAIN groups : \A x, y \in DOMAIN groups[k].members :
          x < y => groups[k].members[x] < groups[k].members[y])'
    BY <1>2, <1>8
  <2>8. (\A k, l \in DOMAIN groups : k # l => groups[k].name # groups[l].name)'
    BY <1>2, <1>9
  <2> QED
    BY <2>4, <2>5, <2>6, <2>7, <2>8 DEF Kept
<1> QED
  BY <1>2, <1>10

LEMMA AddBindingKeeps ==
  ASSUME CompiledInv, Compiler!AddBinding  PROVE CompiledInv'
<1> USE DEF CompiledInv
<1>1. /\ decl' = decl /\ current' = current /\ current = 0 /\ calls' = calls /\ calls = << >>
      /\ tried' = tried /\ visiting' = visiting /\ visited' = visited
      /\ past' = past + 1 /\ verdict = "members" /\ Kept /\ HasGroups /\ ~Compiler!AmbiguousAlias
  BY DEF Compiler!AddBinding, Compiler!search, Collected
<1>2. past' \in Compiler!Indexes /\ past' \in 0..Len(decl)
  BY <1>1, IndexesFrom1 DEF Compiler!AddBinding, CompiledType
<1>3. ASSUME verdict' = "members", groups' \in Seq(Descriptor), Kept'
      PROVE  CompiledInv'
  <2>1. CompiledType'
    <3>1. 0 \in 0..Len(groups')
      BY <1>3, LenProperties
    <3> QED
      BY <1>1, <1>2, <1>3, <3>1, DeclarationStays DEF CompiledType
  <2>2. Collected'
    BY <1>1, <1>3, DeclarationStays DEF Collected
  <2>3. \A k \in DOMAIN groups' : ~(k < current')
    <3>1. DOMAIN groups' = 1..Len(groups') /\ Len(groups') \in Nat
      BY <1>3, LenProperties
    <3> QED
      BY <1>1, <3>1
  <2> QED
    BY <1>3, <2>1, <2>2, <2>3 DEF Searching
<1>4. ASSUME verdict' = "refused", groups' = groups, ~Compiler!WellFormed
      PROVE  CompiledInv'
  <2>1. CompiledType'
    BY <1>1, <1>2, <1>4, DeclarationStays DEF CompiledType
  <2>2. Collected'
    BY <1>1, <1>4, DeclarationStays DEF Collected
  <2>3. ~Compiler!WellFormed'
    BY <1>1, <1>4, DeclarationStays
  <2> QED
    BY <1>4, <2>1, <2>2, <2>3 DEF Searching
<1>5. CASE ~Compiler!Grouped(past')
  <2>1. verdict' = verdict /\ groups' = groups
    BY <1>5 DEF Compiler!AddBinding
  <2>2. PICK p : p = past' /\ past \in Nat /\ p = past + 1
    BY <1>1, IndexesFrom1 DEF CompiledType
  <2>3. \A i \in 1..p : Compiler!Grouped(i) => i \in 1..past
    BY <1>5, <2>2
  <2>4. \A i \in 1..past : i \in 1..p
    BY <2>2
  <2>5. \A i : Compiler!Grouped(i)' <=> Compiler!Grouped(i)
    BY <1>1, DeclarationStays
  <2>6. \A i : Compiler!ValidMember(i)' <=> Compiler!ValidMember(i)
    BY <1>1, DeclarationStays
  <2>7. \A x, i : Compiler!Consistent(x, i)' <=> Compiler!Consistent(x, i)
    BY <1>1, DeclarationStays DEF Compiler!Consistent
  <2>8. \A k : MembersAt(k)' = MembersAt(k)
    BY <2>1 DEF MembersAt
  <2>9. Kept'
    BY <1>1, <2>1, <2>2, <2>3, <2>4, <2>5, <2>6, <2>7, <2>8 DEF Kept
  <2> QED
    BY <1>1, <1>3, <2>1, <2>9 DEF CompiledType
<1>6. CASE Compiler!Grouped(past') /\ ~Compiler!ValidMember(past')
  <2>1. verdict' = "refused" /\ groups' = groups
    BY <1>6 DEF Compiler!AddBinding, Compiler!Refuse
  <2> QED
    BY <1>1, <1>2, <1>4, <1>6, <2>1, InvalidBreaks DEF CompiledType
<1>7. CASE Compiler!Grouped(past') /\ Compiler!ValidMember(past')
  <2>0. Compiler!AddMember(past')
    BY <1>7 DEF Compiler!AddBinding
  <2>1. CASE /\ Compiler!KnownGroup(past') = {}
             /\ groups' = Append(groups, Compiler!Opened(past')) /\ UNCHANGED verdict
    BY <1>1, <1>2, <1>3, <1>7, <2>1, OpenKeeps
  <2>2. ASSUME NEW h \in Compiler!KnownGroup(past'), Compiler!Consistent(groups[h], past'),
               groups' = [groups EXCEPT ![h].members = Append(@, past')], UNCHANGED verdict
        PROVE  CompiledInv'
    BY <1>1, <1>2, <1>3, <1>7, <2>2, JoinKeeps
  <2>3. ASSUME NEW h \in Compiler!KnownGroup(past'), ~Compiler!Consistent(groups[h], past'),
               Compiler!Refuse
        PROVE  CompiledInv'
    <3>1. h \in DOMAIN groups /\ groups[h].name = decl[past'].group
      BY DEF Compiler!KnownGroup
    <3>2. 1 \in DOMAIN groups[h].members
      BY <1>1, <3>1, GroupsTyped, EmptySeq DEF Kept
    <3>3. PICK j \in MembersAt(h) : TRUE
      BY <3>2 DEF MembersAt, ToSet
    <3>4. /\ j \in Compiler!Indexes /\ j \in 1..past /\ decl[j].group = groups[h].name
          /\ Compiler!Consistent(groups[h], j)
      BY <1>1, <3>1, <3>3, GroupsTyped DEF Kept
    <3>5. j # past' /\ Compiler!Peers(past', j)
      BY <1>1, <1>2, <1>7, <3>1, <3>4, IndexesFrom1 DEF Compiler!Peers, CompiledType
    <3>6. ~Compiler!WellFormed
      BY <1>2, <2>3, <3>4, <3>5, InconsistentBreaks DEF Compiler!Consistent, CompiledType
    <3> QED
      BY <1>4, <2>3, <3>6 DEF Compiler!Refuse
  <2> QED
    BY <2>0, <2>1, <2>2, <2>3 DEF Compiler!AddMember
<1> QED
  BY <1>5, <1>6, <1>7

-----------------------------------------------------------------------------
(* The invariant through the search for cycles.                            *)

LEMMA GroupsStay ==
  ASSUME decl' = decl, groups' = groups, past' = past
  PROVE  /\ \A k : MembersAt(k)' = MembersAt(k)
         /\ \A k : Compiler!Overlapping(groups[k])' <=> Compiler!Overlapping(groups[k])
         /\ \A k : Verified(k)' <=> Verified(k)
         /\ Kept' <=> Kept
<1>1. \A k : MembersAt(k)' = MembersAt(k)
  BY DEF MembersAt
<1>2. \A k : Compiler!Overlapping(groups[k])' <=> Compiler!Overlapping(groups[k])
  BY DEF Compiler!Overlapping
<1>3. \A k : Grounded(MembersAt(k))' <=> Grounded(MembersAt(k))
  <2> SUFFICES ASSUME NEW k  PROVE Grounded(MembersAt(k))' <=> Grounded(MembersAt(k))
    OBVIOUS
  <2>1. \A i, j : Compiler!Needs(i, j)' <=> Compiler!Needs(i, j)
    BY DeclarationStays
  <2> QED
    BY <1>1, <2>1 DEF Grounded
<1>4. \A k : Verified(k)' <=> Verified(k)
  BY <1>2, <1>3 DEF Verified
<1>5. Kept' <=> Kept
  <2>1. \A i : Compiler!Grouped(i)' <=> Compiler!Grouped(i)
    BY DeclarationStays
  <2>2. \A i : Compiler!ValidMember(i)' <=> Compiler!ValidMember(i)
    BY DeclarationStays
  <2>3. \A x, i : Compiler!Consistent(x, i)' <=> Compiler!Consistent(x, i)
    BY DeclarationStays DEF Compiler!Consistent
  <2> QED
    BY <1>1, <2>1, <2>2, <2>3 DEF Kept
<1> QED
  BY <1>1, <1>2, <1>4, <1>5

LEMMA OverlapBreaks ==
  ASSUME CompiledType, Kept, NEW k \in DOMAIN groups, Compiler!Overlapping(groups[k])
  PROVE  ~Compiler!WellFormed
<1>1. PICK i, j \in MembersAt(k) : i # j /\ decl[i].fields \cap decl[j].fields # {}
  BY DEF Compiler!Overlapping, Compiler!ToSet, MembersAt, ToSet
<1>2. i \in Compiler!Indexes /\ j \in Compiler!Indexes
  BY GroupsTyped
<1>3. Compiler!Peers(i, j) /\ decl[i].mode = "dependencies"
  BY DEF Kept, Compiler!Peers, Compiler!Consistent, Compiler!Overlapping
<1> QED
  BY <1>1, <1>2, <1>3 DEF Compiler!WellFormed

\* Once the search returned, everything in the group was visited.
LEMMA SearchedVerifies ==
  ASSUME CompiledInv, Compiler!Searched
  PROVE  /\ \A k \in DOMAIN groups : k <= current => Verified(k)
         /\ Kept /\ HasGroups /\ ~Compiler!AmbiguousAlias /\ past = Len(decl)
         /\ verdict # "refused" /\ calls = << >>
<1> USE DEF CompiledInv
<1>1. /\ Kept /\ HasGroups /\ ~Compiler!AmbiguousAlias /\ past = Len(decl)
      /\ verdict # "refused" /\ calls = << >>
  BY DEF Compiler!Searched, Collected
<1>2. current \in Nat /\ DOMAIN groups = 1..Len(groups) /\ Len(groups) \in Nat
  BY GroupsTyped DEF CompiledType
<1>3. ASSUME NEW k \in DOMAIN groups, k = current  PROVE Verified(k)
  <2>1. verdict = "search" /\ calls = << >> /\ tried = Len(groups[current].members)
    <3>1. current # 0
      BY <1>2, <1>3
    <3>2. verdict # "members"
      BY <3>1 DEF Collected
    <3> QED
      BY <3>2 DEF Compiler!Searched
  <2>2. MembersAt(k) = visited
    <3>1. DOMAIN groups[k].members = 1..tried
      BY <1>3, <2>1, GroupsTyped
    <3>2. \A y \in 1..tried : groups[k].members[y] \in visited
      BY <1>3, <2>1 DEF Searching, SearchState
    <3>3. visited \subseteq MembersAt(k)
      BY <1>3, <2>1 DEF Searching, SearchState
    <3> QED
      BY <3>1, <3>2, <3>3 DEF MembersAt, ToSet
  <2> QED
    BY <1>3, <2>1, <2>2 DEF Searching, SearchState, Verified
<1> QED
  BY <1>1, <1>2, <1>3

LEMMA NextGroupKeeps ==
  ASSUME CompiledInv, Compiler!NextGroup  PROVE CompiledInv'
<1> USE DEF CompiledInv
<1>1. decl' = decl /\ groups' = groups /\ past' = past
  BY DEF Compiler!NextGroup
<1>2. /\ \A k \in DOMAIN groups : k <= current => Verified(k)
      /\ Kept /\ HasGroups /\ ~Compiler!AmbiguousAlias /\ past = Len(decl)
      /\ verdict # "refused" /\ calls = << >>
  BY SearchedVerifies DEF Compiler!NextGroup
<1>3. /\ current \in 0..Len(groups) /\ DOMAIN groups = 1..Len(groups) /\ Len(groups) \in Nat
      /\ past \in Nat
  BY <1>2, IndexesFrom1, GroupsTyped DEF CompiledType
<1>9. current # Len(groups) =>
        current + 1 \in DOMAIN groups /\ current + 1 \in 0..Len(groups) /\ current + 1 # 0
  <2>1. \A n \in Nat : \A c \in 0..n : c # n => c + 1 \in 1..n /\ c + 1 \in 0..n /\ c + 1 # 0
    OBVIOUS
  <2>2. DOMAIN groups = 1..Len(groups) /\ Len(groups) \in Nat /\ current \in 0..Len(groups)
    BY <1>3
  <2> HIDE DEF CompiledInv
  <2> QED
    BY <2>1, <2>2
<1>4. (Kept' <=> Kept) /\ \A k : Verified(k)' <=> Verified(k)
  BY <1>1, GroupsStay
<1>5. /\ HasGroups' <=> HasGroups
      /\ Compiler!AmbiguousAlias' <=> Compiler!AmbiguousAlias
      /\ Compiler!WellFormed' <=> Compiler!WellFormed
  BY <1>1, DeclarationStays
<1>6. CASE current = Len(groups)
  <2>1. /\ verdict' = "ok" /\ current' = current /\ tried' = tried /\ calls' = calls
        /\ tries' = tries /\ visiting' = visiting /\ visited' = visited
    BY <1>6 DEF Compiler!NextGroup, Compiler!search
  <2>2. CompiledType'
    BY <1>1, <2>1, DeclarationStays DEF CompiledType
  <2>3. Collected'
    BY <1>1, <1>2, <1>4, <1>5, <1>6, <2>1 DEF Collected
  <2>4. \A k \in DOMAIN groups : Verified(k)
    BY <1>2, <1>3, <1>6
  <2> QED
    BY <1>1, <1>4, <2>1, <2>2, <2>3, <2>4 DEF Searching, SearchState
<1>7. CASE current # Len(groups) /\ Compiler!Overlapping(groups[current + 1])
  <2>1. /\ verdict' = "refused" /\ current' = current /\ tried' = tried /\ calls' = calls
        /\ tries' = tries /\ visiting' = visiting /\ visited' = visited
    BY <1>7 DEF Compiler!NextGroup, Compiler!search
  <2>2. CompiledType'
    BY <1>1, <2>1, DeclarationStays DEF CompiledType
  <2>3. Collected'
    BY <1>2, <1>5, <2>1 DEF Collected
  <2>4. ~Compiler!WellFormed
    BY <1>2, <1>7, <1>9, OverlapBreaks
  <2> QED
    BY <1>5, <2>1, <2>2, <2>3, <2>4 DEF Searching, SearchState
<1>8. CASE current # Len(groups) /\ ~Compiler!Overlapping(groups[current + 1])
  <2>1. /\ verdict' = "search" /\ current' = current + 1 /\ tried' = 0 /\ calls' = calls
        /\ tries' = [i \in Compiler!Indexes |-> 0] /\ visiting' = {} /\ visited' = {}
    BY <1>8 DEF Compiler!NextGroup
  <2>2. CompiledType'
    <3>1. current' \in 0..Len(groups)
      BY <1>8, <1>9, <2>1
    <3> QED
      BY <1>1, <2>1, <3>1, DeclarationStays DEF CompiledType
  <2>3. Collected'
    BY <1>1, <1>2, <1>4, <1>5, <1>8, <1>9, <2>1 DEF Collected
  <2>4. \A k \in DOMAIN groups : k < current' => Verified(k)
    BY <1>2, <1>3, <2>1
  <2>5. Searching'
    <3>1. ~Compiler!Overlapping(groups[current])'
      <4>1. PICK g : g = groups[current + 1]
        OBVIOUS
      <4>2. Compiler!Overlapping(g)' <=> Compiler!Overlapping(g)
        BY <1>1 DEF Compiler!Overlapping
      <4> QED
        BY <1>1, <1>8, <2>1, <4>1, <4>2
    <3>2. /\ Len(calls') = 0 /\ DOMAIN calls' = {} /\ ToSet(calls') = {}
      BY <1>2, <2>1 DEF ToSet
    <3>3. tried' <= Len(groups'[current'].members)
      BY <1>1, <1>3, <1>8, <2>1, GroupsTyped
    <3>4. Grounded(visited)'
      BY <2>1 DEF Grounded
    <3>5. \A i \in Compiler!Indexes : 0 <= Len(decl[i].dependsOn)
      BY IndexesFrom1 DEF CompiledType
    <3>6. Compiler!Indexes' = Compiler!Indexes
      BY <1>1, DeclarationStays
    <3>7. (/\ tries \in [Compiler!Indexes -> Nat]
           /\ \A i \in Compiler!Indexes : tries[i] <= Len(decl[i].dependsOn)
           /\ \A i \in Compiler!Indexes \ (visiting \cup visited) : tries[i] = 0)'
      BY <1>1, <2>1, <3>5, <3>6
    <3> QED
      BY <2>1, <3>1, <3>2, <3>3, <3>4, <3>7 DEF Searching, SearchState
  <2> QED
    BY <1>1, <1>4, <2>1, <2>2, <2>3, <2>4, <2>5
<1> QED
  BY <1>6, <1>7, <1>8

LEMMA SearchStays ==
  ASSUME decl' = decl, groups' = groups, past' = past, current' = current
  PROVE  \A t, path, passed, done :
           SearchState(t, path, passed, done)' <=> SearchState(t, path, passed, done)
<1> SUFFICES ASSUME NEW t, NEW path, NEW passed, NEW done
             PROVE  SearchState(t, path, passed, done)' <=> SearchState(t, path, passed, done)
  OBVIOUS
<1>1. Compiler!Indexes' = Compiler!Indexes
  BY DeclarationStays
<1>2. \A i, j : Compiler!Needs(i, j)' <=> Compiler!Needs(i, j)
  BY DeclarationStays
<1>3. Grounded(done)' <=> Grounded(done)
  BY DeclarationStays
<1>4. \A i, m : Prerequisite(i, m)' = Prerequisite(i, m)
  BY DeclarationStays
<1>5. MembersAt(current)' = MembersAt(current)
  BY DEF MembersAt
<1>6. Compiler!Overlapping(groups[current])' <=> Compiler!Overlapping(groups[current])
  BY DEF Compiler!Overlapping
<1> QED
  BY <1>1, <1>2, <1>3, <1>4, <1>5, <1>6 DEF SearchState

\* What holds of the group that is searched.
LEMMA SearchFacts ==
  ASSUME CompiledInv, verdict = "search"
  PROVE  /\ CompiledType /\ Kept /\ HasGroups /\ ~Compiler!AmbiguousAlias /\ past = Len(decl)
         /\ current \in DOMAIN groups
         /\ visiting = ToSet(calls) /\ SearchState(tried, calls, tries, visited)
         /\ MembersAt(current) \subseteq Compiler!Indexes
         /\ \A i \in MembersAt(current) :
              /\ Compiler!Grouped(i) /\ Compiler!ValidMember(i)
              /\ Len(decl[i].dependsOn) \in Nat
              /\ \A m \in 1..Len(decl[i].dependsOn) :
                   /\ Prerequisite(i, m) \in MembersAt(current)
                   /\ Compiler!Needs(i, Prerequisite(i, m))
              /\ \A j : Compiler!Needs(i, j) =>
                   \E m \in 1..Len(decl[i].dependsOn) : j = Prerequisite(i, m)
<1>1. /\ CompiledType /\ Kept /\ HasGroups /\ ~Compiler!AmbiguousAlias /\ past = Len(decl)
      /\ visiting = ToSet(calls) /\ SearchState(tried, calls, tries, visited)
  BY DEF CompiledInv, Collected, Searching
<1>2. current \in DOMAIN groups
  <2>1. current \in 0..Len(groups) /\ current # 0 /\ Len(groups) \in Nat
        /\ DOMAIN groups = 1..Len(groups)
    BY <1>1, GroupsTyped DEF CompiledInv, CompiledType, Collected
  <2> QED
    BY <2>1
<1>3. MembersAt(current) \subseteq Compiler!Indexes
  BY <1>1, <1>2, GroupsTyped
<1>4. ASSUME NEW i \in MembersAt(current)
      PROVE  /\ Compiler!Grouped(i) /\ Compiler!ValidMember(i)
             /\ Len(decl[i].dependsOn) \in Nat
             /\ \A m \in 1..Len(decl[i].dependsOn) :
                  /\ Prerequisite(i, m) \in MembersAt(current)
                  /\ Compiler!Needs(i, Prerequisite(i, m))
             /\ \A j : Compiler!Needs(i, j) =>
                  \E m \in 1..Len(decl[i].dependsOn) : j = Prerequisite(i, m)
  <2>1. i \in 1..past /\ Compiler!Grouped(i) /\ Compiler!ValidMember(i)
    BY <1>1, <1>2 DEF Kept
  <2>2. DeclarationOf(decl) /\ i \in Compiler!Indexes
    BY <1>1, <1>3 DEF CompiledType
  <2>3. Len(decl[i].dependsOn) \in Nat
    BY <2>2, IndexesFrom1
  <2>4. \A m \in 1..Len(decl[i].dependsOn) : Compiler!Needs(i, Prerequisite(i, m))
    BY <1>1, <2>1, <2>2, ValidNeeds
  <2>5. \A m \in 1..Len(decl[i].dependsOn) : Prerequisite(i, m) \in MembersAt(current)
    BY <1>1, <1>2, <2>4, NeedsWithin
  <2>6. \A j : Compiler!Needs(i, j) =>
          \E m \in 1..Len(decl[i].dependsOn) : j = Prerequisite(i, m)
    BY <1>1, <2>1, <2>2, ValidNeeds
  <2> QED
    BY <2>1, <2>3, <2>4, <2>5, <2>6
<1> QED
  BY <1>1, <1>2, <1>3, <1>4

\* A step of the search that stays in it, and one that finds a cycle.
LEMMA SearchGoesOn ==
  ASSUME CompiledInv, verdict = "search",
         decl' = decl, groups' = groups, past' = past, current' = current,
         \/ /\ verdict' = "search" /\ visiting' = ToSet(calls')
            /\ SearchState(tried', calls', tries', visited')
         \/ /\ verdict' = "refused" /\ ~Compiler!WellFormed /\ tried' \in Nat
            /\ calls' = calls /\ visiting' = visiting /\ visited' = visited
  PROVE  CompiledInv'
<1> USE DEF CompiledInv
<1>1. /\ CompiledType /\ Kept /\ HasGroups /\ ~Compiler!AmbiguousAlias /\ past = Len(decl)
      /\ MembersAt(current) \subseteq Compiler!Indexes /\ current \in DOMAIN groups
  BY SearchFacts
<1>2. (Kept' <=> Kept) /\ \A k : Verified(k)' <=> Verified(k)
  BY GroupsStay
<1>3. /\ HasGroups' <=> HasGroups
      /\ Compiler!AmbiguousAlias' <=> Compiler!AmbiguousAlias
      /\ Compiler!WellFormed' <=> Compiler!WellFormed
      /\ DeclarationOf(decl)' /\ Compiler!Indexes' = Compiler!Indexes /\ Descriptor' = Descriptor
  BY <1>1, DeclarationStays DEF CompiledType
<1>4. current # 0 /\ \A k \in DOMAIN groups : k < current => Verified(k)
  BY DEF Collected
<1>5. CASE /\ verdict' = "search" /\ visiting' = ToSet(calls')
           /\ SearchState(tried', calls', tries', visited')
  <2>1. Searching'
    BY <1>5, SearchStays DEF Searching
  <2>2. Collected'
    BY <1>1, <1>2, <1>3, <1>4, <1>5 DEF Collected
  <2>3. /\ tried' \in Nat /\ calls' \in Seq(Compiler!Indexes)
        /\ visiting' \subseteq Compiler!Indexes /\ visited' \subseteq Compiler!Indexes
    <3>1. Len(groups[current].members) \in Nat
      BY <1>1, GroupsTyped
    <3>2. /\ tried' \in Nat /\ calls' \in Seq(MembersAt(current))
          /\ visited' \subseteq MembersAt(current)
      BY <1>5, <3>1 DEF SearchState
    <3>3. ToSet(calls') \subseteq MembersAt(current)
      BY <3>2, LenProperties, ElementOfSeq DEF ToSet
    <3> QED
      BY <1>1, <1>5, <3>2, <3>3, SeqMonotonic
  <2>4. CompiledType'
    BY <1>1, <1>3, <1>5, <2>3 DEF CompiledType
  <2> QED
    BY <1>2, <1>4, <1>5, <2>1, <2>2, <2>4
<1>6. CASE /\ verdict' = "refused" /\ ~Compiler!WellFormed /\ tried' \in Nat
           /\ calls' = calls /\ visiting' = visiting /\ visited' = visited
  <2>1. Collected'
    BY <1>1, <1>3, <1>6 DEF Collected
  <2>2. CompiledType'
    BY <1>1, <1>3, <1>6 DEF CompiledType
  <2> QED
    BY <1>3, <1>6, <2>1, <2>2 DEF Searching
<1> QED
  BY <1>5, <1>6

\* A call of visit that returns at once, for the next member of the loop and for the
\* next prerequisite of the last call.
LEMMA MemberWasVisited ==
  ASSUME NEW t, NEW passed, NEW done, SearchState(t, << >>, passed, done),
         Len(groups[current].members) \in Nat, t < Len(groups[current].members),
         groups[current].members[t + 1] \in done
  PROVE  SearchState(t + 1, << >>, passed, done)
<1>1. t \in Nat /\ t + 1 \in 0..Len(groups[current].members)
  BY DEF SearchState
<1>2. \A y \in 1..(t + 1) : y \in 1..t \/ y = t + 1
  BY <1>1
<1> QED
  BY <1>1, <1>2 DEF SearchState

LEMMA PrerequisiteWasVisited ==
  ASSUME NEW t, NEW path, NEW passed, NEW done, SearchState(t, path, passed, done),
         NEW n \in Nat \ {0}, n = Len(path), NEW i \in Compiler!Indexes, i = path[n],
         Len(decl[i].dependsOn) \in Nat, passed[i] < Len(decl[i].dependsOn),
         Prerequisite(i, passed[i] + 1) \in done
  PROVE  SearchState(t, path, [passed EXCEPT ![i] = @ + 1], done)
<1>1. PICK new : new = [passed EXCEPT ![i] = @ + 1]
  OBVIOUS
<1>2. /\ new \in [Compiler!Indexes -> Nat] /\ new[i] = passed[i] + 1 /\ passed[i] \in Nat
      /\ \A j \in Compiler!Indexes : j # i => new[j] = passed[j]
  BY <1>1 DEF SearchState
<1>3. DOMAIN path = 1..n /\ n \in DOMAIN path /\ i \in ToSet(path)
  BY LenProperties DEF SearchState, ToSet
<1>4. \A j \in Compiler!Indexes : new[j] <= Len(decl[j].dependsOn)
  BY <1>2 DEF SearchState
<1>5. \A j \in Compiler!Indexes \ (ToSet(path) \cup done) : new[j] = 0
  BY <1>2, <1>3 DEF SearchState
<1>6. \A x \in DOMAIN path : \A m \in 1..new[path[x]] :
        \/ Prerequisite(path[x], m) \in done
        \/ x < Len(path) /\ Prerequisite(path[x], m) = path[x + 1]
  <2> SUFFICES ASSUME NEW x \in DOMAIN path, NEW m \in 1..new[path[x]]
               PROVE  \/ Prerequisite(path[x], m) \in done
                      \/ x < Len(path) /\ Prerequisite(path[x], m) = path[x + 1]
    OBVIOUS
  <2>1. CASE path[x] = i /\ m = passed[i] + 1
    BY <2>1
  <2>2. CASE ~(path[x] = i /\ m = passed[i] + 1)
    <3>1. path[x] \in MembersAt(current)
      BY <1>3, ElementOfSeq DEF SearchState
    <3>2. path[x] = i => m \in 1..passed[path[x]]
      BY <1>2, <2>2
    <3>3. CASE path[x] = i
      BY <3>2, <3>3 DEF SearchState
    <3>4. CASE path[x] # i
      <4>1. path[x] \in Compiler!Indexes => m \in 1..passed[path[x]]
        BY <1>2, <3>4
      <4>2. path[x] \in Compiler!Indexes \/ new[path[x]] = passed[path[x]]
        BY <1>1, <3>4 DEF SearchState
      <4> QED
        BY <4>1, <4>2 DEF SearchState
    <3> QED
      BY <3>3, <3>4
  <2> QED
    BY <2>1, <2>2
<1> QED
  BY <1>1, <1>2, <1>4, <1>5, <1>6 DEF SearchState

\* A call that goes on the path.
LEMMA MemberIsCalled ==
  ASSUME NEW t, NEW passed, NEW done, SearchState(t, << >>, passed, done),
         MembersAt(current) \subseteq Compiler!Indexes,
         Len(groups[current].members) \in Nat, t < Len(groups[current].members),
         NEW i \in MembersAt(current), i = groups[current].members[t + 1], i \notin done
  PROVE  SearchState(t + 1, Append(<< >>, i), passed, done)
<1>0. PICK path : path = Append(<< >>, i)
  OBVIOUS
<1>1. /\ path \in Seq(MembersAt(current)) /\ path # << >> /\ Len(path) = 1 /\ path[1] = i
      /\ DOMAIN path = {1} /\ ToSet(path) = {i}
  <2>1. /\ path = <<i>> /\ path \in Seq(MembersAt(current)) /\ path # << >>
        /\ Len(path) = 1 /\ path[1] = i
    BY <1>0
  <2>2. DOMAIN path = 1..1
    BY <2>1
  <2>3. DOMAIN path = {1}
    BY <2>2
  <2> QED
    BY <2>1, <2>3 DEF ToSet
<1>2. t \in Nat /\ t + 1 \in 0..Len(groups[current].members)
  BY DEF SearchState
<1>3. \A y \in 1..(t + 1) : y \in 1..t \/ y = t + 1
  BY <1>2
<1>4. \A y \in 1..(t + 1) : \/ groups[current].members[y] \in done
                            \/ path # << >> /\ groups[current].members[y] = path[1]
  BY <1>1, <1>3 DEF SearchState
<1>5. passed[i] = 0
  BY DEF SearchState, ToSet
<1>6. \A j \in Compiler!Indexes \ (ToSet(path) \cup done) : passed[j] = 0
  BY DEF SearchState, ToSet
<1>7. \A x \in DOMAIN path : \A m \in 1..passed[path[x]] : FALSE
  BY <1>1, <1>5
<1>8. \A x \in 1..(Len(path) - 1) : FALSE
  BY <1>1
<1>9. /\ ~Compiler!Overlapping(groups[current]) /\ done \subseteq MembersAt(current)
      /\ Grounded(done)
      /\ \A j \in done : \A k \in Compiler!Indexes : Compiler!Needs(j, k) => k \in done
      /\ passed \in [Compiler!Indexes -> Nat]
      /\ \A j \in Compiler!Indexes : passed[j] <= Len(decl[j].dependsOn)
  BY DEF SearchState
<1>10. /\ \A x, y \in DOMAIN path : path[x] = path[y] => x = y
       /\ \A x \in DOMAIN path : path[x] \notin done
  BY <1>1
<1>11. SearchState(t + 1, path, passed, done)
  BY <1>1, <1>2, <1>4, <1>6, <1>7, <1>8, <1>9, <1>10 DEF SearchState
<1> QED
  BY <1>0, <1>11

LEMMA PrerequisiteIsCalled ==
  ASSUME NEW t, NEW path, NEW passed, NEW done, SearchState(t, path, passed, done),
         MembersAt(current) \subseteq Compiler!Indexes,
         NEW n \in Nat \ {0}, n = Len(path), NEW i, i = path[n],
         Len(decl[i].dependsOn) \in Nat, passed[i] < Len(decl[i].dependsOn),
         NEW j \in MembersAt(current), j = Prerequisite(i, passed[i] + 1),
         Compiler!Needs(i, j), j \notin ToSet(path) \cup done
  PROVE  SearchState(t, Append(path, j), [passed EXCEPT ![i] = @ + 1], done)
<1>1. PICK new : new = [passed EXCEPT ![i] = @ + 1]
  OBVIOUS
<1>2. PICK far : far = Append(path, j)
  OBVIOUS
<1>3. /\ path \in Seq(MembersAt(current)) /\ DOMAIN path = 1..n
      /\ \A x \in 1..n : path[x] \in MembersAt(current)
  BY LenProperties, ElementOfSeq DEF SearchState
<1>4. /\ far \in Seq(MembersAt(current)) /\ far # << >> /\ Len(far) = n + 1
      /\ DOMAIN far = 1..(n + 1) /\ far[n + 1] = j
      /\ \A x \in 1..n : far[x] = path[x]
      /\ ToSet(far) = ToSet(path) \cup {j}
  BY <1>2, <1>3, Appended
<1>5. /\ i \in Compiler!Indexes /\ i \in ToSet(path) /\ n \in 1..n
      /\ new \in [Compiler!Indexes -> Nat] /\ new[i] = passed[i] + 1 /\ passed[i] \in Nat
      /\ \A k \in Compiler!Indexes : k # i => new[k] = passed[k]
      /\ j # i /\ new[j] = 0
  <2>1. i \in Compiler!Indexes /\ i \in ToSet(path) /\ n \in 1..n
    BY <1>3 DEF ToSet
  <2>2. /\ new \in [Compiler!Indexes -> Nat] /\ new[i] = passed[i] + 1 /\ passed[i] \in Nat
        /\ \A k \in Compiler!Indexes : k # i => new[k] = passed[k]
    BY <1>1, <2>1 DEF SearchState
  <2>3. j # i /\ passed[j] = 0 /\ j \in Compiler!Indexes
    BY <2>1 DEF SearchState
  <2> QED
    BY <2>1, <2>2, <2>3
<1>6. \A x \in 1..(n + 1) : x \in 1..n \/ x = n + 1
  OBVIOUS
<1>7. \A x, y \in DOMAIN far : far[x] = far[y] => x = y
  <2>1. \A x, y \in 1..n : path[x] = path[y] => x = y
    BY <1>3 DEF SearchState
  <2>2. \A x \in 1..n : path[x] # j
    BY <1>3 DEF ToSet
  <2> QED
    BY <1>4, <1>6, <2>1, <2>2
<1>8. \A x \in DOMAIN far : far[x] \notin done
  BY <1>3, <1>4, <1>6 DEF SearchState
<1>9. \A k \in Compiler!Indexes : new[k] <= Len(decl[k].dependsOn)
  <2>1. new[i] <= Len(decl[i].dependsOn)
    BY <1>5
  <2>2. \A k \in Compiler!Indexes : passed[k] <= Len(decl[k].dependsOn)
    BY DEF SearchState
  <2> QED
    BY <1>5, <2>1, <2>2
<1>10. \A k \in Compiler!Indexes \ (ToSet(far) \cup done) : new[k] = 0
  BY <1>4, <1>5 DEF SearchState
<1>11. \A x \in DOMAIN far : \A m \in 1..new[far[x]] :
         \/ Prerequisite(far[x], m) \in done
         \/ (x < Len(far) /\ Prerequisite(far[x], m) = far[x + 1])
  <2> SUFFICES ASSUME NEW x \in 1..(n + 1), NEW m \in 1..new[far[x]]
               PROVE  \/ Prerequisite(far[x], m) \in done
                      \/ x < n + 1 /\ Prerequisite(far[x], m) = far[x + 1]
    BY <1>4
  <2>1. CASE x = n + 1
    BY <1>4, <1>5, <2>1
  <2>2. CASE x = n /\ m = passed[i] + 1
    BY <1>4, <1>5, <2>2
  <2>3. CASE x \in 1..n /\ ~(x = n /\ m = passed[i] + 1)
    <3>1. far[x] = path[x] /\ path[x] \in Compiler!Indexes /\ (path[x] = i => x = n)
      BY <1>3, <1>4, <1>5, <2>3 DEF SearchState
    <3>2. m \in 1..passed[path[x]]
      BY <1>5, <2>3, <3>1
    <3>3. \/ Prerequisite(path[x], m) \in done
          \/ x < n /\ Prerequisite(path[x], m) = path[x + 1]
      BY <1>3, <2>3, <3>2 DEF SearchState
    <3>4. x < n => x < n + 1 /\ far[x + 1] = path[x + 1]
      BY <1>4, <2>3
    <3> QED
      BY <3>1, <3>3, <3>4
  <2> QED
    BY <1>6, <2>1, <2>2, <2>3
<1>12. \A x \in 1..(Len(far) - 1) : Compiler!Needs(far[x], far[x + 1])
  <2> SUFFICES ASSUME NEW x \in 1..n  PROVE Compiler!Needs(far[x], far[x + 1])
    BY <1>4
  <2>1. CASE x = n
    BY <1>4, <1>5, <2>1
  <2>2. CASE x # n
    <3>1. x \in 1..(n - 1) /\ x + 1 \in 1..n
      BY <2>2
    <3> QED
      BY <1>4, <3>1 DEF SearchState
  <2> QED
    BY <2>1, <2>2
<1>13. /\ ~Compiler!Overlapping(groups[current]) /\ done \subseteq MembersAt(current)
       /\ t \in 0..Len(groups[current].members) /\ Grounded(done)
       /\ \A k \in done : \A l \in Compiler!Indexes : Compiler!Needs(k, l) => l \in done
  BY DEF SearchState
<1>14. \A y \in 1..t : \/ groups[current].members[y] \in done
                       \/ far # << >> /\ groups[current].members[y] = far[1]
  <2>1. far[1] = path[1]
    BY <1>4
  <2> QED
    BY <1>4, <2>1 DEF SearchState
<1>15. SearchState(t, far, new, done)
  BY <1>4, <1>5, <1>7, <1>8, <1>9, <1>10, <1>11, <1>12, <1>13, <1>14 DEF SearchState
<1> QED
  BY <1>1, <1>2, <1>15

\* A call whose loop is done leaves the path: what it was for needs only what is
\* visited.
LEMMA CallReturns ==
  ASSUME NEW t, NEW path, NEW passed, NEW done, SearchState(t, path, passed, done),
         MembersAt(current) \subseteq Compiler!Indexes,
         NEW n \in Nat \ {0}, n = Len(path), NEW i, i = path[n],
         passed[i] = Len(decl[i].dependsOn),
         \A j : Compiler!Needs(i, j) =>
           \E m \in 1..Len(decl[i].dependsOn) : j = Prerequisite(i, m)
  PROVE  /\ SearchState(t, SubSeq(path, 1, n - 1), passed, done \cup {i})
         /\ ToSet(SubSeq(path, 1, n - 1)) = ToSet(path) \ {i}
<1>2. PICK short : short = SubSeq(path, 1, n - 1)
  OBVIOUS
<1>3. /\ path \in Seq(MembersAt(current)) /\ DOMAIN path = 1..n
      /\ \A x \in 1..n : path[x] \in MembersAt(current)
  BY LenProperties, ElementOfSeq DEF SearchState
<1>4. /\ short \in Seq(MembersAt(current)) /\ Len(short) = n - 1 /\ DOMAIN short = 1..(n - 1)
      /\ \A x \in 1..(n - 1) : short[x] = path[x]
  <2>1. /\ n - 1 \in Int /\ 1 \in Int
        /\ \A x \in 1..(n - 1) : path[x] \in MembersAt(current)
    BY <1>3
  <2>2. /\ short \in Seq(MembersAt(current))
        /\ Len(short) = IF 1 <= n - 1 THEN (n - 1) - 1 + 1 ELSE 0
        /\ \A x \in 1..((n - 1) - 1 + 1) : short[x] = path[1 + x - 1]
    BY <1>2, <2>1, SubSeqProperties
  <2>3. Len(short) = n - 1
    BY <2>2
  <2>4. \A x \in 1..(n - 1) : 1 + x - 1 = x /\ x \in 1..((n - 1) - 1 + 1)
    OBVIOUS
  <2>5. \A x \in 1..(n - 1) : short[x] = path[x]
    BY <2>2, <2>4
  <2>6. DOMAIN short = 1..(n - 1)
    BY <2>2, <2>3, LenProperties
  <2> QED
    BY <2>2, <2>3, <2>5, <2>6
<1>5. /\ i \in MembersAt(current) /\ i \in Compiler!Indexes /\ i \notin done
      /\ \A x \in 1..n : path[x] = i <=> x = n
      /\ \A x \in 1..n : x \in 1..(n - 1) \/ x = n
  <2>1. n \in 1..n /\ \A x \in 1..n : x \in 1..(n - 1) \/ x = n
    OBVIOUS
  <2> QED
    BY <1>3, <2>1 DEF SearchState
<1>6. ToSet(short) = ToSet(path) \ {i}
  <2>1. \A x \in 1..(n - 1) : x \in 1..n /\ x # n
    OBVIOUS
  <2>2. \A e : (\E x \in 1..(n - 1) : e = path[x]) <=> (\E x \in 1..n : e = path[x]) /\ e # i
    BY <1>5, <2>1
  <2>3. ToSet(short) = {path[x] : x \in 1..(n - 1)}
    BY <1>4 DEF ToSet
  <2>4. ToSet(path) = {path[x] : x \in 1..n}
    BY <1>3 DEF ToSet
  <2> QED
    BY <2>2, <2>3, <2>4
<1>7. \A j : Compiler!Needs(i, j) => j \in done
  <2> SUFFICES ASSUME NEW j, Compiler!Needs(i, j)  PROVE j \in done
    OBVIOUS
  <2>1. PICK m \in 1..passed[path[n]] : j = Prerequisite(path[n], m)
    OBVIOUS
  <2>2. n \in DOMAIN path /\ ~(n < Len(path))
    BY <1>3
  <2> QED
    BY <2>1, <2>2 DEF SearchState
<1>8. \A k \in done : \A l \in Compiler!Indexes : Compiler!Needs(k, l) => l \in done
  BY DEF SearchState
<1>9. \A k \in done \cup {i} : \A l \in Compiler!Indexes :
        Compiler!Needs(k, l) => l \in done \cup {i}
  BY <1>7, <1>8
<1>10. Grounded(done \cup {i})
  <2> SUFFICES ASSUME NEW S \in (SUBSET (done \cup {i})) \ {{}}
               PROVE  \E k \in S : \A l \in S : ~Compiler!Needs(k, l)
    BY DEF Grounded
  <2>1. CASE S \cap done = {}
    <3>1. S = {i}
      BY <2>1
    <3> QED
      BY <1>5, <1>7, <3>1
  <2>2. CASE S \cap done # {}
    <3>1. S \cap done \in (SUBSET done) \ {{}}
      BY <2>2
    <3>2. PICK k \in S \cap done : \A l \in S \cap done : ~Compiler!Needs(k, l)
      BY <3>1 DEF SearchState, Grounded
    <3>3. ~Compiler!Needs(k, i)
      BY <1>5, <1>8
    <3> QED
      BY <3>2, <3>3
  <2> QED
    BY <2>1, <2>2
<1>11. \A x \in 1..(n - 1) : x \in 1..n /\ x < n /\ x + 1 \in 1..n
                            /\ (x < n - 1 \/ x + 1 = n) /\ (x < n - 1 => x + 1 \in 1..(n - 1))
  OBVIOUS
<1>12. \A x \in DOMAIN short : \A m \in 1..passed[short[x]] :
         \/ Prerequisite(short[x], m) \in done \cup {i}
         \/ x < Len(short) /\ Prerequisite(short[x], m) = short[x + 1]
  <2> SUFFICES ASSUME NEW x \in 1..(n - 1), NEW m \in 1..passed[path[x]]
               PROVE  \/ Prerequisite(path[x], m) \in done \cup {i}
                      \/ x < n - 1 /\ Prerequisite(path[x], m) = short[x + 1]
    BY <1>4
  <2>1. \/ Prerequisite(path[x], m) \in done
        \/ Prerequisite(path[x], m) = path[x + 1]
    BY <1>3, <1>11 DEF SearchState
  <2>2. path[x + 1] = i \/ (x < n - 1 /\ short[x + 1] = path[x + 1])
    BY <1>4, <1>5, <1>11
  <2> QED
    BY <2>1, <2>2
<1>13. /\ \A x, y \in DOMAIN short : short[x] = short[y] => x = y
       /\ \A x \in DOMAIN short : short[x] \notin done \cup {i}
  <2>1. \A x \in 1..(n - 1) : x \in 1..n /\ short[x] = path[x] /\ short[x] # i
    BY <1>4, <1>5, <1>11
  <2>2. /\ \A x, y \in 1..n : path[x] = path[y] => x = y
        /\ \A x \in 1..n : path[x] \notin done
    BY <1>3 DEF SearchState
  <2> QED
    BY <1>4, <2>1, <2>2
<1>14. \A x \in 1..(Len(short) - 1) : Compiler!Needs(short[x], short[x + 1])
  <2> SUFFICES ASSUME NEW x \in 1..((n - 1) - 1)  PROVE Compiler!Needs(short[x], short[x + 1])
    BY <1>4
  <2>1. x \in 1..(n - 1) /\ x + 1 \in 1..(n - 1)
    OBVIOUS
  <2> QED
    BY <1>4, <2>1 DEF SearchState
<1>15. \A y \in 1..t : \/ groups[current].members[y] \in done \cup {i}
                       \/ short # << >> /\ groups[current].members[y] = short[1]
  <2> SUFFICES ASSUME NEW y \in 1..t, groups[current].members[y] = path[1]
               PROVE  \/ path[1] = i
                      \/ short # << >> /\ path[1] = short[1]
    BY DEF SearchState
  <2>1. CASE n = 1
    BY <2>1
  <2>2. CASE n # 1
    <3>1. 1 \in 1..(n - 1) /\ Len(short) # 0
      BY <1>4, <2>2
    <3> QED
      BY <1>4, <3>1
  <2> QED
    BY <2>1, <2>2
<1>16. \A k \in Compiler!Indexes \ (ToSet(short) \cup (done \cup {i})) : passed[k] = 0
  BY <1>6 DEF SearchState
<1>17. /\ ~Compiler!Overlapping(groups[current]) /\ done \cup {i} \subseteq MembersAt(current)
       /\ t \in 0..Len(groups[current].members)
       /\ passed \in [Compiler!Indexes -> Nat]
       /\ \A k \in Compiler!Indexes : passed[k] <= Len(decl[k].dependsOn)
  BY <1>5 DEF SearchState
<1>18. SearchState(t, short, passed, done \cup {i})
  BY <1>4, <1>9, <1>10, <1>12, <1>13, <1>14, <1>15, <1>16, <1>17 DEF SearchState
<1> QED
  BY <1>2, <1>6, <1>18

\* A call for what is on the path closes a cycle.
LEMMA CycleBreaks ==
  ASSUME NEW t, NEW path, NEW passed, NEW done, SearchState(t, path, passed, done),
         MembersAt(current) \subseteq Compiler!Indexes,
         NEW n \in Nat \ {0}, n = Len(path),
         NEW j \in ToSet(path), Compiler!Needs(path[n], j)
  PROVE  ~Compiler!WellFormed
<1>1. /\ DOMAIN path = 1..n /\ \A x \in 1..n : path[x] \in Compiler!Indexes
  BY LenProperties, ElementOfSeq DEF SearchState
<1>2. PICK first \in 1..n : j = path[first]
  BY <1>1 DEF ToSet
<1> DEFINE S == {path[x] : x \in first..n}
<1>3. S \in (SUBSET Compiler!Indexes) \ {{}}
  <2>1. \A x \in first..n : x \in 1..n
    OBVIOUS
  <2>2. first \in first..n
    OBVIOUS
  <2> QED
    BY <1>1, <2>1, <2>2
<1>4. ASSUME NEW i \in S  PROVE \E k \in S : Compiler!Needs(i, k)
  <2>1. PICK x \in first..n : i = path[x]
    OBVIOUS
  <2>2. CASE x = n
    <3>1. j \in S
      BY <1>2
    <3> QED
      BY <2>1, <2>2, <3>1
  <2>3. CASE x # n
    <3>1. x \in 1..(n - 1) /\ x + 1 \in first..n
      BY <2>3
    <3>2. Compiler!Needs(path[x], path[x + 1])
      BY <3>1 DEF SearchState
    <3> QED
      BY <2>1, <3>1, <3>2
  <2> QED
    BY <2>2, <2>3
<1> HIDE DEF S
<1>5. ~Compiler!NoCycle
  BY <1>3, <1>4 DEF Compiler!NoCycle
<1> QED
  BY <1>5 DEF Compiler!WellFormed

LEMMA VisitMemberKeeps ==
  ASSUME CompiledInv, Compiler!VisitMember  PROVE CompiledInv'
<1>1. /\ verdict = "search" /\ calls = << >> /\ tried < Len(groups[current].members)
      /\ decl' = decl /\ groups' = groups /\ past' = past /\ current' = current
      /\ tries' = tries /\ visited' = visited /\ tried' = tried + 1
      /\ Compiler!Call(groups[current].members[tried + 1])
  BY DEF Compiler!VisitMember
<1>2. /\ CompiledType /\ SearchState(tried, << >>, tries, visited)
      /\ visiting = {} /\ current \in DOMAIN groups
      /\ MembersAt(current) \subseteq Compiler!Indexes
      /\ Len(groups[current].members) \in Nat /\ tried \in Nat
  <2>1. ToSet(calls) = {}
    BY <1>1 DEF ToSet
  <2> QED
    BY <1>1, <2>1, SearchFacts, GroupsTyped DEF CompiledType
<1>3. PICK i : i = groups[current].members[tried + 1]
  OBVIOUS
<1>4. i \in MembersAt(current)
  <2>1. DOMAIN groups[current].members = 1..Len(groups[current].members)
    BY <1>2, GroupsTyped
  <2> QED
    BY <1>1, <1>2, <1>3, <2>1 DEF MembersAt, ToSet
<1>5. CASE i \in visited
  <2>1. UNCHANGED <<verdict, calls, visiting>>
    BY <1>1, <1>2, <1>3, <1>5 DEF Compiler!Call
  <2>2. SearchState(tried', calls', tries', visited')
    BY <1>1, <1>2, <1>3, <1>5, <2>1, MemberWasVisited
  <2>3. visiting' = ToSet(calls')
    BY <1>1, <2>1, SearchFacts
  <2> QED
    BY <1>1, <2>1, <2>2, <2>3, SearchGoesOn
<1>6. CASE i \notin visited
  <2>1. calls' = Append(calls, i) /\ visiting' = visiting \cup {i} /\ UNCHANGED verdict
    BY <1>1, <1>2, <1>3, <1>6 DEF Compiler!Call
  <2>2. SearchState(tried', calls', tries', visited')
    BY <1>1, <1>2, <1>3, <1>4, <1>6, <2>1, MemberIsCalled
  <2>3. visiting' = ToSet(calls')
    <3>1. calls \in Seq(MembersAt(current)) /\ visiting = ToSet(calls)
      BY <1>1, <1>2, SearchFacts, EmptySeq
    <3>2. ToSet(Append(calls, i)) = ToSet(calls) \cup {i}
      BY <1>4, <3>1, Appended
    <3> QED
      BY <2>1, <3>1, <3>2
  <2> QED
    BY <1>1, <2>1, <2>2, <2>3, SearchGoesOn
<1> QED
  BY <1>5, <1>6

LEMMA VisitKeeps ==
  ASSUME CompiledInv, Compiler!Visit  PROVE CompiledInv'
<1>1. /\ verdict = "search" /\ calls # << >>
      /\ decl' = decl /\ groups' = groups /\ past' = past /\ current' = current
      /\ tried' = tried
  BY DEF Compiler!Visit
<1>2. /\ CompiledType /\ SearchState(tried, calls, tries, visited)
      /\ visiting = ToSet(calls) /\ MembersAt(current) \subseteq Compiler!Indexes
      /\ calls \in Seq(MembersAt(current)) /\ tried \in Nat
  BY <1>1, SearchFacts DEF SearchState, CompiledType
<1>3. PICK n \in Nat \ {0} : n = Len(calls)
  BY <1>1, <1>2, EmptySeq
<1>4. PICK i : i = calls[n]
  OBVIOUS
<1>5. i \in MembersAt(current) /\ i \in Compiler!Indexes
  BY <1>2, <1>3, <1>4, ElementOfSeq
<1>6. /\ Len(decl[i].dependsOn) \in Nat
      /\ \A m \in 1..Len(decl[i].dependsOn) :
           Prerequisite(i, m) \in MembersAt(current) /\ Compiler!Needs(i, Prerequisite(i, m))
      /\ \A j : Compiler!Needs(i, j) =>
           \E m \in 1..Len(decl[i].dependsOn) : j = Prerequisite(i, m)
  BY <1>1, <1>5, SearchFacts
<1>7. \/ /\ tries[i] < Len(decl[i].dependsOn) /\ tries' = [tries EXCEPT ![i] = @ + 1]
         /\ Compiler!Call(Compiler!Canonical(decl[i].dependsOn[tries'[i]])) /\ UNCHANGED visited
      \/ tries[i] = Len(decl[i].dependsOn) /\ Compiler!Leave(i) /\ UNCHANGED <<verdict, tries>>
  BY <1>3, <1>4 DEF Compiler!Visit, Compiler!Last
<1>8. CASE /\ tries[i] < Len(decl[i].dependsOn) /\ tries' = [tries EXCEPT ![i] = @ + 1]
           /\ Compiler!Call(Compiler!Canonical(decl[i].dependsOn[tries'[i]]))
           /\ UNCHANGED visited
  <2>1. tries[i] \in Nat /\ tries'[i] = tries[i] + 1
    BY <1>2, <1>5, <1>8 DEF SearchState
  <2>2. PICK j : j = Prerequisite(i, tries[i] + 1)
    OBVIOUS
  <2>3. Compiler!Call(j)
    BY <1>8, <2>1, <2>2 DEF Prerequisite
  <2>4. j \in MembersAt(current) /\ Compiler!Needs(i, j)
    BY <1>6, <1>8, <2>1, <2>2
  <2>5. CASE j \in visiting
    <3>1. verdict' = "refused" /\ UNCHANGED <<calls, visiting>>
      BY <2>3, <2>5 DEF Compiler!Call
    <3>2. ~Compiler!WellFormed
      BY <1>2, <1>3, <1>4, <2>4, <2>5, CycleBreaks
    <3> QED
      BY <1>1, <1>2, <1>8, <3>1, <3>2, SearchGoesOn
  <2>6. CASE j \notin visiting /\ j \in visited
    <3>1. UNCHANGED <<verdict, calls, visiting>>
      BY <2>3, <2>6 DEF Compiler!Call
    <3>2. SearchState(tried, calls, [tries EXCEPT ![i] = @ + 1], visited)
      BY <1>2, <1>3, <1>4, <1>5, <1>6, <1>8, <2>2, <2>6, PrerequisiteWasVisited
    <3>3. SearchState(tried', calls', tries', visited')
      BY <1>1, <1>8, <3>1, <3>2
    <3> QED
      BY <1>1, <1>2, <3>1, <3>3, SearchGoesOn
  <2>7. CASE j \notin visiting /\ j \notin visited
    <3>1. calls' = Append(calls, j) /\ visiting' = visiting \cup {j} /\ UNCHANGED verdict
      BY <2>3, <2>7 DEF Compiler!Call
    <3>2. j \notin ToSet(calls) \cup visited
      BY <1>2, <2>7
    <3>3. SearchState(tried, Append(calls, j), [tries EXCEPT ![i] = @ + 1], visited)
      BY <1>2, <1>3, <1>4, <1>6, <1>8, <2>2, <2>4, <3>2, PrerequisiteIsCalled
    <3>4. SearchState(tried', calls', tries', visited')
      BY <1>1, <1>8, <3>1, <3>3
    <3>5. visiting' = ToSet(calls')
      BY <1>2, <2>4, <3>1, Appended
    <3> QED
      BY <1>1, <3>1, <3>4, <3>5, SearchGoesOn
  <2> QED
    BY <2>5, <2>6, <2>7
<1>9. CASE tries[i] = Len(decl[i].dependsOn) /\ Compiler!Leave(i) /\ UNCHANGED <<verdict, tries>>
  <2>1. /\ calls' = SubSeq(calls, 1, n - 1)
        /\ visited' = visited \cup {i} /\ visiting' = visiting \ {i}
    BY <1>3, <1>9 DEF Compiler!Leave, Compiler!Front
  <2>2. /\ SearchState(tried, SubSeq(calls, 1, n - 1), tries, visited \cup {i})
        /\ ToSet(SubSeq(calls, 1, n - 1)) = ToSet(calls) \ {i}
    BY <1>2, <1>3, <1>4, <1>6, <1>9, CallReturns
  <2>3. SearchState(tried', calls', tries', visited') /\ visiting' = ToSet(calls')
    BY <1>1, <1>2, <1>9, <2>1, <2>2
  <2> QED
    BY <1>1, <1>9, <2>3, SearchGoesOn
<1> QED
  BY <1>7, <1>8, <1>9

-----------------------------------------------------------------------------

LEMMA CompiledStays ==
  ASSUME CompiledInv, UNCHANGED <<decl, compiledVars>>  PROVE CompiledInv'
<1> USE DEF CompiledInv
<1>1. /\ decl' = decl /\ verdict' = verdict /\ groups' = groups /\ past' = past
      /\ current' = current /\ tried' = tried /\ calls' = calls /\ tries' = tries
      /\ visiting' = visiting /\ visited' = visited
  BY DEF compiledVars
<1>2. (Kept' <=> Kept) /\ \A k : Verified(k)' <=> Verified(k)
  BY <1>1, GroupsStay
<1>3. /\ HasGroups' <=> HasGroups
      /\ Compiler!AmbiguousAlias' <=> Compiler!AmbiguousAlias
      /\ Compiler!WellFormed' <=> Compiler!WellFormed
  BY <1>1, DeclarationStays
<1>4. CompiledType'
  BY <1>1, DeclarationStays DEF CompiledType
<1>5. Collected'
  BY <1>1, <1>2, <1>3 DEF Collected
<1>6. Searching'
  BY <1>1, SearchStays DEF Searching
<1> QED
  BY <1>1, <1>2, <1>3, <1>4, <1>5, <1>6

LEMMA CompiledStep ==
  ASSUME CompiledInv, [PlannedNext]_allVars  PROVE CompiledInv'
<1>1. CASE Compiler!Compile
  BY <1>1, StartKeeps, AddBindingKeeps, NextGroupKeeps, VisitMemberKeeps, VisitKeeps
     DEF Compiler!Compile
<1>2. CASE UNCHANGED <<decl, compiledVars>>
  BY <1>2, CompiledStays
<1>3. Name => UNCHANGED <<decl, compiledVars>>
  BY DEF Name, Naming!Project, Naming!Ask, Naming!AddName, Naming!Locate, Naming!Infer
<1> QED
  BY <1>1, <1>2, <1>3 DEF PlannedNext, Invoke, Settled, allVars

\* At every step of the loops and of visit the groups, the search and what it has
\* verified agree with the declaration.
THEOREM CompiledInvariant ==  PlannedSpec => []CompiledInv
<1>1. PlannedInit => CompiledInv
  BY CompiledAtInit
<1>2. CompiledInv /\ [PlannedNext]_allVars => CompiledInv'
  BY CompiledStep
<1> QED
  BY <1>1, <1>2, PTL DEF PlannedSpec

\* What an accepted plan with or without groups satisfies.
LEMMA Compiled ==
  ASSUME CompiledInv, verdict = "ok"
  PROVE  Compiler!GroupsPartition /\ (HasGroups => Compiler!WellFormed)
<1> USE DEF CompiledInv
<1>1. CASE HasGroups
  <2>1. /\ CompiledType /\ Kept /\ past = Len(decl) /\ ~Compiler!AmbiguousAlias
        /\ \A k \in DOMAIN groups : Verified(k)
    BY <1>1 DEF Collected
  <2> QED
    BY <2>1, VerifiedWellFormed, KeptPartition
<1>2. CASE ~HasGroups
  <2>1. groups = << >> /\ Len(groups) = 0 /\ DOMAIN groups = {}
    BY <1>2 DEF Collected
  <2> QED
    BY <1>2, <2>1 DEF Compiler!GroupsPartition, HasGroups
<1> QED
  BY <1>1, <1>2

\* GroupPlan's promise for every declaration that CompilePlan hands on: the two loops
\* and the recursive visit refuse exactly the plans with groups that are not well
\* formed, prerequisite cycles among them, and what they accept is a partition.
THEOREM Compiles ==  PlannedSpec => []CompilesWellFormed
<1>1. CompiledInv => CompilesWellFormed
  BY Compiled DEF CompiledInv, CompilesWellFormed, Compiler!CompilesWellFormed, HasGroups
<1> QED
  BY <1>1, CompiledInvariant, PTL

-----------------------------------------------------------------------------
(* Names.                                                                  *)

Claim(k) == Naming!Declared[k]

\* The table after c claims: a name is a field or was claimed for its path.
TableAt(c, table) ==
  /\ fields \subseteq DOMAIN table /\ \A f \in fields : table[f] = f
  /\ \A n \in DOMAIN table \ fields :
       n # "" /\ \E k \in 1..c : Claim(k)[1] = n /\ Claim(k)[2] = table[n]
  /\ \A k \in 1..c : Claim(k)[1] \notin fields \cup {""} =>
       Claim(k)[1] \in DOMAIN table /\ table[Claim(k)[1]] = Claim(k)[2]

\* Binding k was located at n.
Located(k, n) == ~decl[k].param /\ decl[k].in = n

\* The places after l bindings: a place belongs to the bindings located there, to one
\* path unless it is among several.
PlacesAt(l, table, several) ==
  /\ \A n \in DOMAIN table :
       n # "" /\ \E k \in 1..l : Located(k, n) /\ decl[k].path = table[n]
  /\ \A k \in 1..l, n \in DOMAIN table \ several :
       Located(k, n) => decl[k].path = table[n]
  /\ \A k \in 1..l : ~decl[k].param /\ decl[k].in # "" => decl[k].in \in DOMAIN table
  /\ \A n \in several : \E k, m \in 1..l :
       Located(k, n) /\ Located(m, n) /\ decl[k].path # decl[m].path

NamingInv ==
  /\ DeclarationOf(decl)
  /\ state \in {"unnamed", "names", "projected", "refused"}
  /\ state = "unnamed" => claimed = 0 /\ located = 0 /\ places = << >> /\ shared = {}
  /\ state = "names" =>
       /\ "" \notin fields /\ aliases \in Aliases
       /\ claimed \in 0..Len(Naming!Declared) /\ located \in 0..Len(decl)
       /\ located = 0 \/ claimed = Len(Naming!Declared)
       /\ TableAt(claimed, paths) /\ PlacesAt(located, places, shared)
  /\ Naming!OrderFree

\* What the bindings and the aliases claim is what is declared.
LEMMA ClaimsDeclared ==
  ASSUME DeclarationOf(decl), aliases \in Aliases
  PROVE  /\ Len(Naming!Declared) \in Nat
         /\ Naming!Claims = {Claim(k) : k \in 1..Len(Naming!Declared)}
<1>1. PICK n \in Nat : n = Len(decl) /\ DOMAIN decl = 1..n
  BY IndexesFrom1 DEF Compiler!Indexes
<1>2. PICK half : half = [k \in 1..(2 * n) |->
        <<IF k % 2 = 1 THEN decl[(k + 1) \div 2].path ELSE decl[(k + 1) \div 2].alias,
          decl[(k + 1) \div 2].path>>]
  OBVIOUS
<1>3. Naming!Declared = half \o aliases
  BY <1>1, <1>2 DEF Naming!Declared
<1>4. PICK S : \A k \in 1..(2 * n) : half[k] \in S
  <2>1. \A k \in 1..(2 * n) : half[k] \in {half[x] : x \in 1..(2 * n)}
    OBVIOUS
  <2> QED
    BY <2>1
<1>5. PICK T : T = S \cup ToSet(aliases)
  OBVIOUS
<1>6. /\ half \in Seq(T) /\ Len(half) = 2 * n
      /\ aliases \in Seq(T) /\ DOMAIN aliases = 1..Len(aliases) /\ Len(aliases) \in Nat
  <2>1. half \in [1..(2 * n) -> T] /\ 2 * n \in Nat
    BY <1>2, <1>4, <1>5
  <2>2. half \in Seq(T) /\ Len(half) = 2 * n
    BY <2>1
  <2>3. aliases \in Seq(ToSet(aliases))
    BY NamesAssumption
  <2> QED
    BY <1>5, <2>2, <2>3, LenProperties, SeqMonotonic
<1>7. PICK a \in Nat : a = Len(aliases)
  BY <1>6
<1>8. /\ Len(Naming!Declared) = 2 * n + a
      /\ \A k \in 1..(2 * n) : Claim(k) = half[k]
      /\ \A k \in 1..a : Claim(2 * n + k) = aliases[k]
  <2>1. PICK both : both = half \o aliases
    OBVIOUS
  <2>2. Len(both) = 2 * n + a
        /\ \A k \in 1..(2 * n + a) : both[k] = IF k <= 2 * n THEN half[k] ELSE aliases[k - 2 * n]
    <3>1. PICK m \in Nat : m = 2 * n
      OBVIOUS
    <3>2. half \in Seq(T) /\ Len(half) = m /\ aliases \in Seq(T) /\ Len(aliases) = a
      BY <1>6, <1>7, <3>1
    <3>3. Len(both) = m + a
          /\ \A k \in 1..(m + a) : both[k] = IF k <= m THEN half[k] ELSE aliases[k - m]
      BY <2>1, <3>2, ConcatProperties
    <3> QED
      BY <3>1, <3>3
  <2>3. \A k \in 1..(2 * n) : k \in 1..(2 * n + a) /\ k <= 2 * n
    BY <1>7
  <2>4. \A k \in 1..a : 2 * n + k \in 1..(2 * n + a) /\ ~(2 * n + k <= 2 * n)
                        /\ (2 * n + k) - 2 * n = k
    BY <1>7
  <2> QED
    BY <1>3, <2>1, <2>2, <2>3, <2>4 DEF Claim
<1>9. \A k \in 1..(2 * n + a) :
        k \in 1..(2 * n) \/ \E l \in 1..a : k = 2 * n + l
  <2> SUFFICES ASSUME NEW k \in 1..(2 * n + a), k \notin 1..(2 * n)
               PROVE  \E l \in 1..a : k = 2 * n + l
    OBVIOUS
  <2>1. k - 2 * n \in 1..a /\ k = 2 * n + (k - 2 * n)
    BY <1>7
  <2> QED
    BY <2>1
<1>10. ASSUME NEW c \in Naming!Claims
       PROVE  \E k \in 1..Len(Naming!Declared) : c = Claim(k)
  <2>1. CASE \E i \in 1..n : c \in {<<decl[i].path, decl[i].path>>, <<decl[i].alias, decl[i].path>>}
    <3>1. PICK i \in 1..n :
            c \in {<<decl[i].path, decl[i].path>>, <<decl[i].alias, decl[i].path>>}
      BY <2>1
    <3>2. /\ 2 * i - 1 \in 1..(2 * n) /\ (2 * i - 1) % 2 = 1 /\ ((2 * i - 1) + 1) \div 2 = i
          /\ 2 * i \in 1..(2 * n) /\ (2 * i) % 2 = 0 /\ (2 * i + 1) \div 2 = i
      OBVIOUS
    <3>3. /\ half[2 * i - 1] = <<decl[i].path, decl[i].path>>
          /\ half[2 * i] = <<decl[i].alias, decl[i].path>>
      <4>1. PICK x \in 1..(2 * n) : x = 2 * i - 1 /\ x % 2 = 1 /\ (x + 1) \div 2 = i
        BY <3>2
      <4>2. PICK y \in 1..(2 * n) : y = 2 * i /\ y % 2 # 1 /\ (y + 1) \div 2 = i
        BY <3>2
      <4>3. half[x] = <<decl[i].path, decl[i].path>> /\ half[y] = <<decl[i].alias, decl[i].path>>
        BY <1>2, <4>1, <4>2
      <4> QED
        BY <4>1, <4>2, <4>3
    <3>4. 2 * i - 1 \in 1..(2 * n + a) /\ 2 * i \in 1..(2 * n + a)
      BY <1>7
    <3> QED
      BY <1>8, <3>1, <3>2, <3>3, <3>4
  <2>2. CASE \E l \in 1..a : c = aliases[l]
    <3>1. \A l \in 1..a : 2 * n + l \in 1..(2 * n + a)
      BY <1>7
    <3> QED
      BY <1>8, <2>2, <3>1
  <2>3. \/ \E i \in 1..n : c \in {<<decl[i].path, decl[i].path>>, <<decl[i].alias, decl[i].path>>}
        \/ \E l \in 1..a : c = aliases[l]
    BY <1>1, <1>6, <1>7 DEF Naming!Claims, Naming!ToSet
  <2> QED
    BY <2>1, <2>2, <2>3
<1>11. ASSUME NEW k \in 1..Len(Naming!Declared)
       PROVE  Claim(k) \in Naming!Claims
  <2>1. CASE k \in 1..(2 * n)
    <3>1. PICK i \in 1..n : i = (k + 1) \div 2
      <4>1. (k + 1) \div 2 \in 1..n
        BY <2>1
      <4> QED
        BY <4>1
    <3>2. half[k] \in {<<decl[i].path, decl[i].path>>, <<decl[i].alias, decl[i].path>>}
      BY <1>2, <2>1, <3>1
    <3> QED
      BY <1>1, <1>8, <2>1, <3>2 DEF Naming!Claims, Naming!ToSet
  <2>2. CASE \E l \in 1..a : k = 2 * n + l
    BY <1>6, <1>7, <1>8, <2>2 DEF Naming!Claims, Naming!ToSet
  <2> QED
    BY <1>8, <1>9, <2>1, <2>2
<1>12. 2 * n + a \in Nat
  BY <1>7
<1> QED
  BY <1>8, <1>10, <1>11, <1>12

\* What is declared stays through the loops, and so what it means.
LEMMA NamesStay ==
  ASSUME decl' = decl, fields' = fields, aliases' = aliases
  PROVE  /\ Naming!Declared' = Naming!Declared
         /\ \A k : Claim(k)' = Claim(k)
         /\ \A k, n : Located(k, n)' <=> Located(k, n)
         /\ Naming!Claims' = Naming!Claims /\ Naming!Names' = Naming!Names
         /\ \A n : Naming!Meanings(n)' = Naming!Meanings(n)
         /\ \A n : Naming!Sources(n)' = Naming!Sources(n)
         /\ \A c, table : TableAt(c, table)' <=> TableAt(c, table)
         /\ \A l, table, several : PlacesAt(l, table, several)' <=> PlacesAt(l, table, several)
<1>1. Naming!Declared' = Naming!Declared
  BY DEF Naming!Declared
<1>2. \A k : Claim(k)' = Claim(k)
  BY <1>1 DEF Claim
<1>3. Naming!Claims' = Naming!Claims
  BY DEF Naming!Claims
<1>4. Naming!Names' = Naming!Names
  BY <1>3 DEF Naming!Names
<1>5. \A n : Naming!Meanings(n)' = Naming!Meanings(n)
  BY <1>3 DEF Naming!Meanings
<1>6. \A n : Naming!Sources(n)' = Naming!Sources(n)
  BY DEF Naming!Sources
<1>7. \A k, n : Located(k, n)' <=> Located(k, n)
  BY DEF Located
<1>8. \A c, table : TableAt(c, table)' <=> TableAt(c, table)
  BY <1>2 DEF TableAt
<1>9. \A l, table, several : PlacesAt(l, table, several)' <=> PlacesAt(l, table, several)
  <2> SUFFICES ASSUME NEW l, NEW table, NEW several
               PROVE  PlacesAt(l, table, several)' <=> PlacesAt(l, table, several)
    OBVIOUS
  <2> DEFINE One == \A n \in DOMAIN table :
               n # "" /\ \E k \in 1..l : Located(k, n) /\ decl[k].path = table[n]
             Two == \A k \in 1..l, n \in DOMAIN table \ several :
               Located(k, n) => decl[k].path = table[n]
             Three == \A k \in 1..l :
               ~decl[k].param /\ decl[k].in # "" => decl[k].in \in DOMAIN table
             Four == \A n \in several : \E k, m \in 1..l :
               Located(k, n) /\ Located(m, n) /\ decl[k].path # decl[m].path
  <2>1. One' <=> One
    BY <1>7
  <2>2. Two' <=> Two
    BY <1>7
  <2>3. Three' <=> Three
    OBVIOUS
  <2>4. Four' <=> Four
    BY <1>7
  <2>5. PlacesAt(l, table, several) <=> One /\ Two /\ Three /\ Four
    BY DEF PlacesAt
  <2>6. PlacesAt(l, table, several)' <=> (One /\ Two /\ Three /\ Four)'
    BY DEF PlacesAt
  <2> HIDE DEF One, Two, Three, Four
  <2> QED
    BY <2>1, <2>2, <2>3, <2>4, <2>5, <2>6
<1> QED
  BY <1>1, <1>2, <1>3, <1>4, <1>5, <1>6, <1>7, <1>8, <1>9

LEMMA NamingFacts ==
  ASSUME NamingInv, state = "names"
  PROVE  /\ DeclarationOf(decl) /\ "" \notin fields /\ aliases \in Aliases
         /\ TableAt(claimed, paths) /\ PlacesAt(located, places, shared)
         /\ Len(decl) \in Nat /\ DOMAIN decl = 1..Len(decl)
         /\ Len(Naming!Declared) \in Nat
         /\ Naming!Claims = {Claim(k) : k \in 1..Len(Naming!Declared)}
         /\ claimed \in 0..Len(Naming!Declared) /\ claimed \in Nat
         /\ located \in 0..Len(decl) /\ located \in Nat
         /\ located = 0 \/ claimed = Len(Naming!Declared)
<1>1. /\ DeclarationOf(decl) /\ "" \notin fields /\ aliases \in Aliases
      /\ TableAt(claimed, paths) /\ PlacesAt(located, places, shared)
      /\ claimed \in 0..Len(Naming!Declared) /\ located \in 0..Len(decl)
      /\ located = 0 \/ claimed = Len(Naming!Declared)
  BY DEF NamingInv
<1>2. Len(decl) \in Nat /\ DOMAIN decl = 1..Len(decl)
  BY <1>1, IndexesFrom1 DEF Compiler!Indexes
<1>3. /\ Len(Naming!Declared) \in Nat
      /\ Naming!Claims = {Claim(k) : k \in 1..Len(Naming!Declared)}
  BY <1>1, ClaimsDeclared
<1>4. claimed \in Nat /\ located \in Nat
  <2> SUFFICES ASSUME NEW m \in Nat, NEW l \in 0..m  PROVE l \in Nat
    BY <1>1, <1>2, <1>3
  <2> QED
    OBVIOUS
<1> QED
  BY <1>1, <1>2, <1>3, <1>4

\* The loops over a plan count up.
LEMMA Counts ==
  ASSUME NEW m \in Nat, NEW l \in Nat, m < l
  PROVE  /\ m + 1 \in 1..l /\ m + 1 \in 0..l /\ m + 1 \in 1..(m + 1)
         /\ \A k \in 1..(m + 1) : k \in 1..m \/ k = m + 1
         /\ \A k \in 1..m : k \in 1..(m + 1) /\ k \in 1..l
OBVIOUS

LEMMA AskKeeps ==
  ASSUME NamingInv, Naming!Ask  PROVE NamingInv'
<1>1. /\ state' = "names" /\ fields' \in Targets /\ aliases' \in Aliases
      /\ paths' = [f \in fields' |-> f] /\ decl' = decl
      /\ claimed' = 0 /\ located' = 0 /\ places' = << >> /\ shared' = {}
  BY DEF Naming!Ask, Naming!progress, NamingInv
<1>2. "" \notin fields'
  BY <1>1, NamesAssumption
<1>3. DeclarationOf(decl)' /\ DeclarationOf(decl) /\ Len(decl) \in Nat
  BY <1>1, IndexesFrom1, DeclarationStays DEF NamingInv
<1>4. Len(Naming!Declared)' \in Nat
  <2>1. ASSUME NEW s \in Aliases  PROVE s \in Seq(ToSet(s))
    BY NamesAssumption
  <2>2. PICK n \in Nat : n = Len(decl)
    BY <1>3
  <2>3. PICK half : half = [k \in 1..(2 * n) |->
          <<IF k % 2 = 1 THEN decl[(k + 1) \div 2].path ELSE decl[(k + 1) \div 2].alias,
            decl[(k + 1) \div 2].path>>]
    OBVIOUS
  <2>4. Naming!Declared' = half \o aliases'
    BY <1>1, <2>2, <2>3 DEF Naming!Declared
  <2>5. PICK T : T = {half[k] : k \in 1..(2 * n)} \cup ToSet(aliases')
    OBVIOUS
  <2>6. half \in Seq(T)
    <3>1. half \in [1..(2 * n) -> T] /\ 2 * n \in Nat
      BY <2>3, <2>5
    <3> QED
      BY <3>1
  <2>7. aliases' \in Seq(T)
    BY <1>1, <2>1, <2>5, SeqMonotonic
  <2>8. half \o aliases' \in Seq(T)
    BY <2>6, <2>7, ConcatProperties
  <2> QED
    BY <2>4, <2>8, LenProperties
<1>5. TableAt(claimed, paths)'
  BY <1>1 DEF TableAt
<1>6. PlacesAt(located, places, shared)'
  <2>1. DOMAIN places' = {}
    BY <1>1
  <2> QED
    BY <1>1, <2>1 DEF PlacesAt
<1>7. Naming!OrderFree'
  BY <1>1 DEF Naming!OrderFree
<1>8. claimed' \in 0..Len(Naming!Declared)' /\ located' \in 0..Len(decl')
  BY <1>1, <1>3, <1>4
<1> QED
  BY <1>1, <1>2, <1>3, <1>5, <1>6, <1>7, <1>8 DEF NamingInv

LEMMA AddNameKeeps ==
  ASSUME NamingInv, Naming!AddName  PROVE NamingInv'
<1>1. /\ decl' = decl /\ fields' = fields /\ aliases' = aliases
      /\ located' = located /\ places' = places /\ shared' = shared
      /\ state = "names" /\ claimed' = claimed + 1 /\ claimed < Len(Naming!Declared)
  BY DEF Naming!AddName
<1>2. /\ DeclarationOf(decl) /\ "" \notin fields /\ aliases \in Aliases
      /\ TableAt(claimed, paths) /\ PlacesAt(located, places, shared)
      /\ Len(Naming!Declared) \in Nat /\ claimed \in Nat
      /\ Naming!Claims = {Claim(k) : k \in 1..Len(Naming!Declared)}
      /\ located = 0 /\ located \in 0..Len(decl)
  <2>1. claimed # Len(Naming!Declared) \/ ~(claimed < Len(Naming!Declared))
    <3> SUFFICES ASSUME NEW m \in Nat  PROVE ~(m < m)
      BY <1>1, NamingFacts
    <3> QED
      OBVIOUS
  <2> QED
    BY <1>1, <2>1, NamingFacts
<1>3. PICK c : c = claimed + 1
  OBVIOUS
<1>7. /\ c = claimed' /\ c \in 1..Len(Naming!Declared) /\ c \in 0..Len(Naming!Declared)
      /\ c \in 1..c
      /\ \A k \in 1..c : k \in 1..claimed \/ k = c
      /\ \A k \in 1..claimed : k \in 1..c /\ k \in 1..Len(Naming!Declared)
  BY <1>1, <1>2, <1>3, Counts
<1>4. PICK n : n = Claim(c)[1]
  OBVIOUS
<1>5. PICK p : p = Claim(c)[2]
  OBVIOUS
<1>6. IF n \in fields \cup {""} THEN UNCHANGED <<state, paths>>
      ELSE IF Naming!Contradicts(n, p) THEN state' = "refused" /\ UNCHANGED paths
      ELSE paths' = Naming!With(paths, n, p) /\ UNCHANGED state
  BY <1>4, <1>5, <1>7 DEF Naming!AddName, Claim
<1>9. /\ DeclarationOf(decl)' /\ Len(Naming!Declared)' = Len(Naming!Declared)
      /\ Len(decl)' = Len(decl)
      /\ (\A k : Claim(k)' = Claim(k)) /\ (\A k, m : Located(k, m)' <=> Located(k, m))
  BY <1>1, <1>2, NamesStay, DeclarationStays
<1>10. ASSUME TableAt(c, paths'), state' = "names"  PROVE NamingInv'
  <2>1. PlacesAt(located, places, shared)' /\ TableAt(claimed, paths)'
    BY <1>1, <1>2, <1>7, <1>10, NamesStay
  <2>2. Naming!OrderFree'
    BY <1>10 DEF Naming!OrderFree
  <2>3. claimed' \in 0..Len(Naming!Declared)'
    BY <1>7, <1>9
  <2> QED
    BY <1>1, <1>2, <1>9, <1>10, <2>1, <2>2, <2>3 DEF NamingInv
<1>11. CASE n \in fields \cup {""}
  <2>1. TableAt(c, paths)
    <3>1. paths' = paths
      BY <1>6, <1>11
    <3>2. \A m \in DOMAIN paths \ fields :
            m # "" /\ \E k \in 1..c : Claim(k)[1] = m /\ Claim(k)[2] = paths[m]
      BY <1>2, <1>7 DEF TableAt
    <3>3. \A k \in 1..c : Claim(k)[1] \notin fields \cup {""} =>
            Claim(k)[1] \in DOMAIN paths /\ paths[Claim(k)[1]] = Claim(k)[2]
      BY <1>2, <1>4, <1>7, <1>11 DEF TableAt
    <3>4. fields \subseteq DOMAIN paths /\ \A f \in fields : paths[f] = f
      BY <1>2 DEF TableAt
    <3> QED
      BY <3>2, <3>3, <3>4 DEF TableAt
  <2> QED
    BY <1>1, <1>6, <1>10, <1>11, <2>1
<1>12. CASE n \notin fields \cup {""} /\ Naming!Contradicts(n, p)
  <2>1. state' = "refused" /\ n \in DOMAIN paths \ fields /\ paths[n] # p
    BY <1>6, <1>12 DEF Naming!Contradicts
  <2>2. PICK k \in 1..claimed : Claim(k)[1] = n /\ Claim(k)[2] = paths[n]
    BY <1>2, <2>1 DEF TableAt
  <2>3. Claim(k) \in Naming!Claims /\ Claim(c) \in Naming!Claims
    BY <1>2, <1>7
  <2>4. paths[n] \in Naming!Meanings(n) /\ p \in Naming!Meanings(n)
    BY <1>4, <1>5, <1>12, <2>2, <2>3 DEF Naming!Meanings
  <2>5. n \in Naming!Names
    BY <1>4, <1>12, <2>3 DEF Naming!Names
  <2>6. Naming!OrderFree'
    <3>1. \E m \in Naming!Names : \E x, y \in Naming!Meanings(m) : x # y
      BY <2>1, <2>4, <2>5
    <3>2. \E m \in Naming!Names' : \E x, y \in Naming!Meanings(m)' : x # y
      BY <1>1, <3>1, NamesStay
    <3> QED
      BY <2>1, <3>2 DEF Naming!OrderFree
  <2> QED
    BY <1>9, <2>1, <2>6 DEF NamingInv
<1>13. CASE n \notin fields \cup {""} /\ ~Naming!Contradicts(n, p)
  <2>1. state' = "names" /\ paths' = [m \in DOMAIN paths \cup {n} |-> IF m = n THEN p ELSE paths[m]]
    BY <1>1, <1>6, <1>13 DEF Naming!With
  <2>2. /\ DOMAIN paths' = DOMAIN paths \cup {n} /\ paths'[n] = p
        /\ \A m \in DOMAIN paths : paths'[m] = paths[m]
    BY <1>13, <2>1, <1>2 DEF Naming!Contradicts, TableAt
  <2>3. fields \subseteq DOMAIN paths' /\ \A f \in fields : paths'[f] = f
    BY <1>2, <2>2 DEF TableAt
  <2>4. \A m \in DOMAIN paths' \ fields :
          m # "" /\ \E k \in 1..c : Claim(k)[1] = m /\ Claim(k)[2] = paths'[m]
    <3> SUFFICES ASSUME NEW m \in DOMAIN paths' \ fields
                 PROVE  m # "" /\ \E k \in 1..c : Claim(k)[1] = m /\ Claim(k)[2] = paths'[m]
      OBVIOUS
    <3>1. CASE m = n
      BY <1>4, <1>5, <1>7, <1>13, <2>2, <3>1
    <3>2. CASE m # n
      <4>1. m \in DOMAIN paths \ fields /\ paths'[m] = paths[m]
        BY <2>2, <3>2
      <4>2. m # "" /\ \E k \in 1..claimed : Claim(k)[1] = m /\ Claim(k)[2] = paths[m]
        BY <1>2, <4>1 DEF TableAt
      <4> QED
        BY <1>7, <4>1, <4>2
    <3> QED
      BY <3>1, <3>2
  <2>5. \A k \in 1..c : Claim(k)[1] \notin fields \cup {""} =>
          Claim(k)[1] \in DOMAIN paths' /\ paths'[Claim(k)[1]] = Claim(k)[2]
    <3>1. \A k \in 1..claimed : Claim(k)[1] \notin fields \cup {""} =>
            Claim(k)[1] \in DOMAIN paths /\ paths[Claim(k)[1]] = Claim(k)[2]
      BY <1>2 DEF TableAt
    <3> QED
      BY <1>4, <1>5, <1>7, <2>2, <3>1
  <2>6. TableAt(c, paths')
    BY <2>3, <2>4, <2>5 DEF TableAt
  <2> QED
    BY <1>10, <2>1, <2>6
<1> QED
  BY <1>11, <1>12, <1>13

LEMMA LocateKeeps ==
  ASSUME NamingInv, Naming!Locate  PROVE NamingInv'
<1>1. /\ decl' = decl /\ fields' = fields /\ aliases' = aliases /\ state' = state
      /\ paths' = paths /\ claimed' = claimed /\ claimed = Len(Naming!Declared)
      /\ state = "names" /\ located' = located + 1 /\ located < Len(decl)
  BY DEF Naming!Locate
<1>2. /\ DeclarationOf(decl) /\ "" \notin fields /\ aliases \in Aliases
      /\ TableAt(claimed, paths) /\ PlacesAt(located, places, shared)
      /\ Len(decl) \in Nat /\ located \in Nat
      /\ claimed \in 0..Len(Naming!Declared)
  BY <1>1, NamingFacts
<1>3. PICK l : l = located + 1
  OBVIOUS
<1>4. /\ l = located' /\ l \in 1..Len(decl) /\ l \in 0..Len(decl)
      /\ \A k \in 1..l : k \in 1..located \/ k = l
  BY <1>1, <1>2, <1>3, Counts
<1>5. l \in 1..l /\ \A k \in 1..located : k \in 1..l
  BY <1>1, <1>2, <1>3, Counts
<1>6. PICK n : n = decl[l].in
  OBVIOUS
<1>7. PICK p : p = decl[l].path
  OBVIOUS
<1>8. /\ DeclarationOf(decl)' /\ Len(Naming!Declared)' = Len(Naming!Declared)
      /\ Len(decl)' = Len(decl)
      /\ (\A k : Claim(k)' = Claim(k)) /\ (\A k, m : Located(k, m)' <=> Located(k, m))
  BY <1>1, <1>2, NamesStay, DeclarationStays
<1>9. ASSUME PlacesAt(l, places', shared')  PROVE NamingInv'
  <2>1. TableAt(claimed, paths)' /\ PlacesAt(located, places, shared)'
    BY <1>1, <1>2, <1>4, <1>9, NamesStay
  <2>2. Naming!OrderFree'
    BY <1>1 DEF Naming!OrderFree
  <2>3. located' \in 0..Len(decl)
    BY <1>4
  <2> QED
    BY <1>1, <1>2, <1>8, <1>9, <2>1, <2>2, <2>3 DEF NamingInv
<1>10. CASE decl[l].param \/ n = ""
  <2>1. places' = places /\ shared' = shared
    BY <1>4, <1>6, <1>10 DEF Naming!Locate
  <2>2. ASSUME NEW m \in DOMAIN places  PROVE ~Located(l, m)
    <3>1. m # ""
      BY <1>2 DEF PlacesAt
    <3> QED
      BY <1>6, <1>10, <3>1 DEF Located
  <2>3. ~(~decl[l].param /\ decl[l].in # "")
    BY <1>6, <1>10
  <2>4. PlacesAt(l, places, shared)
    BY <1>2, <1>4, <1>5, <2>2, <2>3 DEF PlacesAt
  <2> QED
    BY <1>9, <2>1, <2>4
<1>11. CASE ~(decl[l].param \/ n = "")
  <2>1. /\ places' = [m \in DOMAIN places \cup {n} |-> IF m = n THEN p ELSE places[m]]
        /\ shared' = shared \cup {m \in {n} \cap DOMAIN places : places[m] # p}
    BY <1>4, <1>6, <1>7, <1>11 DEF Naming!Locate, Naming!With
  <2>2. Located(l, n) /\ \A m : Located(l, m) => m = n
    BY <1>6, <1>11 DEF Located
  <2>3. \A m \in DOMAIN places' : m # "" /\ \E k \in 1..l : Located(k, m) /\ decl[k].path = places'[m]
    <3> SUFFICES ASSUME NEW m \in DOMAIN places'
                 PROVE  m # "" /\ \E k \in 1..l : Located(k, m) /\ decl[k].path = places'[m]
      OBVIOUS
    <3>1. CASE m = n
      BY <1>5, <1>7, <1>11, <2>1, <2>2, <3>1
    <3>2. CASE m # n
      <4>1. m \in DOMAIN places /\ places'[m] = places[m]
        BY <2>1, <3>2
      <4>2. m # "" /\ \E k \in 1..located : Located(k, m) /\ decl[k].path = places[m]
        BY <1>2, <4>1 DEF PlacesAt
      <4> QED
        BY <1>5, <4>1, <4>2
    <3> QED
      BY <3>1, <3>2
  <2>4. \A k \in 1..l, m \in DOMAIN places' \ shared' :
          Located(k, m) => decl[k].path = places'[m]
    <3> SUFFICES ASSUME NEW k \in 1..l, NEW m \in DOMAIN places' \ shared', Located(k, m)
                 PROVE  decl[k].path = places'[m]
      OBVIOUS
    <3>1. CASE k = l
      BY <1>7, <2>1, <2>2, <3>1
    <3>2. CASE k \in 1..located
      <4>1. m \in DOMAIN places
        <5>1. ~decl[k].param /\ decl[k].in = m /\ m # ""
          BY <2>3 DEF Located
        <5> QED
          BY <1>2, <3>2, <5>1 DEF PlacesAt
      <4>2. m \notin shared /\ decl[k].path = places[m]
        BY <1>2, <2>1, <3>2, <4>1 DEF PlacesAt
      <4>3. m = n => places[m] = p
        BY <2>1, <4>1
      <4> QED
        BY <2>1, <4>1, <4>2, <4>3
    <3> QED
      BY <1>4, <3>1, <3>2
  <2>5. \A k \in 1..l : ~decl[k].param /\ decl[k].in # "" => decl[k].in \in DOMAIN places'
    <3>1. \A k \in 1..located : ~decl[k].param /\ decl[k].in # "" => decl[k].in \in DOMAIN places
      BY <1>2 DEF PlacesAt
    <3> QED
      BY <1>4, <1>6, <2>1, <3>1
  <2>6. \A m \in shared' : \E k, x \in 1..l :
          Located(k, m) /\ Located(x, m) /\ decl[k].path # decl[x].path
    <3> SUFFICES ASSUME NEW m \in shared'
                 PROVE  \E k, x \in 1..l :
                          Located(k, m) /\ Located(x, m) /\ decl[k].path # decl[x].path
      OBVIOUS
    <3>1. CASE m \in shared
      BY <1>2, <1>5, <3>1 DEF PlacesAt
    <3>2. CASE m = n /\ n \in DOMAIN places /\ places[n] # p
      <4>1. PICK k \in 1..located : Located(k, n) /\ decl[k].path = places[n]
        BY <1>2, <3>2 DEF PlacesAt
      <4> QED
        BY <1>5, <1>7, <2>2, <3>2, <4>1
    <3> QED
      BY <2>1, <3>1, <3>2
  <2>7. PlacesAt(l, places', shared')
    BY <2>3, <2>4, <2>5, <2>6 DEF PlacesAt
  <2> QED
    BY <1>9, <2>7
<1> QED
  BY <1>10, <1>11

\* At the end the table says what the bindings and aliases claim, as sets.
LEMMA InferKeeps ==
  ASSUME NamingInv, Naming!Infer  PROVE NamingInv'
<1>1. /\ decl' = decl /\ fields' = fields /\ aliases' = aliases /\ state' = "projected"
      /\ state = "names" /\ claimed = Len(Naming!Declared) /\ located = Len(decl)
      /\ paths' = [n \in DOMAIN paths \cup Naming!Inferred |->
                     IF n \in DOMAIN paths THEN paths[n] ELSE places[n]]
  BY DEF Naming!Infer
<1>2. /\ DeclarationOf(decl) /\ "" \notin fields /\ DOMAIN decl = 1..located
      /\ TableAt(claimed, paths) /\ PlacesAt(located, places, shared)
      /\ Naming!Claims = {Claim(k) : k \in 1..claimed}
  BY <1>1, NamingFacts
<1>3. PICK table : table = paths'
  OBVIOUS
<1>4. /\ DOMAIN table = DOMAIN paths \cup Naming!Inferred
      /\ \A n \in DOMAIN paths : table[n] = paths[n]
      /\ \A n \in DOMAIN table \ DOMAIN paths : n \in Naming!Inferred /\ table[n] = places[n]
  BY <1>1, <1>3
<1>6. \A n, p : p \in Naming!Sources(n) <=> \E k \in 1..located : Located(k, n) /\ decl[k].path = p
  BY <1>2 DEF Naming!Sources, Naming!ToSet, Located
<1>7. ASSUME NEW n \in Naming!Names
      PROVE  n \in DOMAIN table /\ Naming!Meanings(n) = {table[n]}
  <2>1. n # "" /\ (n \in fields \/ \E k \in 1..claimed : n = Claim(k)[1])
    BY <1>2 DEF Naming!Names
  <2>2. CASE n \in fields
    BY <1>2, <1>4, <2>2 DEF Naming!Meanings, TableAt
  <2>3. CASE n \notin fields
    <3>1. PICK k \in 1..claimed : n = Claim(k)[1]
      BY <2>1, <2>3
    <3>2. \A l \in 1..claimed : Claim(l)[1] = n => n \in DOMAIN paths /\ paths[n] = Claim(l)[2]
      BY <1>2, <2>1, <2>3 DEF TableAt
    <3>3. n \in DOMAIN paths /\ table[n] = paths[n]
      BY <1>4, <3>1, <3>2
    <3>4. \A p : p \in Naming!Meanings(n)
                   <=> \E l \in 1..claimed : Claim(l)[1] = n /\ p = Claim(l)[2]
      BY <1>2, <2>3 DEF Naming!Meanings
    <3>5. \A p : p \in Naming!Meanings(n) <=> p = table[n]
      BY <3>1, <3>2, <3>3, <3>4
    <3>6. Naming!Meanings(n) = {table[n]}
      BY <2>3, <3>5 DEF Naming!Meanings
    <3> QED
      BY <1>4, <3>3, <3>6
  <2> QED
    BY <2>2, <2>3
<1>8. ASSUME NEW n \in DOMAIN table \ Naming!Names
      PROVE  n # "" /\ Naming!Sources(n) = {table[n]}
  <2>1. n \notin DOMAIN paths
    <3>1. ASSUME n \in fields  PROVE FALSE
      BY <1>2, <3>1 DEF Naming!Names
    <3>2. ASSUME n \in DOMAIN paths \ fields  PROVE FALSE
      <4>1. n # "" /\ \E k \in 1..claimed : Claim(k)[1] = n
        BY <1>2, <3>2 DEF TableAt
      <4> QED
        BY <1>2, <4>1 DEF Naming!Names
    <3> QED
      BY <3>1, <3>2
  <2>2. n \in DOMAIN places /\ n \notin shared /\ table[n] = places[n]
    BY <1>4, <2>1 DEF Naming!Inferred
  <2>3. n # "" /\ \E k \in 1..located : Located(k, n) /\ decl[k].path = places[n]
    BY <1>2, <2>2 DEF PlacesAt
  <2>4. \A k \in 1..located : Located(k, n) => decl[k].path = places[n]
    BY <1>2, <2>2 DEF PlacesAt
  <2> QED
    BY <1>6, <2>2, <2>3, <2>4
<1>9. ASSUME NEW b \in Naming!ToSet(decl), b.in # "", Naming!Sources(b.in) = {b.path}
      PROVE  b.in \in DOMAIN table
  <2>1. PICK n : n = b.in
    OBVIOUS
  <2>2. PICK k \in 1..located : Located(k, n) /\ decl[k].path = b.path
    BY <1>6, <1>9, <2>1
  <2>3. n \in DOMAIN places
    <3>1. ~decl[k].param /\ decl[k].in = n /\ n # ""
      BY <1>9, <2>1, <2>2 DEF Located
    <3>2. \A x \in 1..located : ~decl[x].param /\ decl[x].in # "" => decl[x].in \in DOMAIN places
      BY <1>2 DEF PlacesAt
    <3> QED
      BY <3>1, <3>2
  <2>4. n \notin shared
    <3>1. \A x, y \in 1..located : Located(x, n) /\ Located(y, n) => decl[x].path = decl[y].path
      <4>1. \A p : p \in Naming!Sources(n) <=> p = b.path
        BY <1>9, <2>1
      <4> QED
        BY <1>6, <4>1
    <3> QED
      BY <1>2, <3>1 DEF PlacesAt
  <2> QED
    BY <1>4, <2>1, <2>3, <2>4 DEF Naming!Inferred
<1>10. Naming!OrderFree'
  <2>1. \A n \in Naming!Names' : n \in DOMAIN paths' /\ Naming!Meanings(n)' = {paths'[n]}
    BY <1>1, <1>3, <1>7, NamesStay
  <2>2. \A n \in DOMAIN paths' \ Naming!Names' :
          n # "" /\ Naming!Sources(n)' = {paths'[n]}
    BY <1>1, <1>3, <1>8, NamesStay
  <2>3. \A b \in Naming!ToSet(decl') :
          b.in # "" /\ Naming!Sources(b.in)' = {b.path} => b.in \in DOMAIN paths'
    BY <1>1, <1>3, <1>9, NamesStay
  <2> QED
    BY <1>1, <2>1, <2>2, <2>3 DEF Naming!OrderFree
<1> QED
  BY <1>1, <1>2, <1>10, DeclarationStays DEF NamingInv

LEMMA NamingStays ==
  ASSUME NamingInv, UNCHANGED <<decl, namingVars>>  PROVE NamingInv'
<1>1. /\ decl' = decl /\ fields' = fields /\ aliases' = aliases /\ state' = state
      /\ paths' = paths /\ claimed' = claimed /\ located' = located
      /\ places' = places /\ shared' = shared
  BY DEF namingVars
<1>2. Len(Naming!Declared)' = Len(Naming!Declared)
  BY <1>1, NamesStay
<1>3. /\ TableAt(claimed, paths)' <=> TableAt(claimed, paths)
      /\ PlacesAt(located, places, shared)' <=> PlacesAt(located, places, shared)
  BY <1>1, NamesStay
<1>4. Naming!OrderFree' <=> Naming!OrderFree
  <2>1. \A n \in Naming!Names : Naming!Meanings(n)' = Naming!Meanings(n)
    BY <1>1, NamesStay
  <2>2. \A n : Naming!Sources(n)' = Naming!Sources(n)
    BY <1>1, NamesStay
  <2>3. Naming!Names' = Naming!Names
    BY <1>1, NamesStay
  <2> QED
    BY <1>1, <2>1, <2>2, <2>3 DEF Naming!OrderFree
<1> QED
  BY <1>1, <1>2, <1>3, <1>4, DeclarationStays DEF NamingInv

LEMMA NamingStep ==
  ASSUME NamingInv, [PlannedNext]_allVars  PROVE NamingInv'
<1>1. CASE Naming!Project
  BY <1>1, AskKeeps, AddNameKeeps, LocateKeeps, InferKeeps DEF Naming!Project
<1>2. CASE UNCHANGED <<decl, namingVars>>
  BY <1>2, NamingStays
<1>3. Compiler!Compile => decl' = decl
  BY DEF Compiler!Compile, Compiler!Start, Compiler!AddBinding, Compiler!NextGroup,
         Compiler!VisitMember, Compiler!Visit
<1> QED
  BY <1>1, <1>2, <1>3 DEF PlannedNext, Name, Invoke, Settled, allVars

\* Projection's promise for every plan, every set of target fields and every list of
\* aliases: the table of names depends on what is declared, never on its order, and
\* a projection is refused only for a name that two fields claim.
THEOREM OrderDecidesNothing ==  PlannedSpec => []OrderFree
<1>1. PlannedInit => NamingInv
  <2> SUFFICES ASSUME PlannedInit  PROVE NamingInv
    OBVIOUS
  <2>1. DeclarationOf(decl)
    BY DeclarationsAssumption DEF PlannedInit
  <2>2. state = "unnamed" /\ claimed = 0 /\ located = 0 /\ places = << >> /\ shared = {}
    BY DEF PlannedInit, Naming!Init
  <2> QED
    BY <2>1, <2>2 DEF NamingInv, Naming!OrderFree
<1>2. NamingInv /\ [PlannedNext]_allVars => NamingInv'
  BY NamingStep
<1>3. NamingInv => OrderFree
  BY DEF NamingInv, OrderFree
<1> QED
  BY <1>1, <1>2, <1>3, PTL DEF PlannedSpec

-----------------------------------------------------------------------------
(* The bind of a plan.                                                     *)

\* The bindings whose bind was attempted, up to failures.
Done == completed \cup (IF pc \in {"bind", "nil"} THEN batch \ todo ELSE {})

Typed ==
  /\ plan \in Plans /\ selection \in Seq(Nat)
  /\ pc \in {"prepare", "bind", "open", "run", "nil", "error"}
  /\ at \in Nat \ {0}
  /\ batch \subseteq Bindings /\ todo \subseteq batch /\ completed \subseteq Bindings
  /\ times \in [Bindings -> Nat]
  /\ DOMAIN writer = Fields(plan)

Accepted == pc \notin {"prepare", "error"} => ~SelectionRefused

\* While nothing failed, attempted is what Done says.
Counted ==
  /\ \A b \in Bindings : times[b] <= 1
  /\ pc # "error" => \A b \in Bindings : b \notin Done => times[b] = 0
  /\ pc # "error" => \A b \in Done : b \notin LeftToController => times[b] = 1

\* Where the bind is, and what is completed by then.
Placed ==
  /\ pc = "prepare" => at = 1 /\ completed = {}
  /\ pc = "bind" => /\ batch \cap completed = {}
                    /\ phase \in {"seeds", "barriers", "rest"}
                    /\ phase = "seeds" => at = 1 /\ completed = {} /\ batch = Seeds
                    /\ phase = "barriers" => /\ at \in Groups
                                             /\ batch = Barriers(at, completed)
                    /\ phase = "rest" => at \notin Groups /\ batch = Bindings \ completed
                    /\ phase # "seeds" => Seeds \subseteq completed
  /\ pc \in {"open", "run"} => /\ at \in Groups
                               /\ Seeds \subseteq completed
                               /\ After(at) \subseteq completed
  /\ pc = "nil" => todo = {} /\ batch = Bindings \ completed

\* The groups before the next one are completed, the members of the others are not.
Advanced ==
  pc \notin {"error", "nil"} =>
    /\ \A k \in Groups : k < at => /\ plan.groups[k].members \subseteq completed
                                   /\ After(k) \subseteq completed
    /\ \A k \in Groups : k >= at => plan.groups[k].members \cap completed = {}

Inv == Typed /\ Accepted /\ Counted /\ Placed /\ Advanced /\ SuppliedUntouched

-----------------------------------------------------------------------------
(* What the assumptions give about the plan.                               *)

LEMMA PlanFacts ==
  ASSUME plan \in Plans
  PROVE  /\ Groups = 1..Len(plan.groups) /\ Len(plan.groups) \in Nat
         /\ \A k \in Groups : /\ plan.groups[k].members \subseteq Bindings
                              /\ plan.groups[k].members \subseteq Members
                              /\ After(k) \subseteq Bindings
                              /\ After(k) \cap Members = {}
                              /\ plan.groups[k].mode \in {"concurrent", "dependencies"}
         /\ \A k, l \in Groups : k # l => plan.groups[k].members \cap plan.groups[l].members = {}
         /\ \A b \in Members : \E k \in Groups : b \in plan.groups[k].members
         /\ LeftToController \subseteq Members
         /\ Bindings \subseteq Nat \ {0}
         /\ \A b \in Bindings : Cells(b) # {} /\ Cells(b) \subseteq Fields(plan)
<1> USE DEF Groups, Bindings, Members, MembersOf, BindingsOf, Cells, CellsOf, Fields
<1> DEFINE G == [ mode : {"concurrent", "dependencies"}, after : Seq(BindingsOf(plan)),
                  members : SUBSET BindingsOf(plan) ]
<1>1. plan.size \in Nat /\ plan.groups \in Seq(G)
  BY PlansAssumption DEF ValidPlan
<1>2. Groups = 1..Len(plan.groups) /\ Len(plan.groups) \in Nat
  BY <1>1
<1>3. \A k \in Groups : plan.groups[k] \in G
  <2> HIDE DEF G
  <2> QED BY <1>1
<1>4. \A k \in Groups : /\ plan.groups[k].members \subseteq Bindings
                        /\ After(k) \subseteq Bindings
                        /\ plan.groups[k].mode \in {"concurrent", "dependencies"}
  <2> SUFFICES ASSUME NEW k \in Groups
               PROVE  /\ plan.groups[k].members \subseteq Bindings
                      /\ After(k) \subseteq Bindings
                      /\ plan.groups[k].mode \in {"concurrent", "dependencies"}
    OBVIOUS
  <2>1. /\ plan.groups[k].members \subseteq Bindings
        /\ plan.groups[k].mode \in {"concurrent", "dependencies"}
        /\ plan.groups[k].after \in Seq(Bindings)
    BY <1>3
  <2>2. \A x \in DOMAIN plan.groups[k].after : plan.groups[k].after[x] \in Bindings
    <3> HIDE DEF Bindings
    <3> QED BY <2>1, ElementOfSeq
  <2>3. After(k) = {plan.groups[k].after[x] : x \in DOMAIN plan.groups[k].after}
    BY DEF After, ToSet
  <2> QED BY <2>1, <2>2, <2>3
<1>5. \A k \in Groups : plan.groups[k].members \subseteq Members
  OBVIOUS
<1>6. \A k \in Groups : After(k) \cap Members = {}
  BY PlansAssumption DEF ValidPlan, After
<1>7. \A k, l \in Groups : k # l => plan.groups[k].members \cap plan.groups[l].members = {}
  BY PlansAssumption DEF ValidPlan
<1>8. LeftToController \subseteq Members
  BY DEF LeftToController
<1>9. \A b \in Bindings : Cells(b) # {} /\ Cells(b) \subseteq Fields(plan)
  <2>1. \A b \in BindingsOf(plan) : plan.path[b] # {}
    BY PlansAssumption DEF ValidPlan
  <2>2. \A b \in Bindings : Cells(b) \subseteq Fields(plan)
    OBVIOUS
  <2> QED BY <2>1, <2>2
<1>10. Bindings \subseteq Nat \ {0}
  BY <1>1
<1>11. \A b \in Members : \E k \in Groups : b \in plan.groups[k].members
  OBVIOUS
<1> QED BY <1>2, <1>4, <1>5, <1>6, <1>7, <1>8, <1>9, <1>10, <1>11

\* An accepted selection names bindings outside every group.
LEMMA SeedsUngrouped ==
  ASSUME plan \in Plans, selection \in Seq(Nat), ~SelectionRefused
  PROVE  /\ Seeds \subseteq Bindings /\ Seeds \cap Members = {}
         /\ \A b \in Seeds : \A m \in Members : Cells(b) \cap Cells(m) = {}
<1>1. CASE Supplies
  <2>1. \A b \in Seeds : \E k \in DOMAIN selection : b = selection[k]
    BY <1>1 DEF Seeds, ToSet
  <2>2. \A b \in Seeds : b \in Bindings /\ \A m \in Members : Cells(b) \cap Cells(m) = {}
    BY <1>1, <2>1 DEF SelectionRefused, Overlaps
  <2>3. \A b \in Seeds : Cells(b) # {}
    BY <2>2, PlanFacts
  <2> QED BY <2>2, <2>3
<1>2. CASE ~Supplies
  BY <1>2 DEF Seeds
<1> QED BY <1>1, <1>2

\* Nothing is written to the field of a supplied binding by a binding that shares
\* no field with it.
LEMMA WrittenElsewhere ==
  ASSUME NEW S, NEW c \in DOMAIN writer, \A b \in S : c \notin Cells(b)
  PROVE  Written(S)[c] = writer[c]
BY DEF Written

LEMMA WrittenBy ==
  ASSUME NEW S, NEW c \in DOMAIN writer
  PROVE  Written(S)[c] = writer[c] \/ Written(S)[c] \in S
<1>1. CASE \E b \in S : c \in Cells(b)
  <2> DEFINE w == CHOOSE b \in S : c \in Cells(b)
  <2>1. w \in S
    BY <1>1
  <2> QED BY <1>1, <2>1 DEF Written
<1>2. CASE ~ \E b \in S : c \in Cells(b)
  BY <1>2 DEF Written
<1> QED BY <1>1, <1>2

-----------------------------------------------------------------------------
(* The steps.                                                              *)

LEMMA InitInv == Init => Inv
<1> SUFFICES ASSUME Init PROVE Inv
  OBVIOUS
<1>1. plan \in Plans /\ selection \in Seq(Nat)
  BY SelectionsArePaths DEF Init
<1>2. Typed /\ Accepted
  BY <1>1 DEF Init, Typed, Accepted
<1>3. Counted /\ Placed
  BY DEF Init, Counted, Placed, Done
<1>4. Advanced
  BY <1>1, PlanFacts DEF Init, Advanced
<1>5. SuppliedUntouched
  <2> SUFFICES ASSUME NEW b \in Seeds \cap Bindings, NEW c \in Cells(b)
               PROVE  writer[c] \notin Members
    BY DEF SuppliedUntouched
  <2>1. c \in Fields(plan)
    BY <1>1, PlanFacts
  <2>2. writer[c] = 0
    BY <2>1 DEF Init
  <2>3. 0 \notin Members
    BY <1>1, PlanFacts
  <2> QED BY <2>2, <2>3
<1> QED BY <1>2, <1>3, <1>4, <1>5 DEF Inv

\* What does not change while the input stays.
LEMMA SameInput ==
  ASSUME UNCHANGED input
  PROVE  /\ plan' = plan /\ selection' = selection /\ Bindings' = Bindings /\ Groups' = Groups
         /\ Members' = Members /\ Seeds' = Seeds /\ LeftToController' = LeftToController
         /\ SelectionRefused' = SelectionRefused /\ Fields(plan)' = Fields(plan)
         /\ \A b : Cells(b)' = Cells(b)
         /\ \A k : After(k)' = After(k)
BY DEF input, Bindings, Groups, Members, Seeds, Supplies, LeftToController, SelectionRefused,
       Overlaps, Cells, After

\* The loop that StartGroup starts.
LEMMA GroupStarts ==
  ASSUME plan \in Plans, NEW k, NEW done \in SUBSET Bindings, StartGroup(k, done)
  PROVE  /\ pc' = "bind" /\ todo' = batch' /\ batch' \subseteq Bindings
         /\ batch' \cap done = {}
         /\ phase' \in {"barriers", "rest"}
         /\ phase' = "barriers" => k \in Groups /\ batch' = Barriers(k, done)
         /\ phase' = "rest" => k \notin Groups /\ batch' = Bindings \ done
<1>1. CASE k \in Groups
  <2>1. After(k) \subseteq Bindings
    BY <1>1, PlanFacts
  <2> QED BY <1>1, <2>1 DEF StartGroup, StartBind, Barriers
<1>2. CASE k \notin Groups
  BY <1>2 DEF StartGroup, StartBind
<1> QED BY <1>1, <1>2

LEMMA StartsCounted ==
  ASSUME Inv, plan \in Plans, UNCHANGED <<input, times>>, pc' = "bind", todo' = batch',
         completed' = Done, pc # "error"
  PROVE  Counted'
<1>1. Done' = Done
  BY DEF Done
<1> QED BY <1>1, SameInput DEF Counted, Inv

LEMMA PrepareInv == Inv /\ Prepare => Inv'
<1> SUFFICES ASSUME Inv, Prepare PROVE Inv'
  OBVIOUS
<1> USE DEF Inv
<1>1. /\ plan \in Plans /\ selection \in Seq(Nat) /\ UNCHANGED input
      /\ at' = at /\ completed' = completed /\ times' = times /\ writer' = writer
      /\ at = 1 /\ completed = {} /\ pc = "prepare"
  BY DEF Prepare, Typed, Placed
<1>2. SuppliedUntouched'
  BY <1>1, SameInput DEF SuppliedUntouched
<1>3. CASE SelectionRefused \/ Refused
  <2>1. pc' = "error" /\ batch' = batch /\ todo' = todo
    BY <1>3 DEF Prepare
  <2>2. Typed' /\ Accepted'
    BY <1>1, <2>1, SameInput DEF Typed, Accepted
  <2>3. Counted' /\ Placed' /\ Advanced'
    BY <1>1, <2>1, SameInput DEF Counted, Placed, Advanced
  <2> QED BY <1>2, <2>2, <2>3
<1>4. CASE ~(SelectionRefused \/ Refused)
  <2>1. Seeds \subseteq Bindings
    BY <1>1, <1>4, SeedsUngrouped
  <2>2. \/ Seeds # {} /\ StartBind("seeds", Seeds)
        \/ Seeds = {} /\ StartGroup(1, {})
    BY <1>4 DEF Prepare
  <2>3. /\ pc' = "bind" /\ todo' = batch' /\ batch' \subseteq Bindings
        /\ phase' \in {"seeds", "barriers", "rest"}
        /\ phase' = "seeds" => batch' = Seeds
        /\ phase' = "barriers" => 1 \in Groups /\ batch' = Barriers(1, {})
        /\ phase' = "rest" => 1 \notin Groups /\ batch' = Bindings \ {}
        /\ phase' # "seeds" => Seeds = {}
    <3>1. CASE Seeds # {} /\ StartBind("seeds", Seeds)
      BY <3>1, <2>1 DEF StartBind
    <3>2. CASE Seeds = {} /\ StartGroup(1, {})
      <4>1. {} \in SUBSET Bindings
        OBVIOUS
      <4> QED BY <3>2, <4>1, <1>1, GroupStarts
    <3> QED BY <2>2, <3>1, <3>2
  <2>4. Typed' /\ Accepted'
    BY <1>1, <1>4, <2>3, SameInput DEF Typed, Accepted
  <2>5. Counted'
    BY <1>1, <2>3, StartsCounted DEF Done
  <2>6. Placed'
    BY <1>1, <2>3, SameInput DEF Placed, Barriers
  <2>7. Advanced'
    BY <1>1, SameInput DEF Advanced
  <2> QED BY <1>2, <2>4, <2>5, <2>6, <2>7
<1> QED BY <1>3, <1>4

\* Writing members or other bindings leaves what was supplied alone.
LEMMA WriteUntouched ==
  ASSUME Inv, pc # "error", pc # "prepare", UNCHANGED input,
         NEW S \in SUBSET Bindings, writer' \in {writer, Written(S)},
         S \subseteq Members \/ S \cap Members = {}
  PROVE  SuppliedUntouched'
<1>1. plan \in Plans /\ selection \in Seq(Nat) /\ ~SelectionRefused /\ DOMAIN writer = Fields(plan)
  BY DEF Inv, Typed, Accepted
<1> SUFFICES ASSUME NEW b \in Seeds, NEW c \in Cells(b), b \in Bindings
             PROVE  writer'[c] \notin Members
  BY SameInput DEF SuppliedUntouched
<1>2. writer[c] \notin Members
  BY DEF Inv, SuppliedUntouched
<1>3. c \in DOMAIN writer
  BY <1>1, PlanFacts
<1>4. CASE S \subseteq Members
  <2>1. \A m \in S : c \notin Cells(m)
    BY <1>1, <1>4, SeedsUngrouped
  <2> QED BY <1>2, <1>3, <2>1, WrittenElsewhere
<1>5. CASE S \cap Members = {}
  BY <1>2, <1>3, <1>5, WrittenBy
<1> QED BY <1>4, <1>5

LEMMA BindInv == ASSUME Inv, NEW b \in Bindings, Bind(b) PROVE Inv'
<1> USE DEF Inv
<1>1. /\ plan \in Plans /\ UNCHANGED input /\ pc = "bind" /\ b \in todo /\ b \in batch
      /\ todo' = todo \ {b} /\ times' = [times EXCEPT ![b] = @ + 1] /\ pc' \in {"bind", "error"}
      /\ phase' = phase /\ at' = at /\ batch' = batch /\ completed' = completed
      /\ todo \subseteq batch /\ times \in [Bindings -> Nat]
  BY DEF Bind, Typed
<1>2. b \notin Done
  BY <1>1 DEF Done, Placed
<1>3. times[b] = 0
  BY <1>1, <1>2 DEF Counted
<1>4. DOMAIN writer' = DOMAIN writer
  BY DEF Bind, Written
<1>5. times'[b] = 1 /\ \A x \in Bindings : x # b => times'[x] = times[x]
  BY <1>1, <1>3
<1>6. Typed'
  <2>1. times' \in [Bindings -> Nat]
    BY <1>1
  <2> QED BY <1>1, <1>4, <2>1, SameInput DEF Typed
<1>7. Accepted'
  BY <1>1, SameInput DEF Accepted
<1>8. Counted'
  <2>1. \A x \in Bindings : times'[x] <= 1
    BY <1>5 DEF Counted
  <2>2. ASSUME pc' # "error" PROVE Done' = Done \cup {b}
    BY <1>1, <2>2 DEF Done
  <2>3. Done \subseteq Bindings
    BY <1>1 DEF Done, Typed
  <2>4. ASSUME pc' # "error", NEW x \in Bindings, x \notin Done' PROVE times'[x] = 0
    BY <1>1, <1>5, <2>2, <2>4 DEF Counted
  <2>5. ASSUME pc' # "error", NEW x \in Done', x \notin LeftToController PROVE times'[x] = 1
    BY <1>1, <1>5, <2>2, <2>3, <2>5 DEF Counted
  <2> QED BY <2>1, <2>4, <2>5, SameInput, <1>1 DEF Counted
<1>9. Placed' /\ Advanced'
  BY <1>1, SameInput DEF Placed, Advanced, Barriers
<1>10. SuppliedUntouched'
  <2>1. writer' \in {writer, Written({b})}
    BY DEF Bind
  <2>2. {b} \subseteq Members \/ {b} \cap Members = {}
    OBVIOUS
  <2>3. {b} \in SUBSET Bindings
    OBVIOUS
  <2> QED BY <1>1, <2>1, <2>2, <2>3, WriteUntouched
<1> QED BY <1>6, <1>7, <1>8, <1>9, <1>10

LEMMA BindReturnsInv == Inv /\ BindReturns => Inv'
<1> SUFFICES ASSUME Inv, BindReturns PROVE Inv'
  OBVIOUS
<1> USE DEF Inv
<1>1. /\ plan \in Plans /\ UNCHANGED input /\ pc = "bind" /\ todo = {} /\ at' = at
      /\ times' = times /\ writer' = writer /\ at \in Nat \ {0}
      /\ batch \subseteq Bindings /\ completed \subseteq Bindings
      /\ selection \in Seq(Nat) /\ ~SelectionRefused
  BY DEF BindReturns, Typed, Accepted
<1>2. SuppliedUntouched' /\ Accepted'
  BY <1>1, SameInput DEF SuppliedUntouched, Accepted
<1>3. phase \in {"seeds", "barriers", "rest"}
  BY <1>1 DEF Placed
<1>4. Done = completed \cup batch
  BY <1>1 DEF Done
<1>5. CASE phase = "seeds"
  <2>1. completed' = batch /\ StartGroup(1, completed') /\ at = 1 /\ batch = Seeds
        /\ completed' = Done
    BY <1>1, <1>4, <1>5 DEF BindReturns, Placed
  <2>2. Seeds \subseteq Bindings /\ Seeds \cap Members = {}
    BY <1>1, SeedsUngrouped
  <2>3. /\ pc' = "bind" /\ todo' = batch' /\ batch' \subseteq Bindings
        /\ batch' \cap completed' = {} /\ phase' \in {"barriers", "rest"}
        /\ phase' = "barriers" => 1 \in Groups /\ batch' = Barriers(1, completed')
        /\ phase' = "rest" => 1 \notin Groups /\ batch' = Bindings \ completed'
    <3>1. completed' \in SUBSET Bindings
      BY <2>1, <2>2
    <3> QED BY <1>1, <2>1, <3>1, GroupStarts
  <2>4. Typed'
    BY <1>1, <2>1, <2>2, <2>3, SameInput DEF Typed
  <2>5. Counted'
    BY <1>1, <2>1, <2>3, StartsCounted
  <2>6. Placed'
    BY <1>1, <2>1, <2>3, SameInput DEF Placed, Barriers
  <2>7. Advanced'
    <3>1. \A k \in Groups : ~(k < 1) /\ plan.groups[k].members \cap completed' = {}
      BY <1>1, <2>1, <2>2, PlanFacts
    <3> QED BY <1>1, <2>1, <3>1, SameInput DEF Advanced
  <2> QED BY <1>2, <2>4, <2>5, <2>6, <2>7
<1>6. CASE phase = "barriers"
  <2>1. /\ completed' = Done /\ pc' = "open" /\ phase' = phase /\ batch' = batch /\ todo' = todo
        /\ at \in Groups /\ batch = Barriers(at, completed) /\ Seeds \subseteq completed
    BY <1>1, <1>4, <1>6 DEF BindReturns, Placed
  <2>2. Done' = Done
    BY <2>1 DEF Done
  <2>3. Typed'
    BY <1>1, <1>4, <2>1, SameInput DEF Typed
  <2>4. Counted'
    BY <1>1, <2>1, <2>2, SameInput DEF Counted
  <2>5. After(at) \subseteq completed' /\ Seeds \subseteq completed'
    BY <1>4, <2>1 DEF Barriers
  <2>6. Placed'
    BY <1>1, <2>1, <2>5, SameInput DEF Placed
  <2>7. Advanced'
    <3>1. ASSUME NEW k \in Groups, k >= at PROVE plan.groups[k].members \cap completed' = {}
      <4>1. plan.groups[k].members \cap completed = {}
        BY <1>1, <3>1 DEF Advanced
      <4>2. plan.groups[k].members \cap batch = {}
        BY <1>1, <2>1, PlanFacts DEF Barriers
      <4> QED BY <1>4, <2>1, <4>1, <4>2
    <3>2. ASSUME NEW k \in Groups, k < at
          PROVE plan.groups[k].members \subseteq completed' /\ After(k) \subseteq completed'
      BY <1>1, <1>4, <2>1, <3>2 DEF Advanced
    <3> QED BY <1>1, <3>1, <3>2, SameInput DEF Advanced
  <2> QED BY <1>2, <2>3, <2>4, <2>6, <2>7
<1>7. CASE phase = "rest"
  <2>1. /\ pc' = "nil" /\ completed' = completed /\ phase' = phase /\ batch' = batch /\ todo' = todo
        /\ batch = Bindings \ completed
    BY <1>1, <1>7 DEF BindReturns, Placed
  <2>2. Done' = Done
    BY <1>1, <2>1 DEF Done
  <2>3. Typed' /\ Placed' /\ Advanced'
    BY <1>1, <2>1, SameInput DEF Typed, Placed, Advanced
  <2>4. Counted'
    BY <1>1, <2>1, <2>2, SameInput DEF Counted
  <2> QED BY <1>2, <2>3, <2>4
<1> QED BY <1>3, <1>5, <1>6, <1>7

LEMMA OpenInv == Inv /\ Open => Inv'
<1> SUFFICES ASSUME Inv, Open PROVE Inv'
  OBVIOUS
<1> USE DEF Inv
<1>1. /\ UNCHANGED <<input, phase, at, batch, todo, completed, times, writer>>
      /\ pc = "open" /\ pc' \in {"run", "error"}
  BY DEF Open
<1>2. Done' = completed' /\ Done = completed
  BY <1>1 DEF Done
<1>3. Typed' /\ Accepted'
  BY <1>1, SameInput DEF Typed, Accepted
<1>4. Counted'
  BY <1>1, <1>2, SameInput DEF Counted
<1>5. Placed' /\ Advanced' /\ SuppliedUntouched'
  BY <1>1, SameInput DEF Placed, Advanced, SuppliedUntouched
<1> QED BY <1>3, <1>4, <1>5

LEMMA RunGroupInv == Inv /\ RunGroup => Inv'
<1> SUFFICES ASSUME Inv, RunGroup PROVE Inv'
  OBVIOUS
<1> USE DEF Inv
<1> DEFINE group == plan.groups[at]
<1>1. /\ plan \in Plans /\ UNCHANGED input /\ pc = "run" /\ at \in Groups /\ at \in Nat \ {0}
      /\ times \in [Bindings -> Nat] /\ completed \subseteq Bindings
      /\ Seeds \subseteq completed /\ After(at) \subseteq completed
      /\ batch \subseteq Bindings /\ todo \subseteq batch
      /\ selection \in Seq(Nat) /\ ~SelectionRefused
  BY DEF RunGroup, Typed, Placed, Accepted
<1>2. PICK attempted \in SUBSET group.members, published \in SUBSET group.members :
        /\ published \subseteq attempted
        /\ times' = [b \in Bindings |-> IF b \in attempted THEN times[b] + 1 ELSE times[b]]
        /\ writer' = Written(published)
        /\ \/ pc' = "error" /\ UNCHANGED <<at, completed, phase, batch, todo>>
           \/ /\ group.mode = "dependencies" => attempted = group.members
              /\ completed' = completed \cup group.members
              /\ at' = at + 1
              /\ StartGroup(at + 1, completed')
  <2>1. PICK o \in Outcomes(group.members, group.mode) :
          /\ times' = [b \in Bindings |-> IF b \in o.attempted THEN times[b] + 1 ELSE times[b]]
          /\ writer' = Written(o.published)
          /\ \/ o.error /\ pc' = "error" /\ UNCHANGED <<at, completed, phase, batch, todo>>
             \/ /\ ~o.error
                /\ completed' = completed \cup group.members
                /\ at' = at + 1
                /\ StartGroup(at + 1, completed')
    BY DEF RunGroup
  <2>2. /\ o.attempted \in SUBSET group.members /\ o.published \in SUBSET group.members
        /\ o.published \subseteq o.attempted
        /\ group.mode = "dependencies" /\ ~o.error => o.attempted = group.members
    BY DEF Outcomes
  <2> QED BY <2>1, <2>2
<1>3. /\ group.members \subseteq Bindings /\ group.members \subseteq Members
      /\ group.members \cap completed = {}
  BY <1>1, PlanFacts DEF Advanced
<1>4. Done = completed
  BY <1>1 DEF Done
<1>5. \A b \in Bindings : times'[b] = IF b \in attempted THEN 1 ELSE times[b]
  <2>1. \A b \in attempted : times[b] = 0
    BY <1>1, <1>2, <1>3, <1>4 DEF Counted
  <2> QED BY <1>1, <1>2, <2>1
<1>6. times' \in [Bindings -> Nat] /\ DOMAIN writer' = DOMAIN writer
  BY <1>1, <1>2 DEF Written
<1>7. SuppliedUntouched'
  <2>1. published \subseteq Members /\ published \in SUBSET Bindings
    BY <1>2, <1>3
  <2> QED BY <1>1, <1>2, <2>1, WriteUntouched
<1>8. \A b \in Bindings : times'[b] <= 1
  BY <1>1, <1>5 DEF Counted
<1>9. CASE pc' = "error" /\ UNCHANGED <<at, completed, phase, batch, todo>>
  <2>1. Typed' /\ Accepted'
    BY <1>1, <1>6, <1>9, SameInput DEF Typed, Accepted
  <2>2. Counted' /\ Placed' /\ Advanced'
    BY <1>1, <1>8, <1>9, SameInput DEF Counted, Placed, Advanced
  <2> QED BY <1>7, <2>1, <2>2
<1>10. CASE /\ group.mode = "dependencies" => attempted = group.members
            /\ completed' = completed \cup group.members
            /\ at' = at + 1
            /\ StartGroup(at + 1, completed')
  <2>1. /\ pc' = "bind" /\ todo' = batch' /\ batch' \subseteq Bindings
        /\ batch' \cap completed' = {} /\ phase' \in {"barriers", "rest"}
        /\ phase' = "barriers" => at + 1 \in Groups /\ batch' = Barriers(at + 1, completed')
        /\ phase' = "rest" => at + 1 \notin Groups /\ batch' = Bindings \ completed'
    <3>1. completed' \in SUBSET Bindings
      BY <1>1, <1>3, <1>10
    <3> QED BY <1>1, <1>10, <3>1, GroupStarts
  <2>2. Done' = completed'
    BY <2>1 DEF Done
  <2>3. Typed'
    BY <1>1, <1>3, <1>6, <1>10, <2>1, SameInput DEF Typed
  <2>4. Accepted'
    BY <1>1, SameInput DEF Accepted
  <2>5. Placed'
    BY <1>1, <1>10, <2>1, SameInput DEF Placed, Barriers
  <2>6. Counted'
    <3>1. ASSUME NEW b \in Bindings, b \notin completed' PROVE times'[b] = 0
      BY <1>1, <1>2, <1>4, <1>5, <1>10, <3>1 DEF Counted
    <3>2. ASSUME NEW b \in completed', b \notin LeftToController PROVE times'[b] = 1
      <4>1. CASE b \in group.members
        <5>1. group.mode = "dependencies"
          <6>2. group.mode \in {"concurrent", "dependencies"}
            BY <1>1, PlanFacts
          <6>3. group.mode # "concurrent"
            BY <1>1, <3>2, <4>1 DEF LeftToController
          <6> QED BY <6>2, <6>3
        <5> QED BY <1>3, <1>5, <1>10, <4>1, <5>1
      <4>2. CASE b \notin group.members
        <5>1. b \in completed /\ b \in Bindings /\ b \notin attempted
          BY <1>1, <1>2, <1>10, <3>2, <4>2
        <5>2. times[b] = 1
          BY <1>1, <1>4, <3>2, <5>1 DEF Counted
        <5> QED BY <1>5, <5>1, <5>2
      <4> QED BY <4>1, <4>2
    <3> QED BY <1>1, <1>8, <2>2, <3>1, <3>2, SameInput DEF Counted
  <2>7. Advanced'
    <3>1. ASSUME NEW k \in Groups, k < at + 1
          PROVE plan.groups[k].members \subseteq completed' /\ After(k) \subseteq completed'
      <4>1. CASE k < at
        BY <1>1, <1>10, <4>1 DEF Advanced
      <4>2. CASE k = at
        BY <1>1, <1>10, <4>2
      <4>3. k \in Nat
        BY <1>1, PlanFacts
      <4> QED BY <1>1, <3>1, <4>1, <4>2, <4>3
    <3>2. ASSUME NEW k \in Groups, k >= at + 1
          PROVE plan.groups[k].members \cap completed' = {}
      <4>1. k \in Nat /\ k >= at /\ k # at
        BY <1>1, <3>2, PlanFacts
      <4>2. plan.groups[k].members \cap completed = {}
        BY <1>1, <4>1 DEF Advanced
      <4>3. plan.groups[k].members \cap group.members = {}
        BY <1>1, <4>1, PlanFacts
      <4> QED BY <1>10, <4>2, <4>3
    <3>3. at' = at + 1
      BY <1>10
    <3>4. plan' = plan /\ Groups' = Groups /\ \A k : After(k)' = After(k)
      BY <1>1, SameInput
    <3>5. \A k \in Groups' : k < at' => /\ (plan.groups[k].members)' \subseteq completed'
                                       /\ After(k)' \subseteq completed'
      BY <3>1, <3>3, <3>4
    <3>6. \A k \in Groups' : k >= at' => (plan.groups[k].members)' \cap completed' = {}
      BY <3>2, <3>3, <3>4
    <3> QED BY <3>5, <3>6 DEF Advanced
  <2> QED BY <1>7, <2>3, <2>4, <2>5, <2>6, <2>7
<1> QED BY <1>2, <1>9, <1>10

LEMMA StutterInv == Inv /\ UNCHANGED vars => Inv'
<1> SUFFICES ASSUME Inv, UNCHANGED vars PROVE Inv'
  OBVIOUS
<1> USE DEF Inv
<1>1. /\ UNCHANGED input
      /\ UNCHANGED <<pc, phase, at, batch, todo, completed, times, writer>>
  BY DEF vars, input
<1>2. Done' = Done
  BY <1>1 DEF Done
<1>3. Typed' /\ Accepted'
  BY <1>1, SameInput DEF Typed, Accepted
<1>4. Counted'
  BY <1>1, <1>2, SameInput DEF Counted
<1>5. Placed' /\ Advanced' /\ SuppliedUntouched'
  BY <1>1, SameInput DEF Placed, Advanced, SuppliedUntouched, Barriers
<1> QED BY <1>3, <1>4, <1>5

LEMMA NextInv == Inv /\ [Next]_vars => Inv'
<1>1. Inv /\ Returned => Inv'
  BY StutterInv DEF Returned
<1> QED BY <1>1, PrepareInv, BindReturnsInv, OpenInv, RunGroupInv, StutterInv, BindInv DEF Next

\* Until a plan is bound there is none.
Unbound == /\ plan = Linked(<< >>, << >>) /\ invocation = {}
           /\ at = 1 /\ phase = "seeds" /\ batch = {} /\ todo = {} /\ completed = {}

PlannedInv == IF pc = "compile" THEN Unbound ELSE Inv

\* A bind starts as GroupedBind says, with the plan that was compiled.
LEMMA InvokeInv ==  PlannedInv /\ Invoke => PlannedInv'
<1> SUFFICES ASSUME PlannedInv, Invoke  PROVE PlannedInv'
  OBVIOUS
<1>1. (Init => Inv)'
  BY InitInv, PTL
<1>2. Unbound
  BY DEF Invoke, PlannedInv
<1>3. Init'
  BY <1>2 DEF Invoke, Unbound, Init, Bindings
<1>4. pc' = "prepare"
  BY DEF Invoke
<1> QED
  BY <1>1, <1>3, <1>4 DEF PlannedInv

LEMMA BindStaysBound ==  pc # "compile" /\ PlannedInv /\ [Next]_vars => PlannedInv'
<1> SUFFICES ASSUME pc # "compile", Inv, [Next]_vars  PROVE PlannedInv'
  BY DEF PlannedInv
<1>1. Inv'
  BY NextInv
<1>2. pc' # "compile"
  BY <1>1 DEF Inv, Typed
<1> QED
  BY <1>1, <1>2 DEF PlannedInv

LEMMA UnboundStays ==  PlannedInv /\ UNCHANGED vars => PlannedInv'
<1> SUFFICES ASSUME PlannedInv, UNCHANGED vars  PROVE PlannedInv'
  OBVIOUS
<1>1. CASE pc = "compile"
  BY <1>1 DEF PlannedInv, Unbound, vars
<1>2. CASE pc # "compile"
  BY <1>2, BindStaysBound
<1> QED
  BY <1>1, <1>2

LEMMA PlannedInvAlways ==  PlannedSpec => []PlannedInv
<1>1. PlannedInit => PlannedInv
  BY DEF PlannedInit, PlannedInv, Unbound
<1>2. PlannedInv /\ [PlannedNext]_allVars => PlannedInv'
  <2> SUFFICES ASSUME PlannedInv, [PlannedNext]_allVars  PROVE PlannedInv'
    OBVIOUS
  <2>1. UNCHANGED vars \/ Invoke \/ (pc # "compile" /\ Next)
    BY DEF PlannedNext, Name, Settled, allVars
  <2> QED
    BY <2>1, InvokeInv, BindStaysBound, UnboundStays
<1> QED
  BY <1>1, <1>2, PTL DEF PlannedSpec

-----------------------------------------------------------------------------
(* The properties of a bind.                                               *)

\* Without a plan there is nothing to bind or to supply.
LEMMA UnboundIsEmpty ==
  ASSUME Unbound  PROVE Bindings = {} /\ Seeds = {}
<1>1. plan.size = 0
  BY DEF Unbound, Linked
<1> QED
  BY <1>1 DEF Unbound, Bindings, BindingsOf, Seeds, Supplies

\* What is linked to a plan that compiled is a plan as a bind needs it.
LEMMA LinkedValid ==
  ASSUME CompiledInv, verdict = "ok"  PROVE ValidPlan(Linked(decl, groups))
<1> DEFINE p == Linked(decl, groups)
           G == [ mode : {"concurrent", "dependencies"}, after : Seq(BindingsOf(p)),
                  members : SUBSET BindingsOf(p) ]
<1>1. CompiledType /\ DeclarationOf(decl) /\ Compiler!GroupsPartition
  BY Compiled DEF CompiledInv, CompiledType
<1>2. /\ Len(decl) \in Nat /\ DOMAIN decl = Compiler!Indexes
      /\ p.size = Len(decl) /\ BindingsOf(p) = Compiler!Indexes
  BY <1>1, IndexesFrom1 DEF Linked, BindingsOf, Compiler!Indexes
<1>3. /\ DOMAIN p.groups = DOMAIN groups
      /\ \A k \in DOMAIN groups :
           /\ p.groups[k] = [ mode |-> groups[k].mode, after |-> groups[k].after,
                              members |-> MembersAt(k) ]
           /\ p.groups[k].after = groups[k].after
           /\ p.groups[k].members = MembersAt(k)
  BY DEF Linked, MembersAt
<1>4. ASSUME NEW k \in DOMAIN groups
      PROVE  /\ groups[k].mode \in {"concurrent", "dependencies"}
             /\ groups[k].after \in Seq(Compiler!Indexes)
             /\ IsInjective(groups[k].after)
             /\ \A b \in ToSet(groups[k].after) : ~Compiler!Grouped(b)
             /\ \A b \in MembersAt(k) : b \in Compiler!Indexes /\ Compiler!Grouped(b)
  <2>1. groups[k] \in Descriptor
    BY <1>1, GroupsTyped, ElementOfSeq DEF CompiledType
  <2>2. groups[k].mode \in {decl[i].mode : i \in Compiler!Indexes}
    BY <2>1 DEF Descriptor
  <2>3. \A i \in Compiler!Indexes : decl[i].mode \in {"concurrent", "dependencies"}
    BY <1>1 DEF DeclarationOf, Compiler!Indexes
  <2>4. ToSet(groups[k].after) = Compiler!ToSet(groups[k].after)
        /\ MembersAt(k) = Compiler!ToSet(groups[k].members)
    BY DEF MembersAt, ToSet, Compiler!ToSet
  <2>5. ToSet(groups[k].after) \subseteq Compiler!Indexes /\ groups[k].after \in Seq(Nat)
    BY <1>1, <2>1, <2>4 DEF Compiler!GroupsPartition, Descriptor
  <2>6. groups[k].after \in Seq(Compiler!Indexes)
    BY <2>5 DEF ToSet
  <2>7. IsInjective(groups[k].after)
    BY <1>1 DEF Compiler!GroupsPartition, Compiler!IsInjective, IsInjective
  <2> QED
    BY <1>1, <2>2, <2>3, <2>4, <2>6, <2>7, GroupsTyped DEF Compiler!GroupsPartition
<1>5. p.groups \in Seq(G)
  <2>1. ASSUME NEW k \in DOMAIN groups  PROVE p.groups[k] \in G
    <3>1. /\ groups[k].mode \in {"concurrent", "dependencies"}
          /\ groups[k].after \in Seq(BindingsOf(p))
          /\ MembersAt(k) \in SUBSET BindingsOf(p)
      BY <1>2, <1>4
    <3>2. p.groups[k] = [ mode |-> groups[k].mode, after |-> groups[k].after,
                          members |-> MembersAt(k) ]
      BY <1>3
    <3> HIDE DEF p
    <3> QED
      BY <3>1, <3>2
  <2>2. p.groups = [k \in DOMAIN groups |-> p.groups[k]]
    BY DEF Linked
  <2>3. DOMAIN groups = 1..Len(groups) /\ Len(groups) \in Nat
    BY <1>1, GroupsTyped
  <2>4. p.groups \in [1..Len(groups) -> G]
    <3> HIDE DEF G, p
    <3> QED
      BY <2>1, <2>2, <2>3
  <2> HIDE DEF G, p
  <2> QED
    BY <2>3, <2>4 DEF Seq
<1>6. \A k, l \in DOMAIN p.groups :
        k # l => p.groups[k].members \cap p.groups[l].members = {}
  <2>1. \A k \in DOMAIN groups : MembersAt(k) = Compiler!ToSet(groups[k].members)
    BY DEF MembersAt, ToSet, Compiler!ToSet
  <2>2. \A k, l \in DOMAIN groups : k # l => MembersAt(k) \cap MembersAt(l) = {}
    BY <1>1, <2>1 DEF Compiler!GroupsPartition
  <2> HIDE DEF p
  <2>3. /\ DOMAIN p.groups = DOMAIN groups
        /\ \A k \in DOMAIN groups : p.groups[k].members = MembersAt(k)
    BY <1>3
  <2> QED
    BY <2>2, <2>3
<1>7. \A k \in DOMAIN p.groups : ToSet(p.groups[k].after) \cap MembersOf(p) = {}
  <2> HIDE DEF p
  <2>1. \A b \in MembersOf(p) : \E k \in DOMAIN groups : b \in MembersAt(k)
    BY <1>3 DEF MembersOf
  <2>2. \A b \in MembersOf(p) : Compiler!Grouped(b)
    BY <1>4, <2>1
  <2>3. \A k \in DOMAIN groups : \A b \in ToSet(p.groups[k].after) : ~Compiler!Grouped(b)
    BY <1>3, <1>4
  <2> QED
    BY <1>3, <2>2, <2>3
<1>8. \A k \in DOMAIN p.groups : IsInjective(p.groups[k].after)
  <2> HIDE DEF p
  <2> QED
    BY <1>3, <1>4
<1>9. /\ p.priority \in [BindingsOf(p) -> Nat]
      /\ DOMAIN p.path = BindingsOf(p) /\ DOMAIN p.marker = BindingsOf(p)
      /\ \A b \in BindingsOf(p) : p.path[b] # {}
  BY <1>1, <1>2 DEF Linked, DeclarationOf
<1> HIDE DEF p
<1> QED
  BY <1>2, <1>5, <1>6, <1>7, <1>8, <1>9 DEF ValidPlan, p

\* What GroupedBind assumes of its plans is no restriction: whatever the bindings and
\* their order, the plan that compilation accepts satisfies it.
THEOREM CompiledPlansBind ==  PlannedSpec => [](verdict = "ok" => ValidPlan(Linked(decl, groups)))
BY LinkedValid, CompiledInvariant, PTL

\* Each binding of any plan is bound at most once, and exactly once when Bind
\* returns nil: completed and the subset of the loop never overlap.
THEOREM BindsOnce ==  PlannedSpec => []BoundOnce
<1>1. Inv => BoundOnce
  <2> SUFFICES ASSUME Inv PROVE BoundOnce
    OBVIOUS
  <2>1. \A b \in Bindings : times[b] <= 1
    BY DEF Inv, Counted
  <2>2. ASSUME pc = "nil", NEW b \in Bindings \ LeftToController PROVE times[b] = 1
    <3>1. b \in Done
      BY <2>2 DEF Inv, Placed, Done
    <3> QED BY <2>2, <3>1 DEF Inv, Counted
  <2> QED BY <2>1, <2>2 DEF BoundOnce
<1>2. PlannedInv => BoundOnce
  BY <1>1, UnboundIsEmpty DEF PlannedInv, BoundOnce
<1> QED
  BY <1>2, PlannedInvAlways, PTL

\* For any number of groups and any barriers they share, Open is called when what
\* the group waits for is bound.
THEOREM OpensLate ==  PlannedSpec => OpensAfterBarriers
<1> DEFINE Opens ==
      (pc = "open" /\ pc' # "open") =>
        /\ \A b \in Seeds : times[b] = 1
        /\ \A k \in 1..at : \A b \in After(k) : times[b] = 1
        /\ \A k \in 1..(at - 1) : plan.groups[k].members \subseteq completed
<1>1. PlannedInv => [Opens]_vars
  <2> SUFFICES ASSUME Inv, pc = "open" PROVE Opens
    BY DEF PlannedInv, vars
  <2> USE DEF Inv
  <2>1. /\ plan \in Plans /\ selection \in Seq(Nat) /\ ~SelectionRefused
        /\ at \in Nat \ {0} /\ at \in Groups
        /\ Seeds \subseteq completed /\ After(at) \subseteq completed
    BY DEF Typed, Accepted, Placed
  <2>2. \A b \in completed : b \notin LeftToController => times[b] = 1
    BY DEF Counted, Done
  <2>3. \A b \in Seeds : times[b] = 1
    BY <2>1, <2>2, SeedsUngrouped, PlanFacts
  <2>4. ASSUME NEW k \in 1..at PROVE \A b \in After(k) : times[b] = 1
    <3>1. k \in Groups /\ (k < at \/ k = at)
      BY <2>1, PlanFacts
    <3>2. After(k) \subseteq completed
      BY <2>1, <3>1 DEF Advanced
    <3>3. After(k) \cap LeftToController = {}
      BY <2>1, <3>1, PlanFacts
    <3> QED BY <2>2, <3>2, <3>3
  <2>5. ASSUME NEW k \in 1..(at - 1) PROVE plan.groups[k].members \subseteq completed
    <3>1. k \in Groups /\ k < at
      BY <2>1, PlanFacts
    <3> QED BY <3>1 DEF Advanced
  <2> QED BY <2>3, <2>4, <2>5
<1>2. [][Opens]_vars <=> OpensAfterBarriers
  BY DEF OpensAfterBarriers
<1> QED BY <1>1, <1>2, PlannedInvAlways, PTL

\* Whatever paths the caller selects, no group writes a field or a marker of a
\* binding it supplied.
THEOREM SuppliedSafe ==  PlannedSpec => []SuppliedUntouched
<1>1. PlannedInv => SuppliedUntouched
  BY UnboundIsEmpty DEF PlannedInv, Inv, SuppliedUntouched
<1> QED
  BY <1>1, PlannedInvAlways, PTL
=============================================================================
