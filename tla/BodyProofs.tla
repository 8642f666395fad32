----------------------------- MODULE BodyProofs -----------------------------
(***************************************************************************)
(* Proofs about BodyPlan and BodyDecode, for every set of types, type      *)
(* graph, caller and request, and for JSON documents of any size.          *)
(*                                                                         *)
(* Compilation.  A sweep only ever adds flags that some type below the     *)
(* node has, so the flags stay within Exact.  In a sweep that has changed  *)
(* nothing so far, every visited node already holds what a visit gathers;  *)
(* once all of them have been visited, a flag missing at a node would be   *)
(* missing at every node below it, and so at the node the flag comes from. *)
(* So a plan in the cache is exact, and every answer is made by an exact   *)
(* plan of its caller's type (BInv).                                       *)
(*                                                                         *)
(* Documents.  JSON says what the documents are, Traversals and Readings   *)
(* that the recursive operators unfold by the definitions of BodyDecode;   *)
(* BodyDecodeMC defines operators that do.  Each agreement of two          *)
(* traversals is a predicate of one document, proved of it from the        *)
(* shallower ones (ValueMatches, ValueRequires, ValueShows) and so of all  *)
(* of them by induction on their depth; Ind, the induction, is proved from *)
(* the finite sets' well-foundedness.  Types are recursive, values are not *)
(* bounded by them: a value is of a type if some set of pairs closed under *)
(* its parts has the two (Typed).                                          *)
(* A member may come again, so each agreement is of what two traversals    *)
(* make of the same document and of earlier values that differ in marks at *)
(* most: the elements and entries these hold are alike too (HeldSlots,     *)
(* HeldEntries), and so is what is decoded over them (OverAlike).          *)
(***************************************************************************)
EXTENDS BodyDecode, Integers, FiniteSetTheorems, TLAPS
-----------------------------------------------------------------------------
(* Compilation and the cache: BodyPlan                                     *)

M(c) == Memo(shape, root[c], Meta(c))
E(c, t) == Exact(shape, t, Meta(c))
Within(c) ==
    \A t \in M(c) : /\ flags[c][t] \subseteq E(c, t)
                    /\ Built(Graph, t, Meta(c)) \subseteq flags[c][t]
Steady(c) == \A t \in M(c) \ todo[c] : Gather(Graph, flags[c], t, Meta(c)) \subseteq flags[c][t]

CallerInv(c) ==
    /\ pc[c] \in {"load", "build"} => flags[c] = NoFlags
    /\ pc[c] = "sweep" => /\ ~Fails(shape, root[c], Meta(c))
                          /\ Within(c)
                          /\ ~changed[c] => Steady(c)
    /\ pc[c] = "publish" => ExactPlan(Own(c), shape, root[c], Meta(c))

CacheInv == \A r \in Types : published[r] # NoPlan => ExactPlan(published[r], shape, r, FALSE)

IInv ==
    /\ shape \in DOMAIN Shapes
    /\ root \in [Callers -> Types]
    /\ flags \in [Callers -> [Types -> SUBSET Flags]]
    /\ DOMAIN pc = Callers /\ DOMAIN held = Callers /\ DOMAIN published = Types
    /\ DOMAIN changed = Callers /\ DOMAIN todo = Callers
    /\ \A c \in Callers : CallerInv(c)
    /\ CacheInv
    /\ HeldExact
-----------------------------------------------------------------------------
LEMMA NodesAreTypes ==
    ASSUME NEW n \in DOMAIN Shapes, NEW t \in Types, NEW meta \in BOOLEAN
    PROVE  Nodes(Shapes[n], t, meta) \subseteq Types
BY ShapesAssumption DEF Nodes, Kept, Fields

LEMMA MemoUnfold ==
    ASSUME NEW n \in DOMAIN Shapes, NEW r \in Types, NEW meta \in BOOLEAN
    PROVE  Memo(n, r, meta) =
             {t \in Types : \A S \in SUBSET Types :
                               r \in S /\ Closed(Shapes[n], S, meta) => t \in S}
BY DEF Memo, MemoOfType

LEMMA ExactUnfold ==
    ASSUME NEW n \in DOMAIN Shapes, NEW r \in Types, NEW meta \in BOOLEAN
    PROVE  Exact(n, r, meta) = UNION {Built(Shapes[n], t, meta) \cup Local(Shapes[n], t, meta) :
                                        t \in Memo(n, r, meta)}
BY DEF Exact, ExactOfType

LEMMA MemoFacts ==
    ASSUME NEW n \in DOMAIN Shapes, NEW r \in Types, NEW meta \in BOOLEAN
    PROVE  /\ r \in Memo(n, r, meta)
           /\ Memo(n, r, meta) \subseteq Types
           /\ \A t \in Memo(n, r, meta) : Nodes(Shapes[n], t, meta) \subseteq Memo(n, r, meta)
           /\ \A S \in SUBSET Types : r \in S /\ Closed(Shapes[n], S, meta)
                                         => Memo(n, r, meta) \subseteq S
<1>1. Memo(n, r, meta) = {t \in Types : \A S \in SUBSET Types :
                               r \in S /\ Closed(Shapes[n], S, meta) => t \in S}
  BY MemoUnfold
<1>2. r \in Memo(n, r, meta) /\ Memo(n, r, meta) \subseteq Types
  BY <1>1
<1>3. \A S \in SUBSET Types : r \in S /\ Closed(Shapes[n], S, meta) => Memo(n, r, meta) \subseteq S
  BY <1>1
<1>4. ASSUME NEW t \in Memo(n, r, meta), NEW k \in Nodes(Shapes[n], t, meta)
      PROVE  k \in Memo(n, r, meta)
  <2>1. k \in Types
    BY <1>2, NodesAreTypes
  <2>2. ASSUME NEW S \in SUBSET Types, r \in S, Closed(Shapes[n], S, meta)
        PROVE  k \in S
    <3>1. t \in S
      BY <1>3, <2>2
    <3>2. QED
      BY <2>2, <3>1 DEF Closed
  <2>3. QED
    BY <1>1, <2>1, <2>2
<1>5. QED
  BY <1>2, <1>3, <1>4

\* What a type reaches, anything that reaches the type reaches too.
LEMMA MemoBelow ==
    ASSUME NEW n \in DOMAIN Shapes, NEW r \in Types, NEW meta \in BOOLEAN,
           NEW t \in Memo(n, r, meta)
    PROVE  Memo(n, t, meta) \subseteq Memo(n, r, meta)
<1>1. Memo(n, r, meta) \in SUBSET Types /\ Closed(Shapes[n], Memo(n, r, meta), meta)
  BY MemoFacts DEF Closed
<1>2. t \in Types
  BY <1>1
<1>3. QED
  BY <1>1, <1>2, MemoFacts

LEMMA ExactFacts ==
    ASSUME NEW n \in DOMAIN Shapes, NEW t \in Types, NEW meta \in BOOLEAN
    PROVE  /\ Built(Shapes[n], t, meta) \subseteq Exact(n, t, meta)
           /\ Local(Shapes[n], t, meta) \subseteq Exact(n, t, meta)
           /\ \A k \in Nodes(Shapes[n], t, meta) : Exact(n, k, meta) \subseteq Exact(n, t, meta)
<1>1. t \in Memo(n, t, meta)
  BY MemoFacts
<1>2. Built(Shapes[n], t, meta) \cup Local(Shapes[n], t, meta) \subseteq Exact(n, t, meta)
  BY <1>1, ExactUnfold
<1>3. ASSUME NEW k \in Nodes(Shapes[n], t, meta)
      PROVE  Exact(n, k, meta) \subseteq Exact(n, t, meta)
  <2>1. k \in Types /\ k \in Memo(n, t, meta)
    BY <1>1, MemoFacts, NodesAreTypes
  <2>2. Memo(n, k, meta) \subseteq Memo(n, t, meta)
    BY <2>1, MemoBelow
  <2>3. QED
    BY <2>1, <2>2, ExactUnfold
<1>4. QED
  BY <1>2, <1>3

\* Flags that a sweep leaves alone, and that lie between the nodes' own and
\* the exact ones, are the exact ones.
LEMMA FixedPoint ==
    ASSUME NEW n \in DOMAIN Shapes, NEW r \in Types, NEW meta \in BOOLEAN, NEW fl,
           \A t \in Memo(n, r, meta) :
               /\ fl[t] \subseteq Exact(n, t, meta)
               /\ Built(Shapes[n], t, meta) \subseteq fl[t]
               /\ Gather(Shapes[n], fl, t, meta) \subseteq fl[t]
    PROVE  \A t \in Memo(n, r, meta) : fl[t] = Exact(n, t, meta)
<1> SUFFICES ASSUME NEW t \in Memo(n, r, meta), NEW g \in Exact(n, t, meta), g \notin fl[t]
             PROVE  FALSE
  OBVIOUS
<1> DEFINE S == {v \in Memo(n, r, meta) : g \notin fl[v]}
<1>1. t \in Types /\ S \in SUBSET Types /\ t \in S
  BY MemoFacts
<1>2. PICK u \in Memo(n, t, meta) : g \in Built(Shapes[n], u, meta) \cup Local(Shapes[n], u, meta)
  BY <1>1, ExactUnfold
<1>3. ASSUME NEW v \in S, NEW k \in Nodes(Shapes[n], v, meta)
      PROVE  k \in S
  <2>1. k \in Memo(n, r, meta)
    BY MemoFacts
  <2>2. fl[k] \subseteq Gather(Shapes[n], fl, v, meta)
    BY DEF Gather
  <2>3. QED
    BY <2>1, <2>2
<1>4. Closed(Shapes[n], S, meta)
  BY <1>3 DEF Closed
<1>5. u \in S
  BY <1>1, <1>2, <1>4, MemoFacts
<1>6. Local(Shapes[n], u, meta) \subseteq fl[u] /\ Built(Shapes[n], u, meta) \subseteq fl[u]
  BY <1>5 DEF Gather
<1>7. QED
  BY <1>2, <1>5, <1>6

\* A visit stays within the exact flags.
LEMMA GatherWithin ==
    ASSUME NEW n \in DOMAIN Shapes, NEW r \in Types, NEW meta \in BOOLEAN, NEW fl,
           \A t \in Memo(n, r, meta) : fl[t] \subseteq Exact(n, t, meta),
           NEW t \in Memo(n, r, meta)
    PROVE  Gather(Shapes[n], fl, t, meta) \subseteq Exact(n, t, meta)
<1>1. t \in Types /\ Nodes(Shapes[n], t, meta) \subseteq Memo(n, r, meta)
  BY MemoFacts
<1>2. Local(Shapes[n], t, meta) \subseteq Exact(n, t, meta)
  BY <1>1, ExactFacts
<1>3. \A k \in Nodes(Shapes[n], t, meta) : fl[k] \subseteq Exact(n, t, meta)
  BY <1>1, ExactFacts
<1>4. QED
  BY <1>1, <1>2, <1>3 DEF Gather
-----------------------------------------------------------------------------
LEMMA MetaBoolean == ASSUME NEW c PROVE Meta(c) \in BOOLEAN
BY DEF Meta

\* What the invariant gives about one caller.
LEMMA CallerFacts ==
    ASSUME IInv, NEW c \in Callers
    PROVE  /\ shape \in DOMAIN Shapes /\ root[c] \in Types /\ Meta(c) \in BOOLEAN
           /\ flags[c] \in [Types -> SUBSET Flags]
           /\ CallerInv(c)
           /\ M(c) \subseteq Types
BY MetaBoolean, MemoFacts DEF IInv, M

\* A caller's part of the invariant rests on its own state only.
LEMMA Frame ==
    ASSUME NEW d, CallerInv(d), shape' = shape, root' = root, pc'[d] = pc[d],
           flags'[d] = flags[d], todo'[d] = todo[d], changed'[d] = changed[d]
    PROVE  CallerInv(d)'
BY DEF CallerInv, Within, Steady, M, E, Graph, Meta, Own, Plan, ExactPlan, Gather, NoFlags

LEMMA InitInv == PlanInit => IInv
<1> SUFFICES ASSUME PlanInit PROVE IInv
  OBVIOUS
<1>1. root \in [Callers -> Types]
  BY ShapesAssumption DEF PlanInit
<1>2. flags \in [Callers -> [Types -> SUBSET Flags]]
  BY DEF PlanInit, NoFlags
<1>3. \A c \in Callers : CallerInv(c)
  BY DEF PlanInit, CallerInv
<1>4. CacheInv /\ HeldExact
  BY DEF PlanInit, CacheInv, HeldExact
<1>5. QED
  BY <1>1, <1>2, <1>3, <1>4 DEF PlanInit, IInv

\* A step that stores nothing and hands nothing over keeps the invariant if
\* its own caller's part is kept.
LEMMA PrivateStep ==
    ASSUME IInv, NEW c \in Callers, UNCHANGED <<shape, root, published, held>>,
           flags' \in [Callers -> [Types -> SUBSET Flags]],
           DOMAIN pc' = Callers, DOMAIN changed' = Callers, DOMAIN todo' = Callers,
           \A d \in Callers \ {c} : /\ pc'[d] = pc[d] /\ flags'[d] = flags[d]
                                    /\ todo'[d] = todo[d] /\ changed'[d] = changed[d],
           CallerInv(c)'
    PROVE  IInv'
<1>1. \A d \in Callers : CallerInv(d)'
  BY Frame DEF IInv
<1>2. CacheInv' /\ HeldExact'
  BY DEF IInv, CacheInv, HeldExact, ExactPlan, Meta
<1>3. QED
  BY <1>1, <1>2 DEF IInv

LEMMA LoadMissStep == ASSUME IInv, NEW c \in Callers, LoadMiss(c) PROVE IInv'
<1>1. CallerInv(c)'
  BY DEF IInv, CallerInv, LoadMiss
<1>2. QED
  BY <1>1, PrivateStep DEF LoadMiss, IInv

LEMMA ServeStep == ASSUME IInv, NEW c \in Callers, Serve(c) PROVE IInv'
<1>1. CallerInv(c)'
  BY DEF IInv, CallerInv, Serve
<1>2. QED
  BY <1>1, PrivateStep DEF Serve, IInv

LEMMA BuildStep == ASSUME IInv, NEW c \in Callers, Build(c) PROVE IInv'
<1>1. shape \in DOMAIN Shapes /\ root[c] \in Types /\ Meta(c) \in BOOLEAN /\ M(c) \subseteq Types
  BY CallerFacts
<1>2. flags' \in [Callers -> [Types -> SUBSET Flags]]
  BY DEF IInv, Build, Built
<1>3. UNCHANGED <<shape, root, published, held, changed>>
  BY DEF Build
<1>4. CallerInv(c)'
  <2>1. CASE Fails(shape, root[c], Meta(c))
    BY <2>1, <1>3 DEF Build, IInv, CallerInv, ExactPlan, Own, Plan, Meta
  <2>2. CASE ~Fails(shape, root[c], Meta(c))
    <3>1. pc'[c] = "sweep" /\ todo'[c] = M(c) /\ M(c)' = M(c)
      BY <2>2, <1>3 DEF Build, IInv, M, MemoOf, Meta
    <3>2. \A t \in M(c) : flags'[c][t] = Built(Graph, t, Meta(c))
      BY <2>2, <1>1 DEF Build, IInv, M, MemoOf
    <3>3. \A t \in M(c) : Built(Graph, t, Meta(c)) \subseteq E(c, t)
      BY <1>1, ExactFacts DEF E, Graph
    <3>4. Within(c)'
      BY <3>1, <3>2, <3>3, <1>3 DEF Within, E, Graph, Meta
    <3>5. Steady(c)'
      BY <3>1 DEF Steady
    <3>6. QED
      BY <2>2, <3>1, <3>4, <3>5, <1>3 DEF CallerInv, Meta
  <2>3. QED
    BY <2>1, <2>2
<1>5. QED
  BY <1>2, <1>3, <1>4, PrivateStep DEF Build, IInv

LEMMA VisitStep == ASSUME IInv, NEW c \in Callers, NEW t \in Types, Visit(c, t) PROVE IInv'
<1> DEFINE g == Gather(Graph, flags[c], t, Meta(c))
<1>1. shape \in DOMAIN Shapes /\ root[c] \in Types /\ Meta(c) \in BOOLEAN /\ M(c) \subseteq Types
      /\ flags[c] \in [Types -> SUBSET Flags]
  BY CallerFacts
<1>2. UNCHANGED <<shape, root, pc, published, held>> /\ pc[c] = "sweep" /\ Graph' = Graph
  BY DEF Visit, Graph
<1>3. /\ ~Fails(shape, root[c], Meta(c)) /\ Within(c)
      /\ ~changed[c] => Steady(c)
  BY <1>2 DEF IInv, CallerInv
<1>4. /\ flags' = [flags EXCEPT ![c] = [flags[c] EXCEPT ![t] = g]]
      /\ todo' = [todo EXCEPT ![c] = todo[c] \ {t}]
      /\ changed' = [changed EXCEPT ![c] = changed[c] \/ g # flags[c][t]]
  BY DEF Visit
<1>5. g \subseteq Flags
  <2>1. \A k \in Nodes(Graph, t, Meta(c)) : flags[c][k] \subseteq Flags
    BY <1>1, NodesAreTypes DEF Graph
  <2>2. QED
    BY <1>1, <2>1 DEF Gather, Local
<1>6. flags' \in [Callers -> [Types -> SUBSET Flags]]
  BY <1>4, <1>5 DEF IInv
<1>7. flags'[c] = [flags[c] EXCEPT ![t] = g] /\ todo'[c] = todo[c] \ {t} /\ M(c)' = M(c)
  BY <1>2, <1>4 DEF IInv, M, Meta
<1>8. t \in M(c) => g \subseteq E(c, t)
  <2>1. \A u \in M(c) : flags[c][u] \subseteq Exact(shape, u, Meta(c))
    BY <1>3 DEF Within, E
  <2>2. QED
    BY <1>1, <2>1, GatherWithin DEF M, E, Graph
<1>9. Within(c)'
  <2>1. ASSUME NEW u \in M(c)
        PROVE  flags'[c][u] \subseteq E(c, u) /\ Built(Graph, u, Meta(c)) \subseteq flags'[c][u]
    <3>1. CASE u = t
      <4>1. flags'[c][u] = g /\ flags[c][u] \subseteq g
        BY <1>1, <1>7, <3>1 DEF Gather
      <4>2. QED
        BY <1>3, <1>8, <3>1, <4>1 DEF Within
    <3>2. CASE u # t
      BY <1>1, <1>3, <1>7, <3>2 DEF Within
    <3>3. QED
      BY <3>1, <3>2
  <2>2. QED
    BY <1>2, <1>7, <2>1 DEF Within, E, Meta
<1>10. ASSUME ~changed'[c]
       PROVE  Steady(c)'
  <2>1. ~changed[c] /\ g = flags[c][t]
    BY <1>4, <1>10 DEF IInv
  <2>2. flags'[c] = flags[c]
    BY <1>1, <1>7, <2>1
  <2>3. \A u \in M(c) \ (todo[c] \ {t}) :
            Gather(Graph, flags[c], u, Meta(c)) \subseteq flags[c][u]
    BY <1>3, <2>1 DEF Steady
  <2>4. QED
    BY <1>2, <1>7, <2>2, <2>3 DEF Steady, Meta
<1>11. CallerInv(c)'
  BY <1>2, <1>3, <1>9, <1>10 DEF CallerInv, Meta
<1>12. QED
  BY <1>2, <1>4, <1>6, <1>11, PrivateStep DEF IInv

LEMMA SweepAgainStep == ASSUME IInv, NEW c \in Callers, SweepAgain(c) PROVE IInv'
<1>1. UNCHANGED <<shape, root, pc, flags, published, held>> /\ pc[c] = "sweep"
      /\ todo'[c] = M(c) /\ M(c)' = M(c)
  BY DEF SweepAgain, IInv, M, MemoOf, Meta
<1>2. ~Fails(shape, root[c], Meta(c)) /\ Within(c)
  BY <1>1 DEF IInv, CallerInv
<1>3. Within(c)' /\ Steady(c)'
  BY <1>1, <1>2 DEF Within, Steady, E, Graph, Meta
<1>4. CallerInv(c)'
  BY <1>1, <1>2, <1>3 DEF CallerInv, Meta
<1>5. QED
  BY <1>1, <1>4, PrivateStep DEF SweepAgain, IInv

LEMMA SettleStep == ASSUME IInv, NEW c \in Callers, Settle(c) PROVE IInv'
<1>1. shape \in DOMAIN Shapes /\ root[c] \in Types /\ Meta(c) \in BOOLEAN
  BY CallerFacts
<1>2. UNCHANGED <<shape, root, flags, todo, changed, published, held>> /\ pc'[c] = "publish"
  BY DEF Settle, IInv
<1>3. ~Fails(shape, root[c], Meta(c)) /\ Within(c) /\ Steady(c) /\ todo[c] = {}
  BY DEF Settle, IInv, CallerInv
<1>4. \A t \in M(c) : flags[c][t] = Exact(shape, t, Meta(c))
  <2>1. \A t \in Memo(shape, root[c], Meta(c)) :
            /\ flags[c][t] \subseteq Exact(shape, t, Meta(c))
            /\ Built(Shapes[shape], t, Meta(c)) \subseteq flags[c][t]
            /\ Gather(Shapes[shape], flags[c], t, Meta(c)) \subseteq flags[c][t]
    BY <1>3 DEF Within, Steady, M, E, Graph
  <2>2. QED
    BY <1>1, <2>1, FixedPoint DEF M
<1>5. ExactPlan(Own(c), shape, root[c], Meta(c))'
  BY <1>2, <1>3, <1>4 DEF ExactPlan, Own, Plan, M, Meta
<1>6. CallerInv(c)'
  BY <1>2, <1>5 DEF CallerInv
<1>7. QED
  BY <1>2, <1>6, PrivateStep DEF Settle, IInv

LEMMA LoadHitStep == ASSUME IInv, NEW c \in Callers, LoadHit(c) PROVE IInv'
<1>1. UNCHANGED <<shape, root, flags, todo, changed, published>>
  BY DEF LoadHit
<1>2. c \in Linked /\ published[root[c]] # NoPlan /\ held' = [held EXCEPT ![c] = published[root[c]]]
      /\ Meta(c) = FALSE /\ pc' = [pc EXCEPT ![c] = "done"]
  BY CallersAssumption DEF LoadHit, Meta
<1>3. \A d \in Callers : CallerInv(d)'
  <2>1. CallerInv(c)'
    BY <1>1, <1>2 DEF IInv, CallerInv
  <2>2. ASSUME NEW d \in Callers \ {c} PROVE CallerInv(d)'
    BY <1>1, <1>2, Frame DEF IInv
  <2>3. QED
    BY <2>1, <2>2
<1>4. CacheInv'
  BY <1>1 DEF IInv, CacheInv
<1>5. HeldExact'
  <2>1. ExactPlan(published[root[c]], shape, root[c], FALSE)
    BY <1>2 DEF IInv, CacheInv
  <2>2. ASSUME NEW d \in Callers, held'[d] # NoPlan
        PROVE  /\ ExactPlan(held'[d], shape, root[d], Meta(d))
               /\ ~Meta(d) => held'[d] = published[root[d]]
    <3>1. CASE d = c
      BY <1>2, <2>1, <3>1 DEF IInv
    <3>2. CASE d # c
      BY <1>2, <2>2, <3>2 DEF IInv, HeldExact
    <3>3. QED
      BY <3>1, <3>2
  <2>3. QED
    BY <1>1, <2>2 DEF HeldExact, Meta
<1>6. QED
  BY <1>1, <1>2, <1>3, <1>4, <1>5 DEF IInv

LEMMA PublishStep == ASSUME IInv, NEW c \in Callers, Publish(c) PROVE IInv'
<1>1. UNCHANGED <<shape, root, todo, changed>> /\ root[c] \in Types
      /\ pc' = [pc EXCEPT ![c] = "done"] /\ flags' = [flags EXCEPT ![c] = NoFlags]
  BY DEF Publish, IInv
<1>2. ExactPlan(Own(c), shape, root[c], Meta(c))
  BY DEF Publish, IInv, CallerInv
<1>3. flags' \in [Callers -> [Types -> SUBSET Flags]]
  BY <1>1 DEF IInv, NoFlags
<1>4. \A d \in Callers : CallerInv(d)'
  <2>1. CallerInv(c)'
    BY <1>1 DEF IInv, CallerInv
  <2>2. ASSUME NEW d \in Callers \ {c} PROVE CallerInv(d)'
    BY <1>1, Frame DEF IInv
  <2>3. QED
    BY <2>1, <2>2
<1>5. CASE Meta(c)
  <2>1. held' = [held EXCEPT ![c] = Own(c)] /\ published' = published
    BY <1>5 DEF Publish
  <2>2. CacheInv'
    BY <1>1, <2>1 DEF IInv, CacheInv
  <2>3. ASSUME NEW d \in Callers, held'[d] # NoPlan
        PROVE  /\ ExactPlan(held'[d], shape, root[d], Meta(d))
               /\ ~Meta(d) => held'[d] = published[root[d]]
    <3>1. CASE d = c
      BY <1>2, <1>5, <2>1, <3>1 DEF IInv
    <3>2. CASE d # c
      BY <2>1, <2>3, <3>2 DEF IInv, HeldExact
    <3>3. QED
      BY <3>1, <3>2
  <2>4. HeldExact'
    BY <1>1, <2>1, <2>3 DEF HeldExact, Meta
  <2>5. QED
    BY <1>1, <1>3, <1>4, <2>1, <2>2, <2>4 DEF IInv
<1>6. CASE ~Meta(c)
  <2>1. /\ held' = [held EXCEPT ![c] = Shared(c)]
        /\ published' = [published EXCEPT ![root[c]] = Shared(c)]
    BY <1>6 DEF Publish
  <2>2. Meta(c) = FALSE
    BY <1>6 DEF Meta
  <2>3. ExactPlan(Shared(c), shape, root[c], FALSE)
    BY <1>1, <1>2, <2>2 DEF IInv, CacheInv, Shared
  <2>4. CacheInv'
    <3>1. ASSUME NEW r \in Types, published'[r] # NoPlan
          PROVE  ExactPlan(published'[r], shape, r, FALSE)
      BY <2>1, <2>3, <3>1 DEF IInv, CacheInv
    <3>2. QED
      BY <1>1, <3>1 DEF CacheInv
  <2>5. ASSUME NEW d \in Callers, held'[d] # NoPlan
        PROVE  /\ ExactPlan(held'[d], shape, root[d], Meta(d))
               /\ ~Meta(d) => held'[d] = published'[root[d]]
    <3>1. CASE d = c
      BY <1>1, <2>1, <2>2, <2>3, <3>1 DEF IInv
    <3>2. CASE d # c
      <4>1. held'[d] = held[d] /\ ExactPlan(held[d], shape, root[d], Meta(d))
        BY <2>1, <2>5, <3>2 DEF IInv, HeldExact
      <4>2. ~Meta(d) => held[d] = published[root[d]]
        BY <2>5, <4>1 DEF IInv, HeldExact
      <4>3. ~Meta(d) => published'[root[d]] = published[root[d]]
        BY <2>1, <2>5, <4>1, <4>2 DEF IInv, Shared
      <4>4. QED
        BY <4>1, <4>2, <4>3
    <3>3. QED
      BY <3>1, <3>2
  <2>6. HeldExact'
    BY <1>1, <2>5 DEF HeldExact, Meta
  <2>7. QED
    BY <1>1, <1>3, <1>4, <2>1, <2>4, <2>6 DEF IInv
<1>7. QED
  BY <1>5, <1>6
-----------------------------------------------------------------------------
LEMMA StepInv == IInv /\ [PlanNext]_planVars => IInv'
<1> SUFFICES ASSUME IInv, [PlanNext]_planVars PROVE IInv'
  OBVIOUS
<1>1. CASE UNCHANGED planVars
  <2>1. \A c \in Callers : CallerInv(c)'
    BY <1>1, Frame DEF planVars, IInv
  <2>2. CacheInv' /\ HeldExact'
    BY <1>1 DEF planVars, IInv, CacheInv, HeldExact, Meta
  <2>3. QED
    BY <1>1, <2>1, <2>2 DEF planVars, IInv
<1>2. ASSUME NEW c \in Callers, Compile(c) \/ Serve(c)
      PROVE  IInv'
  BY <1>2, LoadHitStep, LoadMissStep, BuildStep, VisitStep, SweepAgainStep, SettleStep,
     PublishStep, ServeStep DEF Compile
<1>3. QED
  BY <1>1, <1>2 DEF PlanNext

\* Whatever the types, the callers and the order of their sweeps, a caller's
\* plan has exactly the flags of the types it reaches, and callers without
\* metadata share the plan in the cache (compileInternalPlan).
THEOREM PlansAreExact == PlanSpec => []HeldExact
<1>1. PlanSpec => []IInv
  BY InitInv, StepInv, PTL DEF PlanSpec
<1>2. IInv => HeldExact
  BY DEF IInv
<1>3. QED
  BY <1>1, <1>2, PTL

\* A plan in the cache stays as it is: it was complete when it was stored, and
\* the callers that read it later read what the first ones read
\* (internalPlans.LoadOrStore).
CacheStays ==
    [][\A r \in Types : published[r] # NoPlan => published'[r] = published[r]]_planVars

\* LoadOrStore never replaces a plan, whichever caller comes late.
THEOREM CacheIsStable == PlanSpec => CacheStays
<1>1. PlanSpec => []IInv
  BY InitInv, StepInv, PTL DEF PlanSpec
<1>2. ASSUME IInv, [PlanNext]_planVars, NEW r \in Types, published[r] # NoPlan
      PROVE  published'[r] = published[r]
  <2>1. CASE UNCHANGED planVars
    BY <2>1 DEF planVars
  <2>2. ASSUME NEW c \in Callers, Compile(c) \/ Serve(c)
        PROVE  published'[r] = published[r]
    <3>1. CASE Publish(c)
      BY <1>2, <3>1 DEF Publish, Shared, IInv
    <3>2. CASE ~Publish(c)
      BY <2>2, <3>2 DEF Compile, LoadHit, LoadMiss, Build, Visit, SweepAgain, Settle, Serve
    <3>3. QED
      BY <3>1, <3>2
  <2>3. QED
    BY <1>2, <2>1, <2>2 DEF PlanNext
<1>3. IInv /\ [PlanNext]_planVars =>
        [\A r \in Types : published[r] # NoPlan => published'[r] = published[r]]_planVars
  BY <1>2
<1>4. QED
  BY <1>1, <1>3, PTL DEF PlanSpec, CacheStays
-----------------------------------------------------------------------------
(* Documents and values                                                    *)

CONSTANTS Docs,   \* every JSON value
          JsonKeys,  \* every key
          depth   \* how deep a value is nested

\* A JSON value is a scalar, a list or an object of shallower ones.
JSON ==
    /\ {Null, Num, Bool} \subseteq Docs
    /\ \A items \in Seq(Docs) : List(items) \in Docs
    /\ \A ms \in Seq(JsonKeys \X Docs) : Obj(ms) \in Docs
    /\ depth \in [Docs -> Nat]
    /\ \A v \in Docs :
        \/ v \in {Null, Num, Bool} /\ depth[v] = 0
        \/ \E items \in Seq(Docs) :
              v = List(items) /\ \A j \in DOMAIN items : depth[items[j]] < depth[v]
        \/ \E ms \in Seq(JsonKeys \X Docs) :
              v = Obj(ms) /\ \A j \in DOMAIN ms : depth[ms[j][2]] < depth[v]

IsFcn(f) == f = [x \in DOMAIN f |-> f[x]]

\* A decoded value.
IsValue(x) ==
    \/ x \in Docs \cup {Nil, Failure}
    \/ \E of, m : IsFcn(of) /\ x \in {Rec(of, m), Slice(of, m), Dict(of)}

\* b is a value of type t if it is in some set of such pairs that has the
\* parts of each of its values.
Shaped(s, S, t, b) ==
    \/ b = Nil
    \/ t = NoType /\ b \in Docs
    \/ /\ t # NoType
       /\ \/ s.kind[t] \in {"leaf", "time"} /\ b = Num
          \/ s.kind[t] = "list" /\ \E of, len :
                /\ b = Slice(of, len) /\ IsFcn(of)
                /\ \A j \in DOMAIN of : <<s.item[t], of[j]>> \in S
          \/ s.kind[t] = "map" /\ \E of :
                /\ b = Dict(of) /\ IsFcn(of)
                /\ \A k \in DOMAIN of : <<s.item[t], of[k]>> \in S
          \/ s.kind[t] = "struct" /\ \E of, marks :
                /\ b = Rec(of, marks) /\ IsFcn(of) /\ DOMAIN of = DOMAIN s.fields[t]
                /\ \A i \in DOMAIN of : <<s.fields[t][i].type, of[i]>> \in S
Typing(s, S) == \A p \in S : Shaped(s, S, p[1], p[2])
Typed(s, t, b) == \E S : <<t, b>> \in S /\ Typing(s, S)

\* What the recursion of the code makes of a document is one step of it and
\* what it makes of the parts.
Traversals ==
    /\ \A s, fl, t, meta, standard :
        /\ \A v \in Docs : Filter(s, fl, t, v, meta, standard)
                             = FilterOnce(s, fl, t, v, meta, standard)
        /\ \A ms \in Seq(JsonKeys \X Docs) :
              FilterMembers(s, fl, t, ms, meta, standard)
                = FilterMembersOnce(s, fl, t, ms, meta, standard)
    /\ \A s, t, before, aliases :
        /\ \A v \in Docs : Decode(s, t, v, before, aliases) = DecodeOnce(s, t, v, before, aliases)
        /\ \A ms \in Seq(JsonKeys \X Docs) :
              DecodeMembers(s, t, ms, before, aliases) = DecodeMembersOnce(s, t, ms, before, aliases)
    /\ \A s, t, val, fl, meta, order : \A v \in Docs : Typed(s, t, val) =>
          Mark(s, t, val, v, fl, meta, order) = MarkOnce(s, t, val, v, fl, meta, order)
    /\ \A s, t, meta, order : \A v \in Docs :
          Validate(s, t, v, meta, order) = ValidateOnce(s, t, v, meta, order)

\* The same of what the properties compare with.
Readings ==
    /\ \A s, t, before, meta, rules :
        /\ \A v \in Docs : Reading(s, t, v, before, meta, rules)
                             = ReadingOnce(s, t, v, before, meta, rules)
        /\ \A ms \in Seq(JsonKeys \X Docs) :
              ReadMembers(s, t, ms, before, meta, rules)
                = ReadMembersOnce(s, t, ms, before, meta, rules)
    /\ \A s, t, meta : \A x : IsValue(x) =>
        /\ Unmarked(x) = UnmarkedOnce(x)
        /\ Shown(s, t, x, meta) = ShownOnce(s, t, x, meta)
        /\ Complete(s, t, x, meta) = CompleteOnce(s, t, x, meta)
    /\ \A s, t : \A v \in Docs : Unduplicated(s, t, v) = UnduplicatedOnce(s, t, v)
-----------------------------------------------------------------------------
LEMMA Least ==
    ASSUME NEW T \in SUBSET Nat, T # {}
    PROVE  \E x \in T : \A y \in T : x <= y
<1> DEFINE Below(n) == 0..(n - 1)
           F == {Below(n) : n \in T}
<1>1. F \subseteq FiniteSubsetsOf(Nat) /\ F # {}
  <2>1. \A n \in T : Below(n) \in SUBSET Nat /\ IsFiniteSet(Below(n))
    BY FS_Interval, 0 \in Int
  <2>2. QED
    BY <2>1 DEF FiniteSubsetsOf
<1>2. PICK U \in F : \A W \in F : ~ (<<W, U>> \in StrictSubsetOrdering(Nat))
  <2> HIDE DEF F
  <2>1. QED
    BY <1>1, FS_StrictSubsetOrderingWellFounded, WFMin
<1>3. PICK x \in T : U = Below(x)
  OBVIOUS
<1>4. ASSUME NEW y \in T, y < x PROVE FALSE
  <2>1. Below(y) \in F /\ Below(y) \subseteq U /\ Below(y) # U
    <3>1. y \in Below(x) /\ y \notin Below(y)
      BY <1>4
    <3>2. QED
      BY <3>1, <1>3, <1>4
  <2>2. <<Below(y), U>> \in StrictSubsetOrdering(Nat)
    BY <2>1, <1>1, <1>3 DEF StrictSubsetOrdering
  <2>3. QED
    BY <1>2, <2>1, <2>2
<1>5. QED
  BY <1>3, <1>4

LEMMA Ind ==
    ASSUME NEW S \in SUBSET Nat, 0 \in S, \A n \in S : n + 1 \in S
    PROVE  S = Nat
<1> SUFFICES ASSUME S # Nat PROVE FALSE
  OBVIOUS
<1>1. PICK x \in Nat \ S : \A y \in Nat \ S : x <= y
  BY Least
<1>2. x # 0 /\ x - 1 \in Nat /\ x - 1 \notin Nat \ S
  BY <1>1
<1>3. QED
  BY <1>2

\* A nonempty set of numbers that has a bound has a greatest element.
LEMMA Greatest ==
    ASSUME NEW n \in Nat, NEW T \in SUBSET (1..n), T # {}
    PROVE  Max(T) \in T /\ \A x \in T : x <= Max(T)
<1>1. PICK d \in {n - x : x \in T} : \A e \in {n - x : x \in T} : d <= e
  <2>1. \A x \in T : n - x \in Nat
    OBVIOUS
  <2>2. {n - x : x \in T} \in SUBSET Nat /\ {n - x : x \in T} # {}
    BY <2>1
  <2>3. QED
    BY <2>2, Least
<1>2. PICK m \in T : d = n - m
  BY <1>1
<1>3. \A x \in T : m >= x
  <2> TAKE x \in T
  <2>1. d <= n - x
    BY <1>1
  <2>2. QED
    BY <2>1, <1>2
<1>4. QED
  BY <1>3 DEF Max

LEMMA Smallest ==
    ASSUME NEW T \in SUBSET Nat, T # {}
    PROVE  Min(T) \in T
BY Least DEF Min
-----------------------------------------------------------------------------
LEMMA Tags ==
    /\ \A x : /\ List(x).tag = "list" /\ List(x).of = x
              /\ Obj(x).tag = "obj" /\ Obj(x).of = x
              /\ Dict(x).tag = "dict" /\ Dict(x).of = x
    /\ \A x, m : /\ Rec(x, m).tag = "rec" /\ Rec(x, m).of = x /\ Rec(x, m).marks = m
                 /\ Slice(x, m).tag = "slice" /\ Slice(x, m).of = x /\ Slice(x, m).len = m
    /\ Null.tag = "null" /\ Num.tag = "num" /\ Bool.tag = "bool"
    /\ Nil.tag = "nil" /\ Failure.tag = "failure"
BY DEF List, Obj, Dict, Rec, Slice, Null, Num, Bool, Nil, Failure

\* The three forms of a JSON value.
LEMMA DocCases ==
    ASSUME JSON, NEW v \in Docs
    PROVE  /\ depth[v] \in Nat
           /\ \/ v \in {Null, Num, Bool} /\ v.tag \in {"null", "num", "bool"} /\ depth[v] = 0
              \/ /\ v.tag = "list" /\ v.of \in Seq(Docs) /\ v = List(v.of)
                 /\ \A j \in DOMAIN v.of : v.of[j] \in Docs /\ depth[v.of[j]] < depth[v]
              \/ /\ v.tag = "obj" /\ v.of \in Seq(JsonKeys \X Docs) /\ v = Obj(v.of)
                 /\ \A j \in DOMAIN v.of : v.of[j][2] \in Docs /\ depth[v.of[j][2]] < depth[v]
<1>1. depth[v] \in Nat
  BY DEF JSON
<1>2. CASE v \in {Null, Num, Bool} /\ depth[v] = 0
  BY <1>1, <1>2, Tags
<1>3. ASSUME NEW items \in Seq(Docs), v = List(items),
             \A j \in DOMAIN items : depth[items[j]] < depth[v]
      PROVE  /\ v.tag = "list" /\ v.of \in Seq(Docs) /\ v = List(v.of)
             /\ \A j \in DOMAIN v.of : v.of[j] \in Docs /\ depth[v.of[j]] < depth[v]
  BY <1>3, Tags
<1>4. ASSUME NEW ms \in Seq(JsonKeys \X Docs), v = Obj(ms),
             \A j \in DOMAIN ms : depth[ms[j][2]] < depth[v]
      PROVE  /\ v.tag = "obj" /\ v.of \in Seq(JsonKeys \X Docs) /\ v = Obj(v.of)
             /\ \A j \in DOMAIN v.of : v.of[j][2] \in Docs /\ depth[v.of[j][2]] < depth[v]
  BY <1>4, Tags
<1>5. QED
  BY <1>1, <1>2, <1>3, <1>4 DEF JSON

LEMMA ShapedMonotone ==
    ASSUME NEW s, NEW S, NEW U, S \subseteq U, NEW t, NEW b, Shaped(s, S, t, b)
    PROVE  Shaped(s, U, t, b)
BY DEF Shaped

\* A value whose parts are typed is typed.
LEMMA TypedFold ==
    ASSUME NEW s, NEW P, \A p \in P : Typed(s, p[1], p[2]),
           NEW t, NEW b, Shaped(s, P, t, b), \A p \in P : p = <<p[1], p[2]>>
    PROVE  Typed(s, t, b)
<1> DEFINE W(p) == CHOOSE S : <<p[1], p[2]>> \in S /\ Typing(s, S)
           U == (UNION {W(p) : p \in P}) \cup {<<t, b>>}
<1>1. \A p \in P : p \in W(p) /\ Typing(s, W(p))
  BY DEF Typed
<1>2. P \subseteq U
  BY <1>1
<1>3. ASSUME NEW q \in U PROVE Shaped(s, U, q[1], q[2])
  <2>1. CASE q = <<t, b>>
    <3>1. Shaped(s, U, t, b)
      <4> HIDE DEF U
      <4>1. QED
        BY <1>2, ShapedMonotone
    <3>2. QED
      BY <2>1, <3>1
  <2>2. ASSUME NEW p \in P, q \in W(p) PROVE Shaped(s, U, q[1], q[2])
    <3>1. Shaped(s, W(p), q[1], q[2]) /\ W(p) \subseteq U
      BY <1>1, <2>2 DEF Typing
    <3> HIDE DEF U, W
    <3>2. QED
      BY <3>1, ShapedMonotone
  <2>3. q = <<t, b>> \/ \E p \in P : q \in W(p)
    <3> HIDE DEF W
    <3>1. QED
      BY <1>3
  <2>4. QED
    BY <2>1, <2>2, <2>3
<1>4. Typing(s, U)
  <2> HIDE DEF U
  <2>1. QED
    BY <1>3 DEF Typing
<1>5. <<t, b>> \in U
  <2> HIDE DEF W
  <2>1. QED
    OBVIOUS
<1>6. QED
  <2> HIDE DEF U
  <2>1. QED
    BY <1>4, <1>5 DEF Typed

\* What a typed value is.
LEMMA TypedNil == ASSUME NEW s, NEW t PROVE Typed(s, t, Nil)
<1>1. Shaped(s, {}, t, Nil)
  BY DEF Shaped
<1>2. QED
  BY <1>1, TypedFold

LEMMA TypedDoc == ASSUME NEW s, NEW v \in Docs PROVE Typed(s, NoType, v)
<1>1. Shaped(s, {}, NoType, v)
  BY DEF Shaped
<1>2. QED
  BY <1>1, TypedFold

LEMMA TypedNum ==
    ASSUME NEW s, NEW t, t # NoType, s.kind[t] \in {"leaf", "time"}
    PROVE  Typed(s, t, Num)
<1>1. Shaped(s, {}, t, Num)
  BY DEF Shaped
<1>2. QED
  BY <1>1, TypedFold

LEMMA TypedList ==
    ASSUME NEW s, NEW t, t # NoType, s.kind[t] = "list", NEW of, NEW len, IsFcn(of),
           \A j \in DOMAIN of : Typed(s, s.item[t], of[j])
    PROVE  Typed(s, t, Slice(of, len))
<1> DEFINE P == {<<s.item[t], of[j]>> : j \in DOMAIN of}
<1>1. Shaped(s, P, t, Slice(of, len))
  BY DEF Shaped
<1>2. QED
  BY <1>1, TypedFold

LEMMA TypedDict ==
    ASSUME NEW s, NEW t, t # NoType, s.kind[t] = "map", NEW of, IsFcn(of),
           \A k \in DOMAIN of : Typed(s, s.item[t], of[k])
    PROVE  Typed(s, t, Dict(of))
<1> DEFINE P == {<<s.item[t], of[j]>> : j \in DOMAIN of}
<1>1. Shaped(s, P, t, Dict(of))
  BY DEF Shaped
<1>2. QED
  BY <1>1, TypedFold

LEMMA TypedRec ==
    ASSUME NEW s, NEW t, t # NoType, s.kind[t] = "struct", NEW of, NEW marks, IsFcn(of),
           DOMAIN of = DOMAIN s.fields[t],
           \A i \in DOMAIN of : Typed(s, s.fields[t][i].type, of[i])
    PROVE  Typed(s, t, Rec(of, marks))
<1> DEFINE P == {<<s.fields[t][j].type, of[j]>> : j \in DOMAIN of}
<1>1. Shaped(s, P, t, Rec(of, marks))
  BY DEF Shaped
<1>2. QED
  BY <1>1, TypedFold

LEMMA TypedUnfold ==
    ASSUME NEW s, NEW t, NEW b, Typed(s, t, b)
    PROVE  \/ b = Nil
           \/ t = NoType /\ b \in Docs
           \/ t # NoType /\ s.kind[t] \in {"leaf", "time"} /\ b = Num
           \/ /\ t # NoType /\ s.kind[t] = "list" /\ b.tag = "slice"
              /\ b = Slice(b.of, b.len) /\ IsFcn(b.of)
              /\ \A j \in DOMAIN b.of : Typed(s, s.item[t], b.of[j])
           \/ /\ t # NoType /\ s.kind[t] = "map" /\ b.tag = "dict"
              /\ b = Dict(b.of) /\ IsFcn(b.of)
              /\ \A k \in DOMAIN b.of : Typed(s, s.item[t], b.of[k])
           \/ /\ t # NoType /\ s.kind[t] = "struct" /\ b.tag = "rec"
              /\ b = Rec(b.of, b.marks) /\ IsFcn(b.of) /\ DOMAIN b.of = DOMAIN s.fields[t]
              /\ \A i \in DOMAIN b.of : Typed(s, s.fields[t][i].type, b.of[i])
<1>1. PICK S : <<t, b>> \in S /\ Typing(s, S)
  BY DEF Typed
<1>2. \A p, q : <<p, q>> \in S => Typed(s, p, q)
  BY <1>1 DEF Typed
<1>3. Shaped(s, S, t, b)
  BY <1>1 DEF Typing
<1>4. ASSUME t # NoType, s.kind[t] = "list", NEW of, NEW len, b = Slice(of, len), IsFcn(of),
             \A j \in DOMAIN of : <<s.item[t], of[j]>> \in S
      PROVE  /\ b.tag = "slice" /\ b = Slice(b.of, b.len) /\ IsFcn(b.of)
             /\ \A j \in DOMAIN b.of : Typed(s, s.item[t], b.of[j])
  <2>1. b.tag = "slice" /\ b.of = of /\ b.len = len
    BY <1>4, Tags
  <2>2. QED
    BY <1>2, <1>4, <2>1
<1>5. ASSUME t # NoType, s.kind[t] = "map", NEW of, b = Dict(of), IsFcn(of),
             \A j \in DOMAIN of : <<s.item[t], of[j]>> \in S
      PROVE  /\ b.tag = "dict" /\ b = Dict(b.of) /\ IsFcn(b.of)
             /\ \A j \in DOMAIN b.of : Typed(s, s.item[t], b.of[j])
  BY <1>2, <1>5, Tags
<1>6. ASSUME t # NoType, s.kind[t] = "struct", NEW of, NEW marks, b = Rec(of, marks), IsFcn(of),
             DOMAIN of = DOMAIN s.fields[t],
             \A i \in DOMAIN of : <<s.fields[t][i].type, of[i]>> \in S
      PROVE  /\ b.tag = "rec" /\ b = Rec(b.of, b.marks) /\ IsFcn(b.of)
             /\ DOMAIN b.of = DOMAIN s.fields[t]
             /\ \A i \in DOMAIN b.of : Typed(s, s.fields[t][i].type, b.of[i])
  <2>1. b.tag = "rec" /\ b.of = of /\ b.marks = marks
    BY <1>6, Tags
  <2>2. QED
    BY <1>2, <1>6, <2>1
<1>7. QED
  BY <1>3, <1>4, <1>5, <1>6 DEF Shaped

LEMMA TypedIsValue ==
    ASSUME JSON, NEW s, NEW t, NEW b, Typed(s, t, b)
    PROVE  IsValue(b) /\ b # Failure
<1>1. Num \in Docs
  BY DEF JSON
<1>2. \A v \in Docs : v # Failure
  BY DocCases, Tags
<1>3. QED
  BY <1>1, <1>2, TypedUnfold, Tags DEF IsValue
-----------------------------------------------------------------------------
(* The traversals, by the form of what they traverse                       *)

LEMMA UnmarkedForms ==
    ASSUME JSON, Readings
    PROVE  /\ \A of, marks : IsFcn(of) =>
                /\ Unmarked(Rec(of, marks)) = Rec([i \in DOMAIN of |-> Unmarked(of[i])], {})
                /\ Unmarked(Slice(of, marks)) = Slice([i \in DOMAIN of |-> Unmarked(of[i])], marks)
                /\ Unmarked(Dict(of)) = Dict([i \in DOMAIN of |-> Unmarked(of[i])])
           /\ Unmarked(Nil) = Nil /\ Unmarked(Failure) = Failure
           /\ \A v \in Docs : Unmarked(v) = v
<1>1. \A x : IsValue(x) => Unmarked(x) = UnmarkedOnce(x)
  BY DEF Readings
<1>2. ASSUME NEW of, NEW marks, IsFcn(of)
      PROVE  /\ Unmarked(Rec(of, marks)) = Rec([i \in DOMAIN of |-> Unmarked(of[i])], {})
             /\ Unmarked(Slice(of, marks)) = Slice([i \in DOMAIN of |-> Unmarked(of[i])], marks)
             /\ Unmarked(Dict(of)) = Dict([i \in DOMAIN of |-> Unmarked(of[i])])
  <2>1. IsValue(Rec(of, marks)) /\ IsValue(Slice(of, marks)) /\ IsValue(Dict(of))
    BY <1>2 DEF IsValue
  <2>2. QED
    BY <1>1, <2>1, Tags DEF UnmarkedOnce
<1>3. Unmarked(Nil) = Nil /\ Unmarked(Failure) = Failure
  BY <1>1, Tags DEF UnmarkedOnce, IsValue
<1>4. \A v \in Docs : Unmarked(v) = v
  BY <1>1, DocCases, Tags DEF UnmarkedOnce, IsValue
<1>5. QED
  BY <1>2, <1>3, <1>4

\* Removing the marks keeps what kind of value it is.
LEMMA UnmarkedTag ==
    ASSUME JSON, Readings, NEW x, IsValue(x)
    PROVE  Unmarked(x).tag = x.tag /\ (Unmarked(x) = Failure <=> x = Failure)
<1>1. Unmarked(x) = UnmarkedOnce(x)
  BY DEF Readings
<1>2. CASE x \in Docs
  BY <1>1, <1>2, DocCases, Tags DEF UnmarkedOnce
<1>3. CASE x \in {Nil, Failure}
  BY <1>3, UnmarkedForms, Tags
<1>4. ASSUME NEW of, NEW marks, IsFcn(of), x \in {Rec(of, marks), Slice(of, marks), Dict(of)}
      PROVE  Unmarked(x).tag = x.tag /\ x # Failure /\ Unmarked(x) # Failure
  <2> DEFINE un == [i \in DOMAIN of |-> Unmarked(of[i])]
  <2>1. \/ x = Rec(of, marks) /\ Unmarked(x) = Rec(un, {})
        \/ x = Slice(of, marks) /\ Unmarked(x) = Slice(un, marks)
        \/ x = Dict(of) /\ Unmarked(x) = Dict(un)
    BY <1>4, UnmarkedForms
  <2>2. QED
    <3> HIDE DEF un
    <3>1. QED
      BY <2>1, Tags
<1>5. QED
  BY <1>2, <1>3, <1>4 DEF IsValue

Members == Seq(JsonKeys \X Docs)

LEMMA FirstMember ==
    ASSUME NEW ms \in Members, ms # <<>>
    PROVE  /\ Head(ms) = ms[1] /\ 1 \in DOMAIN ms
           /\ Head(ms) \in JsonKeys \X Docs /\ Head(ms)[1] \in JsonKeys /\ Head(ms)[2] \in Docs
           /\ Tail(ms) \in Members /\ Len(ms) \in Nat \ {0} /\ Len(Tail(ms)) = Len(ms) - 1
           /\ \A j \in DOMAIN Tail(ms) : Tail(ms)[j] = ms[j + 1] /\ j + 1 \in DOMAIN ms
           /\ \A j \in DOMAIN ms : j # 1 => j - 1 \in DOMAIN Tail(ms) /\ ms[j] = Tail(ms)[j - 1]
BY DEF Members

LEMMA Prepend ==
    ASSUME NEW S, NEW m \in S, NEW rest \in Seq(S)
    PROVE  /\ <<m>> \o rest \in Seq(S) /\ <<m>> \o rest # <<>>
           /\ Head(<<m>> \o rest) = m /\ Tail(<<m>> \o rest) = rest
           /\ Len(<<m>> \o rest) = Len(rest) + 1
<1>1. /\ <<m>> \o rest \in Seq(S) /\ Len(<<m>> \o rest) = Len(rest) + 1
      /\ (<<m>> \o rest)[1] = m
      /\ \A j \in 1..Len(rest) : (<<m>> \o rest)[j + 1] = rest[j]
  OBVIOUS
<1> DEFINE c == <<m>> \o rest
<1> HIDE DEF c
<1>2. /\ c \in Seq(S) /\ Len(c) = Len(rest) + 1 /\ c[1] = m
      /\ \A j \in 1..Len(rest) : c[j + 1] = rest[j]
  BY <1>1 DEF c
<1>3. c # <<>> /\ Head(c) = m
  BY <1>2
<1>4. Tail(c) \in Seq(S) /\ Len(Tail(c)) = Len(rest)
      /\ \A j \in 1..Len(rest) : Tail(c)[j] = rest[j]
  BY <1>2, <1>3
<1>5. Tail(c) = rest
  BY <1>4
<1>6. QED
  BY <1>2, <1>3, <1>5 DEF c

\* At takes one of the members with the key.
LEMMA AtMember ==
    ASSUME NEW ms \in Members, NEW k \in Keys(ms)
    PROVE  \E j \in DOMAIN ms : ms[j][1] = k /\ At(ms, k) = ms[j][2] /\ At(ms, k) \in Docs
<1> DEFINE T == {j \in DOMAIN ms : ms[j][1] = k}
<1>1. Len(ms) \in Nat /\ DOMAIN ms = 1..Len(ms)
  BY DEF Members
<1>2. T # {}
  BY DEF Keys
<1>3. Max(T) \in T
  BY <1>1, <1>2, Greatest
<1>4. At(ms, k) = ms[Max(T)][2]
  BY DEF At
<1>5. ms[Max(T)] \in JsonKeys \X Docs
  BY <1>3 DEF Members
<1>6. QED
  BY <1>3, <1>4, <1>5

LEMMA FieldOfIn ==
    ASSUME NEW n \in DOMAIN Shapes, NEW t \in Types, NEW key, NEW aliases
    PROVE  /\ FieldOf(Shapes[n], t, key, aliases) \in {0} \cup DOMAIN Shapes[n].fields[t]
           /\ 0 \notin DOMAIN Shapes[n].fields[t]
<1> DEFINE fs == Shapes[n].fields[t]
           exact == {i \in DOMAIN fs : fs[i].name = key \/ (aliases /\ key \in fs[i].aliases)}
           folded == {i \in DOMAIN fs : Same(key, fs[i].name)}
<1>1. DOMAIN fs \subseteq Nat /\ 0 \notin DOMAIN fs
  BY FieldsAssumption
<1>2. exact # {} => Min(exact) \in exact
  BY <1>1, Smallest
<1>3. folded # {} => Min(folded) \in folded
  BY <1>1, Smallest
<1>4. FieldOf(Shapes[n], t, key, aliases)
        = IF exact # {} THEN Min(exact) ELSE IF folded # {} THEN Min(folded) ELSE 0
  BY DEF FieldOf
<1>5. QED
  BY <1>1, <1>2, <1>3, <1>4

\* Where no field has an alias, both rules are one.
LEMMA FieldOfWithoutAliases ==
    ASSUME NEW s, NEW t, \A i \in DOMAIN s.fields[t] : s.fields[t][i].aliases = {},
           NEW key, NEW aliases \in BOOLEAN
    PROVE  FieldOf(s, t, key, aliases) = PlanField(s, t, key)
BY DEF FieldOf, PlanField

-----------------------------------------------------------------------------
(* What the filter leaves of a document                                    *)

Shallow(ms, n) == \A j \in DOMAIN ms : depth[ms[j][2]] < n

LEMMA ShallowMembers ==
    ASSUME JSON, NEW n \in Nat, NEW ms \in Members, ms # <<>>, Shallow(ms, n)
    PROVE  Shallow(Tail(ms), n) /\ depth[Head(ms)[2]] < n /\ depth[Num] = 0 /\ depth[Num] < n
<1>1. Num \in Docs /\ depth[Num] = 0
  BY DocCases, Tags DEF JSON
<1>2. depth[Head(ms)[2]] \in Nat /\ depth[Head(ms)[2]] < n
  BY FirstMember, DocCases DEF Shallow
<1>3. Shallow(Tail(ms), n)
  BY FirstMember DEF Shallow
<1>4. QED
  BY <1>1, <1>2, <1>3

LEMMA FilterForms ==
    ASSUME JSON, Traversals, NEW s, NEW fl, NEW t, NEW v \in Docs, NEW meta, NEW standard
    PROVE  LET w == Filter(s, fl, t, v, meta, standard) IN
           /\ ~Relevant(fl, t, standard) => w = v
           /\ s.kind[t] \notin {"list", "map", "struct"} => w = v
           /\ v.tag \notin {"list", "obj"} => w = v
           /\ s.kind[t] = "list" /\ v.tag = "obj" => w = v
           /\ s.kind[t] \in {"map", "struct"} /\ v.tag = "list" => w = v
           /\ Relevant(fl, t, standard) =>
              /\ s.kind[t] = "list" /\ v.tag = "list" => w =
                   List([j \in DOMAIN v.of |-> Filter(s, fl, s.item[t], v.of[j], meta, standard)])
              /\ s.kind[t] = "map" /\ v.tag = "obj" => w =
                   Obj([j \in DOMAIN v.of |->
                          <<v.of[j][1], Filter(s, fl, s.item[t], v.of[j][2], meta, standard)>>])
              /\ s.kind[t] = "struct" /\ v.tag = "obj" => w =
                   Obj(FilterMembers(s, fl, t, v.of, meta, standard))
<1>1. Filter(s, fl, t, v, meta, standard) = FilterOnce(s, fl, t, v, meta, standard)
  BY DEF Traversals
<1>2. QED
  BY <1>1 DEF FilterOnce

\* What a member is filtered for: the value after the rules of its field.
Ruled(f, v, standard) == IF standard THEN Converted(f, v) ELSE v
Dropped(s, t, f, v, meta, standard) == Denied(s, t, f, meta) \/ (standard /\ Omitted(f, v))

LEMMA RuledIn ==
    ASSUME JSON, NEW f, NEW v \in Docs, NEW standard
    PROVE  Ruled(f, v, standard) \in {v, Num} /\ Ruled(f, v, standard) \in Docs
BY DEF Ruled, Converted, JSON

LEMMA FilterNoMembers ==
    ASSUME Traversals, NEW s, NEW fl, NEW t, NEW meta, NEW standard
    PROVE  FilterMembers(s, fl, t, <<>>, meta, standard) = <<>>
<1>1. FilterMembers(s, fl, t, <<>>, meta, standard) = FilterMembersOnce(s, fl, t, <<>>, meta, standard)
  <2>1. <<>> \in Seq(JsonKeys \X Docs)
    OBVIOUS
  <2>2. QED
    BY <2>1 DEF Traversals
<1>2. QED
  BY <1>1 DEF FilterMembersOnce

\* The field a member is for, and what the filter hands on for it.
FieldFor(s, t, m) == s.fields[t][PlanField(s, t, m[1])]
Filtered(s, fl, t, m, meta, standard) ==
    Filter(s, fl, FieldFor(s, t, m).type, Ruled(FieldFor(s, t, m), m[2], standard), meta, standard)

Prepended(m, rest) == <<m>> \o rest
FilterResults(s, fl, t, ms, meta, standard, w, rest) ==
    LET m == Head(ms)
        x == Filtered(s, fl, t, m, meta, standard)
    IN  IF PlanField(s, t, m[1]) = 0 THEN w = Prepended(m, rest)
        ELSE IF Dropped(s, t, FieldFor(s, t, m), m[2], meta, standard) THEN w = rest
        ELSE w = Prepended(<<m[1], x>>, rest)

LEMMA FilterMembersStep ==
    ASSUME Traversals, NEW s, NEW fl, NEW t, NEW ms \in Members, ms # <<>>, NEW meta, NEW standard
    PROVE  FilterResults(s, fl, t, ms, meta, standard,
             FilterMembers(s, fl, t, ms, meta, standard), FilterMembers(s, fl, t, Tail(ms), meta, standard))
<1>1. FilterMembers(s, fl, t, ms, meta, standard) = FilterMembersOnce(s, fl, t, ms, meta, standard)
  BY DEF Traversals, Members
<1>2. QED
  BY <1>1 DEF FilterMembersOnce, Ruled, Dropped, FieldFor, Filtered, FilterResults, Prepended

\* Filtering members keeps them members of values.
LEMMA FilterMembersIn ==
    ASSUME JSON, Traversals, NEW s, NEW fl, NEW t, NEW meta, NEW standard, NEW n \in Nat,
           \A v \in Docs : depth[v] < n => \A u : Filter(s, fl, u, v, meta, standard) \in Docs
    PROVE  \A ms \in Members : Shallow(ms, n) => FilterMembers(s, fl, t, ms, meta, standard) \in Members
<1> DEFINE Q(k) == \A ms \in Members : Len(ms) = k /\ Shallow(ms, n) =>
                       FilterMembers(s, fl, t, ms, meta, standard) \in Members
           S == {k \in Nat : Q(k)}
<1>1. Q(0)
  <2> SUFFICES ASSUME NEW ms \in Members, Len(ms) = 0
               PROVE  FilterMembers(s, fl, t, ms, meta, standard) \in Members
    OBVIOUS
  <2>1. ms = <<>>
    BY DEF Members
  <2>2. FilterMembers(s, fl, t, ms, meta, standard) = <<>>
    BY <2>1, FilterNoMembers
  <2>3. QED
    BY <2>2 DEF Members
<1>2. ASSUME NEW k \in Nat, Q(k) PROVE Q(k + 1)
  <2> SUFFICES ASSUME NEW ms \in Members, Len(ms) = k + 1, Shallow(ms, n)
               PROVE  FilterMembers(s, fl, t, ms, meta, standard) \in Members
    OBVIOUS
  <2>1. ms # <<>>
    BY DEF Members
  <2> DEFINE rest == FilterMembers(s, fl, t, Tail(ms), meta, standard)
             m == Head(ms)
             x == Filtered(s, fl, t, m, meta, standard)
             w == FilterMembers(s, fl, t, ms, meta, standard)
  <2>2. rest \in Members
    <3>1. Tail(ms) \in Members /\ Len(Tail(ms)) = k
      BY <2>1, FirstMember
    <3>2. Shallow(Tail(ms), n)
      BY <2>1, ShallowMembers
    <3>3. QED
      BY <1>2, <3>1, <3>2
  <2>3. m \in JsonKeys \X Docs /\ m[1] \in JsonKeys /\ m[2] \in Docs /\ depth[m[2]] < n /\ depth[Num] < n
    BY <2>1, FirstMember, ShallowMembers
  <2>4. x \in Docs
    <3> DEFINE r == Ruled(FieldFor(s, t, m), m[2], standard)
    <3>1. r \in Docs /\ depth[r] < n
      BY <2>3, RuledIn
    <3>2. x = Filter(s, fl, FieldFor(s, t, m).type, r, meta, standard)
      BY DEF Filtered
    <3> HIDE DEF r, x
    <3>3. QED
      BY <3>1, <3>2
  <2>5. <<m[1], x>> \in JsonKeys \X Docs
    BY <2>3, <2>4
  <2>6. w = <<m>> \o rest \/ w = rest \/ w = <<<<m[1], x>>>> \o rest
    <3>1. FilterResults(s, fl, t, ms, meta, standard, w, rest)
      BY <2>1, FilterMembersStep
    <3>2. QED
      BY <3>1 DEF FilterResults, Prepended
  <2>7. <<m>> \o rest \in Members /\ <<<<m[1], x>>>> \o rest \in Members
    <3> HIDE DEF x, m, rest
    <3>1. QED
      BY <2>2, <2>3, <2>5, Prepend DEF Members
  <2>8. QED
    BY <2>2, <2>6, <2>7
<1>3. S = Nat
  <2>1. S \in SUBSET Nat /\ 0 \in S /\ \A k \in S : k + 1 \in S
    BY <1>1, <1>2
  <2> HIDE DEF S
  <2>2. QED
    BY <2>1, Ind
<1>4. \A ms \in Members : Len(ms) \in Nat
  BY DEF Members
<1>5. QED
  BY <1>3, <1>4

LEMMA FilterIn ==
    ASSUME JSON, Traversals, NEW s, NEW fl, NEW meta, NEW standard
    PROVE  /\ \A v \in Docs : \A t : Filter(s, fl, t, v, meta, standard) \in Docs
           /\ \A t : \A ms \in Members : FilterMembers(s, fl, t, ms, meta, standard) \in Members
<1> DEFINE Q(n) == \A v \in Docs : depth[v] < n => \A t : Filter(s, fl, t, v, meta, standard) \in Docs
           S == {n \in Nat : Q(n)}
<1>1. Q(0)
  BY DocCases
<1>2. ASSUME NEW n \in Nat, Q(n) PROVE Q(n + 1)
  <2> SUFFICES ASSUME NEW v \in Docs, depth[v] < n + 1, NEW t
               PROVE  Filter(s, fl, t, v, meta, standard) \in Docs
    OBVIOUS
  <2> DEFINE w == Filter(s, fl, t, v, meta, standard)
  <2>1. depth[v] \in Nat
    BY DocCases
  <2>2. CASE w = v
    BY <2>2
  <2>3. CASE v.tag = "list" /\ w =
               List([j \in DOMAIN v.of |-> Filter(s, fl, s.item[t], v.of[j], meta, standard)])
    <3>1. v.of \in Seq(Docs) /\ \A j \in DOMAIN v.of : v.of[j] \in Docs /\ depth[v.of[j]] < depth[v]
      BY <2>3, DocCases, Tags
    <3>2. \A j \in DOMAIN v.of : depth[v.of[j]] \in Nat
      BY <3>1, DocCases
    <3>3. \A j \in DOMAIN v.of : Filter(s, fl, s.item[t], v.of[j], meta, standard) \in Docs
      BY <1>2, <2>1, <3>1, <3>2
    <3>4. [j \in DOMAIN v.of |-> Filter(s, fl, s.item[t], v.of[j], meta, standard)] \in Seq(Docs)
      BY <3>1, <3>3
    <3>5. QED
      BY <2>3, <3>4 DEF JSON
  <2>4. CASE v.tag = "obj" /\ w =
               Obj([j \in DOMAIN v.of |->
                      <<v.of[j][1], Filter(s, fl, s.item[t], v.of[j][2], meta, standard)>>])
    <3>1. v.of \in Members /\ \A j \in DOMAIN v.of : v.of[j][2] \in Docs /\ depth[v.of[j][2]] < depth[v]
      BY <2>4, DocCases, Tags DEF Members
    <3>2. \A j \in DOMAIN v.of : depth[v.of[j][2]] \in Nat /\ v.of[j][1] \in JsonKeys
      BY <3>1, DocCases DEF Members
    <3>3. \A j \in DOMAIN v.of : Filter(s, fl, s.item[t], v.of[j][2], meta, standard) \in Docs
      BY <1>2, <2>1, <3>1, <3>2
    <3>4. [j \in DOMAIN v.of |->
              <<v.of[j][1], Filter(s, fl, s.item[t], v.of[j][2], meta, standard)>>] \in Members
      BY <3>1, <3>2, <3>3 DEF Members
    <3>5. QED
      BY <2>4, <3>4 DEF JSON, Members
  <2>5. CASE v.tag = "obj" /\ w = Obj(FilterMembers(s, fl, t, v.of, meta, standard))
    <3>1. v.of \in Members /\ \A j \in DOMAIN v.of : v.of[j][2] \in Docs /\ depth[v.of[j][2]] < depth[v]
      BY <2>5, DocCases, Tags DEF Members
    <3>2. \A j \in DOMAIN v.of : depth[v.of[j][2]] \in Nat
      BY <3>1, DocCases
    <3>3. Shallow(v.of, n)
      BY <2>1, <3>1, <3>2 DEF Shallow
    <3>4. FilterMembers(s, fl, t, v.of, meta, standard) \in Members
      BY <1>2, <3>1, <3>3, FilterMembersIn
    <3>5. QED
      BY <2>5, <3>4 DEF JSON, Members
  <2>6. QED
    BY <2>2, <2>3, <2>4, <2>5, FilterForms, DocCases, Tags
<1>3. S = Nat
  <2>1. S \in SUBSET Nat /\ 0 \in S /\ \A k \in S : k + 1 \in S
    BY <1>1, <1>2
  <2> HIDE DEF S
  <2>2. QED
    BY <2>1, Ind
<1>4. ASSUME NEW v \in Docs, NEW t PROVE Filter(s, fl, t, v, meta, standard) \in Docs
  <2>1. depth[v] \in Nat /\ depth[v] < depth[v] + 1 /\ depth[v] + 1 \in Nat
    BY DocCases
  <2>2. QED
    BY <1>3, <2>1
<1>5. ASSUME NEW t, NEW ms \in Members PROVE FilterMembers(s, fl, t, ms, meta, standard) \in Members
  <2>1. Obj(ms) \in Docs /\ Obj(ms).tag = "obj" /\ Obj(ms).of = ms
    BY Tags DEF JSON, Members
  <2>2. depth[Obj(ms)] \in Nat /\ Shallow(ms, depth[Obj(ms)])
    BY <2>1, DocCases DEF Shallow
  <2>3. QED
    BY <1>4, <2>2, FilterMembersIn
<1>6. QED
  BY <1>4, <1>5

-----------------------------------------------------------------------------
(* Values alike but for their marks                                        *)

\* Two values of a type that differ in their marks at most.
Alike(s, t, b1, b2) == Typed(s, t, b1) /\ Typed(s, t, b2) /\ Unmarked(b1) = Unmarked(b2)
Agree(s, t, d, r) == (d = Failure /\ r = Failure) \/ Alike(s, t, d, r)

LEMMA AlikeSame == ASSUME NEW s, NEW t, NEW b, Typed(s, t, b) PROVE Alike(s, t, b, b)
BY DEF Alike

LEMMA AlikeRec ==
    ASSUME JSON, Readings, NEW s, NEW t, t # NoType, s.kind[t] = "struct",
           NEW f1, NEW f2, NEW m1, NEW m2, IsFcn(f1), IsFcn(f2),
           DOMAIN f1 = DOMAIN s.fields[t], DOMAIN f2 = DOMAIN s.fields[t],
           \A i \in DOMAIN s.fields[t] : Alike(s, s.fields[t][i].type, f1[i], f2[i])
    PROVE  Alike(s, t, Rec(f1, m1), Rec(f2, m2))
<1>1. Typed(s, t, Rec(f1, m1)) /\ Typed(s, t, Rec(f2, m2))
  BY TypedRec DEF Alike
<1>2. [i \in DOMAIN f1 |-> Unmarked(f1[i])] = [i \in DOMAIN f2 |-> Unmarked(f2[i])]
  BY DEF Alike
<1>3. /\ Unmarked(Rec(f1, m1)) = Rec([i \in DOMAIN f1 |-> Unmarked(f1[i])], {})
      /\ Unmarked(Rec(f2, m2)) = Rec([i \in DOMAIN f2 |-> Unmarked(f2[i])], {})
  BY UnmarkedForms
<1>4. QED
  BY <1>1, <1>2, <1>3 DEF Alike

LEMMA AlikeList ==
    ASSUME JSON, Readings, NEW s, NEW t, t # NoType, s.kind[t] = "list", NEW len,
           NEW f1, NEW f2, IsFcn(f1), IsFcn(f2), DOMAIN f1 = DOMAIN f2,
           \A i \in DOMAIN f1 : Alike(s, s.item[t], f1[i], f2[i])
    PROVE  Alike(s, t, Slice(f1, len), Slice(f2, len))
<1>1. Typed(s, t, Slice(f1, len)) /\ Typed(s, t, Slice(f2, len))
  BY TypedList DEF Alike
<1>2. [i \in DOMAIN f1 |-> Unmarked(f1[i])] = [i \in DOMAIN f2 |-> Unmarked(f2[i])]
  BY DEF Alike
<1>3. /\ Unmarked(Slice(f1, len)) = Slice([i \in DOMAIN f1 |-> Unmarked(f1[i])], len)
      /\ Unmarked(Slice(f2, len)) = Slice([i \in DOMAIN f2 |-> Unmarked(f2[i])], len)
  BY UnmarkedForms
<1>4. QED
  BY <1>1, <1>2, <1>3 DEF Alike

LEMMA AlikeDict ==
    ASSUME JSON, Readings, NEW s, NEW t, t # NoType, s.kind[t] = "map",
           NEW f1, NEW f2, IsFcn(f1), IsFcn(f2), DOMAIN f1 = DOMAIN f2,
           \A i \in DOMAIN f1 : Alike(s, s.item[t], f1[i], f2[i])
    PROVE  Alike(s, t, Dict(f1), Dict(f2))
<1>1. Typed(s, t, Dict(f1)) /\ Typed(s, t, Dict(f2))
  BY TypedDict DEF Alike
<1>2. [i \in DOMAIN f1 |-> Unmarked(f1[i])] = [i \in DOMAIN f2 |-> Unmarked(f2[i])]
  BY DEF Alike
<1>3. QED
  BY <1>1, <1>2, UnmarkedForms DEF Alike

\* Alike structs are both absent, or alike in every field.
LEMMA AlikeParts ==
    ASSUME JSON, Readings, NEW s, NEW t, t # NoType, s.kind[t] = "struct",
           NEW b1, NEW b2, Alike(s, t, b1, b2)
    PROVE  \/ b1 = Nil /\ b2 = Nil
           \/ /\ b1.tag = "rec" /\ b2.tag = "rec" /\ b1 = Rec(b1.of, b1.marks) /\ b2 = Rec(b2.of, b2.marks)
              /\ IsFcn(b1.of) /\ IsFcn(b2.of)
              /\ DOMAIN b1.of = DOMAIN s.fields[t] /\ DOMAIN b2.of = DOMAIN s.fields[t]
              /\ \A i \in DOMAIN s.fields[t] : Alike(s, s.fields[t][i].type, b1.of[i], b2.of[i])
<1>1. Unmarked(b1).tag = b1.tag /\ Unmarked(b2).tag = b2.tag
  BY TypedIsValue, UnmarkedTag DEF Alike
<1>2. \A b : Typed(s, t, b) => \/ b = Nil
                              \/ /\ b.tag = "rec" /\ b = Rec(b.of, b.marks) /\ IsFcn(b.of)
                                 /\ DOMAIN b.of = DOMAIN s.fields[t]
                                 /\ \A i \in DOMAIN b.of : Typed(s, s.fields[t][i].type, b.of[i])
  BY TypedUnfold
<1>3. b1.tag = b2.tag
  BY <1>1 DEF Alike
<1>4. CASE b1 = Nil \/ b2 = Nil
  BY <1>2, <1>3, <1>4, Tags DEF Alike
<1>5. CASE b1 # Nil /\ b2 # Nil
  <2>1. /\ b1.tag = "rec" /\ b2.tag = "rec" /\ b1 = Rec(b1.of, b1.marks) /\ b2 = Rec(b2.of, b2.marks)
        /\ IsFcn(b1.of) /\ IsFcn(b2.of)
        /\ DOMAIN b1.of = DOMAIN s.fields[t] /\ DOMAIN b2.of = DOMAIN s.fields[t]
        /\ \A i \in DOMAIN s.fields[t] : /\ Typed(s, s.fields[t][i].type, b1.of[i])
                                         /\ Typed(s, s.fields[t][i].type, b2.of[i])
    BY <1>2, <1>5 DEF Alike
  <2> DEFINE u1 == [i \in DOMAIN b1.of |-> Unmarked(b1.of[i])]
             u2 == [i \in DOMAIN b2.of |-> Unmarked(b2.of[i])]
  <2>2. Unmarked(b1) = Rec(u1, {}) /\ Unmarked(b2) = Rec(u2, {})
    <3>1. \A f, m : IsFcn(f) => Unmarked(Rec(f, m)) = Rec([i \in DOMAIN f |-> Unmarked(f[i])], {})
      BY UnmarkedForms
    <3>2. QED
      BY <2>1, <3>1
  <2>3. u1 = u2
    <3>1. Rec(u1, {}) = Rec(u2, {})
      BY <2>2 DEF Alike
    <3> HIDE DEF u1, u2
    <3>2. QED
      BY <3>1, Tags
  <2>4. \A i \in DOMAIN s.fields[t] : u1[i] = Unmarked(b1.of[i]) /\ u2[i] = Unmarked(b2.of[i])
    BY <2>1
  <2>5. \A i \in DOMAIN s.fields[t] : Alike(s, s.fields[t][i].type, b1.of[i], b2.of[i])
    <3> HIDE DEF u1, u2
    <3>1. QED
      BY <2>1, <2>3, <2>4 DEF Alike
  <2>6. QED
    BY <2>1, <2>5
<1>6. QED
  BY <1>4, <1>5

\* Elements or entries of two values that are alike.
AlikeParted(s, u, f1, f2) ==
    /\ IsFcn(f1) /\ IsFcn(f2) /\ DOMAIN f1 = DOMAIN f2
    /\ \A j \in DOMAIN f1 : Alike(s, u, f1[j], f2[j])

\* Lists and maps that are alike are alike element by element.
LEMMA UnmarkedParts ==
    ASSUME NEW s, NEW u, NEW f1, NEW f2, IsFcn(f1), IsFcn(f2),
           \A j \in DOMAIN f1 : Typed(s, u, f1[j]), \A j \in DOMAIN f2 : Typed(s, u, f2[j]),
           [j \in DOMAIN f1 |-> Unmarked(f1[j])] = [j \in DOMAIN f2 |-> Unmarked(f2[j])]
    PROVE  AlikeParted(s, u, f1, f2)
<1> DEFINE u1 == [j \in DOMAIN f1 |-> Unmarked(f1[j])]
           u2 == [j \in DOMAIN f2 |-> Unmarked(f2[j])]
<1>1. DOMAIN u1 = DOMAIN f1 /\ \A j \in DOMAIN f1 : u1[j] = Unmarked(f1[j])
  OBVIOUS
<1>2. DOMAIN u2 = DOMAIN f2 /\ \A j \in DOMAIN f2 : u2[j] = Unmarked(f2[j])
  OBVIOUS
<1>3. u1 = u2
  OBVIOUS
<1> HIDE DEF u1, u2
<1>4. QED
  BY <1>1, <1>2, <1>3 DEF AlikeParted, Alike

LEMMA NoParts == ASSUME NEW s, NEW u PROVE AlikeParted(s, u, <<>>, <<>>)
<1>1. DOMAIN <<>> = {} /\ IsFcn(<<>>)
  BY DEF IsFcn
<1>2. QED
  BY <1>1 DEF AlikeParted

LEMMA HeldSlots ==
    ASSUME JSON, Readings, NEW s, NEW t, t # NoType, s.kind[t] = "list",
           NEW b1, NEW b2, Alike(s, t, b1, b2)
    PROVE  AlikeParted(s, s.item[t], Held(b1, "slice"), Held(b2, "slice"))
<1>1. Unmarked(b1).tag = b1.tag /\ Unmarked(b2).tag = b2.tag
  BY TypedIsValue, UnmarkedTag DEF Alike
<1>2. \A b : Typed(s, t, b) => \/ b = Nil
                              \/ /\ b.tag = "slice" /\ b = Slice(b.of, b.len) /\ IsFcn(b.of)
                                 /\ \A j \in DOMAIN b.of : Typed(s, s.item[t], b.of[j])
  BY TypedUnfold
<1>3. b1.tag = b2.tag
  BY <1>1 DEF Alike
<1>4. CASE b1 = Nil \/ b2 = Nil
  <2>1. Held(b1, "slice") = <<>> /\ Held(b2, "slice") = <<>>
    BY <1>3, <1>4, Tags DEF Held
  <2>2. QED
    BY <2>1, NoParts
<1>5. CASE b1 # Nil /\ b2 # Nil
  <2>1. /\ Typed(s, t, b1) /\ Typed(s, t, b2) /\ Unmarked(b1) = Unmarked(b2)
    BY DEF Alike
  <2>2. /\ b1.tag = "slice" /\ b1 = Slice(b1.of, b1.len) /\ IsFcn(b1.of)
        /\ \A j \in DOMAIN b1.of : Typed(s, s.item[t], b1.of[j])
    BY <1>2, <1>5, <2>1
  <2>3. /\ b2.tag = "slice" /\ b2 = Slice(b2.of, b2.len) /\ IsFcn(b2.of)
        /\ \A j \in DOMAIN b2.of : Typed(s, s.item[t], b2.of[j])
    BY <1>2, <1>5, <2>1
  <2> DEFINE u1 == [i \in DOMAIN b1.of |-> Unmarked(b1.of[i])]
             u2 == [i \in DOMAIN b2.of |-> Unmarked(b2.of[i])]
  <2>4. Unmarked(b1) = Slice(u1, b1.len) /\ Unmarked(b2) = Slice(u2, b2.len)
    <3>1. \A f, n : IsFcn(f) => Unmarked(Slice(f, n)) = Slice([i \in DOMAIN f |-> Unmarked(f[i])], n)
      BY UnmarkedForms
    <3>2. QED
      BY <2>2, <2>3, <3>1
  <2>5. u1 = u2
    <3> HIDE DEF u1, u2
    <3>1. Slice(u1, b1.len) = Slice(u2, b2.len)
      BY <2>1, <2>4
    <3>2. QED
      BY <3>1, Tags
  <2>6. AlikeParted(s, s.item[t], b1.of, b2.of)
    BY <2>2, <2>3, <2>5, UnmarkedParts
  <2>7. QED
    BY <2>2, <2>3, <2>6 DEF Held
<1>6. QED
  BY <1>4, <1>5

LEMMA HeldEntries ==
    ASSUME JSON, Readings, NEW s, NEW t, t # NoType, s.kind[t] = "map",
           NEW b1, NEW b2, Alike(s, t, b1, b2)
    PROVE  AlikeParted(s, s.item[t], Held(b1, "dict"), Held(b2, "dict"))
<1>1. Unmarked(b1).tag = b1.tag /\ Unmarked(b2).tag = b2.tag
  BY TypedIsValue, UnmarkedTag DEF Alike
<1>2. \A b : Typed(s, t, b) => \/ b = Nil
                              \/ /\ b.tag = "dict" /\ b = Dict(b.of) /\ IsFcn(b.of)
                                 /\ \A j \in DOMAIN b.of : Typed(s, s.item[t], b.of[j])
  BY TypedUnfold
<1>3. b1.tag = b2.tag
  BY <1>1 DEF Alike
<1>4. CASE b1 = Nil \/ b2 = Nil
  <2>1. Held(b1, "dict") = <<>> /\ Held(b2, "dict") = <<>>
    BY <1>3, <1>4, Tags DEF Held
  <2>2. QED
    BY <2>1, NoParts
<1>5. CASE b1 # Nil /\ b2 # Nil
  <2>1. /\ Typed(s, t, b1) /\ Typed(s, t, b2) /\ Unmarked(b1) = Unmarked(b2)
    BY DEF Alike
  <2>2. /\ b1.tag = "dict" /\ b1 = Dict(b1.of) /\ IsFcn(b1.of)
        /\ \A j \in DOMAIN b1.of : Typed(s, s.item[t], b1.of[j])
    BY <1>2, <1>5, <2>1
  <2>3. /\ b2.tag = "dict" /\ b2 = Dict(b2.of) /\ IsFcn(b2.of)
        /\ \A j \in DOMAIN b2.of : Typed(s, s.item[t], b2.of[j])
    BY <1>2, <1>5, <2>1
  <2> DEFINE u1 == [i \in DOMAIN b1.of |-> Unmarked(b1.of[i])]
             u2 == [i \in DOMAIN b2.of |-> Unmarked(b2.of[i])]
  <2>4. Unmarked(b1) = Dict(u1) /\ Unmarked(b2) = Dict(u2)
    <3>1. \A f : IsFcn(f) => Unmarked(Dict(f)) = Dict([i \in DOMAIN f |-> Unmarked(f[i])])
      BY UnmarkedForms
    <3>2. QED
      BY <2>2, <2>3, <3>1
  <2>5. u1 = u2
    <3> HIDE DEF u1, u2
    <3>1. Dict(u1) = Dict(u2)
      BY <2>1, <2>4
    <3>2. QED
      BY <3>1, Tags
  <2>6. AlikeParted(s, s.item[t], b1.of, b2.of)
    BY <2>2, <2>3, <2>5, UnmarkedParts
  <2>7. QED
    BY <2>2, <2>3, <2>6 DEF Held
<1>6. QED
  BY <1>4, <1>5

\* What a slice gives to the element at j.
LEMMA SlotsAlike ==
    ASSUME NEW s, NEW u, NEW f1, NEW f2, AlikeParted(s, u, f1, f2), NEW j
    PROVE  Alike(s, u, Slot(f1, j), Slot(f2, j))
<1>1. Alike(s, u, Nil, Nil)
  BY TypedNil, AlikeSame
<1>2. QED
  BY <1>1 DEF Slot, AlikeParted

LEMMA OverOf ==
    ASSUME NEW g, NEW f
    PROVE  /\ IsFcn(Over(g, f)) /\ DOMAIN Over(g, f) = DOMAIN g \cup DOMAIN f
           /\ \A x \in DOMAIN g : Over(g, f)[x] = g[x]
           /\ \A x \in DOMAIN f \ DOMAIN g : Over(g, f)[x] = f[x]
BY DEF Over, IsFcn

LEMMA OverAlike ==
    ASSUME NEW s, NEW u, NEW g1, NEW g2, NEW f1, NEW f2,
           AlikeParted(s, u, g1, g2), AlikeParted(s, u, f1, f2)
    PROVE  AlikeParted(s, u, Over(g1, f1), Over(g2, f2))
<1> DEFINE o1 == Over(g1, f1)
           o2 == Over(g2, f2)
<1>1. /\ IsFcn(o1) /\ DOMAIN o1 = DOMAIN g1 \cup DOMAIN f1
      /\ \A x \in DOMAIN g1 : o1[x] = g1[x]
      /\ \A x \in DOMAIN f1 \ DOMAIN g1 : o1[x] = f1[x]
  BY OverOf
<1>2. /\ IsFcn(o2) /\ DOMAIN o2 = DOMAIN g2 \cup DOMAIN f2
      /\ \A x \in DOMAIN g2 : o2[x] = g2[x]
      /\ \A x \in DOMAIN f2 \ DOMAIN g2 : o2[x] = f2[x]
  BY OverOf
<1> HIDE DEF o1, o2
<1>3. DOMAIN o1 = DOMAIN o2
  BY <1>1, <1>2 DEF AlikeParted
<1>4. ASSUME NEW x \in DOMAIN o1 PROVE Alike(s, u, o1[x], o2[x])
  <2>1. CASE x \in DOMAIN g1
    <3>1. x \in DOMAIN g2 /\ Alike(s, u, g1[x], g2[x])
      BY <2>1 DEF AlikeParted
    <3>2. QED
      BY <1>1, <1>2, <2>1, <3>1
  <2>2. CASE x \in DOMAIN f1 \ DOMAIN g1
    <3>1. x \in DOMAIN f2 \ DOMAIN g2 /\ Alike(s, u, f1[x], f2[x])
      BY <2>2 DEF AlikeParted
    <3>2. QED
      BY <1>1, <1>2, <2>2, <3>1
  <2>3. QED
    BY <1>1, <2>1, <2>2
<1>5. AlikeParted(s, u, o1, o2)
  BY <1>1, <1>2, <1>3, <1>4 DEF AlikeParted
<1>6. QED
  BY <1>5 DEF o1, o2

LEMMA LengthOf ==
    ASSUME NEW n \in Nat, NEW f, IsFcn(f), DOMAIN f = 1..n
    PROVE  Len(f) = n /\ (f = <<>> <=> n = 0)
<1>1. f = [x \in 1..n |-> f[x]]
  BY DEF IsFcn
<1>2. f \in Seq({f[x] : x \in 1..n})
  BY <1>1
<1>3. Len(f) = n
  BY <1>1, <1>2
<1>4. QED
  BY <1>2, <1>3

\* An absent value holds nothing to decode into.
LEMMA NothingHeld ==
    /\ Held(Nil, "slice") = <<>> /\ Held(Nil, "dict") = <<>>
    /\ \A j : Slot(<<>>, j) = Nil
BY Tags DEF Held, Slot

LEMMA OverNothing ==
    ASSUME NEW g, IsFcn(g)
    PROVE  Over(g, <<>>) = g /\ Refilled(g, <<>>) = Slice(g, Len(g))
<1>1. DOMAIN <<>> = {}
  OBVIOUS
<1>2. Over(g, <<>>) = [x \in DOMAIN g |-> g[x]]
  BY <1>1 DEF Over
<1>3. Over(g, <<>>) = g
  BY <1>2 DEF IsFcn
<1>4. QED
  BY <1>3 DEF Refilled

LEMMA RefilledAlike ==
    ASSUME JSON, Readings, NEW s, NEW t, t # NoType, s.kind[t] = "list", NEW n \in Nat,
           NEW g1, NEW g2, NEW f1, NEW f2, DOMAIN g1 = 1..n,
           AlikeParted(s, s.item[t], g1, g2), AlikeParted(s, s.item[t], f1, f2)
    PROVE  Alike(s, t, Refilled(g1, f1), Refilled(g2, f2))
<1> DEFINE o1 == IF g1 = <<>> THEN <<>> ELSE Over(g1, f1)
           o2 == IF g2 = <<>> THEN <<>> ELSE Over(g2, f2)
<1>1. Len(g1) = n /\ Len(g2) = n /\ (g1 = <<>> <=> g2 = <<>>)
  BY LengthOf DEF AlikeParted
<1>2. AlikeParted(s, s.item[t], o1, o2)
  BY <1>1, OverAlike, NoParts
<1>3. Refilled(g1, f1) = Slice(o1, n) /\ Refilled(g2, f2) = Slice(o2, n)
  BY <1>1 DEF Refilled
<1> HIDE DEF o1, o2
<1>4. Alike(s, t, Slice(o1, n), Slice(o2, n))
  BY <1>2, AlikeList DEF AlikeParted
<1>5. QED
  BY <1>3, <1>4
-----------------------------------------------------------------------------
(* Decoding and reading, member by member                                  *)

DecodeResults(s, t, m, rest, base, aliases, w) ==
    LET i == FieldOf(s, t, m[1], aliases)
        v == Decode(s, s.fields[t][i].type, m[2], base[i], aliases)
    IN  IF i = 0 THEN w = DecodeMembers(s, t, rest, base, aliases)
        ELSE IF v = Failure THEN w = Failure
        ELSE w = DecodeMembers(s, t, rest, [base EXCEPT ![i] = v], aliases)

LEMMA DecodeMembersStep ==
    ASSUME Traversals, NEW s, NEW t, NEW base, NEW aliases,
           NEW m \in JsonKeys \X Docs, NEW rest \in Members
    PROVE  DecodeResults(s, t, m, rest, base, aliases,
                         DecodeMembers(s, t, Prepended(m, rest), base, aliases))
<1> DEFINE ms == Prepended(m, rest)
<1>3. ms \in Seq(JsonKeys \X Docs) /\ ms # <<>> /\ Head(ms) = m /\ Tail(ms) = rest
  BY Prepend DEF Members, Prepended
<1> HIDE DEF ms
<1>4. DecodeMembers(s, t, ms, base, aliases) = DecodeMembersOnce(s, t, ms, base, aliases)
  BY <1>3 DEF Traversals
<1>5. DecodeResults(s, t, m, rest, base, aliases, DecodeMembers(s, t, ms, base, aliases))
  BY <1>3, <1>4 DEF DecodeMembersOnce, DecodeResults
<1>6. QED
  BY <1>5 DEF ms

ReadValue(s, t, m, base, meta, rules) ==
    Reading(s, FieldFor(s, t, m).type, Ruled(FieldFor(s, t, m), m[2], rules),
            base.of[PlanField(s, t, m[1])], meta, rules)
Skipped(s, t, m, meta, rules) ==
    PlanField(s, t, m[1]) = 0 \/ Dropped(s, t, FieldFor(s, t, m), m[2], meta, rules)
Put(base, i, v) == Rec([base.of EXCEPT ![i] = v], base.marks \cup {i})
ReadResults(s, t, ms, base, meta, rules, w) ==
    LET m == Head(ms)
        v == ReadValue(s, t, m, base, meta, rules)
    IN  IF Skipped(s, t, m, meta, rules) THEN w = ReadMembers(s, t, Tail(ms), base, meta, rules)
        ELSE IF v = Failure THEN w = Failure
        ELSE w = ReadMembers(s, t, Tail(ms), Put(base, PlanField(s, t, m[1]), v), meta, rules)

LEMMA RuledOmitted ==
    ASSUME NEW f, NEW v
    PROVE  Omitted(f, Converted(f, v)) <=> Omitted(f, v)
BY Tags DEF Omitted, Converted

LEMMA ReadMembersStep ==
    ASSUME Readings, NEW s, NEW t, NEW base, NEW meta, NEW rules, NEW ms \in Members
    PROVE  /\ ms = <<>> => ReadMembers(s, t, ms, base, meta, rules) = base
           /\ ms # <<>> => ReadResults(s, t, ms, base, meta, rules,
                                       ReadMembers(s, t, ms, base, meta, rules))
<1>1. ReadMembers(s, t, ms, base, meta, rules) = ReadMembersOnce(s, t, ms, base, meta, rules)
  BY DEF Readings, Members
<1>2. ms = <<>> => ReadMembers(s, t, ms, base, meta, rules) = base
  BY <1>1 DEF ReadMembersOnce
<1>3. ASSUME ms # <<>>
      PROVE  ReadResults(s, t, ms, base, meta, rules, ReadMembers(s, t, ms, base, meta, rules))
  <2> DEFINE m == Head(ms)
             f == FieldFor(s, t, m)
             w == ReadMembers(s, t, ms, base, meta, rules)
  <2>1. Omitted(f, Converted(f, m[2])) <=> Omitted(f, m[2])
    BY RuledOmitted
  <2>2. (rules /\ Omitted(f, Ruled(f, m[2], rules))) <=> (rules /\ Omitted(f, m[2]))
    BY <2>1 DEF Ruled
  <2>3. w = IF PlanField(s, t, m[1]) = 0 \/ Denied(s, t, f, meta) \/ (rules /\ Omitted(f, Ruled(f, m[2], rules)))
            THEN ReadMembers(s, t, Tail(ms), base, meta, rules)
            ELSE IF ReadValue(s, t, m, base, meta, rules) = Failure THEN Failure
            ELSE ReadMembers(s, t, Tail(ms),
                    Put(base, PlanField(s, t, m[1]), ReadValue(s, t, m, base, meta, rules)), meta, rules)
    BY <1>1, <1>3 DEF ReadMembersOnce, ReadValue, Put, FieldFor, Ruled, PlanField
  <2>4. QED
    <3> HIDE DEF f, m, w
    <3>1. ReadResults(s, t, ms, base, meta, rules, w)
      BY <2>2, <2>3 DEF ReadResults, Skipped, Dropped, m, f
    <3>2. QED
      BY <3>1 DEF w
<1>4. QED
  BY <1>2, <1>3

-----------------------------------------------------------------------------
(* Filtering and then decoding agrees with the reading, by depth           *)

(* A context k of the traversals: the type graph's name n, the nodes R of  *)
(* the plan with their flags fl, whether metadata, input rules and         *)
(* aliases count.                                                          *)
Target(k, u) == u = NoType \/ u \in k.R \/ (u \in Types /\ Shapes[k.n].kind[u] = "time")
Live(k, u) == Relevant(k.fl, u, k.standard)
Idle(k, u) == ~Live(k, u) \/ Shapes[k.n].kind[u] = "time"

\* What an exact plan says of its nodes.
Known(k) ==
    /\ k.n \in DOMAIN Shapes /\ k.R \subseteq Types
    /\ k.meta \in BOOLEAN /\ k.standard \in BOOLEAN /\ k.aliases \in BOOLEAN
    /\ \A t \in k.R :
        /\ Shapes[k.n].item[t] \in k.R \cup {NoType}
        /\ ~Live(k, t) => Idle(k, Shapes[k.n].item[t])
        /\ \A i \in DOMAIN Shapes[k.n].fields[t] : LET f == Shapes[k.n].fields[t][i] IN
              /\ ~Denied(Shapes[k.n], t, f, k.meta) => Target(k, f.type)
              /\ ~k.aliases => f.aliases = {}
              /\ ~Live(k, t) => /\ ~Denied(Shapes[k.n], t, f, k.meta)
                                /\ k.standard => f.rules = {}
                                /\ Idle(k, f.type)

Sift(k, t, v) == Filter(Shapes[k.n], k.fl, t, v, k.meta, k.standard)
SiftMembers(k, t, ms) == FilterMembers(Shapes[k.n], k.fl, t, ms, k.meta, k.standard)
Through(k, t, v, b) == Decode(Shapes[k.n], t, Sift(k, t, v), b, k.aliases)
Meant(k, t, v, b) == Reading(Shapes[k.n], t, v, b, k.meta, k.standard)

LEMMA OutsideIdle == ASSUME NEW k, NEW t, Target(k, t), t \notin k.R PROVE Idle(k, t)
BY DEF Idle, Live, Relevant, Target

\* What has nothing to filter is left as it is.
LEMMA SiftIdle ==
    ASSUME Traversals, NEW k, NEW t, Idle(k, t), NEW v \in Docs
    PROVE  Sift(k, t, v) = v
<1>1. Sift(k, t, v) = FilterOnce(Shapes[k.n], k.fl, t, v, k.meta, k.standard)
  BY DEF Traversals, Sift
<1>2. QED
  BY <1>1 DEF FilterOnce, Idle, Live

LEMMA SiftMembersIdle ==
    ASSUME JSON, Traversals, NEW k, Known(k), NEW t \in k.R, ~Live(k, t)
    PROVE  \A ms \in Members : SiftMembers(k, t, ms) = ms
<1> DEFINE s == Shapes[k.n]
           Q(len) == \A ms \in Members : Len(ms) = len => SiftMembers(k, t, ms) = ms
           T == {len \in Nat : Q(len)}
<1>1. Q(0)
  <2> SUFFICES ASSUME NEW ms \in Members, Len(ms) = 0 PROVE SiftMembers(k, t, ms) = ms
    OBVIOUS
  <2>1. ms = <<>>
    BY DEF Members
  <2>2. QED
    BY <2>1, FilterNoMembers DEF SiftMembers
<1>2. ASSUME NEW len \in Nat, Q(len) PROVE Q(len + 1)
  <2> SUFFICES ASSUME NEW ms \in Members, Len(ms) = len + 1 PROVE SiftMembers(k, t, ms) = ms
    OBVIOUS
  <2>1. ms # <<>>
    BY DEF Members
  <2>2. Tail(ms) \in Members /\ Len(Tail(ms)) = len /\ Head(ms) \in JsonKeys \X Docs
        /\ Head(ms)[1] \in JsonKeys /\ Head(ms)[2] \in Docs
    BY <2>1, FirstMember
  <2>3. SiftMembers(k, t, Tail(ms)) = Tail(ms)
    BY <1>2, <2>2
  <2> DEFINE m == Head(ms)
             f == FieldFor(s, t, m)
  <2>4. Prepended(m, Tail(ms)) = ms
    <3>1. \A e \in JsonKeys \X Docs : \A rest \in Members : Prepended(e, rest) \in Members
            /\ Len(Prepended(e, rest)) = Len(rest) + 1 /\ Prepended(e, rest)[1] = e
            /\ \A j \in 1..Len(rest) : Prepended(e, rest)[j + 1] = rest[j]
      BY DEF Prepended, Members
    <3> DEFINE c == Prepended(m, Tail(ms))
    <3>2. c \in Members /\ Len(c) = len + 1 /\ c[1] = m /\ \A j \in 1..len : c[j + 1] = Tail(ms)[j]
      BY <2>2, <3>1
    <3>3. ms[1] = m /\ \A j \in 1..len : ms[j + 1] = Tail(ms)[j]
      BY <2>1, <2>2, FirstMember DEF Members
    <3> HIDE DEF c, m
    <3>4. \A j \in 1..(len + 1) : c[j] = ms[j]
      <4> TAKE j \in 1..(len + 1)
      <4>1. CASE j = 1
        BY <4>1, <3>2, <3>3
      <4>2. CASE j # 1
        <5>1. j - 1 \in 1..len /\ (j - 1) + 1 = j
          BY <4>2
        <5>2. QED
          BY <5>1, <3>2, <3>3
      <4>3. QED
        BY <4>1, <4>2
    <3>5. c = ms
      BY <3>2, <3>4 DEF Members
    <3>6. QED
      BY <3>5 DEF c
  <2>5. ASSUME PlanField(s, t, m[1]) # 0
        PROVE  /\ ~Dropped(s, t, f, m[2], k.meta, k.standard)
               /\ <<m[1], Filtered(s, k.fl, t, m, k.meta, k.standard)>> = m
    <3>1. PlanField(s, t, m[1]) \in DOMAIN s.fields[t]
      BY <2>5, FieldOfIn DEF PlanField, Known
    <3>2. /\ ~Denied(s, t, f, k.meta)
          /\ k.standard => f.rules = {}
          /\ Target(k, f.type)
          /\ Idle(k, f.type)
      BY <3>1 DEF FieldFor, Known
    <3>3. Ruled(f, m[2], k.standard) = m[2] /\ ~Dropped(s, t, f, m[2], k.meta, k.standard)
      BY <3>2 DEF Ruled, Converted, Dropped, Omitted
    <3>4. Sift(k, f.type, m[2]) = m[2]
      <4> HIDE DEF f, m
      <4>1. QED
        BY <2>2, <3>2, SiftIdle DEF m
    <3>5. Filtered(s, k.fl, t, m, k.meta, k.standard) = m[2]
      BY <3>3, <3>4 DEF Filtered, Sift
    <3>6. m = <<m[1], m[2]>>
      BY <2>2
    <3>7. QED
      BY <3>3, <3>5, <3>6
  <2>6. FilterResults(s, k.fl, t, ms, k.meta, k.standard, SiftMembers(k, t, ms), Tail(ms))
    BY <2>1, <2>3, FilterMembersStep DEF SiftMembers
  <2>7. QED
    BY <2>4, <2>5, <2>6 DEF FilterResults
<1>3. T = Nat
  <2>1. T \in SUBSET Nat /\ 0 \in T /\ \A len \in T : len + 1 \in T
    BY <1>1, <1>2
  <2> HIDE DEF T
  <2>2. QED
    BY <2>1, Ind
<1>4. \A ms \in Members : Len(ms) \in Nat
  BY DEF Members
<1>5. QED
  BY <1>3, <1>4

SiftEach(k, t, ms) == [j \in DOMAIN ms |-> <<ms[j][1], Sift(k, t, ms[j][2])>>]
SiftForm(k, t, v, w) ==
    LET s == Shapes[k.n] IN
    \/ /\ s.kind[t] = "list" /\ v.tag = "list"
       /\ w = List([j \in DOMAIN v.of |-> Sift(k, s.item[t], v.of[j])])
    \/ s.kind[t] = "map" /\ v.tag = "obj" /\ w = Obj(SiftEach(k, s.item[t], v.of))
    \/ s.kind[t] = "struct" /\ v.tag = "obj" /\ w = Obj(SiftMembers(k, t, v.of))
    \/ /\ ~(s.kind[t] = "list" /\ v.tag = "list") /\ ~(s.kind[t] \in {"map", "struct"} /\ v.tag = "obj")
       /\ w = v

\* The filter by the form of the value, whether or not it has anything to do.
LEMMA SiftForms ==
    ASSUME JSON, Traversals, NEW k, Known(k), NEW t \in k.R, NEW v \in Docs
    PROVE  SiftForm(k, t, v, Sift(k, t, v))
<1> DEFINE s == Shapes[k.n]
<1>1. CASE Live(k, t)
  <2>1. Sift(k, t, v) = FilterOnce(s, k.fl, t, v, k.meta, k.standard)
    BY DEF Traversals, Sift
  <2>2. QED
    BY <1>1, <2>1 DEF FilterOnce, SiftForm, SiftEach, SiftMembers, Live, Sift
<1>2. CASE ~Live(k, t)
  <2>1. Sift(k, t, v) = v
    BY <1>2, SiftIdle DEF Idle
  <2>2. \A u \in Docs : Sift(k, s.item[t], u) = u
    BY <1>2, SiftIdle DEF Known
  <2>3. ASSUME v.tag = "list"
        PROVE  v = List([j \in DOMAIN v.of |-> Sift(k, s.item[t], v.of[j])])
    <3>1. v = List(v.of) /\ v.of \in Seq(Docs)
      BY <2>3, DocCases
    <3>2. [j \in DOMAIN v.of |-> Sift(k, s.item[t], v.of[j])] = v.of
      BY <2>2, <3>1
    <3>3. QED
      BY <3>1, <3>2
  <2>4. ASSUME v.tag = "obj"
        PROVE  /\ v = Obj([j \in DOMAIN v.of |-> <<v.of[j][1], Sift(k, s.item[t], v.of[j][2])>>])
               /\ v = Obj(SiftMembers(k, t, v.of))
    <3>1. v = Obj(v.of) /\ v.of \in Members
      BY <2>4, DocCases, Tags DEF Members
    <3>2. \A j \in DOMAIN v.of : v.of[j][2] \in Docs /\ v.of[j] = <<v.of[j][1], v.of[j][2]>>
      BY <3>1 DEF Members
    <3>3. [j \in DOMAIN v.of |-> <<v.of[j][1], Sift(k, s.item[t], v.of[j][2])>>] = v.of
      <4>1. \A j \in DOMAIN v.of : <<v.of[j][1], Sift(k, s.item[t], v.of[j][2])>> = v.of[j]
        BY <2>2, <3>2
      <4>2. v.of = [j \in DOMAIN v.of |-> v.of[j]]
        BY <3>1 DEF Members
      <4>3. QED
        BY <4>1, <4>2
    <3>4. SiftMembers(k, t, v.of) = v.of
      BY <1>2, <3>1, SiftMembersIdle
    <3>5. QED
      BY <3>1, <3>3, <3>4
  <2>5. QED
    BY <2>1, <2>3, <2>4 DEF SiftForm, SiftEach
<1>3. QED
  BY <1>1, <1>2

\* With or without aliases, the decoder knows the fields that the plan knows.
LEMMA SameField ==
    ASSUME NEW k, Known(k), NEW t \in k.R, NEW key
    PROVE  /\ FieldOf(Shapes[k.n], t, key, k.aliases) = PlanField(Shapes[k.n], t, key)
           /\ PlanField(Shapes[k.n], t, key) \in {0} \cup DOMAIN Shapes[k.n].fields[t]
           /\ 0 \notin DOMAIN Shapes[k.n].fields[t]
<1>1. CASE k.aliases
  BY <1>1, FieldOfIn DEF Known, PlanField
<1>2. CASE ~k.aliases
  BY <1>2, FieldOfIn, FieldOfWithoutAliases DEF Known, PlanField
<1>3. QED
  BY <1>1, <1>2

SiftedMembers(k, t, ms, f1) == DecodeMembers(Shapes[k.n], t, SiftMembers(k, t, ms), f1, k.aliases)
MeantMembers(k, t, ms, b2) == ReadMembers(Shapes[k.n], t, ms, b2, k.meta, k.standard)
Matches(k, v) == \A t : Target(k, t) => \A b1, b2 :
    Alike(Shapes[k.n], t, b1, b2) => Agree(Shapes[k.n], t, Through(k, t, v, b1), Meant(k, t, v, b2))
MembersMatch(k, t, ms) == \A f1, b2 :
    Alike(Shapes[k.n], t, Rec(f1, {}), b2) =>
        Agree(Shapes[k.n], t, SiftedMembers(k, t, ms, f1), MeantMembers(k, t, ms, b2))

\* One member filtered and decoded, and the same member read.
LEMMA MemberMatches ==
    ASSUME JSON, Traversals, Readings, NEW k, Known(k), NEW t \in k.R, Shapes[k.n].kind[t] = "struct",
           NEW ms \in Members, ms # <<>>, MembersMatch(k, t, Tail(ms)),
           Matches(k, Head(ms)[2]), Matches(k, Num)
    PROVE  MembersMatch(k, t, ms)
<1> DEFINE s == Shapes[k.n]
           m == Head(ms)
           i == PlanField(s, t, m[1])
           f == FieldFor(s, t, m)
           r == Ruled(f, m[2], k.standard)
           rest == SiftMembers(k, t, Tail(ms))
           x == Filtered(s, k.fl, t, m, k.meta, k.standard)
<1> SUFFICES ASSUME NEW f1, NEW b2, Alike(s, t, Rec(f1, {}), b2)
             PROVE  Agree(s, t, SiftedMembers(k, t, ms, f1), MeantMembers(k, t, ms, b2))
  BY DEF MembersMatch
<1>1. /\ m \in JsonKeys \X Docs /\ m[1] \in JsonKeys /\ m[2] \in Docs /\ Tail(ms) \in Members
      /\ r \in Docs /\ r \in {m[2], Num}
  BY FirstMember, RuledIn
<1>2. rest \in Members /\ x \in Docs /\ x = Sift(k, f.type, r)
  BY <1>1, FilterIn DEF SiftMembers, Filtered, Sift
<1>3. t # NoType /\ t \in Types
  BY FieldsAssumption DEF Known
<1>4. FilterResults(s, k.fl, t, ms, k.meta, k.standard, SiftMembers(k, t, ms), rest)
  BY FilterMembersStep DEF SiftMembers
<1>5. ReadResults(s, t, ms, b2, k.meta, k.standard, MeantMembers(k, t, ms, b2))
  BY ReadMembersStep DEF MeantMembers
<1>6. FieldOf(s, t, m[1], k.aliases) = i /\ i \in {0} \cup DOMAIN s.fields[t] /\ 0 \notin DOMAIN s.fields[t]
  BY SameField
<1>7. CASE Skipped(s, t, m, k.meta, k.standard)
  <2>1. MeantMembers(k, t, ms, b2) = MeantMembers(k, t, Tail(ms), b2)
    BY <1>5, <1>7 DEF ReadResults, MeantMembers
  <2>2. SiftedMembers(k, t, ms, f1) = SiftedMembers(k, t, Tail(ms), f1)
    <3>1. CASE i = 0
      <4>1. SiftMembers(k, t, ms) = Prepended(m, rest)
        BY <3>1, <1>4 DEF FilterResults
      <4>2. DecodeResults(s, t, m, rest, f1, k.aliases, DecodeMembers(s, t, Prepended(m, rest), f1, k.aliases))
        BY <1>1, <1>2, DecodeMembersStep
      <4>3. DecodeMembers(s, t, Prepended(m, rest), f1, k.aliases) = DecodeMembers(s, t, rest, f1, k.aliases)
        BY <3>1, <1>6, <4>2 DEF DecodeResults
      <4>4. QED
        BY <4>1, <4>3 DEF SiftedMembers
    <3>2. CASE i # 0
      <4>1. SiftMembers(k, t, ms) = rest
        BY <3>2, <1>4, <1>7 DEF FilterResults, Skipped
      <4>2. QED
        BY <4>1 DEF SiftedMembers
    <3>3. QED
      BY <3>1, <3>2
  <2>3. QED
    BY <2>1, <2>2 DEF MembersMatch
<1>8. CASE ~Skipped(s, t, m, k.meta, k.standard)
  <2> DEFINE d == Through(k, f.type, r, f1[i])
             e == Meant(k, f.type, r, b2.of[i])
  <2>1. i \in DOMAIN s.fields[t] /\ f = s.fields[t][i] /\ ~Dropped(s, t, f, m[2], k.meta, k.standard)
    BY <1>6, <1>8 DEF Skipped, FieldFor
  <2>2. SiftMembers(k, t, ms) = Prepended(<<m[1], x>>, rest)
    BY <1>4, <1>6, <2>1 DEF FilterResults
  <2>3. DecodeResults(s, t, <<m[1], x>>, rest, f1, k.aliases, SiftedMembers(k, t, ms, f1))
    <3>1. <<m[1], x>> \in JsonKeys \X Docs
      BY <1>1, <1>2
    <3>2. QED
      BY <1>2, <2>2, <3>1, DecodeMembersStep DEF SiftedMembers
  <2>4. IF d = Failure THEN SiftedMembers(k, t, ms, f1) = Failure
        ELSE SiftedMembers(k, t, ms, f1) = SiftedMembers(k, t, Tail(ms), [f1 EXCEPT ![i] = d])
    <3>1. d = Decode(s, s.fields[t][i].type, x, f1[i], k.aliases)
      BY <1>2, <2>1 DEF Through
    <3>2. <<m[1], x>>[1] = m[1] /\ <<m[1], x>>[2] = x
      OBVIOUS
    <3> HIDE DEF d, x, i, m
    <3>3. i # 0
      BY <1>6, <2>1
    <3>4. QED
      BY <1>6, <2>3, <3>1, <3>2, <3>3 DEF DecodeResults, SiftedMembers
  <2>5. IF e = Failure THEN MeantMembers(k, t, ms, b2) = Failure
        ELSE MeantMembers(k, t, ms, b2) = MeantMembers(k, t, Tail(ms), Put(b2, i, e))
    <3>1. e = ReadValue(s, t, m, b2, k.meta, k.standard)
      BY DEF ReadValue, Meant
    <3> HIDE DEF e
    <3>2. QED
      BY <1>5, <1>8, <3>1 DEF ReadResults, MeantMembers
  <2>6. /\ IsFcn(f1) /\ DOMAIN f1 = DOMAIN s.fields[t] /\ IsFcn(b2.of) /\ DOMAIN b2.of = DOMAIN s.fields[t]
        /\ \A j \in DOMAIN s.fields[t] : Alike(s, s.fields[t][j].type, f1[j], b2.of[j])
    <3>1. Rec(f1, {}).tag = "rec" /\ Rec(f1, {}).of = f1 /\ Rec(f1, {}) # Nil
      BY Tags
    <3>2. QED
      BY <1>3, <3>1, AlikeParts
  <2>7. Agree(s, f.type, d, e)
    <3>1. Target(k, f.type)
      BY <2>1 DEF Known, Dropped
    <3>2. Matches(k, r)
      BY <1>1
    <3> HIDE DEF r, f, i
    <3>3. QED
      BY <2>1, <2>6, <3>1, <3>2 DEF Matches
  <2>8. CASE d = Failure
    <3>1. e = Failure
      <4>1. \A u, w : Alike(s, u, Failure, w) => FALSE
        BY TypedIsValue DEF Alike
      <4> HIDE DEF d, e, f
      <4>2. QED
        BY <2>7, <2>8, <4>1 DEF Agree
    <3>2. QED
      BY <2>4, <2>5, <2>8, <3>1 DEF Agree
  <2>9. CASE d # Failure
    <3>1. Alike(s, f.type, d, e) /\ e # Failure
      <4> HIDE DEF d, e, f
      <4>1. QED
        BY <2>7, <2>9, TypedIsValue DEF Agree, Alike
    <3> DEFINE g1 == [f1 EXCEPT ![i] = d]
               g2 == [b2.of EXCEPT ![i] = e]
    <3>2. /\ IsFcn(g1) /\ DOMAIN g1 = DOMAIN s.fields[t] /\ IsFcn(g2) /\ DOMAIN g2 = DOMAIN s.fields[t]
          /\ \A j \in DOMAIN s.fields[t] : g1[j] = (IF j = i THEN d ELSE f1[j])
                                           /\ g2[j] = (IF j = i THEN e ELSE b2.of[j])
      <4> HIDE DEF d, e, i
      <4>1. QED
        BY <2>6 DEF IsFcn
    <3>3. \A j \in DOMAIN s.fields[t] : Alike(s, s.fields[t][j].type, g1[j], g2[j])
      <4> HIDE DEF d, e, i, f, g1, g2
      <4>1. QED
        BY <2>1, <2>6, <3>1, <3>2
    <3>4. Alike(s, t, Rec(g1, {}), Put(b2, i, e))
      <4> HIDE DEF g1
      <4>1. Put(b2, i, e) = Rec(g2, b2.marks \cup {i})
        BY DEF Put
      <4> HIDE DEF g2, i, e
      <4>2. QED
        BY <1>3, <3>2, <3>3, <4>1, AlikeRec
    <3>5. Agree(s, t, SiftedMembers(k, t, Tail(ms), g1), MeantMembers(k, t, Tail(ms), Put(b2, i, e)))
      <4> HIDE DEF g1, g2, i, e
      <4>1. QED
        BY <3>4 DEF MembersMatch
    <3>6. QED
      <4> HIDE DEF d, e, i
      <4>1. QED
        BY <2>4, <2>5, <2>9, <3>1, <3>5
  <2>10. QED
    BY <2>8, <2>9
<1>9. QED
  BY <1>7, <1>8

LEMMA DecodeNoMembers ==
    ASSUME Traversals, NEW s, NEW t, NEW base, NEW aliases
    PROVE  DecodeMembers(s, t, <<>>, base, aliases) = Rec(base, {})
<1>1. <<>> \in Seq(JsonKeys \X Docs)
  OBVIOUS
<1>2. DecodeMembers(s, t, <<>>, base, aliases) = DecodeMembersOnce(s, t, <<>>, base, aliases)
  BY <1>1 DEF Traversals
<1>3. QED
  BY <1>2 DEF DecodeMembersOnce

LEMMA MembersMatchAll ==
    ASSUME JSON, Traversals, Readings, NEW k, Known(k), NEW t \in k.R, Shapes[k.n].kind[t] = "struct",
           NEW n \in Nat, \A v \in Docs : depth[v] < n => Matches(k, v)
    PROVE  \A ms \in Members : Shallow(ms, n) => MembersMatch(k, t, ms)
<1> DEFINE Q(len) == \A ms \in Members : Len(ms) = len /\ Shallow(ms, n) => MembersMatch(k, t, ms)
           T == {len \in Nat : Q(len)}
<1>1. Q(0)
  <2> SUFFICES ASSUME NEW ms \in Members, Len(ms) = 0, NEW f1, NEW b2,
                      Alike(Shapes[k.n], t, Rec(f1, {}), b2)
               PROVE  Agree(Shapes[k.n], t, SiftedMembers(k, t, ms, f1), MeantMembers(k, t, ms, b2))
    BY DEF MembersMatch
  <2>1. ms = <<>>
    BY DEF Members
  <2>2. SiftMembers(k, t, ms) = <<>>
    BY <2>1, FilterNoMembers DEF SiftMembers
  <2>3. SiftedMembers(k, t, ms, f1) = Rec(f1, {})
    BY <2>2, DecodeNoMembers DEF SiftedMembers
  <2>4. MeantMembers(k, t, ms, b2) = b2
    BY <2>1, ReadMembersStep DEF MeantMembers
  <2>5. QED
    BY <2>3, <2>4 DEF Agree
<1>2. ASSUME NEW len \in Nat, Q(len) PROVE Q(len + 1)
  <2> SUFFICES ASSUME NEW ms \in Members, Len(ms) = len + 1, Shallow(ms, n)
               PROVE  MembersMatch(k, t, ms)
    OBVIOUS
  <2>1. ms # <<>>
    BY DEF Members
  <2>2. Tail(ms) \in Members /\ Len(Tail(ms)) = len /\ Head(ms)[2] \in Docs /\ Num \in Docs
    BY <2>1, FirstMember DEF JSON
  <2>3. Shallow(Tail(ms), n) /\ depth[Head(ms)[2]] < n /\ depth[Num] < n
    BY <2>1, ShallowMembers
  <2>4. MembersMatch(k, t, Tail(ms)) /\ Matches(k, Head(ms)[2]) /\ Matches(k, Num)
    BY <1>2, <2>2, <2>3
  <2>5. QED
    BY <2>1, <2>4, MemberMatches
<1>3. T = Nat
  <2>1. T \in SUBSET Nat /\ 0 \in T /\ \A len \in T : len + 1 \in T
    BY <1>1, <1>2
  <2> HIDE DEF T
  <2>2. QED
    BY <2>1, Ind
<1>4. \A ms \in Members : Len(ms) \in Nat
  BY DEF Members
<1>5. QED
  BY <1>3, <1>4

LEMMA AgreeFails ==
    ASSUME JSON, NEW s, NEW t, NEW d, NEW e, Agree(s, t, d, e)
    PROVE  /\ d = Failure <=> e = Failure
           /\ d # Failure => Alike(s, t, d, e)
BY TypedIsValue DEF Agree, Alike

Whole1(g, value) == IF Failure \in Range(g) THEN Failure ELSE value

AgreeParted(s, u, g1, g2) ==
    /\ IsFcn(g1) /\ IsFcn(g2) /\ DOMAIN g1 = DOMAIN g2
    /\ \A j \in DOMAIN g1 : Agree(s, u, g1[j], g2[j])

LEMMA AgreeParts ==
    ASSUME JSON, NEW s, NEW u, NEW g1, NEW g2, AgreeParted(s, u, g1, g2)
    PROVE  /\ Failure \in Range(g1) <=> Failure \in Range(g2)
           /\ Failure \notin Range(g1) => AlikeParted(s, u, g1, g2)
<1>1. \A j \in DOMAIN g1 : /\ g1[j] = Failure <=> g2[j] = Failure
                           /\ g1[j] # Failure => Alike(s, u, g1[j], g2[j])
  BY AgreeFails DEF AgreeParted
<1>2. Failure \in Range(g1) <=> Failure \in Range(g2)
  BY <1>1 DEF Range, AgreeParted
<1>3. ASSUME Failure \notin Range(g1) PROVE AlikeParted(s, u, g1, g2)
  BY <1>1, <1>3 DEF Range, AgreeParted, AlikeParted
<1>4. QED
  BY <1>2, <1>3

LEMMA AgreeList ==
    ASSUME JSON, Readings, NEW s, NEW t, t # NoType, s.kind[t] = "list", NEW n \in Nat,
           NEW g1, NEW g2, DOMAIN g1 = 1..n, AgreeParted(s, s.item[t], g1, g2),
           NEW f1, NEW f2, AlikeParted(s, s.item[t], f1, f2)
    PROVE  Agree(s, t, Whole1(g1, Refilled(g1, f1)), Whole1(g2, Refilled(g2, f2)))
<1>1. CASE Failure \in Range(g1)
  BY <1>1, AgreeParts DEF Whole1, Agree
<1>2. CASE Failure \notin Range(g1)
  <2>1. Failure \notin Range(g2) /\ AlikeParted(s, s.item[t], g1, g2)
    BY <1>2, AgreeParts
  <2>2. Alike(s, t, Refilled(g1, f1), Refilled(g2, f2))
    BY <2>1, RefilledAlike
  <2>3. QED
    BY <1>2, <2>1, <2>2 DEF Whole1, Agree
<1>3. QED
  BY <1>1, <1>2

\* h is what the members decode to, g what the last ones of each key do.
LEMMA AgreeDict ==
    ASSUME JSON, Readings, NEW s, NEW t, t # NoType, s.kind[t] = "map",
           NEW h1, NEW h2, AgreeParted(s, s.item[t], h1, h2),
           NEW g1, NEW g2, AgreeParted(s, s.item[t], g1, g2), Range(g1) \subseteq Range(h1),
           NEW f1, NEW f2, AlikeParted(s, s.item[t], f1, f2)
    PROVE  Agree(s, t, Whole1(h1, Dict(Over(g1, f1))), Whole1(h2, Dict(Over(g2, f2))))
<1>1. CASE Failure \in Range(h1)
  BY <1>1, AgreeParts DEF Whole1, Agree
<1>2. CASE Failure \notin Range(h1)
  <2>1. Failure \notin Range(h2) /\ Failure \notin Range(g1)
    BY <1>2, AgreeParts
  <2>2. AlikeParted(s, s.item[t], g1, g2)
    BY <2>1, AgreeParts
  <2> DEFINE o1 == Over(g1, f1)
             o2 == Over(g2, f2)
  <2>3. AlikeParted(s, s.item[t], o1, o2)
    BY <2>2, OverAlike
  <2>4. Alike(s, t, Dict(o1), Dict(o2))
    <3> HIDE DEF o1, o2
    <3>1. QED
      BY <2>3, AlikeDict DEF AlikeParted
  <2>5. QED
    BY <1>2, <2>1, <2>4 DEF Whole1, Agree
<1>3. QED
  BY <1>1, <1>2

\* The filter changes no value's kind.
LEMMA SiftShape ==
    ASSUME JSON, Traversals, NEW k, Known(k), NEW t, Target(k, t), NEW v \in Docs
    PROVE  /\ Sift(k, t, v) \in Docs /\ Sift(k, t, v).tag = v.tag
           /\ Sift(k, t, v) = Null <=> v = Null
           /\ Sift(k, t, v) = Num <=> v = Num
<1>1. Sift(k, t, v) \in Docs
  BY FilterIn DEF Sift
<1>2. CASE t \in k.R
  <2>1. Sift(k, t, v) = v \/ (Sift(k, t, v).tag = v.tag /\ v.tag \in {"list", "obj"})
    <3>1. SiftForm(k, t, v, Sift(k, t, v))
      BY <1>2, SiftForms
    <3>2. ASSUME NEW w, SiftForm(k, t, v, w) PROVE w = v \/ (w.tag = v.tag /\ v.tag \in {"list", "obj"})
      BY <3>2, Tags DEF SiftForm
    <3>3. QED
      BY <3>1, <3>2
  <2>2. QED
    BY <1>1, <2>1, Tags
<1>3. CASE t \notin k.R
  BY <1>1, <1>3, SiftIdle, OutsideIdle
<1>4. QED
  BY <1>2, <1>3

\* A filtered object has the same keys where the filter keeps every member.
LEMMA SiftEntries ==
    ASSUME NEW k, NEW t, NEW ms \in Members
    PROVE  /\ Keys(SiftEach(k, t, ms)) = Keys(ms)
           /\ \A key \in Keys(ms) : At(SiftEach(k, t, ms), key) = Sift(k, t, At(ms, key))
<1> DEFINE fs == SiftEach(k, t, ms)
           F(v) == Sift(k, t, v)
<1>1. DOMAIN fs = DOMAIN ms /\ \A j \in DOMAIN ms : fs[j][1] = ms[j][1] /\ fs[j][2] = F(ms[j][2])
  BY DEF SiftEach
<1> HIDE DEF fs, F
<1>2. Keys(fs) = Keys(ms)
  BY <1>1 DEF Keys
<1>3. ASSUME NEW key \in Keys(ms) PROVE At(fs, key) = F(At(ms, key))
  <2> DEFINE T == {j \in DOMAIN ms : ms[j][1] = key}
  <2>1. T = {j \in DOMAIN fs : fs[j][1] = key}
    BY <1>1
  <2>2. T # {}
    BY DEF Keys
  <2>3. Len(ms) \in Nat /\ DOMAIN ms = 1..Len(ms)
    BY DEF Members
  <2>4. Max(T) \in T
    BY <2>2, <2>3, Greatest
  <2>5. At(fs, key) = fs[Max(T)][2] /\ At(ms, key) = ms[Max(T)][2]
    BY <2>1 DEF At
  <2>6. QED
    BY <1>1, <2>4, <2>5
<1>4. QED
  BY <1>2, <1>3 DEF fs, F

DecodeForm(s, t, v, before, aliases, d) ==
    /\ t = NoType => d = v
    /\ t # NoType /\ v = Null => d = IF s.kind[t] \in {"leaf", "time"} THEN before ELSE Nil
    /\ t # NoType /\ v # Null =>
        /\ s.kind[t] \in {"leaf", "time"} => d = IF v = Num THEN v ELSE Failure
        /\ s.kind[t] = "list" => d = IF v.tag # "list" THEN Failure
              ELSE DecodeList(s, t, v, Held(before, "slice"), aliases)
        /\ s.kind[t] = "map" => d = IF v.tag # "obj" THEN Failure
              ELSE DecodeMap(s, t, v, Held(before, "dict"), aliases)
        /\ s.kind[t] = "struct" => d = IF v.tag # "obj" THEN Failure
              ELSE DecodeMembers(s, t, v.of, IF before.tag = "rec" THEN before.of ELSE Zero(s, t), aliases)
        /\ s.kind[t] \notin {"leaf", "time", "list", "map", "struct"} => d = Failure

LEMMA DecodesTo ==
    ASSUME Traversals, NEW s, NEW t, NEW v \in Docs, NEW before, NEW aliases
    PROVE  DecodeForm(s, t, v, before, aliases, Decode(s, t, v, before, aliases))
<1>1. Decode(s, t, v, before, aliases) = DecodeOnce(s, t, v, before, aliases)
  BY DEF Traversals
<1>2. QED
  BY <1>1, SMT DEF DecodeOnce, DecodeForm

ReadForm(s, t, v, before, meta, rules, d) ==
    /\ t = NoType => d = v
    /\ t # NoType /\ v = Null => d = IF s.kind[t] \in {"leaf", "time"} THEN before ELSE Nil
    /\ t # NoType /\ v # Null =>
        /\ s.kind[t] \in {"leaf", "time"} => d = IF v = Num THEN v ELSE Failure
        /\ s.kind[t] = "list" => d = IF v.tag # "list" THEN Failure
              ELSE ReadList(s, t, v, Held(before, "slice"), meta, rules)
        /\ s.kind[t] = "map" => d = IF v.tag # "obj" THEN Failure
              ELSE ReadMap(s, t, v, Held(before, "dict"), meta, rules)
        /\ s.kind[t] = "struct" => d = IF v.tag # "obj" THEN Failure
              ELSE ReadMembers(s, t, v.of, IF before.tag = "rec" THEN before ELSE Rec(Zero(s, t), {}), meta, rules)
        /\ s.kind[t] \notin {"leaf", "time", "list", "map", "struct"} => d = Failure

LEMMA ReadsTo ==
    ASSUME Readings, NEW s, NEW t, NEW v \in Docs, NEW before, NEW meta, NEW rules
    PROVE  ReadForm(s, t, v, before, meta, rules, Reading(s, t, v, before, meta, rules))
<1>1. Reading(s, t, v, before, meta, rules) = ReadingOnce(s, t, v, before, meta, rules)
  BY DEF Readings
<1>2. QED
  BY <1>1, SMT DEF ReadingOnce, ReadForm
-----------------------------------------------------------------------------
LEMMA ZeroAlike ==
    ASSUME JSON, Readings, NEW n \in DOMAIN Shapes, NEW t \in Types, Shapes[n].kind[t] = "struct",
           NEW m1, NEW m2
    PROVE  /\ Alike(Shapes[n], t, Rec(Zero(Shapes[n], t), m1), Rec(Zero(Shapes[n], t), m2))
           /\ IsFcn(Zero(Shapes[n], t))
<1> DEFINE s == Shapes[n]
<1>1. IsFcn(Zero(s, t)) /\ DOMAIN Zero(s, t) = DOMAIN s.fields[t]
      /\ \A i \in DOMAIN s.fields[t] : Zero(s, t)[i] = Nil
  BY DEF Zero, IsFcn
<1>2. \A i \in DOMAIN s.fields[t] : Alike(s, s.fields[t][i].type, Zero(s, t)[i], Zero(s, t)[i])
  BY <1>1, TypedNil, AlikeSame
<1>3. t # NoType
  BY FieldsAssumption
<1>4. QED
  BY <1>1, <1>2, <1>3, AlikeRec

\* The public reading of a document is what filtering and decoding make of it,
\* if that is so of the shallower documents.
LEMMA ValueMatches ==
    ASSUME JSON, Traversals, Readings, NEW k, Known(k), NEW v \in Docs,
           \A u \in Docs : depth[u] < depth[v] => Matches(k, u)
    PROVE  Matches(k, v)
<1> DEFINE s == Shapes[k.n]
<1> SUFFICES ASSUME NEW t, Target(k, t), NEW b1, NEW b2, Alike(s, t, b1, b2)
             PROVE  Agree(s, t, Through(k, t, v, b1), Meant(k, t, v, b2))
  BY DEF Matches
<1> DEFINE w == Sift(k, t, v)
           d == Through(k, t, v, b1)
           e == Meant(k, t, v, b2)
<1>1. w \in Docs /\ w.tag = v.tag /\ (w = Null <=> v = Null) /\ (w = Num <=> v = Num)
  BY SiftShape
<1>2. DecodeForm(s, t, w, b1, k.aliases, d)
  BY <1>1, DecodesTo DEF Through
<1>3. ReadForm(s, t, v, b2, k.meta, k.standard, e)
  BY ReadsTo DEF Meant
<1>4. \A u : Agree(s, u, Failure, Failure) /\ Alike(s, u, Nil, Nil)
  BY TypedNil, AlikeSame DEF Agree
<1>5. \A u, x, y : Alike(s, u, x, y) => Agree(s, u, x, y)
  BY DEF Agree
<1>6. CASE t = NoType
  <2>1. w = v
    BY <1>6, SiftIdle DEF Idle, Live, Relevant
  <2>2. d = v /\ e = v
    <3> HIDE DEF d, e, w
    <3>1. QED
      BY <1>2, <1>3, <1>6, <2>1 DEF DecodeForm, ReadForm
  <2>3. Alike(s, t, v, v)
    BY <1>6, TypedDoc, AlikeSame
  <2>4. QED
    BY <1>5, <2>2, <2>3
<1>7. CASE t # NoType /\ v = Null
  <2>1. (d = b1 /\ e = b2) \/ (d = Nil /\ e = Nil)
    <3> HIDE DEF d, e, w
    <3>1. QED
      BY <1>1, <1>2, <1>3, <1>7 DEF DecodeForm, ReadForm
  <2>2. QED
    BY <1>4, <1>5, <2>1
<1>8. CASE t # NoType /\ v # Null /\ s.kind[t] \in {"leaf", "time"}
  <2>1. (d = Num /\ e = Num) \/ (d = Failure /\ e = Failure)
    <3> HIDE DEF d, e, w
    <3>1. QED
      BY <1>1, <1>2, <1>3, <1>8 DEF DecodeForm, ReadForm
  <2>2. Alike(s, t, Num, Num)
    BY <1>8, TypedNum, AlikeSame
  <2>3. QED
    BY <1>4, <1>5, <2>1, <2>2
<1>9. CASE t # NoType /\ v # Null /\ s.kind[t] = "list"
  <2>1. t \in k.R
    BY <1>9 DEF Target
  <2>2. CASE v.tag # "list"
    <3>1. d = Failure /\ e = Failure
      <4> HIDE DEF d, e, w
      <4>1. QED
        BY <1>1, <1>2, <1>3, <1>9, <2>2 DEF DecodeForm, ReadForm
    <3>2. QED
      BY <1>4, <3>1
  <2>3. CASE v.tag = "list"
    <3> DEFINE u == s.item[t]
               f1 == Held(b1, "slice")
               f2 == Held(b2, "slice")
               g1 == [j \in DOMAIN w.of |-> Decode(s, u, w.of[j], Slot(f1, j), k.aliases)]
               g2 == [j \in DOMAIN v.of |-> Meant(k, u, v.of[j], Slot(f2, j))]
    <3>1. d = Whole1(g1, Refilled(g1, f1)) /\ e = Whole1(g2, Refilled(g2, f2))
      <4>1. d = DecodeList(s, t, w, f1, k.aliases) /\ e = ReadList(s, t, v, f2, k.meta, k.standard)
        <5> HIDE DEF d, e, w
        <5>1. QED
          BY <1>1, <1>2, <1>3, <1>9, <2>3 DEF DecodeForm, ReadForm
      <4>2. QED
        BY <4>1 DEF DecodeList, ReadList, Meant, Whole1
    <3>2. DOMAIN w.of = DOMAIN v.of /\ \A j \in DOMAIN v.of : w.of[j] = Sift(k, u, v.of[j])
      <4>1. SiftForm(k, t, v, w)
        BY <2>1, SiftForms
      <4>2. w.of = [j \in DOMAIN v.of |-> Sift(k, u, v.of[j])]
        <5> HIDE DEF w
        <5>1. QED
          BY <4>1, <1>9, <2>3, Tags DEF SiftForm
      <4> HIDE DEF w, u
      <4>3. QED
        BY <4>2
    <3>3. Target(k, u)
      BY <2>1 DEF Known, Target
    <3>4. AlikeParted(s, u, f1, f2)
      BY <1>9, HeldSlots
    <3>5. v.of \in Seq(Docs) /\ \A j \in DOMAIN v.of : v.of[j] \in Docs /\ depth[v.of[j]] < depth[v]
      BY <2>3, DocCases, Tags
    <3>6. ASSUME NEW j \in DOMAIN v.of
          PROVE  Agree(s, u, Through(k, u, v.of[j], Slot(f1, j)), Meant(k, u, v.of[j], Slot(f2, j)))
      <4> HIDE DEF u, f1, f2
      <4>1. Alike(s, u, Slot(f1, j), Slot(f2, j))
        BY <3>4, SlotsAlike
      <4>2. QED
        BY <4>1, <3>3, <3>5 DEF Matches
    <3>7. \A j \in DOMAIN v.of : Agree(s, u, g1[j], g2[j])
      <4> HIDE DEF w, u, f1, f2
      <4>1. QED
        BY <3>2, <3>6 DEF Through
    <3>8. AgreeParted(s, u, g1, g2)
      <4>1. IsFcn(g1) /\ IsFcn(g2) /\ DOMAIN g1 = DOMAIN v.of /\ DOMAIN g2 = DOMAIN v.of
        BY <3>2 DEF IsFcn
      <4> HIDE DEF g1, g2, u
      <4>2. QED
        BY <4>1, <3>7 DEF AgreeParted
    <3>9. Len(v.of) \in Nat /\ DOMAIN g1 = 1..Len(v.of)
      BY <3>2, <3>5
    <3>10. Agree(s, t, d, e)
      <4> HIDE DEF g1, g2, f1, f2, d, e
      <4>1. QED
        BY <1>9, <3>1, <3>4, <3>8, <3>9, AgreeList
    <3>11. QED
      BY <3>10
  <2>4. QED
    BY <2>2, <2>3
<1>10. CASE t # NoType /\ v # Null /\ s.kind[t] = "map"
  <2>1. t \in k.R
    BY <1>10 DEF Target
  <2>2. CASE v.tag # "obj"
    <3>1. d = Failure /\ e = Failure
      <4> HIDE DEF d, e, w
      <4>1. QED
        BY <1>1, <1>2, <1>3, <1>10, <2>2 DEF DecodeForm, ReadForm
    <3>2. QED
      BY <1>4, <3>1
  <2>3. CASE v.tag = "obj"
    <3> DEFINE u == s.item[t]
               f1 == Held(b1, "dict")
               f2 == Held(b2, "dict")
               h1 == [j \in DOMAIN w.of |-> Decode(s, u, w.of[j][2], Nil, k.aliases)]
               h2 == [j \in DOMAIN v.of |-> Meant(k, u, v.of[j][2], Nil)]
               g1 == [key \in Keys(w.of) |-> Decode(s, u, At(w.of, key), Nil, k.aliases)]
               g2 == [key \in Keys(v.of) |-> Meant(k, u, At(v.of, key), Nil)]
    <3>1. d = Whole1(h1, Dict(Over(g1, f1))) /\ e = Whole1(h2, Dict(Over(g2, f2)))
      <4>1. d = DecodeMap(s, t, w, f1, k.aliases) /\ e = ReadMap(s, t, v, f2, k.meta, k.standard)
        <5> HIDE DEF d, e, w
        <5>1. QED
          BY <1>1, <1>2, <1>3, <1>10, <2>3 DEF DecodeForm, ReadForm
      <4>2. QED
        BY <4>1 DEF DecodeMap, ReadMap, Meant, Whole1
    <3>2. v.of \in Members /\ \A j \in DOMAIN v.of : v.of[j][2] \in Docs /\ depth[v.of[j][2]] < depth[v]
      BY <2>3, DocCases, Tags DEF Members
    <3>3. \A key \in Keys(v.of) : At(v.of, key) \in Docs /\ depth[At(v.of, key)] < depth[v]
      BY <3>2, AtMember
    <3>4. w.of = SiftEach(k, u, v.of)
      <4>1. SiftForm(k, t, v, w)
        BY <2>1, SiftForms
      <4> HIDE DEF w
      <4>2. QED
        BY <4>1, <1>10, <2>3, Tags DEF SiftForm
    <3>5. Keys(w.of) = Keys(v.of) /\ \A key \in Keys(v.of) : At(w.of, key) = Sift(k, u, At(v.of, key))
      <4> HIDE DEF w, u
      <4>1. QED
        BY <3>2, <3>4, SiftEntries
    <3>6. DOMAIN w.of = DOMAIN v.of /\ \A j \in DOMAIN v.of : w.of[j][2] = Sift(k, u, v.of[j][2])
      <4> HIDE DEF w, u
      <4>1. QED
        BY <3>4 DEF SiftEach
    <3>7. Target(k, u)
      BY <2>1 DEF Known, Target
    <3>8. \A x \in Docs : depth[x] < depth[v] => Agree(s, u, Through(k, u, x, Nil), Meant(k, u, x, Nil))
      <4> HIDE DEF u
      <4>1. QED
        BY <3>7, <1>4 DEF Matches
    <3>9. AgreeParted(s, u, h1, h2)
      <4>1. IsFcn(h1) /\ IsFcn(h2) /\ DOMAIN h1 = DOMAIN v.of /\ DOMAIN h2 = DOMAIN v.of
        BY <3>6 DEF IsFcn
      <4>2. \A j \in DOMAIN v.of : h1[j] = Through(k, u, v.of[j][2], Nil)
                                  /\ h2[j] = Meant(k, u, v.of[j][2], Nil)
        <5> HIDE DEF w, u
        <5>1. QED
          BY <3>6 DEF Through
      <4> HIDE DEF h1, h2, u
      <4>3. QED
        BY <4>1, <4>2, <3>2, <3>8 DEF AgreeParted
    <3>10. AgreeParted(s, u, g1, g2)
      <4>1. IsFcn(g1) /\ IsFcn(g2) /\ DOMAIN g1 = Keys(v.of) /\ DOMAIN g2 = Keys(v.of)
        BY <3>5 DEF IsFcn
      <4>2. \A key \in Keys(v.of) : g1[key] = Through(k, u, At(v.of, key), Nil)
                                  /\ g2[key] = Meant(k, u, At(v.of, key), Nil)
        <5> HIDE DEF w, u
        <5>1. QED
          BY <3>5 DEF Through
      <4> HIDE DEF g1, g2, u
      <4>3. QED
        BY <4>1, <4>2, <3>3, <3>8 DEF AgreeParted
    <3>11. Range(g1) \subseteq Range(h1)
      <4> SUFFICES ASSUME NEW key \in Keys(w.of) PROVE g1[key] \in Range(h1)
        BY DEF Range
      <4>1. PICK j \in DOMAIN v.of : At(v.of, key) = v.of[j][2]
        <5> HIDE DEF w
        <5>1. QED
          BY <3>2, <3>5, AtMember
      <4>2. j \in DOMAIN w.of /\ At(w.of, key) = w.of[j][2]
        <5> HIDE DEF w, u
        <5>1. QED
          BY <3>5, <3>6, <4>1
      <4>3. g1[key] = h1[j]
        <5> HIDE DEF w, u
        <5>1. QED
          BY <4>2
      <4>4. DOMAIN h1 = DOMAIN w.of
        OBVIOUS
      <4> HIDE DEF g1, h1, w, u
      <4>5. QED
        BY <4>2, <4>3, <4>4 DEF Range
    <3>12. AlikeParted(s, u, f1, f2)
      BY <1>10, HeldEntries
    <3>13. Agree(s, t, d, e)
      <4> HIDE DEF h1, h2, g1, g2, f1, f2, d, e
      <4>1. QED
        BY <1>10, <3>1, <3>9, <3>10, <3>11, <3>12, AgreeDict
    <3>14. QED
      BY <3>13
  <2>4. QED
    BY <2>2, <2>3
<1>11. CASE t # NoType /\ v # Null /\ s.kind[t] = "struct"
  <2>1. t \in k.R /\ t \in Types /\ k.n \in DOMAIN Shapes
    BY <1>11 DEF Target, Known
  <2>2. CASE v.tag # "obj"
    <3>1. d = Failure /\ e = Failure
      <4> HIDE DEF d, e, w
      <4>1. QED
        BY <1>1, <1>2, <1>3, <1>11, <2>2 DEF DecodeForm, ReadForm
    <3>2. QED
      BY <1>4, <3>1
  <2>3. CASE v.tag = "obj"
    <3> DEFINE f1 == IF b1.tag = "rec" THEN b1.of ELSE Zero(s, t)
               r2 == IF b2.tag = "rec" THEN b2 ELSE Rec(Zero(s, t), {})
    <3>1. d = DecodeMembers(s, t, w.of, f1, k.aliases) /\ e = MeantMembers(k, t, v.of, r2)
      <4> HIDE DEF d, e, w
      <4>1. QED
        BY <1>1, <1>2, <1>3, <1>11, <2>3 DEF DecodeForm, ReadForm, MeantMembers
    <3>2. w.of = SiftMembers(k, t, v.of)
      <4>1. SiftForm(k, t, v, w)
        BY <2>1, SiftForms
      <4> HIDE DEF w
      <4>2. QED
        BY <4>1, <1>11, <2>3, Tags DEF SiftForm
    <3>3. v.of \in Members /\ Shallow(v.of, depth[v]) /\ depth[v] \in Nat
      BY <2>3, DocCases, Tags DEF Members, Shallow
    <3>4. MembersMatch(k, t, v.of)
      BY <1>11, <2>1, <3>3, MembersMatchAll
    <3>5. Alike(s, t, Rec(f1, {}), r2)
      <4>1. CASE b1 = Nil /\ b2 = Nil
        BY <4>1, <1>11, <2>1, ZeroAlike, Tags
      <4>2. CASE /\ b1.tag = "rec" /\ b2.tag = "rec" /\ b1 = Rec(b1.of, b1.marks) /\ b2 = Rec(b2.of, b2.marks)
                 /\ IsFcn(b1.of) /\ IsFcn(b2.of)
                 /\ DOMAIN b1.of = DOMAIN s.fields[t] /\ DOMAIN b2.of = DOMAIN s.fields[t]
                 /\ \A i \in DOMAIN s.fields[t] : Alike(s, s.fields[t][i].type, b1.of[i], b2.of[i])
        <5>1. Alike(s, t, Rec(b1.of, {}), Rec(b2.of, b2.marks))
          BY <4>2, <1>11, AlikeRec
        <5>2. QED
          BY <4>2, <5>1
      <4>3. QED
        BY <4>1, <4>2, <1>11, AlikeParts
    <3>6. Agree(s, t, SiftedMembers(k, t, v.of, f1), MeantMembers(k, t, v.of, r2))
      <4> HIDE DEF f1, r2
      <4>1. QED
        BY <3>4, <3>5 DEF MembersMatch
    <3>7. Agree(s, t, d, e)
      <4> HIDE DEF f1, r2, d, e, w
      <4>1. QED
        BY <3>1, <3>2, <3>6 DEF SiftedMembers
    <3>8. QED
      BY <3>7
  <2>4. QED
    BY <2>2, <2>3
<1>12. CASE t # NoType /\ v # Null /\ s.kind[t] \notin {"leaf", "time", "list", "map", "struct"}
  <2>1. d = Failure /\ e = Failure
    <3> HIDE DEF d, e, w
    <3>1. QED
      BY <1>1, <1>2, <1>3, <1>12 DEF DecodeForm, ReadForm
  <2>2. QED
    BY <1>4, <2>1
<1>13. QED
  BY <1>6, <1>7, <1>8, <1>9, <1>10, <1>11, <1>12

LEMMA AllMatch ==
    ASSUME JSON, Traversals, Readings, NEW k, Known(k)
    PROVE  \A v \in Docs : Matches(k, v)
<1> DEFINE Q(n) == \A v \in Docs : depth[v] < n => Matches(k, v)
           S == {n \in Nat : Q(n)}
<1>1. Q(0)
  BY DocCases
<1>2. ASSUME NEW n \in Nat, Q(n) PROVE Q(n + 1)
  <2> SUFFICES ASSUME NEW v \in Docs, depth[v] < n + 1 PROVE Matches(k, v)
    OBVIOUS
  <2>1. \A u \in Docs : depth[u] \in Nat
    BY DocCases
  <2>2. \A u \in Docs : depth[u] < depth[v] => Matches(k, u)
    BY <1>2, <2>1
  <2>3. QED
    BY <2>2, ValueMatches
<1>3. S = Nat
  <2>1. S \in SUBSET Nat /\ 0 \in S /\ \A n \in S : n + 1 \in S
    BY <1>1, <1>2
  <2> HIDE DEF S
  <2>2. QED
    BY <2>1, Ind
<1>4. \A v \in Docs : depth[v] \in Nat /\ depth[v] < depth[v] + 1 /\ depth[v] + 1 \in Nat
  BY DocCases
<1>5. QED
  BY <1>3, <1>4

-----------------------------------------------------------------------------
(* The marks do not disturb the values                                     *)

LEMMA FirstIn == ASSUME NEW keys, NEW order PROVE First(keys, order) \subseteq keys
BY DEF First

\* The member that speaks for a field is one of the members.
LEMMA SpokenIn ==
    ASSUME NEW s, NEW t, NEW i, NEW ms \in Members, NEW fl, NEW order,
           NEW raw \in Spoken(s, t, i, ms, fl, order)
    PROVE  \E j \in DOMAIN ms : raw = ms[j][2]
<1> DEFINE name == s.fields[t][i].name
           own == {key \in Keys(ms) : PlanField(s, t, key) = i}
           folded == {key \in Keys(ms) : Same(key, name)}
           js == {j \in DOMAIN ms : ms[j][1] \in own}
           pick(keys) == IF name \in Keys(ms) THEN {At(ms, name)}
                         ELSE {At(ms, key) : key \in First(keys, order)}
<1>1. Spoken(s, t, i, ms, fl, order) =
        IF "aliases" \in fl[t] THEN {ms[j][2] : j \in {j \in js : \A n \in js : n <= j}}
        ELSE IF "internal" \in fl[t] THEN pick(own \cap folded) ELSE pick(folded)
  BY DEF Spoken
<1>2. \A key \in Keys(ms) : \E j \in DOMAIN ms : At(ms, key) = ms[j][2]
  BY AtMember
<1>3. ASSUME NEW keys \in SUBSET Keys(ms), raw \in pick(keys) PROVE \E j \in DOMAIN ms : raw = ms[j][2]
  BY <1>2, <1>3, FirstIn
<1>4. own \cap folded \in SUBSET Keys(ms) /\ folded \in SUBSET Keys(ms)
  OBVIOUS
<1>5. ASSUME raw \in {ms[j][2] : j \in {j \in js : \A n \in js : n <= j}}
      PROVE  \E j \in DOMAIN ms : raw = ms[j][2]
  BY <1>5
<1> HIDE DEF pick, own, folded, js
<1>6. QED
  BY <1>1, <1>3, <1>4, <1>5

\* Where presence goes in a struct: the parts of MarkOnce.
Seen(s, t, i, ms, fl, meta, order) ==
    IF Denied(s, t, s.fields[t][i], meta) THEN {} ELSE Spoken(s, t, i, ms, fl, order)
Marks(s, t, of, ms, fl, meta, order) == {i \in DOMAIN of : Seen(s, t, i, ms, fl, meta, order) # {}}
MarkedPart(s, t, of, ms, fl, meta, order, i) ==
    IF i \in Marks(s, t, of, ms, fl, meta, order)
    THEN Mark(s, s.fields[t][i].type, of[i], CHOOSE raw \in Seen(s, t, i, ms, fl, meta, order) : TRUE,
              fl, meta, order)
    ELSE of[i]
MarkedParts(s, t, of, ms, fl, meta, order) ==
    [i \in DOMAIN of |-> MarkedPart(s, t, of, ms, fl, meta, order, i)]
MarkedRec(s, t, of, ms, fl, meta, order) ==
    Rec(MarkedParts(s, t, of, ms, fl, meta, order), Marks(s, t, of, ms, fl, meta, order))
MarkedItem(s, t, val, v, fl, meta, order, j) ==
    IF j <= val.len /\ j \in DOMAIN v.of
    THEN Mark(s, s.item[t], val.of[j], v.of[j], fl, meta, order)
    ELSE val.of[j]
MarkedEntry(s, t, val, v, fl, meta, order, key) ==
    IF key \in Keys(v.of) THEN Mark(s, s.item[t], val.of[key], At(v.of, key), fl, meta, order)
    ELSE val.of[key]

MarkForm(s, t, val, v, fl, meta, order, x) ==
    \/ (t = NoType \/ val = Nil) /\ x = val
    \/ /\ t # NoType /\ val # Nil
       /\ \/ /\ s.kind[t] = "list" /\ v.tag = "list"
             /\ x = Slice([j \in DOMAIN val.of |-> MarkedItem(s, t, val, v, fl, meta, order, j)], val.len)
          \/ /\ s.kind[t] = "map" /\ v.tag = "obj"
             /\ x = IF meta /\ t \in s.changed
                    THEN Dict([key \in DOMAIN val.of |-> MarkedEntry(s, t, val, v, fl, meta, order, key)])
                    ELSE val
          \/ /\ s.kind[t] = "struct" /\ v.tag = "obj"
             /\ x = MarkedRec(s, t, val.of, v.of, fl, meta, order)
          \/ /\ s.kind[t] = "struct" /\ v.tag = "null"
             /\ x = MarkedRec(s, t, val.of, <<>>, fl, meta, order)
          \/ /\ ~(s.kind[t] = "list" /\ v.tag = "list") /\ ~(s.kind[t] = "map" /\ v.tag = "obj")
             /\ ~(s.kind[t] = "struct" /\ v.tag \in {"obj", "null"})
             /\ x = val

LEMMA MarksTo ==
    ASSUME Traversals, NEW s, NEW t, NEW val, Typed(s, t, val), NEW v \in Docs, NEW fl, NEW meta, NEW order
    PROVE  MarkForm(s, t, val, v, fl, meta, order, Mark(s, t, val, v, fl, meta, order))
<1> DEFINE x == Mark(s, t, val, v, fl, meta, order)
<1>1. x = MarkOnce(s, t, val, v, fl, meta, order)
  BY DEF Traversals
<1>2. CASE t = NoType \/ val = Nil
  BY <1>1, <1>2 DEF MarkOnce, MarkForm
<1>3. CASE t # NoType /\ val # Nil /\ s.kind[t] = "list" /\ v.tag = "list"
  BY <1>1, <1>3 DEF MarkOnce, MarkForm, MarkedItem
<1>4. CASE t # NoType /\ val # Nil /\ s.kind[t] = "map" /\ v.tag = "obj"
  BY <1>1, <1>4 DEF MarkOnce, MarkForm, MarkedEntry, MarkEntries
<1>5. CASE t # NoType /\ val # Nil /\ s.kind[t] = "struct" /\ v.tag = "obj"
  BY <1>1, <1>5 DEF MarkOnce, MarkForm, MarkedRec, MarkedParts, MarkedPart, Marks, Seen
<1>6. CASE t # NoType /\ val # Nil /\ s.kind[t] = "struct" /\ v.tag = "null"
  BY <1>1, <1>6 DEF MarkOnce, MarkForm, MarkedRec, MarkedParts, MarkedPart, Marks, Seen
<1>7. CASE /\ t # NoType /\ val # Nil
           /\ ~(s.kind[t] = "list" /\ v.tag = "list") /\ ~(s.kind[t] = "map" /\ v.tag = "obj")
           /\ ~(s.kind[t] = "struct" /\ v.tag \in {"obj", "null"})
  BY <1>1, <1>7 DEF MarkOnce, MarkForm
<1>8. QED
  BY <1>2, <1>3, <1>4, <1>5, <1>6, <1>7

Bare(s, v) == \A t, val, fl, meta, order :
    Typed(s, t, val) => Unmarked(Mark(s, t, val, v, fl, meta, order)) = Unmarked(val)

TypedParts(s, t, of) == IsFcn(of) /\ \A i \in DOMAIN of : Typed(s, s.fields[t][i].type, of[i])
BareMembers(s, ms) == \A j \in DOMAIN ms : Bare(s, ms[j][2])

LEMMA BareParts ==
    ASSUME JSON, Readings, NEW s, NEW t, NEW of, NEW marks, NEW ms \in Members, NEW fl, NEW meta, NEW order,
           TypedParts(s, t, of), BareMembers(s, ms)
    PROVE  Unmarked(MarkedRec(s, t, of, ms, fl, meta, order)) = Unmarked(Rec(of, marks))
<1> DEFINE g == MarkedParts(s, t, of, ms, fl, meta, order)
<1>0. /\ IsFcn(of) /\ \A i \in DOMAIN of : Typed(s, s.fields[t][i].type, of[i])
      /\ \A j \in DOMAIN ms : Bare(s, ms[j][2])
  BY DEF TypedParts, BareMembers
<1>1. IsFcn(g) /\ DOMAIN g = DOMAIN of
  BY DEF MarkedParts, IsFcn
<1>2. ASSUME NEW i \in DOMAIN of PROVE Unmarked(g[i]) = Unmarked(of[i])
  <2>1. g[i] = MarkedPart(s, t, of, ms, fl, meta, order, i)
    BY DEF MarkedParts
  <2>2. CASE i \notin Marks(s, t, of, ms, fl, meta, order)
    BY <2>1, <2>2 DEF MarkedPart
  <2>3. CASE i \in Marks(s, t, of, ms, fl, meta, order)
    <3> DEFINE raw == CHOOSE r \in Seen(s, t, i, ms, fl, meta, order) : TRUE
    <3>1. raw \in Seen(s, t, i, ms, fl, meta, order)
      BY <2>3 DEF Marks
    <3>2. Bare(s, raw)
      <4> HIDE DEF raw
      <4>1. raw \in Spoken(s, t, i, ms, fl, order)
        BY <3>1 DEF Seen
      <4>2. QED
        BY <1>0, <4>1, SpokenIn
    <3>3. g[i] = Mark(s, s.fields[t][i].type, of[i], raw, fl, meta, order)
      BY <2>1, <2>3 DEF MarkedPart
    <3> HIDE DEF g, raw
    <3>4. QED
      BY <1>0, <3>2, <3>3 DEF Bare
  <2>4. QED
    BY <2>2, <2>3
<1>3. [i \in DOMAIN g |-> Unmarked(g[i])] = [i \in DOMAIN of |-> Unmarked(of[i])]
  <2> HIDE DEF g
  <2>1. QED
    BY <1>1, <1>2
<1>4. \A f, m : IsFcn(f) => Unmarked(Rec(f, m)) = Rec([i \in DOMAIN f |-> Unmarked(f[i])], {})
  BY UnmarkedForms
<1>5. QED
  <2> HIDE DEF g
  <2>1. \A m : Unmarked(Rec(g, m)) = Unmarked(Rec(of, marks))
    BY <1>0, <1>1, <1>3, <1>4
  <2>2. QED
    BY <2>1 DEF g, MarkedRec

\* Setting the marks changes nothing else.
LEMMA MarkIsBare ==
    ASSUME JSON, Traversals, Readings, NEW s, NEW v \in Docs,
           \A u \in Docs : depth[u] < depth[v] => Bare(s, u)
    PROVE  Bare(s, v)
<1> SUFFICES ASSUME NEW t, NEW val, NEW fl, NEW meta, NEW order, Typed(s, t, val)
             PROVE  Unmarked(Mark(s, t, val, v, fl, meta, order)) = Unmarked(val)
  BY DEF Bare
<1> DEFINE x == Mark(s, t, val, v, fl, meta, order)
<1>1. MarkForm(s, t, val, v, fl, meta, order, x)
  BY MarksTo
<1>2. CASE x = val
  BY <1>2
<1>3. CASE /\ t # NoType /\ val # Nil /\ s.kind[t] = "list" /\ v.tag = "list"
           /\ x = Slice([j \in DOMAIN val.of |-> MarkedItem(s, t, val, v, fl, meta, order, j)], val.len)
  <2>1. val = Slice(val.of, val.len) /\ IsFcn(val.of) /\ \A j \in DOMAIN val.of : Typed(s, s.item[t], val.of[j])
    BY <1>3, TypedUnfold
  <2>2. \A j \in DOMAIN v.of : Bare(s, v.of[j])
    BY <1>3, DocCases, Tags
  <2> DEFINE g == [j \in DOMAIN val.of |-> MarkedItem(s, t, val, v, fl, meta, order, j)]
  <2>3. \A j \in DOMAIN val.of : Unmarked(g[j]) = Unmarked(val.of[j])
    BY <2>1, <2>2 DEF MarkedItem, Bare
  <2>4. IsFcn(g) /\ DOMAIN g = DOMAIN val.of
    BY DEF IsFcn
  <2>5. [j \in DOMAIN g |-> Unmarked(g[j])] = [j \in DOMAIN val.of |-> Unmarked(val.of[j])]
    <3> HIDE DEF g
    <3>1. QED
      BY <2>3, <2>4
  <2>6. Unmarked(Slice(g, val.len)) = Unmarked(Slice(val.of, val.len))
    <3>1. \A f, n : IsFcn(f) => Unmarked(Slice(f, n)) = Slice([j \in DOMAIN f |-> Unmarked(f[j])], n)
      BY UnmarkedForms
    <3> HIDE DEF g
    <3>2. /\ Unmarked(Slice(g, val.len)) = Slice([j \in DOMAIN g |-> Unmarked(g[j])], val.len)
          /\ Unmarked(Slice(val.of, val.len))
               = Slice([j \in DOMAIN val.of |-> Unmarked(val.of[j])], val.len)
      BY <2>1, <2>4, <3>1
    <3>3. QED
      BY <2>5, <3>2
  <2>7. QED
    BY <1>3, <2>1, <2>6
<1>4. CASE /\ t # NoType /\ val # Nil /\ s.kind[t] = "map" /\ v.tag = "obj"
           /\ x = Dict([key \in DOMAIN val.of |-> MarkedEntry(s, t, val, v, fl, meta, order, key)])
  <2>1. val = Dict(val.of) /\ IsFcn(val.of) /\ \A key \in DOMAIN val.of : Typed(s, s.item[t], val.of[key])
    BY <1>4, TypedUnfold
  <2>2. \A key \in Keys(v.of) : Bare(s, At(v.of, key))
    <3>1. v.of \in Members /\ \A j \in DOMAIN v.of : v.of[j][2] \in Docs /\ depth[v.of[j][2]] < depth[v]
      BY <1>4, DocCases, Tags DEF Members
    <3>2. QED
      BY <3>1, AtMember
  <2> DEFINE g == [key \in DOMAIN val.of |-> MarkedEntry(s, t, val, v, fl, meta, order, key)]
  <2>3. \A key \in DOMAIN val.of : Unmarked(g[key]) = Unmarked(val.of[key])
    BY <2>1, <2>2 DEF MarkedEntry, Bare
  <2>4. IsFcn(g) /\ DOMAIN g = DOMAIN val.of
    BY DEF IsFcn
  <2>5. [j \in DOMAIN g |-> Unmarked(g[j])] = [j \in DOMAIN val.of |-> Unmarked(val.of[j])]
    <3> HIDE DEF g
    <3>1. QED
      BY <2>3, <2>4
  <2>6. Unmarked(Dict(g)) = Unmarked(Dict(val.of))
    <3>1. \A f : IsFcn(f) => Unmarked(Dict(f)) = Dict([j \in DOMAIN f |-> Unmarked(f[j])])
      BY UnmarkedForms
    <3> HIDE DEF g
    <3>2. QED
      BY <2>1, <2>4, <2>5, <3>1
  <2>7. QED
    BY <1>4, <2>1, <2>6
<1>5. ASSUME t # NoType, val # Nil, s.kind[t] = "struct", NEW ms \in Members,
             BareMembers(s, ms), x = MarkedRec(s, t, val.of, ms, fl, meta, order)
      PROVE  Unmarked(x) = Unmarked(val)
  <2>1. val = Rec(val.of, val.marks) /\ TypedParts(s, t, val.of)
    BY <1>5, TypedUnfold DEF TypedParts
  <2>2. Unmarked(MarkedRec(s, t, val.of, ms, fl, meta, order)) = Unmarked(Rec(val.of, val.marks))
    BY <1>5, <2>1, BareParts
  <2>3. QED
    BY <1>5, <2>1, <2>2
<1>6. v.tag = "obj" => v.of \in Members /\ BareMembers(s, v.of)
  BY DocCases, Tags DEF Members, BareMembers
<1>7. <<>> \in Members /\ BareMembers(s, <<>>)
  BY DEF Members, BareMembers
<1>8. CASE /\ t # NoType /\ val # Nil /\ s.kind[t] = "struct" /\ v.tag = "obj"
           /\ x = MarkedRec(s, t, val.of, v.of, fl, meta, order)
  BY <1>5, <1>6, <1>8
<1>9. CASE /\ t # NoType /\ val # Nil /\ s.kind[t] = "struct"
           /\ x = MarkedRec(s, t, val.of, <<>>, fl, meta, order)
  BY <1>5, <1>7, <1>9
<1>10. QED
  <2>1. MarkForm(s, t, val, v, fl, meta, order, x) =>
        \/ x = val
        \/ /\ t # NoType /\ val # Nil /\ s.kind[t] = "list" /\ v.tag = "list"
           /\ x = Slice([j \in DOMAIN val.of |-> MarkedItem(s, t, val, v, fl, meta, order, j)], val.len)
        \/ /\ t # NoType /\ val # Nil /\ s.kind[t] = "map" /\ v.tag = "obj"
           /\ x = Dict([key \in DOMAIN val.of |-> MarkedEntry(s, t, val, v, fl, meta, order, key)])
        \/ /\ t # NoType /\ val # Nil /\ s.kind[t] = "struct" /\ v.tag = "obj"
           /\ x = MarkedRec(s, t, val.of, v.of, fl, meta, order)
        \/ /\ t # NoType /\ val # Nil /\ s.kind[t] = "struct"
           /\ x = MarkedRec(s, t, val.of, <<>>, fl, meta, order)
    <3> HIDE DEF x
    <3>1. QED
      BY DEF MarkForm
  <2>2. QED
    BY <1>1, <1>2, <1>3, <1>4, <1>8, <1>9, <2>1

LEMMA AllBare ==
    ASSUME JSON, Traversals, Readings, NEW s
    PROVE  \A v \in Docs : Bare(s, v)
<1> DEFINE Q(n) == \A v \in Docs : depth[v] < n => Bare(s, v)
           S == {n \in Nat : Q(n)}
<1>1. Q(0)
  BY DocCases
<1>2. ASSUME NEW n \in Nat, Q(n) PROVE Q(n + 1)
  <2> SUFFICES ASSUME NEW v \in Docs, depth[v] < n + 1 PROVE Bare(s, v)
    OBVIOUS
  <2>1. \A u \in Docs : depth[u] \in Nat
    BY DocCases
  <2>2. \A u \in Docs : depth[u] < depth[v] => Bare(s, u)
    BY <1>2, <2>1
  <2>3. QED
    BY <2>2, MarkIsBare
<1>3. S = Nat
  <2>1. S \in SUBSET Nat /\ 0 \in S /\ \A n \in S : n + 1 \in S
    BY <1>1, <1>2
  <2> HIDE DEF S
  <2>2. QED
    BY <2>1, Ind
<1>4. \A v \in Docs : depth[v] \in Nat /\ depth[v] < depth[v] + 1 /\ depth[v] + 1 \in Nat
  BY DocCases
<1>5. QED
  BY <1>3, <1>4

-----------------------------------------------------------------------------
(* A caller's plan is what the traversals need; the answers to requests    *)

LEMMA ExactDown ==
    ASSUME NEW n \in DOMAIN Shapes, NEW r \in Types, NEW meta \in BOOLEAN, NEW t \in Memo(n, r, meta)
    PROVE  Exact(n, t, meta) \subseteq Exact(n, r, meta)
<1>1. t \in Types /\ Memo(n, t, meta) \subseteq Memo(n, r, meta)
  BY MemoFacts, MemoBelow
<1>2. QED
  BY <1>1, ExactUnfold

Context(n, r, p, meta, standard, aliases) ==
    [n |-> n, R |-> Memo(n, r, meta), fl |-> p.flags, meta |-> meta, standard |-> standard, aliases |-> aliases]

\* A caller's plan is what the traversals need.
LEMMA ExactIsKnown ==
    ASSUME NEW n \in DOMAIN Shapes, NEW r \in Types, NEW meta \in BOOLEAN, NEW p,
           ExactPlan(p, n, r, meta), ~p.err, NEW standard \in BOOLEAN, NEW aliases \in BOOLEAN,
           aliases \/ "aliases" \notin p.flags[r]
    PROVE  Known(Context(n, r, p, meta, standard, aliases)) /\ r \in Memo(n, r, meta)
<1> DEFINE k == Context(n, r, p, meta, standard, aliases)
           s == Shapes[n]
<1>1. /\ k.n = n /\ k.R = Memo(n, r, meta) /\ k.fl = p.flags /\ k.meta = meta
      /\ k.standard = standard /\ k.aliases = aliases
  BY DEF Context
<1> HIDE DEF k
<1>2. r \in Memo(n, r, meta) /\ Memo(n, r, meta) \subseteq Types
  BY MemoFacts
<1>3. \A t \in Memo(n, r, meta) : p.flags[t] = Exact(n, t, meta)
  BY DEF ExactPlan
<1>4. ASSUME NEW t \in Memo(n, r, meta)
      PROVE  /\ s.item[t] \in k.R \cup {NoType}
             /\ ~Live(k, t) => Idle(k, s.item[t])
             /\ \A i \in DOMAIN s.fields[t] : LET f == s.fields[t][i] IN
                  /\ ~Denied(s, t, f, meta) => Target(k, f.type)
                  /\ ~aliases => f.aliases = {}
                  /\ ~Live(k, t) => /\ ~Denied(s, t, f, meta)
                                    /\ standard => f.rules = {}
                                    /\ Idle(k, f.type)
  <2>1. t \in Types /\ Nodes(s, t, meta) \subseteq Memo(n, r, meta)
    BY MemoFacts
  <2>2. /\ Built(s, t, meta) \subseteq Exact(n, t, meta) /\ Local(s, t, meta) \subseteq Exact(n, t, meta)
        /\ \A u \in Nodes(s, t, meta) : Exact(n, u, meta) \subseteq Exact(n, t, meta)
        /\ Exact(n, t, meta) \subseteq Exact(n, r, meta)
    BY <2>1, ExactFacts, ExactDown
  <2>3. \A u \in Nodes(s, t, meta) : ~Live(k, t) => ~Live(k, u)
    <3> TAKE u \in Nodes(s, t, meta)
    <3>1. t # NoType /\ p.flags[u] \subseteq p.flags[t]
      BY <1>3, <2>1, <2>2, FieldsAssumption
    <3>2. QED
      BY <1>1, <3>1 DEF Live, Relevant
  <2>4. s.item[t] \in Nodes(s, t, meta) \cup {NoType}
    BY DEF Nodes
  <2>5. ~Live(k, NoType)
    BY DEF Live, Relevant
  <2>6. ASSUME NEW i \in DOMAIN s.fields[t], ~Denied(s, t, s.fields[t][i], meta)
        PROVE  \/ s.fields[t][i].type \in Nodes(s, t, meta) \cup {NoType}
               \/ s.fields[t][i].type \in Types /\ s.kind[s.fields[t][i].type] = "time"
    <3> DEFINE f == s.fields[t][i]
    <3>1. f \in Kept(s, t, meta)
      BY <2>6 DEF Kept, Fields
    <3>2. f.type \in Types \cup {NoType}
      BY <2>1, ShapesAssumption
    <3>3. CASE f.date \in {"none", "bad"}
      <4>1. f.type \in {g.type : g \in {h \in Kept(s, t, meta) : h.date \in {"none", "bad"}}}
        <5> HIDE DEF f
        <5>1. QED
          BY <3>1, <3>3
      <4>2. QED
        BY <4>1 DEF Nodes
    <3>4. CASE f.date \in {"policy", "layout"}
      BY <2>1, <3>2, <3>4, FieldsAssumption
    <3>5. f.date \in {"none", "bad", "policy", "layout"}
      BY <2>1, FieldsAssumption
    <3>6. QED
      BY <3>3, <3>4, <3>5
  <2>7. ASSUME NEW i \in DOMAIN s.fields[t], ~aliases PROVE s.fields[t][i].aliases = {}
    <3>1. "aliases" \notin Exact(n, r, meta)
      BY <1>2, <1>3, <2>7
    <3>2. "aliases" \notin Built(s, t, meta)
      BY <2>2, <3>1
    <3>3. QED
      BY <3>2 DEF Built, Flags, Fields
  <2>8. ASSUME NEW i \in DOMAIN s.fields[t], ~Live(k, t)
        PROVE  ~Denied(s, t, s.fields[t][i], meta) /\ (standard => s.fields[t][i].rules = {})
    <3>1. t # NoType
      BY <2>1, FieldsAssumption
    <3>2. "internal" \notin p.flags[t] /\ (standard => "inputs" \notin p.flags[t])
      BY <1>1, <2>8, <3>1 DEF Live, Relevant
    <3>3. "internal" \notin Local(s, t, meta) /\ (standard => "inputs" \notin Local(s, t, meta))
      BY <1>3, <2>2, <3>2
    <3>4. ~Denied(s, t, s.fields[t][i], meta)
      BY <3>3 DEF Local, Flags, Fields
    <3>5. s.fields[t][i] \in Kept(s, t, meta)
      BY <3>4 DEF Kept, Fields
    <3>6. standard => s.fields[t][i].rules = {}
      BY <3>3, <3>5 DEF Local, Flags
    <3>7. QED
      BY <3>4, <3>6
  <2>9. ASSUME NEW i \in DOMAIN s.fields[t]
        PROVE  /\ ~Denied(s, t, s.fields[t][i], meta) => Target(k, s.fields[t][i].type)
               /\ ~Live(k, t) => Idle(k, s.fields[t][i].type)
    BY <1>1, <2>1, <2>3, <2>5, <2>6, <2>8 DEF Target, Idle
  <2>10. s.item[t] \in k.R \cup {NoType} /\ (~Live(k, t) => Idle(k, s.item[t]))
    BY <1>1, <2>1, <2>3, <2>4, <2>5 DEF Idle
  <2>11. QED
    BY <2>7, <2>8, <2>9, <2>10
<1>5. Known(k)
  BY <1>1, <1>2, <1>4 DEF Known
<1>6. QED
  BY <1>2, <1>5 DEF k

\* Requests are made of JSON values and switches.
Inputs == \A n \in DOMAIN Shapes : \A req \in Requests[n] :
    req.doc \in Docs /\ req.policy \in BOOLEAN /\ req.exact \in BOOLEAN /\ req.registered \in BOOLEAN

Chosen(req) == CHOOSE v \in Select(req) : TRUE
BodyOf(n, r, meta, req) ==
    IF req.policy /\ Chosen(req) = Null THEN Rec(Zero(Shapes[n], r), {})
    ELSE Reading(Shapes[n], r, Chosen(req), Nil, meta, ~req.registered)
Refused(n, r, meta, req) ==
    IF Chosen(req) = Null THEN req.policy /\ Fails(n, r, FALSE)
    ELSE \/ Fails(n, r, meta)
         \/ ~req.registered /\ "dateErr" \in Exact(n, r, meta)
ReadsOf(n, r, meta, req, answer) ==
    answer.found => IF Refused(n, r, meta, req) THEN answer.value = Failure
                    ELSE Unmarked(answer.value) = Unmarked(BodyOf(n, r, meta, req))

LEMMA SelectIn ==
    ASSUME JSON, NEW req, req.doc \in Docs, req.name # Whole => req.doc.tag = "obj"
    PROVE  Select(req) \subseteq Docs
<1>1. CASE req.name = Whole
  BY <1>1 DEF Select
<1>2. CASE req.name # Whole
  <2>1. req.doc.of \in Members
    BY <1>2, DocCases, Tags DEF Members
  <2>2. \A key \in Keys(req.doc.of) : At(req.doc.of, key) \in Docs
    BY <2>1, AtMember
  <2> DEFINE ms == req.doc.of
             folded == {key \in Keys(ms) : Same(key, req.name)}
  <2>3. \/ Select(req) = {At(ms, req.name)} /\ req.name \in Keys(ms)
        \/ Select(req) = {}
        \/ Select(req) = {At(ms, key) : key \in folded}
    BY <1>2 DEF Select
  <2>4. folded \subseteq Keys(ms)
    OBVIOUS
  <2> HIDE DEF folded
  <2>5. QED
    BY <2>2, <2>3, <2>4
<1>3. QED
  BY <1>1, <1>2

MarkReads(n, r, meta, standard, v, x) ==
    IF Fails(n, r, meta) \/ (standard /\ "dateErr" \in Exact(n, r, meta)) THEN x = Failure
    ELSE Unmarked(x) = Unmarked(Reading(Shapes[n], r, v, Nil, meta, standard))
EmptyRead(n, r, x) ==
    IF Fails(n, r, FALSE) THEN x = Failure ELSE Unmarked(x) = Unmarked(Rec(Zero(Shapes[n], r), {}))

\* What is marked is what was filtered and decoded, but for the marks.
LEMMA MarkedReads ==
    ASSUME JSON, Traversals, Readings, NEW n \in DOMAIN Shapes, NEW r \in Types, NEW meta \in BOOLEAN, NEW p,
           ExactPlan(p, n, r, meta), NEW standard \in BOOLEAN, NEW aliases \in BOOLEAN,
           aliases \/ p.err \/ "aliases" \notin p.flags[r], NEW order, NEW v \in Docs, NEW x,
           x = Marked(Shapes[n], p, r, FilterPublic(Shapes[n], p, r, v, meta, standard), meta, aliases, order)
    PROVE  MarkReads(n, r, meta, standard, v, x)
<1> DEFINE s == Shapes[n]
           f == FilterPublic(s, p, r, v, meta, standard)
           k == Context(n, r, p, meta, standard, aliases)
<1>1. p.err = Fails(n, r, meta) /\ (~p.err => p.flags[r] = Exact(n, r, meta))
  BY MemoFacts DEF ExactPlan
<1>2. CASE Fails(n, r, meta) \/ (standard /\ "dateErr" \in Exact(n, r, meta))
  <2>1. f = Failure
    BY <1>1, <1>2 DEF FilterPublic
  <2>2. x = Failure
    BY <2>1 DEF Marked
  <2>3. QED
    BY <1>2, <2>2 DEF MarkReads
<1>3. CASE ~(Fails(n, r, meta) \/ (standard /\ "dateErr" \in Exact(n, r, meta)))
  <2>1. Known(k) /\ r \in Memo(n, r, meta)
    BY <1>1, <1>3, ExactIsKnown
  <2>2. /\ k.n = n /\ k.R = Memo(n, r, meta) /\ k.fl = p.flags /\ k.meta = meta
        /\ k.standard = standard /\ k.aliases = aliases
    BY DEF Context
  <2> HIDE DEF k
  <2>3. f = Sift(k, r, v)
    BY <1>1, <1>3, <2>2 DEF FilterPublic, Sift
  <2>4. f \in Docs /\ f # Failure
    <3>1. Target(k, r)
      BY <2>1, <2>2 DEF Target
    <3>2. Sift(k, r, v) \in Docs
      BY <2>1, <3>1, SiftShape
    <3>3. \A u \in Docs : u # Failure
      BY DocCases, Tags
    <3> HIDE DEF f
    <3>4. QED
      BY <2>3, <3>2, <3>3
  <2> DEFINE d == Decode(s, r, f, Nil, aliases)
             e == Reading(s, r, v, Nil, meta, standard)
  <2>5. Agree(s, r, d, e)
    <3>1. Target(k, r) /\ Matches(k, v)
      BY <2>1, <2>2, AllMatch DEF Target
    <3>2. Alike(s, r, Nil, Nil)
      BY TypedNil, AlikeSame
    <3>3. Agree(s, r, Through(k, r, v, Nil), Meant(k, r, v, Nil))
      BY <2>2, <3>1, <3>2 DEF Matches
    <3>4. Through(k, r, v, Nil) = d /\ Meant(k, r, v, Nil) = e
      BY <2>2, <2>3 DEF Through, Meant
    <3> HIDE DEF d, e
    <3>5. QED
      BY <3>3, <3>4
  <2>6. x = IF d = Failure THEN Failure ELSE Mark(s, r, d, f, p.flags, meta, order)
    <3>1. x = Marked(s, p, r, f, meta, aliases, order)
      OBVIOUS
    <3> HIDE DEF f
    <3>2. QED
      BY <2>4, <3>1 DEF Marked
  <2>7. CASE d = Failure
    <3>1. e = Failure /\ x = Failure
      <4> HIDE DEF d, e
      <4>1. QED
        BY <2>5, <2>6, <2>7, AgreeFails
    <3>2. QED
      BY <1>3, <3>1 DEF MarkReads
  <2>8. CASE d # Failure
    <3>1. Typed(s, r, d) /\ Unmarked(d) = Unmarked(e)
      <4> HIDE DEF d, e
      <4>1. QED
        BY <2>5, <2>8, AgreeFails DEF Alike
    <3>2. Unmarked(x) = Unmarked(d)
      <4>1. Bare(s, f)
        BY <2>4, AllBare
      <4> HIDE DEF d, f
      <4>2. QED
        BY <2>6, <2>8, <3>1, <4>1 DEF Bare
    <3>3. Unmarked(x) = Unmarked(e)
      BY <3>1, <3>2
    <3>4. QED
      BY <1>3, <3>3 DEF MarkReads
  <2>9. QED
    BY <2>7, <2>8
<1>4. QED
  BY <1>2, <1>3

LEMMA EmptyReads ==
    ASSUME JSON, Traversals, Readings, NEW n \in DOMAIN Shapes, NEW r \in Types, Shapes[n].kind[r] = "struct",
           NEW fl, NEW order
    PROVE  EmptyRead(n, r, EmptyRecord(n, r, fl, order))
<1>1. CASE Fails(n, r, FALSE)
  BY <1>1 DEF EmptyRecord, EmptyRead
<1>2. CASE ~Fails(n, r, FALSE)
  <2> DEFINE z == Rec(Zero(Shapes[n], r), {})
  <2>1. Typed(Shapes[n], r, z)
    BY ZeroAlike DEF Alike
  <2>2. Obj(<<>>) \in Docs
    <3>1. <<>> \in Seq(JsonKeys \X Docs)
      OBVIOUS
    <3>2. QED
      BY <3>1 DEF JSON
  <2>3. Bare(Shapes[n], Obj(<<>>))
    BY <2>2, AllBare
  <2>4. EmptyRecord(n, r, fl, order) = Mark(Shapes[n], r, z, Obj(<<>>), fl, FALSE, order)
    BY <1>2 DEF EmptyRecord
  <2>5. Unmarked(EmptyRecord(n, r, fl, order)) = Unmarked(z)
    <3> HIDE DEF z
    <3>1. \A meta : Unmarked(Mark(Shapes[n], r, z, Obj(<<>>), fl, meta, order)) = Unmarked(z)
      <4> DEFINE body == Obj(<<>>)
      <4>1. Bare(Shapes[n], body)
        BY <2>3
      <4> HIDE DEF body
      <4>2. \A meta : Unmarked(Mark(Shapes[n], r, z, body, fl, meta, order)) = Unmarked(z)
        BY <2>1, <4>1 DEF Bare
      <4>3. QED
        BY <4>2 DEF body
    <3>2. QED
      BY <2>4, <3>1
  <2>6. QED
    BY <1>2, <2>5 DEF EmptyRead
<1>3. QED
  BY <1>1, <1>2

LEMMA AnswerReads ==
    ASSUME JSON, Traversals, Readings, Inputs, NEW n \in DOMAIN Shapes, NEW r \in Shapes[n].roots,
           NEW meta \in BOOLEAN, NEW p, ExactPlan(p, n, r, meta), NEW req \in Requests[n], NEW order
    PROVE  ReadsOf(n, r, meta, req, Answer(n, p, r, req, meta, order))
<1> DEFINE s == Shapes[n]
           v == Chosen(req)
           a == Answer(n, p, r, req, meta, order)
<1> SUFFICES ASSUME a.found
             PROVE  IF Refused(n, r, meta, req) THEN a.value = Failure
                    ELSE Unmarked(a.value) = Unmarked(BodyOf(n, r, meta, req))
  BY DEF ReadsOf
<1>1. r \in Types /\ req.doc \in Docs /\ req.policy \in BOOLEAN /\ req.registered \in BOOLEAN
  BY ShapesAssumption DEF Inputs
<1>2. /\ ~(req.policy /\ req.name # Whole) /\ ~(req.name # Whole /\ req.doc.tag # "obj")
      /\ Select(req) # {}
      /\ a.value = IF v = Null THEN IF req.policy THEN EmptyRecord(n, r, p.flags, order) ELSE Nil
                   ELSE IF req.registered THEN DecodeRegistered(s, p, r, v, meta, order)
                   ELSE DecodePublic(s, p, r, v, meta, order)
  BY DEF Answer, Answered, Chosen
<1>3. v \in Docs
  BY <1>1, <1>2, SelectIn DEF Chosen
<1>4. CASE v = Null /\ req.policy
  <2>1. s.kind[r] = "struct"
    BY <1>4, PolicyAssumption
  <2>2. a.value = EmptyRecord(n, r, p.flags, order)
    BY <1>2, <1>4
  <2>3. EmptyRead(n, r, EmptyRecord(n, r, p.flags, order))
    BY <1>1, <2>1, EmptyReads
  <2>4. (Refused(n, r, meta, req) <=> Fails(n, r, FALSE)) /\ BodyOf(n, r, meta, req) = Rec(Zero(s, r), {})
    BY <1>4 DEF Refused, BodyOf
  <2> HIDE DEF a
  <2>5. QED
    BY <2>2, <2>3, <2>4 DEF EmptyRead
<1>5. CASE v = Null /\ ~req.policy
  <2>1. Reading(s, r, Null, Nil, meta, ~req.registered) = Nil
    <3>1. ReadForm(s, r, Null, Nil, meta, ~req.registered, Reading(s, r, Null, Nil, meta, ~req.registered))
      BY ReadsTo DEF JSON
    <3>2. QED
      BY <3>1, <1>1, FieldsAssumption DEF ReadForm
  <2>2. QED
    BY <1>2, <1>5, <2>1 DEF Refused, BodyOf
<1>6. CASE v # Null /\ req.registered
  <2>1. a.value = Marked(s, p, r, FilterPublic(s, p, r, v, meta, FALSE), meta, TRUE, order)
    BY <1>2, <1>6 DEF DecodeRegistered
  <2>2. MarkReads(n, r, meta, FALSE, v, a.value)
    <3> HIDE DEF v, a
    <3>1. QED
      BY <1>1, <1>3, <2>1, MarkedReads
  <2>3. Refused(n, r, meta, req) <=> Fails(n, r, meta)
    BY <1>1, <1>6 DEF Refused
  <2>4. BodyOf(n, r, meta, req) = Reading(s, r, v, Nil, meta, FALSE)
    BY <1>6 DEF BodyOf
  <2> HIDE DEF v, a
  <2>5. QED
    BY <2>2, <2>3, <2>4 DEF MarkReads
<1>7. CASE v # Null /\ ~req.registered
  <2> DEFINE al == meta \/ p.flags[r] \cap {"aliases", "declaredDates"} # {}
  <2>1. a.value = Marked(s, p, r, FilterPublic(s, p, r, v, meta, TRUE), meta, al, order)
    BY <1>2, <1>7 DEF DecodePublic
  <2>2. al \in BOOLEAN /\ (al \/ p.err \/ "aliases" \notin p.flags[r])
    OBVIOUS
  <2>3. MarkReads(n, r, meta, TRUE, v, a.value)
    <3>1. ASSUME NEW aliases \in BOOLEAN, aliases \/ p.err \/ "aliases" \notin p.flags[r], NEW x,
                 x = Marked(s, p, r, FilterPublic(s, p, r, v, meta, TRUE), meta, aliases, order)
          PROVE  MarkReads(n, r, meta, TRUE, v, x)
      <4> HIDE DEF v
      <4>1. QED
        BY <1>1, <1>3, <3>1, MarkedReads
    <3> HIDE DEF v, a, al, s
    <3>2. QED
      BY <2>1, <2>2, <3>1
  <2>4. Refused(n, r, meta, req) <=> Fails(n, r, meta) \/ "dateErr" \in Exact(n, r, meta)
    BY <1>1, <1>7 DEF Refused
  <2>5. BodyOf(n, r, meta, req) = Reading(s, r, v, Nil, meta, TRUE)
    BY <1>7 DEF BodyOf
  <2> HIDE DEF v, a
  <2>6. QED
    BY <2>3, <2>4, <2>5 DEF MarkReads
<1>8. QED
  BY <1>1, <1>4, <1>5, <1>6, <1>7

-----------------------------------------------------------------------------
(* Documents that repeat no field: what is read of them                    *)

(* Members that no other member of the same field competes with.           *)

\* A field has no member, or the one whose value is x.
NoneFor(s, t, ms, i) == \A j \in DOMAIN ms : PlanField(s, t, ms[j][1]) # i
OneFor(s, t, ms, i, x) == \E j \in DOMAIN ms :
    /\ PlanField(s, t, ms[j][1]) = i /\ ms[j][2] = x
    /\ \A l \in DOMAIN ms : PlanField(s, t, ms[l][1]) = i => l = j
Distinct(s, t, ms) ==
    \A i \in DOMAIN s.fields[t] : NoneFor(s, t, ms, i) \/ \E x : OneFor(s, t, ms, i, x)

LEMMA ForTail ==
    ASSUME NEW s, NEW t, NEW ms \in Members, ms # <<>>, NEW i
    PROVE  /\ NoneFor(s, t, ms, i) => NoneFor(s, t, Tail(ms), i) /\ PlanField(s, t, Head(ms)[1]) # i
           /\ \A x : OneFor(s, t, ms, i, x) =>
                IF PlanField(s, t, Head(ms)[1]) = i THEN x = Head(ms)[2] /\ NoneFor(s, t, Tail(ms), i)
                ELSE OneFor(s, t, Tail(ms), i, x)
<1> DEFINE rest == Tail(ms)
           F(key) == PlanField(s, t, key)
<1>1. /\ Head(ms) = ms[1] /\ 1 \in DOMAIN ms
      /\ \A j \in DOMAIN rest : rest[j] = ms[j + 1] /\ j + 1 \in DOMAIN ms /\ j \in Nat /\ j + 1 # 1
      /\ \A j \in DOMAIN ms : j # 1 => j - 1 \in DOMAIN rest /\ ms[j] = rest[j - 1] /\ j \in Nat
  <2>1. DOMAIN ms \subseteq Nat /\ DOMAIN rest \subseteq Nat /\ 0 \notin DOMAIN rest
    BY FirstMember DEF Members
  <2>2. QED
    BY <2>1, FirstMember
<1> HIDE DEF rest, F
<1>2. ASSUME \A j \in DOMAIN ms : F(ms[j][1]) # i
      PROVE  (\A j \in DOMAIN rest : F(rest[j][1]) # i) /\ F(Head(ms)[1]) # i
  BY <1>1, <1>2
<1>3. ASSUME NEW x, NEW j \in DOMAIN ms, F(ms[j][1]) = i, ms[j][2] = x,
             \A l \in DOMAIN ms : F(ms[l][1]) = i => l = j
      PROVE  IF F(Head(ms)[1]) = i THEN x = Head(ms)[2] /\ \A l \in DOMAIN rest : F(rest[l][1]) # i
             ELSE \E l \in DOMAIN rest : /\ F(rest[l][1]) = i /\ rest[l][2] = x
                                         /\ \A o \in DOMAIN rest : F(rest[o][1]) = i => o = l
  <2>1. CASE F(Head(ms)[1]) = i
    <3>1. j = 1
      BY <1>1, <1>3, <2>1
    <3>2. \A l \in DOMAIN rest : F(rest[l][1]) # i
      BY <1>1, <1>3, <3>1
    <3>3. QED
      BY <1>1, <1>3, <2>1, <3>1, <3>2
  <2>2. CASE F(Head(ms)[1]) # i
    <3>1. j # 1 /\ j - 1 \in DOMAIN rest /\ ms[j] = rest[j - 1] /\ j \in Nat
      BY <1>1, <1>3, <2>2
    <3>2. \A o \in DOMAIN rest : F(rest[o][1]) = i => o = j - 1
      BY <1>1, <1>3, <3>1
    <3>3. QED
      BY <1>3, <2>2, <3>1, <3>2
  <2>3. QED
    BY <2>1, <2>2
<1>4. QED
  BY <1>2, <1>3 DEF NoneFor, OneFor, F, rest

LEMMA DistinctTail ==
    ASSUME NEW s, NEW t, NEW ms \in Members, ms # <<>>, Distinct(s, t, ms)
    PROVE  Distinct(s, t, Tail(ms))
<1> SUFFICES ASSUME NEW i \in DOMAIN s.fields[t]
             PROVE  NoneFor(s, t, Tail(ms), i) \/ \E x : OneFor(s, t, Tail(ms), i, x)
  BY DEF Distinct
<1>1. CASE NoneFor(s, t, ms, i)
  BY <1>1, ForTail
<1>2. ASSUME NEW x, OneFor(s, t, ms, i, x) PROVE NoneFor(s, t, Tail(ms), i) \/ \E y : OneFor(s, t, Tail(ms), i, y)
  BY <1>2, ForTail
<1>3. QED
  BY <1>1, <1>2 DEF Distinct

LEMMA ForPrepended ==
    ASSUME NEW s, NEW t, NEW m \in JsonKeys \X Docs, NEW rest \in Members, NEW i
    PROVE  /\ PlanField(s, t, m[1]) # i => /\ NoneFor(s, t, rest, i) => NoneFor(s, t, Prepended(m, rest), i)
                                           /\ \A x : OneFor(s, t, rest, i, x)
                                                       => OneFor(s, t, Prepended(m, rest), i, x)
           /\ PlanField(s, t, m[1]) = i /\ NoneFor(s, t, rest, i) => OneFor(s, t, Prepended(m, rest), i, m[2])
<1> DEFINE c == Prepended(m, rest)
           F(key) == PlanField(s, t, key)
<1>1. c \in Members /\ c # <<>> /\ Head(c) = m /\ Tail(c) = rest
  BY Prepend DEF Members, Prepended
<1> HIDE DEF c, F
<1>2. /\ m = c[1] /\ 1 \in DOMAIN c
      /\ \A j \in DOMAIN rest : rest[j] = c[j + 1] /\ j + 1 \in DOMAIN c /\ j \in Nat /\ j + 1 # 1
      /\ \A j \in DOMAIN c : j # 1 => j - 1 \in DOMAIN rest /\ c[j] = rest[j - 1] /\ j \in Nat
  <2>1. DOMAIN c \subseteq Nat /\ DOMAIN rest \subseteq Nat /\ 0 \notin DOMAIN rest
    BY <1>1 DEF Members
  <2>2. QED
    BY <1>1, <2>1, FirstMember
<1>3. ASSUME F(m[1]) # i, \A j \in DOMAIN rest : F(rest[j][1]) # i
      PROVE  \A j \in DOMAIN c : F(c[j][1]) # i
  BY <1>2, <1>3
<1>4. ASSUME F(m[1]) # i, NEW x, NEW j \in DOMAIN rest, F(rest[j][1]) = i, rest[j][2] = x,
             \A l \in DOMAIN rest : F(rest[l][1]) = i => l = j
      PROVE  \E l \in DOMAIN c : F(c[l][1]) = i /\ c[l][2] = x /\ \A o \in DOMAIN c : F(c[o][1]) = i => o = l
  <2>1. j + 1 \in DOMAIN c /\ F(c[j + 1][1]) = i /\ c[j + 1][2] = x
    BY <1>2, <1>4
  <2>2. ASSUME NEW o \in DOMAIN c, F(c[o][1]) = i PROVE o = j + 1
    <3>1. o # 1 /\ o - 1 = j /\ o \in Nat
      BY <1>2, <1>4, <2>2
    <3>2. QED
      BY <3>1
  <2>3. QED
    BY <2>1, <2>2
<1>5. ASSUME F(m[1]) = i, \A j \in DOMAIN rest : F(rest[j][1]) # i
      PROVE  \E l \in DOMAIN c : F(c[l][1]) = i /\ c[l][2] = m[2] /\ \A o \in DOMAIN c : F(c[o][1]) = i => o = l
  BY <1>2, <1>5
<1>6. QED
  BY <1>3, <1>4, <1>5 DEF NoneFor, OneFor, F, c
-----------------------------------------------------------------------------
\* What reading members makes of a struct: its marks, and its values where no
\* field has two members.
MarksOf(s, t, ms, meta, rules) ==
    {PlanField(s, t, ms[j][1]) : j \in {l \in DOMAIN ms : ~Skipped(s, t, ms[l], meta, rules)}}

MarksGrow(s, t, ms, meta, rules) ==
    /\ Skipped(s, t, Head(ms), meta, rules) =>
         MarksOf(s, t, ms, meta, rules) = MarksOf(s, t, Tail(ms), meta, rules)
    /\ ~Skipped(s, t, Head(ms), meta, rules) =>
         MarksOf(s, t, ms, meta, rules)
           = MarksOf(s, t, Tail(ms), meta, rules) \cup {PlanField(s, t, Head(ms)[1])}

LEMMA MarksOfTail ==
    ASSUME NEW s, NEW t, NEW ms \in Members, ms # <<>>, NEW meta, NEW rules
    PROVE  MarksGrow(s, t, ms, meta, rules)
<1> DEFINE rest == Tail(ms)
           F(m) == PlanField(s, t, m[1])
           G(m) == Skipped(s, t, m, meta, rules)
<1>1. /\ Head(ms) = ms[1] /\ 1 \in DOMAIN ms
      /\ \A j \in DOMAIN rest : rest[j] = ms[j + 1] /\ j + 1 \in DOMAIN ms
      /\ \A j \in DOMAIN ms : j # 1 => j - 1 \in DOMAIN rest /\ ms[j] = rest[j - 1]
  BY FirstMember
<1> HIDE DEF rest, F, G
<1>2. {F(ms[j]) : j \in {l \in DOMAIN ms : ~G(ms[l])}}
        = {F(rest[j]) : j \in {l \in DOMAIN rest : ~G(rest[l])}} \cup (IF G(Head(ms)) THEN {} ELSE {F(Head(ms))})
  BY <1>1
<1>3. QED
  BY <1>2 DEF MarksGrow, MarksOf, F, G, rest

LEMMA ReadMarks ==
    ASSUME JSON, Readings, NEW n \in DOMAIN Shapes, NEW t \in Types, NEW meta, NEW rules
    PROVE  \A ms \in Members : \A base :
             LET w == ReadMembers(Shapes[n], t, ms, base, meta, rules)
             IN  w = Failure \/ w.marks = base.marks \cup MarksOf(Shapes[n], t, ms, meta, rules)
<1> DEFINE s == Shapes[n]
           R(ms, base) == ReadMembers(s, t, ms, base, meta, rules)
           P(ms) == \A base : R(ms, base) = Failure
                        \/ R(ms, base).marks = base.marks \cup MarksOf(s, t, ms, meta, rules)
           Q(len) == \A ms \in Members : Len(ms) = len => P(ms)
           T == {len \in Nat : Q(len)}
<1>1. Q(0)
  <2> SUFFICES ASSUME NEW ms \in Members, Len(ms) = 0, NEW base
               PROVE  R(ms, base).marks = base.marks \cup MarksOf(s, t, ms, meta, rules)
    OBVIOUS
  <2>1. ms = <<>>
    BY DEF Members
  <2>2. R(ms, base) = base
    BY <2>1, ReadMembersStep
  <2>3. MarksOf(s, t, ms, meta, rules) = {}
    BY <2>1 DEF MarksOf
  <2>4. QED
    BY <2>2, <2>3
<1>2. ASSUME NEW len \in Nat, Q(len) PROVE Q(len + 1)
  <2> SUFFICES ASSUME NEW ms \in Members, Len(ms) = len + 1, NEW base
               PROVE  R(ms, base) = Failure
                        \/ R(ms, base).marks = base.marks \cup MarksOf(s, t, ms, meta, rules)
    OBVIOUS
  <2>1. ms # <<>>
    BY DEF Members
  <2> DEFINE m == Head(ms)
             i == PlanField(s, t, m[1])
             e == ReadValue(s, t, m, base, meta, rules)
             w == R(ms, base)
  <2>2. P(Tail(ms))
    <3>1. Tail(ms) \in Members /\ Len(Tail(ms)) = len
      BY <2>1, FirstMember
    <3> HIDE DEF P
    <3>2. QED
      BY <1>2, <3>1
  <2>3. ReadResults(s, t, ms, base, meta, rules, w)
    BY <2>1, ReadMembersStep
  <2>4. /\ Skipped(s, t, m, meta, rules) => MarksOf(s, t, ms, meta, rules) = MarksOf(s, t, Tail(ms), meta, rules)
        /\ ~Skipped(s, t, m, meta, rules) =>
              MarksOf(s, t, ms, meta, rules) = MarksOf(s, t, Tail(ms), meta, rules) \cup {i}
    BY <2>1, MarksOfTail DEF MarksGrow
  <2>5. CASE Skipped(s, t, m, meta, rules)
    <3>1. w = R(Tail(ms), base)
      BY <2>3, <2>5 DEF ReadResults
    <3>2. QED
      BY <2>2, <2>4, <2>5, <3>1
  <2>6. CASE ~Skipped(s, t, m, meta, rules)
    <3>1. w = Failure \/ w = R(Tail(ms), Put(base, i, e))
      <4> HIDE DEF w
      <4>1. QED
        BY <2>3, <2>6 DEF ReadResults
    <3>2. Put(base, i, e).marks = base.marks \cup {i}
      BY Tags DEF Put
    <3>3. LET b == Put(base, i, e) IN
          R(Tail(ms), b) = Failure \/ R(Tail(ms), b).marks = b.marks \cup MarksOf(s, t, Tail(ms), meta, rules)
      BY <2>2
    <3>4. w = Failure \/ w.marks = (base.marks \cup {i}) \cup MarksOf(s, t, Tail(ms), meta, rules)
      <4> HIDE DEF w, i, e, R
      <4>1. QED
        BY <3>1, <3>2, <3>3
    <3>5. MarksOf(s, t, ms, meta, rules) = MarksOf(s, t, Tail(ms), meta, rules) \cup {i}
      BY <2>4, <2>6
    <3> HIDE DEF w, i, e
    <3>6. w = Failure \/ w.marks = base.marks \cup MarksOf(s, t, ms, meta, rules)
      BY <3>4, <3>5
    <3>7. QED
      BY <3>6 DEF w
  <2>7. QED
    BY <2>5, <2>6
<1>3. T = Nat
  <2>1. T \in SUBSET Nat /\ 0 \in T /\ \A len \in T : len + 1 \in T
    BY <1>1, <1>2
  <2> HIDE DEF T
  <2>2. QED
    BY <2>1, Ind
<1>4. \A ms \in Members : Len(ms) \in Nat
  BY DEF Members
<1>5. QED
  BY <1>3, <1>4

\* What reading distinct members makes of field i, before it was b.
FieldRead(s, t, ms, meta, rules, i, b, x) ==
    LET f == s.fields[t][i] IN
    /\ NoneFor(s, t, ms, i) => x = b
    /\ \A v : OneFor(s, t, ms, i, v) =>
          IF Dropped(s, t, f, v, meta, rules) THEN x = b
          ELSE x = Reading(s, f.type, Ruled(f, v, rules), b, meta, rules) /\ x # Failure
Struct(s, t, b) == b = Rec(b.of, b.marks) /\ IsFcn(b.of) /\ DOMAIN b.of = DOMAIN s.fields[t]
StructRead(s, t, ms, base, meta, rules, w) ==
    /\ Struct(s, t, w)
    /\ \A i \in DOMAIN s.fields[t] : FieldRead(s, t, ms, meta, rules, i, base.of[i], w.of[i])

\* A member that is skipped, or put where the other members do not come.
LEMMA FieldReadSkip ==
    ASSUME NEW s, NEW t, NEW ms \in Members, ms # <<>>, NEW meta, NEW rules, NEW i, i # 0, NEW b, NEW x,
           \/ Skipped(s, t, Head(ms), meta, rules)
           \/ PlanField(s, t, Head(ms)[1]) # i,
           FieldRead(s, t, Tail(ms), meta, rules, i, b, x)
    PROVE  FieldRead(s, t, ms, meta, rules, i, b, x)
<1> DEFINE f == s.fields[t][i]
<1>1. NoneFor(s, t, ms, i) => x = b
  BY ForTail DEF FieldRead
<1>2. ASSUME NEW v, OneFor(s, t, ms, i, v)
      PROVE  IF Dropped(s, t, f, v, meta, rules) THEN x = b
             ELSE x = Reading(s, f.type, Ruled(f, v, rules), b, meta, rules) /\ x # Failure
  <2>1. CASE PlanField(s, t, Head(ms)[1]) = i
    <3>1. v = Head(ms)[2] /\ NoneFor(s, t, Tail(ms), i)
      BY <1>2, <2>1, ForTail
    <3>2. Dropped(s, t, f, v, meta, rules)
      BY <2>1, <3>1 DEF Skipped, FieldFor
    <3>3. x = b
      BY <3>1 DEF FieldRead
    <3>4. QED
      BY <3>2, <3>3
  <2>2. CASE PlanField(s, t, Head(ms)[1]) # i
    <3>1. OneFor(s, t, Tail(ms), i, v)
      BY <1>2, <2>2, ForTail
    <3>2. QED
      BY <3>1 DEF FieldRead
  <2>3. QED
    BY <2>1, <2>2
<1>3. QED
  BY <1>1, <1>2 DEF FieldRead

LEMMA FieldReadPut ==
    ASSUME NEW s, NEW t, NEW ms \in Members, ms # <<>>, NEW meta, NEW rules, NEW b, NEW x,
           ~Skipped(s, t, Head(ms), meta, rules), NEW i, i = PlanField(s, t, Head(ms)[1]),
           \E v : OneFor(s, t, ms, i, v),
           NEW e, e = Reading(s, s.fields[t][i].type, Ruled(s.fields[t][i], Head(ms)[2], rules), b, meta, rules),
           e # Failure, FieldRead(s, t, Tail(ms), meta, rules, i, e, x)
    PROVE  FieldRead(s, t, ms, meta, rules, i, b, x)
<1> DEFINE f == s.fields[t][i]
<1>1. ~NoneFor(s, t, ms, i)
  BY ForTail
<1>2. NoneFor(s, t, Tail(ms), i) /\ \A v : OneFor(s, t, ms, i, v) => v = Head(ms)[2]
  BY ForTail
<1>3. x = e
  BY <1>2 DEF FieldRead
<1>4. ~Dropped(s, t, f, Head(ms)[2], meta, rules)
  BY DEF Skipped, FieldFor
<1>5. ASSUME NEW v, OneFor(s, t, ms, i, v)
      PROVE  IF Dropped(s, t, f, v, meta, rules) THEN x = b
             ELSE x = Reading(s, f.type, Ruled(f, v, rules), b, meta, rules) /\ x # Failure
  <2>1. v = Head(ms)[2]
    BY <1>2, <1>5
  <2>2. QED
    BY <1>3, <1>4, <2>1
<1>6. QED
  BY <1>1, <1>5 DEF FieldRead

LEMMA ReadDistinct ==
    ASSUME JSON, Readings, NEW n \in DOMAIN Shapes, NEW t \in Types, NEW meta, NEW rules
    PROVE  \A ms \in Members : Distinct(Shapes[n], t, ms) => \A base : Struct(Shapes[n], t, base) =>
             LET w == ReadMembers(Shapes[n], t, ms, base, meta, rules)
             IN  w = Failure \/ StructRead(Shapes[n], t, ms, base, meta, rules, w)
<1> DEFINE s == Shapes[n]
           R(ms, base) == ReadMembers(s, t, ms, base, meta, rules)
           P(ms) == \A base : Struct(s, t, base) =>
                        R(ms, base) = Failure \/ StructRead(s, t, ms, base, meta, rules, R(ms, base))
           Q(len) == \A ms \in Members : Len(ms) = len /\ Distinct(s, t, ms) => P(ms)
           T == {len \in Nat : Q(len)}
<1>1. Q(0)
  <2> SUFFICES ASSUME NEW ms \in Members, Len(ms) = 0, NEW base, Struct(s, t, base)
               PROVE  StructRead(s, t, ms, base, meta, rules, R(ms, base))
    OBVIOUS
  <2>1. ms = <<>>
    BY DEF Members
  <2>2. R(ms, base) = base
    BY <2>1, ReadMembersStep
  <2>3. \A i : ~\E v : OneFor(s, t, ms, i, v)
    BY <2>1 DEF OneFor
  <2>4. StructRead(s, t, ms, base, meta, rules, base)
    BY <2>3 DEF StructRead, FieldRead
  <2>5. QED
    BY <2>2, <2>4
<1>2. ASSUME NEW len \in Nat, Q(len) PROVE Q(len + 1)
  <2> SUFFICES ASSUME NEW ms \in Members, Len(ms) = len + 1, Distinct(s, t, ms), NEW base, Struct(s, t, base)
               PROVE  R(ms, base) = Failure \/ StructRead(s, t, ms, base, meta, rules, R(ms, base))
    OBVIOUS
  <2>1. ms # <<>>
    BY DEF Members
  <2> DEFINE m == Head(ms)
             i == PlanField(s, t, m[1])
             e == ReadValue(s, t, m, base, meta, rules)
             w == R(ms, base)
  <2>2. P(Tail(ms))
    <3>1. Tail(ms) \in Members /\ Len(Tail(ms)) = len /\ Distinct(s, t, Tail(ms))
      BY <2>1, FirstMember, DistinctTail
    <3> HIDE DEF P
    <3>2. QED
      BY <1>2, <3>1
  <2>3. ReadResults(s, t, ms, base, meta, rules, w)
    BY <2>1, ReadMembersStep
  <2>4. i \in {0} \cup DOMAIN s.fields[t] /\ 0 \notin DOMAIN s.fields[t]
    BY FieldOfIn DEF PlanField
  <2>5. CASE Skipped(s, t, m, meta, rules)
    <3>1. w = R(Tail(ms), base)
      BY <2>3, <2>5 DEF ReadResults
    <3>2. w = Failure \/ StructRead(s, t, Tail(ms), base, meta, rules, w)
      BY <2>2, <3>1
    <3>3. ASSUME StructRead(s, t, Tail(ms), base, meta, rules, w)
          PROVE  StructRead(s, t, ms, base, meta, rules, w)
      <4> HIDE DEF w
      <4>1. \A l \in DOMAIN s.fields[t] : FieldRead(s, t, ms, meta, rules, l, base.of[l], w.of[l])
        BY <2>1, <2>4, <2>5, <3>3, FieldReadSkip DEF StructRead
      <4>2. QED
        BY <3>3, <4>1 DEF StructRead
    <3>4. QED
      BY <3>2, <3>3
  <2>6. CASE ~Skipped(s, t, m, meta, rules)
    <3> DEFINE b == Put(base, i, e)
    <3>1. w = Failure \/ (e # Failure /\ w = R(Tail(ms), b))
      <4> HIDE DEF w
      <4>1. QED
        BY <2>3, <2>6 DEF ReadResults
    <3>2. i \in DOMAIN s.fields[t]
      BY <2>4, <2>6 DEF Skipped
    <3>3. /\ Struct(s, t, b) /\ b.of[i] = e
          /\ \A l \in DOMAIN s.fields[t] \ {i} : b.of[l] = base.of[l]
      <4> DEFINE g == [base.of EXCEPT ![i] = e]
      <4>1. b = Rec(g, base.marks \cup {i}) /\ b.of = g /\ b.marks = base.marks \cup {i}
        BY Tags DEF Put
      <4>2. IsFcn(g) /\ DOMAIN g = DOMAIN s.fields[t] /\ g[i] = e
            /\ \A l \in DOMAIN s.fields[t] \ {i} : g[l] = base.of[l]
        <5> HIDE DEF i, e
        <5>1. QED
          BY <3>2 DEF Struct, IsFcn
      <4> HIDE DEF g, b, i, e
      <4>3. QED
        BY <4>1, <4>2 DEF Struct
    <3>4. w = Failure \/ StructRead(s, t, Tail(ms), b, meta, rules, w)
      <4> HIDE DEF b
      <4>1. R(Tail(ms), b) = Failure \/ StructRead(s, t, Tail(ms), b, meta, rules, R(Tail(ms), b))
        BY <2>2, <3>3
      <4> HIDE DEF w
      <4>2. QED
        BY <3>1, <4>1
    <3>5. ASSUME w # Failure, StructRead(s, t, Tail(ms), b, meta, rules, w)
          PROVE  StructRead(s, t, ms, base, meta, rules, w)
      <4> HIDE DEF w, b
      <4>1. ASSUME NEW l \in DOMAIN s.fields[t]
            PROVE  FieldRead(s, t, ms, meta, rules, l, base.of[l], w.of[l])
        <5>1. FieldRead(s, t, Tail(ms), meta, rules, l, b.of[l], w.of[l])
          BY <3>5 DEF StructRead
        <5>2. CASE l # i
          <6>1. b.of[l] = base.of[l] /\ l # 0
            BY <2>4, <3>3, <5>2
          <6> HIDE DEF e
          <6>2. QED
            BY <2>1, <5>1, <5>2, <6>1, FieldReadSkip
        <5>3. CASE l = i
          <6>1. \E v : OneFor(s, t, ms, l, v)
            <7>1. ~NoneFor(s, t, ms, l)
              BY <2>1, <5>3, ForTail
            <7>2. QED
              BY <7>1 DEF Distinct
          <6>2. b.of[l] = e /\ e # Failure
            BY <3>1, <3>3, <3>5, <5>3
          <6>3. e = Reading(s, s.fields[t][l].type, Ruled(s.fields[t][l], m[2], rules), base.of[l], meta, rules)
            BY <5>3 DEF ReadValue, FieldFor
          <6> HIDE DEF e
          <6>4. QED
            BY <2>1, <2>6, <5>1, <5>3, <6>1, <6>2, <6>3, FieldReadPut
        <5>4. QED
          BY <5>2, <5>3
      <4>2. QED
        BY <3>5, <4>1 DEF StructRead
    <3>6. QED
      BY <3>4, <3>5
  <2>7. QED
    BY <2>5, <2>6
<1>3. T = Nat
  <2>1. T \in SUBSET Nat /\ 0 \in T /\ \A len \in T : len + 1 \in T
    BY <1>1, <1>2
  <2> HIDE DEF T
  <2>2. QED
    BY <2>1, Ind
<1>4. \A ms \in Members : Len(ms) \in Nat
  BY DEF Members
<1>5. QED
  BY <1>3, <1>4

\* Go ranges over the spellings of a word in some order.
Ranked(order) == \A key \in JsonKeys : order[key[2]] \in Nat
Unbroken(n, t) == t \in Types /\ t \notin Shapes[n].broken

\* A field's own name is its member's, whatever aliases there are.
LEMMA NameIsOwn ==
    ASSUME NEW n \in DOMAIN Shapes, NEW t, Unbroken(n, t), NEW i \in DOMAIN Shapes[n].fields[t]
    PROVE  PlanField(Shapes[n], t, Shapes[n].fields[t][i].name) = i
<1> DEFINE fs == Shapes[n].fields[t]
           name == fs[i].name
           exact == {l \in DOMAIN fs : fs[l].name = name \/ (TRUE /\ name \in fs[l].aliases)}
<1>1. \A l \in DOMAIN fs : l # i => fs[l].name # name /\ name \notin fs[l].aliases
  BY NamesAssumption DEF Unbroken
<1>2. exact = {i} /\ i \in Nat
  BY <1>1, FieldsAssumption DEF Unbroken
<1>3. Min(exact) = i
  BY <1>2, Smallest
<1>4. QED
  BY <1>2, <1>3 DEF PlanField, FieldOf

LEMMA OneAt ==
    ASSUME NEW s, NEW t, NEW ms \in Members, NEW i, NEW x, OneFor(s, t, ms, i, x),
           NEW key \in Keys(ms), PlanField(s, t, key) = i
    PROVE  At(ms, key) = x /\ {o \in Keys(ms) : PlanField(s, t, o) = i} = {key}
<1>1. PICK j \in DOMAIN ms : /\ PlanField(s, t, ms[j][1]) = i /\ ms[j][2] = x
                             /\ \A l \in DOMAIN ms : PlanField(s, t, ms[l][1]) = i => l = j
  BY DEF OneFor
<1>2. PICK l \in DOMAIN ms : ms[l][1] = key /\ At(ms, key) = ms[l][2]
  BY AtMember
<1>3. l = j
  BY <1>1, <1>2
<1>4. \A o \in Keys(ms) : PlanField(s, t, o) = i => o = key
  BY <1>1, <1>2, <1>3 DEF Keys
<1>5. QED
  BY <1>1, <1>2, <1>3, <1>4

LEMMA FirstOfOne ==
    ASSUME NEW key \in JsonKeys, NEW order, Ranked(order)
    PROVE  First({key}, order) = {key}
<1>1. order[key[2]] <= order[key[2]]
  BY DEF Ranked
<1>2. QED
  BY <1>1 DEF First

LEMMA KeysIn == ASSUME NEW ms \in Members PROVE Keys(ms) \subseteq JsonKeys
BY DEF Keys, Members

LEMMA SuppliedOne ==
    ASSUME NEW n \in DOMAIN Shapes, NEW t, Unbroken(n, t), NEW i \in DOMAIN Shapes[n].fields[t],
           NEW ms \in Members, NEW order, Ranked(order)
    PROVE  /\ NoneFor(Shapes[n], t, ms, i) => Supplied(Shapes[n], t, i, ms, order) = {}
           /\ \A x : OneFor(Shapes[n], t, ms, i, x) => Supplied(Shapes[n], t, i, ms, order) = {x}
<1> DEFINE s == Shapes[n]
           name == s.fields[t][i].name
           own == {key \in Keys(ms) : PlanField(s, t, key) = i}
<1>1. Supplied(s, t, i, ms, order) = IF name \in Keys(ms) THEN {At(ms, name)}
                                     ELSE {At(ms, key) : key \in First(own, order)}
  BY DEF Supplied
<1>2. name \in Keys(ms) => name \in own
  BY NameIsOwn
<1>3. ASSUME NoneFor(s, t, ms, i) PROVE Supplied(s, t, i, ms, order) = {}
  <2>1. own = {}
    BY <1>3 DEF NoneFor, Keys
  <2>2. First(own, order) = {}
    BY <2>1, FirstIn
  <2> HIDE DEF own
  <2>3. QED
    BY <1>1, <1>2, <2>1, <2>2
<1>4. ASSUME NEW x, OneFor(s, t, ms, i, x) PROVE Supplied(s, t, i, ms, order) = {x}
  <2>1. PICK key \in Keys(ms) : PlanField(s, t, key) = i
    BY <1>4 DEF OneFor, Keys
  <2>2. At(ms, key) = x /\ own = {key}
    BY <1>4, <2>1, OneAt
  <2>3. First(own, order) = {key}
    BY <2>2, FirstOfOne, KeysIn
  <2> HIDE DEF own
  <2>4. QED
    BY <1>1, <1>2, <2>2, <2>3
<1>5. QED
  BY <1>3, <1>4

\* The members of a struct that repeats no field.
LEMMA UnduplicatedMembers ==
    ASSUME JSON, Readings, NEW s, NEW t, t # NoType, s.kind[t] = "struct", NEW v \in Docs, v.tag = "obj",
           Unduplicated(s, t, v), 0 \notin DOMAIN s.fields[t]
    PROVE  /\ v.of \in Members /\ Distinct(s, t, v.of)
           /\ \A i \in DOMAIN s.fields[t] : \A x : OneFor(s, t, v.of, i, x) =>
                x \in Docs /\ depth[x] < depth[v] /\ Unduplicated(s, s.fields[t][i].type, x)
<1>1. v.of \in Members /\ \A j \in DOMAIN v.of : v.of[j][2] \in Docs /\ depth[v.of[j][2]] < depth[v]
  BY DocCases, Tags DEF Members
<1>2. UnduplicatedOnce(s, t, v)
  BY DEF Readings
<1>3. \A j \in DOMAIN v.of : PlanField(s, t, v.of[j][1]) # 0 =>
         /\ \A l \in DOMAIN v.of : PlanField(s, t, v.of[l][1]) = PlanField(s, t, v.of[j][1]) => l = j
         /\ Unduplicated(s, s.fields[t][PlanField(s, t, v.of[j][1])].type, v.of[j][2])
  BY <1>2 DEF UnduplicatedOnce, PlanField
<1>4. ASSUME NEW i \in DOMAIN s.fields[t]
      PROVE  NoneFor(s, t, v.of, i) \/ \E x : OneFor(s, t, v.of, i, x)
  BY <1>3 DEF NoneFor, OneFor
<1>5. ASSUME NEW i \in DOMAIN s.fields[t], NEW x, OneFor(s, t, v.of, i, x)
      PROVE  x \in Docs /\ depth[x] < depth[v] /\ Unduplicated(s, s.fields[t][i].type, x)
  BY <1>1, <1>3, <1>5 DEF OneFor
<1>6. QED
  BY <1>1, <1>4, <1>5 DEF Distinct

\* The parts of a list or a map that repeats no field.
LEMMA UnduplicatedItems ==
    ASSUME JSON, Readings, NEW s, NEW t, t # NoType, NEW v \in Docs, Unduplicated(s, t, v)
    PROVE  /\ s.kind[t] = "list" /\ v.tag = "list" =>
                \A j \in DOMAIN v.of : /\ v.of[j] \in Docs /\ depth[v.of[j]] < depth[v]
                                       /\ Unduplicated(s, s.item[t], v.of[j])
           /\ s.kind[t] = "map" /\ v.tag = "obj" =>
                \A key \in Keys(v.of) : /\ At(v.of, key) \in Docs /\ depth[At(v.of, key)] < depth[v]
                                        /\ Unduplicated(s, s.item[t], At(v.of, key))
<1>1. UnduplicatedOnce(s, t, v)
  BY DEF Readings
<1>2. ASSUME s.kind[t] = "list", v.tag = "list", NEW j \in DOMAIN v.of
      PROVE  v.of[j] \in Docs /\ depth[v.of[j]] < depth[v] /\ Unduplicated(s, s.item[t], v.of[j])
  <2>1. v.of[j] \in Docs /\ depth[v.of[j]] < depth[v]
    BY <1>2, DocCases, Tags
  <2>2. QED
    BY <1>1, <1>2, <2>1 DEF UnduplicatedOnce
<1>3. ASSUME s.kind[t] = "map", v.tag = "obj", NEW key \in Keys(v.of)
      PROVE  At(v.of, key) \in Docs /\ depth[At(v.of, key)] < depth[v] /\ Unduplicated(s, s.item[t], At(v.of, key))
  <2>1. v.of \in Members /\ \A j \in DOMAIN v.of : v.of[j][2] \in Docs /\ depth[v.of[j][2]] < depth[v]
    BY <1>3, DocCases, Tags DEF Members
  <2>2. \A j \in DOMAIN v.of : Unduplicated(s, s.item[t], v.of[j][2])
    BY <1>1, <1>3 DEF UnduplicatedOnce
  <2>3. PICK j \in DOMAIN v.of : At(v.of, key) = v.of[j][2]
    BY <2>1, AtMember
  <2>4. QED
    BY <2>1, <2>2, <2>3
<1>4. QED
  BY <1>2, <1>3

-----------------------------------------------------------------------------
(* Validation of the document and completeness of its reading              *)

ValidField(s, t, ms, i, meta, order) ==
    LET f == s.fields[t][i] IN
    \/ Denied(s, t, f, meta)
    \/ /\ f.required => Supplied(s, t, i, ms, order) # {}
       /\ \A raw \in Supplied(s, t, i, ms, order) : Validate(s, f.type, raw, meta, order)

LEMMA ValidatesTo ==
    ASSUME Traversals, NEW s, NEW t, NEW v \in Docs, NEW meta, NEW order
    PROVE  /\ t = NoType \/ v = Null => Validate(s, t, v, meta, order)
           /\ t # NoType /\ v # Null =>
              /\ s.kind[t] = "list" => (Validate(s, t, v, meta, order) <=>
                    /\ v.tag = "list"
                    /\ \A j \in DOMAIN v.of : Validate(s, s.item[t], v.of[j], meta, order))
              /\ s.kind[t] = "map" => (Validate(s, t, v, meta, order) <=>
                    /\ v.tag = "obj"
                    /\ \A key \in Keys(v.of) : Validate(s, s.item[t], At(v.of, key), meta, order))
              /\ s.kind[t] = "struct" => (Validate(s, t, v, meta, order) <=>
                    /\ v.tag = "obj"
                    /\ \A i \in DOMAIN s.fields[t] : ValidField(s, t, v.of, i, meta, order))
              /\ s.kind[t] \notin {"list", "map", "struct"} => Validate(s, t, v, meta, order)
<1>1. Validate(s, t, v, meta, order) <=> ValidateOnce(s, t, v, meta, order)
  BY DEF Traversals
<1>2. QED
  BY <1>1 DEF ValidateOnce, ValidField

CompleteField(s, t, x, i, meta) ==
    LET f == s.fields[t][i] IN
    /\ f.required /\ ~Denied(s, t, f, meta) => i \in x.marks
    /\ i \in x.marks => Complete(s, f.type, x.of[i], meta)

LEMMA CompletesTo ==
    ASSUME Readings, NEW s, NEW t, NEW x, IsValue(x), NEW meta
    PROVE  /\ t = NoType \/ x.tag \notin {"rec", "slice", "dict"} => Complete(s, t, x, meta)
           /\ t # NoType =>
              /\ x.tag \in {"slice", "dict"} => (Complete(s, t, x, meta) <=>
                    \A key \in DOMAIN x.of : Complete(s, s.item[t], x.of[key], meta))
              /\ x.tag = "rec" => (Complete(s, t, x, meta) <=>
                    \A i \in DOMAIN x.of : CompleteField(s, t, x, i, meta))
<1>1. Complete(s, t, x, meta) <=> CompleteOnce(s, t, x, meta)
  BY DEF Readings
<1>2. QED
  BY <1>1 DEF CompleteOnce, CompleteField

\* Validating the raw document and completeness of its reading agree.
Requires(k, v, order) == \A t : Target(k, t) /\ Unduplicated(Shapes[k.n], t, v) /\ Meant(k, t, v, Nil) # Failure =>
    (Validate(Shapes[k.n], t, v, k.meta, order) <=> Complete(Shapes[k.n], t, Meant(k, t, v, Nil), k.meta))

\* What is read into an absent value is a value of its type.
LEMMA MeantTyped ==
    ASSUME JSON, Traversals, Readings, NEW k, Known(k), NEW t, Target(k, t), NEW v \in Docs,
           Meant(k, t, v, Nil) # Failure
    PROVE  Typed(Shapes[k.n], t, Meant(k, t, v, Nil)) /\ IsValue(Meant(k, t, v, Nil))
<1>1. Alike(Shapes[k.n], t, Nil, Nil)
  BY TypedNil, AlikeSame
<1>2. Agree(Shapes[k.n], t, Through(k, t, v, Nil), Meant(k, t, v, Nil))
  BY <1>1, AllMatch DEF Matches
<1>3. Typed(Shapes[k.n], t, Meant(k, t, v, Nil))
  BY <1>2 DEF Agree, Alike
<1>4. QED
  BY <1>3, TypedIsValue

\* Reading a list or a map, item by item.
LEMMA MeantList ==
    ASSUME JSON, Readings, NEW k, NEW t, t # NoType, Shapes[k.n].kind[t] = "list", NEW v \in Docs, v # Null,
           Meant(k, t, v, Nil) # Failure
    PROVE  /\ v.tag = "list" /\ Meant(k, t, v, Nil).tag = "slice"
           /\ Meant(k, t, v, Nil).of = [j \in DOMAIN v.of |-> Meant(k, Shapes[k.n].item[t], v.of[j], Nil)]
           /\ Meant(k, t, v, Nil).len = Len(v.of)
           /\ \A j \in DOMAIN v.of : Meant(k, Shapes[k.n].item[t], v.of[j], Nil) # Failure
<1> DEFINE s == Shapes[k.n]
           e == Meant(k, t, v, Nil)
           g == [j \in DOMAIN v.of |-> Meant(k, s.item[t], v.of[j], Nil)]
<1>1. ReadForm(s, t, v, Nil, k.meta, k.standard, e)
  BY ReadsTo DEF Meant
<1>2. v.tag = "list" /\ e = Whole1(g, Refilled(g, <<>>))
  <2>1. v.tag = "list" /\ e = ReadList(s, t, v, <<>>, k.meta, k.standard)
    <3> HIDE DEF e
    <3>1. QED
      BY <1>1, NothingHeld DEF ReadForm, e
  <2>2. ReadList(s, t, v, <<>>, k.meta, k.standard) = Whole1(g, Refilled(g, <<>>))
    BY NothingHeld DEF ReadList, Meant, Whole1
  <2>3. QED
    BY <2>1, <2>2
<1>3. IsFcn(g) /\ Len(v.of) \in Nat /\ DOMAIN g = 1..Len(v.of)
  BY <1>2, DocCases, Tags DEF IsFcn
<1>4. Failure \notin Range(g) /\ e = Slice(g, Len(v.of))
  <2> HIDE DEF g, e
  <2>1. Refilled(g, <<>>) = Slice(g, Len(g)) /\ Len(g) = Len(v.of)
    BY <1>3, OverNothing, LengthOf
  <2>2. QED
    BY <1>2, <2>1 DEF Whole1, e
<1>5. \A j \in DOMAIN v.of : g[j] # Failure
  BY <1>4 DEF Range
<1>6. e.tag = "slice" /\ e.of = g /\ e.len = Len(v.of)
  BY <1>4, Tags
<1>7. QED
  BY <1>2, <1>5, <1>6

LEMMA MeantDict ==
    ASSUME JSON, Readings, NEW k, NEW t, t # NoType, Shapes[k.n].kind[t] = "map", NEW v \in Docs, v # Null,
           Meant(k, t, v, Nil) # Failure
    PROVE  /\ v.tag = "obj" /\ Meant(k, t, v, Nil).tag = "dict"
           /\ Meant(k, t, v, Nil).of = [key \in Keys(v.of) |-> Meant(k, Shapes[k.n].item[t], At(v.of, key), Nil)]
           /\ \A key \in Keys(v.of) : Meant(k, Shapes[k.n].item[t], At(v.of, key), Nil) # Failure
<1> DEFINE s == Shapes[k.n]
           e == Meant(k, t, v, Nil)
           h == [j \in DOMAIN v.of |-> Meant(k, s.item[t], v.of[j][2], Nil)]
           g == [key \in Keys(v.of) |-> Meant(k, s.item[t], At(v.of, key), Nil)]
<1>1. ReadForm(s, t, v, Nil, k.meta, k.standard, e)
  BY ReadsTo DEF Meant
<1>2. v.tag = "obj" /\ e = Whole1(h, Dict(Over(g, <<>>)))
  <2>1. v.tag = "obj" /\ e = ReadMap(s, t, v, <<>>, k.meta, k.standard)
    <3> HIDE DEF e
    <3>1. QED
      BY <1>1, NothingHeld DEF ReadForm, e
  <2>2. ReadMap(s, t, v, <<>>, k.meta, k.standard) = Whole1(h, Dict(Over(g, <<>>)))
    BY DEF ReadMap, Meant, Whole1
  <2>3. QED
    BY <2>1, <2>2
<1>3. IsFcn(g)
  BY DEF IsFcn
<1>4. Failure \notin Range(h) /\ e = Dict(g)
  <2> HIDE DEF g, h, e
  <2>1. Over(g, <<>>) = g
    BY <1>3, OverNothing
  <2>2. QED
    BY <1>2, <2>1 DEF Whole1, e
<1>5. \A j \in DOMAIN v.of : Meant(k, s.item[t], v.of[j][2], Nil) # Failure
  BY <1>4 DEF Range
<1>6. \A key \in Keys(v.of) : g[key] # Failure
  <2>1. v.of \in Members
    BY <1>2, DocCases, Tags DEF Members
  <2>2. \A key \in Keys(v.of) : \E j \in DOMAIN v.of : At(v.of, key) = v.of[j][2]
    BY <2>1, AtMember
  <2>3. QED
    BY <1>5, <2>2
<1>7. e.tag = "dict" /\ e.of = g
  BY <1>4, Tags
<1>8. QED
  BY <1>2, <1>6, <1>7

\* Reading a struct that repeats no field, field by field.
LEMMA MeantStruct ==
    ASSUME JSON, Readings, NEW k, Known(k), NEW t \in k.R, Shapes[k.n].kind[t] = "struct",
           NEW v \in Docs, v # Null, Unduplicated(Shapes[k.n], t, v), Meant(k, t, v, Nil) # Failure
    PROVE  /\ v.tag = "obj" /\ Meant(k, t, v, Nil).tag = "rec"
           /\ StructRead(Shapes[k.n], t, v.of, Rec(Zero(Shapes[k.n], t), {}), k.meta, k.standard,
                         Meant(k, t, v, Nil))
           /\ Meant(k, t, v, Nil).marks = MarksOf(Shapes[k.n], t, v.of, k.meta, k.standard)
<1> DEFINE s == Shapes[k.n]
           e == Meant(k, t, v, Nil)
           base == Rec(Zero(s, t), {})
<1>1. k.n \in DOMAIN Shapes /\ t \in Types /\ t # NoType
  BY FieldsAssumption DEF Known
<1>2. v.tag = "obj" /\ e = ReadMembers(s, t, v.of, base, k.meta, k.standard)
  <2>1. ReadForm(s, t, v, Nil, k.meta, k.standard, e)
    BY ReadsTo DEF Meant
  <2> HIDE DEF e
  <2>2. QED
    BY <1>1, <2>1, Tags DEF ReadForm, e
<1>3. v.of \in Members /\ Distinct(s, t, v.of)
  BY <1>1, <1>2, FieldOfIn, UnduplicatedMembers
<1>4. Struct(s, t, base)
  BY Tags DEF Struct, Zero, IsFcn
<1>5. StructRead(s, t, v.of, base, k.meta, k.standard, e)
  <2> HIDE DEF base, e
  <2>1. QED
    BY <1>1, <1>2, <1>3, <1>4, ReadDistinct DEF e
<1>6. e.marks = base.marks \cup MarksOf(s, t, v.of, k.meta, k.standard)
  <2> HIDE DEF base, e
  <2>1. QED
    BY <1>1, <1>2, <1>3, ReadMarks DEF e
<1>7. base.marks = {} /\ e.tag = "rec"
  <2>1. e = Rec(e.of, e.marks)
    BY <1>5 DEF StructRead, Struct
  <2>2. QED
    BY <2>1, Tags
<1>8. QED
  BY <1>2, <1>5, <1>6, <1>7

\* A field was supplied if it has a member that is not skipped.
LEMMA MarkOfOne ==
    ASSUME NEW s, NEW t, NEW ms, NEW meta, NEW rules, NEW i, i # 0
    PROVE  /\ NoneFor(s, t, ms, i) => i \notin MarksOf(s, t, ms, meta, rules)
           /\ \A x : OneFor(s, t, ms, i, x) =>
                (i \in MarksOf(s, t, ms, meta, rules) <=> ~Dropped(s, t, s.fields[t][i], x, meta, rules))
<1>1. NoneFor(s, t, ms, i) => i \notin MarksOf(s, t, ms, meta, rules)
  BY DEF NoneFor, MarksOf
<1>2. ASSUME NEW x, NEW j \in DOMAIN ms, PlanField(s, t, ms[j][1]) = i, ms[j][2] = x,
             \A l \in DOMAIN ms : PlanField(s, t, ms[l][1]) = i => l = j
      PROVE  i \in MarksOf(s, t, ms, meta, rules) <=> ~Dropped(s, t, s.fields[t][i], x, meta, rules)
  <2>1. Skipped(s, t, ms[j], meta, rules) <=> Dropped(s, t, s.fields[t][i], x, meta, rules)
    BY <1>2 DEF Skipped, FieldFor
  <2>2. i \in MarksOf(s, t, ms, meta, rules) <=> ~Skipped(s, t, ms[j], meta, rules)
    BY <1>2 DEF MarksOf
  <2>3. QED
    BY <2>1, <2>2
<1>3. QED
  BY <1>1, <1>2 DEF OneFor

\* One field of a struct, validated in the document and complete in its reading.
LEMMA FieldRequires ==
    ASSUME JSON, Traversals, Readings, NEW k, Known(k), ~k.standard, NEW t \in k.R, Unbroken(k.n, t),
           Shapes[k.n].kind[t] = "struct", NEW order, Ranked(order),
           NEW v \in Docs, v # Null, Unduplicated(Shapes[k.n], t, v), Meant(k, t, v, Nil) # Failure,
           \A u \in Docs : depth[u] < depth[v] => Requires(k, u, order),
           NEW i \in DOMAIN Shapes[k.n].fields[t]
    PROVE  ValidField(Shapes[k.n], t, v.of, i, k.meta, order)
             <=> CompleteField(Shapes[k.n], t, Meant(k, t, v, Nil), i, k.meta)
<1> DEFINE s == Shapes[k.n]
           f == s.fields[t][i]
           e == Meant(k, t, v, Nil)
           base == Rec(Zero(s, t), {})
<1>1. k.n \in DOMAIN Shapes /\ t \in Types /\ t # NoType /\ 0 \notin DOMAIN s.fields[t]
  BY FieldsAssumption, FieldOfIn DEF Known
<1>2. v.tag = "obj" /\ v.of \in Members /\ Distinct(s, t, v.of)
      /\ \A x : OneFor(s, t, v.of, i, x) => x \in Docs /\ depth[x] < depth[v] /\ Unduplicated(s, f.type, x)
  BY <1>1, MeantStruct, UnduplicatedMembers
<1>3. FieldRead(s, t, v.of, k.meta, k.standard, i, Nil, e.of[i])
      /\ e.marks = MarksOf(s, t, v.of, k.meta, k.standard)
  <2>1. StructRead(s, t, v.of, base, k.meta, k.standard, e) /\ e.marks = MarksOf(s, t, v.of, k.meta, k.standard)
    BY MeantStruct
  <2>2. base.of[i] = Nil
    BY Tags DEF Zero
  <2> HIDE DEF e, base
  <2>3. FieldRead(s, t, v.of, k.meta, k.standard, i, base.of[i], e.of[i])
    BY <2>1 DEF StructRead
  <2>4. QED
    BY <2>1, <2>2, <2>3
<1> HIDE DEF e
<1>4. CASE NoneFor(s, t, v.of, i)
  <2>1. Supplied(s, t, i, v.of, order) = {} /\ i \notin e.marks
    BY <1>1, <1>2, <1>3, <1>4, SuppliedOne, MarkOfOne
  <2>2. QED
    BY <2>1 DEF ValidField, CompleteField, e
<1>5. ASSUME NEW x, OneFor(s, t, v.of, i, x)
      PROVE  ValidField(s, t, v.of, i, k.meta, order) <=> CompleteField(s, t, e, i, k.meta)
  <2>1. Supplied(s, t, i, v.of, order) = {x}
    BY <1>1, <1>2, <1>5, SuppliedOne
  <2>2. Dropped(s, t, f, x, k.meta, k.standard) <=> Denied(s, t, f, k.meta)
    BY DEF Dropped
  <2>3. i \in e.marks <=> ~Denied(s, t, f, k.meta)
    BY <1>1, <1>3, <1>5, <2>2, MarkOfOne
  <2>4. CASE Denied(s, t, f, k.meta)
    BY <2>3, <2>4 DEF ValidField, CompleteField
  <2>5. CASE ~Denied(s, t, f, k.meta)
    <3>1. Ruled(f, x, k.standard) = x
      BY DEF Ruled
    <3>2. e.of[i] = Meant(k, f.type, x, Nil) /\ e.of[i] # Failure
      BY <1>3, <1>5, <2>2, <2>5, <3>1 DEF FieldRead, Meant
    <3>3. Target(k, f.type) /\ Requires(k, x, order) /\ Unduplicated(s, f.type, x)
      BY <1>2, <1>5, <2>5 DEF Known
    <3>4. Validate(s, f.type, x, k.meta, order) <=> Complete(s, f.type, e.of[i], k.meta)
      BY <3>2, <3>3 DEF Requires
    <3>5. QED
      BY <2>1, <2>3, <2>5, <3>4 DEF ValidField, CompleteField
  <2>6. QED
    BY <2>4, <2>5
<1>6. QED
  BY <1>2, <1>4, <1>5 DEF Distinct, e

LEMMA ValueRequires ==
    ASSUME JSON, Traversals, Readings, NEW k, Known(k), ~k.standard, \A t \in k.R : Unbroken(k.n, t),
           NEW order, Ranked(order), NEW v \in Docs,
           \A u \in Docs : depth[u] < depth[v] => Requires(k, u, order)
    PROVE  Requires(k, v, order)
<1> DEFINE s == Shapes[k.n]
<1> SUFFICES ASSUME NEW t, Target(k, t), Unduplicated(s, t, v), Meant(k, t, v, Nil) # Failure
             PROVE  Validate(s, t, v, k.meta, order) <=> Complete(s, t, Meant(k, t, v, Nil), k.meta)
  BY DEF Requires
<1> DEFINE e == Meant(k, t, v, Nil)
<1>1. IsValue(e) /\ Typed(s, t, e)
  BY MeantTyped
<1>2. ReadForm(s, t, v, Nil, k.meta, k.standard, e)
  BY ReadsTo DEF Meant
<1> HIDE DEF e
<1>3. CASE t = NoType
  BY <1>1, <1>3, ValidatesTo, CompletesTo DEF e
<1>4. CASE t # NoType /\ (v = Null \/ s.kind[t] \notin {"list", "map", "struct"})
  <2>1. Validate(s, t, v, k.meta, order)
    BY <1>4, ValidatesTo
  <2>2. e = Nil \/ e = Num
    BY <1>2, <1>4 DEF ReadForm, e
  <2>3. Complete(s, t, e, k.meta)
    BY <1>1, <2>2, CompletesTo, Tags
  <2>4. QED
    BY <2>1, <2>3 DEF e
<1>5. CASE t # NoType /\ v # Null /\ s.kind[t] = "list"
  <2>1. t \in k.R
    BY <1>5 DEF Target
  <2> DEFINE u == s.item[t]
             g == [j \in DOMAIN v.of |-> Meant(k, u, v.of[j], Nil)]
  <2>2. v.tag = "list" /\ e.tag = "slice" /\ e.of = g /\ \A j \in DOMAIN v.of : g[j] # Failure
    BY <1>5, MeantList DEF e
  <2>3. \A j \in DOMAIN v.of : v.of[j] \in Docs /\ depth[v.of[j]] < depth[v] /\ Unduplicated(s, u, v.of[j])
    BY <1>5, <2>2, UnduplicatedItems
  <2>4. Target(k, u)
    BY <2>1 DEF Known, Target
  <2>5. \A j \in DOMAIN v.of : Validate(s, u, v.of[j], k.meta, order) <=> Complete(s, u, g[j], k.meta)
    <3> HIDE DEF u
    <3>1. QED
      BY <2>2, <2>3, <2>4 DEF Requires
  <2>6. Validate(s, t, v, k.meta, order) <=> \A j \in DOMAIN v.of : Validate(s, u, v.of[j], k.meta, order)
    BY <1>5, <2>2, ValidatesTo
  <2>7. Complete(s, t, e, k.meta) <=> \A j \in DOMAIN g : Complete(s, u, g[j], k.meta)
    <3> HIDE DEF g
    <3>1. QED
      BY <1>1, <1>5, <2>2, CompletesTo
  <2>8. QED
    BY <2>5, <2>6, <2>7 DEF e
<1>6. CASE t # NoType /\ v # Null /\ s.kind[t] = "map"
  <2>1. t \in k.R
    BY <1>6 DEF Target
  <2> DEFINE u == s.item[t]
             g == [key \in Keys(v.of) |-> Meant(k, u, At(v.of, key), Nil)]
  <2>2. v.tag = "obj" /\ e.tag = "dict" /\ e.of = g /\ \A key \in Keys(v.of) : g[key] # Failure
    BY <1>6, MeantDict DEF e
  <2>3. \A key \in Keys(v.of) : /\ At(v.of, key) \in Docs /\ depth[At(v.of, key)] < depth[v]
                                /\ Unduplicated(s, u, At(v.of, key))
    BY <1>6, <2>2, UnduplicatedItems
  <2>4. Target(k, u)
    BY <2>1 DEF Known, Target
  <2>5. \A key \in Keys(v.of) :
            Validate(s, u, At(v.of, key), k.meta, order) <=> Complete(s, u, g[key], k.meta)
    <3> HIDE DEF u
    <3>1. QED
      BY <2>2, <2>3, <2>4 DEF Requires
  <2>6. Validate(s, t, v, k.meta, order)
          <=> \A key \in Keys(v.of) : Validate(s, u, At(v.of, key), k.meta, order)
    BY <1>6, <2>2, ValidatesTo
  <2>7. Complete(s, t, e, k.meta) <=> \A key \in DOMAIN g : Complete(s, u, g[key], k.meta)
    <3> HIDE DEF g
    <3>1. QED
      BY <1>1, <1>6, <2>2, CompletesTo
  <2>8. QED
    BY <2>5, <2>6, <2>7 DEF e
<1>7. CASE t # NoType /\ v # Null /\ s.kind[t] = "struct"
  <2>1. t \in k.R
    BY <1>7 DEF Target
  <2>2. v.tag = "obj" /\ e.tag = "rec" /\ DOMAIN e.of = DOMAIN s.fields[t]
    BY <1>7, <2>1, MeantStruct DEF StructRead, Struct, e
  <2>3. \A i \in DOMAIN s.fields[t] : ValidField(s, t, v.of, i, k.meta, order) <=> CompleteField(s, t, e, i, k.meta)
    BY <1>7, <2>1, FieldRequires DEF e
  <2>4. Validate(s, t, v, k.meta, order) <=> \A i \in DOMAIN s.fields[t] : ValidField(s, t, v.of, i, k.meta, order)
    BY <1>7, <2>2, ValidatesTo
  <2>5. Complete(s, t, e, k.meta) <=> \A i \in DOMAIN s.fields[t] : CompleteField(s, t, e, i, k.meta)
    BY <1>1, <1>7, <2>2, CompletesTo
  <2>6. QED
    BY <2>3, <2>4, <2>5 DEF e
<1>8. QED
  BY <1>3, <1>4, <1>5, <1>6, <1>7

LEMMA AllRequire ==
    ASSUME JSON, Traversals, Readings, NEW k, Known(k), ~k.standard, \A t \in k.R : Unbroken(k.n, t),
           NEW order, Ranked(order)
    PROVE  \A v \in Docs : Requires(k, v, order)
<1> DEFINE Q(n) == \A v \in Docs : depth[v] < n => Requires(k, v, order)
           S == {n \in Nat : Q(n)}
<1>1. Q(0)
  BY DocCases
<1>2. ASSUME NEW n \in Nat, Q(n) PROVE Q(n + 1)
  <2> SUFFICES ASSUME NEW v \in Docs, depth[v] < n + 1 PROVE Requires(k, v, order)
    OBVIOUS
  <2>1. \A u \in Docs : depth[u] \in Nat
    BY DocCases
  <2>2. \A u \in Docs : depth[u] < depth[v] => Requires(k, u, order)
    BY <1>2, <2>1
  <2>3. QED
    BY <2>2, ValueRequires
<1>3. S = Nat
  <2>1. S \in SUBSET Nat /\ 0 \in S /\ \A n \in S : n + 1 \in S
    BY <1>1, <1>2
  <2> HIDE DEF S
  <2>2. QED
    BY <2>1, Ind
<1>4. \A v \in Docs : depth[v] \in Nat /\ depth[v] < depth[v] + 1 /\ depth[v] + 1 \in Nat
  BY DocCases
<1>5. QED
  BY <1>3, <1>4

-----------------------------------------------------------------------------
(* Documents that repeat no field: what the filter leaves of them          *)

\* What filtering leaves of field i's member.
FieldSifted(k, t, ms, fs, i) ==
    LET f == Shapes[k.n].fields[t][i] IN
    /\ NoneFor(Shapes[k.n], t, ms, i) => NoneFor(Shapes[k.n], t, fs, i)
    /\ \A x : OneFor(Shapes[k.n], t, ms, i, x) =>
          IF Dropped(Shapes[k.n], t, f, x, k.meta, k.standard) THEN NoneFor(Shapes[k.n], t, fs, i)
          ELSE OneFor(Shapes[k.n], t, fs, i, Sift(k, f.type, Ruled(f, x, k.standard)))

LEMMA NonePrepended ==
    ASSUME NEW s, NEW t, NEW m \in JsonKeys \X Docs, NEW rest \in Members, NEW i
    PROVE  NoneFor(s, t, Prepended(m, rest), i) <=> PlanField(s, t, m[1]) # i /\ NoneFor(s, t, rest, i)
<1> DEFINE c == Prepended(m, rest)
<1>1. c \in Members /\ c # <<>> /\ Head(c) = m /\ Tail(c) = rest
  BY Prepend DEF Members, Prepended
<1>2. PlanField(s, t, m[1]) # i /\ NoneFor(s, t, rest, i) => NoneFor(s, t, c, i)
  BY ForPrepended
<1> HIDE DEF c
<1>3. NoneFor(s, t, c, i) => NoneFor(s, t, Tail(c), i) /\ PlanField(s, t, Head(c)[1]) # i
  BY <1>1, ForTail
<1>4. QED
  BY <1>1, <1>2, <1>3 DEF c

\* One member filtered.
LEMMA MemberSifted ==
    ASSUME JSON, Traversals, NEW k, Known(k), NEW t \in k.R, NEW ms \in Members, ms # <<>>
    PROVE  LET s == Shapes[k.n]
               m == Head(ms)
               i == PlanField(s, t, m[1])
               f == FieldFor(s, t, m)
               x == Sift(k, f.type, Ruled(f, m[2], k.standard))
               rest == SiftMembers(k, t, Tail(ms))
           IN  /\ rest \in Members /\ m \in JsonKeys \X Docs /\ x \in Docs /\ <<m[1], x>> \in JsonKeys \X Docs
               /\ i \in {0} \cup DOMAIN s.fields[t] /\ 0 \notin DOMAIN s.fields[t]
               /\ i = 0 => SiftMembers(k, t, ms) = Prepended(m, rest)
               /\ i # 0 /\ Skipped(s, t, m, k.meta, k.standard) => SiftMembers(k, t, ms) = rest
               /\ ~Skipped(s, t, m, k.meta, k.standard) => SiftMembers(k, t, ms) = Prepended(<<m[1], x>>, rest)
<1> DEFINE s == Shapes[k.n]
           m == Head(ms)
           i == PlanField(s, t, m[1])
           f == FieldFor(s, t, m)
           x == Sift(k, f.type, Ruled(f, m[2], k.standard))
           rest == SiftMembers(k, t, Tail(ms))
<1>1. m \in JsonKeys \X Docs /\ m[1] \in JsonKeys /\ m[2] \in Docs /\ Tail(ms) \in Members
  BY FirstMember
<1>2. rest \in Members /\ x \in Docs /\ Filtered(s, k.fl, t, m, k.meta, k.standard) = x
  <2>1. Ruled(f, m[2], k.standard) \in Docs
    BY <1>1, RuledIn
  <2>2. QED
    BY <1>1, <2>1, FilterIn DEF SiftMembers, Filtered, Sift
<1>3. i \in {0} \cup DOMAIN s.fields[t] /\ 0 \notin DOMAIN s.fields[t]
  BY SameField
<1>4. FilterResults(s, k.fl, t, ms, k.meta, k.standard, SiftMembers(k, t, ms), rest)
  BY FilterMembersStep DEF SiftMembers
<1>5. <<m[1], x>> \in JsonKeys \X Docs
  BY <1>1, <1>2
<1> HIDE DEF rest, x
<1>6. /\ i = 0 => SiftMembers(k, t, ms) = Prepended(m, rest)
      /\ i # 0 /\ Skipped(s, t, m, k.meta, k.standard) => SiftMembers(k, t, ms) = rest
      /\ ~Skipped(s, t, m, k.meta, k.standard) => SiftMembers(k, t, ms) = Prepended(<<m[1], x>>, rest)
  BY <1>2, <1>4 DEF FilterResults, Skipped
<1>7. QED
  BY <1>1, <1>2, <1>3, <1>5, <1>6 DEF x, rest

\* Filtering keeps a member of a field exactly where the reading marks it.
LEMMA SiftMarks ==
    ASSUME JSON, Traversals, NEW k, Known(k), NEW t \in k.R
    PROVE  \A ms \in Members : \A i \in DOMAIN Shapes[k.n].fields[t] :
             NoneFor(Shapes[k.n], t, SiftMembers(k, t, ms), i)
               <=> i \notin MarksOf(Shapes[k.n], t, ms, k.meta, k.standard)
<1> DEFINE s == Shapes[k.n]
           MK(ms) == MarksOf(s, t, ms, k.meta, k.standard)
           P(ms) == \A i \in DOMAIN s.fields[t] : NoneFor(s, t, SiftMembers(k, t, ms), i) <=> i \notin MK(ms)
           Q(len) == \A ms \in Members : Len(ms) = len => P(ms)
           T == {len \in Nat : Q(len)}
<1>1. Q(0)
  <2> SUFFICES ASSUME NEW ms \in Members, Len(ms) = 0 PROVE P(ms)
    OBVIOUS
  <2>1. ms = <<>>
    BY DEF Members
  <2>2. SiftMembers(k, t, ms) = <<>> /\ MK(ms) = {}
    BY <2>1, FilterNoMembers DEF SiftMembers, MarksOf
  <2>3. QED
    BY <2>2 DEF NoneFor
<1>2. ASSUME NEW len \in Nat, Q(len) PROVE Q(len + 1)
  <2> SUFFICES ASSUME NEW ms \in Members, Len(ms) = len + 1 PROVE P(ms)
    OBVIOUS
  <2>1. ms # <<>>
    BY DEF Members
  <2>2. P(Tail(ms))
    <3>1. Tail(ms) \in Members /\ Len(Tail(ms)) = len
      BY <2>1, FirstMember
    <3> HIDE DEF P
    <3>2. QED
      BY <1>2, <3>1
  <2> DEFINE m == Head(ms)
             i == PlanField(s, t, m[1])
             f == FieldFor(s, t, m)
             x == Sift(k, f.type, Ruled(f, m[2], k.standard))
             rest == SiftMembers(k, t, Tail(ms))
             w == SiftMembers(k, t, ms)
             skip == Skipped(s, t, m, k.meta, k.standard)
  <2>3. /\ rest \in Members /\ m \in JsonKeys \X Docs /\ <<m[1], x>> \in JsonKeys \X Docs
        /\ 0 \notin DOMAIN s.fields[t]
        /\ i = 0 => w = Prepended(m, rest)
        /\ i # 0 /\ skip => w = rest
        /\ ~skip => w = Prepended(<<m[1], x>>, rest)
    BY <2>1, MemberSifted
  <2>4. (skip => MK(ms) = MK(Tail(ms))) /\ (~skip => MK(ms) = MK(Tail(ms)) \cup {i})
    <3>1. MarksGrow(s, t, ms, k.meta, k.standard)
      <4> HIDE DEF s, f, x, rest, w, P, Q, T, MK, skip, m, i
      <4>1. QED
        BY <2>1, MarksOfTail
    <3>2. QED
      BY <3>1 DEF MarksGrow
  <2>5. i = 0 => skip
    BY DEF Skipped
  <2>6. ASSUME NEW l \in DOMAIN s.fields[t] PROVE NoneFor(s, t, w, l) <=> l \notin MK(ms)
    <3>1. NoneFor(s, t, rest, l) <=> l \notin MK(Tail(ms))
      BY <2>2, <2>6
    <3>2. CASE i = 0
      <4>1. NoneFor(s, t, w, l) <=> NoneFor(s, t, rest, l)
        BY <2>3, <2>6, <3>2, NonePrepended
      <4>2. QED
        BY <2>4, <2>5, <3>1, <3>2, <4>1
    <3>3. CASE i # 0 /\ skip
      <4>1. NoneFor(s, t, w, l) <=> NoneFor(s, t, rest, l)
        BY <2>3, <3>3
      <4>2. QED
        BY <2>4, <3>1, <3>3, <4>1
    <3>4. CASE ~skip
      <4>1. NoneFor(s, t, w, l) <=> i # l /\ NoneFor(s, t, rest, l)
        <5>1. <<m[1], x>>[1] = m[1]
          OBVIOUS
        <5> HIDE DEF rest, x
        <5>2. NoneFor(s, t, Prepended(<<m[1], x>>, rest), l) <=> i # l /\ NoneFor(s, t, rest, l)
          BY <2>3, <5>1, NonePrepended
        <5>3. QED
          BY <2>3, <3>4, <5>2
      <4>2. QED
        BY <2>4, <3>1, <3>4, <4>1
    <3>5. QED
      BY <3>2, <3>3, <3>4
  <2>7. QED
    BY <2>6
<1>3. T = Nat
  <2>1. T \in SUBSET Nat /\ 0 \in T /\ \A len \in T : len + 1 \in T
    BY <1>1, <1>2
  <2> HIDE DEF T
  <2>2. QED
    BY <2>1, Ind
<1>4. \A ms \in Members : Len(ms) \in Nat
  BY DEF Members
<1>5. QED
  BY <1>3, <1>4

\* A member of another field, left or dropped.
LEMMA SiftedOther ==
    ASSUME NEW k, NEW t, NEW ms \in Members, ms # <<>>, NEW i, PlanField(Shapes[k.n], t, Head(ms)[1]) # i,
           NEW rest \in Members, FieldSifted(k, t, Tail(ms), rest, i), NEW w,
           \/ w = rest
           \/ \E m \in JsonKeys \X Docs : w = Prepended(m, rest) /\ PlanField(Shapes[k.n], t, m[1]) # i
    PROVE  FieldSifted(k, t, ms, w, i)
<1> DEFINE s == Shapes[k.n]
           f == s.fields[t][i]
<1>1. /\ NoneFor(s, t, rest, i) => NoneFor(s, t, w, i)
      /\ \A x : OneFor(s, t, rest, i, x) => OneFor(s, t, w, i, x)
  BY ForPrepended
<1>2. NoneFor(s, t, ms, i) => NoneFor(s, t, w, i)
  BY <1>1, ForTail DEF FieldSifted
<1>3. ASSUME NEW x, OneFor(s, t, ms, i, x)
      PROVE  IF Dropped(s, t, f, x, k.meta, k.standard) THEN NoneFor(s, t, w, i)
             ELSE OneFor(s, t, w, i, Sift(k, f.type, Ruled(f, x, k.standard)))
  <2>1. OneFor(s, t, Tail(ms), i, x)
    BY <1>3, ForTail
  <2>2. IF Dropped(s, t, f, x, k.meta, k.standard) THEN NoneFor(s, t, rest, i)
        ELSE OneFor(s, t, rest, i, Sift(k, f.type, Ruled(f, x, k.standard)))
    BY <2>1 DEF FieldSifted
  <2>3. QED
    BY <1>1, <2>2
<1>4. QED
  BY <1>2, <1>3 DEF FieldSifted

\* The field's own member, which no member after it competes with.
LEMMA SiftedOwn ==
    ASSUME JSON, Traversals, NEW k, Known(k), NEW t \in k.R, NEW ms \in Members, ms # <<>>,
           NEW i \in DOMAIN Shapes[k.n].fields[t], i = PlanField(Shapes[k.n], t, Head(ms)[1]),
           FieldSifted(k, t, Tail(ms), SiftMembers(k, t, Tail(ms)), i)
    PROVE  FieldSifted(k, t, ms, SiftMembers(k, t, ms), i)
<1> DEFINE s == Shapes[k.n]
           f == s.fields[t][i]
           m == Head(ms)
           x == Sift(k, f.type, Ruled(f, m[2], k.standard))
           rest == SiftMembers(k, t, Tail(ms))
           w == SiftMembers(k, t, ms)
           skip == Skipped(s, t, m, k.meta, k.standard)
<1>1. FieldFor(s, t, m) = f /\ i # 0 /\ (skip <=> Dropped(s, t, f, m[2], k.meta, k.standard))
  BY SameField DEF FieldFor, Skipped
<1>2. /\ rest \in Members /\ <<m[1], x>> \in JsonKeys \X Docs
      /\ skip => w = rest
      /\ ~skip => w = Prepended(<<m[1], x>>, rest)
  BY <1>1, MemberSifted
<1>3. ~NoneFor(s, t, ms, i)
  BY ForTail
<1>4. NoneFor(s, t, Tail(ms), i) => NoneFor(s, t, rest, i)
  BY DEF FieldSifted
<1>5. ASSUME NEW y, OneFor(s, t, ms, i, y)
      PROVE  IF Dropped(s, t, f, y, k.meta, k.standard) THEN NoneFor(s, t, w, i)
             ELSE OneFor(s, t, w, i, Sift(k, f.type, Ruled(f, y, k.standard)))
  <2>1. y = m[2] /\ NoneFor(s, t, rest, i)
    BY <1>4, <1>5, ForTail
  <2>2. CASE skip
    BY <1>1, <1>2, <2>1, <2>2
  <2>3. CASE ~skip
    <3>1. <<m[1], x>>[1] = m[1] /\ <<m[1], x>>[2] = x
      OBVIOUS
    <3>2. OneFor(s, t, Prepended(<<m[1], x>>, rest), i, <<m[1], x>>[2])
      <4> HIDE DEF x, rest
      <4>1. QED
        BY <1>2, <2>1, <3>1, ForPrepended
    <3>3. OneFor(s, t, w, i, x)
      <4> HIDE DEF x, rest, w, skip
      <4>1. QED
        BY <1>2, <2>3, <3>1, <3>2
    <3>4. QED
      BY <1>1, <2>1, <2>3, <3>3
  <2>4. QED
    BY <2>2, <2>3
<1>6. QED
  BY <1>3, <1>5 DEF FieldSifted

LEMMA SiftDistinct ==
    ASSUME JSON, Traversals, NEW k, Known(k), NEW t \in k.R
    PROVE  \A ms \in Members : \A i \in DOMAIN Shapes[k.n].fields[t] :
              FieldSifted(k, t, ms, SiftMembers(k, t, ms), i)
<1> DEFINE s == Shapes[k.n]
           P(ms) == \A i \in DOMAIN s.fields[t] : FieldSifted(k, t, ms, SiftMembers(k, t, ms), i)
           Q(len) == \A ms \in Members : Len(ms) = len => P(ms)
           T == {len \in Nat : Q(len)}
<1>1. Q(0)
  <2> SUFFICES ASSUME NEW ms \in Members, Len(ms) = 0 PROVE P(ms)
    OBVIOUS
  <2>1. ms = <<>>
    BY DEF Members
  <2>2. SiftMembers(k, t, ms) = <<>>
    BY <2>1, FilterNoMembers DEF SiftMembers
  <2>3. \A i : NoneFor(s, t, ms, i) /\ \A x : ~OneFor(s, t, ms, i, x)
    BY <2>1 DEF NoneFor, OneFor
  <2>4. QED
    BY <2>1, <2>2, <2>3 DEF FieldSifted
<1>2. ASSUME NEW len \in Nat, Q(len) PROVE Q(len + 1)
  <2> SUFFICES ASSUME NEW ms \in Members, Len(ms) = len + 1 PROVE P(ms)
    OBVIOUS
  <2>1. ms # <<>>
    BY DEF Members
  <2>2. P(Tail(ms))
    <3>1. Tail(ms) \in Members /\ Len(Tail(ms)) = len
      BY <2>1, FirstMember
    <3> HIDE DEF P
    <3>2. QED
      BY <1>2, <3>1
  <2> DEFINE m == Head(ms)
             i == PlanField(s, t, m[1])
             f == FieldFor(s, t, m)
             x == Sift(k, f.type, Ruled(f, m[2], k.standard))
             rest == SiftMembers(k, t, Tail(ms))
             w == SiftMembers(k, t, ms)
  <2>3. /\ rest \in Members /\ m \in JsonKeys \X Docs /\ <<m[1], x>> \in JsonKeys \X Docs
        /\ w = rest \/ w = Prepended(m, rest) \/ w = Prepended(<<m[1], x>>, rest)
    BY <2>1, MemberSifted DEF Skipped
  <2>4. ASSUME NEW l \in DOMAIN s.fields[t] PROVE FieldSifted(k, t, ms, w, l)
    <3>1. FieldSifted(k, t, Tail(ms), rest, l)
      BY <2>2, <2>4
    <3>2. CASE l = i
      BY <2>1, <2>4, <3>1, <3>2, SiftedOwn
    <3>3. CASE l # i
      <4>1. <<m[1], x>>[1] = m[1]
        OBVIOUS
      <4>2. \/ w = rest
            \/ \E o \in JsonKeys \X Docs : w = Prepended(o, rest) /\ PlanField(s, t, o[1]) # l
        <5> HIDE DEF w, rest, x
        <5>1. QED
          BY <2>3, <3>3, <4>1
      <4> HIDE DEF w, rest, x
      <4>3. QED
        BY <2>1, <2>3, <3>1, <3>3, <4>2, SiftedOther
    <3>4. QED
      BY <3>2, <3>3
  <2>5. QED
    BY <2>4
<1>3. T = Nat
  <2>1. T \in SUBSET Nat /\ 0 \in T /\ \A len \in T : len + 1 \in T
    BY <1>1, <1>2
  <2> HIDE DEF T
  <2>2. QED
    BY <2>1, Ind
<1>4. \A ms \in Members : Len(ms) \in Nat
  BY DEF Members
<1>5. QED
  BY <1>3, <1>4

-----------------------------------------------------------------------------
(* Every answer is made by an exact plan; the public part, and validation  *)

RequiresOf(n, r, meta, req, valid) ==
    LET value == Reading(Shapes[n], r, req.doc, Nil, meta, FALSE) IN
    Unduplicated(Shapes[n], r, req.doc) /\ value # Failure /\ ~Fails(n, r, meta) =>
        valid = Complete(Shapes[n], r, value, meta)

LEMMA AnswerRequires ==
    ASSUME JSON, Traversals, Readings, Inputs, NEW n \in DOMAIN Shapes, NEW r \in Shapes[n].roots,
           NEW meta \in BOOLEAN, NEW p, ExactPlan(p, n, r, meta), NEW req \in Requests[n],
           NEW order, Ranked(order), NEW valid,
           valid = (~p.err /\ Validate(Shapes[n], r, req.doc, meta, order))
    PROVE  RequiresOf(n, r, meta, req, valid)
<1> DEFINE s == Shapes[n]
           v == req.doc
           e == Reading(s, r, v, Nil, meta, FALSE)
           k == Context(n, r, p, meta, FALSE, TRUE)
<1> SUFFICES ASSUME Unduplicated(s, r, v), e # Failure, ~Fails(n, r, meta)
             PROVE  valid = Complete(s, r, e, meta)
  BY DEF RequiresOf
<1>1. r \in Types /\ v \in Docs /\ ~p.err
  BY ShapesAssumption DEF Inputs, ExactPlan
<1>2. Known(k) /\ r \in Memo(n, r, meta)
  BY <1>1, ExactIsKnown
<1>3. k.n = n /\ k.R = Memo(n, r, meta) /\ k.meta = meta /\ k.standard = FALSE
  BY DEF Context
<1> HIDE DEF k
<1>4. \A t \in k.R : Unbroken(k.n, t)
  BY <1>2, <1>3 DEF Unbroken, Fails, Known
<1>5. Requires(k, v, order)
  BY <1>1, <1>2, <1>3, <1>4, AllRequire
<1>6. Meant(k, r, v, Nil) = e
  BY <1>3 DEF Meant
<1>7. Target(k, r)
  BY <1>2, <1>3 DEF Target
<1>8. IsValue(e)
  <2>1. IsValue(Meant(k, r, v, Nil))
    <3>1. Meant(k, r, v, Nil) # Failure
      BY <1>6
    <3>2. QED
      BY <1>1, <1>2, <1>7, <3>1, MeantTyped
  <2> HIDE DEF e
  <2>2. QED
    BY <1>6, <2>1
<1>9. Validate(s, r, v, meta, order) <=> Complete(s, r, e, meta)
  <2> HIDE DEF e
  <2>1. QED
    BY <1>3, <1>5, <1>6, <1>7 DEF Requires
<1>10. Validate(s, r, v, meta, order) \in BOOLEAN
  <2>1. Validate(s, r, v, meta, order) = ValidateOnce(s, r, v, meta, order)
    BY <1>1 DEF Traversals
  <2>2. ValidateOnce(s, r, v, meta, order) \in BOOLEAN
    BY DEF ValidateOnce
  <2>3. QED
    BY <2>1, <2>2
<1>11. Complete(s, r, e, meta) \in BOOLEAN
  <2> HIDE DEF e
  <2>1. Complete(s, r, e, meta) = CompleteOnce(s, r, e, meta)
    BY <1>8 DEF Readings
  <2>2. CompleteOnce(s, r, e, meta) \in BOOLEAN
    BY DEF CompleteOnce
  <2>3. QED
    BY <2>1, <2>2
<1>12. QED
  <2> HIDE DEF e, v, s
  <2>1. QED
    BY <1>1, <1>9, <1>10, <1>11 DEF v, s

DoneExact == \A c \in Callers : pc[c] = "done" => ExactPlan(held[c], shape, root[c], Meta(c))
RootsInv == root \in [Callers -> Shapes[shape].roots]
\* The last answer was made by an exact plan of its caller's type.
ServedBy(c, req, p, order) ==
    /\ ExactPlan(p, shape, root[c], Meta(c))
    /\ outcome.req = req
    /\ outcome.answer = Answer(shape, p, root[c], req, Meta(c), order)
    /\ outcome.valid = (~p.err /\ Validate(Graph, root[c], req.doc, Meta(c), order))
Faithful == outcome.caller \in Callers =>
    \E p : \E req \in Requests[shape], order \in Orders : ServedBy(outcome.caller, req, p, order)
BInv == IInv /\ RootsInv /\ DoneExact /\ Faithful

LEMMA DoneStep ==
    ASSUME IInv, DoneExact, NEW c \in Callers, Compile(c) \/ Serve(c)
    PROVE  DoneExact' /\ UNCHANGED <<shape, root>>
<1>1. UNCHANGED <<shape, root>>
  BY DEF Compile, Serve, LoadHit, LoadMiss, Build, Visit, SweepAgain, Settle, Publish
<1>2. DOMAIN pc = Callers /\ DOMAIN held = Callers
  BY DEF IInv
<1>3. CASE LoadHit(c)
  <2>1. held' = [held EXCEPT ![c] = published[root[c]]] /\ pc' = [pc EXCEPT ![c] = "done"]
        /\ published[root[c]] # NoPlan /\ Meta(c) = FALSE /\ root[c] \in Types
    BY <1>3, CallersAssumption DEF LoadHit, IInv, Meta
  <2>2. ExactPlan(published[root[c]], shape, root[c], FALSE)
    BY <2>1 DEF IInv, CacheInv
  <2>3. QED
    BY <1>1, <1>2, <2>1, <2>2 DEF DoneExact, Meta
<1>4. CASE Publish(c)
  <2>1. ExactPlan(Own(c), shape, root[c], Meta(c))
    BY <1>4 DEF Publish, IInv, CallerInv
  <2>2. ~Meta(c) /\ published[root[c]] # NoPlan => ExactPlan(published[root[c]], shape, root[c], Meta(c))
    <3>1. ~Meta(c) => Meta(c) = FALSE
      BY DEF Meta
    <3>2. root[c] \in Types
      BY DEF IInv
    <3>3. published[root[c]] # NoPlan => ExactPlan(published[root[c]], shape, root[c], FALSE)
      BY <3>2 DEF IInv, CacheInv
    <3>4. QED
      BY <3>1, <3>3
  <2>3. held' = [held EXCEPT ![c] = IF Meta(c) THEN Own(c) ELSE Shared(c)] /\ pc' = [pc EXCEPT ![c] = "done"]
    BY <1>4 DEF Publish
  <2>4. ExactPlan(IF Meta(c) THEN Own(c) ELSE Shared(c), shape, root[c], Meta(c))
    BY <2>1, <2>2 DEF Shared
  <2>5. QED
    BY <1>1, <1>2, <2>3, <2>4 DEF DoneExact, Meta
<1>5. CASE ~LoadHit(c) /\ ~Publish(c)
  <2>1. held' = held /\ \A d \in Callers : pc'[d] = "done" => pc[d] = "done"
    BY <1>2, <1>5 DEF Compile, Serve, LoadMiss, Build, Visit, SweepAgain, Settle
  <2>2. QED
    BY <1>1, <2>1 DEF DoneExact, Meta
<1>6. QED
  BY <1>1, <1>3, <1>4, <1>5

LEMMA AnswersFaithfully ==
    ASSUME "none" \notin Callers
    PROVE  Spec => []BInv
<1>1. Init => BInv
  <2> SUFFICES ASSUME Init PROVE BInv
    OBVIOUS
  <2>1. IInv
    BY InitInv DEF Init
  <2>2. RootsInv /\ DoneExact
    BY DEF Init, PlanInit, RootsInv, DoneExact
  <2>3. Faithful
    BY DEF Init, Faithful
  <2>4. QED
    BY <2>1, <2>2, <2>3 DEF BInv
<1>2. BInv /\ [Next]_vars => BInv'
  <2> SUFFICES ASSUME BInv, [Next]_vars PROVE BInv'
    OBVIOUS
  <2>1. IInv /\ RootsInv /\ DoneExact /\ Faithful
    BY DEF BInv
  <2>2. ASSUME UNCHANGED <<shape, root, outcome>> PROVE Faithful'
    BY <2>1, <2>2 DEF Faithful, ServedBy, Graph, Meta
  <2>3. CASE UNCHANGED vars
    <3>1. UNCHANGED <<shape, root, pc, flags, todo, changed, published, held, outcome>>
      BY <2>3 DEF vars, planVars
    <3>2. IInv'
      BY <2>1, <3>1, StepInv DEF planVars
    <3>3. RootsInv' /\ DoneExact'
      BY <2>1, <3>1 DEF RootsInv, DoneExact, Meta
    <3>4. QED
      BY <2>2, <3>1, <3>2, <3>3 DEF BInv
  <2>4. ASSUME NEW c \in Callers, Step(c) PROVE BInv'
    <3>1. Compile(c) \/ Serve(c)
      BY <2>4 DEF Step, Deliver
    <3>2. IInv'
      BY <2>1, <3>1, StepInv DEF PlanNext
    <3>3. DoneExact' /\ UNCHANGED <<shape, root>>
      BY <2>1, <3>1, DoneStep
    <3>4. RootsInv'
      BY <2>1, <3>3 DEF RootsInv
    <3>5. CASE UNCHANGED outcome
      BY <2>2, <3>2, <3>3, <3>4, <3>5 DEF BInv
    <3>6. CASE Deliver(c)
      <4>1. PICK req \in Requests[shape], order \in Orders :
               outcome' = [caller |-> c, req |-> req,
                           answer |-> Answer(shape, held[c], root[c], req, Meta(c), order),
                           valid |-> /\ ~held[c].err
                                     /\ Validate(Graph, root[c], req.doc, Meta(c), order)]
        BY <3>6 DEF Deliver
      <4>2. ExactPlan(held[c], shape, root[c], Meta(c))
        BY <2>1, <3>6 DEF DoneExact, Deliver, Serve
      <4>3. outcome'.caller = c
        BY <4>1
      <4>4. ServedBy(c, req, held[c], order)'
        <5>1. /\ outcome'.req = req
              /\ outcome'.answer = Answer(shape, held[c], root[c], req, Meta(c), order)
              /\ outcome'.valid = (~held[c].err /\ Validate(Graph, root[c], req.doc, Meta(c), order))
          BY <4>1
        <5>2. held' = held
          BY <3>6 DEF Deliver, Serve
        <5>3. QED
          BY <3>3, <4>2, <5>1, <5>2 DEF ServedBy, Graph, Meta
      <4>5. \E p : ServedBy(c, req, p, order)'
        BY <4>4
      <4>6. Faithful'
        BY <3>3, <4>3, <4>5 DEF Faithful
      <4>7. QED
        BY <3>2, <3>3, <3>4, <4>6 DEF BInv
    <3>7. QED
      BY <2>4, <3>5, <3>6 DEF Step
  <2>5. QED
    BY <2>3, <2>4 DEF Next
<1>3. QED
  BY <1>1, <1>2, PTL DEF Spec

\* What the answers of an exact plan have, every answer has.
LEMMA FaithfulAnswer ==
    ASSUME BInv, outcome.caller \in Callers
    PROVE  LET c == outcome.caller IN
           \E p : \E req \in Requests[shape], order \in Orders :
              /\ shape \in DOMAIN Shapes /\ root[c] \in Shapes[shape].roots /\ Meta(c) \in BOOLEAN
              /\ ServedBy(c, req, p, order)
<1>1. shape \in DOMAIN Shapes /\ root[outcome.caller] \in Shapes[shape].roots /\ Meta(outcome.caller) \in BOOLEAN
  BY MetaBoolean DEF BInv, IInv, RootsInv
<1>2. \E p : \E req \in Requests[shape], order \in Orders : ServedBy(outcome.caller, req, p, order)
  BY DEF BInv, Faithful
<1>3. QED
  BY <1>1, <1>2

\* Filtering and decoding give the public reading of every body, whatever its
\* depth, by whatever plan the caller got from the cache.
THEOREM BodiesReadPublicly ==
    ASSUME JSON, Traversals, Readings, Inputs, "none" \notin Callers
    PROVE  Spec => []ReadsThePublicPart
<1>1. Spec => []BInv
  BY AnswersFaithfully
<1>2. BInv => ReadsThePublicPart
  <2> SUFFICES ASSUME BInv, outcome.caller \in Callers PROVE ReadsThePublicPart
    BY DEF ReadsThePublicPart, Decoded
  <2>1. PICK p : \E req \in Requests[shape], order \in Orders :
              /\ shape \in DOMAIN Shapes /\ root[outcome.caller] \in Shapes[shape].roots
              /\ Meta(outcome.caller) \in BOOLEAN
              /\ ServedBy(outcome.caller, req, p, order)
    BY FaithfulAnswer
  <2>2. PICK req \in Requests[shape], order \in Orders :
              /\ shape \in DOMAIN Shapes /\ root[outcome.caller] \in Shapes[shape].roots
              /\ Meta(outcome.caller) \in BOOLEAN
              /\ ServedBy(outcome.caller, req, p, order)
    BY <2>1
  <2>3. ReadsOf(shape, root[outcome.caller], Meta(outcome.caller), outcome.req, outcome.answer)
    BY <2>2, AnswerReads DEF ServedBy
  <2>4. QED
    BY <2>3 DEF ReadsThePublicPart, Decoded, ReadsOf, Refused, BodyOf, Chosen, ReadBody, Subject, Answering, ByMetadata,
       Graph, Meta
<1>3. QED
  BY <1>1, <1>2, PTL

\* Validation of the raw document and completeness of what it decodes to
\* agree on every document that repeats no field, whatever its depth.
THEOREM ValidationAgrees ==
    ASSUME JSON, Traversals, Readings, Inputs, \A order \in Orders : Ranked(order), "none" \notin Callers
    PROVE  Spec => []RequiredAgrees
<1>1. Spec => []BInv
  BY AnswersFaithfully
<1>2. BInv => RequiredAgrees
  <2> SUFFICES ASSUME BInv, outcome.caller \in Callers PROVE RequiredAgrees
    BY DEF RequiredAgrees
  <2>1. PICK p : \E req \in Requests[shape], order \in Orders :
              /\ shape \in DOMAIN Shapes /\ root[outcome.caller] \in Shapes[shape].roots
              /\ Meta(outcome.caller) \in BOOLEAN
              /\ ServedBy(outcome.caller, req, p, order)
    BY FaithfulAnswer
  <2>2. PICK req \in Requests[shape], order \in Orders :
              /\ shape \in DOMAIN Shapes /\ root[outcome.caller] \in Shapes[shape].roots
              /\ Meta(outcome.caller) \in BOOLEAN
              /\ ServedBy(outcome.caller, req, p, order)
    BY <2>1
  <2>3. RequiresOf(shape, root[outcome.caller], Meta(outcome.caller), outcome.req, outcome.valid)
    <3>1. Ranked(order)
      OBVIOUS
    <3>2. outcome.valid = (~p.err /\ Validate(Shapes[shape], root[outcome.caller], req.doc, Meta(outcome.caller), order))
          /\ ExactPlan(p, shape, root[outcome.caller], Meta(outcome.caller)) /\ outcome.req = req
      BY <2>2 DEF ServedBy, Graph
    <3>3. QED
      BY <2>2, <3>1, <3>2, AnswerRequires
  <2>4. QED
    BY <2>3 DEF RequiredAgrees, RequiresOf, Answering, ByMetadata, Graph
<1>3. QED
  BY <1>1, <1>2, PTL

-----------------------------------------------------------------------------
(* Documents that repeat no field: what is decoded of them                 *)

\* What decoding distinct members makes of field i, before it was b.
FieldDecoded(s, t, ms, aliases, i, b, x) ==
    /\ NoneFor(s, t, ms, i) => x = b
    /\ \A v : OneFor(s, t, ms, i, v) => x = Decode(s, s.fields[t][i].type, v, b, aliases) /\ x # Failure
Decoding(s, t, base) == IsFcn(base) /\ DOMAIN base = DOMAIN s.fields[t]
StructDecoded(s, t, ms, aliases, base, w) ==
    /\ w = Rec(w.of, {}) /\ Decoding(s, t, w.of)
    /\ \A i \in DOMAIN s.fields[t] : FieldDecoded(s, t, ms, aliases, i, base[i], w.of[i])

LEMMA DecodeStep ==
    ASSUME Traversals, NEW s, NEW t, NEW base, NEW aliases, NEW ms \in Members, ms # <<>>
    PROVE  DecodeResults(s, t, Head(ms), Tail(ms), base, aliases, DecodeMembers(s, t, ms, base, aliases))
<1>1. DecodeMembers(s, t, ms, base, aliases) = DecodeMembersOnce(s, t, ms, base, aliases)
  BY DEF Traversals, Members
<1>2. QED
  BY <1>1 DEF DecodeMembersOnce, DecodeResults

LEMMA FieldDecodedOther ==
    ASSUME NEW s, NEW t, NEW ms \in Members, ms # <<>>, NEW aliases, NEW i, NEW b, NEW x,
           PlanField(s, t, Head(ms)[1]) # i, FieldDecoded(s, t, Tail(ms), aliases, i, b, x)
    PROVE  FieldDecoded(s, t, ms, aliases, i, b, x)
<1>1. NoneFor(s, t, ms, i) => x = b
  BY ForTail DEF FieldDecoded
<1>2. ASSUME NEW v, OneFor(s, t, ms, i, v)
      PROVE  x = Decode(s, s.fields[t][i].type, v, b, aliases) /\ x # Failure
  <2>1. OneFor(s, t, Tail(ms), i, v)
    BY <1>2, ForTail
  <2>2. QED
    BY <2>1 DEF FieldDecoded
<1>3. QED
  BY <1>1, <1>2 DEF FieldDecoded

LEMMA FieldDecodedOwn ==
    ASSUME NEW s, NEW t, NEW ms \in Members, ms # <<>>, NEW aliases, NEW b, NEW x,
           NEW i, i = PlanField(s, t, Head(ms)[1]), \E v : OneFor(s, t, ms, i, v),
           NEW e, e = Decode(s, s.fields[t][i].type, Head(ms)[2], b, aliases), e # Failure,
           FieldDecoded(s, t, Tail(ms), aliases, i, e, x)
    PROVE  FieldDecoded(s, t, ms, aliases, i, b, x)
<1>1. ~NoneFor(s, t, ms, i)
  BY ForTail
<1>2. NoneFor(s, t, Tail(ms), i) /\ \A v : OneFor(s, t, ms, i, v) => v = Head(ms)[2]
  BY ForTail
<1>3. x = e
  BY <1>2 DEF FieldDecoded
<1>4. QED
  BY <1>1, <1>2, <1>3 DEF FieldDecoded

LEMMA DecodeDistinct ==
    ASSUME JSON, Traversals, NEW k, Known(k), NEW t \in k.R
    PROVE  \A ms \in Members : Distinct(Shapes[k.n], t, ms) => \A base : Decoding(Shapes[k.n], t, base) =>
             LET w == DecodeMembers(Shapes[k.n], t, ms, base, k.aliases)
             IN  w = Failure \/ StructDecoded(Shapes[k.n], t, ms, k.aliases, base, w)
<1> DEFINE s == Shapes[k.n]
           al == k.aliases
           R(ms, base) == DecodeMembers(s, t, ms, base, al)
           P(ms) == \A base : Decoding(s, t, base) =>
                        R(ms, base) = Failure \/ StructDecoded(s, t, ms, al, base, R(ms, base))
           Q(len) == \A ms \in Members : Len(ms) = len /\ Distinct(s, t, ms) => P(ms)
           T == {len \in Nat : Q(len)}
<1>1. Q(0)
  <2> SUFFICES ASSUME NEW ms \in Members, Len(ms) = 0, NEW base, Decoding(s, t, base)
               PROVE  StructDecoded(s, t, ms, al, base, R(ms, base))
    OBVIOUS
  <2>1. ms = <<>>
    BY DEF Members
  <2>2. R(ms, base) = Rec(base, {})
    BY <2>1, DecodeNoMembers
  <2>3. \A i : ~\E v : OneFor(s, t, ms, i, v)
    BY <2>1 DEF OneFor
  <2>4. Rec(base, {}).of = base
    BY Tags
  <2>5. StructDecoded(s, t, ms, al, base, Rec(base, {}))
    BY <2>3, <2>4 DEF StructDecoded, FieldDecoded
  <2>6. QED
    BY <2>2, <2>5
<1>2. ASSUME NEW len \in Nat, Q(len) PROVE Q(len + 1)
  <2> SUFFICES ASSUME NEW ms \in Members, Len(ms) = len + 1, Distinct(s, t, ms), NEW base, Decoding(s, t, base)
               PROVE  R(ms, base) = Failure \/ StructDecoded(s, t, ms, al, base, R(ms, base))
    OBVIOUS
  <2>1. ms # <<>>
    BY DEF Members
  <2> DEFINE m == Head(ms)
             i == PlanField(s, t, m[1])
             e == Decode(s, s.fields[t][i].type, m[2], base[i], al)
             w == R(ms, base)
  <2>2. P(Tail(ms))
    <3>1. Tail(ms) \in Members /\ Len(Tail(ms)) = len /\ Distinct(s, t, Tail(ms))
      BY <2>1, FirstMember, DistinctTail
    <3> HIDE DEF P
    <3>2. QED
      BY <1>2, <3>1
  <2>3. DecodeResults(s, t, m, Tail(ms), base, al, w)
    BY <2>1, DecodeStep
  <2>4. i \in {0} \cup DOMAIN s.fields[t] /\ 0 \notin DOMAIN s.fields[t] /\ FieldOf(s, t, m[1], al) = i
    BY SameField
  <2>5. CASE i = 0
    <3>1. w = R(Tail(ms), base)
      BY <2>3, <2>4, <2>5 DEF DecodeResults
    <3>2. w = Failure \/ StructDecoded(s, t, Tail(ms), al, base, w)
      BY <2>2, <3>1
    <3>3. ASSUME StructDecoded(s, t, Tail(ms), al, base, w)
          PROVE  StructDecoded(s, t, ms, al, base, w)
      <4> HIDE DEF w
      <4>1. \A l \in DOMAIN s.fields[t] : FieldDecoded(s, t, ms, al, l, base[l], w.of[l])
        <5> TAKE l \in DOMAIN s.fields[t]
        <5>1. l # i /\ FieldDecoded(s, t, Tail(ms), al, l, base[l], w.of[l])
          BY <2>4, <2>5, <3>3 DEF StructDecoded
        <5>2. QED
          BY <2>1, <5>1, FieldDecodedOther
      <4>2. QED
        BY <3>3, <4>1 DEF StructDecoded
    <3>4. QED
      BY <3>2, <3>3
  <2>6. CASE i # 0
    <3> DEFINE b == [base EXCEPT ![i] = e]
    <3>1. w = Failure \/ (e # Failure /\ w = R(Tail(ms), b))
      <4> HIDE DEF w, i
      <4>1. QED
        BY <2>3, <2>4, <2>6 DEF DecodeResults
    <3>2. i \in DOMAIN s.fields[t]
      BY <2>4, <2>6
    <3>3. /\ Decoding(s, t, b) /\ b[i] = e
          /\ \A l \in DOMAIN s.fields[t] \ {i} : b[l] = base[l]
      <4> HIDE DEF i, e
      <4>1. QED
        BY <3>2 DEF Decoding, IsFcn
    <3>4. w = Failure \/ StructDecoded(s, t, Tail(ms), al, b, w)
      <4> HIDE DEF b
      <4>1. R(Tail(ms), b) = Failure \/ StructDecoded(s, t, Tail(ms), al, b, R(Tail(ms), b))
        BY <2>2, <3>3
      <4> HIDE DEF w
      <4>2. QED
        BY <3>1, <4>1
    <3>5. ASSUME w # Failure, StructDecoded(s, t, Tail(ms), al, b, w)
          PROVE  StructDecoded(s, t, ms, al, base, w)
      <4> HIDE DEF w, b
      <4>1. ASSUME NEW l \in DOMAIN s.fields[t]
            PROVE  FieldDecoded(s, t, ms, al, l, base[l], w.of[l])
        <5>1. FieldDecoded(s, t, Tail(ms), al, l, b[l], w.of[l])
          BY <3>5 DEF StructDecoded
        <5>2. CASE l # i
          <6>1. b[l] = base[l]
            BY <3>3, <5>2
          <6> HIDE DEF e
          <6>2. QED
            BY <2>1, <5>1, <5>2, <6>1, FieldDecodedOther
        <5>3. CASE l = i
          <6>1. \E v : OneFor(s, t, ms, l, v)
            <7>1. ~NoneFor(s, t, ms, l)
              BY <2>1, <5>3, ForTail
            <7>2. QED
              BY <7>1 DEF Distinct
          <6>2. b[l] = e /\ e # Failure
            BY <3>1, <3>3, <3>5, <5>3
          <6>3. e = Decode(s, s.fields[t][l].type, m[2], base[l], al)
            BY <5>3
          <6> HIDE DEF e
          <6>4. QED
            BY <2>1, <5>1, <5>3, <6>1, <6>2, <6>3, FieldDecodedOwn
        <5>4. QED
          BY <5>2, <5>3
      <4>2. QED
        BY <3>5, <4>1 DEF StructDecoded
    <3>6. QED
      BY <3>4, <3>5
  <2>7. QED
    BY <2>5, <2>6
<1>3. T = Nat
  <2>1. T \in SUBSET Nat /\ 0 \in T /\ \A len \in T : len + 1 \in T
    <3> HIDE DEF P
    <3>1. QED
      BY <1>1, <1>2
  <2> HIDE DEF T
  <2>2. QED
    BY <2>1, Ind
<1>4. \A ms \in Members : Len(ms) \in Nat
  BY DEF Members
<1>5. QED
  BY <1>3, <1>4

-----------------------------------------------------------------------------
(* The member that speaks for a field                                      *)

\* No two fields of a plain type have names that differ in case only.
Twinless(s, t) == \A i, j \in DOMAIN s.fields[t] : i # j => ~Same(s.fields[t][i].name, s.fields[t][j].name)
AliasFree(s, t) == \A i \in DOMAIN s.fields[t] : s.fields[t][i].aliases = {}
\* Where presence may take a route that does not ask whose member it is.
Speaks(k) == \A t \in k.R :
    /\ Unbroken(k.n, t)
    /\ "aliases" \notin k.fl[t] => AliasFree(Shapes[k.n], t)
    /\ k.fl[t] \cap {"aliases", "internal"} = {} => Twinless(Shapes[k.n], t)

OwnKeys(s, t, ms, i) == {key \in Keys(ms) : PlanField(s, t, key) = i}
FoldedKeys(s, t, ms, i) == {key \in Keys(ms) : Same(key, s.fields[t][i].name)}

\* Without aliases, a field's members have its name in some spelling.
LEMMA OwnFolded ==
    ASSUME NEW n \in DOMAIN Shapes, NEW t \in Types, AliasFree(Shapes[n], t),
           NEW i \in DOMAIN Shapes[n].fields[t], NEW ms
    PROVE  OwnKeys(Shapes[n], t, ms, i) \subseteq FoldedKeys(Shapes[n], t, ms, i)
<1> DEFINE s == Shapes[n]
           fs == s.fields[t]
<1> SUFFICES ASSUME NEW key, PlanField(s, t, key) = i PROVE Same(key, fs[i].name)
  BY DEF OwnKeys, FoldedKeys
<1> DEFINE exact == {l \in DOMAIN fs : fs[l].name = key \/ (TRUE /\ key \in fs[l].aliases)}
           folded == {l \in DOMAIN fs : Same(key, fs[l].name)}
<1>1. i = IF exact # {} THEN Min(exact) ELSE IF folded # {} THEN Min(folded) ELSE 0
  BY DEF PlanField, FieldOf
<1>2. exact \in SUBSET Nat /\ folded \in SUBSET Nat /\ i # 0
  BY FieldsAssumption
<1>3. i \in exact \/ i \in folded
  <2> HIDE DEF exact, folded
  <2>1. QED
    BY <1>1, <1>2, Smallest
<1>4. QED
  BY <1>3 DEF AliasFree, Same

LEMMA FoldedOwn ==
    ASSUME NEW n \in DOMAIN Shapes, NEW t \in Types, AliasFree(Shapes[n], t), Twinless(Shapes[n], t),
           NEW i \in DOMAIN Shapes[n].fields[t], NEW ms
    PROVE  FoldedKeys(Shapes[n], t, ms, i) = OwnKeys(Shapes[n], t, ms, i)
<1> DEFINE s == Shapes[n]
           fs == s.fields[t]
<1>1. ASSUME NEW key, Same(key, fs[i].name) PROVE PlanField(s, t, key) = i
  <2> DEFINE exact == {l \in DOMAIN fs : fs[l].name = key \/ (TRUE /\ key \in fs[l].aliases)}
             folded == {l \in DOMAIN fs : Same(key, fs[l].name)}
  <2>1. PlanField(s, t, key) = IF exact # {} THEN Min(exact) ELSE IF folded # {} THEN Min(folded) ELSE 0
    BY DEF PlanField, FieldOf
  <2>2. folded = {i} /\ exact \subseteq {i}
    BY <1>1 DEF AliasFree, Twinless, Same
  <2>3. Min({i}) = i
    <3>1. {i} \in SUBSET Nat
      BY FieldsAssumption
    <3>2. QED
      BY <3>1, Smallest
  <2> HIDE DEF exact, folded
  <2>4. exact = {} \/ exact = {i}
    BY <2>2
  <2>5. QED
    BY <2>1, <2>2, <2>3, <2>4
<1>2. FoldedKeys(s, t, ms, i) \subseteq OwnKeys(s, t, ms, i)
  BY <1>1 DEF OwnKeys, FoldedKeys
<1>3. QED
  BY <1>2, OwnFolded

\* Every route comes down to a field's own members: the last of them where
\* there are aliases, else one of their keys.
Picked(s, t, i, ms, order) ==
    LET name == s.fields[t][i].name
    IN  IF name \in Keys(ms) THEN {At(ms, name)}
        ELSE {At(ms, key) : key \in First(OwnKeys(s, t, ms, i), order)}
OwnPlaces(s, t, ms, i) == {j \in DOMAIN ms : PlanField(s, t, ms[j][1]) = i}
LastOwn(s, t, ms, i) ==
    {ms[j][2] : j \in {l \in OwnPlaces(s, t, ms, i) : \A o \in OwnPlaces(s, t, ms, i) : o <= l}}

LEMMA SpokenByOwn ==
    ASSUME NEW k, Known(k), Speaks(k), NEW t \in k.R, NEW i \in DOMAIN Shapes[k.n].fields[t],
           NEW ms \in Members, NEW order
    PROVE  \/ Spoken(Shapes[k.n], t, i, ms, k.fl, order) = LastOwn(Shapes[k.n], t, ms, i)
           \/ Spoken(Shapes[k.n], t, i, ms, k.fl, order) = Picked(Shapes[k.n], t, i, ms, order)
<1> DEFINE s == Shapes[k.n]
           x == Spoken(s, t, i, ms, k.fl, order)
           name == s.fields[t][i].name
           own == {key \in Keys(ms) : PlanField(s, t, key) = i}
           folded == {key \in Keys(ms) : Same(key, name)}
           js == {j \in DOMAIN ms : ms[j][1] \in own}
           Pick1(keys) == IF name \in Keys(ms) THEN {At(ms, name)} ELSE {At(ms, key) : key \in First(keys, order)}
<1>1. x = IF "aliases" \in k.fl[t] THEN {ms[j][2] : j \in {j \in js : \A l \in js : l <= j}}
          ELSE IF "internal" \in k.fl[t] THEN Pick1(own \cap folded)
          ELSE Pick1(folded)
  BY DEF Spoken
<1>2. own = OwnKeys(s, t, ms, i) /\ folded = FoldedKeys(s, t, ms, i)
  BY DEF OwnKeys, FoldedKeys
<1>3. k.n \in DOMAIN Shapes /\ t \in Types
  BY DEF Known
<1>4. CASE "aliases" \in k.fl[t]
  <2>1. js = OwnPlaces(s, t, ms, i)
    BY DEF OwnPlaces, Keys
  <2>2. x = {ms[j][2] : j \in {j \in js : \A l \in js : l <= j}}
    BY <1>1, <1>4
  <2> HIDE DEF js, x
  <2>3. x = LastOwn(s, t, ms, i)
    BY <2>1, <2>2 DEF LastOwn
  <2>4. QED
    BY <2>3 DEF x
<1>5. CASE "aliases" \notin k.fl[t]
  <2>1. own \subseteq folded
    BY <1>2, <1>3, <1>5, OwnFolded DEF Speaks
  <2>2. "internal" \notin k.fl[t] => folded = own
    BY <1>2, <1>3, <1>5, FoldedOwn DEF Speaks
  <2> HIDE DEF own, folded
  <2>3. own \cap folded = own
    BY <2>1
  <2>4. x = Pick1(own)
    <3> HIDE DEF Pick1, x, js
    <3>1. QED
      BY <1>1, <1>5, <2>2, <2>3
  <2>5. Pick1(own) = Picked(s, t, i, ms, order)
    BY <1>2 DEF Picked
  <2>6. QED
    BY <2>4, <2>5
<1>6. QED
  BY <1>4, <1>5

LEMMA FirstSome ==
    ASSUME NEW keys \in SUBSET JsonKeys, keys # {}, NEW order, Ranked(order)
    PROVE  First(keys, order) # {}
<1> DEFINE T == {order[key[2]] : key \in keys}
<1>1. T \in SUBSET Nat /\ T # {}
  BY DEF Ranked
<1>2. PICK x \in T : \A y \in T : x <= y
  <2> HIDE DEF T
  <2>1. QED
    BY <1>1, Least
<1>3. PICK key \in keys : x = order[key[2]]
  BY <1>2
<1>4. \A o \in keys : order[key[2]] <= order[o[2]]
  BY <1>2, <1>3
<1>5. QED
  BY <1>4 DEF First

\* A field is spoken for exactly if it has a member, by it if it is the only one.
LEMMA SpokenSome ==
    ASSUME NEW k, Known(k), Speaks(k), NEW t \in k.R, NEW i \in DOMAIN Shapes[k.n].fields[t],
           NEW ms \in Members, NEW order, Ranked(order)
    PROVE  Spoken(Shapes[k.n], t, i, ms, k.fl, order) = {} <=> NoneFor(Shapes[k.n], t, ms, i)
<1> DEFINE s == Shapes[k.n]
           name == s.fields[t][i].name
           js == OwnPlaces(s, t, ms, i)
           own == OwnKeys(s, t, ms, i)
<1>1. k.n \in DOMAIN Shapes /\ Unbroken(k.n, t)
  BY DEF Known, Speaks
<1>2. (js = {} <=> NoneFor(s, t, ms, i)) /\ (own = {} <=> NoneFor(s, t, ms, i)) /\ own \subseteq JsonKeys
  BY KeysIn DEF OwnPlaces, OwnKeys, NoneFor, Keys
<1>3. LastOwn(s, t, ms, i) = {} <=> NoneFor(s, t, ms, i)
  <2>1. CASE js = {}
    BY <1>2, <2>1 DEF LastOwn
  <2>2. CASE js # {}
    <3>1. js \in SUBSET (1..Len(ms)) /\ Len(ms) \in Nat
      BY DEF OwnPlaces, Members
    <3> HIDE DEF js
    <3>2. Max(js) \in js /\ \A x \in js : x <= Max(js)
      BY <2>2, <3>1, Greatest
    <3>3. LastOwn(s, t, ms, i) # {}
      BY <3>2 DEF LastOwn, js
    <3>4. QED
      BY <1>2, <2>2, <3>3
  <2>3. QED
    BY <2>1, <2>2
<1>4. Picked(s, t, i, ms, order) = {} <=> NoneFor(s, t, ms, i)
  <2>1. name \in Keys(ms) => name \in own
    BY <1>1, NameIsOwn DEF OwnKeys
  <2>2. Picked(s, t, i, ms, order)
          = IF name \in Keys(ms) THEN {At(ms, name)} ELSE {At(ms, key) : key \in First(own, order)}
    BY DEF Picked
  <2>3. own # {} => First(own, order) # {}
    BY <1>2, FirstSome
  <2>4. First(own, order) \subseteq own
    BY FirstIn
  <2> HIDE DEF own
  <2>5. QED
    BY <1>2, <2>1, <2>2, <2>3, <2>4
<1>5. QED
  BY <1>3, <1>4, SpokenByOwn

LEMMA SpokenOne ==
    ASSUME NEW k, Known(k), Speaks(k), NEW t \in k.R, NEW i \in DOMAIN Shapes[k.n].fields[t],
           NEW ms \in Members, NEW order, Ranked(order), NEW x, OneFor(Shapes[k.n], t, ms, i, x)
    PROVE  Spoken(Shapes[k.n], t, i, ms, k.fl, order) = {x}
<1> DEFINE s == Shapes[k.n]
           name == s.fields[t][i].name
           own == OwnKeys(s, t, ms, i)
<1>1. k.n \in DOMAIN Shapes /\ Unbroken(k.n, t)
  BY DEF Known, Speaks
<1>2. PICK j \in DOMAIN ms : /\ PlanField(s, t, ms[j][1]) = i /\ ms[j][2] = x
                             /\ \A l \in DOMAIN ms : PlanField(s, t, ms[l][1]) = i => l = j
  BY DEF OneFor
<1>3. LastOwn(s, t, ms, i) = {x}
  <2>1. OwnPlaces(s, t, ms, i) = {j} /\ j \in Nat
    BY <1>2 DEF OwnPlaces, Members
  <2>2. {l \in {j} : \A o \in {j} : o <= l} = {j}
    BY <2>1
  <2>3. QED
    BY <1>2, <2>1, <2>2 DEF LastOwn
<1>4. Picked(s, t, i, ms, order) = {x}
  <2>1. PICK key \in Keys(ms) : PlanField(s, t, key) = i
    BY <1>2 DEF Keys
  <2>2. At(ms, key) = x /\ {o \in Keys(ms) : PlanField(s, t, o) = i} = {key}
    BY <2>1, OneAt
  <2>3. own = {key}
    BY <2>2 DEF OwnKeys
  <2>4. name \in Keys(ms) => name \in own
    BY <1>1, NameIsOwn DEF OwnKeys
  <2>5. First(own, order) = {key}
    BY <2>3, FirstOfOne, KeysIn
  <2>6. Picked(s, t, i, ms, order)
          = IF name \in Keys(ms) THEN {At(ms, name)} ELSE {At(ms, o) : o \in First(own, order)}
    BY DEF Picked
  <2> HIDE DEF own
  <2>7. QED
    BY <2>2, <2>3, <2>4, <2>5, <2>6
<1>5. QED
  BY <1>3, <1>4, SpokenByOwn

-----------------------------------------------------------------------------
(* Presence shows the marks of the reading, by depth                       *)

ShownFields(s, t, x, meta) == [i \in DOMAIN x.of |-> Shown(s, s.fields[t][i].type, x.of[i], meta)]
ShownItems(s, u, x, meta) == [j \in DOMAIN x.of |-> Shown(s, u, x.of[j], meta)]

LEMMA ShowsDict ==
    ASSUME Readings, NEW s, NEW t, NEW x, IsValue(x), NEW meta, x.tag = "dict"
    PROVE  Shown(s, t, x, meta) = IF meta /\ t \in s.changed THEN Dict(ShownItems(s, s.item[t], x, meta))
                                  ELSE Unmarked(x)
<1>1. Shown(s, t, x, meta) = ShownOnce(s, t, x, meta)
  BY DEF Readings
<1>2. QED
  BY <1>1 DEF ShownOnce, ShownItems

LEMMA ShowsOther ==
    ASSUME Readings, NEW s, NEW t, NEW x, IsValue(x), NEW meta, x.tag \notin {"rec", "slice", "dict"}
    PROVE  Shown(s, t, x, meta) = x
<1>1. Shown(s, t, x, meta) = ShownOnce(s, t, x, meta)
  BY DEF Readings
<1>2. QED
  BY <1>1 DEF ShownOnce

LEMMA ShowsList ==
    ASSUME Readings, NEW s, NEW t, NEW x, IsValue(x), NEW meta, x.tag = "slice"
    PROVE  Shown(s, t, x, meta) = Slice(ShownItems(s, s.item[t], x, meta), x.len)
<1>1. Shown(s, t, x, meta) = ShownOnce(s, t, x, meta)
  BY DEF Readings
<1>2. QED
  BY <1>1 DEF ShownOnce, ShownItems

LEMMA ShowsRec ==
    ASSUME Readings, NEW s, NEW t, NEW x, IsValue(x), NEW meta, x.tag = "rec"
    PROVE  Shown(s, t, x, meta) = Rec(ShownFields(s, t, x, meta), x.marks)
<1>1. Shown(s, t, x, meta) = ShownOnce(s, t, x, meta)
  BY DEF Readings
<1>2. QED
  BY <1>1 DEF ShownOnce, ShownFields

\* What is decoded is what is read, but for the marks.
LEMMA ThroughMeant ==
    ASSUME JSON, Traversals, Readings, NEW k, Known(k), NEW t, Target(k, t), NEW v \in Docs
    PROVE  /\ Through(k, t, v, Nil) = Failure <=> Meant(k, t, v, Nil) = Failure
           /\ Through(k, t, v, Nil) # Failure =>
                /\ Typed(Shapes[k.n], t, Through(k, t, v, Nil)) /\ IsValue(Through(k, t, v, Nil))
                /\ Unmarked(Through(k, t, v, Nil)) = Unmarked(Meant(k, t, v, Nil))
<1>1. Alike(Shapes[k.n], t, Nil, Nil)
  BY TypedNil, AlikeSame
<1>2. Agree(Shapes[k.n], t, Through(k, t, v, Nil), Meant(k, t, v, Nil))
  BY <1>1, AllMatch DEF Matches
<1>3. QED
  BY <1>2, AgreeFails, TypedIsValue DEF Alike

\* Filtering and decoding a list or a map, item by item.
LEMMA ThroughList ==
    ASSUME JSON, Traversals, NEW k, Known(k), NEW t \in k.R, t # NoType, Shapes[k.n].kind[t] = "list",
           NEW v \in Docs, v # Null, Through(k, t, v, Nil) # Failure
    PROVE  LET u == Shapes[k.n].item[t]
               d == Through(k, t, v, Nil)
           IN  /\ v.tag = "list" /\ Sift(k, t, v).tag = "list"
               /\ d = Slice([j \in DOMAIN v.of |-> Through(k, u, v.of[j], Nil)], Len(v.of))
               /\ Sift(k, t, v).of = [j \in DOMAIN v.of |-> Sift(k, u, v.of[j])]
               /\ \A j \in DOMAIN v.of : Through(k, u, v.of[j], Nil) # Failure
<1> DEFINE s == Shapes[k.n]
           u == s.item[t]
           d == Through(k, t, v, Nil)
           w == Sift(k, t, v)
           g == [j \in DOMAIN w.of |-> Decode(s, u, w.of[j], Nil, k.aliases)]
           h == [j \in DOMAIN v.of |-> Through(k, u, v.of[j], Nil)]
           ws == [j \in DOMAIN v.of |-> Sift(k, u, v.of[j])]
<1>1. w \in Docs /\ w.tag = v.tag /\ (w = Null <=> v = Null)
  BY SiftShape DEF Target
<1>2. DecodeForm(s, t, w, Nil, k.aliases, d)
  BY <1>1, DecodesTo DEF Through
<1>3. v.tag = "list" /\ d = DecodeList(s, t, w, <<>>, k.aliases)
  <2> HIDE DEF d, w
  <2>1. QED
    BY <1>1, <1>2, NothingHeld DEF DecodeForm, d
<1>4. w.of = ws
  <2>1. SiftForm(k, t, v, w)
    BY SiftForms
  <2> HIDE DEF w
  <2>2. QED
    BY <1>3, <2>1, Tags DEF SiftForm
<1>5. d = Whole1(g, Refilled(g, <<>>))
  <2>1. DecodeList(s, t, w, <<>>, k.aliases) = Whole1(g, Refilled(g, <<>>))
    BY NothingHeld DEF DecodeList, Whole1
  <2>2. QED
    BY <1>3, <2>1
<1>6. g = h
  <2>1. DOMAIN w.of = DOMAIN v.of /\ \A j \in DOMAIN v.of : w.of[j] = Sift(k, u, v.of[j])
    <3> HIDE DEF w, u
    <3>1. QED
      BY <1>4
  <2> HIDE DEF w, u
  <2>2. QED
    BY <2>1 DEF Through
<1>7. Failure \notin Range(g) /\ d = Slice(g, Len(v.of))
  <2>1. IsFcn(g)
    BY DEF IsFcn
  <2>2. DOMAIN h = DOMAIN v.of
    OBVIOUS
  <2>3. Len(v.of) \in Nat /\ DOMAIN v.of = 1..Len(v.of)
    BY <1>3, DocCases, Tags
  <2> HIDE DEF g, h, d
  <2>4. Refilled(g, <<>>) = Slice(g, Len(g)) /\ Len(g) = Len(v.of)
    BY <1>6, <2>1, <2>2, <2>3, OverNothing, LengthOf
  <2>5. QED
    BY <1>5, <2>4 DEF Whole1, d
<1>8. \A j \in DOMAIN v.of : h[j] # Failure
  <2>1. \A j \in DOMAIN g : g[j] # Failure
    <3> HIDE DEF g
    <3>1. QED
      BY <1>7 DEF Range
  <2>2. DOMAIN h = DOMAIN v.of
    OBVIOUS
  <2> HIDE DEF g, h
  <2>3. QED
    BY <1>6, <2>1, <2>2
<1>9. d = Slice(h, Len(v.of))
  <2> HIDE DEF g, h, d
  <2>1. QED
    BY <1>6, <1>7
<1>10. QED
  BY <1>1, <1>3, <1>4, <1>8, <1>9

LEMMA ThroughDict ==
    ASSUME JSON, Traversals, NEW k, Known(k), NEW t \in k.R, t # NoType, Shapes[k.n].kind[t] = "map",
           NEW v \in Docs, v # Null, Through(k, t, v, Nil) # Failure
    PROVE  LET u == Shapes[k.n].item[t]
               d == Through(k, t, v, Nil)
               w == Sift(k, t, v)
           IN  /\ v.tag = "obj" /\ w.tag = "obj" /\ Keys(w.of) = Keys(v.of)
               /\ d = Dict([key \in Keys(v.of) |-> Through(k, u, At(v.of, key), Nil)])
               /\ \A key \in Keys(v.of) : At(w.of, key) = Sift(k, u, At(v.of, key))
               /\ \A key \in Keys(v.of) : Through(k, u, At(v.of, key), Nil) # Failure
<1> DEFINE s == Shapes[k.n]
           u == s.item[t]
           d == Through(k, t, v, Nil)
           w == Sift(k, t, v)
           items == [j \in DOMAIN w.of |-> Decode(s, u, w.of[j][2], Nil, k.aliases)]
           g == [key \in Keys(w.of) |-> Decode(s, u, At(w.of, key), Nil, k.aliases)]
           h == [key \in Keys(v.of) |-> Through(k, u, At(v.of, key), Nil)]
<1>1. w \in Docs /\ w.tag = v.tag /\ (w = Null <=> v = Null)
  BY SiftShape DEF Target
<1>2. DecodeForm(s, t, w, Nil, k.aliases, d)
  BY <1>1, DecodesTo DEF Through
<1>3. v.tag = "obj" /\ d = DecodeMap(s, t, w, <<>>, k.aliases)
  <2> HIDE DEF d, w
  <2>1. QED
    BY <1>1, <1>2, NothingHeld DEF DecodeForm, d
<1>4. Keys(w.of) = Keys(v.of) /\ \A key \in Keys(v.of) : At(w.of, key) = Sift(k, u, At(v.of, key))
  <2>1. SiftForm(k, t, v, w)
    BY SiftForms
  <2>2. w.of = SiftEach(k, u, v.of)
    <3> HIDE DEF w
    <3>1. QED
      BY <1>3, <2>1, Tags DEF SiftForm
  <2>3. v.of \in Members
    BY <1>3, DocCases, Tags DEF Members
  <2> HIDE DEF w, u
  <2>4. QED
    BY <2>2, <2>3, SiftEntries
<1>5. d = Whole1(items, Dict(g))
  <2>1. DecodeMap(s, t, w, <<>>, k.aliases) = Whole1(items, Dict(Over(g, <<>>)))
    BY DEF DecodeMap, Whole1
  <2>2. IsFcn(g)
    BY DEF IsFcn
  <2> HIDE DEF g, items
  <2>3. Over(g, <<>>) = g
    BY <2>2, OverNothing
  <2>4. QED
    BY <1>3, <2>1, <2>3
<1>6. g = h
  <2> HIDE DEF w, u
  <2>1. QED
    BY <1>4 DEF Through
<1>7. Failure \notin Range(items) /\ d = Dict(g)
  <2> HIDE DEF g, items, d
  <2>1. QED
    BY <1>5 DEF Whole1, d
<1>8. \A key \in Keys(v.of) : h[key] # Failure
  <2>1. \A key \in DOMAIN g : g[key] # Failure
    <3>1. \A j \in DOMAIN w.of : Decode(s, u, w.of[j][2], Nil, k.aliases) # Failure
      BY <1>7 DEF Range
    <3>2. w.of \in Members
      BY <1>1, <1>3, DocCases, Tags DEF Members
    <3>3. \A key \in Keys(w.of) : \E j \in DOMAIN w.of : At(w.of, key) = w.of[j][2]
      BY <3>2, AtMember
    <3> HIDE DEF w, u
    <3>4. QED
      BY <3>1, <3>3
  <2>2. DOMAIN h = Keys(v.of)
    OBVIOUS
  <2> HIDE DEF g, h
  <2>3. QED
    BY <1>6, <2>1, <2>2
<1>9. d = Dict(h)
  <2> HIDE DEF g, h, d
  <2>1. QED
    BY <1>6, <1>7
<1>10. QED
  BY <1>1, <1>3, <1>4, <1>8, <1>9

\* What a document shows: decoded, it has no marks, and marked it is its
\* reading with the marks that are to be seen.
MarkedThrough(k, t, v, order) ==
    Mark(Shapes[k.n], t, Through(k, t, v, Nil), Sift(k, t, v), k.fl, k.meta, order)
ShowsAs(k, t, v, order) ==
    /\ Unmarked(Through(k, t, v, Nil)) = Through(k, t, v, Nil)
    /\ MarkedThrough(k, t, v, order) = Shown(Shapes[k.n], t, Meant(k, t, v, Nil), k.meta)
Shows(k, v, order) == \A t :
    Target(k, t) /\ Unduplicated(Shapes[k.n], t, v) /\ Through(k, t, v, Nil) # Failure => ShowsAs(k, t, v, order)

LEMMA ThroughStruct ==
    ASSUME JSON, Traversals, Readings, NEW k, Known(k), NEW t \in k.R, Shapes[k.n].kind[t] = "struct",
           NEW v \in Docs, v # Null, Through(k, t, v, Nil) # Failure
    PROVE  /\ v.tag = "obj" /\ v.of \in Members /\ Sift(k, t, v) = Obj(SiftMembers(k, t, v.of))
           /\ SiftMembers(k, t, v.of) \in Members
           /\ Through(k, t, v, Nil)
                = DecodeMembers(Shapes[k.n], t, SiftMembers(k, t, v.of), Zero(Shapes[k.n], t), k.aliases)
<1> DEFINE s == Shapes[k.n]
           d == Through(k, t, v, Nil)
           w == Sift(k, t, v)
<1>1. w \in Docs /\ w.tag = v.tag /\ (w = Null <=> v = Null) /\ t # NoType
  BY SiftShape, FieldsAssumption DEF Target, Known
<1>2. DecodeForm(s, t, w, Nil, k.aliases, d)
  BY <1>1, DecodesTo DEF Through
<1>3. v.tag = "obj" /\ d = DecodeMembers(s, t, w.of, Zero(s, t), k.aliases)
  <2> HIDE DEF d, w
  <2>1. QED
    BY <1>1, <1>2, Tags DEF DecodeForm, d
<1>4. w = Obj(SiftMembers(k, t, v.of))
  <2>1. SiftForm(k, t, v, w)
    BY SiftForms
  <2> HIDE DEF w
  <2>2. QED
    BY <1>3, <2>1, Tags DEF SiftForm
<1>5. v.of \in Members
  BY <1>3, DocCases, Tags DEF Members
<1>6. SiftMembers(k, t, v.of) \in Members
  BY <1>5, FilterIn DEF SiftMembers
<1>7. w.of = SiftMembers(k, t, v.of)
  <2> HIDE DEF w
  <2>1. QED
    BY <1>4, Tags
<1>8. QED
  <2> HIDE DEF d, w
  <2>1. QED
    BY <1>3, <1>4, <1>5, <1>6, <1>7 DEF d, w

\* The struct of a body that repeats no field.
LEMMA ThroughFields ==
    ASSUME JSON, Traversals, Readings, NEW k, Known(k), NEW t \in k.R, Shapes[k.n].kind[t] = "struct",
           NEW v \in Docs, v # Null, Through(k, t, v, Nil) # Failure, Unduplicated(Shapes[k.n], t, v)
    PROVE  /\ Distinct(Shapes[k.n], t, v.of)
           /\ StructDecoded(Shapes[k.n], t, SiftMembers(k, t, v.of), k.aliases, Zero(Shapes[k.n], t),
                            Through(k, t, v, Nil))
<1> DEFINE s == Shapes[k.n]
           d == Through(k, t, v, Nil)
           fs == SiftMembers(k, t, v.of)
<1>1. k.n \in DOMAIN Shapes /\ t \in Types /\ t # NoType /\ 0 \notin DOMAIN s.fields[t]
  BY FieldsAssumption, FieldOfIn DEF Known
<1>2. v.tag = "obj" /\ v.of \in Members /\ fs \in Members /\ d = DecodeMembers(s, t, fs, Zero(s, t), k.aliases)
  BY ThroughStruct
<1>3. Distinct(s, t, v.of)
  BY <1>1, <1>2, UnduplicatedMembers
<1>4. Distinct(s, t, fs)
  <2>1. \A i \in DOMAIN s.fields[t] : FieldSifted(k, t, v.of, fs, i)
    BY <1>2, SiftDistinct
  <2> HIDE DEF fs
  <2>2. QED
    BY <1>3, <2>1 DEF Distinct, FieldSifted
<1>5. Decoding(s, t, Zero(s, t))
  BY DEF Decoding, Zero, IsFcn
<1>6. StructDecoded(s, t, fs, k.aliases, Zero(s, t), d)
  <2> HIDE DEF fs, d
  <2>1. DecodeMembers(s, t, fs, Zero(s, t), k.aliases) = Failure
        \/ StructDecoded(s, t, fs, k.aliases, Zero(s, t), DecodeMembers(s, t, fs, Zero(s, t), k.aliases))
    BY <1>2, <1>4, <1>5, DecodeDistinct
  <2>2. QED
    BY <1>2, <2>1 DEF d
<1>7. QED
  BY <1>3, <1>6

FieldShows(k, t, of, fs, order, i, e) ==
    /\ MarkedPart(Shapes[k.n], t, of, fs, k.fl, k.meta, order, i)
         = Shown(Shapes[k.n], Shapes[k.n].fields[t][i].type, e.of[i], k.meta)
    /\ i \in Marks(Shapes[k.n], t, of, fs, k.fl, k.meta, order) <=> i \in e.marks
    /\ Unmarked(of[i]) = of[i]

LEMMA ShownNil == ASSUME JSON, Readings, NEW s, NEW t, NEW meta PROVE Shown(s, t, Nil, meta) = Nil /\ Unmarked(Nil) = Nil
<1>1. IsValue(Nil) /\ Nil.tag \notin {"rec", "slice", "dict"}
  BY Tags DEF IsValue
<1>2. Shown(s, t, Nil, meta) = Nil
  BY <1>1, ShowsOther
<1>3. Unmarked(Nil) = Nil
  BY UnmarkedForms
<1>4. QED
  BY <1>2, <1>3

LEMMA RuledShows ==
    ASSUME JSON, Readings, NEW s, NEW t, NEW f, NEW standard, NEW v \in Docs, NEW x \in Docs, depth[x] < depth[v],
           Unduplicated(s, t, x)
    PROVE  LET r == Ruled(f, x, standard) IN r \in Docs /\ depth[r] < depth[v] /\ Unduplicated(s, t, r)
<1>1. Ruled(f, x, standard) \in {x, Num} /\ Num \in Docs
  BY RuledIn DEF JSON
<1>2. depth[Num] = 0 /\ depth[x] \in Nat /\ depth[v] \in Nat
  BY <1>1, DocCases, Tags
<1>3. Unduplicated(s, t, Num)
  <2>1. Unduplicated(s, t, Num) = UnduplicatedOnce(s, t, Num)
    BY <1>1 DEF Readings
  <2>2. QED
    BY <2>1, Tags DEF UnduplicatedOnce
<1>4. depth[Num] < depth[v]
  BY <1>2
<1>5. QED
  BY <1>1, <1>3, <1>4

LEMMA EachFieldShows ==
    ASSUME JSON, Traversals, Readings, NEW k, Known(k), Speaks(k), NEW t \in k.R, Shapes[k.n].kind[t] = "struct",
           NEW order, Ranked(order),
           NEW v \in Docs, v # Null, Through(k, t, v, Nil) # Failure, Unduplicated(Shapes[k.n], t, v),
           \A u \in Docs : depth[u] < depth[v] => Shows(k, u, order),
           NEW i \in DOMAIN Shapes[k.n].fields[t]
    PROVE  FieldShows(k, t, Through(k, t, v, Nil).of, SiftMembers(k, t, v.of), order, i, Meant(k, t, v, Nil))
<1> DEFINE s == Shapes[k.n]
           f == s.fields[t][i]
           d == Through(k, t, v, Nil)
           e == Meant(k, t, v, Nil)
           ms == v.of
           fs == SiftMembers(k, t, ms)
           base == Rec(Zero(s, t), {})
<1>1. k.n \in DOMAIN Shapes /\ t \in Types /\ t # NoType /\ 0 \notin DOMAIN s.fields[t] /\ Target(k, t)
  BY FieldsAssumption, FieldOfIn DEF Known, Target
<1>2. /\ v.tag = "obj" /\ ms \in Members /\ fs \in Members /\ Distinct(s, t, ms)
      /\ \A x : OneFor(s, t, ms, i, x) => x \in Docs /\ depth[x] < depth[v] /\ Unduplicated(s, f.type, x)
  BY <1>1, ThroughStruct, UnduplicatedMembers
<1>3. FieldDecoded(s, t, fs, k.aliases, i, Nil, d.of[i]) /\ i \in DOMAIN d.of
  <2>1. StructDecoded(s, t, fs, k.aliases, Zero(s, t), d)
    BY ThroughFields
  <2>2. Zero(s, t)[i] = Nil
    BY DEF Zero
  <2> HIDE DEF d, fs
  <2>3. QED
    BY <2>1, <2>2 DEF StructDecoded, Decoding
<1>4. e # Failure
  BY <1>1, ThroughMeant
<1>5. FieldRead(s, t, ms, k.meta, k.standard, i, Nil, e.of[i])
      /\ e.marks = MarksOf(s, t, ms, k.meta, k.standard)
  <2>1. StructRead(s, t, ms, base, k.meta, k.standard, e) /\ e.marks = MarksOf(s, t, ms, k.meta, k.standard)
    BY <1>4, MeantStruct
  <2>2. base.of[i] = Nil
    BY Tags DEF Zero
  <2> HIDE DEF e, base
  <2>3. FieldRead(s, t, ms, k.meta, k.standard, i, base.of[i], e.of[i])
    BY <2>1 DEF StructRead
  <2>4. QED
    BY <2>1, <2>2, <2>3
<1>6. FieldSifted(k, t, ms, fs, i)
  BY <1>2, SiftDistinct
<1> HIDE DEF d, e, fs
<1>7. ASSUME NoneFor(s, t, fs, i), e.of[i] = Nil, i \notin e.marks
      PROVE  FieldShows(k, t, d.of, fs, order, i, e)
  <2>1. d.of[i] = Nil
    BY <1>3, <1>7 DEF FieldDecoded
  <2>2. Spoken(s, t, i, fs, k.fl, order) = {}
    BY <1>2, <1>7, SpokenSome
  <2>3. i \notin Marks(s, t, d.of, fs, k.fl, k.meta, order)
    BY <2>2 DEF Marks, Seen
  <2>4. QED
    BY <1>7, <2>1, <2>3, ShownNil DEF FieldShows, MarkedPart
<1>8. CASE NoneFor(s, t, ms, i)
  <2>1. NoneFor(s, t, fs, i) /\ e.of[i] = Nil /\ i \notin e.marks
    BY <1>1, <1>5, <1>6, <1>8, MarkOfOne DEF FieldSifted, FieldRead
  <2>2. QED
    BY <1>7, <2>1 DEF d, e, fs
<1>9. ASSUME NEW x, OneFor(s, t, ms, i, x)
      PROVE  FieldShows(k, t, d.of, fs, order, i, e)
  <2>1. CASE Dropped(s, t, f, x, k.meta, k.standard)
    <3>1. NoneFor(s, t, fs, i) /\ e.of[i] = Nil /\ i \notin e.marks
      BY <1>1, <1>5, <1>6, <1>9, <2>1, MarkOfOne DEF FieldSifted, FieldRead
    <3>2. QED
      BY <1>7, <3>1
  <2>2. CASE ~Dropped(s, t, f, x, k.meta, k.standard)
    <3> DEFINE r == Ruled(f, x, k.standard)
               y == Sift(k, f.type, r)
    <3>1. r \in Docs /\ depth[r] < depth[v] /\ Unduplicated(s, f.type, r)
      BY <1>2, <1>9, RuledShows
    <3> HIDE DEF r
    <3>2. ~Denied(s, t, f, k.meta) /\ Target(k, f.type)
      BY <2>2 DEF Dropped, Known
    <3>3. OneFor(s, t, fs, i, y)
      BY <1>6, <1>9, <2>2 DEF FieldSifted, r
    <3>4. d.of[i] = Through(k, f.type, r, Nil) /\ d.of[i] # Failure
      <4> HIDE DEF y
      <4>1. d.of[i] = Decode(s, f.type, y, Nil, k.aliases) /\ d.of[i] # Failure
        BY <1>3, <3>3 DEF FieldDecoded
      <4>2. QED
        BY <4>1 DEF Through, y
    <3>5. e.of[i] = Meant(k, f.type, r, Nil) /\ i \in e.marks
      BY <1>1, <1>5, <1>9, <2>2, MarkOfOne DEF FieldRead, Meant, r
    <3>6. ShowsAs(k, f.type, r, order)
      <4>1. Shows(k, r, order)
        BY <3>1
      <4>2. QED
        BY <3>1, <3>2, <3>4, <4>1 DEF Shows
    <3>7. Seen(s, t, i, fs, k.fl, k.meta, order) = {y}
      <4>0. ASSUME NEW z, OneFor(s, t, fs, i, z) PROVE Spoken(s, t, i, fs, k.fl, order) = {z}
        <5>1. fs \in Members
          BY <1>2
        <5>2. QED
          BY <4>0, <5>1, SpokenOne, ZenonT(20)
      <4> HIDE DEF y
      <4>1. Spoken(s, t, i, fs, k.fl, order) = {y}
        BY <3>3, <4>0
      <4>2. QED
        BY <3>2, <4>1 DEF Seen
    <3>8. i \in Marks(s, t, d.of, fs, k.fl, k.meta, order)
      BY <1>3, <3>7 DEF Marks
    <3>9. MarkedPart(s, t, d.of, fs, k.fl, k.meta, order, i) = Mark(s, f.type, d.of[i], y, k.fl, k.meta, order)
      <4> HIDE DEF y
      <4>1. (CHOOSE raw \in Seen(s, t, i, fs, k.fl, k.meta, order) : TRUE) = y
        BY <3>7
      <4>2. QED
        BY <3>8, <4>1 DEF MarkedPart
    <3>10. MarkedPart(s, t, d.of, fs, k.fl, k.meta, order, i) = MarkedThrough(k, f.type, r, order)
      BY <3>4, <3>9 DEF MarkedThrough
    <3>11. MarkedPart(s, t, d.of, fs, k.fl, k.meta, order, i) = Shown(s, f.type, e.of[i], k.meta)
      BY <3>5, <3>6, <3>10 DEF ShowsAs
    <3>12. Unmarked(d.of[i]) = d.of[i]
      BY <3>4, <3>6 DEF ShowsAs
    <3>13. QED
      BY <3>5, <3>8, <3>11, <3>12 DEF FieldShows
  <2>3. QED
    BY <2>1, <2>2
<1>10. QED
  BY <1>2, <1>8, <1>9 DEF Distinct, d, e, fs

LEMMA ListShows ==
    ASSUME JSON, Traversals, Readings, NEW k, Known(k), NEW t \in k.R, Shapes[k.n].kind[t] = "list",
           NEW order, NEW v \in Docs, v # Null, Through(k, t, v, Nil) # Failure, Unduplicated(Shapes[k.n], t, v),
           \A u \in Docs : depth[u] < depth[v] => Shows(k, u, order)
    PROVE  ShowsAs(k, t, v, order)
<1> DEFINE s == Shapes[k.n]
           u == s.item[t]
           d == Through(k, t, v, Nil)
           e == Meant(k, t, v, Nil)
           w == Sift(k, t, v)
           x == Mark(s, t, d, w, k.fl, k.meta, order)
           g == [j \in DOMAIN v.of |-> Through(k, u, v.of[j], Nil)]
           h == [j \in DOMAIN v.of |-> Meant(k, u, v.of[j], Nil)]
           ws == [j \in DOMAIN v.of |-> Sift(k, u, v.of[j])]
<1>1. t # NoType /\ Target(k, t) /\ Target(k, u)
  BY FieldsAssumption DEF Known, Target
<1>2. /\ v.tag = "list" /\ w.tag = "list" /\ d = Slice(g, Len(v.of)) /\ w.of = ws
      /\ \A j \in DOMAIN v.of : Through(k, u, v.of[j], Nil) # Failure
  BY <1>1, ThroughList
<1>3. e # Failure /\ Typed(s, t, d)
  BY <1>1, ThroughMeant
<1>4. e.tag = "slice" /\ e.of = h /\ e.len = Len(v.of)
  BY <1>1, <1>3, MeantList
<1>5. \A j \in DOMAIN v.of : ShowsAs(k, u, v.of[j], order)
  <2>1. \A j \in DOMAIN v.of : v.of[j] \in Docs /\ depth[v.of[j]] < depth[v] /\ Unduplicated(s, u, v.of[j])
    BY <1>1, <1>2, UnduplicatedItems
  <2> HIDE DEF u
  <2>2. QED
    BY <1>1, <1>2, <2>1 DEF Shows
<1>6. Unmarked(d) = d
  <2>1. \A j \in DOMAIN g : Unmarked(g[j]) = g[j]
    BY <1>5 DEF ShowsAs
  <2>2. IsFcn(g)
    BY DEF IsFcn
  <2> HIDE DEF g, d
  <2>3. [j \in DOMAIN g |-> Unmarked(g[j])] = g
    BY <2>1, <2>2 DEF IsFcn
  <2>4. QED
    BY <1>2, <2>2, <2>3, UnmarkedForms
<1>7. x = Slice([j \in DOMAIN d.of |-> MarkedItem(s, t, d, w, k.fl, k.meta, order, j)], d.len)
  <2>1. w \in Docs
    BY <1>1, SiftShape
  <2>2. MarkForm(s, t, d, w, k.fl, k.meta, order, x)
    BY <1>3, <2>1, MarksTo
  <2>3. d # Nil
    <3> HIDE DEF d, g
    <3>1. QED
      BY <1>2, Tags
  <2> HIDE DEF d, w, x
  <2>4. QED
    BY <1>1, <1>2, <2>2, <2>3 DEF MarkForm
<1>8. d.of = g /\ d.len = Len(v.of) /\ \A j \in DOMAIN v.of : j <= d.len
  <2>1. v.of \in Seq(Docs)
    BY <1>2, DocCases, Tags
  <2> HIDE DEF d, g
  <2>2. d.of = g /\ d.len = Len(v.of)
    BY <1>2, Tags
  <2>3. QED
    BY <2>1, <2>2
<1>9. \A j \in DOMAIN v.of : MarkedItem(s, t, d, w, k.fl, k.meta, order, j) = Shown(s, u, h[j], k.meta)
  <2> TAKE j \in DOMAIN v.of
  <2>1. d.of[j] = Through(k, u, v.of[j], Nil) /\ j <= d.len
    BY <1>8
  <2>2. j \in DOMAIN w.of /\ w.of[j] = Sift(k, u, v.of[j])
    <3> HIDE DEF w, u
    <3>1. QED
      BY <1>2
  <2> HIDE DEF d, w
  <2>3. MarkedItem(s, t, d, w, k.fl, k.meta, order, j) = MarkedThrough(k, u, v.of[j], order)
    BY <2>1, <2>2 DEF MarkedItem, MarkedThrough
  <2>4. QED
    BY <1>5, <2>3 DEF ShowsAs
<1>10. x = Slice([j \in DOMAIN v.of |-> Shown(s, u, h[j], k.meta)], Len(v.of))
  <2>1. DOMAIN d.of = DOMAIN v.of
    <3> HIDE DEF d
    <3>1. QED
      BY <1>8
  <2> HIDE DEF d, w, x, h, u
  <2>2. QED
    BY <1>7, <1>8, <1>9, <2>1
<1>11. Shown(s, t, e, k.meta) = Slice([j \in DOMAIN v.of |-> Shown(s, u, h[j], k.meta)], Len(v.of))
  <2>1. IsValue(e)
    BY <1>1, <1>3, MeantTyped
  <2>2. DOMAIN e.of = DOMAIN v.of
    <3> HIDE DEF e
    <3>1. QED
      BY <1>4
  <2>3. Shown(s, t, e, k.meta) = Slice(ShownItems(s, u, e, k.meta), e.len)
    <3>1. e.tag = "slice" /\ t # NoType
      BY <1>1, <1>4
    <3> HIDE DEF e, s, u, g, h, ws, x, d, w
    <3>3. Shown(s, t, e, k.meta) = Slice(ShownItems(s, s.item[t], e, k.meta), e.len)
      BY <2>1, <3>1, ShowsList
    <3>4. QED
      BY <3>3 DEF u
  <2> HIDE DEF e, h, u
  <2>4. QED
    BY <1>4, <2>2, <2>3 DEF ShownItems
<1>12. QED
  <2> HIDE DEF x, h, u
  <2>1. x = Shown(s, t, e, k.meta)
    BY <1>10, <1>11
  <2>2. QED
    BY <1>6, <2>1 DEF ShowsAs, MarkedThrough, x

LEMMA DictShows ==
    ASSUME JSON, Traversals, Readings, NEW k, Known(k), NEW t \in k.R, Shapes[k.n].kind[t] = "map",
           NEW order, NEW v \in Docs, v # Null, Through(k, t, v, Nil) # Failure, Unduplicated(Shapes[k.n], t, v),
           \A u \in Docs : depth[u] < depth[v] => Shows(k, u, order)
    PROVE  ShowsAs(k, t, v, order)
<1> DEFINE s == Shapes[k.n]
           u == s.item[t]
           K == Keys(v.of)
           d == Through(k, t, v, Nil)
           e == Meant(k, t, v, Nil)
           w == Sift(k, t, v)
           x == Mark(s, t, d, w, k.fl, k.meta, order)
           g == [key \in K |-> Through(k, u, At(v.of, key), Nil)]
           h == [key \in K |-> Meant(k, u, At(v.of, key), Nil)]
           kept == k.meta /\ t \in s.changed
<1>1. t # NoType /\ Target(k, t) /\ Target(k, u)
  BY FieldsAssumption DEF Known, Target
<1>2. /\ v.tag = "obj" /\ w.tag = "obj" /\ Keys(w.of) = K /\ d = Dict(g)
      /\ \A key \in K : At(w.of, key) = Sift(k, u, At(v.of, key))
      /\ \A key \in K : Through(k, u, At(v.of, key), Nil) # Failure
  BY <1>1, ThroughDict
<1>3. e # Failure /\ Typed(s, t, d) /\ Unmarked(d) = Unmarked(e)
  BY <1>1, ThroughMeant
<1>4. e.tag = "dict" /\ e.of = h
  BY <1>1, <1>3, MeantDict
<1>5. \A key \in K : ShowsAs(k, u, At(v.of, key), order)
  <2>1. \A key \in K : /\ At(v.of, key) \in Docs /\ depth[At(v.of, key)] < depth[v]
                       /\ Unduplicated(s, u, At(v.of, key))
    BY <1>1, <1>2, UnduplicatedItems
  <2> HIDE DEF u
  <2>2. QED
    BY <1>1, <1>2, <2>1 DEF Shows
<1>6. Unmarked(d) = d
  <2>1. \A key \in DOMAIN g : Unmarked(g[key]) = g[key]
    BY <1>5 DEF ShowsAs
  <2>2. IsFcn(g)
    BY DEF IsFcn
  <2> HIDE DEF g, d
  <2>3. [key \in DOMAIN g |-> Unmarked(g[key])] = g
    BY <2>1, <2>2 DEF IsFcn
  <2>4. QED
    BY <1>2, <2>2, <2>3, UnmarkedForms
<1>7. x = IF kept THEN Dict([key \in DOMAIN d.of |-> MarkedEntry(s, t, d, w, k.fl, k.meta, order, key)]) ELSE d
  <2>1. w \in Docs
    BY <1>1, SiftShape
  <2>2. MarkForm(s, t, d, w, k.fl, k.meta, order, x)
    BY <1>3, <2>1, MarksTo
  <2>3. d # Nil
    <3> HIDE DEF d, g
    <3>1. QED
      BY <1>2, Tags
  <2> HIDE DEF d, w, x
  <2>4. QED
    BY <1>1, <1>2, <2>2, <2>3 DEF MarkForm
<1>8. d.of = g
  <2> HIDE DEF d, g
  <2>1. QED
    BY <1>2, Tags
<1>9. \A key \in K : MarkedEntry(s, t, d, w, k.fl, k.meta, order, key) = Shown(s, u, h[key], k.meta)
  <2> TAKE key \in K
  <2>1. d.of[key] = Through(k, u, At(v.of, key), Nil)
    BY <1>8
  <2>2. key \in Keys(w.of) /\ At(w.of, key) = Sift(k, u, At(v.of, key))
    BY <1>2
  <2> HIDE DEF d, w
  <2>3. MarkedEntry(s, t, d, w, k.fl, k.meta, order, key) = MarkedThrough(k, u, At(v.of, key), order)
    BY <2>1, <2>2 DEF MarkedEntry, MarkedThrough
  <2>4. QED
    BY <1>5, <2>3 DEF ShowsAs
<1>10. x = IF kept THEN Dict([key \in K |-> Shown(s, u, h[key], k.meta)]) ELSE d
  <2>1. DOMAIN d.of = K
    <3> HIDE DEF d
    <3>1. QED
      BY <1>8
  <2> HIDE DEF d, w, x, h, u, K
  <2>2. QED
    BY <1>7, <1>9, <2>1
<1>11. Shown(s, t, e, k.meta) = IF kept THEN Dict([key \in K |-> Shown(s, u, h[key], k.meta)]) ELSE Unmarked(e)
  <2>1. IsValue(e)
    BY <1>1, <1>3, MeantTyped
  <2>2. DOMAIN e.of = K
    <3> HIDE DEF e
    <3>1. QED
      BY <1>4
  <2>3. Shown(s, t, e, k.meta) = IF kept THEN Dict(ShownItems(s, u, e, k.meta)) ELSE Unmarked(e)
    <3>1. e.tag = "dict"
      BY <1>4
    <3> HIDE DEF e
    <3>2. QED
      BY <2>1, <3>1, ShowsDict
  <2> HIDE DEF e, h, u, K
  <2>4. QED
    BY <1>4, <2>2, <2>3 DEF ShownItems
<1>12. QED
  <2> HIDE DEF x, h, u, d, e, kept
  <2>1. x = Shown(s, t, e, k.meta)
    BY <1>3, <1>6, <1>10, <1>11
  <2>2. QED
    BY <1>6, <2>1 DEF ShowsAs, MarkedThrough, x, d, e

LEMMA StructShows ==
    ASSUME JSON, Traversals, Readings, NEW k, Known(k), Speaks(k), NEW t \in k.R, Shapes[k.n].kind[t] = "struct",
           NEW order, Ranked(order),
           NEW v \in Docs, v # Null, Through(k, t, v, Nil) # Failure, Unduplicated(Shapes[k.n], t, v),
           \A u \in Docs : depth[u] < depth[v] => Shows(k, u, order)
    PROVE  ShowsAs(k, t, v, order)
<1> DEFINE s == Shapes[k.n]
           F == DOMAIN s.fields[t]
           d == Through(k, t, v, Nil)
           e == Meant(k, t, v, Nil)
           w == Sift(k, t, v)
           fs == SiftMembers(k, t, v.of)
           x == Mark(s, t, d, w, k.fl, k.meta, order)
           parts == MarkedParts(s, t, d.of, fs, k.fl, k.meta, order)
           marks == Marks(s, t, d.of, fs, k.fl, k.meta, order)
<1>1. t # NoType /\ Target(k, t)
  BY FieldsAssumption DEF Known, Target
<1>2. w = Obj(fs) /\ w \in Docs
  BY <1>1, ThroughStruct, SiftShape
<1>3. e # Failure /\ Typed(s, t, d)
  BY <1>1, ThroughMeant
<1>4. d = Rec(d.of, {}) /\ IsFcn(d.of) /\ DOMAIN d.of = F
  <2>1. StructDecoded(s, t, fs, k.aliases, Zero(s, t), d)
    BY ThroughFields
  <2> HIDE DEF d, fs
  <2>2. QED
    BY <2>1 DEF StructDecoded, Decoding
<1>5. e.tag = "rec" /\ e = Rec(e.of, e.marks) /\ DOMAIN e.of = F /\ e.marks \subseteq F
  <2>1. /\ e.tag = "rec" /\ StructRead(s, t, v.of, Rec(Zero(s, t), {}), k.meta, k.standard, e)
        /\ e.marks = MarksOf(s, t, v.of, k.meta, k.standard)
    BY <1>3, MeantStruct
  <2>2. MarksOf(s, t, v.of, k.meta, k.standard) \subseteq F
    BY SameField DEF MarksOf, Skipped
  <2> HIDE DEF e
  <2>3. QED
    BY <2>1, <2>2 DEF StructRead, Struct
<1>6. \A i \in F : FieldShows(k, t, d.of, fs, order, i, e)
  BY EachFieldShows
<1> HIDE DEF d, e, w, fs
<1>7. Unmarked(d) = d
  <2> DEFINE of == d.of
  <2>1. \A i \in DOMAIN of : Unmarked(of[i]) = of[i]
    BY <1>4, <1>6 DEF FieldShows
  <2>2. d = Rec(of, {}) /\ IsFcn(of)
    BY <1>4
  <2> HIDE DEF of
  <2>3. [i \in DOMAIN of |-> Unmarked(of[i])] = of
    BY <2>1, <2>2 DEF IsFcn
  <2>4. QED
    BY <2>2, <2>3, UnmarkedForms
<1>8. x = Rec(parts, marks)
  <2>1. MarkForm(s, t, d, w, k.fl, k.meta, order, x)
    BY <1>2, <1>3, MarksTo
  <2>2. d # Nil /\ w.tag = "obj" /\ w.of = fs
    BY <1>2, <1>4, Tags
  <2>3. x = MarkedRec(s, t, d.of, fs, k.fl, k.meta, order)
    <3> HIDE DEF x
    <3>1. QED
      BY <1>1, <2>1, <2>2 DEF MarkForm
  <2>4. QED
    BY <2>3 DEF MarkedRec
<1>9. marks = e.marks
  <2>1. marks \subseteq F
    BY <1>4 DEF Marks
  <2> HIDE DEF marks
  <2>2. \A i \in F : i \in marks <=> i \in e.marks
    BY <1>6 DEF FieldShows, marks
  <2>3. QED
    BY <1>5, <2>1, <2>2
<1>10. parts = ShownFields(s, t, e, k.meta)
  <2>1. \A i \in F : MarkedPart(s, t, d.of, fs, k.fl, k.meta, order, i) = Shown(s, s.fields[t][i].type, e.of[i], k.meta)
    BY <1>6 DEF FieldShows
  <2>2. QED
    BY <1>4, <1>5, <2>1 DEF MarkedParts, ShownFields
<1>11. IsValue(e)
  BY <1>1, <1>3, MeantTyped DEF e
<1>12. x = Shown(s, t, e, k.meta)
  <2>1. Shown(s, t, e, k.meta) = Rec(ShownFields(s, t, e, k.meta), e.marks)
    BY <1>5, <1>11, ShowsRec
  <2> HIDE DEF x, parts, marks
  <2>2. QED
    BY <1>8, <1>9, <1>10, <2>1
<1>13. QED
  <2> HIDE DEF x
  <2>1. QED
    BY <1>7, <1>12 DEF ShowsAs, MarkedThrough, x, d, e, w

LEMMA ValueShows ==
    ASSUME JSON, Traversals, Readings, NEW k, Known(k), Speaks(k), NEW order, Ranked(order), NEW v \in Docs,
           \A u \in Docs : depth[u] < depth[v] => Shows(k, u, order)
    PROVE  Shows(k, v, order)
<1> DEFINE s == Shapes[k.n]
<1> SUFFICES ASSUME NEW t, Target(k, t), Unduplicated(s, t, v), Through(k, t, v, Nil) # Failure
             PROVE  ShowsAs(k, t, v, order)
  BY DEF Shows
<1> DEFINE d == Through(k, t, v, Nil)
           e == Meant(k, t, v, Nil)
           w == Sift(k, t, v)
           x == Mark(s, t, d, w, k.fl, k.meta, order)
<1>1. w \in Docs /\ w.tag = v.tag /\ (w = Null <=> v = Null) /\ (w = Num <=> v = Num)
  BY SiftShape
<1>2. e # Failure /\ Typed(s, t, d)
  BY ThroughMeant
<1>3. DecodeForm(s, t, w, Nil, k.aliases, d)
  BY <1>1, DecodesTo DEF Through
<1>4. ReadForm(s, t, v, Nil, k.meta, k.standard, e)
  BY ReadsTo DEF Meant
<1>5. MarkForm(s, t, d, w, k.fl, k.meta, order, x)
  BY <1>1, <1>2, MarksTo
<1>6. ASSUME d = e, x = d, e \in Docs \cup {Nil}
      PROVE  ShowsAs(k, t, v, order)
  <2>1. Unmarked(e) = e
    BY <1>6, UnmarkedForms
  <2>2. IsValue(e)
    BY <1>6 DEF IsValue
  <2>3. e.tag \notin {"rec", "slice", "dict"}
    BY <1>6, DocCases, Tags
  <2>4. Shown(s, t, e, k.meta) = e
    <3> HIDE DEF e
    <3>1. QED
      BY <2>2, <2>3, ShowsOther
  <2> HIDE DEF d, e, x
  <2>5. QED
    BY <1>6, <2>1, <2>4 DEF ShowsAs, MarkedThrough, d, e, x
<1>7. CASE t = NoType
  <2>1. w = v
    BY <1>7, SiftIdle DEF Idle, Live, Relevant
  <2>2. d = v /\ e = v /\ x = d
    <3> HIDE DEF d, e, w, x
    <3>1. QED
      BY <1>3, <1>4, <1>5, <1>7, <2>1 DEF DecodeForm, ReadForm, MarkForm
  <2> HIDE DEF d, e, x
  <2>3. QED
    BY <1>6, <2>2
<1>8. CASE t # NoType /\ (v = Null \/ s.kind[t] \notin {"list", "map", "struct"})
  <2>1. d = e /\ e \in {Nil, Num}
    <3> HIDE DEF d, e, w, x
    <3>1. QED
      BY <1>1, <1>2, <1>3, <1>4, <1>8 DEF DecodeForm, ReadForm, d
  <2>2. x = d
    <3>1. d = Nil \/ s.kind[t] \notin {"list", "map", "struct"}
      <4> HIDE DEF d, e, w, x
      <4>1. QED
        BY <1>1, <1>3, <1>8 DEF DecodeForm
    <3> HIDE DEF d, e, w, x
    <3>2. QED
      BY <1>5, <3>1 DEF MarkForm
  <2>3. Num \in Docs
    BY DEF JSON
  <2> HIDE DEF d, e, x
  <2>4. QED
    BY <1>6, <2>1, <2>2, <2>3
<1>9. CASE t # NoType /\ v # Null /\ s.kind[t] \in {"list", "map", "struct"}
  <2>1. t \in k.R
    BY <1>9 DEF Target
  <2>2. QED
    BY <1>9, <2>1, ListShows, DictShows, StructShows
<1>10. QED
  BY <1>7, <1>8, <1>9

LEMMA AllShow ==
    ASSUME JSON, Traversals, Readings, NEW k, Known(k), Speaks(k), NEW order, Ranked(order)
    PROVE  \A v \in Docs : Shows(k, v, order)
<1> DEFINE Q(n) == \A v \in Docs : depth[v] < n => Shows(k, v, order)
           S == {n \in Nat : Q(n)}
<1>1. Q(0)
  BY DocCases
<1>2. ASSUME NEW n \in Nat, Q(n) PROVE Q(n + 1)
  <2> SUFFICES ASSUME NEW v \in Docs, depth[v] < n + 1 PROVE Shows(k, v, order)
    OBVIOUS
  <2>1. \A u \in Docs : depth[u] \in Nat
    BY DocCases
  <2>2. \A u \in Docs : depth[u] < depth[v] => Shows(k, u, order)
    BY <1>2, <2>1
  <2>3. QED
    BY <2>2, ValueShows
<1>3. S = Nat
  <2>1. S \in SUBSET Nat /\ 0 \in S /\ \A n \in S : n + 1 \in S
    BY <1>1, <1>2
  <2> HIDE DEF S
  <2>2. QED
    BY <2>1, Ind
<1>4. \A v \in Docs : depth[v] \in Nat /\ depth[v] < depth[v] + 1 /\ depth[v] + 1 \in Nat
  BY DocCases
<1>5. QED
  BY <1>3, <1>4

-----------------------------------------------------------------------------
(* Presence at the top; the answers to requests                            *)

\* An exact plan sends presence down a route that finds a field's own members.
LEMMA ExactSpeaks ==
    ASSUME NEW n \in DOMAIN Shapes, NEW r \in Types, NEW meta \in BOOLEAN, NEW p,
           ExactPlan(p, n, r, meta), ~p.err, ~PlainTwins(n, r, meta), NEW standard, NEW aliases
    PROVE  Speaks(Context(n, r, p, meta, standard, aliases))
<1> DEFINE k == Context(n, r, p, meta, standard, aliases)
           s == Shapes[n]
<1>1. k.n = n /\ k.R = Memo(n, r, meta) /\ k.fl = p.flags
  BY DEF Context
<1>2. ~Fails(n, r, meta) /\ \A t \in Memo(n, r, meta) : p.flags[t] = Exact(n, t, meta)
  BY DEF ExactPlan
<1>3. ASSUME NEW t \in Memo(n, r, meta)
      PROVE  /\ Unbroken(n, t)
             /\ "aliases" \notin p.flags[t] => AliasFree(s, t)
             /\ p.flags[t] \cap {"aliases", "internal"} = {} => Twinless(s, t)
  <2>1. t \in Types /\ t \notin s.broken
    BY <1>2, MemoFacts DEF Fails
  <2>2. Built(s, t, meta) \subseteq p.flags[t]
    <3>1. t \in Memo(n, t, meta)
      BY <2>1, MemoFacts
    <3>2. Built(s, t, meta) \subseteq Exact(n, t, meta)
      BY <2>1, <3>1 DEF Exact, ExactOfType
    <3>3. QED
      BY <1>2, <3>2
  <2>3. "aliases" \notin p.flags[t] => AliasFree(s, t)
    BY <2>2 DEF Built, Fields, Flags, AliasFree
  <2>4. ASSUME p.flags[t] \cap {"aliases", "internal"} = {} PROVE Twinless(s, t)
    <3>1. Exact(n, t, meta) \cap {"aliases", "internal"} = {}
      BY <1>2, <2>4
    <3>2. \A f, g \in Fields(s, t) : f # g => ~Same(f.name, g.name)
      BY <3>1 DEF PlainTwins
    <3>3. \A i, j \in DOMAIN s.fields[t] : i # j => s.fields[t][i] # s.fields[t][j]
      BY <2>1, NamesAssumption
    <3>4. QED
      BY <3>2, <3>3 DEF Twinless, Fields
  <2>5. QED
    BY <2>1, <2>3, <2>4 DEF Unbroken
<1> HIDE DEF k
<1>4. QED
  BY <1>1, <1>3 DEF Speaks, k

LEMMA MarksRead ==
    ASSUME JSON, Readings, NEW n \in DOMAIN Shapes, NEW t \in Types, NEW meta, NEW rules,
           NEW ms \in Members, NEW base, NEW e, e = ReadMembers(Shapes[n], t, ms, base, meta, rules), e # Failure
    PROVE  e.marks = base.marks \cup MarksOf(Shapes[n], t, ms, meta, rules)
BY ReadMarks

StructLike(s, t, d) == d.tag = "rec" /\ DOMAIN d.of = DOMAIN s.fields[t]

\* The marks of the top, also where fields have several members.
LEMMA TopMarks ==
    ASSUME JSON, Traversals, Readings, NEW k, Known(k), Speaks(k), NEW r \in k.R, NEW order, Ranked(order),
           NEW v \in Docs, Through(k, r, v, Nil) # Failure, MarkedThrough(k, r, v, order).tag = "rec"
    PROVE  MarkedThrough(k, r, v, order).marks = Meant(k, r, v, Nil).marks
<1> DEFINE s == Shapes[k.n]
           d == Through(k, r, v, Nil)
           e == Meant(k, r, v, Nil)
           w == Sift(k, r, v)
           x == MarkedThrough(k, r, v, order)
           ms == v.of
           fs == SiftMembers(k, r, ms)
<1>1. r # NoType /\ r \in Types /\ k.n \in DOMAIN Shapes /\ Target(k, r)
  BY FieldsAssumption DEF Known, Target
<1>2. w \in Docs /\ (w = Null <=> v = Null)
  BY <1>1, SiftShape
<1>3. e # Failure /\ Typed(s, r, d)
  BY <1>1, ThroughMeant
<1>4. MarkForm(s, r, d, w, k.fl, k.meta, order, x)
  BY <1>2, <1>3, MarksTo DEF MarkedThrough
<1>5. DecodeForm(s, r, w, Nil, k.aliases, d) /\ ReadForm(s, r, v, Nil, k.meta, k.standard, e)
  BY <1>2, DecodesTo, ReadsTo DEF Through, Meant
<1>6. CASE s.kind[r] = "struct" /\ v # Null
  <2>1. ms \in Members /\ fs \in Members /\ w = Obj(fs) /\ v.tag = "obj"
    BY <1>6, ThroughStruct
  <2>2. w.tag = "obj" /\ w.of = fs
    <3> HIDE DEF w, fs
    <3>1. QED
      BY <2>1, Tags
  <2>3. d.tag = "rec" /\ DOMAIN d.of = DOMAIN s.fields[r]
    <3>1. StructLike(s, r, d)
      <4> HIDE DEF d
      <4>1. d = Nil \/ (d.tag = "rec" /\ DOMAIN d.of = DOMAIN s.fields[r])
        BY <1>1, <1>3, <1>6, TypedUnfold
      <4>2. x = d => d # Nil
        BY Tags
      <4>3. d # Nil
        BY <1>4, <4>2 DEF MarkForm
      <4>4. QED
        BY <4>1, <4>3 DEF StructLike
    <3>2. QED
      BY <3>1 DEF StructLike
  <2>4. x.marks = Marks(s, r, d.of, fs, k.fl, k.meta, order)
    <3>1. x = MarkedRec(s, r, d.of, fs, k.fl, k.meta, order)
      <4>1. d # Nil
        BY <2>3, Tags
      <4> HIDE DEF d, w, x, fs
      <4>2. QED
        BY <1>1, <1>4, <1>6, <2>2, <4>1 DEF MarkForm
    <3> HIDE DEF x, fs, d
    <3>2. QED
      BY <3>1, Tags DEF MarkedRec
  <2>5. e.marks = MarksOf(s, r, ms, k.meta, k.standard)
    <3> DEFINE base == Rec(Zero(s, r), {})
    <3>1. e = ReadMembers(s, r, ms, base, k.meta, k.standard)
      <4> HIDE DEF e
      <4>1. QED
        BY <1>1, <1>5, <1>6, <2>1, Tags DEF ReadForm
    <3>2. base.marks = {}
      BY Tags
    <3>3. k.n \in DOMAIN Shapes /\ r \in Types
      BY <1>1
    <3>6. ms \in Members /\ e # Failure
      BY <1>3, <2>1
    <3> HIDE DEF base, e, ms, s, w, d, x, fs
    <3>7. e = ReadMembers(Shapes[k.n], r, ms, base, k.meta, k.standard)
      BY <3>1 DEF s
    <3>8. e.marks = base.marks \cup MarksOf(Shapes[k.n], r, ms, k.meta, k.standard)
      BY <3>3, <3>6, <3>7, MarksRead
    <3>4. e.marks = base.marks \cup MarksOf(s, r, ms, k.meta, k.standard)
      BY <3>8 DEF s
    <3>5. QED
      BY <3>2, <3>4
  <2>6. ASSUME NEW i \in DOMAIN s.fields[r]
        PROVE  Seen(s, r, i, fs, k.fl, k.meta, order) # {} <=> i \in MarksOf(s, r, ms, k.meta, k.standard)
    <3>1. Spoken(s, r, i, fs, k.fl, order) = {} <=> NoneFor(s, r, fs, i)
      <4>1. fs \in Members
        BY <2>1
      <4> HIDE DEF fs
      <4>2. QED
        BY <4>1, SpokenSome
    <3>2. NoneFor(s, r, fs, i) <=> i \notin MarksOf(s, r, ms, k.meta, k.standard)
      BY <2>1, SiftMarks
    <3>3. i \in MarksOf(s, r, ms, k.meta, k.standard) => ~Denied(s, r, s.fields[r][i], k.meta)
      BY DEF MarksOf, Skipped, Dropped, FieldFor
    <3> HIDE DEF fs
    <3>4. QED
      BY <3>1, <3>2, <3>3 DEF Seen
  <2>7. MarksOf(s, r, ms, k.meta, k.standard) \subseteq DOMAIN s.fields[r]
    BY SameField DEF MarksOf, Skipped
  <2>8. Marks(s, r, d.of, fs, k.fl, k.meta, order) = MarksOf(s, r, ms, k.meta, k.standard)
    <3> HIDE DEF fs, d, ms
    <3>1. QED
      BY <2>3, <2>6, <2>7 DEF Marks
  <2>9. QED
    BY <2>4, <2>5, <2>8
<1>7. CASE ~(s.kind[r] = "struct" /\ v # Null)
  <2>1. s.kind[r] = "struct" => d = Nil
    <3> HIDE DEF d, w
    <3>1. QED
      BY <1>1, <1>2, <1>5, <1>7 DEF DecodeForm
  <2>2. d.tag # "rec"
    <3> HIDE DEF d
    <3>1. QED
      BY <1>1, <1>3, <2>1, TypedUnfold, Tags
  <2>3. x = d \/ x.tag \in {"slice", "dict"}
    <3>1. d = Nil \/ s.kind[r] # "struct"
      BY <2>1
    <3> HIDE DEF d, w, x
    <3>2. QED
      BY <1>4, <3>1, Tags DEF MarkForm
  <2>4. QED
    BY <2>2, <2>3
<1>8. QED
  BY <1>6, <1>7

\* What a marked body shows of what it reads: its own marks at the top, and all
\* of it if no field has two members.
MarksLike(x, e) == x.tag = "rec" => x.marks = e.marks
ShowsBody(n, r, meta, v, e, x) ==
    /\ MarksLike(x, e)
    /\ Unduplicated(Shapes[n], r, v) => x = Shown(Shapes[n], r, e, meta)

LEMMA MarkShows ==
    ASSUME JSON, Traversals, Readings, NEW n \in DOMAIN Shapes, NEW r \in Types, NEW meta \in BOOLEAN, NEW p,
           ExactPlan(p, n, r, meta), NEW standard \in BOOLEAN, NEW aliases \in BOOLEAN,
           aliases \/ p.err \/ "aliases" \notin p.flags[r], ~PlainTwins(n, r, meta),
           NEW order, Ranked(order), NEW v \in Docs, NEW x,
           x = Marked(Shapes[n], p, r, FilterPublic(Shapes[n], p, r, v, meta, standard), meta, aliases, order),
           x # Failure
    PROVE  ShowsBody(n, r, meta, v, Reading(Shapes[n], r, v, Nil, meta, standard), x)
<1> DEFINE s == Shapes[n]
           f == FilterPublic(s, p, r, v, meta, standard)
           d == Decode(s, r, f, Nil, aliases)
           k == Context(n, r, p, meta, standard, aliases)
<1>1. f # Failure /\ d # Failure /\ x = Mark(s, r, d, f, p.flags, meta, order)
  BY DEF Marked
<1>2. ~p.err /\ f = Filter(s, p.flags, r, v, meta, standard)
  <2>1. f = IF p.err \/ (standard /\ "dateErr" \in p.flags[r]) THEN Failure
            ELSE Filter(s, p.flags, r, v, meta, standard)
    BY DEF FilterPublic
  <2> HIDE DEF f
  <2>2. QED
    BY <1>1, <2>1
<1>3. /\ k.n = n /\ k.R = Memo(n, r, meta) /\ k.fl = p.flags /\ k.meta = meta
      /\ k.standard = standard /\ k.aliases = aliases
  BY DEF Context
<1>4. Known(k) /\ r \in k.R
  <2>1. Known(k) /\ r \in Memo(n, r, meta)
    BY <1>2, ExactIsKnown
  <2> HIDE DEF k
  <2>2. QED
    BY <1>3, <2>1
<1>5. Speaks(k)
  BY <1>2, ExactSpeaks
<1> DEFINE e == Reading(s, r, v, Nil, meta, standard)
<1>6. /\ f = Sift(k, r, v) /\ d = Through(k, r, v, Nil) /\ e = Meant(k, r, v, Nil)
      /\ x = MarkedThrough(k, r, v, order)
  <2>1. f = Sift(k, r, v)
    <3> HIDE DEF k, f
    <3>1. QED
      BY <1>2, <1>3 DEF Sift
  <2>2. d = Through(k, r, v, Nil)
    <3> HIDE DEF k, f
    <3>1. QED
      BY <2>1, <1>3 DEF Through, d
  <2>3. e = Meant(k, r, v, Nil)
    <3> HIDE DEF k
    <3>1. QED
      BY <1>3 DEF Meant
  <2>4. x = MarkedThrough(k, r, v, order)
    <3> HIDE DEF k, f, d
    <3>1. QED
      BY <1>1, <1>3, <2>1, <2>2 DEF MarkedThrough
  <2>5. QED
    BY <2>1, <2>2, <2>3, <2>4
<1> HIDE DEF k, f, d, e
<1>7. Through(k, r, v, Nil) # Failure
  BY <1>1, <1>6
<1>8. MarksLike(x, e)
  <2>1. ASSUME x.tag = "rec" PROVE x.marks = e.marks
    <3>1. MarkedThrough(k, r, v, order).tag = "rec"
      BY <1>6, <2>1
    <3>2. MarkedThrough(k, r, v, order).marks = Meant(k, r, v, Nil).marks
      BY <1>4, <1>5, <1>7, <3>1, TopMarks
    <3>3. QED
      BY <1>6, <3>2
  <2>2. QED
    BY <2>1 DEF MarksLike
<1>9. Unduplicated(s, r, v) => x = Shown(s, r, e, meta)
  <2>1. Shows(k, v, order)
    BY <1>4, <1>5, AllShow
  <2>2. Target(k, r)
    BY <1>4 DEF Target
  <2>3. Unduplicated(Shapes[k.n], r, v) => ShowsAs(k, r, v, order)
    BY <1>7, <2>1, <2>2 DEF Shows
  <2>4. ShowsAs(k, r, v, order) => x = Shown(s, r, e, meta)
    BY <1>3, <1>6 DEF ShowsAs
  <2>5. QED
    BY <1>3, <2>3, <2>4
<1>10. QED
  BY <1>8, <1>9 DEF ShowsBody, e

\* An empty record has no marks.
LEMMA EmptyShows ==
    ASSUME JSON, Traversals, Readings, NEW n \in DOMAIN Shapes, NEW r \in Types, Shapes[n].kind[r] = "struct",
           NEW fl, NEW order, NEW meta, NEW v, EmptyRecord(n, r, fl, order) # Failure
    PROVE  ShowsBody(n, r, meta, v, Rec(Zero(Shapes[n], r), {}), EmptyRecord(n, r, fl, order))
<1> DEFINE s == Shapes[n]
           of == Zero(s, r)
           z == Rec(of, {})
           body == Obj(<<>>)
           x == EmptyRecord(n, r, fl, order)
<1>1. x = Mark(s, r, z, body, fl, FALSE, order)
  BY DEF EmptyRecord
<1>2. body \in Docs /\ <<>> \in Members
  <2>1. <<>> \in Seq(JsonKeys \X Docs)
    OBVIOUS
  <2>2. QED
    BY <2>1 DEF JSON, Members
<1>3. Typed(s, r, z)
  BY ZeroAlike DEF Alike
<1>4. MarkForm(s, r, z, body, fl, FALSE, order, x)
  <2> HIDE DEF z, body, x
  <2>1. MarkForm(s, r, z, body, fl, FALSE, order, Mark(s, r, z, body, fl, FALSE, order))
    BY <1>2, <1>3, MarksTo
  <2>2. QED
    BY <1>1, <2>1
<1>5. z # Nil /\ z.tag = "rec" /\ z.of = of /\ z.marks = {} /\ body.tag = "obj" /\ body.of = <<>> /\ r # NoType
  BY Tags, FieldsAssumption
<1>6. x = MarkedRec(s, r, of, <<>>, fl, FALSE, order)
  <2> HIDE DEF z, body, x, of
  <2>1. QED
    BY <1>4, <1>5 DEF MarkForm
<1>7. Marks(s, r, of, <<>>, fl, FALSE, order) = {}
  <2>1. \A i : Spoken(s, r, i, <<>>, fl, order) = {}
    BY <1>2, SpokenIn
  <2>2. QED
    BY <2>1 DEF Marks, Seen
<1>8. MarkedParts(s, r, of, <<>>, fl, FALSE, order) = of
  <2>1. \A i \in DOMAIN of : MarkedPart(s, r, of, <<>>, fl, FALSE, order, i) = of[i]
    BY <1>7 DEF MarkedPart
  <2>2. of = [i \in DOMAIN of |-> of[i]]
    BY DEF Zero
  <2> HIDE DEF of
  <2>3. QED
    BY <2>1, <2>2 DEF MarkedParts
<1>9. x = z
  BY <1>6, <1>7, <1>8 DEF MarkedRec
<1>10. Shown(s, r, z, meta) = z
  <2>1. IsValue(z)
    <3>1. IsFcn(of)
      BY ZeroAlike
    <3> HIDE DEF of
    <3>2. QED
      BY <3>1 DEF IsValue
  <2>2. Shown(s, r, z, meta) = Rec(ShownFields(s, r, z, meta), {})
    <3>1. z.tag = "rec" /\ z.marks = {}
      BY <1>5
    <3> HIDE DEF z, s, of, body, x
    <3>2. Shown(s, r, z, meta) = Rec(ShownFields(s, r, z, meta), z.marks)
      BY <2>1, <3>1, ShowsRec
    <3>3. QED
      BY <3>1, <3>2
  <2>3. ShownFields(s, r, z, meta) = of
    <3>1. \A i \in DOMAIN of : Shown(s, s.fields[r][i].type, of[i], meta) = Nil /\ of[i] = Nil
      BY ShownNil DEF Zero
    <3>2. of = [i \in DOMAIN of |-> of[i]]
      BY DEF Zero
    <3> HIDE DEF z, of
    <3>3. QED
      BY <1>5, <3>1, <3>2 DEF ShownFields
  <2>4. QED
    BY <2>2, <2>3
<1>11. QED
  <2> HIDE DEF x, z
  <2>1. MarksLike(x, z)
    BY <1>9 DEF MarksLike
  <2>2. x = Shown(s, r, z, meta)
    BY <1>9, <1>10
  <2>3. QED
    BY <2>1, <2>2 DEF ShowsBody, x, z

ShowsOf(n, r, meta, req, answer) ==
    answer.found /\ answer.value # Failure =>
        ShowsBody(n, r, meta, Chosen(req), BodyOf(n, r, meta, req), answer.value)

LEMMA AnswerShows ==
    ASSUME JSON, Traversals, Readings, Inputs, NEW n \in DOMAIN Shapes, NEW r \in Shapes[n].roots,
           NEW meta \in BOOLEAN, ~PlainTwins(n, r, meta), NEW p, ExactPlan(p, n, r, meta),
           NEW req \in Requests[n], NEW order, Ranked(order)
    PROVE  ShowsOf(n, r, meta, req, Answer(n, p, r, req, meta, order))
<1> DEFINE s == Shapes[n]
           v == Chosen(req)
           a == Answer(n, p, r, req, meta, order)
           e == BodyOf(n, r, meta, req)
<1> SUFFICES ASSUME a.found, a.value # Failure
             PROVE  ShowsBody(n, r, meta, v, e, a.value)
  BY DEF ShowsOf
<1>1. r \in Types /\ req.doc \in Docs /\ req.policy \in BOOLEAN /\ req.registered \in BOOLEAN
  BY ShapesAssumption DEF Inputs
<1>2. /\ ~(req.policy /\ req.name # Whole) /\ ~(req.name # Whole /\ req.doc.tag # "obj")
      /\ Select(req) # {}
      /\ a.value = IF v = Null THEN IF req.policy THEN EmptyRecord(n, r, p.flags, order) ELSE Nil
                   ELSE IF req.registered THEN DecodeRegistered(s, p, r, v, meta, order)
                   ELSE DecodePublic(s, p, r, v, meta, order)
  BY DEF Answer, Answered, Chosen
<1>3. v \in Docs
  BY <1>1, <1>2, SelectIn DEF Chosen
<1>4. CASE v = Null /\ req.policy
  <2>1. s.kind[r] = "struct"
    BY <1>4, PolicyAssumption
  <2>2. a.value = EmptyRecord(n, r, p.flags, order) /\ EmptyRecord(n, r, p.flags, order) # Failure
    BY <1>2, <1>4
  <2>3. ShowsBody(n, r, meta, v, Rec(Zero(Shapes[n], r), {}), EmptyRecord(n, r, p.flags, order))
    <3> HIDE DEF v, a
    <3>1. QED
      BY <1>1, <2>1, <2>2, EmptyShows
  <2>4. e = Rec(Zero(s, r), {})
    BY <1>4 DEF BodyOf
  <2> HIDE DEF a, e, v
  <2>5. QED
    BY <2>2, <2>3, <2>4
<1>5. CASE v = Null /\ ~req.policy
  <2>1. Reading(s, r, Null, Nil, meta, ~req.registered) = Nil
    <3>1. ReadForm(s, r, Null, Nil, meta, ~req.registered, Reading(s, r, Null, Nil, meta, ~req.registered))
      BY ReadsTo DEF JSON
    <3>2. QED
      BY <3>1, <1>1, FieldsAssumption DEF ReadForm
  <2>2. e = Nil /\ a.value = Nil
    BY <1>2, <1>5, <2>1 DEF BodyOf
  <2>3. Shown(s, r, Nil, meta) = Nil /\ Nil.tag # "rec"
    BY ShownNil, Tags
  <2> HIDE DEF a, e, v
  <2>4. QED
    BY <2>2, <2>3 DEF ShowsBody, MarksLike
<1>6. CASE v # Null /\ req.registered
  <2>1. a.value = Marked(s, p, r, FilterPublic(s, p, r, v, meta, FALSE), meta, TRUE, order)
    BY <1>2, <1>6 DEF DecodeRegistered
  <2>2. ShowsBody(n, r, meta, v, Reading(s, r, v, Nil, meta, FALSE), a.value)
    <3> HIDE DEF v, a
    <3>1. QED
      BY <1>1, <1>3, <2>1, MarkShows
  <2>3. e = Reading(s, r, v, Nil, meta, FALSE)
    BY <1>6 DEF BodyOf
  <2> HIDE DEF v, a, e
  <2>4. QED
    BY <2>2, <2>3
<1>7. CASE v # Null /\ ~req.registered
  <2> DEFINE al == meta \/ p.flags[r] \cap {"aliases", "declaredDates"} # {}
  <2>1. a.value = Marked(s, p, r, FilterPublic(s, p, r, v, meta, TRUE), meta, al, order)
    BY <1>2, <1>7 DEF DecodePublic
  <2>2. al \in BOOLEAN /\ (al \/ p.err \/ "aliases" \notin p.flags[r])
    OBVIOUS
  <2>3. ShowsBody(n, r, meta, v, Reading(s, r, v, Nil, meta, TRUE), a.value)
    <3>1. ASSUME NEW aliases \in BOOLEAN, aliases \/ p.err \/ "aliases" \notin p.flags[r], NEW x,
                 x = Marked(s, p, r, FilterPublic(s, p, r, v, meta, TRUE), meta, aliases, order), x # Failure
          PROVE  ShowsBody(n, r, meta, v, Reading(s, r, v, Nil, meta, TRUE), x)
      <4> HIDE DEF v
      <4>1. QED
        BY <1>1, <1>3, <3>1, MarkShows
    <3> HIDE DEF v, a, al, s
    <3>2. QED
      BY <2>1, <2>2, <3>1
  <2>4. e = Reading(s, r, v, Nil, meta, TRUE)
    BY <1>7 DEF BodyOf
  <2> HIDE DEF v, a, e
  <2>5. QED
    BY <2>3, <2>4
<1>8. QED
  BY <1>1, <1>4, <1>5, <1>6, <1>7

\* Presence says what the author of the body supplied: exactly at the top,
\* and at every depth of a document that repeats no field, in whatever order
\* Go ranges its maps and by whatever plan the caller got from the cache.
THEOREM PresenceAuthored ==
    ASSUME JSON, Traversals, Readings, Inputs, \A order \in Orders : Ranked(order), "none" \notin Callers
    PROVE  Spec => []MarksAuthored
<1>1. Spec => []BInv
  BY AnswersFaithfully
<1>2. BInv => MarksAuthored
  <2> SUFFICES ASSUME BInv, outcome.caller \in Callers,
                      ~PlainTwins(shape, root[outcome.caller], Meta(outcome.caller))
               PROVE  MarksAuthored
    BY DEF MarksAuthored, Decoded, Answering, ByMetadata
  <2>1. PICK p : \E req \in Requests[shape], order \in Orders :
              /\ shape \in DOMAIN Shapes /\ root[outcome.caller] \in Shapes[shape].roots
              /\ Meta(outcome.caller) \in BOOLEAN
              /\ ServedBy(outcome.caller, req, p, order)
    BY FaithfulAnswer
  <2>2. PICK req \in Requests[shape], order \in Orders :
              /\ shape \in DOMAIN Shapes /\ root[outcome.caller] \in Shapes[shape].roots
              /\ Meta(outcome.caller) \in BOOLEAN
              /\ ServedBy(outcome.caller, req, p, order)
    BY <2>1
  <2>3. ShowsOf(shape, root[outcome.caller], Meta(outcome.caller), outcome.req, outcome.answer)
    <3>1. Ranked(order)
      OBVIOUS
    <3>2. outcome.answer = Answer(shape, p, root[outcome.caller], req, Meta(outcome.caller), order)
          /\ ExactPlan(p, shape, root[outcome.caller], Meta(outcome.caller)) /\ outcome.req = req
      BY <2>2 DEF ServedBy
    <3>3. QED
      BY <2>2, <3>1, <3>2, AnswerShows
  <2>4. QED
    BY <2>3 DEF MarksAuthored, ShowsOf, ShowsBody, MarksLike, Decoded, BodyOf, Chosen, ReadBody, Subject,
       Answering, ByMetadata, Graph, Meta
<1>3. QED
  BY <1>1, <1>2, PTL
=============================================================================
