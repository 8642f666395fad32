------------------------------ MODULE BodyPlan ------------------------------
(***************************************************************************)
(* The decoding plans of internal/bodyjson and the process-wide cache that *)
(* shares them (compileInternalPlan, internal_fields.go).                  *)
(*                                                                         *)
(* The plan of a Go type says, for the type and for every type below it,   *)
(* what decoding a body must look for: internal members, input rules,      *)
(* alias names, dates.  "Below" is recursive and types may be mutually     *)
(* recursive, so a caller builds one node per type and then sweeps all of  *)
(* them, in whatever order Go's map iteration takes, until a whole sweep   *)
(* changes nothing.  Only then is the plan published, by LoadOrStore.  Any *)
(* number of goroutines may be compiling the same type at once; a caller   *)
(* that brings field metadata neither reads the cache nor writes to it.    *)
(*                                                                         *)
(* A type is a node of a graph.  What a node holds is what the code reads: *)
(*   kind[t]    "struct", "list" (slice or array), "map", "leaf", "time"   *)
(*   item[t]    the type of the elements of a list or a map                *)
(*   fields[t]  the JSON fields of a struct, in selection order            *)
(*   broken     the structs whose own build fails (an input rule on the    *)
(*              wrong type, alias names that clash)                        *)
(*   changed    the types the callers' metadata changes                    *)
(* A field has its JSON name, its alias names, its type, the input rules   *)
(* of its jsonx tag ("bool", "omit"), the policy of its time tag ("none",  *)
(* "policy", "layout", "bad"), and whether it is denied by its own tag or  *)
(* hidden by the callers' metadata.  A shape also says which callers       *)
(* decode into it, and into which of its types.                            *)
(***************************************************************************)
EXTENDS Sequences

CONSTANTS Types,     \* Go types
          NoType,    \* an element or a field that has no plan of its own
          Shapes,    \* the type graphs a run looks at, by name
          Linked,    \* callers that pass only a type
          Variant,   \* callers that pass a type and changed metadata
          NoPlan     \* no entry in the cache, no plan held yet

\* A type graph is closed, and callers decode into its types.
ASSUME ShapesAssumption ==
    \A n \in DOMAIN Shapes :
        /\ Shapes[n].roots \subseteq Types
        /\ \A t \in Types :
              /\ Shapes[n].item[t] \in Types \cup {NoType}
              /\ \A i \in DOMAIN Shapes[n].fields[t] :
                    Shapes[n].fields[t][i].type \in Types \cup {NoType}

ASSUME CallersAssumption == Linked \cap Variant = {}

Callers == Linked \cup Variant
Flags == {"aliases", "internal", "dates", "inputs", "declaredDates", "dateErr"}
NoFlags == [t \in Types |-> {}]

VARIABLES shape,      \* the name of the type graph; no step changes it
          root,       \* root[c]: the type caller c decodes into
          pc,         \* pc[c]: "load", "build", "sweep", "publish", "done",
                      \*   and "served" once the body is decoded
          flags,      \* flags[c]: the flags of the nodes caller c is building
          todo,       \* todo[c]: the nodes the current sweep has not visited
          changed,    \* changed[c]: the current sweep changed a node
          published,  \* internalPlans: per type, the plan every caller shares
          held        \* held[c]: what compileInternalPlan returned to c

planVars == <<shape, root, pc, flags, todo, changed, published, held>>
-----------------------------------------------------------------------------
(* The nodes of a plan                                                     *)

Fields(s, t) == {s.fields[t][i] : i \in DOMAIN s.fields[t]}

\* internalOwnerMetadata: under metadata the changed type's own tags decide.
Denied(s, t, f, meta) == f.denied \/ (meta /\ t \in s.changed /\ f.hidden)

Kept(s, t, meta) == {f \in Fields(s, t) : ~Denied(s, t, f, meta)}

\* A date with a policy gets a private copy of the date's node and a layout
\* none at all, so neither is a node of the plan.
Nodes(s, t, meta) ==
    ({s.item[t]} \cup {f.type : f \in {g \in Kept(s, t, meta) : g.date \in {"none", "bad"}}})
    \ {NoType}

\* memo: the types reached from r, that is those in every set of types that
\* holds r and, with a type, the nodes below it.
Closed(s, S, meta) == \A t \in S : Nodes(s, t, meta) \subseteq S
MemoOfType == [n \in DOMAIN Shapes |-> [r \in Types |-> [meta \in BOOLEAN |->
            LET closed == {S \in SUBSET Types : r \in S /\ Closed(Shapes[n], S, meta)}
            IN  {t \in Types : \A S \in closed : t \in S}]]]
Memo(n, r, meta) == MemoOfType[n][r][meta]

\* buildInternalPlan sets these as it creates the node.
Built(s, t, meta) ==
    {g \in Flags :
        \/ g = "dates" /\ s.kind[t] = "time"
        \/ g = "internal" /\ meta /\ t \in s.changed
        \/ g = "aliases" /\ \E f \in Fields(s, t) : f.aliases # {}
        \/ g = "dateErr" /\ \E f \in Kept(s, t, meta) : f.date = "bad"}

\* A visit adds these, from the node's own fields.
Local(s, t, meta) ==
    {g \in Flags :
        \/ g = "internal" /\ \E f \in Fields(s, t) : Denied(s, t, f, meta)
        \/ g = "inputs" /\ \E f \in Kept(s, t, meta) : f.rules # {}
        \/ /\ g \in {"dates", "declaredDates"}
           /\ \E f \in Kept(s, t, meta) : f.date = "policy"}

\* What one visit leaves at node t: its own flags, its fields' and the flags
\* its children have at that moment.
Gather(s, fl, t, meta) ==
    fl[t] \cup Local(s, t, meta) \cup UNION {fl[n] : n \in Nodes(s, t, meta)}

Fails(n, r, meta) == Memo(n, r, meta) \cap Shapes[n].broken # {}
Plan(c, err, fl) == [owner |-> c, err |-> err, flags |-> fl]
-----------------------------------------------------------------------------
PlanInit ==
    /\ shape \in DOMAIN Shapes
    /\ root \in [Callers -> Shapes[shape].roots]
    /\ pc = [c \in Callers |-> IF c \in Shapes[shape].callers THEN "load" ELSE "served"]
    /\ flags = [c \in Callers |-> NoFlags]
    /\ todo = [c \in Callers |-> {}]
    /\ changed = [c \in Callers |-> FALSE]
    /\ published = [t \in Types |-> NoPlan]
    /\ held = [c \in Callers |-> NoPlan]

Graph == Shapes[shape]
Meta(c) == c \in Variant
MemoOf(c) == Memo(shape, root[c], Meta(c))

\* The cache answers a caller without metadata, with a plan or an error.
LoadHit(c) ==
    /\ pc[c] = "load" /\ c \in Linked /\ published[root[c]] # NoPlan
    /\ held' = [held EXCEPT ![c] = published[root[c]]]
    /\ pc' = [pc EXCEPT ![c] = "done"]
    /\ UNCHANGED <<shape, root, flags, todo, changed, published>>

LoadMiss(c) ==
    /\ pc[c] = "load" /\ (c \in Linked => published[root[c]] = NoPlan)
    /\ pc' = [pc EXCEPT ![c] = "build"]
    /\ UNCHANGED <<shape, root, flags, todo, changed, published, held>>

\* The private nodes; a failed build goes straight to publication.
Build(c) ==
    /\ pc[c] = "build"
    /\ IF Fails(shape, root[c], Meta(c))
       THEN /\ pc' = [pc EXCEPT ![c] = "publish"]
            /\ UNCHANGED <<flags, todo>>
       ELSE /\ pc' = [pc EXCEPT ![c] = "sweep"]
            /\ flags' = [flags EXCEPT ![c] = [t \in Types |->
                            IF t \in MemoOf(c) THEN Built(Graph, t, Meta(c)) ELSE {}]]
            /\ todo' = [todo EXCEPT ![c] = MemoOf(c)]
    /\ UNCHANGED <<shape, root, changed, published, held>>

\* One node of a sweep, in any order; later visits see what it wrote.
Visit(c, t) ==
    LET gathered == Gather(Graph, flags[c], t, Meta(c))
    IN  /\ pc[c] = "sweep" /\ t \in todo[c]
        /\ flags' = [flags EXCEPT ![c][t] = gathered]
        /\ changed' = [changed EXCEPT ![c] = @ \/ gathered # flags[c][t]]
        /\ todo' = [todo EXCEPT ![c] = @ \ {t}]
        /\ UNCHANGED <<shape, root, pc, published, held>>

SweepAgain(c) ==
    /\ pc[c] = "sweep" /\ todo[c] = {} /\ changed[c]
    /\ todo' = [todo EXCEPT ![c] = MemoOf(c)]
    /\ changed' = [changed EXCEPT ![c] = FALSE]
    /\ UNCHANGED <<shape, root, pc, flags, published, held>>

\* MUTANT of Settle: one sweep is taken to be enough.
SettleAtOnce(c) ==
    /\ pc[c] = "sweep" /\ todo[c] = {}
    /\ pc' = [pc EXCEPT ![c] = "publish"]
    /\ UNCHANGED <<shape, root, flags, todo, changed, published, held>>

Settle(c) ==
    /\ pc[c] = "sweep" /\ todo[c] = {} /\ ~changed[c]
    /\ pc' = [pc EXCEPT ![c] = "publish"]
    /\ UNCHANGED <<shape, root, flags, todo, changed, published, held>>

\* LoadOrStore: the first plan stored is everyone's.  A plan built from
\* metadata stays with its caller.  The builder's private nodes are dropped.
Own(c) == Plan(c, Fails(shape, root[c], Meta(c)), flags[c])
Shared(c) == IF published[root[c]] = NoPlan THEN Own(c) ELSE published[root[c]]

Publish(c) ==
    /\ pc[c] = "publish"
    /\ IF Meta(c)
       THEN /\ held' = [held EXCEPT ![c] = Own(c)]
            /\ UNCHANGED published
       ELSE /\ held' = [held EXCEPT ![c] = Shared(c)]
            /\ published' = [published EXCEPT ![root[c]] = Shared(c)]
    /\ pc' = [pc EXCEPT ![c] = "done"]
    /\ flags' = [flags EXCEPT ![c] = NoFlags]
    /\ UNCHANGED <<shape, root, todo, changed>>

Compile(c) ==
    \/ LoadHit(c) \/ LoadMiss(c) \/ Build(c)
    \/ \E t \in Types : Visit(c, t)
    \/ SweepAgain(c) \/ Settle(c) \/ Publish(c)

\* The caller reads its plan to decode a body, and changes nothing of it.
Serve(c) ==
    /\ pc[c] = "done"
    /\ pc' = [pc EXCEPT ![c] = "served"]
    /\ UNCHANGED <<shape, root, flags, todo, changed, published, held>>

PlanNext == \E c \in Callers : Compile(c) \/ Serve(c)
PlanSpec == PlanInit /\ [][PlanNext]_planVars
-----------------------------------------------------------------------------
(* Properties                                                              *)

\* The flags a plan is for: those of some type it reaches.
ExactOfType == [n \in DOMAIN Shapes |-> [r \in Types |-> [meta \in BOOLEAN |->
    UNION {Built(Shapes[n], t, meta) \cup Local(Shapes[n], t, meta) : t \in Memo(n, r, meta)}]]]
Exact(n, r, meta) == ExactOfType[n][r][meta]

ExactPlan(p, n, r, meta) ==
    /\ p.err = Fails(n, r, meta)
    /\ p.err => p.flags = NoFlags
    /\ ~p.err => \A t \in Memo(n, r, meta) : p.flags[t] = Exact(n, t, meta)

PlanTypeOK ==
    /\ shape \in DOMAIN Shapes
    /\ root \in [Callers -> Types]
    /\ pc \in [Callers -> {"load", "build", "sweep", "publish", "done", "served"}]
    /\ flags \in [Callers -> [Types -> SUBSET Flags]]
    /\ todo \in [Callers -> SUBSET Types]
    /\ changed \in [Callers -> BOOLEAN]
    /\ \A t \in Types : published[t] = NoPlan \/ published[t].owner \in Linked

\* Whatever the order of the sweeps and however many callers compile at once,
\* a caller works from a plan with exactly the flags of the types it reaches,
\* also through mutually recursive types: none missing, so that no member is
\* left unfiltered, and none that another caller's metadata would add.  The
\* callers without metadata all work from the one plan in the cache.
HeldExact ==
    \A c \in Callers : held[c] # NoPlan =>
        /\ ExactPlan(held[c], shape, root[c], Meta(c))
        /\ ~Meta(c) => held[c] = published[root[c]]
=============================================================================
