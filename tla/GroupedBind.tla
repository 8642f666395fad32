----------------------------- MODULE GroupedBind -----------------------------
(***************************************************************************)
(* One Bind of a plan with resolution groups: bindWithGroups, with the     *)
(* resolved input that the caller supplies and the bind loop of the        *)
(* subsets.  Supplied bindings come first, then for each group its         *)
(* barriers, Open and the members, then the remaining bindings.            *)
(*                                                                         *)
(* Bindings are the numbers 1..n in declaration order.  A binding writes   *)
(* the leaf fields below its path and, when it assigns, those of its       *)
(* presence marker.  How the members of one group run is the subject of    *)
(* DependencyGroup and ConcurrentGroup; here a group is one step, which    *)
(* both of them implement (GroupStep).                                     *)
(***************************************************************************)
EXTENDS Naturals, Sequences, SequencesExt, GroupOutcome

CONSTANTS
  Plans,      \* compiled plans, each with a group at least
  Selections, \* the paths of a resolved input: sequences of bindings, 0 is undefined
  Invocations \* sets of what a bind is invoked with, see Refused

BindingsOf(p) == 1..p.size
MembersOf(p) == UNION {p.groups[k].members : k \in DOMAIN p.groups}
CellsOf(p, b) == p.path[b] \cup p.marker[b]

\* What a bind takes from compileResolutionGroups.
ValidPlan(p) ==
  /\ p.size \in Nat
  /\ p.groups \in Seq([ mode : {"concurrent", "dependencies"}, after : Seq(BindingsOf(p)),
                        members : SUBSET BindingsOf(p) ])
  /\ \A k, l \in DOMAIN p.groups :
       k # l => p.groups[k].members \cap p.groups[l].members = {}
  /\ \A k \in DOMAIN p.groups : IsInjective(p.groups[k].after)
  /\ \A k \in DOMAIN p.groups : ToSet(p.groups[k].after) \cap MembersOf(p) = {}
  /\ p.priority \in [BindingsOf(p) -> Nat]
  /\ DOMAIN p.path = BindingsOf(p) /\ DOMAIN p.marker = BindingsOf(p)
  /\ \A b \in BindingsOf(p) : p.path[b] # {}

ASSUME PlansAssumption == \A p \in Plans : ValidPlan(p)
ASSUME SelectionsArePaths == Selections \subseteq Seq(Nat)

VARIABLES
  plan,       \* the plan
  invocation, \* what the bind is invoked with
  selection,  \* the supplied paths
  pc,         \* "prepare", "bind", "open", "run", "nil" or "error"; see also PlannedBind
  phase,      \* what is bound in "bind": "seeds", "barriers" or "rest"
  at,         \* the group that is next or runs
  batch,      \* the subset of the bind loop
  todo,       \* the bindings of the subset still to bind
  completed,
  times,      \* how often the bind of each binding was attempted
  writer      \* the binding that wrote a field last

vars == <<plan, invocation, selection, pc, phase, at, batch, todo, completed, times, writer>>
input == <<plan, invocation, selection>>

Bindings == BindingsOf(plan)
Groups == DOMAIN plan.groups
Members == MembersOf(plan)
After(k) == ToSet(plan.groups[k].after)
Cells(b) == CellsOf(plan, b)
Fields(p) == UNION {CellsOf(p, b) : b \in BindingsOf(p)}

Init ==
  /\ plan \in Plans /\ invocation \in Invocations /\ selection \in Selections
  /\ pc = "prepare" /\ phase = "seeds" /\ at = 1
  /\ batch = {} /\ todo = {} /\ completed = {}
  /\ times = [b \in Bindings |-> 0]
  /\ writer = [c \in Fields(plan) |-> 0]

-----------------------------------------------------------------------------
(* What is refused.                                                        *)

\* MUTANT of Overlaps: the member's presence marker is not protected.
OverlapsPath(b, m) == Cells(b) \cap plan.path[m] # {}

\* Of a supplied binding and of a member both the path and the marker count.
Overlaps(b, m) == Cells(b) \cap Cells(m) # {}

\* "resolved" says that the invocation has a resolved input, "own" that it is
\* for this target and not for the one an enclosing bind was called with.
Supplies == {"resolved", "own"} \subseteq invocation

SelectionRefused ==
  /\ Supplies
  /\ \/ \E k \in DOMAIN selection : selection[k] \notin Bindings
     \/ ~IsInjective(selection)
     \/ \E k \in DOMAIN selection : \E m \in Members : Overlaps(selection[k], m)

Refused ==
  \/ "controller" \notin invocation
  \/ invocation \cap {"replay", "cache", "capture", "kinds"} # {}
  \/ "resolved" \in invocation /\ \E k \in Groups : plan.groups[k].mode # "dependencies"
  \/ "lease" \in invocation /\ \E k \in Groups : plan.groups[k].mode = "dependencies"

Seeds == IF Supplies THEN ToSet(selection) ELSE {}

-----------------------------------------------------------------------------
(* The bind loop of a subset.                                              *)

\* The place in a subset: that of After for barriers, else that of the declaration.
Place(b) ==
  IF phase = "barriers" THEN CHOOSE k \in DOMAIN plan.groups[at].after : plan.groups[at].after[k] = b
                        ELSE b

\* The loop sorts its subset by priority, stably.
Before(b, c) ==
  \/ plan.priority[b] < plan.priority[c]
  \/ plan.priority[b] = plan.priority[c] /\ Place(b) <= Place(c)

StartBind(what, subset) == pc' = "bind" /\ phase' = what /\ batch' = subset /\ todo' = subset

Written(S) == [c \in DOMAIN writer |->
                 IF \E b \in S : c \in Cells(b) THEN CHOOSE b \in S : c \in Cells(b) ELSE writer[c]]

\* A binding assigns its field, is skipped, or fails before or after assigning.
Bind(b) ==
  /\ pc = "bind" /\ b \in todo /\ \A c \in todo : Before(b, c)
  /\ todo' = todo \ {b}
  /\ times' = [times EXCEPT ![b] = @ + 1]
  /\ writer' \in {writer, Written({b})}
  /\ pc' \in {"bind", "error"}
  /\ UNCHANGED <<input, phase, at, batch, completed>>

-----------------------------------------------------------------------------
(* bindWithGroups.                                                         *)

\* MUTANT of Barriers: a barrier bound before is bound again.
BarriersAgain(k, done) == After(k)

Barriers(k, done) == After(k) \ done

\* MUTANT of StartGroup: the barriers are left to the last bind.
StartGroupWithout(k, done) ==
  IF k \in Groups THEN StartBind("barriers", {}) ELSE StartBind("rest", Bindings \ done)

\* The barriers of group k, or the remaining bindings after the last group.
StartGroup(k, done) ==
  IF k \in Groups THEN StartBind("barriers", Barriers(k, done))
                  ELSE StartBind("rest", Bindings \ done)

Prepare ==
  /\ pc = "prepare"
  /\ IF SelectionRefused \/ Refused
     THEN pc' = "error" /\ UNCHANGED <<phase, batch, todo>>
     ELSE IF Seeds # {} THEN StartBind("seeds", Seeds) ELSE StartGroup(1, {})
  /\ UNCHANGED <<input, at, completed, times, writer>>

BindReturns ==
  /\ pc = "bind" /\ todo = {}
  /\ CASE phase = "seeds" -> completed' = completed \cup batch /\ StartGroup(1, completed')
       [] phase = "barriers" -> /\ completed' = completed \cup batch
                                /\ pc' = "open" /\ UNCHANGED <<phase, batch, todo>>
       [] phase = "rest" -> pc' = "nil" /\ UNCHANGED <<completed, phase, batch, todo>>
  /\ UNCHANGED <<input, at, times, writer>>

\* The controller answers with a run, with no run or with an error.
Open ==
  /\ pc = "open" /\ pc' \in {"run", "error"}
  /\ UNCHANGED <<input, phase, at, batch, todo, completed, times, writer>>

\* A group comes to an outcome: DependencyGroup and ConcurrentGroup say how.
RunGroup ==
  /\ pc = "run"
  /\ LET group == plan.groups[at]
     IN  \E o \in Outcomes(group.members, group.mode) :
           /\ times' = [b \in Bindings |-> IF b \in o.attempted THEN times[b] + 1 ELSE times[b]]
           /\ writer' = Written(o.published)
           /\ \/ o.error /\ pc' = "error" /\ UNCHANGED <<at, completed, phase, batch, todo>>
              \/ /\ ~o.error
                 /\ completed' = completed \cup group.members
                 /\ at' = at + 1
                 /\ StartGroup(at + 1, completed')
  /\ UNCHANGED input

Returned == pc \in {"nil", "error"} /\ UNCHANGED vars

Next ==
  \/ Prepare \/ BindReturns \/ Open \/ RunGroup \/ Returned
  \/ \E b \in Bindings : Bind(b)

Spec == Init /\ [][Next]_vars

-----------------------------------------------------------------------------
(* Properties.                                                             *)

\* Supplied bindings, barriers of several groups, members and remaining
\* bindings share one plan, yet no binding is bound twice, and when Bind returns
\* nil every binding was, but for members that a default-mode group left to its
\* controller.
LeftToController ==
  UNION {plan.groups[k].members : k \in {l \in Groups : plan.groups[l].mode = "concurrent"}}

BoundOnce ==
  /\ \A b \in Bindings : times[b] <= 1
  /\ pc = "nil" => \A b \in Bindings \ LeftToController : times[b] = 1

\* A group is opened when every supplied binding, its own barriers and those of
\* the groups before it are bound, and the groups before it have returned.
OpensAfterBarriers ==
  [][ (pc = "open" /\ pc' # "open") =>
        /\ \A b \in Seeds : times[b] = 1
        /\ \A k \in 1..at : \A b \in After(k) : times[b] = 1
        /\ \A k \in 1..(at - 1) : plan.groups[k].members \subseteq completed ]_vars

\* No member of a group, nor its presence marker, overwrites what the caller
\* supplied: the values a resolved input selects, and their markers, are final as
\* far as groups go.
SuppliedUntouched ==
  \A b \in Seeds \cap Bindings : \A c \in Cells(b) : writer[c] \notin Members
=============================================================================
