------------------------- MODULE ResolutionScheduler -------------------------
(***************************************************************************)
(* The permits of one invocation: resolutionScheduler.slots, one           *)
(* resolutionLease per runnable piece of work, RunResolutionGroupPhase and *)
(* SuspendResolutionGroup.                                                 *)
(*                                                                         *)
(* A task is a piece of work that needs a permit: a member of a dependency *)
(* group, or a phase.  A task may suspend itself and wait for tasks it     *)
(* launches, its children; their contexts descend from its own, so a       *)
(* cancellation reaches them too.  Which members of a group are ready is   *)
(* the subject of DependencyGroup; here every launched task asks for its   *)
(* permit at once.                                                         *)
(***************************************************************************)
EXTENDS Naturals, FiniteSets

CONSTANTS
  Tasks,     \* all tasks
  Nothing,   \* the parent of a member of the outermost group
  Forests,   \* the ways tasks may be nested
  Limit,     \* capacity of the slots channel
  MaxWaits   \* bound: how often a task suspends itself

ASSUME TasksAssumption == IsFiniteSet(Tasks) /\ Nothing \notin Tasks
ASSUME LimitAssumption == Limit \in Nat \ {0}
ASSUME MaxWaitsAssumption == MaxWaits \in Nat
ASSUME ForestsAssumption == Forests \subseteq [Tasks -> Tasks \cup {Nothing}]

VARIABLES
  parent,     \* the nesting, fixed
  pc,         \* where each task is
  held,       \* tasks whose lease is held
  slots,      \* tokens in the channel
  cancelled,  \* tasks whose context is canceled
  waits,      \* how often each task suspended itself
  outcome     \* how each task ended

vars == <<parent, pc, held, slots, cancelled, waits, outcome>>

Phases == {"idle", "waiting", "admitted", "running", "suspended", "resuming",
           "unwinding", "finished"}

Children(t) == {c \in Tasks : parent[c] = t}

Init ==
  /\ parent \in Forests
  /\ pc = [t \in Tasks |-> IF parent[t] = Nothing THEN "waiting" ELSE "idle"]
  /\ held = {}
  /\ slots = 0
  /\ cancelled = {}
  /\ waits = [t \in Tasks |-> 0]
  /\ outcome = [t \in Tasks |-> "none"]

Goto(t, p) == pc' = [pc EXCEPT ![t] = p]
End(t, how) == Goto(t, "finished") /\ outcome' = [outcome EXCEPT ![t] = how]

\* A send to the channel; it blocks while the channel is full.
Acquire == slots < Limit /\ slots' = slots + 1

\* A receive from the channel; it blocks while the channel is empty.
Receive == slots > 0 /\ slots' = slots - 1

-----------------------------------------------------------------------------
(* How a task comes to want a permit.                                      *)

\* The wait of a suspended task starts a descendant with the context it was
\* given: it carries the scheduler and no lease.
Launch(t) ==
  /\ pc[t] = "idle"
  /\ pc[parent[t]] = "suspended"
  /\ Goto(t, "waiting")
  /\ UNCHANGED <<parent, held, slots, cancelled, waits, outcome>>

\* A phase under the parent's own context reuses the permit the parent holds.
RunInline(t) ==
  /\ pc[t] = "idle"
  /\ pc[parent[t]] = "running" /\ parent[t] \in held
  /\ End(t, "inline")
  /\ UNCHANGED <<parent, held, slots, cancelled, waits>>

\* MUTANT of NestedRefused: a group asks for a permit while its caller holds one.
NestedQueued(t) == Goto(t, "waiting") /\ UNCHANGED outcome

NestedRefused(t) == End(t, "refused")

\* A dependency group under the context of a task that did not suspend, or a
\* phase under the context of one that did, is refused.
Refuse(t) ==
  /\ pc[t] = "idle"
  /\ pc[parent[t]] \in {"running", "suspended"}
  /\ NestedRefused(t)
  /\ UNCHANGED <<parent, held, slots, cancelled, waits>>

-----------------------------------------------------------------------------
(* Admission: the select of bindDependencyGroup and of                     *)
(* RunResolutionGroupPhase.                                                *)

TakeSlot(t) ==
  /\ pc[t] = "waiting"
  /\ Acquire
  /\ Goto(t, "admitted")
  /\ UNCHANGED <<parent, held, cancelled, waits, outcome>>

GiveUp(t) ==
  /\ pc[t] = "waiting"
  /\ t \in cancelled
  /\ End(t, "canceled")
  /\ UNCHANGED <<parent, held, slots, cancelled, waits>>

\* The slot was taken, then the context is looked at again.
Start(t) ==
  /\ pc[t] = "admitted"
  /\ t \notin cancelled
  /\ held' = held \cup {t}
  /\ Goto(t, "running")
  /\ UNCHANGED <<parent, slots, cancelled, waits, outcome>>

GiveBack(t) ==
  /\ pc[t] = "admitted"
  /\ t \in cancelled
  /\ Receive
  /\ End(t, "canceled")
  /\ UNCHANGED <<parent, held, cancelled, waits>>

-----------------------------------------------------------------------------
(* SuspendResolutionGroup.                                                 *)

\* MUTANT of LetGo: the task waits with its permit.
LetGoOfNothing(t) == UNCHANGED <<held, slots>>

LetGo(t) == held' = held \ {t} /\ Receive

Suspend(t) ==
  /\ pc[t] = "running" /\ t \in held
  /\ waits[t] < MaxWaits
  /\ waits' = [waits EXCEPT ![t] = @ + 1]
  /\ LetGo(t)
  /\ Goto(t, "suspended")
  /\ UNCHANGED <<parent, cancelled, outcome>>

WaitOver(t) ==
  /\ pc[t] = "suspended"
  /\ \A c \in Children(t) : pc[c] \in {"idle", "finished"}

\* MUTANT of AfterWait: the caller continues at once.
AfterWaitContinue(t) == "running"

AfterWait(t) == IF t \in cancelled THEN "running" ELSE "resuming"

\* A canceled wait returns without the permit.
EndWait(t) ==
  /\ WaitOver(t)
  /\ Goto(t, AfterWait(t))
  /\ UNCHANGED <<parent, held, slots, cancelled, waits, outcome>>

\* A panic of the wait unwinds the task, which has no permit.
PanicInWait(t) ==
  /\ WaitOver(t)
  /\ Goto(t, "unwinding")
  /\ UNCHANGED <<parent, held, slots, cancelled, waits, outcome>>

Reacquire(t) ==
  /\ pc[t] = "resuming"
  /\ Acquire
  /\ held' = held \cup {t}
  /\ Goto(t, "running")
  /\ UNCHANGED <<parent, cancelled, waits, outcome>>

ResumeCanceled(t) ==
  /\ pc[t] = "resuming"
  /\ t \in cancelled
  /\ Goto(t, "running")
  /\ UNCHANGED <<parent, held, slots, cancelled, waits, outcome>>

-----------------------------------------------------------------------------
\* MUTANT of Release: the token is taken back whether the lease is held or not.
ReleaseAlways(t) == held' = held \ {t} /\ Receive

\* resolutionLease.release: a lease lost to a canceled wait gives nothing back.
Release(t) ==
  IF t \in held THEN held' = held \ {t} /\ Receive ELSE UNCHANGED <<held, slots>>

\* The work ended, with an error, a panic or neither; the lease is released.
Finish(t) ==
  /\ pc[t] \in {"running", "unwinding"}
  /\ Release(t)
  /\ End(t, "ran")
  /\ UNCHANGED <<parent, cancelled, waits>>

Cancel(t) ==
  /\ t \notin cancelled
  /\ pc[t] # "finished"
  /\ cancelled' = cancelled \cup {t}
  /\ UNCHANGED <<parent, pc, held, slots, waits, outcome>>

\* A cancellation reaches a descendant's context after its ancestor's.
Propagate(t) ==
  /\ t \notin cancelled
  /\ parent[t] \in cancelled
  /\ cancelled' = cancelled \cup {t}
  /\ UNCHANGED <<parent, pc, held, slots, waits, outcome>>

-----------------------------------------------------------------------------
Nested(t) == parent[t] # Nothing /\ (Launch(t) \/ RunInline(t) \/ Refuse(t))

\* The steps a task takes without anyone's decision.
Proceed(t) ==
  \/ TakeSlot(t) \/ GiveUp(t) \/ Start(t) \/ GiveBack(t)
  \/ EndWait(t) \/ PanicInWait(t) \/ Reacquire(t) \/ ResumeCanceled(t)
  \/ Finish(t)

Ended ==
  /\ \A t \in Tasks : pc[t] \in {"idle", "finished"}
  /\ UNCHANGED vars

Next ==
  \/ \E t \in Tasks : Nested(t) \/ Proceed(t) \/ Suspend(t) \/ Cancel(t) \/ Propagate(t)
  \/ Ended

Spec == Init /\ [][Next]_vars

\* Work ends, waits end when their descendants did, and a free slot goes to one
\* of those who wait for it.  Nobody is obliged to suspend, to launch or to cancel.
FairSpec == Spec /\ \A t \in Tasks : WF_vars(Proceed(t))

-----------------------------------------------------------------------------
(* Properties.                                                             *)

\* Every variable has its type.
TypeOK ==
  /\ parent \in [Tasks -> Tasks \cup {Nothing}]
  /\ pc \in [Tasks -> Phases]
  /\ held \in SUBSET Tasks
  /\ slots \in 0..Limit
  /\ cancelled \in SUBSET Tasks
  /\ waits \in [Tasks -> 0..MaxWaits]
  /\ outcome \in [Tasks -> {"none", "inline", "refused", "canceled", "ran"}]

\* Every token in the channel is a held lease or an admission in progress,
\* through every suspension, canceled wait and panic: so no receive ever finds
\* the channel empty, although release and suspend receive under a mutex.
PermitsMatchLeases ==
  slots = Cardinality(held) + Cardinality({t \in Tasks : pc[t] = "admitted"})

\* A task runs without a permit only after a canceled wait, and whoever waits
\* for descendants, resumes or unwinds holds none.
RunnableHoldsPermit ==
  \A t \in Tasks :
    /\ pc[t] = "running" => t \in held \/ (t \in cancelled /\ waits[t] > 0)
    /\ t \in held => pc[t] = "running"

\* A permit is never held above a task that still needs one: the ancestors of a
\* waiting or resuming task are all suspended.
AncestorsSuspended ==
  \A t \in Tasks :
    pc[t] \in {"waiting", "admitted", "running", "suspended", "resuming", "unwinding"} =>
      parent[t] = Nothing \/ pc[parent[t]] = "suspended"

\* Every task that asked for a permit ends, with any nesting and any capacity:
\* waiting for descendants never starves the descendants of permits.
EveryTaskEnds == \A t \in Tasks : pc[t] = "waiting" ~> pc[t] = "finished"
=============================================================================
