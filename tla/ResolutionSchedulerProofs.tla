---------------------- MODULE ResolutionSchedulerProofs ----------------------
(***************************************************************************)
(* What ResolutionScheduler guarantees for every set of tasks, nesting,    *)
(* capacity and number of waits.                                           *)
(*                                                                         *)
(* The inductive invariant adds to the four invariants of the run that a   *)
(* task whose wait is over has waited: that is why a task found running    *)
(* without its permit must have been canceled in a wait.                   *)
(***************************************************************************)
EXTENDS ResolutionScheduler, FiniteSetTheorems, TLAPS

Waited == \A t \in Tasks : pc[t] \in {"suspended", "resuming"} => waits[t] > 0

IInv ==
  /\ TypeOK
  /\ Waited
  /\ RunnableHoldsPermit
  /\ AncestorsSuspended
  /\ PermitsMatchLeases

Step(t) == Nested(t) \/ Proceed(t) \/ Suspend(t) \/ Cancel(t) \/ Propagate(t)

-----------------------------------------------------------------------------
\* Every variable keeps its type.
LEMMA TypeInit == Init => TypeOK
  BY LimitAssumption, MaxWaitsAssumption, ForestsAssumption DEF Init, TypeOK, Phases

LEMMA TypeStep ==
  ASSUME TypeOK, NEW t \in Tasks, Step(t)
  PROVE  TypeOK'
<1> USE LimitAssumption, MaxWaitsAssumption DEF TypeOK, Phases
<1>1. CASE Launch(t)
  BY <1>1 DEF Launch, Goto
<1>2. CASE RunInline(t)
  BY <1>2 DEF RunInline, End, Goto
<1>3. CASE Refuse(t)
  BY <1>3 DEF Refuse, NestedRefused, End, Goto
<1>4. CASE TakeSlot(t)
  BY <1>4 DEF TakeSlot, Acquire, Goto
<1>5. CASE GiveUp(t)
  BY <1>5 DEF GiveUp, End, Goto
<1>6. CASE Start(t)
  BY <1>6 DEF Start, Goto
<1>7. CASE GiveBack(t)
  BY <1>7 DEF GiveBack, Receive, End, Goto
<1>8. CASE EndWait(t)
  BY <1>8 DEF EndWait, WaitOver, AfterWait, Children, Goto
<1>9. CASE PanicInWait(t)
  BY <1>9 DEF PanicInWait, WaitOver, Children, Goto
<1>10. CASE Reacquire(t)
  BY <1>10 DEF Reacquire, Acquire, Goto
<1>11. CASE ResumeCanceled(t)
  BY <1>11 DEF ResumeCanceled, Goto
<1>12. CASE Finish(t)
  BY <1>12 DEF Finish, Release, Receive, End, Goto
<1>13. CASE Suspend(t)
  BY <1>13 DEF Suspend, LetGo, Receive, Goto
<1>14. CASE Cancel(t)
  BY <1>14 DEF Cancel
<1>15. CASE Propagate(t)
  BY <1>15 DEF Propagate
<1>q. QED
  BY <1>1, <1>2, <1>3, <1>4, <1>5, <1>6, <1>7, <1>8, <1>9, <1>10, <1>11, <1>12, <1>13, <1>14, <1>15 DEF Step, Nested, Proceed

-----------------------------------------------------------------------------
\* The three facts about single tasks are preserved together.
LEMMA TasksInit == Init => Waited /\ RunnableHoldsPermit /\ AncestorsSuspended
  BY ForestsAssumption DEF Init, Waited, RunnableHoldsPermit, AncestorsSuspended

LEMMA TasksStep ==
  ASSUME TypeOK, Waited, RunnableHoldsPermit, AncestorsSuspended,
         NEW t \in Tasks, Step(t)
  PROVE  Waited' /\ RunnableHoldsPermit' /\ AncestorsSuspended'
<1> USE TasksAssumption DEF TypeOK, Phases, Waited, RunnableHoldsPermit, AncestorsSuspended
<1>1. CASE Launch(t)
  BY <1>1 DEF Launch, Goto
<1>2. CASE RunInline(t)
  BY <1>2 DEF RunInline, End, Goto
<1>3. CASE Refuse(t)
  BY <1>3 DEF Refuse, NestedRefused, End, Goto
<1>4. CASE TakeSlot(t)
  BY <1>4 DEF TakeSlot, Acquire, Goto
<1>5. CASE GiveUp(t)
  BY <1>5 DEF GiveUp, End, Goto
<1>6. CASE Start(t)
  BY <1>6 DEF Start, Goto
<1>7. CASE GiveBack(t)
  BY <1>7 DEF GiveBack, Receive, End, Goto
<1>8. CASE EndWait(t)
  BY <1>8 DEF EndWait, WaitOver, AfterWait, Children, Goto
<1>9. CASE PanicInWait(t)
  BY <1>9 DEF PanicInWait, WaitOver, Children, Goto
<1>10. CASE Reacquire(t)
  BY <1>10 DEF Reacquire, Acquire, Goto
<1>11. CASE ResumeCanceled(t)
  BY <1>11 DEF ResumeCanceled, Goto
<1>12. CASE Finish(t)
  BY <1>12 DEF Finish, Release, Receive, End, Goto
<1>13. CASE Suspend(t)
  BY <1>13 DEF Suspend, LetGo, Receive, Goto
<1>14. CASE Cancel(t)
  BY <1>14 DEF Cancel
<1>15. CASE Propagate(t)
  BY <1>15 DEF Propagate
<1>q. QED
  BY <1>1, <1>2, <1>3, <1>4, <1>5, <1>6, <1>7, <1>8, <1>9, <1>10, <1>11, <1>12, <1>13, <1>14, <1>15 DEF Step, Nested, Proceed

-----------------------------------------------------------------------------
Admitted == {t \in Tasks : pc[t] = "admitted"}

\* The sets that own tokens are finite, and no task is in both.
LEMMA Owners ==
  ASSUME TypeOK, RunnableHoldsPermit
  PROVE  /\ IsFiniteSet(held) /\ IsFiniteSet(Admitted)
         /\ Cardinality(held) \in Nat /\ Cardinality(Admitted) \in Nat
         /\ \A t \in held : pc[t] = "running" /\ t \notin Admitted
<1>1. held \subseteq Tasks /\ Admitted \subseteq Tasks
  BY DEF TypeOK, Admitted
<1>2. IsFiniteSet(held) /\ IsFiniteSet(Admitted)
  BY <1>1, FS_Subset, TasksAssumption
<1>3. \A t \in held : pc[t] = "running" /\ t \notin Admitted
  BY <1>1 DEF RunnableHoldsPermit, Admitted
<1>q. QED
  BY <1>2, <1>3, FS_CardinalityType

\* One task enters or leaves a finite set.
LEMMA OneMore ==
  ASSUME NEW S, IsFiniteSet(S), NEW x, x \notin S
  PROVE  Cardinality(S \cup {x}) = Cardinality(S) + 1
  BY FS_AddElement

LEMMA OneLess ==
  ASSUME NEW S, IsFiniteSet(S), NEW x \in S
  PROVE  Cardinality(S \ {x}) = Cardinality(S) - 1
  BY FS_RemoveElement

LEMMA PermitsInit == Init => PermitsMatchLeases
<1> SUFFICES ASSUME Init PROVE PermitsMatchLeases
  OBVIOUS
<1>1. held = {} /\ {t \in Tasks : pc[t] = "admitted"} = {} /\ slots = 0
  BY DEF Init
<1>q. QED
  BY <1>1, FS_EmptySet DEF PermitsMatchLeases

\* Steps that move no token leave both owners alone.
LEMMA PermitsQuiet ==
  ASSUME TypeOK, NEW t \in Tasks,
         \/ Launch(t) \/ RunInline(t) \/ Refuse(t) \/ GiveUp(t) \/ EndWait(t)
         \/ PanicInWait(t) \/ ResumeCanceled(t) \/ Cancel(t) \/ Propagate(t)
  PROVE  Admitted' = Admitted /\ held' = held /\ slots' = slots
<1> USE DEF TypeOK, Phases, Admitted
<1>1. CASE Launch(t)
  BY <1>1 DEF Launch, Goto
<1>2. CASE RunInline(t)
  BY <1>2 DEF RunInline, End, Goto
<1>3. CASE Refuse(t)
  BY <1>3 DEF Refuse, NestedRefused, End, Goto
<1>4. CASE GiveUp(t)
  BY <1>4 DEF GiveUp, End, Goto
<1>5. CASE EndWait(t)
  BY <1>5 DEF EndWait, WaitOver, AfterWait, Goto
<1>6. CASE PanicInWait(t)
  BY <1>6 DEF PanicInWait, WaitOver, Goto
<1>7. CASE ResumeCanceled(t)
  BY <1>7 DEF ResumeCanceled, Goto
<1>8. CASE Cancel(t)
  BY <1>8 DEF Cancel
<1>9. CASE Propagate(t)
  BY <1>9 DEF Propagate
<1>q. QED
  BY <1>1, <1>2, <1>3, <1>4, <1>5, <1>6, <1>7, <1>8, <1>9

LEMMA PermitsStep ==
  ASSUME TypeOK, RunnableHoldsPermit, PermitsMatchLeases, NEW t \in Tasks, Step(t)
  PROVE  PermitsMatchLeases'
<1>1. slots = Cardinality(held) + Cardinality(Admitted) /\ slots \in Nat
  BY LimitAssumption DEF PermitsMatchLeases, Admitted, TypeOK
<1>2. SUFFICES slots' = Cardinality(held') + Cardinality(Admitted')
  BY DEF PermitsMatchLeases, Admitted
<1>3. /\ IsFiniteSet(held) /\ IsFiniteSet(Admitted)
      /\ Cardinality(held) \in Nat /\ Cardinality(Admitted) \in Nat
      /\ \A u \in held : pc[u] = "running" /\ u \notin Admitted
  BY Owners
<1>4. CASE TakeSlot(t)
  <2>1. Admitted' = Admitted \cup {t} /\ t \notin Admitted /\ held' = held /\ slots' = slots + 1
    BY <1>4 DEF TakeSlot, Acquire, Goto, Admitted, TypeOK
  <2>q. QED
    BY <2>1, <1>1, <1>3, OneMore
<1>5. CASE Start(t)
  <2>1. /\ Admitted' = Admitted \ {t} /\ t \in Admitted
        /\ held' = held \cup {t} /\ t \notin held /\ slots' = slots
    BY <1>5, <1>3 DEF Start, Goto, Admitted, TypeOK
  <2>2. Cardinality(Admitted') = Cardinality(Admitted) - 1
    BY <2>1, <1>3, OneLess
  <2>3. Cardinality(held') = Cardinality(held) + 1
    BY <2>1, <1>3, OneMore
  <2>q. QED
    BY <2>1, <2>2, <2>3, <1>1, <1>3
<1>6. CASE GiveBack(t)
  <2>1. Admitted' = Admitted \ {t} /\ t \in Admitted /\ held' = held /\ slots' = slots - 1
    BY <1>6 DEF GiveBack, Receive, End, Goto, Admitted, TypeOK
  <2>q. QED
    BY <2>1, <1>1, <1>3, OneLess
<1>7. CASE Suspend(t) \/ (Finish(t) /\ t \in held)
  <2>1. /\ Admitted' = Admitted /\ t \in held
        /\ held' = held \ {t} /\ slots' = slots - 1
    BY <1>7 DEF Suspend, LetGo, Finish, Release, Receive, End, Goto, Admitted, TypeOK, Phases
  <2>q. QED
    BY <2>1, <1>1, <1>3, OneLess
<1>8. CASE Reacquire(t)
  <2>1. /\ Admitted' = Admitted /\ held' = held \cup {t} /\ t \notin held
        /\ slots' = slots + 1
    BY <1>8, <1>3 DEF Reacquire, Acquire, Goto, Admitted, TypeOK, Phases
  <2>q. QED
    BY <2>1, <1>1, <1>3, OneMore
<1>9. CASE Finish(t) /\ t \notin held
  <2>1. Admitted' = Admitted /\ held' = held /\ slots' = slots
    BY <1>9 DEF Finish, Release, End, Goto, Admitted, TypeOK, Phases
  <2>q. QED
    BY <2>1, <1>1
<1>10. CASE \/ Launch(t) \/ RunInline(t) \/ Refuse(t) \/ GiveUp(t) \/ EndWait(t)
            \/ PanicInWait(t) \/ ResumeCanceled(t) \/ Cancel(t) \/ Propagate(t)
  BY <1>10, <1>1, PermitsQuiet
<1>q. QED
  BY <1>4, <1>5, <1>6, <1>7, <1>8, <1>9, <1>10 DEF Step, Nested, Proceed

-----------------------------------------------------------------------------
LEMMA IInvInit == Init => IInv
  BY TypeInit, TasksInit, PermitsInit DEF IInv

LEMMA IInvNext == IInv /\ [Next]_vars => IInv'
<1> SUFFICES ASSUME IInv, [Next]_vars PROVE IInv'
  OBVIOUS
<1>1. CASE \E t \in Tasks : Step(t)
  <2>1. PICK t \in Tasks : Step(t)
    BY <1>1
  <2>2. TypeOK /\ Waited /\ RunnableHoldsPermit /\ AncestorsSuspended /\ PermitsMatchLeases
    BY DEF IInv
  <2>3. TypeOK'
    BY <2>1, <2>2, TypeStep
  <2>4. Waited' /\ RunnableHoldsPermit' /\ AncestorsSuspended'
    BY <2>1, <2>2, TasksStep
  <2>5. PermitsMatchLeases'
    BY <2>1, <2>2, PermitsStep
  <2>q. QED
    BY <2>3, <2>4, <2>5 DEF IInv
<1>2. CASE UNCHANGED vars
  BY <1>2 DEF IInv, TypeOK, Waited, RunnableHoldsPermit, AncestorsSuspended,
              PermitsMatchLeases, vars
<1>q. QED
  BY <1>1, <1>2 DEF Next, Step, Ended

\* The inductive invariant holds in every reachable state.
THEOREM Invariance == Spec => []IInv
  BY IInvInit, IInvNext, PTL DEF Spec

\* Tokens and owners agree, whatever the nesting and the capacity.
THEOREM PermitAccounting == Spec => []PermitsMatchLeases
<1>1. IInv => PermitsMatchLeases
  BY DEF IInv
<1>q. QED
  BY <1>1, Invariance, PTL

\* A task without a permit runs only to hand on its cancellation.
THEOREM PermitToRun == Spec => []RunnableHoldsPermit
<1>1. IInv => RunnableHoldsPermit
  BY DEF IInv
<1>q. QED
  BY <1>1, Invariance, PTL

\* Nobody holds a permit above a task that still needs one.
THEOREM SuspendedAncestors == Spec => []AncestorsSuspended
<1>1. IInv => AncestorsSuspended
  BY DEF IInv
<1>q. QED
  BY <1>1, Invariance, PTL

-----------------------------------------------------------------------------
\* A task at a receive from the slots channel: giving a slot back, suspending,
\* or releasing a lease it holds.
AtReceive(t) == pc[t] = "admitted" \/ t \in held

NoReceiveBlocks == \A t \in Tasks : AtReceive(t) => slots > 0

\* The receives in release, SuspendResolutionGroup and the admission never
\* block, so holding the lease's mutex across them is harmless.
THEOREM ReceivesNeverBlock == Spec => []NoReceiveBlocks
<1>1. IInv => NoReceiveBlocks
  <2> SUFFICES ASSUME IInv, NEW t \in Tasks, AtReceive(t) PROVE slots > 0
    BY DEF NoReceiveBlocks
  <2>1. /\ IsFiniteSet(held) /\ IsFiniteSet(Admitted)
        /\ Cardinality(held) \in Nat /\ Cardinality(Admitted) \in Nat
    BY Owners DEF IInv
  <2>2. slots = Cardinality(held) + Cardinality(Admitted)
    BY DEF IInv, PermitsMatchLeases, Admitted
  <2>3. t \in held \/ t \in Admitted
    BY DEF AtReceive, Admitted
  <2>4. Cardinality(held) # 0 \/ Cardinality(Admitted) # 0
    BY <2>1, <2>3, FS_EmptySet
  <2>q. QED
    BY <2>1, <2>2, <2>4
<1>q. QED
  BY <1>1, Invariance, PTL
=============================================================================
