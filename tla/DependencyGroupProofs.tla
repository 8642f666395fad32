------------------------ MODULE DependencyGroupProofs ------------------------
(***************************************************************************)
(* Proofs about DependencyGroup for every number of members, capacity,     *)
(* prerequisite graph and set of callback answers.                         *)
(*                                                                         *)
(* The invariant is built in layers, each inductive relative to the        *)
(* previous ones: the types that need no counting; what each member's      *)
(* status, goroutine and outcome say of one another; the counters and the  *)
(* permits as cardinalities; the ready member and the prerequisites; the   *)
(* verdict.                                                                *)
(***************************************************************************)
EXTENDS Integers, DependencyGroup, FiniteSetTheorems, TLAPS

-----------------------------------------------------------------------------
(* The inductive invariant, layer by layer.                                *)

Loose ==
  /\ dependsOn \in [Members -> SUBSET Members]
  /\ cpc \in CoordinatorPhases
  /\ cpos \in 1..(N + 1)
  /\ before \in Int
  /\ ready \in 0..N
  /\ offered \in BOOLEAN
  /\ status \in [Members -> {"pending", "running", "completed"}]
  /\ completed \in Int
  /\ running \in Int
  /\ slots \in Int
  /\ cancelled \in BOOLEAN
  /\ wpc \in [Members -> WorkerPhases]
  /\ attempted \in SUBSET Members
  /\ terminal \in SUBSET Members
  /\ found \in SUBSET Members
  /\ observeErr \in SUBSET Members
  /\ cause \in [Members -> Causes]
  /\ published \in SUBSET Members
  /\ marked \in SUBSET Members
  /\ snapshot \in [Members -> SUBSET Members]
  /\ done \in SUBSET Members
  /\ observes \in [Members -> Nat]
  /\ result \in {"none", "nil", "error"}

\* The member the coordinator may admit is a pending one it scanned already,
\* and an admission has a member to admit.
ReadyPending ==
  /\ ready # 0 => status[ready] = "pending"
  /\ cpc = "scan" => ready < cpos
  /\ offered => ready # 0
  /\ cpc = "admit" => ready # 0

\* A member has a goroutine from its admission on, and its result is in flight
\* between the goroutine's end and its receipt.
Lifecycle ==
  \A m \in Members :
    /\ status[m] = "pending" => wpc[m] = "idle"
    /\ status[m] = "running" => wpc[m] # "idle" /\ (wpc[m] = "gone" <=> m \in done)
    /\ status[m] = "completed" => wpc[m] \in {"idle", "gone"}
    /\ status[m] # "running" => m \notin done

\* What a goroutine's phase says of its member's outcome.
OutcomeShape ==
  \A m \in Members :
    /\ wpc[m] = "idle" => m \notin attempted /\ m \notin terminal /\ m \notin found
                          /\ m \notin published /\ m \notin marked
    /\ wpc[m] = "idle" /\ status[m] = "pending" =>
         cause[m] = "none" /\ m \notin observeErr /\ observes[m] = 0
    /\ wpc[m] = "idle" /\ status[m] = "completed" =>
         cause[m] \in {"prerequisite", "canceled"} /\ observes[m] = 1
    /\ wpc[m] = "enter" => m \notin attempted
    /\ wpc[m] \in {"enter", "snapshot", "resolve", "publish"} =>
         m \notin published /\ m \notin marked /\ m \notin terminal /\ cause[m] = "none"
    /\ wpc[m] \in {"enter", "snapshot", "resolve"} => m \notin found
    /\ wpc[m] \in {"enter", "snapshot", "resolve", "publish", "observe"} =>
         m \notin observeErr /\ observes[m] = 0
    /\ wpc[m] \in {"cancel", "release", "send", "gone"} => observes[m] = 1
    /\ wpc[m] # "idle" => cause[m] \in {"none", "error"}
    /\ wpc[m] \notin {"idle", "enter"} /\ m \notin attempted => cause[m] = "error"
    /\ wpc[m] \notin {"idle", "publish"} /\ m \in found /\ cause[m] = "none" =>
         m \in published /\ m \in marked
    /\ m \in published /\ cause[m] # "none" => (m \in terminal <=> m \in marked)

\* A started or ready member has only finished, clean prerequisites, and a
\* member past its copy of the target copied what they provided.
CleanPrerequisites ==
  \A m \in Members : wpc[m] # "idle" \/ m = ready =>
    \A p \in dependsOn[m] :
      /\ status[p] = "completed" /\ ~Failed(p)
      /\ wpc[m] \notin {"idle", "enter", "snapshot"} /\ m \in attempted /\ p \in found
           => p \in snapshot[m]

Reportable(m) ==
  \/ m \in attempted /\ cause[m] # "none"
  \/ cause[m] \notin {"none", "prerequisite"}
  \/ m \in observeErr

\* A skipped prerequisite leads back to a member whose error is reported.
SkipsExplained ==
  /\ (\E m \in Members : cause[m] = "prerequisite") => \E m \in Members : Reportable(m)
  /\ \A m \in Members : cause[m] = "canceled" => cancelled
  /\ \A m \in Members : cause[m] = "prerequisite" =>
       \E p \in dependsOn[m] : status[p] = "completed" /\ Failed(p)

\* The loop ends with every member completed, and the verdict is computed then.
Ending ==
  /\ cpc \in {"reduce", "close", "returned"} => completed = N
  /\ result # "none" <=> cpc \in {"close", "returned"}
  /\ result = "nil" => \A m \in Members : ~Reportable(m)

IInv ==
  /\ Loose /\ ReadyPending /\ Lifecycle /\ OutcomeShape
  /\ CountersAgree /\ PermitsAccounted /\ slots <= Limit
  /\ before \in 0..N
  /\ CleanPrerequisites /\ SkipsExplained /\ Ending

-----------------------------------------------------------------------------
(* Layer 1: types that need no counting.                                   *)

\* What the top of the loop assigns.
LEMMA RoundShape ==
  ASSUME NEW c \in Int, NextRound(c)
  PROVE  /\ cpc' \in {"scan", "reduce"}
         /\ cpc' = "reduce" => c >= N
         /\ cpos' = 1 /\ before' = c /\ ready' = 0 /\ offered' \in BOOLEAN /\ ~offered'
<1>1. offered' \in BOOLEAN /\ ~offered'
  BY Zenon DEF NextRound
<1>2. cpos' = 1 /\ before' = c /\ ready' = 0 /\ cpc' = IF MoreRounds(c) THEN "scan" ELSE "reduce"
  BY Zenon DEF NextRound
<1>3. MoreRounds(c) \/ c >= N
  BY NAssumption DEF MoreRounds
<1> QED
  BY <1>1, <1>2, <1>3

\* The types are preserved by every action.
LEMMA LooseStep ==
  ASSUME Loose, [Next]_vars
  PROVE  Loose'
<1> USE NAssumption, LimitAssumption, ResultsAssumption DEF Loose, Members, CoordinatorPhases, WorkerPhases, Causes
<1>1. ASSUME NEW m \in Members, ScanPast(m) PROVE Loose'
  BY <1>1, SMTT(30) DEF ScanPast, AtMember, outcomeVars, dataVars
<1>2. ASSUME NEW m \in Members, ScanPending(m) PROVE Loose'
  <2>1. ready' \in 0..N /\ cpos' \in 1..(N + 1)
    BY <1>2 DEF ScanPending, AtMember
  <2>2. UNCHANGED <<dependsOn, cpc, before, offered, status, completed, running, slots,
                    cancelled, wpc, outcomeVars, dataVars, done, observes, result>>
    BY <1>2 DEF ScanPending
  <2> QED
    BY <2>1, <2>2 DEF outcomeVars, dataVars
<1>3. ASSUME NEW m \in Members, ScanSkip(m) PROVE Loose'
  <2>1. /\ cause' \in [Members -> Causes] /\ observes' \in [Members -> Nat]
        /\ status' \in [Members -> {"pending", "running", "completed"}]
    BY <1>3 DEF ScanSkip, SkipCause
  <2>2. observeErr' \in SUBSET Members /\ cancelled' \in BOOLEAN
    BY <1>3 DEF ScanSkip
  <2>3. cpos' \in 1..(N + 1) /\ completed' \in Int
    BY <1>3 DEF ScanSkip, AtMember
  <2>4. UNCHANGED <<dependsOn, cpc, before, ready, offered, running, slots, wpc, attempted,
                    terminal, found, dataVars, done, result>>
    BY <1>3 DEF ScanSkip
  <2> QED
    BY <2>1, <2>2, <2>3, <2>4 DEF dataVars
<1>4. CASE Rescan
  BY <1>4, RoundShape DEF Rescan, ScanEnded, outcomeVars, dataVars
<1>5. CASE EnterSelect
  BY <1>5 DEF EnterSelect, OffersSlot, outcomeVars, dataVars
<1>6. CASE TakeSlot
  BY <1>6 DEF TakeSlot, outcomeVars, dataVars
<1>7. CASE GiveSlotBack
  BY <1>7, RoundShape, SMTT(30) DEF GiveSlotBack, TokenBack, outcomeVars, dataVars
<1>8. CASE Spawn
  <2>1. status' \in [Members -> {"pending", "running", "completed"}] /\ wpc' \in [Members -> WorkerPhases]
    BY <1>8 DEF Spawn
  <2>2. /\ cpc' \in {"scan", "reduce"} /\ cpos' = 1
        /\ before' = completed /\ ready' = 0 /\ offered' \in BOOLEAN
    BY <1>8, RoundShape DEF Spawn
  <2>3. running' \in Int
    BY <1>8 DEF Spawn
  <2>4. UNCHANGED <<dependsOn, completed, slots, cancelled, outcomeVars, dataVars, done, observes, result>>
    BY <1>8, Zenon DEF Spawn
  <2> QED
    BY <2>1, <2>2, <2>3, <2>4 DEF outcomeVars, dataVars
<1>9. ASSUME NEW m \in Members, Receive(m) PROVE Loose'
  BY <1>9, RoundShape, SMTT(30) DEF Receive, Record, outcomeVars, dataVars
<1>10. ASSUME NEW m \in Members, DrainReceive(m) PROVE Loose'
  BY <1>10, SMTT(30) DEF DrainReceive, Record, outcomeVars, dataVars
<1>11. CASE SeeCancel
  BY <1>11 DEF SeeCancel, outcomeVars, dataVars
<1>12. CASE DrainEnd
  BY <1>12, RoundShape, SMTT(30) DEF DrainEnd, outcomeVars, dataVars
<1>13. CASE Reduce
  BY <1>13 DEF Reduce, outcomeVars, dataVars
<1>14. CASE Close
  BY <1>14 DEF Close, outcomeVars, dataVars
<1>15. ASSUME NEW m \in Members, Enter(m) PROVE Loose'
  BY <1>15, SMTT(30) DEF Enter, Goto, coordinatorVars, dataVars
<1>16. ASSUME NEW m \in Members, TakeSnapshot(m) PROVE Loose'
  BY <1>16 DEF TakeSnapshot, Goto, coordinatorVars, outcomeVars
<1>17. ASSUME NEW m \in Members, Resolve(m) PROVE Loose'
  BY <1>17 DEF Resolve, Goto, coordinatorVars, dataVars
<1>18. ASSUME NEW m \in Members, Publish(m) PROVE Loose'
  BY <1>18 DEF Publish, FieldFails, MarkerFails, Written, FailOrdinarily, ObserverFailed, Goto, coordinatorVars
<1>19. ASSUME NEW m \in Members, Observe(m) PROVE Loose'
  BY <1>19, SMTT(30) DEF Observe, Goto, coordinatorVars, dataVars
<1>20. ASSUME NEW m \in Members, CancelIfFatal(m) PROVE Loose'
  BY <1>20 DEF CancelIfFatal, Goto, coordinatorVars, outcomeVars, dataVars
<1>21. ASSUME NEW m \in Members, Release(m) PROVE Loose'
  BY <1>21, SMTT(30) DEF Release, Goto, coordinatorVars, outcomeVars, dataVars
<1>22. ASSUME NEW m \in Members, Send(m) PROVE Loose'
  BY <1>22 DEF Send, Goto, coordinatorVars, outcomeVars, dataVars
<1>23. CASE CallerCancels
  BY <1>23 DEF CallerCancels, coordinatorVars, outcomeVars, dataVars
<1>24. CASE UNCHANGED vars
  BY <1>24 DEF vars, coordinatorVars, outcomeVars, dataVars
<1> QED
  BY <1>1, <1>2, <1>3, <1>4, <1>5, <1>6, <1>7, <1>8, <1>9, <1>10, <1>11, <1>12, <1>13, <1>14, <1>15, <1>16, <1>17, <1>18, <1>19, <1>20, <1>21, <1>22, <1>23, <1>24
  DEF Next, Coordinator, Scan, Worker, Returned

-----------------------------------------------------------------------------
(* Layer 2: status, goroutine, outcome.                                    *)

\* The ready member stays pending until it is spawned or the round ends.
LEMMA ReadyPendingStep ==
  ASSUME Loose, ReadyPending, Lifecycle, [Next]_vars
  PROVE  ReadyPending'
<1> USE NAssumption DEF Loose, Members, ReadyPending, Lifecycle
<1>1. ASSUME NEW m \in Members, ScanPast(m) PROVE ReadyPending'
  BY <1>1 DEF ScanPast, AtMember, outcomeVars, dataVars
<1>2. ASSUME NEW m \in Members, ScanPending(m) PROVE ReadyPending'
  BY <1>2 DEF ScanPending, AtMember, outcomeVars, dataVars
<1>3. ASSUME NEW m \in Members, ScanSkip(m) PROVE ReadyPending'
  BY <1>3 DEF ScanSkip, AtMember, dataVars
<1>4. CASE Rescan
  BY <1>4, RoundShape DEF Rescan, ScanEnded, outcomeVars, dataVars
<1>5. CASE EnterSelect
  BY <1>5 DEF EnterSelect, OffersSlot, outcomeVars, dataVars
<1>6. CASE TakeSlot
  BY <1>6 DEF TakeSlot, outcomeVars, dataVars
<1>7. CASE GiveSlotBack
  BY <1>7, RoundShape DEF GiveSlotBack, TokenBack, outcomeVars, dataVars
<1>8. CASE Spawn
  BY <1>8, RoundShape DEF Spawn, outcomeVars, dataVars
<1>9. ASSUME NEW m \in Members, Receive(m) PROVE ReadyPending'
  BY <1>9, RoundShape DEF Receive, Record, outcomeVars, dataVars
<1>10. ASSUME NEW m \in Members, DrainReceive(m) PROVE ReadyPending'
  BY <1>10 DEF DrainReceive, Record, outcomeVars, dataVars
<1>11. CASE SeeCancel
  BY <1>11 DEF SeeCancel, outcomeVars, dataVars
<1>12. CASE DrainEnd
  BY <1>12, RoundShape DEF DrainEnd, outcomeVars, dataVars
<1>13. CASE Reduce
  BY <1>13 DEF Reduce, outcomeVars, dataVars
<1>14. CASE Close
  BY <1>14 DEF Close, outcomeVars, dataVars
<1>15. ASSUME NEW m \in Members, Enter(m) PROVE ReadyPending'
  BY <1>15 DEF Enter, Goto, coordinatorVars, dataVars
<1>16. ASSUME NEW m \in Members, TakeSnapshot(m) PROVE ReadyPending'
  BY <1>16 DEF TakeSnapshot, Goto, coordinatorVars, outcomeVars
<1>17. ASSUME NEW m \in Members, Resolve(m) PROVE ReadyPending'
  BY <1>17 DEF Resolve, Goto, coordinatorVars, dataVars
<1>18. ASSUME NEW m \in Members, Publish(m) PROVE ReadyPending'
  BY <1>18 DEF Publish, FieldFails, MarkerFails, Written, FailOrdinarily, ObserverFailed, Goto, coordinatorVars
<1>19. ASSUME NEW m \in Members, Observe(m) PROVE ReadyPending'
  BY <1>19 DEF Observe, Goto, coordinatorVars, dataVars
<1>20. ASSUME NEW m \in Members, CancelIfFatal(m) PROVE ReadyPending'
  BY <1>20 DEF CancelIfFatal, Goto, coordinatorVars, outcomeVars, dataVars
<1>21. ASSUME NEW m \in Members, Release(m) PROVE ReadyPending'
  BY <1>21 DEF Release, Goto, coordinatorVars, outcomeVars, dataVars
<1>22. ASSUME NEW m \in Members, Send(m) PROVE ReadyPending'
  BY <1>22 DEF Send, Goto, coordinatorVars, outcomeVars, dataVars
<1>23. CASE CallerCancels
  BY <1>23 DEF CallerCancels, coordinatorVars, outcomeVars, dataVars
<1>24. CASE UNCHANGED vars
  BY <1>24 DEF vars, coordinatorVars, outcomeVars, dataVars
<1> QED
  BY <1>1, <1>2, <1>3, <1>4, <1>5, <1>6, <1>7, <1>8, <1>9, <1>10, <1>11, <1>12, <1>13, <1>14, <1>15, <1>16, <1>17, <1>18, <1>19, <1>20, <1>21, <1>22, <1>23, <1>24
  DEF Next, Coordinator, Scan, Worker, Returned

\* The member's life: admission, end of the goroutine, receipt.
LEMMA LifecycleStep ==
  ASSUME Loose, ReadyPending, Lifecycle, [Next]_vars
  PROVE  Lifecycle'
<1> USE NAssumption DEF Loose, ReadyPending, Lifecycle
<1>1. ASSUME NEW m \in Members, ScanPast(m) PROVE Lifecycle'
  BY <1>1 DEF ScanPast, AtMember, outcomeVars, dataVars
<1>2. ASSUME NEW m \in Members, ScanPending(m) PROVE Lifecycle'
  BY <1>2 DEF ScanPending, AtMember, outcomeVars, dataVars
<1>3. ASSUME NEW m \in Members, ScanSkip(m) PROVE Lifecycle'
  BY <1>3 DEF ScanSkip, AtMember, dataVars
<1>4. CASE Rescan
  BY <1>4, RoundShape DEF Rescan, ScanEnded, outcomeVars, dataVars
<1>5. CASE EnterSelect
  BY <1>5 DEF EnterSelect, OffersSlot, outcomeVars, dataVars
<1>6. CASE TakeSlot
  BY <1>6 DEF TakeSlot, outcomeVars, dataVars
<1>7. CASE GiveSlotBack
  BY <1>7, RoundShape DEF GiveSlotBack, TokenBack, outcomeVars, dataVars
<1>8. CASE Spawn
  BY <1>8, RoundShape DEF Spawn, outcomeVars, dataVars
<1>9. ASSUME NEW m \in Members, Receive(m) PROVE Lifecycle'
  BY <1>9, RoundShape DEF Receive, Record, outcomeVars, dataVars
<1>10. ASSUME NEW m \in Members, DrainReceive(m) PROVE Lifecycle'
  BY <1>10 DEF DrainReceive, Record, outcomeVars, dataVars
<1>11. CASE SeeCancel
  BY <1>11 DEF SeeCancel, outcomeVars, dataVars
<1>12. CASE DrainEnd
  BY <1>12, RoundShape DEF DrainEnd, outcomeVars, dataVars
<1>13. CASE Reduce
  BY <1>13 DEF Reduce, outcomeVars, dataVars
<1>14. CASE Close
  BY <1>14 DEF Close, outcomeVars, dataVars
<1>15. ASSUME NEW m \in Members, Enter(m) PROVE Lifecycle'
  BY <1>15 DEF Enter, Goto, coordinatorVars, dataVars
<1>16. ASSUME NEW m \in Members, TakeSnapshot(m) PROVE Lifecycle'
  BY <1>16 DEF TakeSnapshot, Goto, coordinatorVars, outcomeVars
<1>17. ASSUME NEW m \in Members, Resolve(m) PROVE Lifecycle'
  BY <1>17 DEF Resolve, Goto, coordinatorVars, dataVars
<1>18. ASSUME NEW m \in Members, Publish(m) PROVE Lifecycle'
  BY <1>18 DEF Publish, FieldFails, MarkerFails, Written, FailOrdinarily, ObserverFailed, Goto, coordinatorVars
<1>19. ASSUME NEW m \in Members, Observe(m) PROVE Lifecycle'
  BY <1>19 DEF Observe, Goto, coordinatorVars, dataVars
<1>20. ASSUME NEW m \in Members, CancelIfFatal(m) PROVE Lifecycle'
  BY <1>20 DEF CancelIfFatal, Goto, coordinatorVars, outcomeVars, dataVars
<1>21. ASSUME NEW m \in Members, Release(m) PROVE Lifecycle'
  BY <1>21 DEF Release, Goto, coordinatorVars, outcomeVars, dataVars
<1>22. ASSUME NEW m \in Members, Send(m) PROVE Lifecycle'
  BY <1>22 DEF Send, Goto, coordinatorVars, outcomeVars, dataVars
<1>23. CASE CallerCancels
  BY <1>23 DEF CallerCancels, coordinatorVars, outcomeVars, dataVars
<1>24. CASE UNCHANGED vars
  BY <1>24 DEF vars, coordinatorVars, outcomeVars, dataVars
<1> QED
  BY <1>1, <1>2, <1>3, <1>4, <1>5, <1>6, <1>7, <1>8, <1>9, <1>10, <1>11, <1>12, <1>13, <1>14, <1>15, <1>16, <1>17, <1>18, <1>19, <1>20, <1>21, <1>22, <1>23, <1>24
  DEF Next, Coordinator, Scan, Worker, Returned

\* The outcome grows with the goroutine's phase.
LEMMA OutcomeShapeStep ==
  ASSUME Loose, ReadyPending, Lifecycle, OutcomeShape, [Next]_vars
  PROVE  OutcomeShape'
<1> USE ResultsAssumption DEF Loose, ReadyPending, Lifecycle, OutcomeShape, Causes
<1>1. ASSUME NEW m \in Members, ScanPast(m) PROVE OutcomeShape'
  BY <1>1 DEF ScanPast, AtMember, outcomeVars, dataVars
<1>2. ASSUME NEW m \in Members, ScanPending(m) PROVE OutcomeShape'
  BY <1>2 DEF ScanPending, AtMember, outcomeVars, dataVars
<1>3. ASSUME NEW m \in Members, ScanSkip(m) PROVE OutcomeShape'
  BY <1>3 DEF ScanSkip, AtMember, dataVars, SkipCause
<1>4. CASE Rescan
  BY <1>4, RoundShape DEF Rescan, ScanEnded, outcomeVars, dataVars
<1>5. CASE EnterSelect
  BY <1>5 DEF EnterSelect, OffersSlot, outcomeVars, dataVars
<1>6. CASE TakeSlot
  BY <1>6 DEF TakeSlot, outcomeVars, dataVars
<1>7. CASE GiveSlotBack
  BY <1>7, RoundShape DEF GiveSlotBack, TokenBack, outcomeVars, dataVars
<1>8. CASE Spawn
  BY <1>8, RoundShape DEF Spawn, outcomeVars, dataVars
<1>9. ASSUME NEW m \in Members, Receive(m) PROVE OutcomeShape'
  BY <1>9, RoundShape DEF Receive, Record, outcomeVars, dataVars
<1>10. ASSUME NEW m \in Members, DrainReceive(m) PROVE OutcomeShape'
  BY <1>10 DEF DrainReceive, Record, outcomeVars, dataVars
<1>11. CASE SeeCancel
  BY <1>11 DEF SeeCancel, outcomeVars, dataVars
<1>12. CASE DrainEnd
  BY <1>12, RoundShape DEF DrainEnd, outcomeVars, dataVars
<1>13. CASE Reduce
  BY <1>13 DEF Reduce, outcomeVars, dataVars
<1>14. CASE Close
  BY <1>14 DEF Close, outcomeVars, dataVars
<1>15. ASSUME NEW m \in Members, Enter(m) PROVE OutcomeShape'
  BY <1>15 DEF Enter, Goto, coordinatorVars, dataVars
<1>16. ASSUME NEW m \in Members, TakeSnapshot(m) PROVE OutcomeShape'
  BY <1>16 DEF TakeSnapshot, Goto, coordinatorVars, outcomeVars
<1>17. ASSUME NEW m \in Members, Resolve(m) PROVE OutcomeShape'
  BY <1>17 DEF Resolve, Goto, coordinatorVars, dataVars
<1>18. ASSUME NEW m \in Members, Publish(m) PROVE OutcomeShape'
  BY <1>18 DEF Publish, FieldFails, MarkerFails, Written, FailOrdinarily, ObserverFailed, Goto, coordinatorVars
<1>19. ASSUME NEW m \in Members, Observe(m) PROVE OutcomeShape'
  BY <1>19 DEF Observe, Goto, coordinatorVars, dataVars
<1>20. ASSUME NEW m \in Members, CancelIfFatal(m) PROVE OutcomeShape'
  BY <1>20 DEF CancelIfFatal, Goto, coordinatorVars, outcomeVars, dataVars
<1>21. ASSUME NEW m \in Members, Release(m) PROVE OutcomeShape'
  BY <1>21 DEF Release, Goto, coordinatorVars, outcomeVars, dataVars
<1>22. ASSUME NEW m \in Members, Send(m) PROVE OutcomeShape'
  BY <1>22 DEF Send, Goto, coordinatorVars, outcomeVars, dataVars
<1>23. CASE CallerCancels
  BY <1>23 DEF CallerCancels, coordinatorVars, outcomeVars, dataVars
<1>24. CASE UNCHANGED vars
  BY <1>24 DEF vars, coordinatorVars, outcomeVars, dataVars
<1> QED
  BY <1>1, <1>2, <1>3, <1>4, <1>5, <1>6, <1>7, <1>8, <1>9, <1>10, <1>11, <1>12, <1>13, <1>14, <1>15, <1>16, <1>17, <1>18, <1>19, <1>20, <1>21, <1>22, <1>23, <1>24
  DEF Next, Coordinator, Scan, Worker, Returned

-----------------------------------------------------------------------------
(* Layer 3: the counters and the permits are cardinalities.                *)

CompletedSet == {m \in Members : status[m] = "completed"}
RunningSet == {m \in Members : status[m] = "running"}

LEMMA MembersFinite == IsFiniteSet(Members) /\ Cardinality(Members) = N
BY FS_Interval, NAssumption DEF Members

\* A subset of the members is finite and has at most N elements, N only if it
\* holds them all.
LEMMA SubsetOfMembers ==
  ASSUME NEW S \in SUBSET Members
  PROVE  /\ IsFiniteSet(S)
         /\ Cardinality(S) \in 0..N
         /\ Cardinality(S) = N => S = Members
<1>1. IsFiniteSet(S) /\ Cardinality(S) <= N /\ (Cardinality(S) = N => S = Members)
  BY MembersFinite, FS_Subset
<1>2. Cardinality(S) \in Nat
  BY <1>1, FS_CardinalityType
<1> QED
  BY <1>1, <1>2, NAssumption

\* Adding a new member counts one up, removing one counts one down.
LEMMA AddMember ==
  ASSUME NEW S \in SUBSET Members, NEW m \in Members, m \notin S
  PROVE  Cardinality(S \cup {m}) = Cardinality(S) + 1
BY SubsetOfMembers, FS_AddElement

LEMMA RemoveMember ==
  ASSUME NEW S \in SUBSET Members, NEW m \in Members, m \in S
  PROVE  Cardinality(S \ {m}) = Cardinality(S) - 1
BY SubsetOfMembers, FS_RemoveElement

\* Receiving a result moves its member from running to completed.
LEMMA RecordCounts ==
  ASSUME Loose, Lifecycle, CountersAgree, NEW m \in Members, Record(m)
  PROVE  CountersAgree'
<1>1. status[m] = "running"
  BY DEF Record, Lifecycle
<1>2. CompletedSet' = CompletedSet \cup {m} /\ m \notin CompletedSet
  BY <1>1 DEF Record, CompletedSet, Loose
<1>3. RunningSet' = RunningSet \ {m} /\ m \in RunningSet
  BY <1>1 DEF Record, RunningSet, Loose
<1>4. Cardinality(CompletedSet') = Cardinality(CompletedSet) + 1
  BY <1>2, AddMember DEF CompletedSet
<1>5. Cardinality(RunningSet') = Cardinality(RunningSet) - 1
  BY <1>3, RemoveMember DEF RunningSet
<1>6. completed = Cardinality(CompletedSet) /\ running = Cardinality(RunningSet)
  BY DEF CountersAgree, CompletedSet, RunningSet
<1>7. completed' = Cardinality(CompletedSet') /\ running' = Cardinality(RunningSet')
  BY <1>4, <1>5, <1>6 DEF Record
<1> QED
  BY <1>7 DEF CountersAgree, CompletedSet, RunningSet

\* Only a skip, an admission and the receipt of a result move the counters.
LEMMA CountersStep ==
  ASSUME Loose, ReadyPending, Lifecycle, CountersAgree, [Next]_vars
  PROVE  CountersAgree'
<1>1. completed = Cardinality(CompletedSet) /\ running = Cardinality(RunningSet)
  BY DEF CountersAgree, CompletedSet, RunningSet
<1>2. ASSUME NEW m \in Members, ScanSkip(m) PROVE CountersAgree'
  <2>1. CompletedSet' = CompletedSet \cup {m} /\ m \notin CompletedSet
    BY <1>2 DEF ScanSkip, CompletedSet, Loose
  <2>2. RunningSet' = RunningSet
    BY <1>2 DEF ScanSkip, RunningSet, Loose
  <2>3. Cardinality(CompletedSet') = Cardinality(CompletedSet) + 1
    BY <2>1, AddMember DEF CompletedSet
  <2>4. completed' = Cardinality(CompletedSet') /\ running' = Cardinality(RunningSet')
    BY <1>1, <1>2, <2>2, <2>3 DEF ScanSkip
  <2> QED
    BY <2>4 DEF CountersAgree, CompletedSet, RunningSet
<1>3. CASE Spawn
  <2>1. ready \in Members /\ status[ready] = "pending"
    BY <1>3 DEF Spawn, Loose, ReadyPending, Members
  <2>2. RunningSet' = RunningSet \cup {ready} /\ ready \notin RunningSet
    BY <1>3, <2>1 DEF Spawn, RunningSet, Loose
  <2>3. CompletedSet' = CompletedSet
    BY <1>3, <2>1 DEF Spawn, CompletedSet, Loose
  <2>4. Cardinality(RunningSet') = Cardinality(RunningSet) + 1
    BY <2>1, <2>2, AddMember DEF RunningSet
  <2>5. completed' = Cardinality(CompletedSet') /\ running' = Cardinality(RunningSet')
    BY <1>1, <1>3, <2>3, <2>4 DEF Spawn
  <2> QED
    BY <2>5 DEF CountersAgree, CompletedSet, RunningSet
<1>4. ASSUME NEW m \in Members, Receive(m) \/ DrainReceive(m) PROVE CountersAgree'
  BY <1>4, RecordCounts DEF Receive, DrainReceive
<1>5. CASE UNCHANGED <<status, completed, running>>
  BY <1>5 DEF CountersAgree
<1>6. \/ \E m \in Members : ScanSkip(m) \/ Receive(m) \/ DrainReceive(m)
      \/ Spawn
      \/ UNCHANGED <<status, completed, running>>
  BY DEF Next, Coordinator, Scan, ScanPast, ScanPending, Rescan, EnterSelect, TakeSlot,
         GiveSlotBack, SeeCancel, DrainEnd, Reduce, Close, Worker, Enter, TakeSnapshot,
         Resolve, Publish, Observe, CancelIfFatal, Release, Send, CallerCancels, Returned,
         vars, coordinatorVars
<1> QED
  BY <1>2, <1>3, <1>4, <1>5, <1>6

\* A permit is taken by the coordinator, handed to a goroutine and given back by it.
LEMMA PermitsStep ==
  ASSUME Loose, ReadyPending, Lifecycle, PermitsAccounted, [Next]_vars
  PROVE  PermitsAccounted'
<1> DEFINE Transit == IF cpc = "admit" THEN 1 ELSE 0
<1>1. slots = Cardinality(Holders) + Transit
  BY DEF PermitsAccounted
<1>2. Holders \in SUBSET Members /\ Cardinality(Holders) \in Nat
  BY SubsetOfMembers DEF Holders
<1>3. CASE Spawn
  <2>1. ready \in Members /\ wpc[ready] = "idle"
    BY <1>3 DEF Spawn, Loose, ReadyPending, Lifecycle, Members
  <2>2. Holders' = Holders \cup {ready} /\ ready \notin Holders
    BY <1>3, <2>1 DEF Spawn, Holders, Loose, HoldingPhases, WorkerPhases
  <2>3. Cardinality(Holders') = Cardinality(Holders) + 1
    BY <1>2, <2>1, <2>2, AddMember
  <2>4. cpc = "admit" /\ cpc' # "admit" /\ slots' = slots
    BY <1>3, RoundShape DEF Spawn, Loose
  <2> QED
    BY <1>1, <1>2, <2>3, <2>4 DEF PermitsAccounted
<1>4. ASSUME NEW m \in Members, Release(m) PROVE PermitsAccounted'
  <2>1. Holders' = Holders \ {m} /\ m \in Holders
    BY <1>4 DEF Release, Goto, Holders, Loose, HoldingPhases, WorkerPhases
  <2>2. Cardinality(Holders') = Cardinality(Holders) - 1
    BY <1>2, <2>1, RemoveMember
  <2>3. cpc' = cpc /\ slots' = slots - 1
    BY <1>4 DEF Release, coordinatorVars
  <2> QED
    BY <1>1, <1>2, <2>2, <2>3 DEF PermitsAccounted
<1>5. CASE TakeSlot \/ GiveSlotBack
  <2>1. Holders' = Holders
    BY <1>5 DEF TakeSlot, GiveSlotBack, Holders
  <2>2. \/ cpc # "admit" /\ cpc' = "admit" /\ slots' = slots + 1
        \/ cpc = "admit" /\ cpc' # "admit" /\ slots' = slots - 1
    BY <1>5, RoundShape DEF TakeSlot, GiveSlotBack, TokenBack, Loose
  <2> QED
    BY <1>1, <1>2, <2>1, <2>2 DEF PermitsAccounted
<1>6. ASSUME NEW m \in Members,
             Enter(m) \/ TakeSnapshot(m) \/ Resolve(m) \/ Publish(m) \/ Observe(m)
               \/ CancelIfFatal(m) \/ Send(m)
      PROVE  PermitsAccounted'
  <2>1. Holders' = Holders
    BY <1>6 DEF Enter, TakeSnapshot, Resolve, Publish, Observe, CancelIfFatal, Send, Goto,
                Holders, Loose, HoldingPhases, WorkerPhases
  <2>2. cpc' = cpc /\ slots' = slots
    BY <1>6 DEF Enter, TakeSnapshot, Resolve, Publish, Observe, CancelIfFatal, Send,
                coordinatorVars
  <2> QED
    BY <1>1, <2>1, <2>2 DEF PermitsAccounted
<1>7. CASE UNCHANGED <<slots, wpc>> /\ (cpc' = "admit" <=> cpc = "admit")
  <2>1. Holders' = Holders
    BY <1>7 DEF Holders
  <2> QED
    BY <1>1, <1>7, <2>1 DEF PermitsAccounted
<1>8. \/ \E m \in Members : Worker(m)
      \/ Spawn \/ TakeSlot \/ GiveSlotBack
      \/ UNCHANGED <<slots, wpc>> /\ (cpc' = "admit" <=> cpc = "admit")
  BY RoundShape
  DEF Next, Coordinator, Scan, ScanPast, ScanPending, ScanSkip, AtMember, Rescan, ScanEnded,
      EnterSelect, Receive, DrainReceive, SeeCancel, DrainEnd, Reduce, Close, CallerCancels,
      Returned, vars, coordinatorVars, Loose
<1> QED
  BY <1>3, <1>4, <1>5, <1>6, <1>7, <1>8 DEF Worker

-----------------------------------------------------------------------------
(* Layer 4: prerequisites, skips and the verdict.                          *)

\* Publication touches no other member's cause.
LEMMA PublishCause ==
  ASSUME Loose, NEW m \in Members, Publish(m)
  PROVE  /\ \A p \in Members : p # m => cause'[p] = cause[p]
         /\ cause'[m] = cause[m] \/ cause'[m] = "error"
<1>1. cause' = cause \/ cause' = [cause EXCEPT ![m] = "error"]
  BY Zenon DEF Publish, FieldFails, MarkerFails, Written, FailOrdinarily, ObserverFailed
<1>2. cause \in [Members -> Causes]
  BY DEF Loose
<1> QED
  BY <1>1, <1>2

\* A finished, clean prerequisite stays so, and keeps what it published.
LEMMA CleanPrerequisitesStep ==
  ASSUME Loose, ReadyPending, Lifecycle, OutcomeShape, CleanPrerequisites, [Next]_vars
  PROVE  CleanPrerequisites'
<1> USE ResultsAssumption DEF Loose, ReadyPending, Lifecycle, OutcomeShape, CleanPrerequisites, Failed, Causes, Members
<1>1. ASSUME NEW m \in Members, ScanPast(m) PROVE CleanPrerequisites'
  BY <1>1 DEF ScanPast, AtMember, outcomeVars, dataVars
<1>2. ASSUME NEW m \in Members, ScanPending(m) PROVE CleanPrerequisites'
  BY <1>2 DEF ScanPending, AtMember, outcomeVars, dataVars, SkipCause, Waiting, BrokenPrerequisite
<1>3. ASSUME NEW m \in Members, ScanSkip(m) PROVE CleanPrerequisites'
  BY <1>3 DEF ScanSkip, AtMember, dataVars, SkipCause
<1>4. CASE Rescan
  BY <1>4, RoundShape DEF Rescan, ScanEnded, outcomeVars, dataVars
<1>5. CASE EnterSelect
  BY <1>5 DEF EnterSelect, OffersSlot, outcomeVars, dataVars
<1>6. CASE TakeSlot
  BY <1>6 DEF TakeSlot, outcomeVars, dataVars
<1>7. CASE GiveSlotBack
  BY <1>7, RoundShape DEF GiveSlotBack, TokenBack, outcomeVars, dataVars
<1>8. CASE Spawn
  BY <1>8, RoundShape DEF Spawn, outcomeVars, dataVars
<1>9. ASSUME NEW m \in Members, Receive(m) PROVE CleanPrerequisites'
  BY <1>9, RoundShape DEF Receive, Record, outcomeVars, dataVars
<1>10. ASSUME NEW m \in Members, DrainReceive(m) PROVE CleanPrerequisites'
  BY <1>10 DEF DrainReceive, Record, outcomeVars, dataVars
<1>11. CASE SeeCancel
  BY <1>11 DEF SeeCancel, outcomeVars, dataVars
<1>12. CASE DrainEnd
  BY <1>12, RoundShape DEF DrainEnd, outcomeVars, dataVars
<1>13. CASE Reduce
  BY <1>13 DEF Reduce, outcomeVars, dataVars
<1>14. CASE Close
  BY <1>14 DEF Close, outcomeVars, dataVars
<1>15. ASSUME NEW m \in Members, Enter(m) PROVE CleanPrerequisites'
  BY <1>15 DEF Enter, Goto, coordinatorVars, dataVars
<1>16. ASSUME NEW m \in Members, TakeSnapshot(m) PROVE CleanPrerequisites'
  BY <1>16 DEF TakeSnapshot, Goto, coordinatorVars, outcomeVars
<1>17. ASSUME NEW m \in Members, Resolve(m) PROVE CleanPrerequisites'
  BY <1>17 DEF Resolve, Goto, coordinatorVars, dataVars
<1>18. ASSUME NEW m \in Members, Publish(m) PROVE CleanPrerequisites'
  <2>1. status[m] = "running"
    BY <1>18 DEF Publish
  <2>2. \A p \in Members : p # m => cause'[p] = cause[p]
    BY <1>18, PublishCause
  <2>3. /\ UNCHANGED <<dependsOn, status, ready, attempted, found, observeErr, snapshot>>
        /\ \A k \in Members : k # m => wpc'[k] = wpc[k]
        /\ wpc[m] = "publish"
    BY <1>18 DEF Publish, Goto, coordinatorVars
  <2> QED
    BY <2>1, <2>2, <2>3
<1>19. ASSUME NEW m \in Members, Observe(m) PROVE CleanPrerequisites'
  BY <1>19 DEF Observe, Goto, coordinatorVars, dataVars
<1>20. ASSUME NEW m \in Members, CancelIfFatal(m) PROVE CleanPrerequisites'
  BY <1>20 DEF CancelIfFatal, Goto, coordinatorVars, outcomeVars, dataVars
<1>21. ASSUME NEW m \in Members, Release(m) PROVE CleanPrerequisites'
  BY <1>21 DEF Release, Goto, coordinatorVars, outcomeVars, dataVars
<1>22. ASSUME NEW m \in Members, Send(m) PROVE CleanPrerequisites'
  BY <1>22 DEF Send, Goto, coordinatorVars, outcomeVars, dataVars
<1>23. CASE CallerCancels
  BY <1>23 DEF CallerCancels, coordinatorVars, outcomeVars, dataVars
<1>24. CASE UNCHANGED vars
  BY <1>24 DEF vars, coordinatorVars, outcomeVars, dataVars
<1> QED
  BY <1>1, <1>2, <1>3, <1>4, <1>5, <1>6, <1>7, <1>8, <1>9, <1>10, <1>11, <1>12, <1>13, <1>14, <1>15, <1>16, <1>17, <1>18, <1>19, <1>20, <1>21, <1>22, <1>23, <1>24
  DEF Next, Coordinator, Scan, Worker, Returned

\* A skip has a cause that is reported elsewhere.
LEMMA SkipsExplainedStep ==
  ASSUME Loose, ReadyPending, Lifecycle, OutcomeShape, SkipsExplained, [Next]_vars
  PROVE  SkipsExplained'
<1> USE ResultsAssumption DEF Loose, ReadyPending, Lifecycle, OutcomeShape, SkipsExplained, Failed, Reportable, Causes, Members
<1>1. ASSUME NEW m \in Members, ScanPast(m) PROVE SkipsExplained'
  BY <1>1 DEF ScanPast, AtMember, outcomeVars, dataVars
<1>2. ASSUME NEW m \in Members, ScanPending(m) PROVE SkipsExplained'
  BY <1>2 DEF ScanPending, AtMember, outcomeVars, dataVars
<1>3. ASSUME NEW m \in Members, ScanSkip(m) PROVE SkipsExplained'
  BY <1>3 DEF ScanSkip, AtMember, dataVars, SkipCause, BrokenPrerequisite
<1>4. CASE Rescan
  BY <1>4, RoundShape DEF Rescan, ScanEnded, outcomeVars, dataVars
<1>5. CASE EnterSelect
  BY <1>5 DEF EnterSelect, OffersSlot, outcomeVars, dataVars
<1>6. CASE TakeSlot
  BY <1>6 DEF TakeSlot, outcomeVars, dataVars
<1>7. CASE GiveSlotBack
  BY <1>7, RoundShape DEF GiveSlotBack, TokenBack, outcomeVars, dataVars
<1>8. CASE Spawn
  BY <1>8, RoundShape DEF Spawn, outcomeVars, dataVars
<1>9. ASSUME NEW m \in Members, Receive(m) PROVE SkipsExplained'
  BY <1>9, RoundShape DEF Receive, Record, outcomeVars, dataVars
<1>10. ASSUME NEW m \in Members, DrainReceive(m) PROVE SkipsExplained'
  BY <1>10 DEF DrainReceive, Record, outcomeVars, dataVars
<1>11. CASE SeeCancel
  BY <1>11 DEF SeeCancel, outcomeVars, dataVars
<1>12. CASE DrainEnd
  BY <1>12, RoundShape DEF DrainEnd, outcomeVars, dataVars
<1>13. CASE Reduce
  BY <1>13 DEF Reduce, outcomeVars, dataVars
<1>14. CASE Close
  BY <1>14 DEF Close, outcomeVars, dataVars
<1>15. ASSUME NEW m \in Members, Enter(m) PROVE SkipsExplained'
  BY <1>15 DEF Enter, Goto, coordinatorVars, dataVars
<1>16. ASSUME NEW m \in Members, TakeSnapshot(m) PROVE SkipsExplained'
  BY <1>16 DEF TakeSnapshot, Goto, coordinatorVars, outcomeVars
<1>17. ASSUME NEW m \in Members, Resolve(m) PROVE SkipsExplained'
  BY <1>17 DEF Resolve, Goto, coordinatorVars, dataVars
<1>18. ASSUME NEW m \in Members, Publish(m) PROVE SkipsExplained'
  <2>1. UNCHANGED <<dependsOn, status, attempted, found, observeErr, cancelled>>
    BY <1>18 DEF Publish, coordinatorVars
  <2>2. /\ wpc[m] = "publish" /\ status[m] = "running" /\ cause[m] = "none"
        /\ \A p \in Members : p # m => cause'[p] = cause[p]
        /\ cause'[m] \in {"none", "error"}
    <3>1. wpc[m] = "publish" /\ status[m] = "running" /\ cause[m] = "none"
      BY <1>18 DEF Publish
    <3> QED
      BY <1>18, <3>1, PublishCause
  <2>3. \A p \in Members : Reportable(p) => Reportable(p)'
    BY <2>1, <2>2
  <2>4. (\E p \in Members : cause'[p] = "prerequisite") => \E p \in Members : Reportable(p)'
    BY <2>2, <2>3
  <2>5. \A p \in Members : cause'[p] = "canceled" => cancelled'
    BY <2>1, <2>2
  <2>6. \A k \in Members : cause'[k] = "prerequisite" =>
          \E p \in dependsOn'[k] : status'[p] = "completed" /\ Failed(p)'
    <3> TAKE k \in Members
    <3> HAVE cause'[k] = "prerequisite"
    <3>1. k # m /\ cause[k] = "prerequisite"
      BY <2>2
    <3>2. PICK p \in dependsOn[k] : status[p] = "completed" /\ Failed(p)
      BY <3>1
    <3> QED
      BY <2>1, <2>2, <3>2
  <2> QED
    BY <2>4, <2>5, <2>6
<1>19. ASSUME NEW m \in Members, Observe(m) PROVE SkipsExplained'
  BY <1>19 DEF Observe, Goto, coordinatorVars, dataVars
<1>20. ASSUME NEW m \in Members, CancelIfFatal(m) PROVE SkipsExplained'
  BY <1>20 DEF CancelIfFatal, Goto, coordinatorVars, outcomeVars, dataVars
<1>21. ASSUME NEW m \in Members, Release(m) PROVE SkipsExplained'
  BY <1>21 DEF Release, Goto, coordinatorVars, outcomeVars, dataVars
<1>22. ASSUME NEW m \in Members, Send(m) PROVE SkipsExplained'
  BY <1>22 DEF Send, Goto, coordinatorVars, outcomeVars, dataVars
<1>23. CASE CallerCancels
  BY <1>23 DEF CallerCancels, coordinatorVars, outcomeVars, dataVars
<1>24. CASE UNCHANGED vars
  BY <1>24 DEF vars, coordinatorVars, outcomeVars, dataVars
<1> QED
  BY <1>1, <1>2, <1>3, <1>4, <1>5, <1>6, <1>7, <1>8, <1>9, <1>10, <1>11, <1>12, <1>13, <1>14, <1>15, <1>16, <1>17, <1>18, <1>19, <1>20, <1>21, <1>22, <1>23, <1>24
  DEF Next, Coordinator, Scan, Worker, Returned

\* When the counter says so, every member is completed.
LEMMA AllCompleted ==
  ASSUME Loose, CountersAgree, completed = N
  PROVE  \A m \in Members : status[m] = "completed"
<1>1. CompletedSet \in SUBSET Members /\ Cardinality(CompletedSet) = N
  BY DEF CountersAgree, CompletedSet
<1>2. CompletedSet = Members
  BY <1>1, SubsetOfMembers
<1> QED
  BY <1>2 DEF CompletedSet

\* The counters stay within the group.
LEMMA CounterBounds ==
  ASSUME Loose, CountersAgree
  PROVE  completed \in 0..N /\ running \in 0..N
<1>1. CompletedSet \in SUBSET Members /\ RunningSet \in SUBSET Members
  BY DEF CompletedSet, RunningSet
<1> QED
  BY <1>1, SubsetOfMembers DEF CountersAgree, CompletedSet, RunningSet

\* The same bound after a step.
LEMMA CompletedBoundAfter ==
  ASSUME CountersAgree'
  PROVE  completed' \in 0..N
<1>1. CompletedSet' \in SUBSET Members
  BY DEF CompletedSet
<1> QED
  BY <1>1, SubsetOfMembers DEF CountersAgree, CompletedSet

\* A step starts a new round, or keeps the round's start and ends in no phase
\* after the loop except by Reduce and Close.
LEMMA RoundSteps ==
  ASSUME [Next]_vars
  PROVE  \/ NextRound(completed) /\ completed' = completed
         \/ NextRound(completed + 1) /\ completed' = completed + 1
         \/ /\ before' = before
            /\ cpc' = cpc \/ cpc' \in {"select", "admit", "drain"} \/ Reduce \/ Close
<1> DEFINE Keeps ==
      /\ before' = before
      /\ cpc' = cpc \/ cpc' \in {"select", "admit", "drain"} \/ Reduce \/ Close
<1>1. CASE Rescan \/ GiveSlotBack \/ Spawn \/ DrainEnd
  BY <1>1 DEF Rescan, GiveSlotBack, Spawn, DrainEnd
<1>2. ASSUME NEW m \in Members, Receive(m)
      PROVE  NextRound(completed + 1) /\ completed' = completed + 1
  BY <1>2 DEF Receive, Record
<1>3. ASSUME NEW m \in Members,
             ScanPast(m) \/ ScanPending(m) \/ ScanSkip(m) \/ DrainReceive(m) \/ Worker(m)
      PROVE  Keeps
  BY <1>3 DEF ScanPast, ScanPending, ScanSkip, DrainReceive, Worker, Enter, TakeSnapshot,
              Resolve, Publish, Observe, CancelIfFatal, Release, Send, coordinatorVars
<1>4. CASE EnterSelect \/ TakeSlot \/ SeeCancel
  BY <1>4 DEF EnterSelect, TakeSlot, SeeCancel
<1>5. CASE Reduce \/ Close
  BY <1>5 DEF Reduce, Close
<1>6. CASE CallerCancels \/ UNCHANGED vars
  BY <1>6 DEF CallerCancels, vars, coordinatorVars
<1> QED
  BY <1>1, <1>2, <1>3, <1>4, <1>5, <1>6 DEF Next, Coordinator, Scan, Returned

\* The loop is left only when every member is completed, and by then nobody
\* changes an outcome any more.
LEMMA EndingStep ==
  ASSUME Loose, ReadyPending, Lifecycle, CountersAgree, CountersAgree', Loose', Ending, [Next]_vars
  PROVE  Ending'
<1>1. cpc \in {"reduce", "close", "returned"} =>
        \A m \in Members : status[m] = "completed" /\ wpc[m] \in {"idle", "gone"}
  BY AllCompleted DEF Ending, Lifecycle
<1>2. CASE Reduce
  <2>1. cpc = "reduce" /\ cpc' = "close" /\ UNCHANGED <<completed, outcomeVars>>
    BY <1>2 DEF Reduce
  <2>2. result' # "none" /\ (result' = "nil" => ~Reported)
    BY <1>2 DEF Reduce
  <2>3. ~Reported => \A m \in Members : ~Reportable(m)
    BY DEF Reported, Reportable
  <2>4. (\A m \in Members : ~Reportable(m)) => \A m \in Members : ~Reportable(m)'
    BY <2>1 DEF Reportable, outcomeVars
  <2>5. completed' = N
    BY <2>1 DEF Ending
  <2> QED
    BY <2>1, <2>2, <2>3, <2>4, <2>5 DEF Ending
<1>3. CASE Close
  <2>1. cpc = "close" /\ cpc' = "returned" /\ UNCHANGED <<completed, outcomeVars>>
    BY <1>3 DEF Close
  <2>2. result' # "none" /\ (result' = "nil" => result = "nil")
    BY <1>3, <2>1 DEF Close, Ending
  <2>3. (\A m \in Members : ~Reportable(m)) => \A m \in Members : ~Reportable(m)'
    BY <2>1 DEF Reportable, outcomeVars
  <2> QED
    BY <2>1, <2>2, <2>3 DEF Ending
<1>4. CASE cpc \in {"scan", "select", "admit", "drain"} /\ ~Reduce /\ ~Close
  <2>1. result = "none"
    BY <1>4 DEF Ending, Loose
  <2>2. result' = "none"
    BY <1>4, <2>1
    DEF Next, Coordinator, Scan, ScanPast, ScanPending, ScanSkip, Rescan, EnterSelect, TakeSlot,
        GiveSlotBack, Spawn, Receive, DrainReceive, SeeCancel, DrainEnd, Worker, Enter,
        TakeSnapshot, Resolve, Publish, Observe, CancelIfFatal, Release, Send, CallerCancels,
        Returned, vars
  <2>3. /\ cpc' \in {"reduce", "close", "returned"} => completed' = N
        /\ cpc' \notin {"close", "returned"}
    <3>1. \/ cpc' \in {"scan", "select", "admit", "drain"}
          \/ NextRound(completed) /\ completed' = completed
          \/ NextRound(completed + 1) /\ completed' = completed + 1
      BY <1>4, RoundSteps
    <3>2. completed' \in 0..N
      BY CompletedBoundAfter
    <3>3. completed \in Int /\ completed + 1 \in Int
      BY DEF Loose
    <3>4. /\ cpc' \in {"reduce", "close", "returned"} => completed' >= N
          /\ cpc' \notin {"close", "returned"}
      BY <3>1, <3>3, RoundShape
    <3> QED
      BY <3>2, <3>4, NAssumption
  <2> QED
    BY <2>2, <2>3 DEF Ending
<1>5. CASE cpc \in {"reduce", "close", "returned"} /\ ~Reduce /\ ~Close
  <2>1. \A m \in Members : ~Worker(m)
    BY <1>1, <1>5 DEF Worker, Enter, TakeSnapshot, Resolve, Publish, Observe, CancelIfFatal,
                      Release, Send
  <2>2. UNCHANGED <<cpc, completed, outcomeVars, result>>
    BY <1>5, <2>1
    DEF Next, Coordinator, Scan, ScanPast, ScanPending, ScanSkip, AtMember, Rescan, ScanEnded,
        EnterSelect, TakeSlot, GiveSlotBack, Spawn, Receive, DrainReceive, SeeCancel, DrainEnd,
        CallerCancels, Returned, vars, coordinatorVars
  <2>3. (\A m \in Members : ~Reportable(m)) => \A m \in Members : ~Reportable(m)'
    BY <2>2 DEF Reportable, outcomeVars
  <2> QED
    BY <2>2, <2>3 DEF Ending
<1> QED
  BY <1>2, <1>3, <1>4, <1>5 DEF Loose, CoordinatorPhases

\* No admission exceeds the capacity, and a round starts within the counter's range.
LEMMA BoundsStep ==
  ASSUME Loose, CountersAgree, CountersAgree', Loose',
         slots <= Limit, before \in 0..N, [Next]_vars
  PROVE  slots' <= Limit /\ before' \in 0..N
<1>1. \/ slots' = slots \/ slots' = slots - 1
      \/ slots < Limit /\ slots' = slots + 1
  BY DEF Next, Coordinator, Scan, ScanPast, ScanPending, ScanSkip, Rescan, EnterSelect, TakeSlot,
      FreeSlot, GiveSlotBack, TokenBack, Spawn, Receive, DrainReceive, SeeCancel, DrainEnd,
      Reduce, Close, Worker, Enter, TakeSnapshot, Resolve, Publish, Observe, CancelIfFatal,
      Release, Send, CallerCancels, Returned, vars
<1>2. \/ before' = before
      \/ NextRound(completed)
      \/ NextRound(completed + 1) /\ completed' = completed + 1
  BY RoundSteps
<1>3. completed \in 0..N /\ completed' \in 0..N
  BY CounterBounds, CompletedBoundAfter
<1>4. completed \in Int /\ completed + 1 \in Int
  BY DEF Loose
<1>5. before' \in 0..N
  BY <1>2, <1>3, <1>4, RoundShape
<1>6. slots' <= Limit
  BY <1>1, LimitAssumption DEF Loose
<1> QED
  BY <1>5, <1>6

-----------------------------------------------------------------------------
(* The theorems.                                                           *)

LEMMA InitIInv == ASSUME Init PROVE IInv
<1> USE NAssumption, LimitAssumption, PlansAssumption DEF Init
<1>1. Loose
  <2>1. offered \in BOOLEAN /\ cancelled \in BOOLEAN
    BY Zenon
  <2>2. cpos \in 1..(N + 1) /\ ready \in 0..N
    OBVIOUS
  <2> QED
    BY <2>1, <2>2 DEF Loose, Members, CoordinatorPhases, WorkerPhases, Causes
<1>2. ReadyPending /\ Lifecycle /\ OutcomeShape
  BY DEF ReadyPending, Lifecycle, OutcomeShape
<1>3. CleanPrerequisites /\ SkipsExplained /\ Ending
  BY DEF CleanPrerequisites, SkipsExplained, Ending, Members
<1>4. CompletedSet = {} /\ RunningSet = {} /\ Holders = {}
  BY DEF CompletedSet, RunningSet, Holders, HoldingPhases
<1>5. Cardinality(CompletedSet) = 0 /\ Cardinality(RunningSet) = 0 /\ Cardinality(Holders) = 0
  BY <1>4, FS_EmptySet
<1>6. CountersAgree
  BY <1>5 DEF CountersAgree, CompletedSet, RunningSet
<1>7. PermitsAccounted
  BY <1>5 DEF PermitsAccounted
<1> QED
  BY <1>1, <1>2, <1>3, <1>6, <1>7 DEF IInv

LEMMA NextIInv == ASSUME IInv, [Next]_vars PROVE IInv'
<1>1. Loose' /\ ReadyPending' /\ Lifecycle' /\ OutcomeShape'
  BY LooseStep, ReadyPendingStep, LifecycleStep, OutcomeShapeStep DEF IInv
<1>2. CountersAgree' /\ PermitsAccounted'
  BY CountersStep, PermitsStep DEF IInv
<1>3. slots' <= Limit /\ before' \in 0..N
  BY <1>1, <1>2, BoundsStep DEF IInv
<1>4. CleanPrerequisites' /\ SkipsExplained'
  BY CleanPrerequisitesStep, SkipsExplainedStep DEF IInv
<1>5. Ending'
  BY <1>1, <1>2, EndingStep DEF IInv
<1> QED
  BY <1>1, <1>2, <1>3, <1>4, <1>5 DEF IInv

\* The strengthened invariant holds in every reachable state of the group.
THEOREM Invariance == Spec => []IInv
<1>1. Init => IInv
  BY InitIInv
<1>2. IInv /\ [Next]_vars => IInv'
  BY NextIInv
<1> QED
  BY <1>1, <1>2, PTL DEF Spec

\* Every variable has its type: in particular the number of tokens in the
\* scheduler's channel stays within its capacity.
THEOREM TypeCorrect == Spec => []TypeOK
<1>1. IInv => TypeOK
  <2> SUFFICES ASSUME IInv PROVE TypeOK
    OBVIOUS
  <2>1. completed \in 0..N /\ running \in 0..N
    BY CounterBounds DEF IInv
  <2>2. slots \in 0..Limit
    <3>1. Cardinality(Holders) \in Nat
      BY SubsetOfMembers DEF Holders
    <3> QED
      BY <3>1, LimitAssumption DEF IInv, PermitsAccounted, Loose
  <2> QED
    BY <2>1, <2>2 DEF IInv, Loose, TypeOK
<1> QED
  BY <1>1, Invariance, PTL

\* Permits are never lost nor invented.
THEOREM PermitAccounting == Spec => []PermitsAccounted
<1>1. IInv => PermitsAccounted
  BY DEF IInv
<1> QED
  BY <1>1, Invariance, PTL

\* Counters and status table agree.
THEOREM CounterAgreement == Spec => []CountersAgree
<1>1. IInv => CountersAgree
  BY DEF IInv
<1> QED
  BY <1>1, Invariance, PTL

\* An attempted member has clean, finished prerequisites and sees their values.
THEOREM PrerequisiteOrder == Spec => []PrerequisitesPublished
<1>1. IInv => PrerequisitesPublished
  BY DEF IInv, PrerequisitesPublished, CleanPrerequisites, OutcomeShape, Loose
<1> QED
  BY <1>1, Invariance, PTL

\* A member is skipped only for a failed prerequisite or a canceled context.
THEOREM SkipReason == Spec => []SkippedForAReason
<1>1. IInv => SkippedForAReason
  BY DEF IInv, SkippedForAReason, SkipsExplained, OutcomeShape, Loose
<1> QED
  BY <1>1, Invariance, PTL

\* The controller's run is closed after all of the group's work was joined and
\* every member was observed exactly once.
THEOREM CloseAfterJoin == Spec => []ClosedAfterJoin
<1>1. IInv => ClosedAfterJoin
  <2> SUFFICES ASSUME IInv, cpc \in {"close", "returned"}
               PROVE  /\ \A m \in Members : wpc[m] \in {"idle", "gone"} /\ observes[m] = 1
                      /\ slots = 0 /\ done = {}
    BY DEF ClosedAfterJoin
  <2>1. \A m \in Members : status[m] = "completed"
    BY AllCompleted DEF IInv, Ending
  <2>2. \A m \in Members : wpc[m] \in {"idle", "gone"} /\ observes[m] = 1 /\ m \notin done
    BY <2>1 DEF IInv, Lifecycle, OutcomeShape
  <2>3. Holders = {}
    BY <2>2 DEF Holders, HoldingPhases
  <2>4. slots = 0
    BY <2>3, FS_EmptySet DEF IInv, PermitsAccounted
  <2> QED
    BY <2>2, <2>4 DEF IInv, Loose
<1> QED
  BY <1>1, Invariance, PTL

\* A nil error means that every member was bound.
THEOREM NilVerdict == Spec => []NilMeansAllBound
<1>1. IInv => NilMeansAllBound
  <2> SUFFICES ASSUME IInv, result = "nil", NEW m \in Members
               PROVE  m \in attempted /\ ~Failed(m) /\ (m \in found => m \in published \cap marked)
    BY DEF NilMeansAllBound
  <2>1. \A k \in Members : ~Reportable(k)
    BY DEF IInv, Ending
  <2>2. cause[m] = "none" /\ m \notin observeErr
    BY <2>1 DEF IInv, SkipsExplained, Reportable
  <2>3. status[m] = "completed" /\ wpc[m] = "gone"
    <3>1. status[m] = "completed"
      BY AllCompleted DEF IInv, Ending
    <3> QED
      BY <2>2, <3>1 DEF IInv, Lifecycle, OutcomeShape
  <2> QED
    BY <2>2, <2>3 DEF IInv, OutcomeShape, Failed
<1> QED
  BY <1>1, Invariance, PTL

\* A value published by a member that then failed is in the target of a group
\* that does not return nil; it is terminal exactly with its marker set, and
\* nothing that depends on the member is attempted.
THEOREM FaultyPublication == Spec => []FaultyPublicationReported
<1>1. IInv => FaultyPublicationReported
  <2> SUFFICES ASSUME IInv, NEW m \in published, cause[m] # "none"
               PROVE  /\ result # "nil"
                      /\ m \in terminal <=> m \in marked
                      /\ \A d \in Members : m \in dependsOn[d] => d \notin attempted
    BY DEF FaultyPublicationReported
  <2>1. m \in Members /\ (m \in terminal <=> m \in marked)
    BY DEF IInv, OutcomeShape, Loose
  <2>2. result # "nil"
    <3>1. result = "nil" => ~Reportable(m)
      BY <2>1 DEF IInv, Ending
    <3>2. wpc[m] # "idle" /\ cause[m] = "error"
      BY <2>1 DEF IInv, OutcomeShape, Loose
    <3> QED
      BY <3>1, <3>2 DEF Reportable
  <2>3. ASSUME NEW d \in Members, m \in dependsOn[d], d \in attempted PROVE FALSE
    <3>1. wpc[d] # "idle"
      BY <2>3 DEF IInv, OutcomeShape
    <3>2. ~Failed(m)
      BY <2>3, <3>1 DEF IInv, CleanPrerequisites
    <3> QED
      BY <3>2 DEF Failed
  <2> QED
    BY <2>1, <2>2, <2>3
<1> QED
  BY <1>1, Invariance, PTL

\* A fatal outcome has canceled the group before its permit is released.
FatalCanceled ==
  \A m \in Members : Fatal(m) /\ wpc[m] \in {"release", "send", "gone"} => cancelled

LEMMA FatalCanceledStep ==
  ASSUME IInv, FatalCanceled, [Next]_vars
  PROVE  FatalCanceled'
<1> USE DEF IInv, Loose, FatalCanceled, Fatal
<1>1. cancelled => cancelled'
  BY DEF Next, Coordinator, Scan, ScanPast, ScanPending, ScanSkip, Rescan, EnterSelect, TakeSlot,
      GiveSlotBack, Spawn, Receive, DrainReceive, SeeCancel, DrainEnd, Reduce, Close,
      Worker, Enter, TakeSnapshot, Resolve, Publish, Observe, CancelIfFatal, Release, Send,
      CallerCancels, Returned, vars
<1>2. ASSUME NEW m \in Members, Worker(m) PROVE FatalCanceled'
  <2>1. CASE CancelIfFatal(m)
    BY <1>1, <2>1 DEF CancelIfFatal, Goto, outcomeVars
  <2>2. CASE Release(m) \/ Send(m)
    BY <1>1, <2>2 DEF Release, Send, Goto, outcomeVars
  <2>3. CASE Enter(m) \/ TakeSnapshot(m) \/ Resolve(m) \/ Publish(m) \/ Observe(m)
    <3>1. wpc'[m] \notin {"release", "send", "gone"}
      BY <2>3 DEF Enter, TakeSnapshot, Resolve, Publish, Observe, Goto
    <3>2. \A k \in Members : k # m =>
            /\ wpc'[k] = wpc[k]
            /\ k \in observeErr' <=> k \in observeErr
            /\ k \in terminal' <=> k \in terminal
      BY <2>3 DEF Enter, TakeSnapshot, Resolve, Publish, FieldFails, MarkerFails, Written,
                   FailOrdinarily, ObserverFailed, Observe, Goto, outcomeVars
    <3> QED
      BY <1>1, <3>1, <3>2
  <2> QED
    BY <1>2, <2>1, <2>2, <2>3 DEF Worker
<1>3. ASSUME NEW m \in Members, ScanSkip(m) PROVE FatalCanceled'
  BY <1>1, <1>3 DEF ScanSkip, Lifecycle
<1>4. CASE Spawn
  BY <1>1, <1>4 DEF Spawn, outcomeVars
<1>5. CASE UNCHANGED <<wpc, terminal, observeErr>>
  BY <1>1, <1>5
<1>6. \/ \E m \in Members : Worker(m) \/ ScanSkip(m)
      \/ Spawn
      \/ UNCHANGED <<wpc, terminal, observeErr>>
  BY DEF Next, Coordinator, Scan, ScanPast, ScanPending, Rescan, EnterSelect, TakeSlot,
      GiveSlotBack, Receive, DrainReceive, SeeCancel, DrainEnd, Reduce, Close, CallerCancels,
      Returned, vars, outcomeVars
<1> QED
  BY <1>2, <1>3, <1>4, <1>5, <1>6

\* A permit freed by a fatal member admits nobody.
THEOREM AdmissionStops == Spec => NoAdmissionAfterFatal
<1>1. Init => FatalCanceled
  BY DEF Init, FatalCanceled
<1>2. IInv /\ FatalCanceled /\ [Next]_vars => FatalCanceled'
  BY FatalCanceledStep
<1>3. IInv /\ FatalCanceled /\ [Next]_vars =>
        [(\E f \in Members : Fatal(f) /\ wpc[f] \in {"send", "gone"})
           => \A m \in Members : wpc[m] = "idle" => wpc'[m] = "idle"]_vars
  <2> SUFFICES ASSUME IInv, FatalCanceled, Next,
                      NEW f \in Members, Fatal(f), wpc[f] \in {"send", "gone"},
                      NEW m \in Members, wpc[m] = "idle"
               PROVE  wpc'[m] = "idle"
    OBVIOUS
  <2>1. cancelled
    BY DEF FatalCanceled
  <2>2. ~Spawn
    BY <2>1 DEF Spawn, AdmissionAllowed
  <2>3. ASSUME NEW k \in Members, Worker(k) PROVE wpc'[m] = wpc[m]
    BY <2>3 DEF Worker, Enter, TakeSnapshot, Resolve, Publish, Observe, CancelIfFatal, Release,
                Send, Goto, IInv, Loose
  <2>4. (\E k \in Members : Worker(k)) \/ UNCHANGED wpc
    BY <2>2 DEF Next, Coordinator, Scan, ScanPast, ScanPending, ScanSkip, Rescan, EnterSelect,
        TakeSlot, GiveSlotBack, Receive, DrainReceive, SeeCancel, DrainEnd, Reduce, Close,
        CallerCancels, Returned, vars
  <2> QED
    BY <2>3, <2>4
<1> QED
  BY <1>1, <1>2, <1>3, Invariance, PTL DEF Spec, NoAdmissionAfterFatal

-----------------------------------------------------------------------------
(* DependencyGroup implements GroupContract for every number of members,   *)
(* capacity and prerequisite graph: initial states map to initial states,  *)
(* and every step maps to a step of the contract or to a stutter.          *)

AbstractPhase == [m \in Members |-> PhaseOf(m)]

\* The phase of a member in terms of its goroutine and status.
LEMMA PhaseCases ==
  ASSUME IInv, NEW m \in Members
  PROVE  /\ PhaseOf(m) = "running" <=> wpc[m] \in HoldingPhases
         /\ PhaseOf(m) = "waiting" <=> wpc[m] = "idle" /\ status[m] # "completed"
         /\ PhaseOf(m) = "skipped" <=> wpc[m] = "idle" /\ status[m] = "completed"
         /\ PhaseOf(m) = "succeeded" <=> wpc[m] \in {"send", "gone"} /\ ~Failed(m)
         /\ PhaseOf(m) = "failed" <=> wpc[m] \in {"send", "gone"} /\ Failed(m)
<1>1. wpc[m] \in WorkerPhases
  BY DEF IInv, Loose
<1>2. CASE wpc[m] \in HoldingPhases
  BY <1>2 DEF PhaseOf, HoldingPhases
<1>3. CASE wpc[m] \in {"send", "gone"}
  BY <1>3 DEF PhaseOf, HoldingPhases
<1>4. CASE wpc[m] = "idle"
  BY <1>4 DEF PhaseOf, HoldingPhases
<1> QED
  BY <1>1, <1>2, <1>3, <1>4 DEF HoldingPhases

\* A step that moves one member only, and the prime of the phase function.
LEMMA PhaseFunction ==
  /\ AbstractPhase \in [Members -> {PhaseOf(m) : m \in Members}]
  /\ \A m \in Members : AbstractPhase[m] = PhaseOf(m)
  /\ \A m \in Members : AbstractPhase'[m] = PhaseOf(m)'
BY DEF AbstractPhase

\* Steps that change no member's phase.
LEMMA SamePhases ==
  ASSUME \A m \in Members : PhaseOf(m)' = PhaseOf(m)
  PROVE  AbstractPhase' = AbstractPhase
BY DEF AbstractPhase

\* Steps that change one member's phase.
LEMMA OnePhase ==
  ASSUME NEW k \in Members, \A m \in Members : m # k => PhaseOf(m)' = PhaseOf(m)
  PROVE  AbstractPhase' = [AbstractPhase EXCEPT ![k] = PhaseOf(k)']
BY DEF AbstractPhase

\* The contract counts as running exactly the members that hold a permit.
LEMMA RunningAreHolders ==
  ASSUME IInv
  PROVE  {w \in Members : AbstractPhase[w] = "running"} = Holders
BY PhaseCases DEF AbstractPhase, Holders

\* Cancellation is never taken back.
LEMMA CancelRises ==
  ASSUME IInv, [Next]_vars
  PROVE  cancelled' \in {cancelled, TRUE}
<1>1. cancelled => cancelled'
  BY DEF Next, Coordinator, Scan, ScanPast, ScanPending, ScanSkip, Rescan, EnterSelect, TakeSlot,
      GiveSlotBack, Spawn, Receive, DrainReceive, SeeCancel, DrainEnd, Reduce, Close,
      Worker, Enter, TakeSnapshot, Resolve, Publish, Observe, CancelIfFatal, Release, Send,
      CallerCancels, Returned, vars
<1>2. Loose /\ Loose'
  BY LooseStep DEF IInv
<1>3. cancelled \in BOOLEAN /\ cancelled' \in BOOLEAN
  BY <1>2 DEF Loose
<1> QED
  BY <1>1, <1>3, Zenon

LEMMA InitRefines == ASSUME Init PROVE Contract!Init
<1>1. \A m \in Members : PhaseOf(m) = "waiting"
  BY DEF Init, PhaseOf, HoldingPhases
<1>2. Verdict = "open"
  BY DEF Init, Verdict
<1> QED
  BY <1>1, <1>2 DEF Init, Contract!Init

\* A skip.
LEMMA SkipRefines ==
  ASSUME IInv, NEW m \in Members, ScanSkip(m)
  PROVE  Contract!Skip(m)
<1> USE DEF AbstractPhase
<1>1. wpc[m] = "idle" /\ status[m] = "pending" /\ UNCHANGED <<wpc, dependsOn, result, cpc>>
  BY DEF ScanSkip, IInv, Lifecycle
<1>2. AbstractPhase[m] = "waiting"
  BY <1>1, PhaseCases
<1>3. PhaseOf(m)' = "skipped"
  BY <1>1 DEF ScanSkip, PhaseOf, HoldingPhases, IInv, Loose
<1>4. \A k \in Members : k # m => PhaseOf(k)' = PhaseOf(k)
  BY <1>1 DEF ScanSkip, PhaseOf, HoldingPhases, Failed, IInv, Loose
<1>5. AbstractPhase' = [AbstractPhase EXCEPT ![m] = "skipped"]
  BY <1>3, <1>4, OnePhase
<1>6. cancelled \/ \E p \in dependsOn[m] : AbstractPhase[p] \in {"failed", "skipped"}
  <2>1. cancelled \/ BrokenPrerequisite(m)
    BY DEF ScanSkip, SkipCause
  <2>2. SUFFICES ASSUME NEW p \in dependsOn[m], status[p] = "completed", Failed(p)
                 PROVE  AbstractPhase[p] \in {"failed", "skipped"}
    BY <2>1 DEF BrokenPrerequisite
  <2>3. p \in Members /\ wpc[p] \in {"idle", "gone"}
    BY <2>2 DEF IInv, Loose, Lifecycle
  <2> QED
    BY <2>2, <2>3, PhaseCases
<1>7. cancelled' \in {cancelled, TRUE}
  BY CancelRises DEF Next, Coordinator, Scan
<1>8. Verdict' = Verdict
  BY <1>1 DEF Verdict
<1> QED
  BY <1>1, <1>2, <1>5, <1>6, <1>7, <1>8 DEF Contract!Skip

\* An admission.
LEMMA SpawnRefines ==
  ASSUME IInv, Spawn, NEW k \in Members, k = ready
  PROVE  Contract!Start(k)
<1> USE DEF AbstractPhase
<1>1. status[k] = "pending" /\ wpc[k] = "idle" /\ cpc = "admit"
  BY DEF Spawn, IInv, Loose, ReadyPending, Lifecycle, Members
<1>2. UNCHANGED <<dependsOn, cancelled, result, cause, observeErr>> /\ ~cancelled
  BY DEF Spawn, AdmissionAllowed, outcomeVars
<1>3. AbstractPhase[k] = "waiting"
  BY <1>1, PhaseCases
<1>4. PhaseOf(k)' = "running"
  <2>1. wpc'[k] = "enter"
    BY DEF Spawn, IInv, Loose
  <2> QED
    BY <2>1 DEF PhaseOf, HoldingPhases, WorkerPhases
<1>5. \A m \in Members : m # k => PhaseOf(m)' = PhaseOf(m)
  BY <1>1, <1>2 DEF Spawn, PhaseOf, HoldingPhases, Failed, IInv, Loose
<1>6. AbstractPhase' = [AbstractPhase EXCEPT ![k] = "running"]
  BY <1>1, <1>4, <1>5, OnePhase
<1>7. \A p \in dependsOn[k] : AbstractPhase[p] = "succeeded"
  <2> TAKE p \in dependsOn[k]
  <2>1. p \in Members /\ status[p] = "completed" /\ ~Failed(p)
    BY <1>1 DEF IInv, Loose, CleanPrerequisites
  <2>2. wpc[p] = "gone"
    BY <2>1 DEF IInv, Lifecycle, OutcomeShape, Failed
  <2> QED
    BY <2>1, <2>2, PhaseCases
<1>8. Cardinality({w \in Members : AbstractPhase[w] = "running"}) < Limit
  <2>1. slots = Cardinality(Holders) + 1 /\ slots <= Limit
    BY <1>1 DEF IInv, PermitsAccounted
  <2>2. Cardinality(Holders) \in Nat
    BY SubsetOfMembers DEF Holders
  <2>3. Cardinality(Holders) < Limit
    BY <2>1, <2>2, LimitAssumption
  <2> QED
    BY <2>3, RunningAreHolders
<1>9. Verdict' = Verdict
  <2>1. cpc' # "close" /\ cpc # "close"
    BY <1>1, RoundShape DEF Spawn, IInv, Loose
  <2> QED
    BY <1>2, <2>1 DEF Verdict
<1> QED
  BY <1>1, <1>2, <1>3, <1>6, <1>7, <1>8, <1>9 DEF Contract!Start, Contract!Cardinality, Cardinality

\* The end of a member is the release of its permit.
LEMMA ReleaseRefines ==
  ASSUME IInv, NEW m \in Members, Release(m)
  PROVE  Contract!Finish(m)
<1> USE DEF AbstractPhase
<1>1. wpc[m] = "release" /\ UNCHANGED <<dependsOn, cancelled, result, cpc, status, cause, observeErr>>
  BY DEF Release, coordinatorVars, outcomeVars
<1>2. AbstractPhase[m] = "running"
  BY <1>1, PhaseCases DEF HoldingPhases, WorkerPhases
<1>3. PhaseOf(m)' \in {"succeeded", "failed"}
  BY <1>1 DEF Release, Goto, PhaseOf, HoldingPhases, IInv, Loose
<1>4. \A k \in Members : k # m => PhaseOf(k)' = PhaseOf(k)
  BY <1>1 DEF Release, Goto, PhaseOf, HoldingPhases, Failed, IInv, Loose
<1>5. AbstractPhase' = [AbstractPhase EXCEPT ![m] = PhaseOf(m)']
  BY <1>4, OnePhase
<1>6. Verdict' = Verdict
  BY <1>1 DEF Verdict
<1> QED
  BY <1>1, <1>2, <1>3, <1>5, <1>6 DEF Contract!Finish

\* The other steps of a goroutine keep the member running, or keep it done.
LEMMA WorkerRefines ==
  ASSUME IInv, NEW m \in Members, Worker(m), ~Release(m)
  PROVE  AbstractPhase' = AbstractPhase /\ UNCHANGED <<dependsOn, Verdict>>
           /\ cancelled' \in {cancelled, TRUE}
<1>1. UNCHANGED <<dependsOn, cpc, status, result>>
  BY DEF Worker, Enter, TakeSnapshot, Resolve, Publish, Observe, CancelIfFatal, Send, coordinatorVars
<1>2. cancelled' \in {cancelled, TRUE}
  BY CancelRises DEF Next
<1>3. \A k \in Members : k # m =>
        /\ wpc'[k] = wpc[k] /\ cause'[k] = cause[k]
        /\ k \in observeErr' <=> k \in observeErr
  <2>1. CASE Publish(m)
    BY <2>1, PublishCause DEF Publish, Goto, IInv, Loose
  <2>2. CASE Enter(m) \/ TakeSnapshot(m) \/ Resolve(m) \/ Observe(m) \/ CancelIfFatal(m) \/ Send(m)
    BY <2>2 DEF Enter, TakeSnapshot, Resolve, Observe, CancelIfFatal, Send, Goto, IInv, Loose, outcomeVars
  <2> QED
    BY <2>1, <2>2 DEF Worker
<1>4. \/ wpc[m] \in HoldingPhases /\ wpc'[m] \in HoldingPhases
      \/ wpc[m] = "send" /\ wpc'[m] = "gone" /\ UNCHANGED <<cause, observeErr>>
  BY DEF Worker, Enter, TakeSnapshot, Resolve, Publish, Observe, CancelIfFatal, Send, Goto,
         HoldingPhases, WorkerPhases, IInv, Loose, outcomeVars
<1>5. PhaseOf(m)' = PhaseOf(m)
  BY <1>4 DEF PhaseOf, Failed, HoldingPhases
<1>6. \A k \in Members : k # m => PhaseOf(k)' = PhaseOf(k)
  BY <1>1, <1>3 DEF PhaseOf, Failed
<1>7. AbstractPhase' = AbstractPhase
  BY <1>5, <1>6, SamePhases
<1> QED
  BY <1>1, <1>2, <1>7 DEF Verdict

\* The other steps of the coordinator are not visible in the contract.
LEMMA CoordinatorStutters ==
  ASSUME IInv, Coordinator, ~Spawn, ~Reduce, ~Close, \A m \in Members : ~ScanSkip(m)
  PROVE  AbstractPhase' = AbstractPhase /\ UNCHANGED <<dependsOn, cancelled, Verdict>>
<1>1. UNCHANGED <<dependsOn, cancelled, wpc, cause, observeErr, result>>
  BY DEF Coordinator, Scan, ScanPast, ScanPending, Rescan, EnterSelect, TakeSlot, GiveSlotBack,
         Receive, DrainReceive, SeeCancel, DrainEnd, outcomeVars
<1>2. \A k \in Members : wpc[k] = "idle" => status'[k] = status[k]
  BY DEF Coordinator, Scan, ScanPast, ScanPending, Rescan, EnterSelect, TakeSlot, GiveSlotBack,
         Receive, DrainReceive, Record, SeeCancel, DrainEnd, IInv, Lifecycle, Loose
<1>3. \A k \in Members : PhaseOf(k)' = PhaseOf(k)
  BY <1>1, <1>2 DEF PhaseOf, Failed, HoldingPhases
<1>4. cpc # "close" /\ cpc' # "close"
  <2>1. cpc # "close"
    BY DEF Coordinator, Scan, ScanPast, ScanPending, AtMember, Rescan, ScanEnded, EnterSelect,
         TakeSlot, GiveSlotBack, Receive, DrainReceive, SeeCancel, DrainEnd
  <2>2. completed \in Int /\ completed + 1 \in Int
    BY DEF IInv, Loose
  <2> QED
    BY <2>1, <2>2, RoundSteps, RoundShape DEF Next
<1>5. AbstractPhase' = AbstractPhase
  BY <1>3, SamePhases
<1> QED
  BY <1>1, <1>4, <1>5 DEF Verdict

\* The verdict.
LEMMA ReduceRefines == ASSUME IInv, Reduce PROVE Contract!Decide
<1> USE DEF AbstractPhase
<1>1. cpc = "reduce" /\ cpc' = "close" /\ UNCHANGED <<dependsOn, wpc, status, cause, observeErr>>
  BY DEF Reduce, outcomeVars
<1>2. AbstractPhase' = AbstractPhase
  BY <1>1, SamePhases DEF PhaseOf, Failed
<1>3. Verdict = "open"
  BY <1>1 DEF IInv, Ending, Loose, Verdict
<1>4. \A m \in Members : status[m] = "completed" /\ wpc[m] \in {"idle", "gone"}
  BY <1>1, AllCompleted DEF IInv, Ending, Lifecycle
<1>5. \A m \in Members : AbstractPhase[m] \in {"succeeded", "failed", "skipped"}
  BY <1>4, PhaseCases
<1>6. ~Reported => ~cancelled /\ \A m \in Members : AbstractPhase[m] = "succeeded"
  <2> SUFFICES ASSUME ~Reported, NEW m \in Members PROVE AbstractPhase[m] = "succeeded"
    BY DEF Reported
  <2>1. cause[m] = "none" /\ m \notin observeErr
    BY DEF Reported, IInv, SkipsExplained, Reportable
  <2>2. wpc[m] = "gone"
    BY <1>4, <2>1 DEF IInv, OutcomeShape
  <2> QED
    BY <2>1, <2>2, PhaseCases DEF Failed
<1>7. Reported => cancelled \/ \E m \in Members : AbstractPhase[m] # "succeeded"
  <2> SUFFICES ASSUME Reported, ~cancelled PROVE \E m \in Members : AbstractPhase[m] # "succeeded"
    OBVIOUS
  <2>1. PICK m \in Members : Failed(m)
    BY DEF Reported, Failed, IInv, Loose
  <2> QED
    BY <2>1, PhaseCases
<1>8. Verdict' = IF Reported THEN "decided error" ELSE "decided nil"
  BY <1>1 DEF Reduce, Verdict
<1>9. cancelled' = TRUE
  BY Zenon DEF Reduce
<1> QED
  BY <1>1, <1>2, <1>3, <1>5, <1>6, <1>7, <1>8, <1>9 DEF Contract!Decide, Contract!Settled

\* The return.
LEMMA CloseRefines == ASSUME IInv, Close PROVE Contract!Close
<1> USE DEF AbstractPhase
<1>1. cpc = "close" /\ cpc' = "returned"
      /\ UNCHANGED <<dependsOn, cancelled, wpc, status, cause, observeErr>>
  BY DEF Close, outcomeVars
<1>2. AbstractPhase' = AbstractPhase
  BY <1>1, SamePhases DEF PhaseOf, Failed
<1>3. result' \in {"error", result}
  BY DEF Close
<1>4. result \in {"nil", "error"}
  BY <1>1 DEF IInv, Loose, Ending
<1> QED
  BY <1>1, <1>2, <1>3, <1>4 DEF Contract!Close, Verdict

LEMMA NextRefines ==
  ASSUME IInv, [Next]_vars
  PROVE  [Contract!Next]_(Contract!vars)
<1> USE DEF AbstractPhase
<1>1. ASSUME NEW m \in Members, ScanSkip(m) PROVE Contract!Next
  BY <1>1, SkipRefines DEF Contract!Next
<1>2. CASE Spawn
  <2>1. PICK k \in Members : k = ready
    BY <1>2 DEF Spawn, IInv, Loose, ReadyPending, Members
  <2>2. Contract!Start(k)
    BY <1>2, <2>1, SpawnRefines
  <2> QED
    BY <2>2 DEF Contract!Next
<1>3. ASSUME NEW m \in Members, Release(m) PROVE Contract!Next
  BY <1>3, ReleaseRefines DEF Contract!Next
<1>4. CASE Reduce
  BY <1>4, ReduceRefines DEF Contract!Next
<1>5. CASE Close
  BY <1>5, CloseRefines DEF Contract!Next
<1>6. CASE /\ AbstractPhase' = AbstractPhase /\ UNCHANGED <<dependsOn, Verdict>>
           /\ cancelled' \in {cancelled, TRUE}
  <2>1. CASE cancelled' = cancelled
    BY <1>6, <2>1 DEF Contract!vars
  <2>2. CASE cancelled' = TRUE /\ ~cancelled
    BY <1>6, <2>2 DEF Contract!Next, Contract!Cancel
  <2>3. cancelled \in BOOLEAN
    BY DEF IInv, Loose
  <2> QED
    BY <1>6, <2>1, <2>2, <2>3
<1>7. ASSUME NEW m \in Members, Worker(m), ~Release(m) PROVE [Contract!Next]_(Contract!vars)
  BY <1>6, <1>7, WorkerRefines
<1>8. CASE Coordinator /\ ~Spawn /\ ~Reduce /\ ~Close /\ \A m \in Members : ~ScanSkip(m)
  BY <1>6, <1>8, CoordinatorStutters
<1>9. CASE CallerCancels
  <2>1. UNCHANGED <<dependsOn, cpc, result, wpc, status, cause, observeErr>> /\ cancelled' = TRUE
    BY <1>9, Zenon DEF CallerCancels, coordinatorVars, outcomeVars
  <2>2. AbstractPhase' = AbstractPhase
    BY <2>1, SamePhases DEF PhaseOf, Failed
  <2> QED
    BY <1>6, <2>1, <2>2 DEF Verdict
<1>10. CASE UNCHANGED vars
  <2>1. UNCHANGED <<dependsOn, cpc, result, wpc, status, cause, observeErr, cancelled>>
    BY <1>10 DEF vars, coordinatorVars, outcomeVars
  <2>2. AbstractPhase' = AbstractPhase
    BY <2>1, SamePhases DEF PhaseOf, Failed
  <2> QED
    BY <1>6, <2>1, <2>2 DEF Verdict
<1> QED
  BY <1>1, <1>2, <1>3, <1>4, <1>5, <1>7, <1>8, <1>9, <1>10 DEF Next, Returned

-----------------------------------------------------------------------------
(* The group as one step of the bind that waits for it.                    *)

\* Only an attempted member gets as far as its publication.
AttemptedFirst ==
  /\ published \subseteq attempted
  /\ \A m \in Members : wpc[m] \in {"snapshot", "resolve", "publish"} => m \in attempted

LEMMA AttemptedFirstStep ==
  ASSUME Loose, AttemptedFirst, [Next]_vars
  PROVE  AttemptedFirst'
<1> USE DEF Loose, AttemptedFirst, WorkerPhases
<1>1. ASSUME NEW m \in Members, Worker(m) PROVE AttemptedFirst'
  <2>1. CASE Enter(m)
    BY <2>1 DEF Enter, Goto, dataVars
  <2>2. CASE TakeSnapshot(m)
    BY <2>2 DEF TakeSnapshot, Goto, outcomeVars
  <2>3. CASE Resolve(m)
    BY <2>3 DEF Resolve, Goto, dataVars
  <2>4. CASE Publish(m)
    BY <2>4 DEF Publish, FieldFails, MarkerFails, Written, Goto
  <2>5. CASE Observe(m)
    BY <2>5 DEF Observe, Goto, dataVars
  <2>6. CASE CancelIfFatal(m)
    BY <2>6 DEF CancelIfFatal, Goto, dataVars, outcomeVars
  <2>7. CASE Release(m)
    BY <2>7 DEF Release, Goto, dataVars, outcomeVars
  <2>8. CASE Send(m)
    BY <2>8 DEF Send, Goto, dataVars, outcomeVars
  <2> QED
    BY <1>1, <2>1, <2>2, <2>3, <2>4, <2>5, <2>6, <2>7, <2>8 DEF Worker
<1>2. CASE Spawn
  BY <1>2 DEF Spawn, dataVars, outcomeVars
<1>3. CASE Coordinator /\ ~Spawn
  <2>1. UNCHANGED <<published, attempted, wpc>>
    BY <1>3 DEF Coordinator, Scan, ScanPast, ScanPending, ScanSkip, Rescan, EnterSelect,
      TakeSlot, GiveSlotBack, Receive, DrainReceive, SeeCancel, DrainEnd, Reduce, Close,
      outcomeVars, dataVars
  <2> QED
    BY <2>1
<1>4. CASE CallerCancels
  BY <1>4 DEF CallerCancels, outcomeVars, dataVars
<1>5. CASE UNCHANGED vars
  BY <1>5 DEF vars, outcomeVars, dataVars
<1> QED
  BY <1>1, <1>2, <1>3, <1>4, <1>5 DEF Next, Returned

\* After bindDependencyGroup returned, no goroutine is left to take a step.
LEMMA ReturnedIsFinal ==
  ASSUME IInv, cpc = "returned", [Next]_vars
  PROVE  UNCHANGED vars
<1>1. \A m \in Members : wpc[m] \in {"idle", "gone"}
  <2>1. \A m \in Members : status[m] = "completed"
    BY AllCompleted DEF IInv, Ending
  <2> QED
    BY <2>1 DEF IInv, Lifecycle
<1>2. \A m \in Members : ~Worker(m)
  BY <1>1 DEF Worker, Enter, TakeSnapshot, Resolve, Publish, Observe, CancelIfFatal, Release, Send
<1>3. ~Coordinator
  BY DEF Coordinator, Scan, ScanPast, ScanPending, ScanSkip, AtMember, Rescan, EnterSelect,
    ScanEnded, TakeSlot, GiveSlotBack, Spawn, Receive, DrainReceive, SeeCancel, DrainEnd, Reduce, Close
<1>4. ~CallerCancels
  BY DEF CallerCancels
<1> QED
  BY <1>2, <1>3, <1>4 DEF Next, Returned

\* What Close leaves is an outcome GroupedBind reckons with.
LEMMA CloseReturns ==
  ASSUME IInv, AttemptedFirst, Close
  PROVE  Step!Return
<1>1. cpc = "close" /\ cpc' = "returned" /\ UNCHANGED <<attempted, published>>
  BY DEF Close, outcomeVars, dataVars
<1>2. result \in {"nil", "error"} /\ result' \in {result, "error"}
  BY <1>1 DEF Close, IInv, Loose, Ending
<1>3. result = "nil" => attempted = Members
  <2> SUFFICES ASSUME result = "nil" PROVE attempted = Members
    OBVIOUS
  <2>1. \A m \in Members : ~Reportable(m) /\ status[m] = "completed"
    BY <1>1, AllCompleted DEF IInv, Ending
  <2>2. ASSUME NEW m \in Members PROVE m \in attempted
    <3>1. cause[m] \in {"none", "prerequisite"}
      BY <2>1 DEF Reportable
    <3>2. \A k \in Members : cause[k] # "prerequisite"
      BY <2>1 DEF IInv, SkipsExplained
    <3>3. wpc[m] = "gone"
      BY <2>1, <3>1, <3>2 DEF IInv, Lifecycle, OutcomeShape
    <3> QED
      BY <3>1, <3>2, <3>3 DEF IInv, OutcomeShape
  <2> QED
    BY <2>2 DEF IInv, Loose
<1>4. [attempted |-> attempted, published |-> published, error |-> result' = "error"]
        \in Step!Outcomes(Members, "dependencies")
  BY <1>2, <1>3 DEF Step!Outcomes, AttemptedFirst, IInv, Loose
<1>5. Outcome = {} /\ Outcome' = {[attempted |-> attempted, published |-> published,
                                   error |-> result' = "error"]}
  BY <1>1 DEF Outcome
<1> QED
  BY <1>4, <1>5 DEF Step!Return

LEMMA NextSteps ==
  ASSUME IInv, AttemptedFirst, [Next]_vars
  PROVE  [Step!Return]_Outcome
<1>1. CASE cpc = "returned"
  <2>1. UNCHANGED vars
    BY <1>1, ReturnedIsFinal
  <2> QED
    BY <2>1 DEF vars, coordinatorVars, outcomeVars, dataVars, Outcome
<1>2. CASE cpc # "returned" /\ Close
  BY <1>2, CloseReturns
<1>3. CASE cpc # "returned" /\ ~Close
  <2>1. cpc' # "returned"
    BY <1>3 DEF Next, Coordinator, Scan, ScanPast, ScanPending, ScanSkip, Rescan, EnterSelect,
      TakeSlot, GiveSlotBack, Spawn, Receive, DrainReceive, SeeCancel, DrainEnd, Reduce, NextRound,
      Worker, Enter, TakeSnapshot, Resolve, Publish, Observe, CancelIfFatal, Release, Send,
      CallerCancels, Returned, vars, coordinatorVars
  <2> QED
    BY <1>3, <2>1 DEF Outcome
<1> QED
  BY <1>1, <1>2, <1>3

\* To bindWithGroups a dependency-mode group is the one step GroupedBind takes:
\* a final outcome, nil only with every member attempted.
THEOREM RunIsOneStep == Spec => Step!Spec
<1>1. Init => Step!Init /\ AttemptedFirst
  BY DEF Init, Step!Init, Outcome, AttemptedFirst
<1>2. IInv /\ AttemptedFirst /\ [Next]_vars => AttemptedFirst'
  BY AttemptedFirstStep DEF IInv
<1>3. IInv /\ AttemptedFirst /\ [Next]_vars => [Step!Return]_Outcome
  BY NextSteps
<1> QED
  BY <1>1, <1>2, <1>3, Invariance, PTL DEF Spec, Step!Spec

\* The coordinator and its goroutines implement the group's contract, and they
\* are one step to the bind that waits for them.
THEOREM Refinement == Spec => ImplementsContract
<1>1. Init => Contract!Init
  BY InitRefines
<1>2. IInv /\ [Next]_vars => [Contract!Next]_(Contract!vars)
  BY NextRefines
<1> QED
  BY <1>1, <1>2, Invariance, RunIsOneStep, PTL DEF Spec, ImplementsContract, Contract!Spec
=============================================================================
