--------------------------- MODULE DependencyGroup ---------------------------
(***************************************************************************)
(* One run of a dependency-mode resolution group: the coordinator loop of  *)
(* invocation.bindDependencyGroup, one goroutine per admitted member       *)
(* (executeDependencyMember and the closure that spawns it), the permits   *)
(* of resolutionScheduler, and the controller callbacks Enter, Observe and *)
(* Close, which are the environment.                                       *)
(*                                                                         *)
(* Members are numbered in declaration order.  The group starts after the  *)
(* controller's Open succeeded.  A critical section (publication mutex,    *)
(* observation mutex) is one action.                                       *)
(***************************************************************************)
EXTENDS Naturals, FiniteSets

CONSTANTS
  N,                \* number of members of the group
  Limit,            \* capacity of the scheduler's slots channel
  Plans,            \* the prerequisite graphs to consider
  EnterResults,     \* what run.Enter may do: "ok", "denied", "panic"
  ProviderResults,  \* what a member's bind may do: "found", "missing", "error", "panic"
  WriteResults,     \* how each member's writes to the target may end: "ok", "field", "marker"
  ObserverResults,  \* what the binding observer may do at publication: "ok", "error"
  ObserveResults,   \* what run.Observe may do: "ok", "error" (a panic is an error)
  CloseResults,     \* what run.Close may return: "ok", "error"
  CallerMayCancel   \* whether the caller's context may be canceled

Members == 1..N

ASSUME NAssumption == N \in Nat \ {0}
ASSUME LimitAssumption == Limit \in Nat \ {0}
ASSUME PlansAssumption == Plans \subseteq [Members -> SUBSET Members]
ASSUME ResultsAssumption ==
  /\ EnterResults \subseteq {"ok", "denied", "panic"}
  /\ ProviderResults \subseteq {"found", "missing", "error", "panic"}
  /\ WriteResults \in [Members -> SUBSET {"ok", "field", "marker"}]
  /\ ObserverResults \subseteq {"ok", "error"}
  /\ ObserveResults \subseteq {"ok", "error"}
  /\ CloseResults \subseteq {"ok", "error"}
  /\ CallerMayCancel \in BOOLEAN

VARIABLES
  dependsOn,   \* DependsOn of each member, fixed by the compiled plan
  cpc,         \* where the coordinator is
  cpos,        \* the member its scan looks at next
  before,      \* completed at the start of the round
  ready,       \* first ready member of the round, 0 for the code's -1
  offered,     \* the select has a non-nil slots channel
  status,      \* status[m]: pending, running, completed
  completed, running,
  slots,       \* tokens in the scheduler's channel
  cancelled,   \* ctx.Err() # nil for the group's context
  wpc,         \* where the goroutine of each member is
  attempted, terminal, found, observeErr,  \* members with that part of the outcome
  cause,       \* cause[m] of the outcome
  published,   \* members whose value is in the canonical target
  marked,      \* those of them whose presence marker, if any, is set there too
  snapshot,    \* snapshot[m]: what was published when m copied the target
  done,        \* results sent to the coordinator and not received yet
  observes,    \* observes[m]: how often Observe was called with m's outcome
  result       \* what bindDependencyGroup returns

coordinatorVars == <<cpc, cpos, before, ready, offered, status, completed, running>>
outcomeVars == <<attempted, terminal, found, observeErr, cause>>
dataVars == <<published, marked, snapshot>>
vars == <<dependsOn, coordinatorVars, slots, cancelled, wpc, outcomeVars,
          dataVars, done, observes, result>>

Causes == {"none", "error", "prerequisite", "canceled"}
WorkerPhases == {"idle", "enter", "snapshot", "resolve", "publish", "observe",
                 "cancel", "release", "send", "gone"}
HoldingPhases == WorkerPhases \ {"idle", "send", "gone"}
CoordinatorPhases == {"scan", "select", "admit", "drain", "reduce", "close", "returned"}

Init ==
  /\ dependsOn \in Plans
  /\ cpc = "scan" /\ cpos = 1 /\ before = 0 /\ ready = 0 /\ offered = FALSE
  /\ status = [m \in Members |-> "pending"]
  /\ completed = 0 /\ running = 0
  /\ slots = 0
  /\ cancelled = FALSE
  /\ wpc = [m \in Members |-> "idle"]
  /\ attempted = {} /\ terminal = {} /\ found = {} /\ observeErr = {}
  /\ cause = [m \in Members |-> "none"]
  /\ published = {} /\ marked = {}
  /\ snapshot = [m \in Members |-> {}]
  /\ done = {}
  /\ observes = [m \in Members |-> 0]
  /\ result = "none"

-----------------------------------------------------------------------------
(* What an outcome means to the coordinator.                               *)

\* The joined cause and observeErr of a recorded result is not nil.
Failed(m) == cause[m] # "none" \/ m \in observeErr

\* The observe closure cancels the group for this result.
Fatal(m) == m \in observeErr \/ m \in terminal

\* MUTANT of Waiting: a prerequisite that runs counts as finished.
WaitingForPendingOnly(m) == \E p \in dependsOn[m] : status[p] = "pending"

Waiting(m) == \E p \in dependsOn[m] : status[p] # "completed"

BrokenPrerequisite(m) ==
  \E p \in dependsOn[m] : status[p] = "completed" /\ Failed(p)

\* A canceled context overrides the prerequisite that failed.
SkipCause(m) ==
  IF cancelled THEN "canceled"
  ELSE IF BrokenPrerequisite(m) THEN "prerequisite" ELSE "none"

\* MUTANT of Reported: a cause without a recorded failure is dropped.
ReportedFailuresOnly ==
  \/ \E m \in Members : m \in attempted /\ cause[m] # "none"
  \/ observeErr # {}
  \/ cancelled

\* What the error reduction reports: recorded failures, every cause that is
\* not a prerequisite skip, the observation errors and the context's cause.
Reported ==
  \/ \E m \in Members : m \in attempted /\ cause[m] # "none"
  \/ \E m \in Members : cause[m] \notin {"none", "prerequisite"}
  \/ observeErr # {}
  \/ cancelled

-----------------------------------------------------------------------------
(* The coordinator.                                                        *)

\* MUTANT of MoreRounds: the loop ends with the context.
MoreRoundsUntilCancel(c) == c < N /\ ~cancelled

MoreRounds(c) == c < N

\* Top of the for loop, with c members completed.
NextRound(c) ==
  /\ cpc' = IF MoreRounds(c) THEN "scan" ELSE "reduce"
  /\ cpos' = 1
  /\ before' = c
  /\ ready' = 0
  /\ offered' = FALSE

AtMember(m) == cpc = "scan" /\ cpos = m

\* A member that was started or skipped already.
ScanPast(m) ==
  /\ AtMember(m)
  /\ status[m] # "pending"
  /\ cpos' = cpos + 1
  /\ UNCHANGED <<dependsOn, cpc, before, ready, offered, status, completed, running,
                 slots, cancelled, wpc, outcomeVars, dataVars, done, observes, result>>

\* A pending member that is not skipped; the first ready one is remembered.
ScanPending(m) ==
  /\ AtMember(m)
  /\ status[m] = "pending"
  /\ SkipCause(m) = "none"
  /\ ready' = IF ~Waiting(m) /\ ready = 0 THEN m ELSE ready
  /\ cpos' = cpos + 1
  /\ UNCHANGED <<dependsOn, cpc, before, offered, status, completed, running,
                 slots, cancelled, wpc, outcomeVars, dataVars, done, observes, result>>

\* A skipped member is observed by the coordinator itself.
ScanSkip(m) ==
  /\ AtMember(m)
  /\ status[m] = "pending"
  /\ SkipCause(m) # "none"
  /\ cause' = [cause EXCEPT ![m] = SkipCause(m)]
  /\ observes' = [observes EXCEPT ![m] = @ + 1]
  /\ \E r \in ObserveResults :
       /\ observeErr' = IF r = "error" THEN observeErr \cup {m} ELSE observeErr
       /\ cancelled' = (cancelled \/ r = "error")
  /\ status' = [status EXCEPT ![m] = "completed"]
  /\ completed' = completed + 1
  /\ cpos' = cpos + 1
  /\ UNCHANGED <<dependsOn, cpc, before, ready, offered, running, slots, wpc,
                 attempted, terminal, found, dataVars, done, result>>

ScanEnded == cpc = "scan" /\ cpos = N + 1

\* MUTANT of MustRescan: the round's skips are not looked at again.
NeverRescan == FALSE

\* A round that only skipped members may have made others ready to be skipped.
MustRescan == completed < N /\ completed # before /\ ready = 0

Rescan ==
  /\ ScanEnded
  /\ completed = N \/ MustRescan
  /\ NextRound(completed)
  /\ UNCHANGED <<dependsOn, status, completed, running, slots, cancelled, wpc,
                 outcomeVars, dataVars, done, observes, result>>

OffersSlot == ready # 0 /\ ~cancelled

EnterSelect ==
  /\ ScanEnded
  /\ completed < N /\ ~MustRescan
  /\ cpc' = "select"
  /\ offered' = OffersSlot
  /\ UNCHANGED <<dependsOn, cpos, before, ready, status, completed, running, slots,
                 cancelled, wpc, outcomeVars, dataVars, done, observes, result>>

FreeSlot == slots < Limit

TakeSlot ==
  /\ cpc = "select"
  /\ offered
  /\ FreeSlot
  /\ slots' = slots + 1
  /\ cpc' = "admit"
  /\ UNCHANGED <<dependsOn, cpos, before, ready, offered, status, completed, running,
                 cancelled, wpc, outcomeVars, dataVars, done, observes, result>>

\* MUTANT of TokenBack: the round is restarted with the token still taken.
TokenKept == slots' = slots

TokenBack == slots' = slots - 1

\* The slot was taken, but the context was canceled meanwhile.
GiveSlotBack ==
  /\ cpc = "admit"
  /\ cancelled
  /\ TokenBack
  /\ NextRound(completed)
  /\ UNCHANGED <<dependsOn, status, completed, running, cancelled, wpc,
                 outcomeVars, dataVars, done, observes, result>>

\* MUTANT of AdmissionAllowed: no recheck after the slot was taken.
AdmissionUnchecked == TRUE

AdmissionAllowed == ~cancelled

Spawn ==
  /\ cpc = "admit"
  /\ AdmissionAllowed
  /\ status' = [status EXCEPT ![ready] = "running"]
  /\ running' = running + 1
  /\ wpc' = [wpc EXCEPT ![ready] = "enter"]
  /\ NextRound(completed)
  /\ UNCHANGED <<dependsOn, completed, slots, cancelled, outcomeVars, dataVars,
                 done, observes, result>>

\* results[index], status[index] = result, 2
Record(m) ==
  /\ m \in done
  /\ done' = done \ {m}
  /\ status' = [status EXCEPT ![m] = "completed"]
  /\ running' = running - 1
  /\ completed' = completed + 1

Receive(m) ==
  /\ cpc = "select"
  /\ Record(m)
  /\ NextRound(completed + 1)
  /\ UNCHANGED <<dependsOn, slots, cancelled, wpc, outcomeVars, dataVars, observes, result>>

SeeCancel ==
  /\ cpc = "select"
  /\ cancelled
  /\ cpc' = "drain"
  /\ UNCHANGED <<dependsOn, cpos, before, ready, offered, status, completed, running,
                 slots, cancelled, wpc, outcomeVars, dataVars, done, observes, result>>

DrainReceive(m) ==
  /\ cpc = "drain"
  /\ running > 0
  /\ Record(m)
  /\ UNCHANGED <<dependsOn, cpc, cpos, before, ready, offered, slots, cancelled, wpc,
                 outcomeVars, dataVars, observes, result>>

DrainEnd ==
  /\ cpc = "drain"
  /\ running = 0
  /\ NextRound(completed)
  /\ UNCHANGED <<dependsOn, status, completed, running, slots, cancelled, wpc,
                 outcomeVars, dataVars, done, observes, result>>

\* The errors are joined; the deferred cancel runs before the deferred Close.
Reduce ==
  /\ cpc = "reduce"
  /\ result' = IF Reported THEN "error" ELSE "nil"
  /\ cancelled' = TRUE
  /\ cpc' = "close"
  /\ UNCHANGED <<dependsOn, cpos, before, ready, offered, status, completed, running,
                 slots, wpc, outcomeVars, dataVars, done, observes>>

Close ==
  /\ cpc = "close"
  /\ \E r \in CloseResults : result' = IF r = "error" THEN "error" ELSE result
  /\ cpc' = "returned"
  /\ UNCHANGED <<dependsOn, cpos, before, ready, offered, status, completed, running,
                 slots, cancelled, wpc, outcomeVars, dataVars, done, observes>>

-----------------------------------------------------------------------------
(* A member's goroutine.                                                   *)

Goto(m, phase) == wpc' = [wpc EXCEPT ![m] = phase]

\* A denied or detached Enter leaves the member unattempted.
Enter(m) ==
  /\ wpc[m] = "enter"
  /\ \E r \in EnterResults :
       /\ attempted' = IF r = "ok" THEN attempted \cup {m} ELSE attempted
       /\ cause' = IF r = "ok" THEN cause ELSE [cause EXCEPT ![m] = "error"]
       /\ terminal' = IF r = "panic" THEN terminal \cup {m} ELSE terminal
       /\ Goto(m, IF r = "ok" THEN "snapshot" ELSE "observe")
  /\ UNCHANGED <<dependsOn, coordinatorVars, slots, cancelled, found, observeErr,
                 dataVars, done, observes, result>>

\* The canonical target is copied under the publication mutex.
TakeSnapshot(m) ==
  /\ wpc[m] = "snapshot"
  /\ snapshot' = [snapshot EXCEPT ![m] = published]
  /\ Goto(m, "resolve")
  /\ UNCHANGED <<dependsOn, coordinatorVars, slots, cancelled, outcomeVars,
                 published, marked, done, observes, result>>

\* The member's own bind against the private copy.
Resolve(m) ==
  /\ wpc[m] = "resolve"
  /\ \E r \in ProviderResults :
       /\ found' = IF r = "found" THEN found \cup {m} ELSE found
       /\ cause' = IF r \in {"error", "panic"} THEN [cause EXCEPT ![m] = "error"] ELSE cause
       /\ terminal' = IF r = "panic" THEN terminal \cup {m} ELSE terminal
       /\ Goto(m, IF r = "found" THEN "publish" ELSE "observe")
  /\ UNCHANGED <<dependsOn, coordinatorVars, slots, cancelled, attempted, observeErr,
                 dataVars, done, observes, result>>

FailOrdinarily(m) == cause' = [cause EXCEPT ![m] = "error"] /\ UNCHANGED terminal

\* MUTANT of ObserverFailed: an observer's error is an ordinary failure.
ObserverFailedQuietly(m) == FailOrdinarily(m)

ObserverFailed(m) ==
  /\ cause' = [cause EXCEPT ![m] = "error"]
  /\ terminal' = terminal \cup {m}

\* The value cannot be read back from the copy, or the field cannot be set.
FieldFails(m) == FailOrdinarily(m) /\ UNCHANGED <<published, marked>>

\* MUTANT of MarkerFails: the error of the marker is lost.
MarkerLost(m) ==
  /\ published' = published \cup {m}
  /\ UNCHANGED <<cause, terminal, marked>>

\* The field is set and stays set; its marker is not, and nobody observes it.
MarkerFails(m) ==
  /\ FailOrdinarily(m)
  /\ published' = published \cup {m}
  /\ UNCHANGED marked

\* Field and marker are set, and then the binding observer is asked.
Written(m) ==
  /\ published' = published \cup {m}
  /\ marked' = marked \cup {m}
  /\ \/ "error" \in ObserverResults /\ ObserverFailed(m)
     \/ "ok" \in ObserverResults /\ UNCHANGED <<cause, terminal>>

\* Field, marker and binding observer under the publication mutex.
Publish(m) ==
  /\ wpc[m] = "publish"
  /\ \/ "field" \in WriteResults[m] /\ FieldFails(m)
     \/ "marker" \in WriteResults[m] /\ MarkerFails(m)
     \/ "ok" \in WriteResults[m] /\ Written(m)
  /\ Goto(m, "observe")
  /\ UNCHANGED <<dependsOn, coordinatorVars, slots, cancelled, attempted, found,
                 observeErr, snapshot, done, observes, result>>

\* run.Observe under the observation mutex.
Observe(m) ==
  /\ wpc[m] = "observe"
  /\ observes' = [observes EXCEPT ![m] = @ + 1]
  /\ \E r \in ObserveResults :
       observeErr' = IF r = "error" THEN observeErr \cup {m} ELSE observeErr
  /\ Goto(m, "cancel")
  /\ UNCHANGED <<dependsOn, coordinatorVars, slots, cancelled, attempted, terminal,
                 found, cause, dataVars, done, result>>

CancelIfFatal(m) ==
  /\ wpc[m] = "cancel"
  /\ cancelled' = (cancelled \/ Fatal(m))
  /\ Goto(m, "release")
  /\ UNCHANGED <<dependsOn, coordinatorVars, slots, outcomeVars, dataVars, done,
                 observes, result>>

Release(m) ==
  /\ wpc[m] = "release"
  /\ slots' = slots - 1
  /\ Goto(m, "send")
  /\ UNCHANGED <<dependsOn, coordinatorVars, cancelled, outcomeVars, dataVars, done,
                 observes, result>>

Send(m) ==
  /\ wpc[m] = "send"
  /\ done' = done \cup {m}
  /\ Goto(m, "gone")
  /\ UNCHANGED <<dependsOn, coordinatorVars, slots, cancelled, outcomeVars, dataVars,
                 observes, result>>

-----------------------------------------------------------------------------
CallerCancels ==
  /\ CallerMayCancel
  /\ ~cancelled
  /\ cpc # "returned"
  /\ cancelled' = TRUE
  /\ UNCHANGED <<dependsOn, coordinatorVars, slots, wpc, outcomeVars, dataVars, done,
                 observes, result>>

Returned == cpc = "returned" /\ UNCHANGED vars

Scan == \E m \in Members : ScanPast(m) \/ ScanPending(m) \/ ScanSkip(m)

Coordinator ==
  \/ Scan \/ Rescan \/ EnterSelect
  \/ TakeSlot \/ GiveSlotBack \/ Spawn
  \/ \E m \in Members : Receive(m) \/ DrainReceive(m)
  \/ SeeCancel \/ DrainEnd
  \/ Reduce \/ Close

Worker(m) ==
  \/ Enter(m) \/ TakeSnapshot(m) \/ Resolve(m) \/ Publish(m)
  \/ Observe(m) \/ CancelIfFatal(m) \/ Release(m) \/ Send(m)

Next ==
  \/ Coordinator
  \/ \E m \in Members : Worker(m)
  \/ CallerCancels
  \/ Returned

Spec == Init /\ [][Next]_vars

\* Goroutines are scheduled fairly and the callbacks return; nobody is obliged
\* to cancel.
Fairness == WF_vars(Coordinator) /\ \A m \in Members : WF_vars(Worker(m))
FairSpec == Spec /\ Fairness
-----------------------------------------------------------------------------
(* Properties.                                                             *)

\* Every variable has its type.
TypeOK ==
  /\ dependsOn \in [Members -> SUBSET Members]
  /\ cpc \in CoordinatorPhases
  /\ cpos \in 1..(N + 1)
  /\ before \in 0..N
  /\ ready \in 0..N
  /\ offered \in BOOLEAN
  /\ status \in [Members -> {"pending", "running", "completed"}]
  /\ completed \in 0..N
  /\ running \in 0..N
  /\ slots \in 0..Limit
  /\ cancelled \in BOOLEAN
  /\ wpc \in [Members -> WorkerPhases]
  /\ attempted \in SUBSET Members
  /\ terminal \in SUBSET Members
  /\ found \in SUBSET Members
  /\ observeErr \in SUBSET Members
  /\ cause \in [Members -> Causes]
  /\ published \in SUBSET Members
  /\ marked \in SUBSET Members
  /\ snapshot \in [Members -> SUBSET Members]
  /\ done \in SUBSET Members
  /\ observes \in [Members -> Nat]
  /\ result \in {"none", "nil", "error"}

Holders == {m \in Members : wpc[m] \in HoldingPhases}

\* Every token in the slots channel belongs to a goroutine that has not
\* released yet, or to the coordinator between taking it and spawning: no
\* admission, release or give-back loses or invents one, so at most Limit
\* members run at once.
PermitsAccounted ==
  slots = Cardinality(Holders) + (IF cpc = "admit" THEN 1 ELSE 0)

\* A member that attempted its binding has only prerequisites that finished
\* without cause and without observation error, and the copy of the target it
\* resolves against holds everything those prerequisites provided.
PrerequisitesPublished ==
  \A m \in Members : \A p \in dependsOn[m] :
    m \in attempted =>
      /\ status[p] = "completed"
      /\ ~Failed(p)
      /\ wpc[m] # "snapshot" /\ p \in found => p \in snapshot[m]

\* A member completes without having been started only because one of its
\* prerequisites failed or because the group's context was canceled.
SkippedForAReason ==
  \A m \in Members :
    status[m] = "completed" /\ wpc[m] = "idle" =>
      \/ cancelled /\ cause[m] = "canceled"
      \/ /\ cause[m] = "prerequisite"
         /\ \E p \in dependsOn[m] : status[p] = "completed" /\ Failed(p)

\* When the controller's run is closed no goroutine of the group is alive, no
\* permit is held and no result is in flight, and every member, started or
\* skipped, was reported to Observe exactly once.
ClosedAfterJoin ==
  cpc \in {"close", "returned"} =>
    /\ \A m \in Members : wpc[m] \in {"idle", "gone"} /\ observes[m] = 1
    /\ slots = 0
    /\ done = {}

\* Bind returns nil only if every member was attempted and completed cleanly
\* and everything that was found is in the target with its marker, although
\* prerequisite skips are left out of the joined error.
NilMeansAllBound ==
  result = "nil" =>
    \A m \in Members : m \in attempted /\ ~Failed(m) /\ (m \in found => m \in published \cap marked)

\* A value may be left in the target by a member that failed after it was set:
\* a marker that could not be written, or an observer that refused.  Then the
\* group does not return nil, no member that depends on it is attempted, and
\* the outcome tells the two apart: it is terminal, and cancels the peers, only
\* with the marker in place; without it the peers go on.
FaultyPublicationReported ==
  \A m \in published : cause[m] # "none" =>
    /\ result # "nil"
    /\ m \in terminal <=> m \in marked
    /\ \A d \in Members : m \in dependsOn[d] => d \notin attempted

\* Once a fatal member has released its permit no member is admitted: the
\* permit freed by a panic, an observer failure or a failed observation is
\* never reused, because the cancel comes before the release and the admission
\* rechecks the context after it took a slot.
NoAdmissionAfterFatal ==
  [][(\E f \in Members : Fatal(f) /\ wpc[f] \in {"send", "gone"})
       => \A m \in Members : wpc[m] = "idle" => wpc'[m] = "idle"]_vars

\* The coordinator's counters and the status table agree, in every state and
\* with the results still in flight.
CountersAgree ==
  /\ completed = Cardinality({m \in Members : status[m] = "completed"})
  /\ running = Cardinality({m \in Members : status[m] = "running"})

\* bindDependencyGroup returns, whatever the callbacks answer, with every
\* acyclic plan and every capacity: no round waits for a result nobody will
\* send.
Returns == <>(cpc = "returned")

-----------------------------------------------------------------------------
(* The contract this design implements.                                    *)

PhaseOf(m) ==
  CASE wpc[m] \in HoldingPhases -> "running"
    [] wpc[m] \in {"send", "gone"} -> IF Failed(m) THEN "failed" ELSE "succeeded"
    [] wpc[m] = "idle" /\ status[m] = "completed" -> "skipped"
    [] OTHER -> "waiting"

Verdict ==
  CASE result = "none" -> "open"
    [] cpc = "close" -> IF result = "nil" THEN "decided nil" ELSE "decided error"
    [] OTHER -> result

Contract == INSTANCE GroupContract
  WITH phase <- [m \in Members |-> PhaseOf(m)], verdict <- Verdict

\* What the bind that started the group sees of it.
Outcome ==
  IF cpc = "returned"
  THEN {[attempted |-> attempted, published |-> published, error |-> result = "error"]}
  ELSE {}

Step == INSTANCE GroupStep WITH Mode <- "dependencies", outcome <- Outcome

\* Every behaviour of the coordinator and its goroutines is, with phases,
\* permits and channels hidden, one the group's contract allows; and to the
\* bind that waits it is one step to a final outcome, nil only with every
\* member attempted: no goroutine publishes after bindDependencyGroup returned.
ImplementsContract == Contract!Spec /\ Step!Spec
=============================================================================
