--------------------------- MODULE ConcurrentGroup ---------------------------
(***************************************************************************)
(* One run of a group in the default (concurrent) mode: the part of        *)
(* invocation.bindWithGroups that starts one goroutine per member at once, *)
(* joins them and closes the controller's run.                             *)
(*                                                                         *)
(* Three mutexes order the goroutines.  collector protects two appends and *)
(* is never held across a call, so an append is one action.  publication   *)
(* is held while a member writes its field and then its marker, and        *)
(* observation while a callback of the application runs: their lock and    *)
(* unlock are separate steps.                                              *)
(*                                                                         *)
(* A member binds a shallow copy of the target, its scratch, and looks     *)
(* values up in a shallow copy of the source, which here is the target.    *)
(* Of the scratch it uses its own field only.  The source's marker record  *)
(* is copied with the source, but nothing else that pointers lead to: the  *)
(* fields of Nested members lie below one pointer of the target, and a     *)
(* copy made when the target holds it shares what is below.                *)
(***************************************************************************)
EXTENDS Naturals, Sequences, FiniteSets

CONSTANTS
  Members,          \* the members of the group
  Nobody,           \* the holder of a free mutex
  Nested,           \* the members whose field lies below a pointer of the target
  EnterResults,     \* what run.Enter may do: "ok", "denied", "panic"
  ProviderResults,  \* what a member's bind may do: "found", "missing", "error",
                    \* "panic", or "unreadable": the field bound cannot be read back
  WriteResults,     \* what the writes to the target may come to: "ok", "field", "marker"
  ObserverResults,  \* what the binding observer may do: "ok", "error", "panic"; {} if there is none
  ObserveResults,   \* what run.Observe may return: "ok", "error"
  CloseResults      \* what run.Close may return: "ok", "error"

ASSUME NobodyAssumption == Nobody \notin Members
ASSUME NestedAssumption == Nested \subseteq Members

VARIABLES
  cpc,          \* where bindWithGroups is
  phase,        \* where the goroutine of each member is: "gate", "enter", "copy",
                \* "resolve", "publish", "field", "marker", "notify", "observer",
                \* "collect", "report", "observe" or "gone"
  publication, observation,  \* the holders of the two mutexes
  attempted, failed, terminal, found,  \* members with that part of the outcome
  held,         \* the target holds the pointer above the nested fields
  fields, markers,  \* what the canonical target holds
  borrowers,    \* nested members whose scratch shares that pointer
  seen,         \* seen[m]: fields and markers of the source's copy that m made
                \* last, and whether it shares the pointer
  failures,     \* the collected failures
  observeErr,   \* members whose Observe call returned an error
  observes,     \* observes[m]: number of Observe calls for m
  cancelled,    \* groupCtx is canceled
  result        \* what the group returns

outcomeVars == <<attempted, failed, terminal, found>>
targetVars == <<held, fields, markers>>
vars == <<cpc, phase, publication, observation, outcomeVars, targetVars,
          borrowers, seen, failures, observeErr, observes, cancelled, result>>

Init ==
  /\ cpc = "spawn"
  /\ phase = [m \in Members |-> "gate"]
  /\ publication = Nobody /\ observation = Nobody
  /\ attempted = {} /\ failed = {} /\ terminal = {} /\ found = {}
  /\ held \in BOOLEAN
  /\ fields = {} /\ markers = {} /\ borrowers = {}
  /\ seen = [m \in Members |-> [fields |-> {}, markers |-> {}, shares |-> FALSE]]
  /\ failures = << >>
  /\ observeErr = {}
  /\ observes = [m \in Members |-> 0]
  /\ cancelled = FALSE
  /\ result = "none"

Goto(m, p) == phase' = [phase EXCEPT ![m] = p]

-----------------------------------------------------------------------------
(* A member's goroutine.                                                   *)

\* A denied Enter leaves the member unattempted; its panic is recovered by
\* the deferred function, which cancels the group.
Enter(m) ==
  /\ phase[m] = "enter"
  /\ \E r \in EnterResults :
       /\ attempted' = IF r = "ok" THEN attempted \cup {m} ELSE attempted
       /\ failed' = IF r = "ok" THEN failed ELSE failed \cup {m}
       /\ terminal' = IF r = "panic" THEN terminal \cup {m} ELSE terminal
       /\ cancelled' = (cancelled \/ r = "panic")
       /\ Goto(m, IF r = "ok" THEN "copy" ELSE "collect")
  /\ UNCHANGED <<cpc, publication, observation, found, targetVars, borrowers, seen, failures,
                 observeErr, observes, result>>

\* MUTANT of CopyTarget: the copy is made without the publication mutex.
CopyUnlocked(m) ==
  seen' = [seen EXCEPT ![m] = [fields |-> fields, markers |-> markers, shares |-> held]]

\* groupSourceSnapshot: the source is copied while nobody publishes.
CopyTarget(m) ==
  /\ publication = Nobody
  /\ seen' = [seen EXCEPT ![m] = [fields |-> fields, markers |-> markers, shares |-> held]]

\* The scratch and the first copy of the source.
Copy(m) ==
  /\ phase[m] = "copy"
  /\ CopyTarget(m)
  /\ borrowers' = IF held /\ m \in Nested THEN borrowers \cup {m} ELSE borrowers
  /\ Goto(m, "resolve")
  /\ UNCHANGED <<cpc, publication, observation, outcomeVars, targetVars, failures,
                 observeErr, observes, cancelled, result>>

\* The member's own bind: it asks groupSource for the source as it is now and
\* resolves against that.  What it finds it writes to its scratch, and through
\* a pointer shared with the target to the target, without the mutex.
Resolve(m) ==
  /\ phase[m] = "resolve"
  /\ CopyTarget(m)
  /\ \E r \in ProviderResults :
       /\ found' = IF r \in {"found", "unreadable"} THEN found \cup {m} ELSE found
       /\ fields' = IF r \in {"found", "unreadable"} /\ m \in borrowers
                    THEN fields \cup {m} ELSE fields
       /\ failed' = IF r \in {"error", "panic", "unreadable"} THEN failed \cup {m} ELSE failed
       /\ terminal' = IF r = "panic" THEN terminal \cup {m} ELSE terminal
       /\ cancelled' = (cancelled \/ r = "panic")
       /\ Goto(m, IF r = "found" THEN "publish" ELSE "collect")
  /\ UNCHANGED <<cpc, publication, observation, attempted, held, markers, borrowers,
                 failures, observeErr, observes, result>>

LockPublication(m) ==
  /\ phase[m] = "publish"
  /\ publication = Nobody
  /\ publication' = m
  /\ Goto(m, "field")
  /\ UNCHANGED <<cpc, observation, outcomeVars, targetVars, borrowers, seen, failures,
                 observeErr, observes, cancelled, result>>

\* MUTANT of FailWrite: the error of the write is lost.
FailWriteQuietly(m) == failed' = failed /\ publication' = Nobody /\ Goto(m, "collect")

\* A write failed: neither what follows it is written nor the observer called.
FailWrite(m) ==
  /\ failed' = failed \cup {m}
  /\ publication' = Nobody
  /\ Goto(m, "collect")

\* The pointer above a nested field is set with it, or before its write fails.
SetField(m) ==
  /\ phase[m] = "field"
  /\ held' = (held \/ m \in Nested)
  /\ \/ /\ "ok" \in WriteResults
        /\ fields' = fields \cup {m}
        /\ Goto(m, "marker")
        /\ UNCHANGED <<failed, publication>>
     \/ "field" \in WriteResults /\ FailWrite(m) /\ UNCHANGED fields
  /\ UNCHANGED <<cpc, observation, attempted, terminal, found, markers, borrowers, seen,
                 failures, observeErr, observes, cancelled, result>>

\* The marker, the merge of the member's cache and the unlock; a marker that
\* cannot be set leaves the field set.
SetMarker(m) ==
  /\ phase[m] = "marker"
  /\ \/ /\ "ok" \in WriteResults
        /\ markers' = markers \cup {m}
        /\ publication' = Nobody
        /\ Goto(m, IF ObserverResults = {} THEN "collect" ELSE "notify")
        /\ UNCHANGED failed
     \/ "marker" \in WriteResults /\ FailWrite(m) /\ UNCHANGED markers
  /\ UNCHANGED <<cpc, observation, attempted, terminal, found, held, fields, borrowers,
                 seen, failures, observeErr, observes, cancelled, result>>

LockForObserver(m) ==
  /\ phase[m] = "notify"
  /\ observation = Nobody
  /\ observation' = m
  /\ Goto(m, "observer")
  /\ UNCHANGED <<cpc, publication, outcomeVars, targetVars, borrowers, seen, failures, observeErr,
                 observes, cancelled, result>>

\* MUTANT of HolderAfter: an error returns before the unlock.
HolderAfterUnlockingOnSuccess(m, r) == IF r = "ok" THEN Nobody ELSE m

\* No defer unlocks observation when the binding observer panics.
HolderAfter(m, r) == IF r = "panic" THEN m ELSE Nobody

\* The binding observer.
CallObserver(m) ==
  /\ phase[m] = "observer"
  /\ \E r \in ObserverResults :
       /\ failed' = IF r = "ok" THEN failed ELSE failed \cup {m}
       /\ terminal' = IF r = "ok" THEN terminal ELSE terminal \cup {m}
       /\ cancelled' = (cancelled \/ r # "ok")
       /\ observation' = HolderAfter(m, r)
  /\ Goto(m, "collect")
  /\ UNCHANGED <<cpc, publication, attempted, found, targetVars, borrowers, seen, failures,
                 observeErr, observes, result>>

-----------------------------------------------------------------------------
(* The deferred function of a goroutine, reached on every path.            *)

\* Only a failure of an attempted binding is collected.
Collected(m) ==
  IF m \in attempted \cap failed THEN Append(failures, m) ELSE failures

Collect(m) ==
  /\ phase[m] = "collect"
  /\ failures' = Collected(m)
  /\ Goto(m, "report")
  /\ UNCHANGED <<cpc, publication, observation, outcomeVars, targetVars, borrowers, seen,
                 observeErr, observes, cancelled, result>>

LockForObserve(m) ==
  /\ phase[m] = "report"
  /\ observation = Nobody
  /\ observation' = m
  /\ Goto(m, "observe")
  /\ UNCHANGED <<cpc, publication, outcomeVars, targetVars, borrowers, seen, failures, observeErr,
                 observes, cancelled, result>>

CancelsPeers(r) == cancelled' = (cancelled \/ r = "error")

\* run.Observe, the unlock, and the record of its error.
Observe(m) ==
  /\ phase[m] = "observe"
  /\ observes' = [observes EXCEPT ![m] = @ + 1]
  /\ observation' = Nobody
  /\ \E r \in ObserveResults :
       /\ observeErr' = IF r = "error" THEN observeErr \cup {m} ELSE observeErr
       /\ CancelsPeers(r)
  /\ Goto(m, "gone")
  /\ UNCHANGED <<cpc, publication, outcomeVars, targetVars, borrowers, seen, failures, result>>

-----------------------------------------------------------------------------
(* bindWithGroups.                                                         *)

\* close(start)
Start ==
  /\ cpc = "spawn"
  /\ cpc' = "wait"
  /\ phase' = [m \in Members |-> "enter"]
  /\ UNCHANGED <<publication, observation, outcomeVars, targetVars, borrowers, seen, failures,
                 observeErr, observes, cancelled, result>>

\* MUTANT of Joined: the group does not wait for the last report.
JoinedBeforeReport == \A m \in Members : phase[m] \in {"report", "observe", "gone"}

Joined == \A m \in Members : phase[m] = "gone"

Join ==
  /\ cpc = "wait"
  /\ Joined
  /\ cancelled' = TRUE
  /\ cpc' = "close"
  /\ UNCHANGED <<phase, publication, observation, outcomeVars, targetVars, borrowers, seen,
                 failures, observeErr, observes, result>>

\* MUTANT of GroupResult: the terminal error alone is not returned.
GroupResultFailuresOnly(r) == IF failures # << >> THEN "error" ELSE "nil"

GroupResult(r) ==
  IF failures # << >> \/ observeErr # {} \/ r = "error" THEN "error" ELSE "nil"

Close ==
  /\ cpc = "close"
  /\ \E r \in CloseResults : result' = GroupResult(r)
  /\ cpc' = "returned"
  /\ UNCHANGED <<phase, publication, observation, outcomeVars, targetVars, borrowers, seen,
                 failures, observeErr, observes, cancelled>>

-----------------------------------------------------------------------------
Worker(m) ==
  \/ Enter(m) \/ Copy(m) \/ Resolve(m)
  \/ LockPublication(m) \/ SetField(m) \/ SetMarker(m)
  \/ LockForObserver(m) \/ CallObserver(m)
  \/ Collect(m) \/ LockForObserve(m) \/ Observe(m)

Coordinator == Start \/ Join \/ Close

Returned == cpc = "returned" /\ UNCHANGED vars

Next == Coordinator \/ (\E m \in Members : Worker(m)) \/ Returned

Spec == Init /\ [][Next]_vars

\* Goroutines are scheduled fairly, the callbacks return, and a mutex asked
\* for a bounded number of times is obtained by everyone who waits for it.
FairSpec == Spec /\ WF_vars(Coordinator) /\ \A m \in Members : WF_vars(Worker(m))

-----------------------------------------------------------------------------
(* Properties.                                                             *)

\* The values that m's copy of the source shows: those it was made with, and
\* below a shared pointer those that the target holds by now.
Shown(m) == seen[m].fields \cup (IF seen[m].shares THEN fields \cap Nested ELSE {})

\* However many peers publish meanwhile, no copy a member resolves against
\* shows a marker without its value.  It shows a value without its marker only
\* where the value's member failed to set the marker, or where the value lies
\* below a pointer that the target already held and its copies share.
CopiesCoherent ==
  \A m, x \in Members :
    /\ x \in seen[m].markers => x \in Shown(m)
    /\ x \in Shown(m) \ seen[m].markers =>
         x \in failed \/ (x \in Nested /\ seen[m].shares)

\* The run is closed after the last goroutine ended, both mutexes are free and
\* every member, denied ones included, was reported exactly once.
ClosedAfterJoin ==
  cpc \in {"close", "returned"} =>
    /\ \A m \in Members : phase[m] = "gone" /\ observes[m] = 1
    /\ publication = Nobody /\ observation = Nobody

\* The controller hears of a clean success only when value and marker are in
\* the target, and the group returns nil only if no attempt failed, no report
\* failed and everything that was found is in the target.
SuccessIsPublished ==
  /\ \A m \in found \ failed :
       observes[m] > 0 => m \in fields /\ m \in markers
  /\ result = "nil" =>
       /\ attempted \cap failed = {}
       /\ observeErr = {}
       /\ found \subseteq fields \cap markers

\* What the bind that started the group sees of it.
Outcome ==
  IF cpc = "returned"
  THEN {[attempted |-> attempted, published |-> fields, error |-> result = "error"]}
  ELSE {}

Step == INSTANCE GroupStep WITH Mode <- "concurrent", outcome <- Outcome

\* To the bind that waits, the goroutines of the group are one step to a final
\* outcome: only attempted members publish, and none does once it returned.
ImplementsStep == Step!Spec

\* The group returns, also when the binding observer panics: its panic is an
\* outcome the controller observes.
Returns == <>(cpc = "returned")
=============================================================================
