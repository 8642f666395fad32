------------------------- MODULE ConcurrentGroupProofs -------------------------
(***************************************************************************)
(* What ConcurrentGroup guarantees for every set of members and every      *)
(* choice of what the callbacks may do.                                    *)
(*                                                                         *)
(* The three invariants of the run are facts about quiet moments: nobody   *)
(* publishes, nobody is left, the run is closed.  The inductive invariant  *)
(* says what holds in between: which member a mutex belongs to, why a      *)
(* value may lack its marker, who shares the pointer of the target, and    *)
(* from which phase on a failure must have been collected.                 *)
(***************************************************************************)
EXTENDS ConcurrentGroup, TLAPS

Phases == {"gate", "enter", "copy", "resolve", "publish", "field", "marker",
           "notify", "observer", "collect", "report", "observe", "gone"}

TypeOK ==
  /\ cpc \in {"spawn", "wait", "close", "returned"}
  /\ phase \in [Members -> Phases]
  /\ publication \in Members \cup {Nobody}
  /\ observation \in Members \cup {Nobody}
  /\ attempted \subseteq Members /\ failed \subseteq Members
  /\ found \subseteq Members
  /\ held \in BOOLEAN
  /\ fields \subseteq Members /\ markers \subseteq Members
  /\ borrowers \subseteq Members
  /\ seen \in [Members -> [fields : SUBSET Members, markers : SUBSET Members,
                           shares : BOOLEAN]]
  /\ failures \in Seq(Members)
  /\ observeErr \subseteq Members
  /\ observes \in [Members -> Nat]
  /\ result \in {"none", "nil", "error"}

\* publication is held by the member that writes, and only by it.
Publishing ==
  \A m \in Members : phase[m] \in {"field", "marker"} <=> publication = m

\* Only an attempted member gets as far as its publication.
AttemptedFirst ==
  /\ fields \subseteq attempted
  /\ found \subseteq attempted
  /\ \A m \in Members :
       phase[m] \in {"copy", "resolve", "publish", "field", "marker"} => m \in attempted

\* Who shares the pointer of the target is a nested member, and the target
\* holds the pointer.
Borrowing ==
  /\ borrowers \subseteq Nested
  /\ borrowers # {} => held

\* Why the value of x may be in the target without its marker.
Excused(x) == phase[x] = "marker" \/ x \in failed \/ (x \in Nested /\ held)

\* A marker is set after its value, and a value without marker has a reason.
Apart ==
  /\ markers \subseteq fields
  /\ \A x \in Members : phase[x] = "marker" => x \in fields
  /\ \A x \in fields \ markers : Excused(x)

\* observation is held by a member whose goroutine has not ended.
Observing == \A m \in Members : observation = m => phase[m] # "gone"

\* A member was reported once when its goroutine has ended, and not before.
ReportedAtEnd ==
  \A m \in Members : observes[m] = IF phase[m] = "gone" THEN 1 ELSE 0

\* The goroutines wait for the start.
Gated == cpc = "spawn" => \A m \in Members : phase[m] = "gate"

\* The group goes on when everybody has ended.
AllGone == cpc \in {"close", "returned"} => \A m \in Members : phase[m] = "gone"

\* What was found is published on the way to the report.
FoundOnTheWay ==
  \A m \in found : phase[m] \in {"publish", "field", "marker"} \/ m \in markers \cup failed

\* No failure of an attempted binding reaches the report uncollected.
NothingUncollected ==
  failures = << >> =>
    \A m \in attempted \cap failed : phase[m] \notin {"report", "observe", "gone"}

\* nil is returned over an empty list of failures and reports without errors.
NilIsEarned ==
  result = "nil" => cpc = "returned" /\ failures = << >> /\ observeErr = {}

IInv ==
  /\ TypeOK
  /\ Publishing
  /\ AttemptedFirst
  /\ Borrowing
  /\ Apart
  /\ CopiesCoherent
  /\ Observing
  /\ ReportedAtEnd
  /\ Gated
  /\ AllGone
  /\ FoundOnTheWay
  /\ NothingUncollected
  /\ NilIsEarned

-----------------------------------------------------------------------------
LEMMA IInvInit == Init => IInv
<1> SUFFICES ASSUME Init PROVE IInv
  OBVIOUS
<1>1. TypeOK
  BY DEF Init, TypeOK, Phases
<1>2. Publishing /\ Apart /\ Observing /\ ReportedAtEnd
  BY NobodyAssumption DEF Init, Publishing, Apart, Observing, ReportedAtEnd
<1>3. AttemptedFirst /\ Borrowing /\ CopiesCoherent
  BY DEF Init, AttemptedFirst, Borrowing, CopiesCoherent, Shown
<1>4. Gated /\ AllGone /\ FoundOnTheWay /\ NothingUncollected /\ NilIsEarned
  BY DEF Init, Gated, AllGone, FoundOnTheWay, NothingUncollected, NilIsEarned
<1>q. QED
  BY <1>1, <1>2, <1>3, <1>4 DEF IInv

-----------------------------------------------------------------------------
\* Every variable keeps its type.
LEMMA TypeOKWorker ==
  ASSUME TypeOK, NEW m \in Members, Worker(m)
  PROVE  TypeOK'
<1> USE NobodyAssumption DEF outcomeVars, targetVars, TypeOK, Phases
<1>1. CASE Enter(m)
  BY <1>1 DEF Enter, Goto
<1>2. CASE Copy(m)
  BY <1>2 DEF Copy, CopyTarget, Goto
<1>3. CASE Resolve(m)
  BY <1>3 DEF Resolve, CopyTarget, Goto
<1>4. CASE LockPublication(m)
  BY <1>4 DEF LockPublication, Goto
<1>5. CASE SetField(m)
  BY <1>5 DEF SetField, FailWrite, Goto
<1>6. CASE SetMarker(m)
  BY <1>6 DEF SetMarker, FailWrite, Goto
<1>7. CASE LockForObserver(m)
  BY <1>7 DEF LockForObserver, Goto
<1>8. CASE CallObserver(m)
  BY <1>8 DEF CallObserver, HolderAfter, Goto
<1>9. CASE Collect(m)
  BY <1>9 DEF Collect, Collected, Goto
<1>10. CASE LockForObserve(m)
  BY <1>10 DEF LockForObserve, Goto
<1>11. CASE Observe(m)
  BY <1>11 DEF Observe, Goto, CancelsPeers
<1>q. QED
  BY <1>1, <1>2, <1>3, <1>4, <1>5, <1>6, <1>7, <1>8, <1>9, <1>10, <1>11 DEF Worker

LEMMA TypeOKCoordinator ==
  ASSUME TypeOK, Coordinator
  PROVE  TypeOK'
<1> USE NobodyAssumption DEF outcomeVars, targetVars, TypeOK, Phases
<1>1. CASE Start
  BY <1>1 DEF Start
<1>2. CASE Join
  BY <1>2 DEF Join, Joined
<1>3. CASE Close
  BY <1>3 DEF Close, GroupResult
<1>q. QED
  BY <1>1, <1>2, <1>3 DEF Coordinator

-----------------------------------------------------------------------------
\* The mutex is taken before the first write and left with the second.
LEMMA PublishingWorker ==
  ASSUME TypeOK, Gated, Publishing, NEW m \in Members, Worker(m)
  PROVE  Publishing'
<1> USE NobodyAssumption DEF outcomeVars, targetVars, TypeOK, Publishing
<1>1. CASE Enter(m)
  BY <1>1 DEF Enter, Goto
<1>2. CASE Copy(m)
  BY <1>2 DEF Copy, CopyTarget, Goto
<1>3. CASE Resolve(m)
  BY <1>3 DEF Resolve, CopyTarget, Goto
<1>4. CASE LockPublication(m)
  BY <1>4 DEF LockPublication, Goto
<1>5. CASE SetField(m)
  BY <1>5 DEF SetField, FailWrite, Goto
<1>6. CASE SetMarker(m)
  BY <1>6 DEF SetMarker, FailWrite, Goto
<1>7. CASE LockForObserver(m)
  BY <1>7 DEF LockForObserver, Goto
<1>8. CASE CallObserver(m)
  BY <1>8 DEF CallObserver, HolderAfter, Goto
<1>9. CASE Collect(m)
  BY <1>9 DEF Collect, Collected, Goto
<1>10. CASE LockForObserve(m)
  BY <1>10 DEF LockForObserve, Goto
<1>11. CASE Observe(m)
  BY <1>11 DEF Observe, Goto, CancelsPeers
<1>q. QED
  BY <1>1, <1>2, <1>3, <1>4, <1>5, <1>6, <1>7, <1>8, <1>9, <1>10, <1>11 DEF Worker

LEMMA PublishingCoordinator ==
  ASSUME TypeOK, Gated, Publishing, Coordinator
  PROVE  Publishing'
<1> USE NobodyAssumption DEF outcomeVars, targetVars, TypeOK, Publishing, Gated
<1>1. CASE Start
  BY <1>1 DEF Start
<1>2. CASE Join
  BY <1>2 DEF Join, Joined
<1>3. CASE Close
  BY <1>3 DEF Close, GroupResult
<1>q. QED
  BY <1>1, <1>2, <1>3 DEF Coordinator

-----------------------------------------------------------------------------
\* Enter comes first, and attempted members stay so.
LEMMA AttemptedFirstWorker ==
  ASSUME TypeOK, Gated, AttemptedFirst, NEW m \in Members, Worker(m)
  PROVE  AttemptedFirst'
<1> USE NobodyAssumption, NestedAssumption DEF outcomeVars, targetVars, TypeOK, Phases, AttemptedFirst
<1>1. CASE Enter(m)
  BY <1>1 DEF Enter, Goto
<1>2. CASE Copy(m)
  BY <1>2 DEF Copy, CopyTarget, Goto
<1>3. CASE Resolve(m)
  BY <1>3 DEF Resolve, CopyTarget, Goto
<1>4. CASE LockPublication(m)
  BY <1>4 DEF LockPublication, Goto
<1>5. CASE SetField(m)
  BY <1>5 DEF SetField, FailWrite, Goto
<1>6. CASE SetMarker(m)
  BY <1>6 DEF SetMarker, FailWrite, Goto
<1>7. CASE LockForObserver(m)
  BY <1>7 DEF LockForObserver, Goto
<1>8. CASE CallObserver(m)
  BY <1>8 DEF CallObserver, HolderAfter, Goto
<1>9. CASE Collect(m)
  BY <1>9 DEF Collect, Collected, Goto
<1>10. CASE LockForObserve(m)
  BY <1>10 DEF LockForObserve, Goto
<1>11. CASE Observe(m)
  BY <1>11 DEF Observe, Goto, CancelsPeers
<1>q. QED
  BY <1>1, <1>2, <1>3, <1>4, <1>5, <1>6, <1>7, <1>8, <1>9, <1>10, <1>11 DEF Worker

LEMMA AttemptedFirstCoordinator ==
  ASSUME TypeOK, Gated, AttemptedFirst, Coordinator
  PROVE  AttemptedFirst'
<1> USE NobodyAssumption DEF outcomeVars, targetVars, TypeOK, Phases, AttemptedFirst, Gated
<1>1. CASE Start
  BY <1>1 DEF Start
<1>2. CASE Join
  BY <1>2 DEF Join, Joined
<1>3. CASE Close
  BY <1>3 DEF Close, GroupResult
<1>q. QED
  BY <1>1, <1>2, <1>3 DEF Coordinator

-----------------------------------------------------------------------------
\* The target keeps the pointer it once held.
LEMMA BorrowingWorker ==
  ASSUME TypeOK, Gated, Borrowing, NEW m \in Members, Worker(m)
  PROVE  Borrowing'
<1> USE NobodyAssumption, NestedAssumption DEF outcomeVars, targetVars, TypeOK, Borrowing
<1>1. CASE Enter(m)
  BY <1>1 DEF Enter, Goto
<1>2. CASE Copy(m)
  BY <1>2 DEF Copy, CopyTarget, Goto
<1>3. CASE Resolve(m)
  BY <1>3 DEF Resolve, CopyTarget, Goto
<1>4. CASE LockPublication(m)
  BY <1>4 DEF LockPublication, Goto
<1>5. CASE SetField(m)
  BY <1>5 DEF SetField, FailWrite, Goto
<1>6. CASE SetMarker(m)
  BY <1>6 DEF SetMarker, FailWrite, Goto
<1>7. CASE LockForObserver(m)
  BY <1>7 DEF LockForObserver, Goto
<1>8. CASE CallObserver(m)
  BY <1>8 DEF CallObserver, HolderAfter, Goto
<1>9. CASE Collect(m)
  BY <1>9 DEF Collect, Collected, Goto
<1>10. CASE LockForObserve(m)
  BY <1>10 DEF LockForObserve, Goto
<1>11. CASE Observe(m)
  BY <1>11 DEF Observe, Goto, CancelsPeers
<1>q. QED
  BY <1>1, <1>2, <1>3, <1>4, <1>5, <1>6, <1>7, <1>8, <1>9, <1>10, <1>11 DEF Worker

LEMMA BorrowingCoordinator ==
  ASSUME TypeOK, Gated, Borrowing, Coordinator
  PROVE  Borrowing'
<1> USE NobodyAssumption DEF outcomeVars, targetVars, TypeOK, Borrowing, Gated
<1>1. CASE Start
  BY <1>1 DEF Start
<1>2. CASE Join
  BY <1>2 DEF Join, Joined
<1>3. CASE Close
  BY <1>3 DEF Close, GroupResult
<1>q. QED
  BY <1>1, <1>2, <1>3 DEF Coordinator

-----------------------------------------------------------------------------
\* Each way to leave a value without its marker is a reason.
LEMMA ApartWorker ==
  ASSUME TypeOK, Gated, Borrowing, Apart, NEW m \in Members, Worker(m)
  PROVE  Apart'
<1> USE NobodyAssumption, NestedAssumption DEF outcomeVars, targetVars, TypeOK, Borrowing, Apart, Excused
<1>1. CASE Enter(m)
  BY <1>1 DEF Enter, Goto
<1>2. CASE Copy(m)
  BY <1>2 DEF Copy, CopyTarget, Goto
<1>3. CASE Resolve(m)
  BY <1>3 DEF Resolve, CopyTarget, Goto
<1>4. CASE LockPublication(m)
  BY <1>4 DEF LockPublication, Goto
<1>5. CASE SetField(m)
  BY <1>5 DEF SetField, FailWrite, Goto
<1>6. CASE SetMarker(m)
  BY <1>6 DEF SetMarker, FailWrite, Goto
<1>7. CASE LockForObserver(m)
  BY <1>7 DEF LockForObserver, Goto
<1>8. CASE CallObserver(m)
  BY <1>8 DEF CallObserver, HolderAfter, Goto
<1>9. CASE Collect(m)
  BY <1>9 DEF Collect, Collected, Goto
<1>10. CASE LockForObserve(m)
  BY <1>10 DEF LockForObserve, Goto
<1>11. CASE Observe(m)
  BY <1>11 DEF Observe, Goto, CancelsPeers
<1>q. QED
  BY <1>1, <1>2, <1>3, <1>4, <1>5, <1>6, <1>7, <1>8, <1>9, <1>10, <1>11 DEF Worker

LEMMA ApartCoordinator ==
  ASSUME TypeOK, Gated, Borrowing, Apart, Coordinator
  PROVE  Apart'
<1> USE NobodyAssumption DEF outcomeVars, targetVars, TypeOK, Borrowing, Apart, Excused, Gated
<1>1. CASE Start
  BY <1>1 DEF Start
<1>2. CASE Join
  BY <1>2 DEF Join, Joined
<1>3. CASE Close
  BY <1>3 DEF Close, GroupResult
<1>q. QED
  BY <1>1, <1>2, <1>3 DEF Coordinator

-----------------------------------------------------------------------------
\* A copy waits for the mutex, so it is made when nobody is between value and
\* marker, and whatever it shows later it shares.
LEMMA CopiesCoherentWorker ==
  ASSUME TypeOK, Publishing, Apart, CopiesCoherent, NEW m \in Members, Worker(m)
  PROVE  CopiesCoherent'
<1>1. /\ fields \subseteq fields' /\ failed \subseteq failed'
      /\ fields \subseteq Members /\ fields' \subseteq Members
  BY TypeOKWorker DEF Worker, Enter, Copy, Resolve, LockPublication, SetField, SetMarker, FailWrite,
        LockForObserver, CallObserver, Collect, LockForObserve, Observe, outcomeVars, targetVars,
        TypeOK
<1>2. ASSUME NEW n \in Members, seen'[n] = seen[n], NEW x \in Members
      PROVE  /\ x \in seen'[n].markers => x \in Shown(n)'
             /\ x \in Shown(n)' \ seen'[n].markers =>
                  x \in failed' \/ (x \in Nested /\ seen'[n].shares)
  BY <1>1, <1>2 DEF CopiesCoherent, Shown
<1>3. ASSUME CopyTarget(m) PROVE CopiesCoherent'
  <2>1. publication = Nobody /\ \A n \in Members : phase[n] # "marker"
    BY <1>3, NobodyAssumption DEF CopyTarget, Publishing
  <2>2. seen'[m] = [fields |-> fields, markers |-> markers, shares |-> held]
    BY <1>3 DEF CopyTarget, TypeOK
  <2>3. \A n \in Members \ {m} : seen'[n] = seen[n]
    BY <1>3 DEF CopyTarget, TypeOK
  <2>4. ASSUME NEW x \in Members
        PROVE  /\ x \in seen'[m].markers => x \in Shown(m)'
               /\ x \in Shown(m)' \ seen'[m].markers =>
                    x \in failed' \/ (x \in Nested /\ seen'[m].shares)
    BY <1>1, <2>1, <2>2 DEF Apart, Excused, Shown
  <2>q. QED
    BY <1>2, <2>3, <2>4 DEF CopiesCoherent
<1>4. CASE Copy(m) \/ Resolve(m)
  BY <1>3, <1>4 DEF Copy, Resolve
<1>5. CASE UNCHANGED seen
  BY <1>2, <1>5 DEF CopiesCoherent
<1>q. QED
  BY <1>4, <1>5 DEF Worker, Enter, LockPublication, SetField, SetMarker, LockForObserver,
                    CallObserver, Collect, LockForObserve, Observe

LEMMA CopiesCoherentCoordinator ==
  ASSUME TypeOK, Publishing, Apart, CopiesCoherent, Coordinator
  PROVE  CopiesCoherent'
<1> USE NobodyAssumption DEF outcomeVars, targetVars, CopiesCoherent, Shown
<1>1. CASE Start
  BY <1>1 DEF Start
<1>2. CASE Join
  BY <1>2 DEF Join, Joined
<1>3. CASE Close
  BY <1>3 DEF Close, GroupResult
<1>q. QED
  BY <1>1, <1>2, <1>3 DEF Coordinator

-----------------------------------------------------------------------------
\* Whoever takes the mutex, or keeps it in a panic, has yet to report.
LEMMA ObservingWorker ==
  ASSUME TypeOK, Gated, Observing, NEW m \in Members, Worker(m)
  PROVE  Observing'
<1> USE NobodyAssumption DEF outcomeVars, targetVars, TypeOK, Observing
<1>1. CASE Enter(m)
  BY <1>1 DEF Enter, Goto
<1>2. CASE Copy(m)
  BY <1>2 DEF Copy, CopyTarget, Goto
<1>3. CASE Resolve(m)
  BY <1>3 DEF Resolve, CopyTarget, Goto
<1>4. CASE LockPublication(m)
  BY <1>4 DEF LockPublication, Goto
<1>5. CASE SetField(m)
  BY <1>5 DEF SetField, FailWrite, Goto
<1>6. CASE SetMarker(m)
  BY <1>6 DEF SetMarker, FailWrite, Goto
<1>7. CASE LockForObserver(m)
  BY <1>7 DEF LockForObserver, Goto
<1>8. CASE CallObserver(m)
  BY <1>8 DEF CallObserver, HolderAfter, Goto
<1>9. CASE Collect(m)
  BY <1>9 DEF Collect, Collected, Goto
<1>10. CASE LockForObserve(m)
  BY <1>10 DEF LockForObserve, Goto
<1>11. CASE Observe(m)
  BY <1>11 DEF Observe, Goto, CancelsPeers
<1>q. QED
  BY <1>1, <1>2, <1>3, <1>4, <1>5, <1>6, <1>7, <1>8, <1>9, <1>10, <1>11 DEF Worker

LEMMA ObservingCoordinator ==
  ASSUME TypeOK, Gated, Observing, Coordinator
  PROVE  Observing'
<1> USE NobodyAssumption DEF outcomeVars, targetVars, TypeOK, Observing, Gated
<1>1. CASE Start
  BY <1>1 DEF Start
<1>2. CASE Join
  BY <1>2 DEF Join, Joined
<1>3. CASE Close
  BY <1>3 DEF Close, GroupResult
<1>q. QED
  BY <1>1, <1>2, <1>3 DEF Coordinator

-----------------------------------------------------------------------------
\* The report is the goroutine's last step.
LEMMA ReportedAtEndWorker ==
  ASSUME TypeOK, Gated, ReportedAtEnd, NEW m \in Members, Worker(m)
  PROVE  ReportedAtEnd'
<1> USE NobodyAssumption DEF outcomeVars, targetVars, TypeOK, ReportedAtEnd
<1>1. CASE Enter(m)
  BY <1>1 DEF Enter, Goto
<1>2. CASE Copy(m)
  BY <1>2 DEF Copy, CopyTarget, Goto
<1>3. CASE Resolve(m)
  BY <1>3 DEF Resolve, CopyTarget, Goto
<1>4. CASE LockPublication(m)
  BY <1>4 DEF LockPublication, Goto
<1>5. CASE SetField(m)
  BY <1>5 DEF SetField, FailWrite, Goto
<1>6. CASE SetMarker(m)
  BY <1>6 DEF SetMarker, FailWrite, Goto
<1>7. CASE LockForObserver(m)
  BY <1>7 DEF LockForObserver, Goto
<1>8. CASE CallObserver(m)
  BY <1>8 DEF CallObserver, HolderAfter, Goto
<1>9. CASE Collect(m)
  BY <1>9 DEF Collect, Collected, Goto
<1>10. CASE LockForObserve(m)
  BY <1>10 DEF LockForObserve, Goto
<1>11. CASE Observe(m)
  BY <1>11 DEF Observe, Goto, CancelsPeers
<1>q. QED
  BY <1>1, <1>2, <1>3, <1>4, <1>5, <1>6, <1>7, <1>8, <1>9, <1>10, <1>11 DEF Worker

LEMMA ReportedAtEndCoordinator ==
  ASSUME TypeOK, Gated, ReportedAtEnd, Coordinator
  PROVE  ReportedAtEnd'
<1> USE NobodyAssumption DEF outcomeVars, targetVars, TypeOK, ReportedAtEnd, Gated
<1>1. CASE Start
  BY <1>1 DEF Start
<1>2. CASE Join
  BY <1>2 DEF Join, Joined
<1>3. CASE Close
  BY <1>3 DEF Close, GroupResult
<1>q. QED
  BY <1>1, <1>2, <1>3 DEF Coordinator

-----------------------------------------------------------------------------
\* Nobody moves before the start.
LEMMA GatedWorker ==
  ASSUME TypeOK, Gated, NEW m \in Members, Worker(m)
  PROVE  Gated'
<1> USE NobodyAssumption DEF outcomeVars, targetVars, TypeOK, Gated
<1>1. CASE Enter(m)
  BY <1>1 DEF Enter, Goto
<1>2. CASE Copy(m)
  BY <1>2 DEF Copy, CopyTarget, Goto
<1>3. CASE Resolve(m)
  BY <1>3 DEF Resolve, CopyTarget, Goto
<1>4. CASE LockPublication(m)
  BY <1>4 DEF LockPublication, Goto
<1>5. CASE SetField(m)
  BY <1>5 DEF SetField, FailWrite, Goto
<1>6. CASE SetMarker(m)
  BY <1>6 DEF SetMarker, FailWrite, Goto
<1>7. CASE LockForObserver(m)
  BY <1>7 DEF LockForObserver, Goto
<1>8. CASE CallObserver(m)
  BY <1>8 DEF CallObserver, HolderAfter, Goto
<1>9. CASE Collect(m)
  BY <1>9 DEF Collect, Collected, Goto
<1>10. CASE LockForObserve(m)
  BY <1>10 DEF LockForObserve, Goto
<1>11. CASE Observe(m)
  BY <1>11 DEF Observe, Goto, CancelsPeers
<1>q. QED
  BY <1>1, <1>2, <1>3, <1>4, <1>5, <1>6, <1>7, <1>8, <1>9, <1>10, <1>11 DEF Worker

LEMMA GatedCoordinator ==
  ASSUME TypeOK, Gated, Coordinator
  PROVE  Gated'
<1> USE NobodyAssumption DEF outcomeVars, targetVars, TypeOK, Gated
<1>1. CASE Start
  BY <1>1 DEF Start
<1>2. CASE Join
  BY <1>2 DEF Join, Joined
<1>3. CASE Close
  BY <1>3 DEF Close, GroupResult
<1>q. QED
  BY <1>1, <1>2, <1>3 DEF Coordinator

-----------------------------------------------------------------------------
\* After the join nobody is left to move.
LEMMA AllGoneWorker ==
  ASSUME TypeOK, AllGone, NEW m \in Members, Worker(m)
  PROVE  AllGone'
<1> USE NobodyAssumption DEF outcomeVars, targetVars, TypeOK, AllGone
<1>1. CASE Enter(m)
  BY <1>1 DEF Enter, Goto
<1>2. CASE Copy(m)
  BY <1>2 DEF Copy, CopyTarget, Goto
<1>3. CASE Resolve(m)
  BY <1>3 DEF Resolve, CopyTarget, Goto
<1>4. CASE LockPublication(m)
  BY <1>4 DEF LockPublication, Goto
<1>5. CASE SetField(m)
  BY <1>5 DEF SetField, FailWrite, Goto
<1>6. CASE SetMarker(m)
  BY <1>6 DEF SetMarker, FailWrite, Goto
<1>7. CASE LockForObserver(m)
  BY <1>7 DEF LockForObserver, Goto
<1>8. CASE CallObserver(m)
  BY <1>8 DEF CallObserver, HolderAfter, Goto
<1>9. CASE Collect(m)
  BY <1>9 DEF Collect, Collected, Goto
<1>10. CASE LockForObserve(m)
  BY <1>10 DEF LockForObserve, Goto
<1>11. CASE Observe(m)
  BY <1>11 DEF Observe, Goto, CancelsPeers
<1>q. QED
  BY <1>1, <1>2, <1>3, <1>4, <1>5, <1>6, <1>7, <1>8, <1>9, <1>10, <1>11 DEF Worker

LEMMA AllGoneCoordinator ==
  ASSUME TypeOK, AllGone, Coordinator
  PROVE  AllGone'
<1> USE NobodyAssumption DEF outcomeVars, targetVars, TypeOK, AllGone
<1>1. CASE Start
  BY <1>1 DEF Start
<1>2. CASE Join
  BY <1>2 DEF Join, Joined
<1>3. CASE Close
  BY <1>3 DEF Close, GroupResult
<1>q. QED
  BY <1>1, <1>2, <1>3 DEF Coordinator

-----------------------------------------------------------------------------
\* A found value passes both writes, or its member has failed.
LEMMA FoundOnTheWayWorker ==
  ASSUME TypeOK, Gated, FoundOnTheWay, NEW m \in Members, Worker(m)
  PROVE  FoundOnTheWay'
<1> USE NobodyAssumption DEF outcomeVars, targetVars, TypeOK, FoundOnTheWay
<1>1. CASE Enter(m)
  BY <1>1 DEF Enter, Goto
<1>2. CASE Copy(m)
  BY <1>2 DEF Copy, CopyTarget, Goto
<1>3. CASE Resolve(m)
  BY <1>3 DEF Resolve, CopyTarget, Goto
<1>4. CASE LockPublication(m)
  BY <1>4 DEF LockPublication, Goto
<1>5. CASE SetField(m)
  BY <1>5 DEF SetField, FailWrite, Goto
<1>6. CASE SetMarker(m)
  BY <1>6 DEF SetMarker, FailWrite, Goto
<1>7. CASE LockForObserver(m)
  BY <1>7 DEF LockForObserver, Goto
<1>8. CASE CallObserver(m)
  BY <1>8 DEF CallObserver, HolderAfter, Goto
<1>9. CASE Collect(m)
  BY <1>9 DEF Collect, Collected, Goto
<1>10. CASE LockForObserve(m)
  BY <1>10 DEF LockForObserve, Goto
<1>11. CASE Observe(m)
  BY <1>11 DEF Observe, Goto, CancelsPeers
<1>q. QED
  BY <1>1, <1>2, <1>3, <1>4, <1>5, <1>6, <1>7, <1>8, <1>9, <1>10, <1>11 DEF Worker

LEMMA FoundOnTheWayCoordinator ==
  ASSUME TypeOK, Gated, FoundOnTheWay, Coordinator
  PROVE  FoundOnTheWay'
<1> USE NobodyAssumption DEF outcomeVars, targetVars, TypeOK, FoundOnTheWay, Gated
<1>1. CASE Start
  BY <1>1 DEF Start
<1>2. CASE Join
  BY <1>2 DEF Join, Joined
<1>3. CASE Close
  BY <1>3 DEF Close, GroupResult
<1>q. QED
  BY <1>1, <1>2, <1>3 DEF Coordinator

-----------------------------------------------------------------------------
LEMMA AppendNotEmpty ==
  ASSUME NEW S, NEW f \in Seq(S), NEW x \in S
  PROVE  Append(f, x) # << >>
<1>1. Len(Append(f, x)) = Len(f) + 1 /\ Len(f) \in Nat
  OBVIOUS
<1>q. QED
  BY <1>1

\* Failures are recorded before the collection and never after.
LEMMA NothingUncollectedWorker ==
  ASSUME TypeOK, Gated, NothingUncollected, NEW m \in Members, Worker(m)
  PROVE  NothingUncollected'
<1> USE NobodyAssumption DEF outcomeVars, targetVars, TypeOK, NothingUncollected
<1>1. CASE Enter(m)
  BY <1>1 DEF Enter, Goto
<1>2. CASE Copy(m)
  BY <1>2 DEF Copy, CopyTarget, Goto
<1>3. CASE Resolve(m)
  BY <1>3 DEF Resolve, CopyTarget, Goto
<1>4. CASE LockPublication(m)
  BY <1>4 DEF LockPublication, Goto
<1>5. CASE SetField(m)
  BY <1>5 DEF SetField, FailWrite, Goto
<1>6. CASE SetMarker(m)
  BY <1>6 DEF SetMarker, FailWrite, Goto
<1>7. CASE LockForObserver(m)
  BY <1>7 DEF LockForObserver, Goto
<1>8. CASE CallObserver(m)
  BY <1>8 DEF CallObserver, HolderAfter, Goto
<1>9. CASE Collect(m)
  <2>1. /\ UNCHANGED <<attempted, failed>>
        /\ \A n \in Members \ {m} : phase'[n] = phase[n]
    BY <1>9 DEF Collect, Goto
  <2>2. CASE m \in attempted \cap failed
    <3>1. failures' = Append(failures, m)
      BY <1>9, <2>2 DEF Collect, Collected
    <3>2. failures \in Seq(Members)
      OBVIOUS
    <3>3. failures' # << >>
      BY <3>1, <3>2, AppendNotEmpty
    <3>q. QED
      BY <3>3
  <2>3. CASE m \notin attempted \cap failed
    <3>1. failures' = failures
      BY <1>9, <2>3 DEF Collect, Collected
    <3>q. QED
      BY <2>1, <2>3, <3>1
  <2>q. QED
    BY <2>2, <2>3
<1>10. CASE LockForObserve(m)
  BY <1>10 DEF LockForObserve, Goto
<1>11. CASE Observe(m)
  BY <1>11 DEF Observe, Goto, CancelsPeers
<1>q. QED
  BY <1>1, <1>2, <1>3, <1>4, <1>5, <1>6, <1>7, <1>8, <1>9, <1>10, <1>11 DEF Worker

LEMMA NothingUncollectedCoordinator ==
  ASSUME TypeOK, Gated, NothingUncollected, Coordinator
  PROVE  NothingUncollected'
<1> USE NobodyAssumption DEF outcomeVars, targetVars, TypeOK, NothingUncollected, Gated
<1>1. CASE Start
  BY <1>1 DEF Start
<1>2. CASE Join
  BY <1>2 DEF Join, Joined
<1>3. CASE Close
  BY <1>3 DEF Close, GroupResult
<1>q. QED
  BY <1>1, <1>2, <1>3 DEF Coordinator

-----------------------------------------------------------------------------
\* The result is decided once, and nothing moves after it.
LEMMA NilIsEarnedWorker ==
  ASSUME TypeOK, AllGone, NilIsEarned, NEW m \in Members, Worker(m)
  PROVE  NilIsEarned'
<1> USE NobodyAssumption DEF outcomeVars, targetVars, TypeOK, AllGone, NilIsEarned
<1>1. CASE Enter(m)
  BY <1>1 DEF Enter, Goto
<1>2. CASE Copy(m)
  BY <1>2 DEF Copy, CopyTarget, Goto
<1>3. CASE Resolve(m)
  BY <1>3 DEF Resolve, CopyTarget, Goto
<1>4. CASE LockPublication(m)
  BY <1>4 DEF LockPublication, Goto
<1>5. CASE SetField(m)
  BY <1>5 DEF SetField, FailWrite, Goto
<1>6. CASE SetMarker(m)
  BY <1>6 DEF SetMarker, FailWrite, Goto
<1>7. CASE LockForObserver(m)
  BY <1>7 DEF LockForObserver, Goto
<1>8. CASE CallObserver(m)
  BY <1>8 DEF CallObserver, HolderAfter, Goto
<1>9. CASE Collect(m)
  BY <1>9 DEF Collect, Collected, Goto
<1>10. CASE LockForObserve(m)
  BY <1>10 DEF LockForObserve, Goto
<1>11. CASE Observe(m)
  BY <1>11 DEF Observe, Goto, CancelsPeers
<1>q. QED
  BY <1>1, <1>2, <1>3, <1>4, <1>5, <1>6, <1>7, <1>8, <1>9, <1>10, <1>11 DEF Worker

LEMMA NilIsEarnedCoordinator ==
  ASSUME TypeOK, AllGone, NilIsEarned, Coordinator
  PROVE  NilIsEarned'
<1> USE NobodyAssumption DEF outcomeVars, targetVars, TypeOK, AllGone, NilIsEarned
<1>1. CASE Start
  BY <1>1 DEF Start
<1>2. CASE Join
  BY <1>2 DEF Join, Joined
<1>3. CASE Close
  BY <1>3 DEF Close, GroupResult
<1>q. QED
  BY <1>1, <1>2, <1>3 DEF Coordinator

-----------------------------------------------------------------------------
LEMMA IInvNext == IInv /\ [Next]_vars => IInv'
<1> SUFFICES ASSUME IInv, [Next]_vars PROVE IInv'
  OBVIOUS
<1>1. ASSUME NEW m \in Members, Worker(m) PROVE IInv'
  BY <1>1, TypeOKWorker, PublishingWorker, AttemptedFirstWorker, BorrowingWorker, ApartWorker,
     CopiesCoherentWorker, ObservingWorker, ReportedAtEndWorker, GatedWorker,
     AllGoneWorker, FoundOnTheWayWorker, NothingUncollectedWorker,
     NilIsEarnedWorker DEF IInv
<1>2. CASE Coordinator
  BY <1>2, TypeOKCoordinator, PublishingCoordinator, AttemptedFirstCoordinator,
     BorrowingCoordinator, ApartCoordinator,
     CopiesCoherentCoordinator, ObservingCoordinator,
     ReportedAtEndCoordinator, GatedCoordinator, AllGoneCoordinator,
     FoundOnTheWayCoordinator, NothingUncollectedCoordinator,
     NilIsEarnedCoordinator DEF IInv
<1>3. CASE UNCHANGED vars
  BY <1>3 DEF vars, outcomeVars, targetVars, IInv, TypeOK, Phases, Publishing, Apart, Excused,
              AttemptedFirst, Borrowing, CopiesCoherent, Shown, Observing, ReportedAtEnd, Gated, AllGone,
              FoundOnTheWay, NothingUncollected, NilIsEarned
<1>q. QED
  BY <1>1, <1>2, <1>3 DEF Next, Returned

\* The inductive invariant holds in every reachable state.
THEOREM Invariance == Spec => []IInv
  BY IInvInit, IInvNext, PTL DEF Spec

\* However many peers publish, a member resolves against no marker without its
\* value, and against a value without its marker only after its member failed, or
\* through a pointer that copy and target share (resolution_group.go 315-364).
THEOREM Coherence == Spec => []CopiesCoherent
<1>1. IInv => CopiesCoherent
  BY DEF IInv
<1>q. QED
  BY <1>1, Invariance, PTL

\* The controller's run is closed after the last report, with both mutexes free
\* and every member reported exactly once, whatever the callbacks do.
THEOREM ClosedLast == Spec => []ClosedAfterJoin
<1>1. IInv => ClosedAfterJoin
  BY NobodyAssumption DEF IInv, TypeOK, Publishing, Observing, ReportedAtEnd, AllGone,
                          ClosedAfterJoin
<1>q. QED
  BY <1>1, Invariance, PTL

\* Success, of a member or of the group, is reported only over published values.
THEOREM SuccessPublished == Spec => []SuccessIsPublished
<1>1. IInv => SuccessIsPublished
  <2> SUFFICES ASSUME IInv PROVE SuccessIsPublished
    OBVIOUS
  <2>1. markers \subseteq fields
    BY DEF IInv, Apart
  <2>2. \A m \in found \ failed : phase[m] = "gone" => m \in fields /\ m \in markers
    BY <2>1 DEF IInv, FoundOnTheWay
  <2>3. ASSUME NEW m \in found \ failed, observes[m] > 0 PROVE m \in fields /\ m \in markers
    BY <2>2, <2>3 DEF IInv, TypeOK, ReportedAtEnd
  <2>4. ASSUME result = "nil"
        PROVE  /\ attempted \cap failed = {}
               /\ observeErr = {}
               /\ found \subseteq fields \cap markers
    <3>1. attempted \cap failed = {} /\ observeErr = {}
      BY <2>4 DEF IInv, TypeOK, NilIsEarned, AllGone, NothingUncollected
    <3>2. found \cap failed = {}
      BY <3>1 DEF IInv, AttemptedFirst
    <3>q. QED
      BY <2>2, <2>4, <3>1, <3>2 DEF IInv, TypeOK, NilIsEarned, AllGone
  <2>q. QED
    BY <2>3, <2>4 DEF SuccessIsPublished
<1>q. QED
  BY <1>1, Invariance, PTL

-----------------------------------------------------------------------------
(* The group as one step of the bind that waits for it.                    *)

\* After the group returned, no goroutine is left to take a step.
LEMMA ReturnedIsFinal ==
  ASSUME IInv, cpc = "returned", [Next]_vars
  PROVE  UNCHANGED vars
<1>1. \A m \in Members : ~Worker(m)
  BY DEF IInv, AllGone, Worker, Enter, Copy, Resolve, LockPublication, SetField, SetMarker,
         LockForObserver, CallObserver, Collect, LockForObserve, Observe
<1>2. ~Coordinator
  BY DEF Coordinator, Start, Join, Close
<1>q. QED
  BY <1>1, <1>2 DEF Next, Returned

\* What Close leaves is an outcome GroupedBind reckons with.
LEMMA CloseReturns ==
  ASSUME IInv, Close
  PROVE  Step!Return
<1>1. cpc = "close" /\ cpc' = "returned" /\ UNCHANGED <<attempted, fields>>
  BY DEF Close, outcomeVars, targetVars
<1>2. [attempted |-> attempted, published |-> fields, error |-> result' = "error"]
        \in Step!Outcomes(Members, "concurrent")
  BY DEF Step!Outcomes, AttemptedFirst, IInv, TypeOK
<1>3. Outcome = {} /\ Outcome' = {[attempted |-> attempted, published |-> fields,
                                   error |-> result' = "error"]}
  BY <1>1 DEF Outcome
<1>q. QED
  BY <1>2, <1>3 DEF Step!Return

LEMMA NextSteps ==
  ASSUME IInv, [Next]_vars
  PROVE  [Step!Return]_Outcome
<1>1. CASE cpc = "returned"
  <2>1. UNCHANGED vars
    BY <1>1, ReturnedIsFinal
  <2>q. QED
    BY <2>1 DEF vars, outcomeVars, targetVars, Outcome
<1>2. CASE cpc # "returned" /\ Close
  BY <1>2, CloseReturns
<1>3. CASE cpc # "returned" /\ ~Close
  <2>1. cpc' # "returned"
    BY <1>3 DEF Next, Coordinator, Start, Join, Worker, Enter, Copy, Resolve, LockPublication,
      SetField, SetMarker, LockForObserver, CallObserver, Collect, LockForObserve, Observe,
      Returned, vars
  <2>q. QED
    BY <1>3, <2>1 DEF Outcome
<1>q. QED
  BY <1>1, <1>2, <1>3

\* To bindWithGroups a default-mode group is the one step GroupedBind takes: a
\* final outcome in which only attempted members published, and none does after
\* the group returned.
THEOREM RunIsOneStep == Spec => ImplementsStep
<1>1. Init => Step!Init
  BY DEF Init, Step!Init, Outcome
<1>2. IInv /\ [Next]_vars => [Step!Return]_Outcome
  BY NextSteps
<1>q. QED
  BY <1>1, <1>2, Invariance, PTL DEF Spec, ImplementsStep, Step!Spec
=============================================================================
