--------------------------- MODULE BindLoopProofs ---------------------------
(***************************************************************************)
(* Proofs about BindLoop for every plan, every set of values and texts and *)
(* every number of binds.  The invariant comes in layers: types, what      *)
(* Prepare has collected, the order in which the loop passes the           *)
(* bindings, what each of them has become, and the replay.                 *)
(***************************************************************************)
EXTENDS BindLoop, FiniteSetTheorems, SequenceTheorems, TLAPS

TypeOK ==
  /\ plan \in Plans
  /\ fields \subseteq Bindings /\ preflight \subseteq Bindings /\ protected \subseteq Bindings
  /\ passed \subseteq Bindings /\ assigned \subseteq fields /\ torn \subseteq fields
  /\ stack \in Seq(Nat) /\ wanted \in Seq(Nat)
  /\ raw \in [Bindings -> Texts \cup {Absent}]
  /\ prepared = << >> \/ prepared \in [fields -> Found \cup {Absent}]
  /\ target \in [Bindings -> Found]
  /\ pc \in {"select", "visit", "idle", "bind", "refused"}

\* Before the replay exists nothing is bound, prepared or decoded.
Before ==
  pc \in {"select", "visit", "refused"} =>
    /\ prepared = << >> /\ raw = [b \in Bindings |-> Absent] /\ torn = {}
    /\ touched = {} /\ assigned = {} /\ verdict = "none" /\ call = NoCall

\* What was collected so far is closed but for the calls of visit in progress.
Collecting ==
  /\ pc = "select" => /\ fields = {} /\ preflight = {} /\ protected = {}
                      /\ stack = << >> /\ wanted = plan.prepare
  /\ pc \in {"visit", "idle", "bind"} => fields = ToSet(plan.select) /\ fields \subseteq preflight
  /\ \A b \in preflight \ fields :
       /\ b \in protected /\ plan.kind[b] \in {"pure", "param"}
       /\ plan.kind[b] = "param" => plan.from[b] \in preflight \cap protected
  /\ pc = "visit" =>
       /\ \A k \in 1..Len(stack) : stack[k] \in Bindings => stack[k] \in protected
       /\ \A b \in ToSet(plan.prepare) :
            \/ b \in preflight \cap protected
            \/ b \in ToSet(wanted)
            \/ stack # << >> /\ b = stack[1]
  /\ pc \in {"idle", "bind"} => ToSet(plan.prepare) \subseteq preflight \cap protected

\* The loop passes the preflight first, and the checkpoint lies between.
Passing ==
  /\ verdict = "nil" => pc = "idle"
  /\ (call.replaying /\ ~(touched \subseteq preflight)) => checked /\ ~call.only
  /\ (call.replaying /\ verdict = "nil") => checked
  /\ ~call.replaying => ~call.only /\ ~call.gate
  /\ pc = "bind" =>
       /\ verdict = "none"
       /\ (call.replaying /\ ~checked) => passed \subseteq preflight
       /\ checked => call.replaying /\ ~call.only /\ preflight \subseteq passed

\* Null is only where a null fits.
NullFits ==
  /\ \A b \in Bindings : target[b] = Null => b \in plan.nullable
  /\ prepared # << >> => \A b \in fields : prepared[b] = Null => b \in plan.nullable

Untried(b) == b \notin assigned /\ b \notin markers /\ target[b] = Fresh[b]

Replays(b) == call.replaying /\ b \in fields

\* What a binding takes from its source, after its default, and what the pipeline makes
\* of it.
Taken(b, given) == IF given = Absent THEN plan.default[b] ELSE given

Made(b, given) ==
  IF b \notin plan.codec THEN Fitted(b, Taken(b, given))
  ELSE IF given = Null /\ b \in plan.emptied THEN Empty
  ELSE Fitted(b, Codec[Taken(b, given)])

\* The same for a replayed field; what is prepared has been through the pipeline.
Supply(b) == IF prepared # << >> THEN prepared[b] ELSE Taken(b, Source(b))

Yield(b) == IF prepared # << >> THEN Fitted(b, prepared[b]) ELSE Made(b, Source(b))

\* A binding that was not found, and may be missing.
Spared(b) ==
  /\ Untried(b) /\ b \notin plan.required /\ ~CountRefused(b, Absent)
  /\ Replays(b) => Supply(b) = Absent

Limited(b, v) == Within(b, Records(b, v))

WithinLimits(b) ==
  b \in plan.counted \ plan.countsSource =>
    \/ Limited(b, target[b])
    \/ b \notin markers /\ target[b] = Fresh[b] /\ Within(b, 0)

RequiredThere(b) ==
  b \in plan.required =>
    /\ target[b] = Null => NullPasses(b)
    /\ b \in plan.marked => b \in markers

\* A binding that was assigned what its source supplied.
Bound(b) ==
  /\ b \in plan.marked => b \in markers
  /\ RequiredThere(b) /\ WithinLimits(b)
  /\ Replays(b) => b \in assigned /\ Supply(b) \in Found /\ target[b] = Yield(b)

Attempted(b) == IF b \in call.skipped THEN Untried(b) ELSE Spared(b) \/ Bound(b)

AsPrepared(b) ==
  IF prepared[b] = Absent
  THEN IF b \in plan.marked THEN b \notin markers ELSE b \notin assigned
  ELSE target[b] = prepared[b] /\ Presence(b, markers)

\* A binding of the preflight once the gate and the capture have let it through.
Settled(b) ==
  b \notin call.skipped =>
    /\ RequiredThere(b)
    /\ ~call.gate => WithinLimits(b)
    /\ b \in fields => AsPrepared(b)

Binding ==
  pc = "bind" =>
    \A b \in Bindings :
      /\ b \notin passed => Untried(b)
      /\ b \in passed /\ ~(checked /\ b \in preflight) => Attempted(b)
      /\ checked /\ b \in preflight => Settled(b)

IInv ==
  /\ TypeOK /\ Before /\ Collecting /\ Passing /\ NullFits /\ Binding
  /\ RawAgrees /\ BoundIsPrepared /\ RequiredBound
-----------------------------------------------------------------------------
(* What the constants and the types give.                                  *)

LEMMA PlanFacts ==
  ASSUME TypeOK
  PROVE  /\ plan.size \in Nat /\ plan.select \in Seq(Nat) /\ plan.prepare \in Seq(Nat)
         /\ plan.from \in [Bindings -> Nat] /\ plan.default \in [Bindings -> Found \cup {Absent}]
         /\ plan.least \in [Bindings -> Nat] /\ plan.most \in [Bindings -> Nat]
         /\ plan.rank \in [Bindings -> Nat]
         /\ \A b, c \in Bindings : plan.rank[b] = plan.rank[c] => b = c
         /\ plan.rawSource \subseteq plan.codec /\ plan.unsourced \subseteq plan.codec \ plan.emptied
         /\ plan.mapped \cap plan.counted \subseteq plan.single
BY PlansAssumption DEF TypeOK, Bindings

LEMMA SizesFinite ==
  ASSUME TypeOK
  PROVE  IsFiniteSet(Bindings) /\ IsFiniteSet(preflight) /\ IsFiniteSet(passed)
<1>1. IsFiniteSet(Bindings)
  BY PlanFacts, FS_Interval, 1 \in Int, plan.size \in Int DEF Bindings
<1> QED
  BY <1>1, FS_Subset DEF TypeOK

\* A fitted value is one of the target's type.
LEMMA FittedFacts ==
  ASSUME NEW b, NEW v \in Found
  PROVE  Fitted(b, v) \in Found /\ (Fitted(b, v) = Null => b \in plan.nullable)
BY ValuesAssumption DEF Fitted, Found

LEMMA FreshFacts ==
  /\ Fresh \in [Bindings -> Found]
  /\ \A b \in Bindings : Fresh[b] = Null => b \in plan.nullable
BY ValuesAssumption DEF Fresh, Found

\* A text is never decoded to nothing.
LEMMA SourceFacts ==
  ASSUME TypeOK, NEW b \in Bindings
  PROVE  /\ Source(b) \in Found \cup {Absent, Bad}
         /\ Source(b) # Bad => (Source(b) = Absent <=> raw[b] = Absent)
<1>1. raw[b] \in Texts \cup {Absent}
  BY DEF TypeOK
<1> QED
  BY <1>1, ValuesAssumption, ConversionsAssumption DEF Source, Decoded, Found

-----------------------------------------------------------------------------
(* The order of the loop.                                                  *)

\* Until the checkpoint it is the turn of the preflight.
LEMMA TurnFirst ==
  ASSUME TypeOK, Passing, pc = "bind", ~AtCheckpoint, call.replaying, ~checked,
         NEW b \in Bindings, Turn(b)
  PROVE  b \in preflight
<1>1. SUFFICES ASSUME b \notin preflight PROVE FALSE
  OBVIOUS
<1>2. passed \subseteq preflight
  BY DEF Passing
<1>3. ASSUME NEW c \in preflight, c \notin passed PROVE FALSE
  <2>1. Ahead(b, c)
    BY <1>1, <1>3 DEF Turn, TypeOK
  <2> QED
    BY <2>1, <1>1, <1>3 DEF Ahead
<1>4. passed = preflight
  BY <1>2, <1>3
<1> QED
  BY <1>4 DEF AtCheckpoint

\* At the checkpoint the loop is past the preflight and nothing else.
LEMMA CheckpointBetween ==
  ASSUME TypeOK, Passing, pc = "bind", AtCheckpoint
  PROVE  passed = preflight
<1>1. passed \subseteq preflight /\ IsFiniteSet(preflight)
  BY SizesFinite DEF Passing, AtCheckpoint
<1> QED
  BY <1>1, FS_Subset DEF AtCheckpoint

\* A replay is past its checkpoint when it is past everything.
LEMMA DoneChecked ==
  ASSUME TypeOK, Passing, pc = "bind", ~AtCheckpoint, passed = Bindings, call.replaying
  PROVE  checked
<1>1. SUFFICES ASSUME ~checked PROVE FALSE
  OBVIOUS
<1>2. passed = preflight
  BY <1>1 DEF Passing, TypeOK
<1> QED
  BY <1>1, <1>2 DEF AtCheckpoint

-----------------------------------------------------------------------------
(* What one binding becomes.                                               *)

\* A value that required check and record count let through.
Sound(b, v) ==
  /\ v \in Found /\ (v = Null => b \in plan.nullable)
  /\ b \in plan.required /\ v = Null => NullPasses(b)
  /\ b \in plan.counted \ plan.countsSource => Limited(b, v)

Dropped ==
  /\ pc' = "idle" /\ verdict' \notin {"none", "nil"}
  /\ UNCHANGED <<passed, target, markers, assigned>>

LEMMA CountedFacts ==
  ASSUME TypeOK, NEW b \in Bindings, NEW v \in Found, ~CountRefused(b, v)
  PROVE  /\ b \in plan.required /\ v = Null => b \in plan.mapped
         /\ b \in plan.counted => Limited(b, v)
<1>1. plan.least[b] \in Nat /\ plan.most[b] \in Nat
  BY PlanFacts
<1>2. v # Null => v \in Values /\ v # Absent /\ Size[v] \in Nat
  BY ValuesAssumption DEF Found
<1>3. b \in plan.mapped \cap plan.counted => b \in plan.single
  BY PlanFacts
<1> QED
  BY <1>1, <1>2, <1>3, ValuesAssumption
  DEF CountRefused, Counts, NoRecord, Records, Miscounted, Limited, Within

LEMMA CountedAbsent ==
  ASSUME TypeOK, NEW b \in Bindings, ~CountRefused(b, Absent)
  PROVE  b \notin plan.required /\ Within(b, 0)
<1>1. plan.least[b] \in Nat /\ plan.most[b] \in Nat
  BY PlanFacts
<1> QED
  BY <1>1 DEF CountRefused, Counts, NoRecord, Records, Miscounted, Within

LEMMA RefuseDrops ==
  ASSUME NEW why \in {"source", "required", "count", "codec", "condition", "field"}, Refuse(why)
  PROVE  Dropped
BY DEF Refuse, Fail, Dropped

LEMMA FinishOutcome ==
  ASSUME TypeOK, NEW b \in Bindings, NEW v \in Found, NEW count,
         ~count => b \in plan.countsSource \cap plan.codec,
         call.strict /\ b \in plan.required /\ v = Null => b \in plan.codec,
         Finish(b, v, count)
  PROVE  Dropped \/ (Assign(b, Fitted(b, v)) /\ Sound(b, Fitted(b, v)))
<1>1. CASE count /\ CountRefused(b, Fitted(b, v))
  BY <1>1, RefuseDrops DEF Finish
<1>2. CASE ~(count /\ CountRefused(b, Fitted(b, v)))
  <2>1. Assign(b, Fitted(b, v))
    BY <1>2 DEF Finish
  <2>2. Fitted(b, v) \in Found /\ (Fitted(b, v) = Null => b \in plan.nullable)
    BY FittedFacts
  <2>3. CASE count
    <3>1. /\ b \in plan.required /\ Fitted(b, v) = Null => b \in plan.mapped
          /\ b \in plan.counted => Limited(b, Fitted(b, v))
      BY <1>2, <2>2, <2>3, CountedFacts
    <3>2. Fitted(b, v) = Null => v = Null
      BY ValuesAssumption DEF Fitted
    <3> QED
      BY <2>1, <2>2, <3>1, <3>2 DEF Sound, NullPasses
  <2>4. CASE ~count
    BY <2>1, <2>2, <2>4 DEF Sound, NullPasses
  <2> QED
    BY <2>3, <2>4
<1> QED
  BY <1>1, <1>2

LEMMA TransformOutcome ==
  ASSUME TypeOK, NEW b \in Bindings, NEW v \in Found, b \in plan.codec, Transform(b, v)
  PROVE  Dropped \/ (Assign(b, Fitted(b, Codec[v])) /\ Sound(b, Fitted(b, Codec[v])))
<1>1. CASE b \in plan.countsSource /\ Miscounted(b, SourceRecords(b, v))
  BY <1>1, RefuseDrops DEF Transform
<1>2. CASE ~(b \in plan.countsSource /\ Miscounted(b, SourceRecords(b, v))) /\ Codec[v] = Bad
  BY <1>2, RefuseDrops DEF Transform
<1>3. CASE ~(b \in plan.countsSource /\ Miscounted(b, SourceRecords(b, v))) /\ Codec[v] # Bad
  <2>1. Finish(b, Codec[v], b \notin plan.countsSource)
    BY <1>3 DEF Transform
  <2>2. Codec[v] \in Found
    BY <1>3, ConversionsAssumption
  <2> QED
    BY <2>1, <2>2, FinishOutcome
<1> QED
  BY <1>1, <1>2, <1>3

LEMMA MissingOutcome ==
  ASSUME NEW b, Missing(b)
  PROVE  Dropped \/ (Continue(b) /\ ~CountRefused(b, Absent))
BY RefuseDrops DEF Missing

\* A value from a provider or a raw text.
LEMMA ProcessOutcome ==
  ASSUME TypeOK, NEW b \in Bindings, NEW given \in Found \cup {Absent, Bad},
         Process(b, given, FALSE)
  PROVE  \/ Dropped
         \/ Continue(b) /\ ~CountRefused(b, Absent) /\ Taken(b, given) = Absent
         \/ /\ Taken(b, given) \in Found
            /\ Assign(b, Made(b, given)) /\ Sound(b, Made(b, given))
<1> DEFINE emptied == b \in plan.emptied \cap plan.codec /\ given = Null
           v == IF emptied THEN Empty ELSE Taken(b, given)
           refused == v = Null /\ call.strict /\ b \in plan.required
<1>1. \/ v = Bad /\ Refuse("source")
      \/ v = Absent /\ Missing(b)
      \/ refused /\ Refuse("required")
      \/ v \in Found /\ ~emptied /\ b \in plan.codec /\ Transform(b, v)
      \/ v \in Found /\ ~refused /\ (emptied \/ b \notin plan.codec) /\ Finish(b, v, TRUE)
  BY DEF Process, Taken
<1>2. emptied => Taken(b, given) = Null /\ Taken(b, given) \in Found
  BY ValuesAssumption DEF Taken, Found
<1>3. CASE Refuse("source") \/ Refuse("required")
  BY <1>3, RefuseDrops
<1>4. CASE v = Absent /\ Missing(b)
  <2>1. Taken(b, given) = Absent
    BY <1>4, ValuesAssumption
  <2> QED
    BY <1>4, <2>1, MissingOutcome
<1>5. CASE v \in Found /\ ~emptied /\ b \in plan.codec /\ Transform(b, v)
  <2>1. v = Taken(b, given) /\ Made(b, given) = Fitted(b, Codec[v])
    BY <1>5 DEF Made
  <2> QED
    BY <1>5, <2>1, TransformOutcome
<1>6. CASE v \in Found /\ ~refused /\ (emptied \/ b \notin plan.codec) /\ Finish(b, v, TRUE)
  <2>1. Made(b, given) = Fitted(b, v) /\ Taken(b, given) \in Found
    BY <1>2, <1>6, ValuesAssumption DEF Made, Fitted
  <2> QED
    BY <1>6, <2>1, FinishOutcome
<1> HIDE DEF emptied, v, refused
<1> QED
  BY <1>1, <1>3, <1>4, <1>5, <1>6

\* A value that is prepared.
LEMMA PreparedOutcome ==
  ASSUME TypeOK, NEW b \in Bindings, NEW given \in Found \cup {Absent},
         Process(b, given, TRUE)
  PROVE  \/ Dropped
         \/ Continue(b) /\ ~CountRefused(b, Absent) /\ given = Absent
         \/ given \in Found /\ Assign(b, Fitted(b, given)) /\ Sound(b, Fitted(b, given))
<1>1. \/ given = Bad /\ Refuse("source")
      \/ given = Absent /\ Missing(b)
      \/ Refuse("required")
      \/ /\ given \in Found /\ Finish(b, given, TRUE)
         /\ ~(given = Null /\ call.strict /\ b \in plan.required)
  BY DEF Process
<1> QED
  BY <1>1, RefuseDrops, MissingOutcome, FinishOutcome

\* What one binding that is not switched off may come to.
Outcome(b) ==
  \/ Dropped
  \/ Continue(b) /\ ~CountRefused(b, Absent) /\ (Replays(b) => Supply(b) = Absent)
  \/ \E v \in Found : /\ Assign(b, v) /\ Sound(b, v)
                      /\ Replays(b) => Supply(b) \in Found /\ v = Yield(b)

LEMMA BindOneOutcome ==
  ASSUME TypeOK, NEW b \in Bindings, BindOne(b)
  PROVE  Outcome(b)
<1>1. CASE ~Replays(b)
  <2>1. PICK given \in Given(b) : Process(b, given, FALSE)
    BY <1>1 DEF BindOne, Replays
  <2>2. given \in Found \cup {Absent, Bad}
    BY <2>1 DEF Given
  <2> QED
    BY <1>1, <2>1, <2>2, ProcessOutcome DEF Outcome, Sound
<1>2. CASE Replays(b) /\ prepared = << >>
  <2>1. Process(b, Source(b), FALSE)
    BY <1>2 DEF BindOne, Replays
  <2>2. Source(b) \in Found \cup {Absent, Bad}
    BY SourceFacts
  <2>3. Supply(b) = Taken(b, Source(b)) /\ Yield(b) = Made(b, Source(b))
    BY <1>2 DEF Supply, Yield
  <2> QED
    BY <2>1, <2>2, <2>3, ProcessOutcome DEF Outcome, Sound
<1>3. CASE Replays(b) /\ prepared # << >>
  <2>1. Process(b, prepared[b], TRUE)
    BY <1>3 DEF BindOne, Replays
  <2>2. prepared[b] \in Found \cup {Absent}
    BY <1>3 DEF TypeOK, Replays
  <2>3. Supply(b) = prepared[b] /\ Yield(b) = Fitted(b, prepared[b])
    BY <1>3 DEF Supply, Yield
  <2> QED
    BY <2>1, <2>2, <2>3, PreparedOutcome DEF Outcome, Sound
<1> QED
  BY <1>1, <1>2, <1>3

-----------------------------------------------------------------------------
(* Selection and preparation.                                              *)

\* Nothing is bound or prepared before the replay exists.
LEMMA BeforeFrame ==
  ASSUME IInv, pc \in {"select", "visit"}, pc' \in {"select", "visit", "refused", "idle"},
         UNCHANGED <<plan, prepared, loop, verdict, torn>>
  PROVE  Passing' /\ NullFits' /\ Binding' /\ RawAgrees' /\ BoundIsPrepared' /\ RequiredBound'
<1> USE DEF IInv, Before, loop
<1>1. ~call.replaying /\ ~call.only /\ ~call.gate /\ verdict = "none" /\ prepared = << >>
  BY DEF NoCall
<1>2. Passing'
  BY <1>1 DEF Passing
<1>3. NullFits'
  BY <1>1 DEF NullFits, Bindings
<1>4. Binding' /\ RawAgrees' /\ BoundIsPrepared' /\ RequiredBound'
  BY <1>1 DEF Binding, RawAgrees, BoundIsPrepared, RequiredBound
<1> QED
  BY <1>2, <1>3, <1>4

LEMMA SelectKeeps ==
  ASSUME IInv, Select
  PROVE  IInv'
<1> USE DEF IInv, Select, loop, replay
<1>1. CASE SelectionRefused
  <2>1. TypeOK'
    BY <1>1 DEF TypeOK, Bindings
  <2>2. Before'
    BY <1>1 DEF Before, Bindings
  <2>3. Collecting'
    BY <1>1 DEF Collecting
  <2> QED
    BY <1>1, <2>1, <2>2, <2>3, BeforeFrame
<1>2. CASE ~SelectionRefused
  <2>1. fields' = ToSet(plan.select) /\ fields' \subseteq Bindings
    BY <1>2, PlanFacts DEF SelectionRefused, ToSet
  <2>2. TypeOK'
    BY <1>2, <2>1 DEF TypeOK, Bindings, Before
  <2>3. Before'
    BY <1>2 DEF Before, Bindings
  <2>4. Collecting'
    BY <1>2, <2>1 DEF Collecting
  <2> QED
    BY <1>2, <2>2, <2>3, <2>4, BeforeFrame
<1> QED
  BY <1>1, <1>2

LEMMA VisitRootKeeps ==
  ASSUME IInv, VisitRoot
  PROVE  IInv'
<1> USE DEF IInv, VisitRoot, loop, replay
<1>1. wanted \in Seq(Nat) /\ wanted # << >> /\ stack = << >>
  BY DEF TypeOK
<1>2. Head(wanted) \in Nat /\ Tail(wanted) \in Seq(Nat)
  BY <1>1
<1>3. ASSUME NEW b \in ToSet(wanted), b # Head(wanted) PROVE b \in ToSet(Tail(wanted))
  <2>1. PICK k \in 1..Len(wanted) : b = wanted[k]
    BY <1>1, <1>3 DEF ToSet
  <2>2. k - 1 \in 1..Len(Tail(wanted)) /\ Tail(wanted)[k - 1] = b
    BY <1>1, <1>3, <2>1
  <2>3. DOMAIN Tail(wanted) = 1..Len(Tail(wanted))
    BY <1>2
  <2> QED
    BY <2>2, <2>3 DEF ToSet
<1>4. stack' = <<Head(wanted)>> /\ stack' \in Seq(Nat)
  BY <1>1, <1>2 DEF Call
<1>5. TypeOK'
  BY <1>2, <1>4 DEF TypeOK, Bindings, Call
<1>6. Before'
  BY DEF Before, Bindings
<1>7. Collecting'
  BY <1>1, <1>3, <1>4 DEF Collecting, Call, Bindings
<1> QED
  BY <1>5, <1>6, <1>7, BeforeFrame
\* Pushing and popping the calls of visit.
LEMMA StackFacts ==
  ASSUME NEW s \in Seq(Nat), s # << >>
  PROVE  /\ Last(s) \in Nat /\ Last(s) = s[Len(s)] /\ Len(s) \in Nat \ {0}
         /\ Front(s) \in Seq(Nat) /\ Len(Front(s)) = Len(s) - 1
         /\ \A k \in 1..(Len(s) - 1) : Front(s)[k] = s[k]
         /\ Len(s) = 1 => Last(s) = s[1]
         /\ Front(s) # << >> => Front(s)[1] = s[1]
<1>1. Len(s) \in Nat \ {0} /\ \A k \in 1..Len(s) : s[k] \in Nat
  OBVIOUS
<1>2. /\ Front(s) \in Seq(Nat) /\ Len(Front(s)) = Len(s) - 1
      /\ \A k \in 1..(Len(s) - 1) : Front(s)[k] = s[k]
  <2>1. Front(s) = SubSeq(s, 1, Len(s) - 1)
    BY DEF Front
  <2> DEFINE n == Len(s) - 1
  <2>2. 1 \in Int /\ n \in Int /\ \A k \in 1..n : s[k] \in Nat
    BY <1>1
  <2> HIDE DEF n
  <2>3. /\ SubSeq(s, 1, n) \in Seq(Nat)
        /\ Len(SubSeq(s, 1, n)) = IF 1 <= n THEN n - 1 + 1 ELSE 0
        /\ \A k \in 1..(n - 1 + 1) : SubSeq(s, 1, n)[k] = s[1 + k - 1]
    BY ONLY <2>2, SubSeqProperties
  <2>4. n \in Nat
    BY <1>1 DEF n
  <2>5. Len(SubSeq(s, 1, n)) = n /\ \A k \in 1..n : SubSeq(s, 1, n)[k] = s[k]
    BY ONLY <2>3, <2>4
  <2> QED
    BY <2>1, <2>3, <2>5 DEF n
<1>3. Front(s) # << >> => Len(s) - 1 \in Nat \ {0}
  BY <1>1, <1>2
<1> QED
  BY <1>1, <1>2, <1>3 DEF Last

LEMMA VisitKeeps ==
  ASSUME IInv, Visit
  PROVE  IInv'
<1> DEFINE b == Last(stack)
<1> USE DEF IInv, loop, replay
<1>1. /\ pc = "visit" /\ stack \in Seq(Nat) /\ stack # << >>
      /\ UNCHANGED <<plan, fields, wanted, replay, loop, verdict, binds, torn>>
  BY DEF Visit, TypeOK
<1>0. /\ b \in Nat /\ b = stack[Len(stack)] /\ Len(stack) \in Nat \ {0}
      /\ Front(stack) \in Seq(Nat) /\ Len(Front(stack)) = Len(stack) - 1
      /\ \A k \in 1..(Len(stack) - 1) : Front(stack)[k] = stack[k]
      /\ Len(stack) = 1 => b = stack[1]
      /\ Front(stack) # << >> => Front(stack)[1] = stack[1]
  BY <1>1, StackFacts
<1> HIDE DEF b
<1>2. b \in Bindings => b \in protected
  BY <1>0, <1>1 DEF Collecting
<1>3. CASE b \in preflight /\ stack' = Front(stack) /\ UNCHANGED <<preflight, protected, pc>>
  <2>1. TypeOK'
    BY <1>1, <1>3, <1>0 DEF TypeOK, Bindings
  <2>2. Before'
    BY <1>1, <1>3 DEF Before, Bindings
  <2>3. b \in protected
    BY <1>2, <1>3 DEF TypeOK
  <2>4. ASSUME NEW k \in 1..Len(stack'), stack'[k] \in Bindings PROVE stack'[k] \in protected
    <3>1. k \in 1..Len(stack) /\ stack'[k] = stack[k]
      BY <1>0, <1>3, <2>4
    <3> QED
      BY <1>1, <2>4, <3>1 DEF Collecting
  <2>5. ASSUME NEW c \in ToSet(plan.prepare), c \notin preflight \cap protected,
               c \notin ToSet(wanted)
        PROVE  stack' # << >> /\ c = stack'[1]
    BY <1>0, <1>1, <1>3, <2>3, <2>5 DEF Collecting
  <2>6. Collecting'
    BY <1>1, <1>3, <2>4, <2>5 DEF Collecting, Bindings
  <2> QED
    BY <1>1, <1>3, <2>1, <2>2, <2>6, BeforeFrame
<1>4. CASE pc' = "refused" /\ UNCHANGED <<stack, preflight, protected>>
  <2>1. TypeOK' /\ Before' /\ Collecting'
    BY <1>1, <1>4 DEF TypeOK, Before, Collecting, Bindings
  <2> QED
    BY <1>1, <1>4, <2>1, BeforeFrame
<1>5. CASE /\ b \notin preflight /\ ~VisitRefused(b) /\ Needed(b) \subseteq preflight
           /\ preflight' = preflight \cup {b} /\ stack' = Front(stack)
           /\ protected' = protected \cup Needed(b) /\ UNCHANGED pc
  <2>1. b \in Bindings /\ plan.kind[b] \in {"param", "pure"} /\ b \in protected
    BY <1>2, <1>5 DEF VisitRefused
  <2>2. TypeOK'
    BY <1>1, <1>5, <2>1, <1>0 DEF TypeOK, Bindings
  <2>3. Before'
    BY <1>1, <1>5 DEF Before, Bindings
  <2>4. ASSUME NEW k \in 1..Len(stack'), stack'[k] \in Bindings PROVE stack'[k] \in protected'
    <3>1. k \in 1..Len(stack) /\ stack'[k] = stack[k]
      BY <1>0, <1>5, <2>4
    <3> QED
      BY <1>1, <1>5, <2>4, <3>1 DEF Collecting
  <2>5. ASSUME NEW c \in ToSet(plan.prepare), c \notin preflight' \cap protected',
               c \notin ToSet(wanted)
        PROVE  stack' # << >> /\ c = stack'[1]
    BY <1>0, <1>1, <1>5, <2>1, <2>5 DEF Collecting
  <2>6. \A c \in preflight' \ fields :
          /\ c \in protected' /\ plan.kind[c] \in {"pure", "param"}
          /\ plan.kind[c] = "param" => plan.from[c] \in preflight' \cap protected'
    <3>1. TAKE c \in preflight' \ fields
    <3>2. CASE c = b
      BY <1>5, <2>1, <3>2 DEF Needed
    <3>3. CASE c # b
      BY <1>5, <3>3 DEF Collecting
    <3> QED
      BY <3>2, <3>3
  <2>7. Collecting'
    BY <1>1, <1>5, <2>4, <2>5, <2>6 DEF Collecting, Bindings
  <2> QED
    BY <1>1, <1>5, <2>2, <2>3, <2>7, BeforeFrame
<1>6. CASE ~VisitRefused(b) /\ Call(plan.from[b]) /\ UNCHANGED <<preflight, pc>>
  <2>1. b \in Bindings /\ plan.from[b] \in Nat
    BY <1>6, PlanFacts DEF VisitRefused
  <2>2. /\ stack' \in Seq(Nat) /\ stack' # << >> /\ stack'[1] = stack[1]
        /\ Len(stack') = Len(stack) + 1 /\ stack'[Len(stack')] = plan.from[b]
        /\ \A k \in 1..Len(stack) : stack'[k] = stack[k]
    BY <1>1, <1>6, <2>1 DEF Call
  <2>3. TypeOK'
    BY <1>1, <1>6, <2>2 DEF TypeOK, Bindings, Call
  <2>4. Before'
    BY <1>1, <1>6 DEF Before, Bindings
  <2>5. \A k \in 1..Len(stack') : stack'[k] \in Bindings => stack'[k] \in protected'
    BY <1>1, <1>6, <2>2 DEF Collecting, Call
  <2>6. Collecting'
    BY <1>1, <1>6, <2>2, <2>5 DEF Collecting, Bindings, Call
  <2> QED
    BY <1>1, <1>6, <2>3, <2>4, <2>6, BeforeFrame
<1> QED
  BY <1>3, <1>4, <1>5, <1>6 DEF Visit, b

LEMMA CreateKeeps ==
  ASSUME IInv, Create
  PROVE  IInv'
<1> USE DEF IInv, Create, loop, replayPlan
<1>1. raw' \in [Bindings -> Texts \cup {Absent}]
  <2>1. CASE raw' \in Obtained
    BY <2>1 DEF Obtained
  <2>2. CASE raw' \in Encoded
    <3>1. PICK given \in [Bindings -> Found \cup {Absent}] :
            /\ \A b \in Bindings : given[b] # Absent => Encode[given[b]] # Bad
            /\ raw' = [b \in Bindings |-> IF given[b] = Absent THEN Absent ELSE Encode[given[b]]]
      BY <2>2 DEF Encoded
    <3> QED
      BY <3>1, ConversionsAssumption
  <2> QED
    BY <2>1, <2>2
<1>2. TypeOK'
  BY <1>1 DEF TypeOK, Bindings
<1>3. Before'
  BY DEF Before
<1>4. Collecting'
  <2>1. ToSet(wanted) = {}
    BY DEF ToSet
  <2> QED
    BY <2>1 DEF Collecting
<1> QED
  BY <1>2, <1>3, <1>4, BeforeFrame DEF Before

-----------------------------------------------------------------------------
(* The loop.                                                               *)

\* During the binds nothing is prepared any more.
LEMMA CollectingKept ==
  ASSUME Collecting, pc \in {"idle", "bind"}, pc' \in {"idle", "bind"},
         UNCHANGED <<plan, replayPlan, stack, wanted>>
  PROVE  Collecting'
BY DEF Collecting, replayPlan, Bindings

LEMMA RawAgreesKept ==
  ASSUME RawAgrees, UNCHANGED <<plan, fields, replay, torn>>
  PROVE  RawAgrees'
BY DEF RawAgrees, CodecAgrees, TextAgrees, replay, Source, Decoded, Fitted

LEMMA StartBindKeeps ==
  ASSUME IInv, StartBind
  PROVE  IInv'
<1> USE DEF IInv, StartBind, replayPlan, replay
<1>1. PICK replaying, only, gate, strict \in BOOLEAN, skipped \in Skips :
        /\ ~replaying => ~only /\ ~gate
        /\ call' = [ replaying |-> replaying, only |-> only, gate |-> gate,
                     strict |-> strict, skipped |-> skipped ]
  OBVIOUS
<1>2. TypeOK'
  <2>1. Fresh \in [Bindings -> Found]
    BY FreshFacts
  <2> QED
    BY <2>1 DEF TypeOK, Bindings
<1>3. Before' /\ Collecting'
  BY CollectingKept DEF Before
<1>4. Passing'
  BY <1>1 DEF Passing
<1>5. NullFits'
  BY FreshFacts DEF NullFits, Bindings
<1>6. Binding'
  BY DEF Binding, Untried, Fresh, Bindings
<1>7. RawAgrees' /\ BoundIsPrepared' /\ RequiredBound'
  BY RawAgreesKept DEF BoundIsPrepared, RequiredBound
<1> QED
  BY <1>2, <1>3, <1>4, <1>5, <1>6, <1>7

\* What an attempt means for required bindings and record limits.
LEMMA AttemptedFacts ==
  ASSUME TypeOK, NEW b \in Bindings, b \notin call.skipped, Attempted(b)
  PROVE  RequiredThere(b) /\ WithinLimits(b)
<1>1. CASE Bound(b)
  BY <1>1 DEF Bound
<1>2. CASE Spared(b)
  <2>1. b \notin plan.required /\ Within(b, 0)
    BY <1>2, CountedAbsent DEF Spared
  <2> QED
    BY <1>2, <2>1 DEF RequiredThere, WithinLimits, Spared, Untried
<1> QED
  BY <1>1, <1>2 DEF Attempted

LEMMA ReturnKeeps ==
  ASSUME IInv, Return
  PROVE  IInv'
<1> USE DEF IInv, Return, replayPlan, replay, loop
<1>1. TypeOK' /\ Before' /\ NullFits'
  BY DEF TypeOK, Before, NullFits, Bindings
<1>2. Collecting'
  BY CollectingKept
<1>3. call.replaying => checked
  BY DoneChecked
<1>4. ~call.only
  BY <1>3 DEF Passing
<1>5. Passing'
  BY <1>3 DEF Passing
<1>6. Binding' /\ RawAgrees'
  BY RawAgreesKept DEF Binding
<1>7. ASSUME NEW b \in Bindings, b \notin call.skipped
      PROVE  /\ RequiredThere(b) /\ (~call.gate => WithinLimits(b))
             /\ call.replaying /\ b \in fields => AsPrepared(b)
  <2>1. CASE checked /\ b \in preflight
    BY <1>7, <2>1 DEF Binding, Settled
  <2>2. CASE ~(checked /\ b \in preflight)
    <3>1. Attempted(b)
      BY <2>2 DEF Binding
    <3>2. ~(call.replaying /\ b \in fields)
      BY <1>3, <2>2 DEF Collecting
    <3> QED
      BY <1>7, <3>1, <3>2, AttemptedFacts
  <2> QED
    BY <2>1, <2>2
<1>8. BoundIsPrepared'
  BY <1>7 DEF BoundIsPrepared, AsPrepared, TypeOK, Presence
<1>9. RequiredBound'
  BY <1>4, <1>7 DEF RequiredBound, Reached, RequiredThere, NullPasses, WithinLimits, Limited,
     Within, Records, NoRecord, Fresh, Bindings
<1> QED
  BY <1>1, <1>2, <1>5, <1>6, <1>8, <1>9

\* What a bind that failed leaves.
LEMMA FailKeeps ==
  ASSUME IInv, pc = "bind", pc' = "idle", verdict' \notin {"none", "nil"},
         UNCHANGED <<plan, replayPlan, stack, wanted, call>>,
         TypeOK', NullFits', RawAgrees',
         (call.replaying /\ ~(touched' \subseteq preflight)) => checked' /\ ~call.only
  PROVE  IInv'
<1> USE DEF IInv, replayPlan
<1>1. Before' /\ Binding'
  BY DEF Before, Binding
<1>2. Collecting'
  BY CollectingKept
<1>3. Passing'
  BY DEF Passing
<1>4. BoundIsPrepared' /\ RequiredBound'
  BY DEF BoundIsPrepared, RequiredBound
<1> QED
  BY <1>1, <1>2, <1>3, <1>4

\* A binding that a step leaves alone.
LEMMA OthersKept ==
  ASSUME NEW c \in Bindings, target'[c] = target[c], c \in markers' <=> c \in markers,
         c \in assigned' <=> c \in assigned,
         UNCHANGED <<plan, fields, call, raw, prepared>>
  PROVE  /\ Untried(c)' <=> Untried(c)
         /\ Attempted(c)' <=> Attempted(c)
         /\ Settled(c)' <=> Settled(c)
<1>1. Fresh'[c] = Fresh[c]
  BY DEF Fresh, Bindings
<1>2. Supply(c)' = Supply(c) /\ Yield(c)' = Yield(c) /\ (Replays(c)' <=> Replays(c))
  BY DEF Supply, Yield, Replays, Taken, Made, Source, Decoded, Fitted
<1>3. Untried(c)' <=> Untried(c)
  BY <1>1 DEF Untried
<1>4. (RequiredThere(c)' <=> RequiredThere(c)) /\ (WithinLimits(c)' <=> WithinLimits(c))
  BY <1>1 DEF RequiredThere, NullPasses, WithinLimits, Limited, Within, Records, NoRecord
<1>5. Spared(c)' <=> Spared(c)
  BY <1>2, <1>3 DEF Spared, CountRefused, Counts, Records, NoRecord, Miscounted
<1>6. Bound(c)' <=> Bound(c)
  BY <1>2, <1>4 DEF Bound
<1>7. AsPrepared(c)' <=> AsPrepared(c)
  BY DEF AsPrepared, Presence
<1> QED
  BY <1>3, <1>4, <1>5, <1>6, <1>7 DEF Attempted, Settled

\* The bindings a step does not take stay what they were; the one it takes had not
\* been tried.
LEMMA StepPasses ==
  ASSUME IInv, Step, NEW b \in Bindings, Turn(b), TypeOK', NullFits',
         passed' = passed \cup {b}, UNCHANGED <<verdict, pc>>,
         touched' \subseteq touched \cup {b},
         \A c \in Bindings \ {b} : /\ target'[c] = target[c]
                                   /\ c \in markers' <=> c \in markers
                                   /\ c \in assigned' <=> c \in assigned,
         Untried(b) => Attempted(b)'
  PROVE  IInv'
<1> USE DEF IInv, replayPlan, replay
<1>1. /\ pc = "bind" /\ ~AtCheckpoint /\ b \notin passed
      /\ UNCHANGED <<plan, replayPlan, stack, wanted, replay, call, checked, binds, torn>>
  BY DEF Step, Turn
<1>2. (call.replaying /\ ~checked) => b \in preflight
  BY <1>1, TurnFirst
<1>3. Before' /\ Collecting'
  BY <1>1, CollectingKept DEF Before
<1>4. Passing'
  BY <1>1, <1>2 DEF Passing
<1>5. Binding'
  <2>1. SUFFICES ASSUME NEW c \in Bindings
                 PROVE  /\ c \notin passed' => Untried(c)'
                        /\ c \in passed' /\ ~(checked /\ c \in preflight) => Attempted(c)'
                        /\ checked /\ c \in preflight => Settled(c)'
    BY <1>1 DEF Binding, Bindings
  <2>2. CASE c = b
    <3>1. Untried(b)
      BY <1>1 DEF Binding
    <3>2. checked => b \notin preflight
      BY <1>1 DEF Passing
    <3> QED
      BY <2>2, <3>1, <3>2
  <2>3. CASE c # b
    <3>1. (Untried(c)' <=> Untried(c)) /\ (Attempted(c)' <=> Attempted(c))
          /\ (Settled(c)' <=> Settled(c))
      BY <1>1, <2>3, OthersKept
    <3> QED
      BY <1>1, <2>3, <3>1 DEF Binding
  <2> QED
    BY <2>2, <2>3
<1>6. RawAgrees' /\ BoundIsPrepared' /\ RequiredBound'
  BY <1>1, RawAgreesKept DEF Passing, BoundIsPrepared, RequiredBound
<1> QED
  BY <1>3, <1>4, <1>5, <1>6

LEMMA StepFails ==
  ASSUME IInv, Step, NEW b \in Bindings, Turn(b), TypeOK', NullFits',
         pc' = "idle", verdict' \notin {"none", "nil"}, touched' \subseteq touched \cup {b}
  PROVE  IInv'
<1> USE DEF IInv, replayPlan, replay
<1>1. /\ pc = "bind" /\ ~AtCheckpoint
      /\ UNCHANGED <<plan, replayPlan, stack, wanted, replay, call, checked, binds, torn>>
  BY DEF Step
<1>2. (call.replaying /\ ~checked) => b \in preflight
  BY <1>1, TurnFirst
<1>3. (call.replaying /\ ~(touched' \subseteq preflight)) => checked' /\ ~call.only
  BY <1>1, <1>2 DEF Passing
<1> QED
  BY <1>1, <1>3, RawAgreesKept, FailKeeps

\* A value that is written, marked and recorded, and then observed.
Stored(b, v) ==
  /\ target' = [target EXCEPT ![b] = v]
  /\ markers' = markers \cup ({b} \cap plan.marked)
  /\ assigned' = assigned \cup ({b} \cap (IF call.replaying THEN fields ELSE {}))
  /\ \/ passed' = passed \cup {b} /\ UNCHANGED <<verdict, pc>>
     \/ Fail("observer") /\ UNCHANGED passed

LEMMA StoredKeeps ==
  ASSUME IInv, Step, NEW b \in Bindings, Turn(b), touched' \subseteq touched \cup {b},
         NEW v \in Found, b \notin call.skipped, Stored(b, v), Sound(b, v),
         Replays(b) => Supply(b) \in Found /\ v = Yield(b)
  PROVE  IInv'
<1> USE DEF IInv, replayPlan, replay
<1>1. /\ pc = "bind" /\ ~AtCheckpoint
      /\ UNCHANGED <<plan, replayPlan, stack, wanted, replay, call, checked, binds, torn>>
  BY DEF Step
<1>2. /\ target' \in [Bindings -> Found] /\ target'[b] = v
      /\ b \in plan.marked => b \in markers'
      /\ Replays(b) => b \in assigned'
  BY DEF Stored, TypeOK, Replays
<1>3. \A c \in Bindings \ {b} : /\ target'[c] = target[c]
                                /\ c \in markers' <=> c \in markers
                                /\ c \in assigned' <=> c \in assigned
  BY DEF Stored, TypeOK
<1>4. passed' \in {passed, passed \cup {b}} /\ pc' \in {"bind", "idle"}
  BY <1>1 DEF Stored, Fail
<1>5. TypeOK'
  BY <1>1, <1>2, <1>4 DEF TypeOK, Stored, Bindings
<1>6. NullFits'
  BY <1>1, <1>2, <1>3 DEF NullFits, Sound, Bindings
<1>7. Attempted(b)'
  <2>1. Supply(b)' = Supply(b) /\ Yield(b)' = Yield(b) /\ (Replays(b)' <=> Replays(b))
    BY <1>1 DEF Supply, Yield, Replays, Taken, Made, Source, Decoded, Fitted
  <2>2. RequiredThere(b)'
    BY <1>1, <1>2 DEF RequiredThere, NullPasses, Sound
  <2>3. WithinLimits(b)'
    BY <1>1, <1>2 DEF WithinLimits, Limited, Within, Records, NoRecord, Sound
  <2>4. Bound(b)'
    BY <1>1, <1>2, <2>1, <2>2, <2>3 DEF Bound
  <2> QED
    BY <1>1, <2>4 DEF Attempted
<1>8. CASE passed' = passed \cup {b} /\ UNCHANGED <<verdict, pc>>
  BY <1>3, <1>5, <1>6, <1>7, <1>8, StepPasses
<1>9. CASE Fail("observer")
  BY <1>5, <1>6, <1>9, StepFails DEF Fail
<1> QED
  BY <1>8, <1>9 DEF Stored

LEMMA StepKeeps ==
  ASSUME IInv, Step
  PROVE  IInv'
<1> USE DEF IInv, replayPlan, replay
<1>1. /\ pc = "bind" /\ ~AtCheckpoint
      /\ UNCHANGED <<plan, replayPlan, stack, wanted, replay, call, checked, binds, torn>>
  BY DEF Step
<1>2. PICK b \in Bindings :
        /\ Turn(b)
        /\ IF b \in call.skipped THEN (Continue(b) \/ Refuse("condition")) /\ UNCHANGED touched
           ELSE BindOne(b) /\ touched' = touched \cup {b}
  BY DEF Step
<1>3. touched' \subseteq touched \cup {b}
  BY <1>2
<1>4. CASE Dropped
  <2>1. TypeOK' /\ NullFits'
    BY <1>1, <1>4 DEF TypeOK, NullFits, Dropped, Bindings
  <2> QED
    BY <1>2, <1>3, <1>4, <2>1, StepFails DEF Dropped
<1>5. CASE /\ Continue(b)
           /\ \/ b \in call.skipped
              \/ ~CountRefused(b, Absent) /\ (Replays(b) => Supply(b) = Absent)
  <2>1. TypeOK' /\ NullFits'
    BY <1>1, <1>5 DEF TypeOK, NullFits, Continue, Bindings
  <2>2. ASSUME Untried(b) PROVE Attempted(b)'
    <3>1. Attempted(b)
      <4>1. CASE b \in call.skipped
        BY <2>2, <4>1 DEF Attempted
      <4>2. CASE b \notin call.skipped
        <5>1. b \notin plan.required
          BY <1>5, <4>2, CountedAbsent
        <5> QED
          BY <1>5, <2>2, <4>2, <5>1 DEF Attempted, Spared
      <4> QED
        BY <4>1, <4>2
    <3> QED
      BY <1>1, <1>5, <3>1, OthersKept DEF Continue
  <2> QED
    BY <1>2, <1>3, <1>5, <2>1, <2>2, StepPasses DEF Continue
<1>6. ASSUME NEW v \in Found, b \notin call.skipped, Assign(b, v), Sound(b, v),
             Replays(b) => Supply(b) \in Found /\ v = Yield(b)
      PROVE  IInv'
  <2>0. CASE Refuse("field")
    BY <1>4, <2>0, RefuseDrops
  <2>1. CASE /\ target' = [target EXCEPT ![b] = v] /\ Fail("marker")
             /\ UNCHANGED <<passed, markers, assigned>>
    <3>1. TypeOK' /\ NullFits'
      BY <1>1, <1>6, <2>1 DEF TypeOK, NullFits, Sound, Fail, Bindings
    <3> QED
      BY <1>2, <1>3, <2>1, <3>1, StepFails DEF Fail
  <2>2. CASE Stored(b, v)
    BY <1>1, <1>2, <1>3, <1>6, <2>2, StoredKeeps
  <2> QED
    BY <1>6, <2>0, <2>1, <2>2 DEF Assign, Stored
<1>7. CASE b \in call.skipped
  <2>1. Refuse("condition") => Dropped
    BY RefuseDrops
  <2>2. Continue(b) \/ Dropped
    BY <1>2, <1>7, <2>1
  <2> QED
    BY <1>4, <1>5, <1>7, <2>2
<1>8. CASE b \notin call.skipped
  <2>1. Outcome(b)
    BY <1>2, <1>8, BindOneOutcome
  <2> QED
    BY <1>4, <1>5, <1>6, <1>8, <2>1 DEF Outcome
<1> QED
  BY <1>7, <1>8

-----------------------------------------------------------------------------
(* The checkpoint.                                                         *)

\* The gate writes to one binding of the preflight, a value that fits.
LEMMA GatedFacts ==
  ASSUME TypeOK, NullFits, NEW g \in Gated
  PROVE  /\ g[1] \in [Bindings -> Found]
         /\ \A b \in Bindings : g[1][b] = Null => b \in plan.nullable
         /\ \A b \in Bindings \ preflight :
              g[1][b] = target[b] /\ (b \in g[2] <=> b \in markers)
<1>1. CASE g = <<target, markers>>
  BY <1>1 DEF TypeOK, NullFits
<1>2. ASSUME NEW c \in preflight, NEW v \in Found,
             NEW m \in {markers, markers \ {c}, markers \cup ({c} \cap plan.marked)},
             g = <<[target EXCEPT ![c] = Fitted(c, v)], m>>
      PROVE  /\ g[1] \in [Bindings -> Found]
             /\ \A b \in Bindings : g[1][b] = Null => b \in plan.nullable
             /\ \A b \in Bindings \ preflight :
                  g[1][b] = target[b] /\ (b \in g[2] <=> b \in markers)
  <2>1. Fitted(c, v) \in Found /\ (Fitted(c, v) = Null => c \in plan.nullable) /\ c \in Bindings
    BY FittedFacts DEF TypeOK
  <2> QED
    BY <1>2, <2>1 DEF TypeOK, NullFits
<1> QED
  BY <1>1, <1>2 DEF Gated

\* A checkpoint that lets the bind go on, or ends a bind of the preflight only.
LEMMA PassKeeps ==
  ASSUME IInv, pc = "bind", AtCheckpoint, Pass, checked' = TRUE,
         UNCHANGED <<plan, replayPlan, stack, wanted, call, passed, assigned, binds, touched>>,
         TypeOK', NullFits', RawAgrees',
         \A b \in Bindings \ preflight :
           target'[b] = target[b] /\ (b \in markers' <=> b \in markers),
         \A b \in preflight : Settled(b)'
  PROVE  IInv'
<1> USE DEF IInv, replayPlan
<1>1. passed = preflight /\ call.replaying /\ verdict = "none" /\ touched \subseteq preflight
  BY CheckpointBetween DEF Passing, AtCheckpoint
<1>2. pc' = IF call.only THEN "idle" ELSE "bind"
  BY DEF Pass
<1>3. Before' /\ Collecting'
  BY <1>2, CollectingKept DEF Before
<1>4. Passing'
  BY <1>1 DEF Passing, Pass
<1>5. Binding'
  <2>1. ASSUME NEW b \in Bindings, b \notin preflight PROVE Untried(b)'
    BY <1>1, <2>1 DEF Binding, Untried, Fresh, Bindings
  <2> QED
    BY <1>1, <2>1 DEF Binding, Bindings
<1>6. BoundIsPrepared'
  BY DEF BoundIsPrepared, Settled, AsPrepared, Collecting, Pass
<1>7. RequiredBound'
  BY <1>1 DEF RequiredBound, Reached, Settled, RequiredThere, NullPasses, WithinLimits, Limited,
     Within, Records, NoRecord, Fresh, Bindings, Pass
<1> QED
  BY <1>3, <1>4, <1>5, <1>6, <1>7

\* What the checkpoint finds: every binding of the preflight has been attempted.
LEMMA CheckpointFinds ==
  ASSUME IInv, pc = "bind", AtCheckpoint
  PROVE  /\ passed = preflight /\ call.replaying /\ fields \subseteq preflight
         /\ \A b \in preflight : b \in Bindings /\ Attempted(b)
         /\ \A b \in preflight \ fields : b \in protected
BY CheckpointBetween DEF IInv, AtCheckpoint, Binding, Collecting, TypeOK

\* A field that was bound from what is prepared has that value.
LEMMA AsPreparedFirst ==
  ASSUME IInv, NEW b \in fields, b \in Bindings, call.replaying, prepared # << >>,
         b \notin call.skipped, Attempted(b)
  PROVE  AsPrepared(b)
<1>1. prepared[b] \in Found \cup {Absent} /\ Fitted(b, prepared[b]) = prepared[b]
  BY DEF IInv, TypeOK, NullFits, Fitted
<1>2. CASE Spared(b)
  BY <1>2 DEF Spared, Replays, Supply, AsPrepared, Untried
<1>3. CASE Bound(b)
  <2>1. prepared[b] \in Found /\ prepared[b] # Absent /\ target[b] = prepared[b]
    BY <1>1, <1>3, ValuesAssumption DEF Bound, Replays, Supply, Yield, Found
  <2> QED
    BY <1>3, <2>1 DEF Bound, AsPrepared, Presence
<1> QED
  BY <1>2, <1>3 DEF Attempted

\* Without a capture the bind goes on with what is prepared.
LEMMA NoCaptureKeeps ==
  ASSUME IInv, pc = "bind", AtCheckpoint, Pass, checked' = TRUE, prepared # << >>,
         UNCHANGED <<plan, replayPlan, stack, wanted, replay, torn, call, passed, target,
                     markers, assigned, binds, touched>>
  PROVE  IInv'
<1> USE DEF IInv, replay, replayPlan
<1>1. TypeOK' /\ NullFits' /\ RawAgrees'
  BY RawAgreesKept DEF TypeOK, NullFits, Bindings, Pass
<1>2. ASSUME NEW b \in preflight PROVE Settled(b)'
  <2>1. b \in Bindings /\ call.replaying /\ Attempted(b)
    BY CheckpointFinds
  <2>2. ASSUME b \notin call.skipped
        PROVE  RequiredThere(b) /\ WithinLimits(b) /\ (b \in fields => AsPrepared(b))
    BY <2>1, <2>2, AttemptedFacts, AsPreparedFirst
  <2>3. Settled(b)
    BY <2>2 DEF Settled
  <2> QED
    BY <2>1, <2>3, OthersKept
<1> QED
  BY <1>1, <1>2, PassKeeps

\* The fields that a capture has written were not refused.
LEMMA EditedFacts ==
  ASSUME IInv, pc = "bind", NEW values, NEW marks, NEW b \in Edited(values, marks)
  PROVE  b \in fields /\ ~CaptureRefused(b, values[b], marks)
<1>1. PICK k \in DOMAIN plan.select :
        /\ b = plan.select[k]
        /\ \A l \in 1..k : ~CaptureRefused(plan.select[l], values[plan.select[l]], marks)
  BY DEF Edited
<1>2. k \in 1..k
  BY <1>1, PlanFacts DEF IInv
<1> QED
  BY <1>1, <1>2 DEF IInv, Collecting, ToSet

\* What the gate may not replace is what the loop has bound.
Kept(values, marks) ==
  \A b \in Verified : values[b] = target[b] /\ (Presence(b, marks) <=> Presence(b, markers))

\* A codec field that is captured was bound, from its raw source or from what an
\* earlier capture had made of it.
LEMMA CodecCaptured ==
  ASSUME IInv, pc = "bind", AtCheckpoint, NEW values \in [Bindings -> Found], NEW marks,
         Kept(values, marks), NEW b \in fields, b \in plan.codec, b \notin torn,
         raw'[b] = CapturedText(b, values[b], marks),
         prepared'[b] = IF Present(b, marks) THEN values[b] ELSE Absent,
         plan' = plan
  PROVE  CodecAgrees(b)'
<1>1. /\ b \in preflight /\ b \in Bindings /\ call.replaying /\ Attempted(b)
      /\ values[b] = target[b] /\ (Presence(b, marks) <=> Presence(b, markers))
  BY CheckpointFinds DEF Kept, Verified
<1>2. CASE ~Present(b, marks)
  BY <1>2 DEF CapturedText, CodecAgrees
<1>3. CASE Present(b, marks)
  <2>1. Present(b, markers)
    BY <1>1, <1>3 DEF Present, Presence
  <2>2. ~Untried(b)
    BY <2>1 DEF Untried, Present
  <2>3. Bound(b)
    BY <1>1, <2>2 DEF Attempted, Spared
  <2>4. raw'[b] = raw[b] /\ prepared'[b] = target[b] /\ target[b] \in Found /\ Absent \notin Found
    BY <1>1, <1>3, ValuesAssumption DEF CapturedText, Same, IInv, TypeOK, Found
  <2>5. Source(b)' = Source(b)
    BY <2>4 DEF Source, Decoded
  <2>6. CASE prepared = << >>
    <3>1. Taken(b, Source(b)) \in Found /\ target[b] = Made(b, Source(b))
      BY <1>1, <2>3, <2>6 DEF Bound, Replays, Supply, Yield
    <3>2. Source(b) = Absent <=> raw[b] = Absent
      BY <1>1, <3>1, SourceFacts, ValuesAssumption DEF IInv, Taken, Found
    <3>3. CASE raw[b] = Absent
      <4>1. Source(b) # Null
        BY <3>2, <3>3, ValuesAssumption
      <4>2. plan.default[b] \in Found /\ target[b] = Fitted(b, Codec[plan.default[b]])
        BY <3>1, <3>2, <3>3, <4>1 DEF Taken, Made
      <4> QED
        BY <2>4, <3>3, <4>2 DEF CodecAgrees, Fitted
    <3>4. CASE raw[b] # Absent
      <4>1. Source(b) \in Found
        BY <3>1, <3>2, <3>4 DEF Taken
      <4>2. target[b] = IF Source(b) = Null /\ b \in plan.emptied THEN Empty
                        ELSE Fitted(b, Codec[Source(b)])
        BY <3>1, <3>2, <3>4 DEF Taken, Made
      <4> QED
        BY <2>4, <2>5, <3>4, <4>1, <4>2 DEF CodecAgrees, Fitted
    <3> QED
      BY <3>3, <3>4
  <2>7. CASE prepared # << >>
    <3>1. prepared[b] = target[b]
      <4>1. prepared[b] \in Found /\ target[b] = Fitted(b, prepared[b])
        BY <1>1, <2>3, <2>7 DEF Bound, Replays, Supply, Yield
      <4> QED
        BY <2>7, <4>1 DEF Fitted, IInv, NullFits
    <3>2. CodecAgrees(b)
      BY <2>7 DEF IInv, RawAgrees
    <3> QED
      BY <2>4, <2>5, <3>1, <3>2 DEF CodecAgrees, Fitted
  <2> QED
    BY <2>6, <2>7
<1> QED
  BY <1>2, <1>3

\* Any other field's raw text decodes to what is captured.
LEMMA TextCaptured ==
  ASSUME IInv, NEW values \in [Bindings -> Found], NEW marks,
         NEW b \in fields, b \in Bindings, b \notin plan.codec,
         ~CaptureRefused(b, values[b], marks),
         raw'[b] = CapturedText(b, values[b], marks),
         prepared'[b] = IF Present(b, marks) THEN values[b] ELSE Absent,
         plan' = plan
  PROVE  TextAgrees(b)'
<1> DEFINE v == values[b]
<1>1. /\ v \in Found /\ v # Absent /\ raw[b] \in Texts \cup {Absent} /\ Empty # Null
      /\ b \notin plan.rawSource /\ b \notin plan.unsourced
  BY ValuesAssumption, PlanFacts DEF IInv, TypeOK, Found
<1> HIDE DEF v
<1>2. CASE ~Present(b, marks)
  BY <1>2 DEF CapturedText, TextAgrees
<1>3. CASE Present(b, marks) /\ Original(b) = v
  <2>1. raw'[b] = raw[b] /\ prepared'[b] = v
    BY <1>3 DEF CapturedText, Same, v
  <2>2. raw[b] # Absent /\ Source(b) = v
    BY <1>1, <1>3 DEF Original, Source, Decoded
  <2>3. ~(v = Null /\ b \in plan.emptied)
    BY <1>1, <2>2 DEF Source, Decoded
  <2> QED
    BY <1>1, <2>1, <2>2, <2>3 DEF TextAgrees, Source, Decoded
<1>4. CASE Present(b, marks) /\ Original(b) # v
  <2>1. raw'[b] = Encode[v] /\ prepared'[b] = v /\ Encode[v] # Bad
    BY <1>4 DEF CapturedText, Same, CaptureRefused, v
  <2>2. Encode[v] \in Texts /\ Decode[Encode[v]] = v /\ Encode[v] # Absent
    BY <1>1, <2>1, ConversionsAssumption, RoundtripVerified, ValuesAssumption
  <2> QED
    BY <1>1, <2>1, <2>2 DEF TextAgrees, Source, Decoded
<1> QED
  BY <1>2, <1>3, <1>4

\* A capture leaves texts, and what is prepared has the types it had.
LEMMA CaptureTypes ==
  ASSUME IInv, pc = "bind", NEW values \in [Bindings -> Found], NEW marks,
         raw' = [b \in Bindings |-> IF b \in Edited(values, marks)
                                    THEN CapturedText(b, values[b], marks) ELSE raw[b]]
  PROVE  raw' \in [Bindings -> Texts \cup {Absent}]
<1>1. ASSUME NEW b \in Bindings, b \in Edited(values, marks)
      PROVE  CapturedText(b, values[b], marks) \in Texts \cup {Absent}
  <2>1. ~CaptureRefused(b, values[b], marks) /\ raw[b] \in Texts \cup {Absent}
    BY <1>1, EditedFacts DEF IInv, TypeOK
  <2>2. Encode[values[b]] \in Texts \cup {Bad}
    BY ConversionsAssumption
  <2> QED
    BY <2>1, <2>2 DEF CaptureRefused, CapturedText
<1>2. \A b \in Bindings : raw[b] \in Texts \cup {Absent}
  BY DEF IInv, TypeOK
<1> QED
  BY <1>1, <1>2

\* The frame of a checkpoint that captures.
Captures(values, marks) ==
  /\ pc = "bind" /\ AtCheckpoint /\ checked' = TRUE /\ target' = values /\ markers' = marks
  /\ values \in [Bindings -> Found]
  /\ \A b \in Bindings : values[b] = Null => b \in plan.nullable
  /\ \A b \in Bindings \ preflight : values[b] = target[b] /\ (b \in marks <=> b \in markers)
  /\ Kept(values, marks)
  /\ ~call.gate => values = target /\ marks = markers
  /\ raw' = [b \in Bindings |-> IF b \in Edited(values, marks)
                                THEN CapturedText(b, values[b], marks) ELSE raw[b]]
  /\ UNCHANGED <<plan, replayPlan, stack, wanted, call, passed, assigned, binds, touched>>

\* A binding of the preflight is settled by a capture that succeeds.
LEMMA CaptureSettles ==
  ASSUME IInv, NEW values, NEW marks, Captures(values, marks),
         \A b \in fields : ~CaptureRefused(b, values[b], marks),
         prepared' = Captured(values, marks), NEW b \in preflight
  PROVE  Settled(b)'
<1> USE DEF IInv, replayPlan
<1>1. /\ b \in Bindings /\ call.replaying /\ Attempted(b)
      /\ b \notin fields => b \in protected
  BY CheckpointFinds DEF Captures
<1>2. SUFFICES ASSUME b \notin call.skipped
               PROVE  /\ RequiredThere(b)' /\ (~call.gate => WithinLimits(b)')
                      /\ b \in fields => AsPrepared(b)'
  BY DEF Settled, Captures
<1>3. RequiredThere(b) /\ WithinLimits(b)
  BY <1>1, <1>2, AttemptedFacts
<1>4. ~call.gate => WithinLimits(b)'
  BY <1>3 DEF WithinLimits, Limited, Within, Records, NoRecord, Fresh, Bindings, Captures
<1>5. CASE b \in fields
  <2>1. values[b] \in Found /\ values[b] # Absent
    BY <1>1, ValuesAssumption DEF Captures, Found
  <2>2. prepared'[b] = IF Present(b, marks) THEN values[b] ELSE Absent
    BY <1>5 DEF Captured
  <2>3. AsPrepared(b)'
    BY <2>1, <2>2 DEF AsPrepared, Present, Presence, Captures
  <2>4. RequiredThere(b)'
    BY <1>5 DEF RequiredThere, NullPasses, CaptureRefused, Present, Captures
  <2> QED
    BY <1>4, <2>3, <2>4
<1>6. CASE b \notin fields
  <2>1. values[b] = target[b] /\ (Presence(b, marks) <=> Presence(b, markers))
    BY <1>1, <1>6 DEF Captures, Kept, Verified
  <2>2. RequiredThere(b)'
    BY <1>3, <2>1 DEF RequiredThere, NullPasses, Presence, Captures
  <2> QED
    BY <1>4, <1>6, <2>2
<1> QED
  BY <1>5, <1>6

LEMMA CaptureSucceeds ==
  ASSUME IInv, NEW values, NEW marks, Captures(values, marks),
         Edited(values, marks) = fields, Pass,
         prepared' = Captured(values, marks), torn' = torn \cap plan.codec
  PROVE  IInv'
<1> USE DEF IInv, replayPlan
<1>1. \A b \in fields : ~CaptureRefused(b, values[b], marks)
  BY EditedFacts DEF Captures
<1>2. \A b \in fields :
        /\ b \in Bindings
        /\ raw'[b] = CapturedText(b, values[b], marks)
        /\ prepared'[b] = IF Present(b, marks) THEN values[b] ELSE Absent
  BY DEF Captures, Captured, TypeOK
<1>3. TypeOK'
  <2>1. raw' \in [Bindings -> Texts \cup {Absent}]
    BY CaptureTypes DEF Captures
  <2>2. prepared' \in [fields -> Found \cup {Absent}]
    BY DEF Captured, Captures, TypeOK
  <2>3. pc' \in {"idle", "bind"}
    BY DEF Pass, Captures
  <2> QED
    BY <2>1, <2>2, <2>3 DEF Captures, TypeOK, Bindings
<1>4. NullFits'
  <2>1. ASSUME NEW b \in fields, prepared'[b] = Null PROVE b \in plan.nullable
    BY <1>2, <2>1, ValuesAssumption DEF Captures
  <2> QED
    BY <2>1 DEF Captures, NullFits, Bindings
<1>5. RawAgrees'
  <2>1. ASSUME NEW b \in fields, b \in plan.codec, b \notin torn PROVE CodecAgrees(b)'
    BY <1>2, <2>1, CodecCaptured DEF Captures
  <2>2. ASSUME NEW b \in fields, b \notin plan.codec PROVE TextAgrees(b)'
    BY <1>1, <1>2, <2>2, TextCaptured DEF Captures
  <2> QED
    BY <2>1, <2>2 DEF RawAgrees, Captures
<1>6. \A b \in preflight : Settled(b)'
  BY <1>1, CaptureSettles
<1>7. \A b \in Bindings \ preflight :
        target'[b] = target[b] /\ (b \in markers' <=> b \in markers)
  BY DEF Captures
<1>8. /\ pc = "bind" /\ AtCheckpoint /\ checked' = TRUE
      /\ UNCHANGED <<plan, replayPlan, stack, wanted, call, passed, assigned, binds, touched>>
  BY DEF Captures
<1> QED
  BY <1>3, <1>4, <1>5, <1>6, <1>7, <1>8, PassKeeps

LEMMA CaptureFails ==
  ASSUME IInv, NEW values, NEW marks, Captures(values, marks), Fail("capture"),
         UNCHANGED prepared,
         torn' = torn \cup (IF prepared = << >> THEN {} ELSE {b \in fields : raw'[b] # raw[b]})
  PROVE  IInv'
<1> USE DEF IInv, replayPlan
<1>1. TypeOK'
  <2>1. raw' \in [Bindings -> Texts \cup {Absent}]
    BY CaptureTypes DEF Captures
  <2> QED
    BY <2>1 DEF Captures, TypeOK, Bindings, Fail
<1>2. NullFits'
  BY DEF Captures, NullFits, Bindings
<1>3. RawAgrees'
  <2>1. ASSUME prepared # << >>, NEW b \in fields \ torn' PROVE b \notin torn /\ raw'[b] = raw[b]
    BY <2>1
  <2> QED
    BY <2>1 DEF Captures, RawAgrees, CodecAgrees, TextAgrees, Source, Decoded, Fitted
<1>4. touched' \subseteq preflight
  BY DEF Captures, Passing, AtCheckpoint
<1> QED
  BY <1>1, <1>2, <1>3, <1>4, FailKeeps DEF Captures, Fail

\* authorize and capturePrepared for one outcome of the gate.
LEMMA CaptureKeeps ==
  ASSUME IInv, pc = "bind", AtCheckpoint, checked' = TRUE, NEW values, NEW marks,
         target' = values, markers' = marks, Capture(values, marks),
         values \in [Bindings -> Found],
         \A b \in Bindings : values[b] = Null => b \in plan.nullable,
         \A b \in Bindings \ preflight : values[b] = target[b] /\ (b \in marks <=> b \in markers),
         Kept(values, marks),
         ~call.gate => values = target /\ marks = markers,
         UNCHANGED <<plan, replayPlan, stack, wanted, call, passed, assigned, binds, touched>>
  PROVE  IInv'
<1>1. CASE prepared # << >> /\ ~call.gate
  BY <1>1, NoCaptureKeeps DEF Capture
<1>2. CASE ~(prepared # << >> /\ ~call.gate)
  <2>1. Captures(values, marks)
    BY <1>2 DEF Capture, Captures
  <2>2. CASE Edited(values, marks) = fields
    BY <1>2, <2>1, <2>2, CaptureSucceeds DEF Capture
  <2>3. CASE Edited(values, marks) # fields
    BY <1>2, <2>1, <2>3, CaptureFails DEF Capture
  <2> QED
    BY <2>2, <2>3
<1> QED
  BY <1>1, <1>2

LEMMA CheckpointKeeps ==
  ASSUME IInv, Checkpoint
  PROVE  IInv'
<1>1. /\ pc = "bind" /\ AtCheckpoint /\ checked' = TRUE
      /\ UNCHANGED <<plan, replayPlan, stack, wanted, call, passed, assigned, binds, touched>>
  BY DEF Checkpoint
<1>2. CASE ~call.gate
  <2>1. Capture(target, markers) /\ UNCHANGED <<target, markers>>
    BY <1>2 DEF Checkpoint
  <2> QED
    BY <1>1, <2>1, CaptureKeeps DEF IInv, TypeOK, NullFits, Kept
<1>3. ASSUME UNCHANGED replay, UNCHANGED torn, NEW why \in {"gate", "replaced"}, Fail(why),
             target' \in [Bindings -> Found],
             \A b \in Bindings : target'[b] = Null => b \in plan.nullable
      PROVE  IInv'
  <2>1. TypeOK' /\ NullFits'
    BY <1>1, <1>3 DEF IInv, TypeOK, NullFits, replay, replayPlan, Bindings, Fail
  <2>2. touched' \subseteq preflight
    BY <1>1 DEF IInv, Passing, AtCheckpoint
  <2>3. RawAgrees'
    BY <1>1, <1>3, RawAgreesKept DEF IInv, replayPlan
  <2> QED
    BY <1>1, <1>3, <2>1, <2>2, <2>3, FailKeeps DEF Fail
<1>4. CASE call.gate
  <2>1. CASE Fail("gate") /\ UNCHANGED <<replay, torn, target, markers>>
    BY <1>3, <2>1 DEF IInv, TypeOK, NullFits
  <2>2. ASSUME NEW g \in Gated, target' = g[1], markers' = g[2],
               IF Untouched(g[1], g[2]) THEN Capture(g[1], g[2])
               ELSE Fail("replaced") /\ UNCHANGED <<replay, torn>>
        PROVE  IInv'
    <3>1. /\ g[1] \in [Bindings -> Found]
          /\ \A b \in Bindings : g[1][b] = Null => b \in plan.nullable
          /\ \A b \in Bindings \ preflight :
               g[1][b] = target[b] /\ (b \in g[2] <=> b \in markers)
      BY GatedFacts DEF IInv
    <3>2. CASE Untouched(g[1], g[2])
      <4>1. Kept(g[1], g[2])
        BY <3>2 DEF Untouched, Kept
      <4> QED
        BY <1>1, <1>4, <2>2, <3>1, <3>2, <4>1, CaptureKeeps
    <3>3. CASE ~Untouched(g[1], g[2])
      BY <1>3, <2>2, <3>1, <3>3
    <3> QED
      BY <3>2, <3>3
  <2> QED
    BY <1>4, <2>1, <2>2 DEF Checkpoint
<1> QED
  BY <1>2, <1>4

-----------------------------------------------------------------------------
(* The theorems.                                                           *)

LEMMA IInvInit == Init => IInv
<1> SUFFICES ASSUME Init PROVE IInv
  OBVIOUS
<1> USE DEF Init
<1>1. plan.size \in Nat /\ plan.prepare \in Seq(Nat)
  BY PlansAssumption
<1>2. TypeOK
  BY <1>1, FreshFacts DEF TypeOK, Bindings
<1>3. Before /\ Collecting /\ Passing
  BY DEF Before, Collecting, Passing, NoCall
<1>4. NullFits /\ Binding
  BY FreshFacts DEF NullFits, Binding
<1>5. RawAgrees /\ BoundIsPrepared /\ RequiredBound
  BY DEF RawAgrees, BoundIsPrepared, RequiredBound
<1> QED
  BY <1>2, <1>3, <1>4, <1>5 DEF IInv

LEMMA IInvNext == IInv /\ [Next]_vars => IInv'
<1> SUFFICES ASSUME IInv, [Next]_vars PROVE IInv'
  OBVIOUS
<1>1. CASE UNCHANGED vars
  <2>1. UNCHANGED <<plan, fields, preflight, protected, stack, wanted, raw, prepared, pc, call,
                    passed, checked, target, markers, assigned, touched, verdict, binds, torn>>
    BY <1>1 DEF vars, replayPlan, replay, loop
  <2>2. (TypeOK /\ Before /\ Collecting /\ Passing /\ NullFits)'
    BY <2>1 DEF IInv, TypeOK, Before, Collecting, Passing, NullFits, Bindings
  <2>3. Binding'
    <3>1. \A b \in Bindings : /\ Untried(b)' <=> Untried(b)
                              /\ Attempted(b)' <=> Attempted(b)
                              /\ Settled(b)' <=> Settled(b)
      BY <2>1, OthersKept
    <3> QED
      BY <2>1, <3>1 DEF IInv, Binding, Bindings
  <2>4. RawAgrees'
    BY <2>1, RawAgreesKept DEF IInv, replay
  <2>5. BoundIsPrepared'
    BY <2>1 DEF IInv, BoundIsPrepared, Presence
  <2>6. RequiredBound'
    BY <2>1 DEF IInv, RequiredBound, Reached, NullPasses, Within, Records, NoRecord, Fresh, Bindings
  <2> QED
    BY <2>2, <2>3, <2>4, <2>5, <2>6 DEF IInv
<1>2. CASE Next
  BY <1>1, <1>2, SelectKeeps, VisitRootKeeps, VisitKeeps, CreateKeeps, StartBindKeeps, StepKeeps,
     CheckpointKeeps, ReturnKeeps DEF Next, Over
<1> QED
  BY <1>1, <1>2

\* The invariant holds in every state of every bind.
THEOREM Invariance == Spec => []IInv
BY IInvInit, IInvNext, PTL DEF Spec

\* The preflight is closed and is resolved before the gate, everything else after it:
\* none of invocation.bind, Plan.Replay and ReplayPlan.Prepare ever does otherwise.
THEOREM GateComesFirst == Spec => []GateFirst
<1>1. IInv => GateFirst
  BY DEF IInv, GateFirst, Passing, Collecting, PreflightClosed
<1> QED
  BY <1>1, Invariance, PTL

\* What capturePrepared has prepared follows from the raw values of the replay, over any
\* number of binds and gates.
THEOREM RawFollows == Spec => []RawAgrees
<1>1. IInv => RawAgrees
  BY DEF IInv
<1> QED
  BY <1>1, Invariance, PTL

\* A replaying bind that returns nil has bound what is prepared.
THEOREM PreparedIsBound == Spec => []BoundIsPrepared
<1>1. IInv => BoundIsPrepared
  BY DEF IInv
<1> QED
  BY <1>1, Invariance, PTL

\* A bind that returns nil has bound what is required, within the record limits.
THEOREM RequiredIsBound == Spec => []RequiredBound
<1>1. IInv => RequiredBound
  BY DEF IInv
<1> QED
  BY <1>1, Invariance, PTL

\* A component reads from a replay what it would read from one projected out of it.
THEOREM ReceiversAgree == Spec => []ReceiverPolicy
<1>1. ASSUME IInv, NEW b \in fields \ torn
      PROVE  /\ Provided(b, FALSE) = Decoded(b, Projected(b), FALSE)
             /\ b \in plan.body \ (plan.codec \cap plan.rawSource) => Provided(b, TRUE) # Null
  <2>1. /\ b \in Bindings /\ raw[b] \in Texts \cup {Absent} /\ plan.rawSource \subseteq plan.codec
        /\ plan.unsourced \subseteq plan.codec
    BY <1>1, PlanFacts DEF IInv, TypeOK
  <2>2. Provided(b, FALSE) = Decoded(b, Projected(b), FALSE)
    <3>1. CASE prepared # << >> /\ b \notin plan.codec \cup plan.emptied
      <4>1. TextAgrees(b)
        BY <1>1, <3>1 DEF IInv, RawAgrees
      <4> QED
        BY <2>1, <3>1, <4>1 DEF TextAgrees, Provided, Projected, Source, Decoded
    <3>2. CASE ~(prepared # << >> /\ b \notin plan.codec \cup plan.emptied)
      BY <3>2 DEF Provided, Projected
    <3> QED
      BY <3>1, <3>2
  <2>3. ASSUME b \notin plan.codec \cap plan.rawSource PROVE Provided(b, TRUE) # Null
    BY <2>1, <2>3, ValuesAssumption DEF Provided, Decoded
  <2> QED
    BY <2>2, <2>3
<1>2. IInv => ReceiverPolicy
  BY <1>1 DEF ReceiverPolicy
<1> QED
  BY <1>2, Invariance, PTL

\* A null that its binding turns into a record is still there after a capture.
LEMMA NullCaptured ==
  ASSUME IInv, pc = "bind", AtCheckpoint, NEW values, NEW marks,
         NEW b \in (fields \cap plan.emptied) \ torn, raw[b] # Absent, Decode[raw[b]] = Null,
         b \notin call.skipped, values[b] = target[b], marks \cap {b} = markers \cap {b},
         ~CaptureRefused(b, values[b], marks)
  PROVE  CapturedText(b, values[b], marks) # Absent /\ Decode[CapturedText(b, values[b], marks)] = Null
<1>1. /\ b \in Bindings /\ call.replaying /\ Attempted(b)
      /\ b \notin plan.codec => b \notin plan.rawSource
      /\ b \notin plan.unsourced
  BY CheckpointFinds, PlanFacts DEF IInv
<1>2. Source(b) \in {Null, Empty} /\ (b \notin plan.codec => Source(b) = Empty)
  BY <1>1 DEF Source, Decoded
<1>3. prepared # << >> => prepared[b] # Absent
  BY DEF IInv, RawAgrees, CodecAgrees, TextAgrees
<1>4. Bound(b)
  <2>1. Supply(b) # Absent
    BY <1>2, <1>3, ValuesAssumption DEF Supply, Taken
  <2> QED
    BY <1>1, <2>1 DEF Attempted, Spared, Replays
<1>5. Present(b, marks)
  BY <1>1, <1>4 DEF Bound, Present, Replays
<1>6. CASE Same(b, values[b])
  BY <1>5, <1>6 DEF CapturedText
<1>7. CASE ~Same(b, values[b])
  <2>1. /\ b \notin plan.codec /\ target[b] # Empty /\ Source(b) = Empty
        /\ CapturedText(b, values[b], marks) = Encode[target[b]] /\ Encode[target[b]] # Bad
    BY <1>1, <1>2, <1>5, <1>7 DEF Same, CapturedText, CaptureRefused, Original, Source
  <2>2. target[b] = Null
    <3>1. target[b] = Yield(b)
      BY <1>1, <1>4 DEF Bound, Replays
    <3>2. CASE prepared = << >>
      BY <2>1, <3>1, <3>2, ValuesAssumption DEF Yield, Made, Taken, Fitted
    <3>3. CASE prepared # << >>
      <4>1. TextAgrees(b)
        BY <2>1, <3>3 DEF IInv, RawAgrees
      <4>2. prepared[b] \in {Null, Empty}
        BY <1>3, <2>1, <3>3, <4>1 DEF TextAgrees
      <4> QED
        BY <2>1, <3>1, <3>3, <4>2, ValuesAssumption DEF Yield, Fitted, IInv, NullFits
    <3> QED
      BY <3>2, <3>3
  <2>3. Encode[Null] \in Texts \cup {Bad} /\ Absent \notin Texts /\ Absent # Bad /\ Null \in DOMAIN Encode
    BY ConversionsAssumption, ValuesAssumption DEF Found
  <2> QED
    BY <2>1, <2>2, <2>3, RoundtripVerified
<1> QED
  BY <1>6, <1>7

\* No step of a bind or a replay takes a bound null out of the raw values.
THEOREM NullStays == Spec => NullKept
<1> DEFINE NullSurvives(b) ==
      (/\ raw[b] # Absent /\ Decode[raw[b]] = Null
       /\ b \notin call.skipped
       /\ target'[b] = target[b] /\ markers' \cap {b} = markers \cap {b})
      => raw'[b] # Absent /\ Decode[raw'[b]] = Null
<1>1. ASSUME IInv, Next, NEW b \in (fields \cap plan.emptied) \ torn PROVE NullSurvives(b)
  <2>1. CASE raw' = raw
    BY <2>1
  <2>2. CASE Create
    BY <1>1, <2>2 DEF Create, IInv, Before, TypeOK
  <2>3. ASSUME pc = "bind", AtCheckpoint, Capture(target', markers') PROVE NullSurvives(b)
    <3>1. CASE b \in Edited(target', markers')
      <4>1. ~CaptureRefused(b, target'[b], markers')
        BY <1>1, <2>3, <3>1, EditedFacts
      <4>2. raw' = raw \/ raw'[b] = CapturedText(b, target'[b], markers')
        BY <1>1, <2>3, <3>1 DEF Capture, replay, IInv, TypeOK
      <4> QED
        BY <1>1, <2>3, <4>1, <4>2, NullCaptured
    <3>2. CASE b \notin Edited(target', markers')
      BY <1>1, <2>3, <3>2 DEF Capture, replay, IInv, TypeOK
    <3> QED
      BY <3>1, <3>2
  <2>4. CASE Checkpoint
    <3>1. pc = "bind" /\ AtCheckpoint
      BY <2>4 DEF Checkpoint
    <3>2. raw' = raw \/ Capture(target', markers')
      BY <2>4 DEF Checkpoint, replay
    <3> QED
      BY <2>1, <2>3, <3>1, <3>2
  <2> QED
    BY <1>1, <2>1, <2>2, <2>4
    DEF Next, Select, VisitRoot, Visit, StartBind, Step, Return, Over, vars, replay
<1>2. IInv /\ [Next]_vars =>
        [\A b \in (fields \cap plan.emptied) \ torn : NullSurvives(b)]_vars
  BY <1>1
<1> QED
  BY <1>2, Invariance, PTL DEF Spec, NullKept
=============================================================================
