------------------------------ MODULE BindLoop ------------------------------
(***************************************************************************)
(* invocation.bind for a plan without groups, and the replay that may feed *)
(* it: selection (Plan.Replay), preparation (ReplayPlan.Prepare), capture, *)
(* and a sequence of binds that share one Replay, each with its gate.      *)
(*                                                                         *)
(* A binding takes a value from the replay or from its provider, then      *)
(* passes default, required check, codec and record count before it is     *)
(* assigned.  Values and JSON texts are elements of small sets; what the   *)
(* conversions between them do is given by constants.                      *)
(***************************************************************************)
EXTENDS Naturals, Sequences, FiniteSets, SequencesExt

CONSTANTS
  Plans,       \* plans with the paths to select and to prepare
  Values, Zero, Empty, \* values; the zero value; the record allocated for null
  Null, Absent, Bad,   \* null; no value; a failed conversion
  Size,        \* [Values -> Nat], how many records a value counts as
  Texts,       \* raw JSON
  Decode,      \* [Texts -> Values \cup {Null, Bad}]
  Encode,      \* [Values \cup {Null} -> Texts \cup {Bad}], verified roundtrip
  Codec,       \* [Values \cup {Null} -> Values \cup {Null, Bad}], the transformer
  Skips,       \* sets of bindings that kinds or conditions switch off (a condition may fail)
  MaxBinds     \* bound on the number of binds

Found == Values \cup {Null}

\* The zero value is an empty collection.
ASSUME ValuesAssumption ==
  /\ {Zero, Empty} \subseteq Values /\ {Null, Absent, Bad} \cap Values = {}
  /\ Null # Absent /\ Null # Bad /\ Absent # Bad /\ {Absent, Bad} \cap Texts = {}
  /\ Size \in [Values -> Nat] /\ Size[Zero] = 0

ASSUME ConversionsAssumption ==
  /\ Decode \in [Texts -> Found \cup {Bad}]
  /\ Encode \in [Found -> Texts \cup {Bad}]
  /\ Codec \in [Found -> Found \cup {Bad}]

ASSUME RoundtripVerified ==
  \A v \in DOMAIN Encode : Encode[v] # Bad => Decode[Encode[v]] = v

\* A raw JSON source of an emptied binding comes with a codec, and no other codec does
\* (ValidateBodyNullPolicy).  A map is counted as a single record or not at all.  Two
\* bindings never have the same place in the order of priorities: ties are stable.
ASSUME PlansAssumption ==
  \A p \in Plans :
    /\ p.size \in Nat /\ p.select \in Seq(Nat) /\ p.prepare \in Seq(Nat)
    /\ p.from \in [1..p.size -> Nat] /\ p.default \in [1..p.size -> Found \cup {Absent}]
    /\ p.least \in [1..p.size -> Nat] /\ p.most \in [1..p.size -> Nat]
    /\ p.rank \in [1..p.size -> Nat] /\ \A b, c \in 1..p.size : p.rank[b] = p.rank[c] => b = c
    /\ p.rawSource \subseteq p.codec /\ p.mapped \subseteq p.nullable
    /\ p.unsourced \subseteq p.codec \ p.emptied /\ p.mapped \cap p.counted \subseteq p.single

VARIABLES
  plan,
  fields, preflight, protected, \* the ReplayPlan
  stack, wanted,                \* the calls of visit, the paths still to prepare
  raw, prepared,                \* the Replay; prepared is << >> for nil
  pc,       \* "select", "visit", "idle", "bind" or "refused"
  call,     \* options of the current bind
  passed, checked,              \* the bindings the loop is past, the checkpoint
  target, markers, assigned,    \* the bound struct; replayAssigned
  verdict,  \* of the last bind: "none", "nil", or why it failed
  binds,    \* how many binds were started
  touched,  \* bindings whose source was consulted in this bind
  torn      \* fields whose raw text a failed capture changed under what is prepared

replayPlan == <<fields, preflight, protected>>
replay == <<raw, prepared>>
loop == <<call, passed, checked, target, markers, assigned, touched>>
vars == <<plan, replayPlan, stack, wanted, replay, pc, loop, verdict, binds, torn>>

Bindings == 1..plan.size
NoCall == [replaying |-> FALSE, only |-> FALSE, gate |-> FALSE, strict |-> TRUE, skipped |-> {}]

Fresh == [b \in Bindings |-> IF b \in plan.nullable THEN Null ELSE Zero]

Init ==
  /\ plan \in Plans
  /\ fields = {} /\ preflight = {} /\ protected = {}
  /\ stack = << >> /\ wanted = plan.prepare
  /\ raw = [b \in Bindings |-> Absent] /\ prepared = << >>
  /\ pc = "select" /\ call = NoCall
  /\ passed = {} /\ checked = FALSE
  /\ target = Fresh /\ markers = {} /\ assigned = {}
  /\ verdict = "none" /\ binds = 0 /\ touched = {} /\ torn = {}

-----------------------------------------------------------------------------
(* Plan.Replay and ReplayPlan.Prepare.                                     *)

\* Undefined paths (0) and two bindings of one name are refused.
SelectionRefused ==
  \/ \E k \in DOMAIN plan.select : plan.select[k] \notin Bindings
  \/ \E k, l \in DOMAIN plan.select :
       k # l /\ plan.name[plan.select[k]] = plan.name[plan.select[l]]

Select ==
  /\ pc = "select"
  /\ IF SelectionRefused THEN pc' = "refused" /\ UNCHANGED <<fields, preflight>>
     ELSE pc' = "visit" /\ fields' = ToSet(plan.select) /\ preflight' = fields'
  /\ UNCHANGED <<plan, protected, stack, wanted, replay, loop, verdict, binds, torn>>

\* MUTANT of Needed: a parameter is prepared without its source.
NeededAlone(b) == {}

\* What visit needs to be in the preflight before it adds b.
Needed(b) == IF plan.kind[b] = "param" THEN {plan.from[b]} ELSE {}

\* visit of an undefined binding, of one that is neither a parameter nor pure, or
\* of one that is being visited.
VisitRefused(b) ==
  \/ b \notin {c \in Bindings : plan.kind[c] \in {"param", "pure"}}
  \/ \E k \in 1..(Len(stack) - 1) : stack[k] = b

Call(b) == stack' = Append(stack, b) /\ protected' = protected \cup ({b} \cap Bindings)

VisitRoot ==
  /\ pc = "visit" /\ stack = << >> /\ wanted # << >>
  /\ Call(Head(wanted)) /\ wanted' = Tail(wanted)
  /\ UNCHANGED <<plan, fields, preflight, replay, pc, loop, verdict, binds, torn>>

Visit ==
  /\ pc = "visit" /\ stack # << >>
  /\ LET b == Last(stack)
     IN  \/ /\ b \in preflight
            /\ stack' = Front(stack) /\ UNCHANGED <<preflight, protected, pc>>
         \/ /\ b \notin preflight /\ VisitRefused(b)
            /\ pc' = "refused" /\ UNCHANGED <<stack, preflight, protected>>
         \/ /\ b \notin preflight /\ ~VisitRefused(b) /\ Needed(b) \subseteq preflight
            /\ preflight' = preflight \cup {b} /\ stack' = Front(stack)
            /\ protected' = protected \cup Needed(b) /\ UNCHANGED pc
         \/ /\ b \notin preflight /\ ~VisitRefused(b) /\ ~(Needed(b) \subseteq preflight)
            /\ Call(plan.from[b]) /\ UNCHANGED <<preflight, pc>>
  /\ UNCHANGED <<plan, fields, wanted, replay, loop, verdict, binds, torn>>

-----------------------------------------------------------------------------
(* Where the raw values come from.                                         *)

\* DecodeJSON and CaptureSources keep the text they find under a name.
Obtained == {[b \in Bindings |-> IF b \in fields THEN t[b] ELSE Absent] :
               t \in [Bindings -> Texts \cup {Absent}]}

\* Capture encodes the present fields of an input; a codec field, a required one
\* that is absent and a value that does not survive the roundtrip are refused.
Encoded == {[b \in Bindings |-> IF given[b] = Absent THEN Absent ELSE Encode[given[b]]] :
              given \in {g \in [Bindings -> Found \cup {Absent}] :
                           \A b \in Bindings :
                             /\ b \notin fields \/ b \in plan.codec => g[b] = Absent
                             /\ b \in fields \ plan.marked => g[b] # Absent
                             /\ b \in fields \cap plan.required => g[b] # Absent
                             /\ g[b] # Absent => Encode[g[b]] # Bad}}

Create ==
  /\ pc = "visit" /\ stack = << >> /\ wanted = << >>
  /\ raw' \in Obtained \cup Encoded
  /\ pc' = "idle"
  /\ UNCHANGED <<plan, replayPlan, stack, wanted, prepared, loop, verdict, binds, torn>>

-----------------------------------------------------------------------------
(* The bind of one binding.                                                *)

\* MUTANT of Miscounted: an empty required value is let through.
MiscountedLimits(b, n) == n < plan.least[b] \/ n > plan.most[b]

\* The limits of a binding, and none for what is required.
Miscounted(b, n) == n < plan.least[b] \/ n > plan.most[b] \/ (n = 0 /\ b \in plan.required)

\* What validateRecordCount sees of a value of the target's type: nothing and nil are
\* no record, but a nil map is a map, and like a scalar it is not counted unless the
\* cardinality is One; then it is one record, as a struct always is.
NoRecord(b, v) == v = Absent \/ (v = Null /\ b \notin plan.mapped)

Counts(b, v) == NoRecord(b, v) \/ b \in plan.counted

Records(b, v) == IF NoRecord(b, v) THEN 0 ELSE IF b \in plan.single THEN 1 ELSE Size[v]

CountRefused(b, v) == Counts(b, v) /\ Miscounted(b, Records(b, v))

\* What a codec decodes is counted if it is a collection or, recorded, a struct: it has
\* no nil maps.
SourceRecords(b, v) == IF v = Null THEN 0 ELSE IF b \in plan.recorded THEN 1 ELSE Size[v]

Fail(why) == verdict' = why /\ pc' = "idle"

Continue(b) == passed' = passed \cup {b} /\ UNCHANGED <<verdict, pc, target, markers, assigned>>

Refuse(why) == Fail(why) /\ UNCHANGED <<passed, target, markers, assigned>>

\* The writes of the field and of its marker may fail, and then the observer may.
Assign(b, v) ==
  \/ Refuse("field")
  \/ /\ target' = [target EXCEPT ![b] = v]
     /\ \/ b \in plan.marked /\ Fail("marker") /\ UNCHANGED <<passed, markers, assigned>>
        \/ /\ markers' = markers \cup ({b} \cap plan.marked)
           /\ assigned' = assigned \cup ({b} \cap (IF call.replaying THEN fields ELSE {}))
           /\ \/ passed' = passed \cup {b} /\ UNCHANGED <<verdict, pc>>
              \/ Fail("observer") /\ UNCHANGED passed

\* A value of the target's type; only a nullable target keeps null.
Fitted(b, v) == IF v = Null /\ b \notin plan.nullable THEN Zero ELSE v

\* The part of the pipeline after the codec.
Finish(b, v, count) ==
  IF count /\ CountRefused(b, Fitted(b, v)) THEN Refuse("count") ELSE Assign(b, Fitted(b, v))

\* The codec; collections are counted before it, other sources after it.
Transform(b, v) ==
  IF b \in plan.countsSource /\ Miscounted(b, SourceRecords(b, v)) THEN Refuse("count")
  ELSE IF Codec[v] = Bad THEN Refuse("codec")
  ELSE Finish(b, Codec[v], b \notin plan.countsSource)

\* Absent after the default; the record count has its say even then.
Missing(b) ==
  IF call.strict /\ b \in plan.required THEN Refuse("required")
  ELSE IF CountRefused(b, Absent)
  THEN Refuse(IF b \in plan.required /\ plan.least[b] = 0 THEN "required" ELSE "count")
  ELSE Continue(b)

\* What the binding makes of a value from its source, from a prepared replay
\* (ready) or from the record policy for a raw null.
Process(b, given, isPrepared) ==
  LET emptied == ~isPrepared /\ b \in plan.emptied \cap plan.codec /\ given = Null
      ready == isPrepared \/ emptied
      v == IF emptied THEN Empty
           ELSE IF ~ready /\ given = Absent THEN plan.default[b] ELSE given
      refused == v = Null /\ call.strict /\ b \in plan.required
  IN  \/ v = Bad /\ Refuse("source")
      \/ v = Absent /\ Missing(b)
      \/ refused /\ Refuse("required")
      \/ v \in Found /\ ~refused /\ ~ready /\ b \in plan.codec /\ Transform(b, v)
      \/ v \in Found /\ ~refused /\ (ready \/ b \notin plan.codec) /\ Finish(b, v, TRUE)

\* Replay.source: a raw text decoded, opted into an empty record for null or not.
\* A codec of raw JSON is left to deal with null itself (rawBodyNullPolicy).
Decoded(b, text, opted) ==
  IF text = Absent THEN Absent
  ELSE IF Decode[text] = Null /\ opted /\ b \notin plan.rawSource THEN Empty
  ELSE Decode[text]

\* A codec whose source has no type cannot be fed from a text.
Source(b) ==
  IF b \in plan.unsourced THEN Bad ELSE Decoded(b, raw[b], b \in plan.emptied)

\* What a provider may answer: it allocates the record itself when it decodes for
\* a binding that asks for one.
Given(b) == (Found \ (IF b \in plan.emptied \ plan.codec THEN {Null} ELSE {})) \cup {Absent, Bad}

\* A selected binding takes its value from the replay and never from its provider.
BindOne(b) ==
  IF ~(call.replaying /\ b \in fields) THEN \E given \in Given(b) : Process(b, given, FALSE)
  ELSE IF prepared = << >> THEN Process(b, Source(b), FALSE)
  ELSE Process(b, prepared[b], TRUE)

-----------------------------------------------------------------------------
(* The loop.                                                               *)

\* MUTANT of Ahead: the preflight keeps its place in the order of priorities.
AheadByPriority(b, c) == plan.rank[b] < plan.rank[c]

\* The two stable sorts: by priority, then the preflight of a replay to the front.
Ahead(b, c) ==
  IF call.replaying /\ (b \in preflight) # (c \in preflight) THEN b \in preflight
  ELSE plan.rank[b] < plan.rank[c]

\* The binding at the loop index.
Turn(b) == b \notin passed /\ \A c \in Bindings \ (passed \cup {b}) : Ahead(b, c)

StartBind ==
  /\ pc = "idle" /\ binds < MaxBinds
  /\ \E replaying, only, gate, strict \in BOOLEAN : \E skipped \in Skips :
       /\ ~replaying => ~only /\ ~gate
       /\ call' = [ replaying |-> replaying, only |-> only, gate |-> gate, strict |-> strict,
                    skipped |-> skipped ]
  /\ passed' = {} /\ checked' = FALSE /\ target' = Fresh /\ markers' = {} /\ assigned' = {}
  /\ touched' = {} /\ verdict' = "none" /\ binds' = binds + 1 /\ pc' = "bind"
  /\ UNCHANGED <<plan, replayPlan, stack, wanted, replay, torn>>

AtCheckpoint == call.replaying /\ ~checked /\ Cardinality(passed) = Cardinality(preflight)

Step ==
  /\ pc = "bind" /\ ~AtCheckpoint
  /\ \E b \in Bindings :
       /\ Turn(b)
       /\ IF b \in call.skipped THEN (Continue(b) \/ Refuse("condition")) /\ UNCHANGED touched
          ELSE BindOne(b) /\ touched' = touched \cup {b}
  /\ UNCHANGED <<plan, replayPlan, stack, wanted, replay, call, checked, binds, torn>>

Return ==
  /\ pc = "bind" /\ passed = Bindings /\ ~AtCheckpoint
  /\ verdict' = "nil" /\ pc' = "idle"
  /\ UNCHANGED <<plan, replayPlan, stack, wanted, replay, loop, binds, torn>>

-----------------------------------------------------------------------------
(* The checkpoint: authorize, then capturePrepared.                        *)

\* MUTANT of Verified: only protected bindings are compared.
VerifiedProtected == preflight \cap protected

\* The bindings that authorize compares before and after the gate.
Verified == preflight \cap (plan.codec \cup protected)

Presence(b, marks) == b \notin plan.marked \/ b \in marks

\* The gate may write to the target: bound, to one binding of the preflight.
Gated ==
  {<<target, markers>>} \cup
  UNION {{<<[target EXCEPT ![b] = Fitted(b, v)], m>> :
            v \in Found, m \in {markers, markers \ {b}, markers \cup ({b} \cap plan.marked)}} :
         b \in preflight}

\* MUTANT of Original: the raw text is compared without the null policy.
OriginalUnaware(b) == Decoded(b, raw[b], FALSE)

\* What the bound value is compared with: the raw text under the binding's policy.
Original(b) == Decoded(b, raw[b], b \in plan.emptied)

\* capturePrepared knows a field by its marker or, without one, by replayAssigned.
Present(b, marks) == IF b \in plan.marked THEN b \in marks ELSE b \in assigned

\* The raw text of a codec field and of an unchanged value is left alone.
Same(b, v) == b \in plan.codec \/ Original(b) = v

CaptureRefused(b, v, marks) ==
  IF ~Present(b, marks) THEN b \in plan.required
  ELSE \/ v = Null /\ b \in plan.required
       \/ ~Same(b, v) /\ (Original(b) = Bad \/ Encode[v] = Bad)

\* MUTANT of CapturedText: the raw text stays what it was.
CapturedTextKept(b, v, marks) == raw[b]

\* The raw text after the capture of b; it follows what was bound.
CapturedText(b, v, marks) ==
  IF ~Present(b, marks) THEN Absent ELSE IF Same(b, v) THEN raw[b] ELSE Encode[v]

\* The fields before the first that is refused, in the order of the selection:
\* their raw texts have changed even if the capture fails.
Edited(values, marks) ==
  {plan.select[k] : k \in {k \in DOMAIN plan.select :
     \A l \in 1..k : ~CaptureRefused(plan.select[l], values[plan.select[l]], marks)}}

\* MUTANT of Captured: the values from before the gate are captured.
CapturedEarly(values, marks) ==
  [b \in fields |-> IF Present(b, markers) THEN target[b] ELSE Absent]

Captured(values, marks) == [b \in fields |-> IF Present(b, marks) THEN values[b] ELSE Absent]

Pass == IF call.only THEN verdict' = "nil" /\ pc' = "idle" ELSE UNCHANGED <<verdict, pc>>

\* Without a gate a prepared replay is not captured again.  A capture that succeeds
\* writes the raw text of every field but those with a codec.
Capture(values, marks) ==
  IF prepared # << >> /\ ~call.gate THEN Pass /\ UNCHANGED <<replay, torn>>
  ELSE /\ raw' = [b \in Bindings |-> IF b \in Edited(values, marks)
                                      THEN CapturedText(b, values[b], marks) ELSE raw[b]]
       /\ IF Edited(values, marks) = fields
          THEN Pass /\ prepared' = Captured(values, marks) /\ torn' = torn \cap plan.codec
          ELSE /\ Fail("capture") /\ UNCHANGED prepared
               /\ torn' = torn \cup (IF prepared = << >> THEN {}
                                      ELSE {b \in fields : raw'[b] # raw[b]})

Untouched(values, marks) ==
  \A b \in Verified : values[b] = target[b] /\ Presence(b, marks) = Presence(b, markers)

Checkpoint ==
  /\ pc = "bind" /\ AtCheckpoint
  /\ checked' = TRUE
  /\ IF ~call.gate THEN Capture(target, markers) /\ UNCHANGED <<target, markers>>
     ELSE \/ Fail("gate") /\ UNCHANGED <<replay, torn, target, markers>>
          \/ \E g \in Gated :
               /\ target' = g[1] /\ markers' = g[2]
               /\ IF Untouched(g[1], g[2]) THEN Capture(g[1], g[2])
                  ELSE Fail("replaced") /\ UNCHANGED <<replay, torn>>
  /\ UNCHANGED <<plan, replayPlan, stack, wanted, call, passed, assigned, binds, touched>>

-----------------------------------------------------------------------------
(* What components that the bind depends on read from the replay.          *)

\* Replay.Providers refuses two selected bindings of one location.
ProvidersRefused ==
  \E b, c \in fields : b # c /\ plan.location[b] = plan.location[c]

\* MUTANT of Provided: prepared values are served without a look at policies.
ProvidedPrepared(b, opted) ==
  IF prepared # << >> /\ b \notin plan.codec THEN prepared[b] ELSE Decoded(b, raw[b], opted)

\* replayProvider.ValueWithBodyNullPolicy for a component that asks for b's
\* location, opted into the empty record or not.
Provided(b, opted) ==
  IF prepared # << >> /\ b \notin plan.codec \cup plan.emptied /\ ~opted
  THEN prepared[b]
  ELSE Decoded(b, raw[b], opted)

\* replayProvider.CaptureSource: the raw text, for a replay of the component's own.
Projected(b) == raw[b]

-----------------------------------------------------------------------------
Over ==
  /\ pc = "refused" \/ (pc = "idle" /\ binds = MaxBinds)
  /\ UNCHANGED vars

Next ==
  \/ Select \/ VisitRoot \/ Visit \/ Create
  \/ StartBind \/ Step \/ Checkpoint \/ Return \/ Over

Spec == Init /\ [][Next]_vars

-----------------------------------------------------------------------------
(* Properties.                                                             *)

\* Everything a Prepare added is pure or a parameter whose source is bound before
\* the gate too, and neither it nor its source may be replaced by the gate.
PreflightClosed ==
  /\ ToSet(plan.prepare) \subseteq preflight \cap protected
  /\ \A b \in preflight \ fields :
       /\ b \in protected /\ plan.kind[b] \in {"pure", "param"}
       /\ plan.kind[b] = "param" => plan.from[b] \in preflight \cap protected

\* The preflight is closed, no binding outside it is resolved before the checkpoint,
\* none at all when only the preflight is asked for, and no replay returns nil
\* without its checkpoint, whether the preflight is empty, the whole plan or in
\* between.
GateFirst ==
  /\ pc \in {"idle", "bind"} => PreflightClosed
  /\ call.replaying =>
       /\ ~(touched \subseteq preflight) => checked /\ ~call.only
       /\ verdict = "nil" => checked

\* Once captured, what is prepared follows from the raw values the replay holds: a
\* codec field is what the codec made of its raw source, whatever the gate, a failure
\* or an earlier bind put there; any other field is what serializing the replay and
\* decoding it again gives, also where the gate or a default changed it.  Excepted are
\* the fields that a failed capture changed: a later one that succeeds writes their
\* raw text anew, but never that of a codec field.
CodecAgrees(b) ==
  IF prepared[b] = Absent THEN raw[b] = Absent
  ELSE IF raw[b] = Absent
  THEN plan.default[b] \in Found /\ prepared[b] = Fitted(b, Codec[plan.default[b]])
  ELSE /\ Source(b) \in Found
       /\ prepared[b] = IF Source(b) = Null /\ b \in plan.emptied THEN Empty
                        ELSE Fitted(b, Codec[Source(b)])

TextAgrees(b) ==
  IF prepared[b] = Absent THEN raw[b] = Absent
  ELSE /\ raw[b] # Absent
       /\ IF prepared[b] = Null /\ b \in plan.emptied THEN Decode[raw[b]] = Null
          ELSE Source(b) = prepared[b]

RawAgrees ==
  prepared # << >> =>
    /\ \A b \in (fields \cap plan.codec) \ torn : CodecAgrees(b)
    /\ \A b \in (fields \ plan.codec) \ torn : TextAgrees(b)

\* "Replay ... keeps original raw null through capture and dependency projection":
\* the null of a binding that turns it into an empty record stays null in the
\* replay as long as it is bound and no gate writes to it.
NullKept ==
  [][\A b \in (fields \cap plan.emptied) \ torn :
       (/\ raw[b] # Absent /\ Decode[raw[b]] = Null
        /\ b \notin call.skipped
        /\ target'[b] = target[b] /\ markers' \cap {b} = markers \cap {b})
       => raw'[b] # Absent /\ Decode[raw'[b]] = Null]_vars

\* "Replay uses the receiving binding's null policy": a component that is strict
\* about null reads the same from the replay as from a replay projected out of it,
\* whatever the parent made of a null and whether it asks before or after the
\* checkpoint; one that asks for an empty record for null never reads null, but from
\* a body that the parent decodes with a codec of raw JSON.
ReceiverPolicy ==
  (pc \in {"idle", "bind"} /\ ~ProvidersRefused) =>
    \A b \in fields \ torn :
      /\ Provided(b, FALSE) = Decoded(b, Projected(b), FALSE)
      /\ b \in plan.body \ (plan.codec \cap plan.rawSource) => Provided(b, TRUE) # Null

\* A replaying bind that returns nil has bound what is prepared: the first bind,
\* what it captured after the gate; a later one, what an earlier one captured.
BoundIsPrepared ==
  (call.replaying /\ verdict = "nil") =>
    \A b \in fields \ call.skipped :
      IF prepared[b] = Absent
      THEN IF b \in plan.marked THEN b \notin markers ELSE b \notin assigned
      ELSE target[b] = prepared[b] /\ Presence(b, markers)

\* When Bind returns nil, every required binding it reached is marked, and null only
\* where no count refuses null: a codec that counts its source may return it, and so
\* may, without the strict policy, a binding of map type or, with it, the codec of one.
\* What is counted has a number of records within its limits, none if it was absent,
\* unless a gate wrote to it.
Reached == (IF call.only THEN preflight ELSE Bindings) \ call.skipped

NullPasses(b) ==
  \/ b \in plan.countsSource \cap plan.codec
  \/ b \in plan.mapped /\ (call.strict => b \in plan.codec)

Within(b, n) == plan.least[b] <= n /\ n <= plan.most[b]

RequiredBound ==
  verdict = "nil" =>
    \A b \in Reached :
      /\ b \in plan.required =>
           /\ target[b] = Null => NullPasses(b)
           /\ b \in plan.marked => b \in markers
      /\ (b \in plan.counted \ plan.countsSource /\ ~call.gate) =>
           \/ Within(b, Records(b, target[b]))
           \/ b \notin markers /\ target[b] = Fresh[b] /\ Within(b, 0)

\* "Required bindings reject missing or null values by default;
\* AllowMissingRequired explicitly relaxes that policy": without the strict
\* policy no bind fails because a required value is missing.
AllowMissingRequired == ~call.strict => verdict # "required"
=============================================================================
