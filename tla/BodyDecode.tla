----------------------------- MODULE BodyDecode -----------------------------
(***************************************************************************)
(* What becomes of a JSON body: body.Source's named lookup and null policy *)
(* (provider/body/body.go), and the four traversals of internal/bodyjson   *)
(* that must agree on which member belongs to which field -- the filter    *)
(* that removes internal members, the decoder behind it, the presence      *)
(* marks set afterwards, and the validation of required fields.  They run  *)
(* on the plan a caller got from the cache (BodyPlan) and take different   *)
(* routes according to its flags.                                          *)
(*                                                                         *)
(* A JSON value is a record with a tag; an object is the sequence of its   *)
(* members in source order, duplicates included.  A key is a word and one  *)
(* of its spellings, so that <<"name", 1>> and <<"name", 2>> differ only   *)
(* in case.  A decoded struct keeps its fields' values and the set of its  *)
(* fields that the marker holder says were supplied.  Structs below the    *)
(* top are held by pointers, a list is a slice and not an array.  A slice  *)
(* that was longer keeps its elements beyond its length, where a decoder   *)
(* finds them when it grows again.  The text of scalars, the dates'        *)
(* formats and the layout of the raw bytes are left out.                   *)
(*                                                                         *)
(* The traversals are recursive.  Here each is a constant operator and a   *)
(* definition that unfolds it once (Filter and FilterOnce, and so on):     *)
(* BodyDecodeMC makes one the other, and the proofs assume that the one    *)
(* equals the other on every document.                                     *)
(***************************************************************************)
EXTENDS BodyPlan, Naturals, SequencesExt

CONSTANTS Requests, \* by the name of the shape, what may be asked of a Source
          Orders,   \* the orders Go may range over the spellings of a word
          Whole     \* the binding names no member: it takes the whole body

\* The recursive traversals, and those of the properties.
CONSTANTS Filter(_, _, _, _, _, _), FilterMembers(_, _, _, _, _, _),
          Decode(_, _, _, _, _), DecodeMembers(_, _, _, _, _),
          Mark(_, _, _, _, _, _, _), Validate(_, _, _, _, _),
          Reading(_, _, _, _, _, _), ReadMembers(_, _, _, _, _, _),
          Unmarked(_), Shown(_, _, _, _), Unduplicated(_, _, _), Complete(_, _, _, _)

\* Only a pointer to a struct has a null policy (body.go 70).
ASSUME PolicyAssumption ==
    \A n \in DOMAIN Shapes : \A req \in Requests[n] : req.policy =>
        \A r \in Shapes[n].roots : Shapes[n].kind[r] = "struct"

\* Fields are numbered from 1, and a date's policy or layout is only looked at
\* on a time (internal_fields.go 166).
ASSUME FieldsAssumption ==
    /\ NoType \notin Types
    /\ \A n \in DOMAIN Shapes : \A t \in Types : \A i \in DOMAIN Shapes[n].fields[t] :
          LET f == Shapes[n].fields[t][i] IN
          /\ i \in Nat /\ i > 0
          /\ f.date \in {"none", "bad", "policy", "layout"}
          /\ f.date \in {"policy", "layout"} => f.type # NoType /\ Shapes[n].kind[f.type] = "time"

\* JSON names are distinct, and InputNameMatcher refuses an alias that is
\* another field's name.
ASSUME NamesAssumption ==
    \A n \in DOMAIN Shapes : \A t \in Types \ Shapes[n].broken :
        LET fs == Shapes[n].fields[t] IN
        \A i, j \in DOMAIN fs : i # j =>
            fs[i].name # fs[j].name /\ fs[i].name \notin fs[j].aliases

VARIABLE outcome    \* the last request a Source answered, and its answer

vars == <<planVars, outcome>>

Null == [tag |-> "null"]
Obj(members) == [tag |-> "obj", of |-> members]
List(items) == [tag |-> "list", of |-> items]
Num == [tag |-> "num"]
Bool == [tag |-> "bool"]

Nil == [tag |-> "nil"]
Failure == [tag |-> "failure"]
Rec(vals, marks) == [tag |-> "rec", of |-> vals, marks |-> marks]
Dict(vals) == [tag |-> "dict", of |-> vals]
Slice(slots, length) == [tag |-> "slice", of |-> slots, len |-> length]

Same(key, name) == key[1] = name[1]
Keys(members) == {members[j][1] : j \in DOMAIN members}
\* A Go map of the members: the last of two equal keys wins.
At(members, key) ==
    members[Max({j \in DOMAIN members : members[j][1] = key})][2]

\* What a decoded slice or map holds already, and the element at j of it.
Held(before, tag) == IF before.tag = tag THEN before.of ELSE <<>>
Slot(slots, j) == IF j \in DOMAIN slots THEN slots[j] ELSE Nil
Over(new, old) ==
    [x \in DOMAIN new \cup DOMAIN old |-> IF x \in DOMAIN new THEN new[x] ELSE old[x]]
\* Elements go into the slots of the slice, whose rest stays; [] is a fresh slice.
Refilled(items, slots) == Slice(IF items = <<>> THEN <<>> ELSE Over(items, slots), Len(items))
-----------------------------------------------------------------------------
(* Whose member a key is: the exact name, or an alias where aliases count, *)
(* before the first field whose name differs in case only; 0 is nobody's.  *)
(* This is tagly's InputNameMatcher and encoding/json's own rule.          *)

FieldOf(s, t, key, aliases) ==
    LET fs == s.fields[t]
        exact == {i \in DOMAIN fs : fs[i].name = key \/ (aliases /\ key \in fs[i].aliases)}
        folded == {i \in DOMAIN fs : Same(key, fs[i].name)}
    IN  IF exact # {} THEN Min(exact) ELSE IF folded # {} THEN Min(folded) ELSE 0

\* MUTANT of PlanField: the filter knows exact names and aliases only.
PlanFieldExact(s, t, key) ==
    LET fs == s.fields[t]
        exact == {i \in DOMAIN fs : key \in {fs[i].name} \cup fs[i].aliases}
    IN  IF exact # {} THEN Min(exact) ELSE 0

PlanField(s, t, key) == FieldOf(s, t, key, TRUE)

\* internalPlan.relevant, with normalizeDates for the standard decoder.
Relevant(fl, t, standard) ==
    /\ t # NoType
    /\ "internal" \in fl[t] \/ (standard /\ fl[t] \cap {"dates", "inputs"} # {})

\* inputRule.apply: a null may be left out, a Boolean become a number.
Omitted(f, v) == "omit" \in f.rules /\ v = Null
Converted(f, v) == IF "bool" \in f.rules /\ v = Bool THEN Num ELSE v

\* filterObject on a struct drops the members of denied fields and those a
\* rule omits; a member of no field passes as it is.
FilterMembersOnce(s, fl, t, members, meta, standard) ==
    IF members = <<>> THEN <<>>
    ELSE LET key == Head(members)[1]
             value == Head(members)[2]
             rest == FilterMembers(s, fl, t, Tail(members), meta, standard)
             i == PlanField(s, t, key)
             f == s.fields[t][i]
             v == IF standard THEN Converted(f, value) ELSE value
         IN  IF i = 0 THEN <<Head(members)>> \o rest
             ELSE IF Denied(s, t, f, meta) \/ (standard /\ Omitted(f, value)) THEN rest
             ELSE <<<<key, Filter(s, fl, f.type, v, meta, standard)>>>> \o rest

FilterOnce(s, fl, t, v, meta, standard) ==
    IF ~Relevant(fl, t, standard) THEN v
    ELSE IF s.kind[t] = "list" /\ v.tag = "list"
    THEN List([j \in DOMAIN v.of |-> Filter(s, fl, s.item[t], v.of[j], meta, standard)])
    ELSE IF s.kind[t] = "map" /\ v.tag = "obj"
    THEN Obj([j \in DOMAIN v.of |->
                <<v.of[j][1], Filter(s, fl, s.item[t], v.of[j][2], meta, standard)>>])
    ELSE IF s.kind[t] = "struct" /\ v.tag = "obj"
    THEN Obj(FilterMembers(s, fl, t, v.of, meta, standard))
    ELSE v
-----------------------------------------------------------------------------
(* The decoder: encoding/json, or structology's when aliases count.  Equal *)
(* fields merge in source order: an object into the struct already there,  *)
(* a list into the elements already there; a map keeps the entries it has  *)
(* and decodes new ones from nothing; a null resets a pointer, a slice or  *)
(* a map and leaves a number alone.                                        *)

Zero(s, t) == [i \in DOMAIN s.fields[t] |-> Nil]

DecodeMembersOnce(s, t, members, base, aliases) ==
    IF members = <<>> THEN Rec(base, {})
    ELSE LET i == FieldOf(s, t, Head(members)[1], aliases)
             v == Decode(s, s.fields[t][i].type, Head(members)[2], base[i], aliases)
         IN  IF i = 0 THEN DecodeMembers(s, t, Tail(members), base, aliases)
             ELSE IF v = Failure THEN Failure
             ELSE DecodeMembers(s, t, Tail(members), [base EXCEPT ![i] = v], aliases)

\* MUTANT of DecodeList: a repeated list is decoded from nothing.
DecodeListAnew(s, t, v, slots, aliases) ==
    LET items == [j \in DOMAIN v.of |-> Decode(s, s.item[t], v.of[j], Nil, aliases)]
    IN  IF Failure \in Range(items) THEN Failure ELSE Refilled(items, <<>>)

DecodeList(s, t, v, slots, aliases) ==
    LET items == [j \in DOMAIN v.of |-> Decode(s, s.item[t], v.of[j], Slot(slots, j), aliases)]
    IN  IF Failure \in Range(items) THEN Failure ELSE Refilled(items, slots)

\* Every member is decoded, also one whose key comes again.
DecodeMap(s, t, v, entries, aliases) ==
    LET items == [j \in DOMAIN v.of |-> Decode(s, s.item[t], v.of[j][2], Nil, aliases)]
        vals == [k \in Keys(v.of) |-> Decode(s, s.item[t], At(v.of, k), Nil, aliases)]
    IN  IF Failure \in Range(items) THEN Failure ELSE Dict(Over(vals, entries))

DecodeOnce(s, t, v, before, aliases) ==
    IF t = NoType THEN v
    ELSE IF v = Null THEN IF s.kind[t] \in {"leaf", "time"} THEN before ELSE Nil
    ELSE CASE s.kind[t] \in {"leaf", "time"} -> IF v = Num THEN v ELSE Failure
           [] s.kind[t] = "list" /\ v.tag = "list" ->
                DecodeList(s, t, v, Held(before, "slice"), aliases)
           [] s.kind[t] = "map" /\ v.tag = "obj" ->
                DecodeMap(s, t, v, Held(before, "dict"), aliases)
           [] s.kind[t] = "struct" /\ v.tag = "obj" ->
                DecodeMembers(s, t, v.of,
                    IF before.tag = "rec" THEN before.of ELSE Zero(s, t), aliases)
           [] OTHER -> Failure
-----------------------------------------------------------------------------
(* Presence: MarkPresence walks the decoded value with the source again.   *)

\* The key Go's map iteration comes to first, of those that are there.
First(keys, order) == {k \in keys : \A o \in keys : order[k[2]] <= order[o[2]]}

\* MUTANT of Spoken: the routes without aliases do not ask whose member it is.
SpokenByName(s, t, i, members, fl, order) ==
    LET name == s.fields[t][i].name
        folded == {k \in Keys(members) : Same(k, name)}
    IN  IF name \in Keys(members) THEN {At(members, name)}
        ELSE {At(members, k) : k \in First(folded, order)}

\* The member that speaks for field i, as the set of at most one value.  With
\* aliases it is the last of the field's members in source order, with an
\* internal member in the type the exact name or else any spelling that is
\* this field's, and in a plain type the same without asking whose it is.
Spoken(s, t, i, members, fl, order) ==
    LET name == s.fields[t][i].name
        own == {k \in Keys(members) : PlanField(s, t, k) = i}
        folded == {k \in Keys(members) : Same(k, name)}
        js == {j \in DOMAIN members : members[j][1] \in own}
        pick(keys) == IF name \in Keys(members) THEN {At(members, name)}
                      ELSE {At(members, k) : k \in First(keys, order)}
    IN  IF "aliases" \in fl[t] THEN {members[j][2] : j \in {j \in js : \A k \in js : k <= j}}
        ELSE IF "internal" \in fl[t] THEN pick(own \cap folded)
        ELSE pick(folded)

\* markMapMetadata: only metadata sends the walk into a map.
MarkEntries(s, t, val, v, fl, meta, order) ==
    IF meta /\ t \in s.changed
    THEN Dict([k \in DOMAIN val.of |->
                  IF k \in Keys(v.of)
                  THEN Mark(s, s.item[t], val.of[k], At(v.of, k), fl, meta, order)
                  ELSE val.of[k]])
    ELSE val

\* The marks are reset wherever the walk comes to a struct.  The source may be
\* another member of the field than the one the value is from, and is walked
\* as far as the two go together.
MarkOnce(s, t, val, v, fl, meta, order) ==
    IF t = NoType \/ val = Nil THEN val
    ELSE CASE s.kind[t] = "list" /\ v.tag = "list" ->
                Slice([j \in DOMAIN val.of |->
                         IF j <= val.len /\ j \in DOMAIN v.of
                         THEN Mark(s, s.item[t], val.of[j], v.of[j], fl, meta, order)
                         ELSE val.of[j]], val.len)
           [] s.kind[t] = "map" /\ v.tag = "obj" -> MarkEntries(s, t, val, v, fl, meta, order)
           [] s.kind[t] = "struct" /\ v.tag \in {"obj", "null"} ->
                LET members == IF v.tag = "obj" THEN v.of ELSE <<>>
                    seen(i) == IF Denied(s, t, s.fields[t][i], meta) THEN {}
                               ELSE Spoken(s, t, i, members, fl, order)
                    marked == {i \in DOMAIN val.of : seen(i) # {}}
                    child(i) == Mark(s, s.fields[t][i].type, val.of[i],
                                     CHOOSE raw \in seen(i) : TRUE, fl, meta, order)
                IN  Rec([i \in DOMAIN val.of |-> IF i \in marked THEN child(i) ELSE val.of[i]],
                        marked)
           [] OTHER -> val

\* NewEmptyRecord: the marks of {}, by the plan of the type without metadata.
EmptyRecord(n, t, fl, order) ==
    IF Fails(n, t, FALSE) THEN Failure
    ELSE Mark(Shapes[n], t, Rec(Zero(Shapes[n], t), {}), Obj(<<>>), fl, FALSE, order)
-----------------------------------------------------------------------------
(* ValidateRequired looks at the raw document, before anything is removed. *)

\* MUTANT of Supplied: only the exact name counts.
SuppliedExactly(s, t, i, members, order) ==
    LET name == s.fields[t][i].name
    IN  IF name \in Keys(members) THEN {At(members, name)} ELSE {}

\* The member that counts for field i: the exact name before another spelling.
Supplied(s, t, i, members, order) ==
    LET own == {k \in Keys(members) : PlanField(s, t, k) = i}
        name == s.fields[t][i].name
    IN  IF name \in Keys(members) THEN {At(members, name)}
        ELSE {At(members, k) : k \in First(own, order)}

ValidateOnce(s, t, v, meta, order) ==
    \/ t = NoType \/ v = Null
    \/ CASE s.kind[t] = "list" ->
              /\ v.tag = "list"
              /\ \A j \in DOMAIN v.of : Validate(s, s.item[t], v.of[j], meta, order)
         [] s.kind[t] = "map" ->
              /\ v.tag = "obj"
              /\ \A k \in Keys(v.of) : Validate(s, s.item[t], At(v.of, k), meta, order)
         [] s.kind[t] = "struct" ->
              /\ v.tag = "obj"
              /\ \A i \in DOMAIN s.fields[t] :
                    LET f == s.fields[t][i]
                        given == Supplied(s, t, i, v.of, order)
                    IN  \/ Denied(s, t, f, meta)
                        \/ /\ f.required => given # {}
                           /\ \A raw \in given : Validate(s, f.type, raw, meta, order)
         [] OTHER -> TRUE
-----------------------------------------------------------------------------
(* One request to a Source                                                 *)

Answered(found, value) == [found |-> found, value |-> value]

\* The raw value a binding name selects: the exact member, or the only one
\* that differs in case; "ambiguous" is reported as an error.
Select(req) ==
    LET members == req.doc.of
        folded == {k \in Keys(members) : Same(k, req.name)}
    IN  IF req.name = Whole THEN {req.doc}
        ELSE IF req.name \in Keys(members) THEN {At(members, req.name)}
        ELSE IF req.exact THEN {} ELSE {At(members, k) : k \in folded}

\* An error of the plan is the answer; one of its dates only where dates matter.
FilterPublic(s, p, t, v, meta, standard) ==
    IF p.err \/ (standard /\ "dateErr" \in p.flags[t]) THEN Failure
    ELSE Filter(s, p.flags, t, v, meta, standard)

\* What the decoder makes of the filtered body, marked.
Marked(s, p, t, filtered, meta, aliases, order) ==
    LET value == Decode(s, t, filtered, Nil, aliases)
    IN  IF filtered = Failure \/ value = Failure THEN Failure
        ELSE Mark(s, t, value, filtered, p.flags, meta, order)

\* bodyjson.decode: the decoder is structology's where metadata, aliases or
\* declared dates call for it.
DecodePublic(s, p, t, v, meta, order) ==
    Marked(s, p, t, FilterPublic(s, p, t, v, meta, TRUE), meta,
           meta \/ p.flags[t] \cap {"aliases", "declaredDates"} # {}, order)

\* A registered decoder gets the filtered body, its rules not applied.
DecodeRegistered(s, p, t, v, meta, order) ==
    Marked(s, p, t, FilterPublic(s, p, t, v, meta, FALSE), meta, TRUE, order)

\* ValueWithBodyNullPolicy on a JSON body: a policy is for the whole body
\* only, and only a null body becomes an empty record.
Answer(n, p, t, req, meta, order) ==
    LET s == Shapes[n]
        selected == Select(req)
        raw == CHOOSE v \in selected : TRUE
    IN  IF req.policy /\ req.name # Whole THEN Answered(FALSE, Failure)
        ELSE IF req.name # Whole /\ req.doc.tag # "obj"
        THEN Answered(FALSE, IF req.doc = Null THEN Nil ELSE Failure)
        ELSE IF selected = {} THEN Answered(FALSE, Nil)
        ELSE IF req.name # Whole /\ Cardinality({k \in Keys(req.doc.of) : Same(k, req.name)}) > 1
                /\ req.name \notin Keys(req.doc.of)
        THEN Answered(FALSE, Failure)
        ELSE IF raw = Null
        THEN Answered(TRUE, IF req.policy THEN EmptyRecord(n, t, p.flags, order) ELSE Nil)
        ELSE Answered(TRUE, IF req.registered THEN DecodeRegistered(s, p, t, raw, meta, order)
                            ELSE DecodePublic(s, p, t, raw, meta, order))

Deliver(c) ==
    /\ Serve(c)
    /\ \E req \in Requests[shape], order \in Orders :
          outcome' = [caller |-> c, req |-> req,
                      answer |-> Answer(shape, held[c], root[c], req, Meta(c), order),
                      valid |-> /\ ~held[c].err
                                /\ Validate(Graph, root[c], req.doc, Meta(c), order)]

Init == PlanInit /\ outcome = [caller |-> "none"]

Step(c) == (Compile(c) /\ UNCHANGED outcome) \/ Deliver(c)
Next == \E c \in Callers : Step(c)
Spec == Init /\ [][Next]_vars
-----------------------------------------------------------------------------
(* Properties                                                              *)

\* What the body means, read in one pass with no filter, no plan and no
\* second traversal: a member belongs to the field its key names, a
\* denied field has no members, and a struct's marks are the fields that had
\* one.  rules says whether input rules apply.
ReadMembersOnce(s, t, members, base, meta, rules) ==
    IF members = <<>> THEN base
    ELSE LET i == FieldOf(s, t, Head(members)[1], TRUE)
             f == s.fields[t][i]
             v == IF rules THEN Converted(f, Head(members)[2]) ELSE Head(members)[2]
             skipped == i = 0 \/ Denied(s, t, f, meta) \/ (rules /\ Omitted(f, v))
             value == Reading(s, f.type, v, base.of[i], meta, rules)
         IN  IF skipped THEN ReadMembers(s, t, Tail(members), base, meta, rules)
             ELSE IF value = Failure THEN Failure
             ELSE ReadMembers(s, t, Tail(members),
                      Rec([base.of EXCEPT ![i] = value], base.marks \cup {i}), meta, rules)

ReadList(s, t, v, slots, meta, rules) ==
    LET items == [j \in DOMAIN v.of |->
                    Reading(s, s.item[t], v.of[j], Slot(slots, j), meta, rules)]
    IN  IF Failure \in Range(items) THEN Failure ELSE Refilled(items, slots)

ReadMap(s, t, v, entries, meta, rules) ==
    LET items == [j \in DOMAIN v.of |-> Reading(s, s.item[t], v.of[j][2], Nil, meta, rules)]
        vals == [k \in Keys(v.of) |-> Reading(s, s.item[t], At(v.of, k), Nil, meta, rules)]
    IN  IF Failure \in Range(items) THEN Failure ELSE Dict(Over(vals, entries))

ReadingOnce(s, t, v, before, meta, rules) ==
    IF t = NoType THEN v
    ELSE IF v = Null THEN IF s.kind[t] \in {"leaf", "time"} THEN before ELSE Nil
    ELSE CASE s.kind[t] \in {"leaf", "time"} -> IF v = Num THEN v ELSE Failure
           [] s.kind[t] = "list" /\ v.tag = "list" ->
                ReadList(s, t, v, Held(before, "slice"), meta, rules)
           [] s.kind[t] = "map" /\ v.tag = "obj" ->
                ReadMap(s, t, v, Held(before, "dict"), meta, rules)
           [] s.kind[t] = "struct" /\ v.tag = "obj" ->
                ReadMembers(s, t, v.of,
                    IF before.tag = "rec" THEN before ELSE Rec(Zero(s, t), {}), meta, rules)
           [] OTHER -> Failure

UnmarkedOnce(value) ==
    CASE value.tag = "rec" -> Rec([i \in DOMAIN value.of |-> Unmarked(value.of[i])], {})
      [] value.tag = "slice" -> Slice([j \in DOMAIN value.of |-> Unmarked(value.of[j])], value.len)
      [] value.tag = "dict" -> Dict([k \in DOMAIN value.of |-> Unmarked(value.of[k])])
      [] OTHER -> value

\* Marks below a map are kept only where metadata changes the map (MarkEntries).
ShownOnce(s, t, value, meta) ==
    CASE value.tag = "rec" ->
            Rec([i \in DOMAIN value.of |-> Shown(s, s.fields[t][i].type, value.of[i], meta)],
                value.marks)
      [] value.tag = "slice" ->
            Slice([j \in DOMAIN value.of |-> Shown(s, s.item[t], value.of[j], meta)], value.len)
      [] value.tag = "dict" ->
            IF meta /\ t \in s.changed
            THEN Dict([k \in DOMAIN value.of |-> Shown(s, s.item[t], value.of[k], meta)])
            ELSE Unmarked(value)
      [] OTHER -> value

\* No object of the document has two members for one field.
UnduplicatedOnce(s, t, v) ==
    \/ t = NoType \/ v.tag \notin {"obj", "list"}
    \/ s.kind[t] = "list" /\ \A j \in DOMAIN v.of : Unduplicated(s, s.item[t], v.of[j])
    \/ s.kind[t] = "map" /\ \A j \in DOMAIN v.of : Unduplicated(s, s.item[t], v.of[j][2])
    \/ /\ s.kind[t] = "struct"
       /\ LET at(j) == FieldOf(s, t, v.of[j][1], TRUE)
          IN  \A j \in DOMAIN v.of : at(j) # 0 =>
                 /\ \A k \in DOMAIN v.of : at(k) = at(j) => k = j
                 /\ Unduplicated(s, s.fields[t][at(j)].type, v.of[j][2])

\* Every required field was supplied, in every struct of the value.
CompleteOnce(s, t, value, meta) ==
    \/ t = NoType \/ value.tag \notin {"rec", "slice", "dict"}
    \/ value.tag \in {"slice", "dict"} /\
          \A k \in DOMAIN value.of : Complete(s, s.item[t], value.of[k], meta)
    \/ /\ value.tag = "rec"
       /\ \A i \in DOMAIN value.of : LET f == s.fields[t][i] IN
             /\ f.required /\ ~Denied(s, t, f, meta) => i \in value.marks
             /\ i \in value.marks => Complete(s, f.type, value.of[i], meta)

\* Below r, two names of one struct differ in case only and nothing in that
\* struct sends presence down a route that asks whose member it is.
PlainTwins(s, r, meta) ==
    \E t \in Memo(s, r, meta) :
        /\ Exact(s, t, meta) \cap {"aliases", "internal"} = {}
        /\ \E f, g \in Fields(Shapes[s], t) : f # g /\ Same(f.name, g.name)

Decoded == outcome.caller \in Callers /\ outcome.answer.found
Subject == CHOOSE v \in Select(outcome.req) : TRUE
Answering == root[outcome.caller]
ByMetadata == Meta(outcome.caller)

\* A null body under the empty-record policy reads as {}.
ReadBody ==
    IF outcome.req.policy /\ Subject = Null THEN Rec(Zero(Graph, Answering), {})
    ELSE Reading(Graph, Answering, Subject, Nil, ByMetadata, ~outcome.req.registered)

\* Filtering and then decoding gives the public reading of the body, at any
\* depth and for any spelling, alias, repetition or order of the members: no
\* value of an internal field gets through and none of a public field is
\* lost, neither in a list or map that is given again, with what it held, nor
\* in a slice beyond its length.  Only a type whose plan has an error answers with that error; an
\* empty record is made by the plan of the type without metadata.
ReadsThePublicPart ==
    Decoded => LET exact == Exact(shape, Answering, ByMetadata)
                   refused == IF Subject = Null
                              THEN outcome.req.policy /\ Fails(shape, Answering, FALSE)
                              ELSE \/ Fails(shape, Answering, ByMetadata)
                                   \/ ~outcome.req.registered /\ "dateErr" \in exact
               IN  IF refused THEN outcome.answer.value = Failure
                   ELSE Unmarked(outcome.answer.value) = Unmarked(ReadBody)

\* Presence says what the author of the body supplied.  At the top this is
\* exact even when a field has several members; below, a document that
\* repeats no field leaves no doubt, whatever order maps are ranged in.
MarksAuthored ==
    Decoded /\ outcome.answer.value # Failure /\ ~PlainTwins(shape, Answering, ByMetadata) =>
        /\ outcome.answer.value.tag = "rec" => outcome.answer.value.marks = ReadBody.marks
        /\ Unduplicated(Graph, Answering, Subject) =>
              outcome.answer.value = Shown(Graph, Answering, ReadBody, ByMetadata)

\* The validation of required fields, which looks at the raw body before it
\* is decoded, accepts a body that decodes and repeats no field exactly if
\* the decoded value has every required field, at any depth.
RequiredAgrees ==
    outcome.caller \in Callers /\ Unduplicated(Graph, Answering, outcome.req.doc) =>
        LET value == Reading(Graph, Answering, outcome.req.doc, Nil, ByMetadata, FALSE)
        IN  value # Failure /\ ~Fails(shape, Answering, ByMetadata) =>
                outcome.valid = Complete(Graph, Answering, value, ByMetadata)
=============================================================================
