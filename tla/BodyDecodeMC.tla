---------------------------- MODULE BodyDecodeMC ----------------------------
(***************************************************************************)
(* A small instance of BodyDecode.  Every shape pairs a type graph with    *)
(* the callers that decode into it; by its name go the requests they may   *)
(* make.  Shapes about compilation have several callers and few bodies,    *)
(* shapes about decoding one caller and every body of up to three members. *)
(***************************************************************************)
EXTENDS BodyDecode

CONSTANTS c1, c2, m1, Unset, All, Opaque
MCTypes == {"Int", "Time", "A", "B", "Many", "Dict"}
MCOrders == {<<1, 2, 3, 4>>, <<4, 3, 2, 1>>}   \* ranks of the spellings 1..4

-----------------------------------------------------------------------------
(* Types *)

Key(word) == <<word, 1>>
F(word, type) == [name |-> Key(word), aliases |-> {}, type |-> type, rules |-> {},
                  date |-> "none", denied |-> FALSE, hidden |-> FALSE, required |-> FALSE]
Internal(f) == [f EXCEPT !.denied = TRUE]
Hidden(f) == [f EXCEPT !.hidden = TRUE]
Required(f) == [f EXCEPT !.required = TRUE]
Alias(f, word) == [f EXCEPT !.aliases = {<<word, 4>>}]
Ruled(f) == [f EXCEPT !.rules = {"bool", "omit"}]
Date(word, policy) == [F(word, "Time") EXCEPT !.date = policy]
Upper(f) == [f EXCEPT !.name = <<f.name[1], 2>>]

TypeGraph(a, b, many, dict) ==
    [kind |-> [t \in MCTypes |-> CASE t = "Int" -> "leaf" [] t = "Time" -> "time"
                                   [] t = "Many" -> "list" [] t = "Dict" -> "map"
                                   [] OTHER -> "struct"],
     item |-> [t \in MCTypes |-> CASE t = "Many" -> many [] t = "Dict" -> dict
                                   [] OTHER -> NoType],
     fields |-> [t \in MCTypes |-> CASE t = "A" -> a [] t = "B" -> b [] OTHER -> <<>>],
     broken |-> {}, changed |-> {}, roots |-> {"A"}, callers |-> {c1}]
-----------------------------------------------------------------------------
(* Bodies *)

Member(word, spelling, v) == <<<<word, spelling>>, v>>
Objects(members, n) == {Obj(ms) : ms \in SeqOf(members, n)}

Take(doc, registered) == [doc |-> doc, name |-> Whole, policy |-> FALSE,
                          exact |-> FALSE, registered |-> registered]
Wholes(docs) == {Take(d, r) : d \in docs, r \in BOOLEAN}
Named(docs, key) == {[Take(d, FALSE) EXCEPT !.name = key, !.exact = e] : d \in docs, e \in BOOLEAN}
NullPolicy(docs) == {[Take(d, FALSE) EXCEPT !.policy = TRUE] : d \in docs}

Small == Objects({Member("x", 1, Num), Member("x", 2, Num), Member("hush", 1, Num)}, 2)
\* An internal field at the top and one below; names in three spellings.
Nested == TypeGraph(<<Required(F("n", "Int")), Internal(F("hush", "Int")), F("child", "B")>>,
                    <<Required(F("x", "Int")), Internal(Required(F("hush", "Int")))>>, "A", "B")

NestedRequests ==
    Wholes(Objects({Member("n", 1, Num), Member("n", 3, Num), Member("hush", 2, Bool),
                    Member("child", 1, Null)}
                   \cup {Member("child", k, d) : k \in {1, 2},
                            d \in {Obj(<<Member("hush", 2, Num), Member("x", 3, Num)>>), Obj(<<>>)}}, 3))
    \cup Wholes(Objects({Member("child", 1, d) : d \in Small} \cup {Member("n", 2, Num)}, 2))
    \cup NullPolicy({Null, Obj(<<Member("n", 1, Num)>>)})

\* Nothing to filter: the plain route of presence, down to a list.
Plain == TypeGraph(<<Required(F("n", "Int")), F("child", "B"), F("many", "Many")>>,
                   <<Required(F("x", "Int")), F("y", "Int")>>, "B", "B")

PlainRequests ==
    Wholes(Objects({Member("n", 2, Num), Member("n", 1, Null), Member("other", 1, Num),
                    Member("many", 2, List(<<Obj(<<Member("y", 1, Num)>>), Null,
                                             Obj(<<Member("x", 2, Num)>>)>>)),
                    Member("child", 1, Obj(<<Member("x", 2, Num)>>)),
                    Member("child", 2, Obj(<<Member("y", 1, Num)>>)),
                    Member("child", 3, Null)}, 2))
    \cup Wholes(Objects({Member("many", k, List([j \in 1..k |-> Obj(<<Member("x", 1, Num)>>)])) :
                            k \in {1, 2}}, 3))
    \cup Named(Objects({Member("n", 1, Obj(<<Member("n", 1, Num)>>)), Member("n", 2, Null),
                        Member("n", 3, Obj(<<Member("n", 2, Num)>>))}, 2), Key("n"))

\* Aliases at the top, or only below; an internal field has one too.
Aliased == TypeGraph(<<F("n", "Int"), Internal(Alias(F("hush", "Int"), "shh")), F("child", "B")>>,
                     <<Required(Alias(F("x", "Int"), "ex"))>>, "B", "B")

AliasedRequests ==
    Wholes(Objects({Member("n", 2, Num), Member("shh", 4, Num), Member("shh", 1, Num)}
                   \cup {Member("child", k, Obj(<<Member("ex", e, Num)>>)) : k \in {1, 3}, e \in {1, 4}}
                   \cup {Member("child", 2, Obj(<<Member("x", 2, Num), Member("ex", 4, Num)>>))}, 2))

\* Input rules below a list.
Ruling == TypeGraph(<<F("n", "Int"), F("many", "Many")>>,
                    <<Required(Ruled(F("x", "Int"))), F("y", "Int")>>, "B", "B")

RulingRequests ==
    Wholes({Obj(<<Member("many", 1, List(items))>>) :
                items \in SeqOf(Objects({Member("x", k, v) : k \in {1, 2}, v \in {Num, Bool, Null}}
                                        \cup {Member("y", 1, Num)}, 1), 2)})

\* A list and a map that are given more than once, with an internal field below:
\* shorter and longer again, emptied, null, with an entry that does not decode.
Repeating == TypeGraph(<<F("many", "Many"), F("dict", "Dict")>>,
                       <<Required(F("x", "Int")), F("y", "Int"), Internal(F("hush", "Int"))>>, "B", "B")

X == Obj(<<Member("x", 1, Num)>>)
Y == Obj(<<Member("y", 1, Num), Member("hush", 2, Num)>>)
RepeatingRequests ==
    Wholes(Objects({Member("many", 1, List(items)) :
                        items \in {<<>>, <<X>>, <<Y, X>>, <<X, Y>>, <<Null, Obj(<<>>)>>}}
                   \cup {Member("many", 2, List(<<Y>>)), Member("many", 2, Null)}
                   \cup {Member("dict", 1, Obj(<<Member(k, 1, d)>>)) : k \in {"k", "l"}, d \in {X, Y}}
                   \cup {Member("dict", 1, Obj(<<Member("k", 1, Num), Member("k", 1, X)>>)),
                         Member("dict", 2, Null)}, 3))

\* Two names that differ in case, with and without an internal field beside.
Twins(third) == TypeGraph(<<F("n", "Int"), Upper(F("n", "B")), third>>, <<F("x", "Int")>>, "B", "B")
TwinRequests ==
    Wholes(Objects({Member("n", 1, Num), Member("n", 3, Num), Member("n", 2, Null),
                    Member("n", 2, Obj(<<Member("x", 2, Num)>>)), Member("z", 1, Num)}, 2))

\* The same below a type that has an internal field of its own.
DeepTwins == TypeGraph(<<F("n", "Int"), Internal(F("hush", "Int")), F("child", "B")>>,
                       <<F("x", "Int"), Upper(F("x", "Int"))>>, "B", "B")
DeepTwinRequests ==
    Wholes(Objects({Member("hush", 2, Num), Member("child", 2, Obj(<<>>))}
                   \cup {Member("child", 1, d) : d \in Small}, 2))

\* Metadata hides a field of A and one of B, which A holds in a map.
Metadata ==
    [TypeGraph(<<F("n", "Int"), Hidden(F("hush", "Int")), F("dict", "Dict")>>,
               <<Required(F("x", "Int")), Hidden(F("hush", "Int"))>>, "B", "B")
     EXCEPT !.changed = {"A", "Dict", "B"}, !.callers = {c1, m1}]

\* It changes A alone: presence does not enter the map.
Outer == [Metadata EXCEPT !.changed = {"A"}]

MetadataRequests ==
    Wholes(Objects({Member("n", 1, Num), Member("hush", 2, Num)}
                   \cup {Member("dict", 1, Obj(<<Member("k", 1, d)>>)) :
                            d \in Objects({Member("x", 2, Num), Member("hush", 1, Num)}, 2)}, 2))

\* Mutual recursion through a list, two callers at either end.
Mutual ==
    [TypeGraph(<<F("child", "B"), F("many", "Many")>>, <<Internal(F("hush", "Int")), F("child", "A")>>, "B", "B")
     EXCEPT !.roots = {"A", "B"}, !.callers = {c1, c2}]

MutualRequests == Wholes(
    {Obj(<<Member("many", 1, List(<<Obj(<<Member("hush", 1, Num)>>)>>))>>),
     Obj(<<Member("child", 1, Obj(<<Member("child", 2, Obj(<<Member("hush", 2, Num)>>))>>))>>)})

\* Two callers without metadata race with one that has some.
Shadowed ==
    [TypeGraph(<<F("child", "B"), Hidden(F("n", "Int"))>>, <<F("n", "Int"), F("child", "A")>>, "B", "B")
     EXCEPT !.changed = {"A", "B"}, !.callers = {c1, c2, m1}]

ShadowedRequests == Wholes({Obj(<<Member("n", 1, Num)>>)})

\* Dates: a declared policy below, a layout, a tag that does not parse.
Dated(policy) ==
    [TypeGraph(<<F("child", "B"), Alias(F("n", "Int"), "en")>>, <<Date("d", policy), F("x", "Int")>>, "B", "B")
     EXCEPT !.callers = {c1, c2}]

DatedRequests == Wholes(
    {Obj(<<Member("child", 1, Obj(<<Member("d", 1, Num), Member("x", 1, Num)>>))>>),
     Obj(<<Member("en", 4, Num)>>)})

Broken == [Mutual EXCEPT !.broken = {"B"}]
Inert == F("z", "Int")

MCShapes ==
    [nested |-> Nested, plain |-> Plain, aliased |-> Aliased, ruling |-> Ruling, repeating |-> Repeating,
     plainTwins |-> Twins(Inert), twins |-> Twins(Internal(Inert)),
     deepTwins |-> DeepTwins, metadata |-> Metadata, outer |-> Outer,
     mutual |-> Mutual, shadowed |-> Shadowed, broken |-> Broken,
     policy |-> Dated("policy"), layout |-> Dated("layout"), bad |-> Dated("bad")]

MCRequests ==
    [nested |-> NestedRequests, plain |-> PlainRequests, aliased |-> AliasedRequests,
     ruling |-> RulingRequests, repeating |-> RepeatingRequests, plainTwins |-> TwinRequests, twins |-> TwinRequests,
     deepTwins |-> DeepTwinRequests, metadata |-> MetadataRequests,
     outer |-> MetadataRequests, mutual |-> MutualRequests, shadowed |-> ShadowedRequests,
     broken |-> MutualRequests \cup NullPolicy({Null}), policy |-> DatedRequests, layout |-> DatedRequests,
     bad |-> DatedRequests]

(* The recursion: each constant is its own unfolding.  The LET keeps TLC's *)
(* coverage from walking through the definitions for ever.                 *)

MCFilter(s, fl, t, v, meta, standard) ==
    LET it == FilterOnce(s, fl, t, v, meta, standard) IN it
MCFilterMembers(s, fl, t, members, meta, standard) ==
    LET it == FilterMembersOnce(s, fl, t, members, meta, standard) IN it
MCDecode(s, t, v, before, aliases) ==
    LET it == DecodeOnce(s, t, v, before, aliases) IN it
MCDecodeMembers(s, t, members, base, aliases) ==
    LET it == DecodeMembersOnce(s, t, members, base, aliases) IN it
MCMark(s, t, val, v, fl, meta, order) ==
    LET it == MarkOnce(s, t, val, v, fl, meta, order) IN it
MCValidate(s, t, v, meta, order) == LET it == ValidateOnce(s, t, v, meta, order) IN it
MCReading(s, t, v, before, meta, rules) ==
    LET it == ReadingOnce(s, t, v, before, meta, rules) IN it
MCReadMembers(s, t, members, base, meta, rules) ==
    LET it == ReadMembersOnce(s, t, members, base, meta, rules) IN it
MCUnmarked(value) == LET it == UnmarkedOnce(value) IN it
MCShown(s, t, value, meta) == LET it == ShownOnce(s, t, value, meta) IN it
MCUnduplicated(s, t, v) == LET it == UnduplicatedOnce(s, t, v) IN it
MCComplete(s, t, value, meta) == LET it == CompleteOnce(s, t, value, meta) IN it
=============================================================================
