----------------------------- MODULE BindLoopMC ------------------------------
(* Small plans and values for TLC. *)
EXTENDS BindLoop

\* 0 is the zero value and an empty collection, 1 also the empty record; "u1" is
\* another way to write 1, and 2 does not survive the roundtrip.
SmallValues == {0, 1, 2}
SmallSize == [v \in SmallValues |-> v]
SmallTexts == {"t0", "t1", "u1", "t2", "null", "broken"}
SmallDecode ==
  [t \in SmallTexts |-> CASE t = "t0" -> 0 [] t \in {"t1", "u1"} -> 1 [] t = "t2" -> 2
                          [] t = "null" -> Null [] t = "broken" -> Bad]
SmallEncode ==
  [v \in SmallValues \cup {Null} |-> CASE v = 0 -> "t0" [] v = 1 -> "t1" [] v = 2 -> Bad
                                       [] v = Null -> "null"]
SmallCodec ==
  [v \in SmallValues \cup {Null} |-> CASE v = 0 -> Bad [] v = 1 -> 2 [] OTHER -> Null]

\* A replayed field (2), another one or a parameter of it (3), and a component (1)
\* that comes first in the order of priorities.
Base ==
  [ size |-> 3, rank |-> <<1, 2, 3>>, name |-> <<"n1", "n2", "n3">>,
    kind |-> <<"other", "external", "external">>, from |-> <<0, 0, 0>>,
    select |-> <<2, 3>>, prepare |-> << >>,
    location |-> <<"component", "body", "query">>, body |-> {}, rawSource |-> {},
    unsourced |-> {}, mapped |-> {}, single |-> {},
    marked |-> {1, 2}, nullable |-> {1, 3}, required |-> {}, codec |-> {},
    counted |-> {}, countsSource |-> {}, recorded |-> {}, emptied |-> {},
    least |-> <<0, 0, 0>>, most |-> <<2, 2, 2>>, default |-> <<Absent, Absent, Absent>> ]

Replayed ==
  { Base,
    [Base EXCEPT !.required = {1, 2}, !.default = <<Absent, 1, Absent>>],
    [Base EXCEPT !.codec = {3}, !.marked = {3}, !.required = {3}],
    [Base EXCEPT !.codec = {3}, !.select = <<3, 2>>, !.required = {2}, !.nullable = {2, 3}],
    [Base EXCEPT !.codec = {2}, !.emptied = {2}, !.rawSource = {2}, !.nullable = {2},
                 !.default = <<Absent, 1, 1>>],
    [Base EXCEPT !.codec = {2}, !.emptied = {2}, !.body = {2}, !.rawSource = {2},
                 !.nullable = {2}, !.select = <<2>>],
    [Base EXCEPT !.emptied = {2}, !.body = {2}, !.nullable = {2}, !.required = {2}],
    [Base EXCEPT !.body = {2}, !.nullable = {1, 2}, !.location = <<"component", "body", "body">>],
    [Base EXCEPT !.emptied = {2}, !.body = {2}, !.nullable = {2, 3}, !.select = <<2>>],
    [Base EXCEPT !.codec = {3}, !.countsSource = {3}, !.counted = {2, 3}, !.nullable = {2, 3},
                 !.required = {3}, !.least = <<0, 0, 1>>, !.most = <<2, 1, 1>>],
    [Base EXCEPT !.codec = {3}, !.countsSource = {3}, !.recorded = {3}, !.required = {3},
                 !.least = <<0, 0, 1>>],
    [Base EXCEPT !.mapped = {1, 3}, !.required = {1, 3}, !.codec = {3},
                 !.single = {1}, !.counted = {1}],
    [Base EXCEPT !.codec = {3}, !.unsourced = {3}, !.mapped = {3},
                 !.default = <<Absent, Absent, 1>>],
    [Base EXCEPT !.kind = <<"other", "external", "param">>, !.from = <<0, 0, 2>>,
                 !.select = <<2>>, !.prepare = <<3>>],
    [Base EXCEPT !.kind = <<"pure", "param", "param">>, !.from = <<0, 1, 2>>,
                 !.select = << >>, !.prepare = <<3, 1>>],
    [Base EXCEPT !.kind = <<"pure", "external", "param">>, !.from = <<0, 0, 1>>,
                 !.select = <<2>>, !.prepare = <<2, 3>>, !.rank = <<3, 2, 1>>] }

\* Selections and preparations that are refused, and an empty one.
Refusals ==
  { [Base EXCEPT !.select = <<2, 2>>], [Base EXCEPT !.select = <<0>>],
    [Base EXCEPT !.select = <<2, 3>>, !.name = <<"a", "n", "n">>],
    [Base EXCEPT !.select = << >>],
    [Base EXCEPT !.select = <<2>>, !.prepare = <<1>>],
    [Base EXCEPT !.select = << >>, !.prepare = <<3>>, !.kind = <<"param", "param", "param">>,
                 !.from = <<2, 3, 1>>],
    [Base EXCEPT !.select = << >>, !.prepare = <<3>>, !.kind = <<"pure", "pure", "param">>] }

SmallPlans == Replayed \cup Refusals
SmallSkips == {{}, {2}, {1, 3}}

\* One required binding beside two ordinary ones.
RequiredPlans == {[Base EXCEPT !.required = {1}, !.select = << >>]}
=============================================================================
