-------------------------- MODULE SharedValueCacheMC --------------------------
(* Small provider configurations for TLC: a child and a parent injector, two  *)
(* locations.                                                                  *)
EXTENDS SharedValueCache

CONSTANTS A, B, T, U

No == {}
Typed(sites) == {<<s[1], s[2], t>> : s \in sites, t \in Types}
System(registered, cached, ofA, ofB, plan) ==
  [ registered |-> Typed(registered), cacheable |-> Typed(cached), plan |-> plan,
    needs |-> [l \in Locations |-> IF l = A THEN ofA ELSE ofB] ]

Sites == (1..Owners) \X Locations
AsT(locations) == locations \X {T}

\* A location both owners provide; one whose provider needs the other location,
\* bound beside it; a provider that needs itself, as another type; a cycle through one
\* cacheable location; a child that is not cacheable over a parent that is; a location
\* bound as two types.
SafeSystems ==
  { System({1, 2} \X {A}, Sites, No, No, AsT({A})),
    System({<<1, A>>, <<2, B>>}, Sites, AsT({B}), No, AsT({A, B})),
    System({<<1, A>>, <<1, B>>}, Sites, {<<A, U>>, <<B, T>>}, AsT({A}), AsT({A})),
    System({<<1, A>>, <<1, B>>}, {<<1, A>>}, AsT({B}), AsT({A}), AsT({A, B})),
    [System({1, 2} \X {A}, No, No, No, AsT({A})) EXCEPT !.cacheable = {<<2, A, T>>}],
    System({<<1, A>>}, Sites, No, No, {<<A, T>>, <<A, U>>}) }

\* Two cacheable locations whose providers need each other, as the same types.
CyclicSystems == { System({<<1, A>>, <<1, B>>}, Sites, AsT({B}), AsT({A}), AsT({A, B})) }
=============================================================================
