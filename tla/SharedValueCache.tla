--------------------------- MODULE SharedValueCache ---------------------------
(***************************************************************************)
(* Binds that run concurrently and share one ValueCache:                   *)
(* invocation.resolveBindingResult with its active set, its own cache and  *)
(* the per-key mutexes of the shared cache.                                *)
(*                                                                         *)
(* A location is looked up in the injector and then in its ancestors, the  *)
(* owners 1, 2, ...; a provider that resolves other locations while it     *)
(* produces its value does so in the same invocation.  Each call of        *)
(* resolveBindingResult is a frame; a frame keeps the mutexes it locked    *)
(* until it returns.  A value is the number of the provider call that      *)
(* produced it.                                                            *)
(***************************************************************************)
EXTENDS Naturals, Sequences, FiniteSets

CONSTANTS
  Binds,            \* the concurrent calls of Bind
  Locations, Types, \* what there is to bind, and the types to bind it as
  Owners,           \* length of the injector chain
  Systems,          \* the provider configurations to consider
  ProviderResults,  \* "found", "missing", "owned" (authoritative miss), "error", "panic"
  MaxClears         \* bound: how often the application clears the shared cache

Requests == Locations \X Types
Keys == (1..Owners) \X Locations \X Types
None == 0

ASSUME OwnersAssumption == Owners \in Nat \ {0}
ASSUME ResultsAssumption ==
  ProviderResults \subseteq {"found", "missing", "owned", "error", "panic"}
\* A configuration: which owners have a provider for a location, of whatever type,
\* which values are cacheable, what a provider resolves on the way, and what every
\* bind is asked to bind.
ASSUME SystemsAssumption ==
  /\ Systems \subseteq [registered : SUBSET Keys, cacheable : SUBSET Keys,
                        needs : [Locations -> SUBSET Requests], plan : SUBSET Requests]
  /\ \A s \in Systems : \A k \in s.registered : \A t \in Types : <<k[1], k[2], t>> \in s.registered

VARIABLES
  system,   \* the configuration, fixed
  goals,    \* goals[b]: what b has still to bind
  stack,    \* stack[b]: the frames of b, innermost first
  mine,     \* mine[b]: the invocation's own cache, key -> value (0: cached miss)
  shared,   \* the shared cache, key -> value or None
  holder,   \* the binds that hold a mutex: <<key, generation>> -> bind
  clears,   \* how often the lockers were cleared: their generation
  clearing, \* the values are cleared, the lockers not yet
  calls,    \* calls[k]: provider calls for k so far
  failed    \* binds that ended with an error or a panic

vars == <<system, goals, stack, mine, shared, holder, clears, clearing, calls, failed>>

\* locks are the mutexes the frame has locked, gen the generation of the locker
\* it loaded, call the number of the provider call, todo what it has yet to resolve.
Frame(r) == [loc |-> r[1], type |-> r[2], owner |-> 1, stage |-> "owner", locks |-> {},
             gen |-> 0, call |-> 0, todo |-> {}]

\* Values and mutexes are kept by owner, location and target type; the active set
\* knows locations only.
KeyAt(o, f) == <<o, f.loc, f.type>>
KeyOf(f) == KeyAt(f.owner, f)
Top(b) == Head(stack[b])
In(b, stage) == stack[b] # << >> /\ Top(b).stage = stage

\* The locations of b's open frames: the active map.
Active(b) == {stack[b][i].loc : i \in DOMAIN stack[b]}

Init ==
  /\ system \in Systems
  /\ goals = [b \in Binds |-> system.plan]
  /\ stack = [b \in Binds |-> << >>]
  /\ mine = [b \in Binds |-> << >>]
  /\ shared = [k \in Keys |-> None]
  /\ holder = << >>
  /\ clears = 0 /\ clearing = FALSE
  /\ calls = [k \in Keys |-> 0]
  /\ failed = {}

Update(b, f) == stack' = [stack EXCEPT ![b] = <<f>> \o Tail(@)]

\* holder without the mutexes in locks.
Unlocked(locks) == [x \in DOMAIN holder \ locks |-> holder[x]]

\* The frame returns: its deferred unlocks run.
Return(b) ==
  /\ stack' = [stack EXCEPT ![b] = Tail(@)]
  /\ holder' = Unlocked(Top(b).locks)

-----------------------------------------------------------------------------

Cyclic(b, l) == l \in Active(b)

\* The next binding of the plan.
Begin(b) ==
  /\ stack[b] = << >>
  /\ b \notin failed
  /\ \E r \in goals[b] :
       /\ goals' = [goals EXCEPT ![b] = @ \ {r}]
       /\ stack' = [stack EXCEPT ![b] = <<Frame(r)>>]
  /\ UNCHANGED <<system, mine, shared, holder, clears, clearing, calls, failed>>

\* The provider at work resolves another location; a location that is being
\* resolved already is refused and the provider sees an error.
Nest(b) ==
  /\ In(b, "provide")
  /\ \E r \in Top(b).todo :
       LET outer == [Top(b) EXCEPT !.todo = @ \ {r}]
       IN stack' = [stack EXCEPT ![b] =
                      IF Cyclic(b, r[1]) THEN <<outer>> \o Tail(@)
                                         ELSE <<Frame(r), outer>> \o Tail(@)]
  /\ UNCHANGED <<system, goals, mine, shared, holder, clears, clearing, calls, failed>>

\* The provider of the current owner is called.
Ask(b) ==
  LET k == KeyOf(Top(b))
  IN
  /\ calls' = [calls EXCEPT ![k] = @ + 1]
  /\ Update(b, [Top(b) EXCEPT !.stage = "provide", !.call = calls[k] + 1,
                              !.todo = system.needs[Top(b).loc]])

\* MUTANT of NextOwner: the mutex of the owner that had no value is unlocked.
NextOwnerUnlocking(b, f) ==
  /\ Update(b, [f EXCEPT !.owner = @ + 1, !.stage = "owner", !.locks = {}])
  /\ holder' = Unlocked(f.locks)

\* The loop goes on with the parent and the mutex stays locked.
NextOwner(b, f) ==
  /\ Update(b, [f EXCEPT !.owner = @ + 1, !.stage = "owner"])
  /\ UNCHANGED holder

\* An owner without a provider for the kind is passed over; after the last one
\* nothing was found.
PassOwner(b) ==
  /\ In(b, "owner")
  /\ KeyOf(Top(b)) \notin system.registered
  /\ IF Top(b).owner > Owners
     THEN Return(b)
     ELSE NextOwner(b, Top(b))
  /\ UNCHANGED <<system, goals, mine, shared, clears, clearing, calls, failed>>

\* A provider whose values are not cached is asked at once.
AskUncached(b) ==
  /\ In(b, "owner")
  /\ KeyOf(Top(b)) \in system.registered \ system.cacheable
  /\ Ask(b)
  /\ UNCHANGED <<system, goals, mine, shared, holder, clears, clearing, failed>>

\* The invocation resolved this key before.
OwnHit(b) ==
  /\ In(b, "owner")
  /\ KeyOf(Top(b)) \in system.registered \cap system.cacheable
  /\ KeyOf(Top(b)) \in DOMAIN mine[b]
  /\ Return(b)
  /\ UNCHANGED <<system, goals, mine, shared, clears, clearing, calls, failed>>

\* ValueCache.lock: the key's mutex is loaded, or stored if there is none.
LoadLocker(b) ==
  /\ In(b, "owner")
  /\ KeyOf(Top(b)) \in system.registered \cap system.cacheable
  /\ KeyOf(Top(b)) \notin DOMAIN mine[b]
  /\ Update(b, [Top(b) EXCEPT !.stage = "lock", !.gen = clears])
  /\ UNCHANGED <<system, goals, mine, shared, holder, clears, clearing, calls, failed>>

\* MUTANT of Free: the mutex does not exclude.
FreeAlways(x) == TRUE

Free(x) == x \notin DOMAIN holder

Lock(b) ==
  LET x == <<KeyOf(Top(b)), Top(b).gen>>
  IN
  /\ In(b, "lock")
  /\ Free(x)
  /\ holder' = [y \in DOMAIN holder \cup {x} |-> IF y = x THEN b ELSE holder[y]]
  /\ Update(b, [Top(b) EXCEPT !.stage = "recheck", !.locks = @ \cup {x}])
  /\ UNCHANGED <<system, goals, mine, shared, clears, clearing, calls, failed>>

\* MUTANT of Known: the cache is not looked at again after the lock.
KnownNever(k) == FALSE

Known(k) == shared[k] # None

\* A value another bind stored; it does not enter the invocation's cache.
SharedHit(b) ==
  /\ In(b, "recheck")
  /\ Known(KeyOf(Top(b)))
  /\ Return(b)
  /\ UNCHANGED <<system, goals, mine, shared, clears, clearing, calls, failed>>

AskProvider(b) ==
  /\ In(b, "recheck")
  /\ ~Known(KeyOf(Top(b)))
  /\ Ask(b)
  /\ UNCHANGED <<system, goals, mine, shared, holder, clears, clearing, failed>>

Remember(b, v) ==
  LET k == KeyOf(Top(b))
  IN mine' = [mine EXCEPT ![b] =
                IF k \in system.cacheable
                THEN [y \in DOMAIN @ \cup {k} |-> IF y = k THEN v ELSE @[y]] ELSE @]

Found(b) ==
  /\ "found" \in ProviderResults
  /\ In(b, "provide")
  /\ Remember(b, Top(b).call)
  /\ shared' = IF KeyOf(Top(b)) \in system.cacheable
               THEN [shared EXCEPT ![KeyOf(Top(b))] = Top(b).call] ELSE shared
  /\ Return(b)
  /\ UNCHANGED <<system, goals, clears, clearing, calls, failed>>

\* An ordinary miss falls through to the parent.
Missing(b) ==
  /\ "missing" \in ProviderResults
  /\ In(b, "provide")
  /\ NextOwner(b, Top(b))
  /\ UNCHANGED <<system, goals, mine, shared, clears, clearing, calls, failed>>

\* An authoritative miss ends the search; only the invocation remembers it.
Owned(b) ==
  /\ "owned" \in ProviderResults
  /\ In(b, "provide")
  /\ Remember(b, None)
  /\ Return(b)
  /\ UNCHANGED <<system, goals, shared, clears, clearing, calls, failed>>

\* An error returns through the frame; nothing is stored.  It ends the bind
\* when it reaches the outermost frame.
Error(b) ==
  /\ "error" \in ProviderResults
  /\ In(b, "provide")
  /\ Return(b)
  /\ failed' = IF Len(stack[b]) = 1 THEN failed \cup {b} ELSE failed
  /\ UNCHANGED <<system, goals, mine, shared, clears, clearing, calls>>

\* MUTANT of UnwoundLocks: only the panicking frame unlocks.
UnwoundTopOnly(b) == Top(b).locks

UnwoundLocks(b) == UNION {stack[b][i].locks : i \in DOMAIN stack[b]}

\* A panic unwinds every frame through its deferred unlocks.
Panic(b) ==
  /\ "panic" \in ProviderResults
  /\ In(b, "provide")
  /\ stack' = [stack EXCEPT ![b] = << >>]
  /\ holder' = Unlocked(UnwoundLocks(b))
  /\ failed' = failed \cup {b}
  /\ UNCHANGED <<system, goals, mine, shared, clears, clearing, calls>>

\* ValueCache.Clear empties the values and then the lockers; mutexes that are
\* locked or waited for stay with those who loaded them.
ClearValues ==
  /\ clears < MaxClears /\ ~clearing
  /\ shared' = [k \in Keys |-> None]
  /\ clearing' = TRUE
  /\ UNCHANGED <<system, goals, stack, mine, holder, clears, calls, failed>>

ClearLockers ==
  /\ clearing
  /\ clears' = clears + 1
  /\ clearing' = FALSE
  /\ UNCHANGED <<system, goals, stack, mine, shared, holder, calls, failed>>

-----------------------------------------------------------------------------
Step(b) ==
  \/ Begin(b) \/ Nest(b)
  \/ PassOwner(b) \/ AskUncached(b) \/ OwnHit(b) \/ LoadLocker(b) \/ Lock(b)
  \/ SharedHit(b) \/ AskProvider(b)
  \/ Found(b) \/ Missing(b) \/ Owned(b) \/ Error(b) \/ Panic(b)

BindEnded(b) == stack[b] = << >> /\ (b \in failed \/ goals[b] = {})

Ended == (\A b \in Binds : BindEnded(b)) /\ UNCHANGED vars

Clear == ClearValues \/ ClearLockers

Next == (\E b \in Binds : Step(b)) \/ Clear \/ Ended

Spec == Init /\ [][Next]_vars

\* Providers return and a mutex goes to one of those who wait for it.
FairSpec == Spec /\ \A b \in Binds : WF_vars(Step(b))
-----------------------------------------------------------------------------
(* Properties.                                                             *)

Frames(b) == {stack[b][i] : i \in DOMAIN stack[b]}

\* f is the call of a cacheable provider: its value may enter the shared cache.
Resolving(f) == f.stage = "provide" /\ KeyOf(f) \in system.cacheable

\* Single flight: two binds never resolve the same cacheable key at the same
\* time unless the cache was cleared after the first of them loaded the mutex.
OneFlight ==
  \A b, c \in Binds : \A f \in Frames(b), g \in Frames(c) :
    /\ b # c
    /\ Resolving(f) /\ Resolving(g)
    /\ KeyOf(f) = KeyOf(g)
    => f.gen # g.gen

\* While a bind looks at a parent, the cacheable child it passed stays locked
\* and empty, so until the cache is cleared no bind takes a parent's value for
\* a location whose child value another bind has cached meanwhile.
ChildStaysEmpty ==
  clears = 0 =>
    \A b \in Binds : \A f \in Frames(b) : \A o \in 1..(f.owner - 1) :
      KeyAt(o, f) \in system.registered \cap system.cacheable =>
        /\ <<KeyAt(o, f), 0>> \in f.locks
        /\ shared[KeyAt(o, f)] = None

\* Until the cache is cleared a cached value is never replaced: every bind that
\* shares the cache sees the same one.
CachedValueStays ==
  [][clears = 0 /\ ~clearing /\ ~clearing' =>
       \A k \in Keys : shared[k] # None => shared'[k] = shared[k]]_vars

\* Every bind returns.
EveryBindEnds == \A b \in Binds : <>BindEnded(b)
=============================================================================
