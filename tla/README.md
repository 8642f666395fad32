# Verification of bindly

bindly fills a Go struct from providers: an application compiles a *plan* from
struct tags or specs, and `Injector.Bind` resolves each binding of the plan from
the provider of its kind, converts the value, assigns the field and reports it.
What makes this hard is what happens around the single binding: groups of
bindings that run concurrently under an application's controller, a shared
budget of permits through nested binds, a value cache shared by concurrent
binds, request bodies that are read once, on demand, by whoever comes first, and
bodies that are filtered, decoded and marked by traversals that must agree.
The TLA+ modules here model those parts from the source, TLC checks them on
small instances, and TLAPS proves the most important properties for every value
of the constants.

## 1. Inventory

Line numbers refer to files under `src/`.

| component | state | operations | interacts through |
|---|---|---|---|
| dependency-mode group (`resolution_dependencies.go`) | status table, results, `completed`/`running`, `done` channel, group context, target under the publication mutex | coordinator scan, admission, skip, join, error reduction; worker Enter, snapshot, bind, publish, observe, release, send | the controller's callbacks, the scheduler's channel, the target |
| default-mode group (`resolution_group.go` 253-391) | start gate, wait group, three mutexes, failures, terminal error, group context | one goroutine per member; join; Close; verdict | controller, binding observer, target |
| resolution scheduler (`resolution_scheduler.go`) | `slots` channel, one lease (mutex, `held`) per runnable work | acquire, release, `RunResolutionGroupPhase`, `SuspendResolutionGroup` | contexts that carry scheduler and lease into nested binds |
| resolution and value cache (`scope.go` 403-507, `cache.go`) | per invocation: `active`, `cache`; shared: values and per-key mutexes | look up a location in the injector and its ancestors, Clear, Save, Load | providers that resolve other locations; other binds through the cache |
| request scope (`provider/request/scope.go`, `provider/request/deferred.go`, `provider/body/deferred.go`) | raw snapshot, form, their errors, spill files to clean up, `closed`; the once of the body source | New, NewDeferred; bytes, formValues, body source, the request handed to a handler, Close | the request's stream, contexts of several callers |
| body decoding (`internal/bodyjson/`, `provider/body/body.go`) | the process-wide plan cache; per call a raw body | compile a type's plan, filter, decode, mark presence, validate required fields, look a member up | encoding/json, callers' field metadata |
| group plan compilation and grouped bind (`resolution_group.go` 44-252, 393-400) | groups, `completed` | aliases, barriers, prerequisites, cycles; seeded fields, barriers, groups, the rest | bind loop, both group modes |
| bind loop (`scope.go` 149-378) | target, markers | priorities, conditions, kinds, seeds, replay, default, required, count, conversion, transformation, assignment, observer | providers, replay, controller |
| resolved input (`resolved_input.go`) | selected values | validation against the plan, detaching | bind loop |
| replay (`replay*.go`) | raw values, prepared values, preflight, protected paths | Capture, CaptureSources, Prepare, checkpoint with gate, providers | bind loop, application gate |
| plan, projection, registry, composition, resource store (`plan.go`, `projection.go`, `locator/`, `resource/`) | name and alias tables, maps | compile, look up, shadow, compose | reflection |
| conversion, built-in providers, query, header and cookie lookups | per call | convert, select | reflection, net/http |

What is hard: the coordinator racing its workers; cancellation from the caller,
a failed observation, a panic; permits that travel through nested binds; locks
held while application code runs; initialization that must happen once and keep
its error; cleanup that races initialization; a fixed point over mutually
recursive types that is published while others compile the same types; four
traversals that each decide which field a JSON key belongs to. `PROJECT.json`
lists each hazard at its line with the properties aimed at it, or with the reason
why none is.

## 2. Modules

| module | models | abstracts |
|---|---|---|
| `GroupContract` | what a dependency-mode group promises: a member runs after its prerequisites succeeded, at most `Limit` at once, is reported once, none starts after a fatal one; verdict; Close last | everything else |
| `DependencyGroup` | `bindDependencyGroup`, its workers and permits; refines `GroupContract` | a member's value is the member; a critical section is one action |
| `ConcurrentGroup` | the default-mode group with its mutexes | as above |
| `ResolutionScheduler` | permits, leases, phases and suspension in a forest of tasks | which member is ready (that is `DependencyGroup`) |
| `SharedValueCache` | `resolveBindingResult` as a stack of frames per bind, own and shared cache, key mutexes, Clear | a value is the number of the provider call that made it |
| `GroupPlan` | `compileResolutionGroups`: references, barriers, prerequisites, cycles | the field names below a path are a set |
| `Projection` | `Plan.Projection`: the table from names to fields, or a refusal | names are folded; markers and field access left out |
| `GroupOutcome`, `GroupStep` | what a run of a group comes to for the bind that waits for it: one outcome, once, which is final | everything before it |
| `GroupedBind` | `bindWithGroups`: resolved input, barriers, groups, the rest | a group is one step; a value is the binding that wrote it |
| `BindLoop` | the loop of `bind`, the pipeline of one binding with its null policy, the life of a replay and what it serves to components | values and JSON texts are small sets, conversions constants |
| `PlannedBind` | a declaration compiled by `GroupPlan`, named by `Projection`, bound by `GroupedBind` | fields are leaves below a path |
| `RequestScope` | both constructors, the deferred state, the body source's once, handlers, Close | bytes and forms are present or not, with how they ended |
| `BodyPlan` | `compileInternalPlan`: build, sweeps, publication, and its cache | a type is a node of a graph, a plan a set of flags per node |
| `BodyDecode` | `Source.Value`: lookup, null policy, filter, decoder, presence walk, required fields | scalars have no text; a key is a word and a spelling |
| `...MC` | small plans, nestings, type graphs and configurations for TLC | |
| `...Proofs` | theorems | |

How they compose. `PlannedBind` runs `GroupPlan` (an INSTANCE) on a declaration,
`Projection` on the compiled plan and `GroupedBind` on the plan that comes out. A group in `GroupedBind`
is one step to one of the `Outcomes` of `GroupOutcome`: which members were attempted
and published, and whether there was an error. `DependencyGroup` and `ConcurrentGroup`
are that step in detail: under the mapping `Outcome`, which shows nothing until the
group returns, each implements `GroupStep`, so that no goroutine publishes once the
bind has gone on. The run `dependency_group` checks it as part of `ImplementsContract`,
and it is proved for both modes. `BindLoop` is the bind of a plan
without groups; the value it takes from a provider is what `SharedValueCache`
returns. `DependencyGroup` gives a permit back when a member ends;
giving it back and taking it again *within* a member is `ResolutionScheduler`'s
subject, where every task is one member or phase. A member's own bind is one
step in the group modules; what two such binds do to a shared cache is
`SharedValueCache`. `BodyDecode` extends `BodyPlan`: a caller compiles or loads a
plan and then decodes with it. It starts from a body that `RequestScope` has made
available.

### DependencyGroup
`cpc`, `cpos`, `before`, `ready`, `offered` are the coordinator's program point,
loop index, `before`, `ready` (0 for -1) and whether `slots` is non-nil in the
select. The scan is one action per member (64-97: `ScanPast`, `ScanPending`,
`ScanSkip`) because workers run meanwhile; `ScanSkip` includes the call of
Observe. The select is `TakeSlot` (the send), `Receive` and `SeeCancel`; after a
send `GiveSlotBack` or `Spawn` follows from the recheck of the context (112-115),
and after `SeeCancel` the join is `DrainReceive` and `DrainEnd`. A worker goes through `enter`, `snapshot`, `resolve`, `publish`,
`observe`, `cancel`, `release`, `send`: the order in which outcome, cancellation,
permit and result become visible is the order of the source. The controller and
the providers answer with any element of `EnterResults`, `ProviderResults`,
`ObserverResults`, `ObserveResults`, `CloseResults`. `WriteResults` says what the
writes of a member may come to: `Publish` reads the value back from the copy and sets
the field (`FieldFails`: 245, 253), sets the marker (`MarkerFails`, 256: the field
stays set, the outcome has a cause and is not terminal) and asks the observer (`Written`).
`published` and `marked` are the members whose field and whose marker are in the target.

### ConcurrentGroup
Mutexes `publication` and `observation` are held over several steps, because a
field and its marker, or a callback, are several steps; `collector` protects two
appends and is part of them. The deferred function of a worker is `Collect`,
`LockForObserve`, `Observe`. `SetField` and `SetMarker` may fail (`WriteResults`,
`FailWrite`): a marker that cannot be set leaves its field set.

The copies are shallow, as in the code (317, `groupSourceSnapshot` 402-426). A plan's
field may lie below a pointer (`Nested`); `held` says that the target holds that pointer,
`borrowers` are the members whose scratch was copied then and shares what is below, and
their own bind writes through it to the target without any mutex (`Resolve`;
scope.go:352). `seen[m]` is the latest copy of the source that `m` made: what it
held itself, and whether it shares the pointer; `Shown` is what a reader of the copy finds
by now. Of the marker record, a field of the struct on top, `groupSourceSnapshot` makes a
private copy, so a copy's markers do not change; the scratch shares it with the target and
nobody reads it there. The source is the target here (`WithSource(input)`, where the
copies matter); for a source of its own no member's writes are seen at all. Left out: a
marker record that is promoted from an embedded pointer, words read while they are
written, and one pointer below another. Not modelled either: a panic of `Observe`
itself, which is outside the recovered part of the goroutine and ends the process;
cancellation by the caller, which changes no control in this mode.

### ResolutionScheduler
A task asks for a permit (`Acquire`/`TakeSlot`/`GiveUp`), runs, may suspend itself
and launch its children, reacquires or gives up on cancellation, and releases in
its deferred function. A nested dependency group on a context that still carries
a lease is refused (`NestedRefused`, resolution_group.go 193-199). Errors after a
canceled wait are propagated by the caller as the doc comment demands
(`Propagate`); the group members do so. Prerequisites among siblings are left to
`DependencyGroup`.

### GroupPlan, GroupedBind and PlannedBind
A compilation is one step per iteration of its loops: `Start` (no groups, ambiguous
aliases), `AddBinding` over the bindings, `NextGroup` over the groups with the
overlapping writes of a dependency-mode group, `VisitMember` over a group's members,
and `Visit`, one prerequisite of the innermost call of the recursive `visit`, whose
calls are the sequence `calls` and whose loop indexes are `tries`. In `GroupedBind` `Prepare` is everything
before the first callback (200-214 and `resolvedValues`), `Bind` is one binding
of a subset in order of priority and, among equals, of the subset (`Place`: barriers in the
order of `after`, everything else in that of the plan), `BindReturns`, `Open` and `RunGroup` follow
`bindWithGroups`. The plans' fields are leaves below a path, so that a binding
may write a field of another one's record, or its marker. `Linked` turns a
compiled declaration into the plan `GroupedBind` executes; a declaration that is
refused ends there. `Ask` is a call of `Plan.Projection`, for a target and explicit
aliases; `AddName` is one call of `add`, `Locate` one binding of the loop over the
places, and `Infer` the last loop, whose map order cannot matter because its names
differ. `OrderFree` compares the table with the declared names as sets. The code reads
no groups here, and the model projects plans without any.

### BindLoop
`Select`, `VisitRoot` and `Visit` are `Plan.Replay` and the recursive `visit` of
`Prepare`, with the call stack as a variable; `Create` is `DecodeJSON`,
`CaptureSources` or `Capture`, which produce the raw values. The two stable sorts
are a comparison of bindings (`Ahead`: the preflight of a replay first, then `rank`,
the place in the order of priorities), the loop index is the set `passed` of bindings it
is past, and `Turn` names the next one; `Step` is one iteration: a switched-off binding continues, otherwise
`BindOne` chooses the source and `Process`, `Missing`, `Transform` and `Finish` are
the pipeline in the order of the code, up to `Assign` with marker, `replayAssigned`
and observer, any of which may fail with what precedes it written. `CountRefused` is
`validateRecordCount`, which looks at a value's kind: absent and nil values are no
records whatever the binding is (`NoRecord`), a collection is counted, a struct is one
record, and anything else is one under cardinality One and not counted otherwise (`Counts`,
`Records`; `single`, `counted`). A nil map is a map to it: scope.go 343-348 makes it of
null before the count, so a required binding of map type (`mapped`) is bound to null and
`Bind` returns nil. `SourceRecords` counts what a codec will decode. A codec whose source
has no type cannot be replayed (`unsourced`, replay.go 96). `Checkpoint` is `authorize` and `capturePrepared` together, because
the invocation owns the replay (replay.go:22); the gate may change one field of
the preflight or its marker, or fail. `Edited` is the part of the fields that
`capturePrepared` comes to before one it refuses, in the order of the selection:
a capture that fails leaves the edits of those (`torn`: the fields whose raw text
it changed while older prepared values stay), and one that succeeds writes every
field but those with a codec. Conversions are constants: `Decode`, `Encode` (`Bad`
where the roundtrip of `encodeField` fails), `Codec`, and `Size` for record counts.
A binding in `emptied` turns null into an empty record (`Decoded`), unless its source
is raw JSON (`rawSource`); the raw text keeps the null. `Provided` is what
`ValueWithBodyNullPolicy` of the replay's provider answers to a component that asks
for the location of a replayed field, and `Projected` what its `CaptureSource` hands
on; two replayed fields with one location are refused (`ProvidersRefused`).
The supplied null of a body collection (295-300) is refused by its count in the
code and counts as "required" in the model; it is refused either way. Targets are
fresh: binding over a struct that already has markers set is not modelled.

### SharedValueCache
A key is an injector, a location and the target type (`KeyOf`, 429-432); the active
set knows locations only, so a location that is asked for again as another type is a cycle.
All binds have one `sourceIdentity`: binds of different sources share no key.
A frame is one call of `resolveBindingResult`; its stages are the owner loop,
waiting for the key's mutex, the second look under it, and the provider, which
may push frames. Returning, failing and panicking pop frames and unlock what
they locked. `Clear` is two steps (values, then mutexes) because it holds no
lock. `Save` and `Load` are not modelled: they move values to and from a file.

### RequestScope
`bytes`, `formValues` and `close` hold one mutex throughout, so each is an
action; the once of the body source is not that mutex, and its loader calls
`bytes` and `formValues` one after the other with a context check between. `New`
reads and parses at once (scope.go 148-171) and decides by comparing pointers
whether the spill files are its own; a read error ends it with the stream used up
(`NewReadFails`); `NewDeferred` restores the
caller's form first. The raw request is given to a handler only with a body of
its own (`HandOver`, 213-224). A context may be canceled in any state and
during a read or parse. Not modelled: a panic of the request's Body.

### BodyPlan and BodyDecode
A caller without metadata looks in the cache, builds one node per type it reaches
(`Memo`, `Built`), sweeps the nodes in any order, each visit adding what the types
below have (`Gather`), until a whole sweep changes nothing (`Settle`), and publishes
with LoadOrStore (`Publish`), keeping whatever was there first. A caller with metadata
does the same without the cache. What flags mean is stated independently of
sweeps: `Exact` is the union over everything reachable, held in the tables
`MemoOfType` and `ExactOfType`.

`Answer` is one request to a Source: the whole body or one named member, with the
null policy and an optional default, then the route the plan's flags select: the
filter when internal members exist below, the decoder (with jsonx rules or
without), the presence walk if the target has a marker holder. `Filter`, `Decode`,
`Mark` and `Validate` are the four traversals. They are recursive in the code; here
each is a constant operator and a definition that unfolds it once (`FilterOnce`, ...),
which `BodyDecodeMC` makes the same, so that the module can be proved about. Each
decides for itself which field a key belongs to (`PlanField`, `FieldOf`, `Spoken`,
`Supplied`), with aliases, exact names before folded ones, duplicates and the
random order of Go's maps (`Orders`). The properties compare them with one reading
of a body that is written down once (`Reading`): public members only, the last
member of a field wins, and what a member is decoded into is what earlier members of the
field left. An object goes into the struct that is there; a list goes into the elements that
are there, also those beyond the present length, where a shorter list has left them
(`Held`, `Slot`, `Refilled`), except that `[]` makes a slice of its own; a map
keeps its entries, and each entry is decoded anew (`DecodeMap`). The tests state this at
`internal/bodyjson/time_test.go` 143-165, 166 and 255. A slice is reallocated only when it
is full, and then all of it is copied, so the model needs no capacities. The decoder behind the aliases route is structology's `UnmarshalStandard`,
which is not in this repository and is taken to decode as encoding/json does.

## 3. Runs

| run | asks | bounds |
|---|---|---|
| `concurrent_group` | copies, join, verdict, return | 3 members, 2 of them below one pointer that the target holds or not, writes that fail, every answer but a panic of Enter or of the observer and a provider's error (2.07 million states) |
| `concurrent_group_panic` | *violated*: the group returns after an observer panic | 2 members |
| `scheduler` | permits and leases through nesting; no starvation | 4 tasks in 2 nestings, 2 permits, 2 suspensions each |
| `value_cache` | single flight, child before parent, stable values, termination | 2 binds, 2 injectors, 2 locations, 2 target types, 6 configurations, 1 Clear (684 thousand states) |
| `value_cache_cycle` | *violated*: every bind ends, with two providers that resolve each other | 2 binds |
| `bind_loop` | the preflight is closed and comes before the gate; raw, prepared and bound values and what components read agree; null stays null; required and limited bindings | 23 plans of 3 bindings, 3 values, 6 JSON texts, 3 binds with all options, 3 switched-off sets (2.19 million states) |
| `bind_loop_missing` | *violated*: `AllowMissingRequired` lets a required binding be absent | one plan, 1 bind |
| `dependency_group` | permits, prerequisites, verdict; it implements `GroupContract`; it returns | 3 members, 2 permits, seven shapes of prerequisite graph, cancellation by the caller, writes of a field or marker that fail, every other answer but errors of a provider, panics and an error of Close (2.02 million states) |
| `request_scope` | read once and whole, spill files removed and only ours, clean source, termination | 3 callers, both constructors, every outcome (310 thousand states) |
| `request_owner` | *violated*: a form the caller parsed before `New` stays the caller's | 1 caller, every parse succeeds |
| `planned_bind` | a plan is accepted exactly when its declaration is well-formed; no name depends on the order of bindings; each binding once, Open after barriers, supplied values untouched | 139 336 declarations: every graph of 3 members, 3 bindings in 2 groups with aliases that shadow paths, common fields, 6156 of 2 or 3 bindings that are named for 2 targets; twelve of 3 or 5 bindings are bound, with up to 2 supplied and every kind of invocation (1.04 million states) |
| `body` | plans are exact whoever compiled them; the value is the public reading of the body, marks and required fields agree with it | 16 type graphs, 3 callers, bodies of up to 3 members, among them every sequence of 3 lists and maps of a field that differ in length and entries (49 thousand states) |

Why these bounds are enough: three members give a prerequisite chain, a fork, a
join and two independent peers, and with two permits there is always one member
that has to wait; five of the seven shapes are, up to renaming, the graphs on
three members whose prerequisites are declared first and do not follow from one another,
and two are declared the other way round. The answers left out of `dependency_group` take a path another answer takes
(a provider's error is a result with a cause, as a refusal is; a panic is a
terminal one, as an observer's error is), and so do those left out of
`concurrent_group` (a value that cannot be read back fails as a provider does, a panic of
the provider unwinds as one of Enter does); the theorems cover all of them. Two nested
members are enough for one whose scratch writes through the target's pointer while the
other reads, beside one that shares nothing. Four
tasks allow, in one nesting, two descendants of one member
beside an unrelated member for two permits and, in the other, a chain whose
suspended ancestors alone could take both; two binds and two
locations suffice for a lock held while another is requested; three callers give
one loader, one waiter and one that closes; five bindings give two groups with a
common barrier, a barrier of one and a prerequisite; three bindings give two
selected fields, or a field and a parameter computed from it, beside a component,
and three binds one that captures, one from prepared values whose own capture fails
half-way, and one that reads and captures what that left.
Among the values one does not survive the JSON roundtrip, two texts mean the same
value and a codec fails, returns null or loses information. Two struct types that
contain each other, a list and a map give every order of sweeps a plan can settle
in; two compilers and one with metadata give a race for one cache entry; three
members give a field twice and another between, in any spelling, and a list that is long,
then short or empty, then long again. Every bound is a
CONSTANT or named in the configuration (`MaxWaits`, `MaxClears`, `MaxBinds`) or in
the MC module.

### Fairness
`FairSpec` of each module that has a liveness property asks weak fairness of each goroutine's next step, and
nothing else: the Go scheduler runs every runnable goroutine, and callbacks,
providers, the stream and the parser are assumed to return. Weak fairness is
enough where several goroutines wait for one channel or mutex, because each of
them takes it a bounded number of times (a member once, a task at most
`MaxWaits + 1` times, a bind once per location), so it stays free for the last
one waiting. Nothing is assumed of cancellation, suspension, launching or Clear:
they may never happen. What a module makes one action is atomic for liveness too:
`EveryCallEnds` of `RequestScope` is about the callers that wait for the once of the body
source, and says nothing of the deferred request's mutex, whose holder never waits for
another lock.

## 4. Proofs

TLAPS checks these for every value of the constants, from the assumptions named
in the component's module and, for decoded bodies, from the hypotheses named below.

*DependencyGroupProofs*: type correctness, `PermitsAccounted`, `CountersAgree`,
`PrerequisitesPublished`, `SkippedForAReason`, `ClosedAfterJoin`, `NilMeansAllBound`,
`FaultyPublicationReported`, `NoAdmissionAfterFatal`, for writes that fail in any way
`WriteResults` allows. None is inductive. The
invariant is built in layers, each inductive given the ones before: program
points and status (`Lifecycle`: a member is running exactly from admission to
receipt), the shape of outcomes at each program point, the counters and the
tokens as cardinalities of sets of members, the ready member and the
prerequisites of whatever was attempted, the reason of each skip, and what the
final phases imply. The bounds of the counters come last, because they follow
from the cardinalities.

The same module proves `Spec => ImplementsContract`, with the refinement mapping
written in `DependencyGroup` and the invariant above as the lemma that every step
maps to a step of the contract or a stutter. Its second part, `RunIsOneStep`, is the
same for `GroupStep`: only the step that returns changes the mapped outcome, and a
state that has returned allows no further step (`ReturnedIsFinal`).

*ResolutionSchedulerProofs*: `PermitsMatchLeases`, `RunnableHoldsPermit`,
`AncestorsSuspended`, and that a receive from the channel never blocks, which is
why receiving under a lease's mutex is harmless.

*ConcurrentGroupProofs*: `CopiesCoherent`, `ClosedAfterJoin`, `SuccessIsPublished`. Each
speaks of a quiet moment; the invariant says what holds in between: the member in
its two writes holds the publication mutex (`Publishing`); a value without its marker
is that member's, or a failed one's, or lies below a pointer the target holds (`Apart`),
and only nested members share that pointer, once it is there (`Borrowing`); whoever holds the observation mutex has yet to
report (`Observing`, true also after an observer's panic); a failure is recorded before
its goroutine collects (`NothingUncollected`). `RunIsOneStep` says that the whole run is the one step of
`GroupStep` (`ImplementsStep`): every goroutine is gone when the group returns.

*SharedValueCacheProofs*: `OneFlight`, `ChildStaysEmpty`, `CachedValueStays`, and that a
mutex is only held by a bind with open frames. The invariant has two halves:
mutexes and frames (`LockInv`: held by the frame's bind, in one frame of it, and no
mutex without a frame), proved for the four ways a stack changes, and a predicate
of a single frame (`FrameInv`: which mutexes it must have by its stage, of which
generation, and that nothing is cached under them until a clear), proved for each
thing that happens to a frame.

*PlannedBindProofs*, for every declaration, target, list of aliases, selection and
invocation:

- `CompilesWellFormed`. `CompiledInv` says that the groups hold exactly the grouped
  bindings the loop is past, in order and each consistent with its group (`Kept`);
  what the search knows at each point (`SearchState`: a visited member needs only
  visited ones, the calls in progress form a path of needs, and what the loop of a call
  is past is visited or the next call); that a group that was searched has no
  overlapping members and no endless path of needs (`Grounded`, the absence of cycles as
  a statement about sets, which is what grows with `visited`); and that a refusal has
  its reason in the declaration. One direction of the equivalence is the last conjunct,
  the other follows from `Kept` and `Verified` of all groups.
- `OrderFree`. `NamingInv` says of the table, after any number of declared names, that it
  is what those names say as a set (`TableAt`), and the same of the places (`PlacesAt`).
- `CompiledPlansBind`: a plan that compilation accepts satisfies what `GroupedBind`
  assumes of its plans (`ValidPlan`), so the assumption restricts nothing.
- `BoundOnce`, `OpensAfterBarriers`, `SuppliedUntouched`. The invariant `Inv` says which
  bindings were attempted in terms of `completed`, `batch` and `todo` (`Counted`), what
  the batch of each phase is (`Placed`), that the groups before `at` are completed and
  the members of the later ones are not (`Advanced`: a member in the batch of a barrier
  or of a seed would be bound twice), and that past `Prepare` the selection was
  accepted. It is proved for the steps of `GroupedBind` alone; `PlannedInv` says that
  until then there is no plan, and that `Invoke` starts it as `GroupedBind` says.

The assumptions are `DeclarationsAssumption` (no two bindings with one path: plan.go 51-55
refuses the others; a path has fields) and that names are sequences.

*RequestScopeProofs*: `NothingSpilledAfterClose`, `SnapshotWhole`, `SourceRestsOnSnapshot`
for any number of callers, and `CallerFilesKept` for the constructions the code
documents (the theorem assumes that `New` is given no form parsed before, which is
what the run `request_owner` shows to be needed). The first needs that spill files
exist only while they are registered; the third that there is one loader at a time
and what it has obtained at each point, and that neither snapshot nor form is ever
replaced.

*BodyProofs*: `HeldExact` (`PlansAreExact`) for every type graph, every number of
callers and every order of sweeps, and that a published plan is never replaced
(`CacheIsStable`). Flags stay within what is reachable; in a sweep that has changed
nothing, every visited node holds what a visit gathers, so once all of them were
visited a flag missing at a node would be missing at the node it comes from. These two
are about `PlanSpec`; a step of `BodyDecode` is a step of `BodyPlan` or leaves its
variables alone.

The same module proves the three properties of decoded bodies, `ReadsThePublicPart`
(`BodiesReadPublicly`), `MarksAuthored` (`PresenceAuthored`) and `RequiredAgrees`
(`ValidationAgrees`), for documents of any size and depth, where the run `body` has
those of up to three members. The invariant is `BInv`: the one of the plan cache, that
a caller that is done holds an exact plan, and that the last answer was made by such a
plan of its caller's type (`Faithful`). What remains is about the traversals alone: an
exact plan tells them all they need of the types (`Known`, `Speaks`), and

- filtering and decoding a document gives a value that differs from its reading in
  the marks at most (`AllMatch`), and marking it changes nothing else (`AllBare`). A
  member may come again, so this is said of any two earlier values that differ in their
  marks at most: what such slices and maps hold is alike element by element
  (`HeldSlots`, `HeldEntries`), and what is decoded over it is alike again (`OverAlike`),
  beyond the length too;
- a document that repeats no field passes validation exactly if its reading is
  complete (`AllRequire`), and shows the marks of its reading (`AllShow`); at the top
  the marks are those of the reading even where fields repeat (`TopMarks`).

Each is proved of one document from the shallower ones, by the code's cases (list, map,
struct, member by member), and of all by induction on the depth. The library's
induction theorems take an operator; `Ind` is the induction of this module, for subsets of the
numbers, and comes from the well-foundedness of finite sets. Types refer to each other
in cycles, so "a value of type t" is no recursion over types: `Typed` is
membership in some set of pairs that is closed under parts.

These three theorems have hypotheses of their own, which are not assumptions of the
model: `JSON` (the documents are the scalars and all lists and objects of documents,
each deeper than its parts), `Traversals` and `Readings` (the recursive
operators unfold, on those documents and on values, by the definitions in `BodyDecode`),
`Inputs` (requests are made of documents), `Ranked` (Go ranges over the spellings
in some order; for presence and validation) and that "none" is no caller. The recursion that `BodyDecodeMC` defines unfolds like this on all
of JSON; that such a recursion exists is what TLA+ takes a RECURSIVE definition to say,
and TLC evaluates the same definitions in the run `body`.

*BindLoopProofs*: `GateFirst`, `RawAgrees`, `BoundIsPrepared`, `RequiredBound`,
`ReceiverPolicy` and the action property `NullKept`, for every plan, every set of
values and texts, every meaning of the conversions and every number of binds. None
is inductive alone. What `RequiredBound` lets through is stated with it (`NullPasses`): the
null that a codec makes of a source that was counted, and the null of a map, with the strict
policy only if a codec made it. The invariant says, in layers, that nothing is bound before the
replay exists (`Before`); what `visit` has collected so far and which calls it has
still to finish (`Collecting`); that the loop passes the preflight first and that the
checkpoint lies exactly at its end (`Passing`, from which the count of passed
bindings at the checkpoint is that of the preflight); that null is only held by
what can hold it (`NullFits`, so that a second pass through `Fitted` changes nothing);
and what each binding has become (`Binding`): one the loop has not reached is as it
was (`Untried`), one it has passed was spared or holds what its source supplied
(`Attempted`), and one of the preflight after the checkpoint is what the capture
holds (`Settled`), for the gate may have changed it in between. `RawAgrees`,
`BoundIsPrepared` and `RequiredBound` are part of the invariant, because a later bind
starts from what an earlier one captured. `ReceiverPolicy` and `NullKept` follow
from it.

The constants are assumed to be what the code makes of them: an encoded value
decodes to itself, because `encodeField` compares (`RoundtripVerified`); the zero
value counts as empty; `rawSource` lies within `codec` (`rawBodyNullPolicy`, spec.go:205, asks for a
transformer); maps are nullable, and one that is counted counts as a single record
(`mapped`, `single`); a source without a type belongs to a codec, and not to one that
turns null into an empty record (`unsourced`; ValidateBodyNullPolicy, spec.go:196, refuses those); and
`rank` is injective, because stable sorts order any two bindings.

Only model-checked: every liveness property, because fairness and ENABLED are outside
the prover. Every other property of a passing run is a theorem. The violated runs are
refutations and have nothing to prove.

## 5. What disagrees with the code's own documentation

1. *A binding observer that panics in a default-mode group hangs Bind*
   (`concurrent_group_panic`). `resolution_group.go:366` locks the observation
   mutex, the call panics, and the deferred function of the same goroutine locks
   it again at line 298. `resolution_group_controller.go:74` speaks of an observer
   or panic failure as an outcome that is reported. The dependency mode recovers
   and unlocks.
2. *Two binds that share a cache can wait for each other forever*
   (`value_cache_cycle`). A bind keeps a key's mutex while the provider resolves
   other keys (`scope.go:442-444`) and looks for cycles in its own invocation
   only (408). Alone, each bind gets "cyclic binding dependency". The target type is part of
   the key (429, 432), so both binds must come to the two locations with the same types.
3. *AllowMissingRequired does not relax an absent required binding*
   (`bind_loop_missing`). README.md:206 says it "explicitly relaxes that policy";
   `scope.go:313` passes an absent value to `validateRecordCount`, whose last case
   (`record_count.go:89`) refuses a count of zero for a required binding, scalars
   included, because absent and null values are counted before their kind is
   looked at.

4. *`New` takes over the spill files of a form its caller has parsed*
   (`request_owner`). `provider/request/scope.go:168` compares the form's pointer with
   the clone's, but `http.Request.Clone` has copied the form, so Close removes the
   caller's files. `deferred.go:123` describes exactly this and restores the
   pointer; `New` does not.

Two more are in the model, and a property says what remains true:

- *Shallow copies.* `resolution_group.go:313` says that "Snapshot source lookups cannot race
  canonical field/marker publication". The publication mutex gives this for what a copy
  holds itself. Below a pointer that the target held before the group started, copies and
  target share what is there: a peer's publication shows in a snapshot made earlier, and a
  peer's scratch bind writes through the pointer with no mutex at all (scope.go:352).
  The dependency mode detaches the pointers first (`detachDependencyPath`). `CopiesCoherent`
  says that a value seen without its marker is of this kind, or of a member that failed to
  set the marker.
- *Null maps.* `validateRecordCount` counts a nil map as a map and not as no record
  (record_count.go:69-78), and `bind` makes one of a null before it counts (scope.go:343-348).
  So `Required` and the record limits let the null of a map binding pass where the strict
  policy has not refused it before the codec; under cardinality One it is one record.
  `RequiredBound` names these nulls (`NullPasses`) and holds for all others.

Three further places are in the model and excluded from a property. A replay "uses the
receiving binding's null policy" (README.md:171), but when the parent decodes the body
with a codec of raw JSON, `Replay.source` (replay.go:107) looks at the replayed binding
and drops the receiver's policy: a component that declares an empty record for null
reads null. `ReceiverPolicy` leaves that case out (`plan.codec \cap plan.rawSource`) and
fails without the exception. And a gate that writes null to a field that turns null
into an empty record leaves the raw null, which decodes to the record: the second case
of `RawAgrees`. And `capturePrepared` edits the raw text field by field and returns at
the first one it refuses (replay_binding.go:48), after a first capture with the old
prepared values in place: a field it came to has a text that its prepared value does
not follow from. The next capture that succeeds repairs that, except for a codec field
whose text was removed (replay_binding.go:30), for codec fields are never encoded
again. `torn` holds these fields; with three binds TLC finds `RawAgrees` violated
without it.

A known limit of the presence walk is in the model and excluded from the
property `MarksAuthored`: on the plain route (presence.go:134) a key that equals two
fields' names but for case marks both (`PlainTwins`: some struct has two such names, and
nothing below it that would send the walk down another route), and below a field that comes in
several spellings the walk descends with one of them in map order.

## 6. Not modelled

Reflection, tag syntax, conversions between Go types, JSON
lexing, built-in lookups in maps and structs, the registry's and the resource
store's maps, composed providers: data without concurrent state, or a map behind one
lock.
`PROJECT.json` has every component with its status. Within the modelled parts:

- cache: `Save` and `Load`; the pointers a cached value shares with its users;
- replay: nesting of replays (a projected replay is compared with its source once);
- bind loop: the entry points' options and the wrapping of errors; a target that
  has markers set before the bind;
- request scope: query, path, header and cookie lookups, a panic of the Body;
- body: multipart, text and registered other media types, the normalization of
  legacy dates, enumerations, arrays (a list is a slice), the representation of
  scalars; structology's decoder (external). A compilation `MarkPresence` makes on its way down is represented by
  the flags of the caller's own plan.

## 7. Plan

Done: the groups in both modes, their compilation and their bind, the scheduler,
the value cache, request scopes, body plans and decoding, the bind loop with
replay; proofs of the safety properties of all of them. What could follow:

1. Registry layers and composed providers: the search through a nested composition
   is the search through one list of layers.
2. One abstract specification of a bind (each binding at most once, verdict nil
   only with the required ones bound) that `GroupedBind` and `BindLoop` implement.
