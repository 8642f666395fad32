----------------------------- MODULE PlannedBind -----------------------------
(***************************************************************************)
(* A plan with resolution groups from its declaration to the end of a      *)
(* bind: GroupPlan compiles the declared bindings, Projection names their  *)
(* fields, and a plan that is accepted is what GroupedBind executes.       *)
(***************************************************************************)
EXTENDS GroupedBind

CONSTANTS
  Declarations,    \* the sequences of bindings to compile
  Named,           \* further ones, without groups, whose projection is asked for
  Ungrouped,       \* see GroupPlan
  Targets, Aliases \* see Projection

\* What CompilePlan establishes before it compiles groups: no two bindings have the
\* same path, and a path has fields.  Only a grouped binding has an After or a
\* DependsOn.
DeclarationOf(d) ==
  /\ d \in Seq(ToSet(d))
  /\ \A i, j \in DOMAIN d : d[i].path = d[j].path => i = j
  /\ \A i \in DOMAIN d :
       /\ d[i].path # "" /\ d[i].fields # {} /\ d[i].priority \in Nat
       /\ d[i].mode \in {"concurrent", "dependencies"}
       /\ d[i].after \in Seq(ToSet(d[i].after)) /\ d[i].dependsOn \in Seq(ToSet(d[i].dependsOn))

ASSUME DeclarationsAssumption ==
  (\A d \in Declarations : DeclarationOf(d)) /\ (\A d \in Named : DeclarationOf(d))

ASSUME NamesAssumption ==
  /\ \A F \in Targets : "" \notin F
  /\ \A s \in Aliases : s \in Seq(ToSet(s)) /\ \A k \in DOMAIN s : s[k] = <<s[k][1], s[k][2]>>

VARIABLES
  decl, verdict, groups, past, current, tried, calls, tries, visiting, visited,
  fields, aliases, state, paths, claimed, located, places, shared

Compiler == INSTANCE GroupPlan
Naming == INSTANCE Projection

compiledVars == <<verdict, groups, past, current, tried, calls, tries, visiting, visited>>
namingVars == <<fields, aliases, state, paths, claimed, located, places, shared>>
allVars == <<vars, decl, compiledVars, namingVars>>

\* The plan that binds declaration d, with its compiled groups.
Linked(d, compiled) ==
  [ size |-> Len(d),
    groups |-> [k \in DOMAIN compiled |->
                  [ mode |-> compiled[k].mode, after |-> compiled[k].after,
                    members |-> ToSet(compiled[k].members) ]],
    priority |-> [i \in DOMAIN d |-> d[i].priority],
    path |-> [i \in DOMAIN d |-> d[i].fields],
    marker |-> [i \in DOMAIN d |-> d[i].marker] ]

PlannedInit ==
  /\ decl \in Declarations \/ decl \in Named
  /\ Compiler!Init /\ Naming!Init
  /\ plan = Linked(<< >>, << >>)
  /\ invocation = {} /\ selection = << >>
  /\ pc = "compile" /\ phase = "seeds" /\ at = 1
  /\ batch = {} /\ todo = {} /\ completed = {}
  /\ times = << >> /\ writer = << >>

\* Every bind of a compiled plan; of the declarations those in Plans are bound.
Invoke ==
  /\ pc = "compile" /\ verdict = "ok"
  /\ Linked(decl, groups) \in Plans
  /\ plan' = Linked(decl, groups)
  /\ invocation' \in Invocations /\ selection' \in Selections
  /\ pc' = "prepare"
  /\ times' = [b \in BindingsOf(plan') |-> 0]
  /\ writer' = [c \in Fields(plan') |-> 0]
  /\ UNCHANGED <<phase, at, batch, todo, completed, decl, compiledVars, namingVars>>

\* Plan.Projection, here of plans without groups; it reads none.
Name ==
  /\ pc = "compile" /\ verdict = "ok" /\ groups = << >>
  /\ Naming!Project
  /\ UNCHANGED <<vars, compiledVars>>

Settled ==
  /\ pc = "compile"
  /\ \/ verdict = "refused"
     \/ state \in {"projected", "refused"}
     \/ verdict = "ok" /\ groups # << >> /\ Linked(decl, groups) \notin Plans
  /\ UNCHANGED allVars

PlannedNext ==
  \/ Compiler!Compile /\ UNCHANGED <<vars, namingVars>>
  \/ Name
  \/ Invoke
  \/ pc # "compile" /\ Next /\ UNCHANGED <<decl, compiledVars, namingVars>>
  \/ Settled

PlannedSpec == PlannedInit /\ [][PlannedNext]_allVars

\* What GroupPlan promises of its compilations and Projection of its tables, see
\* there; a bind changes neither.
CompilesWellFormed == pc = "compile" => Compiler!CompilesWellFormed
OrderFree == pc = "compile" => Naming!OrderFree
=============================================================================
