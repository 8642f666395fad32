----------------------------- MODULE Projection ------------------------------
(***************************************************************************)
(* The names of a plan's fields: Plan.Projection turns the target's        *)
(* fields, the paths and names of the bindings, explicit aliases and the   *)
(* places values come from into one table, or refuses.  One action is one  *)
(* iteration of a loop.                                                    *)
(*                                                                         *)
(* Param bindings and ReplayPlan.Prepare read names through this table;    *)
(* barriers and prerequisites are found by the one of GroupPlan.  Names    *)
(* are folded to lower case already.                                       *)
(***************************************************************************)
EXTENDS Naturals, Sequences, SequencesExt

CONSTANTS
  Targets,  \* sets of exported fields; the name of a field is its path
  Aliases   \* explicit aliases in sequence, <<name, path>>, each path first for itself

VARIABLES
  decl,    \* the bindings of the plan: path, alias, in, param and what groups need
  fields, aliases, \* what the plan is projected for
  state,   \* "unnamed", then "names", then "projected" or "refused"
  paths,   \* the table: name -> path
  claimed, \* how many declared names were added
  located, \* how many bindings the loop over the places is past
  places, shared   \* transport, ambiguous

progress == <<claimed, located, places, shared>>

Init ==
  /\ fields = {} /\ aliases = << >>
  /\ state = "unnamed" /\ paths = << >>
  /\ claimed = 0 /\ located = 0 /\ places = << >> /\ shared = {}

-----------------------------------------------------------------------------
\* A compiled plan is asked for its projection with further names; the fields of
\* the target come first.
Ask ==
  /\ state = "unnamed" /\ state' = "names"
  /\ fields' \in Targets /\ aliases' \in Aliases
  /\ paths' = [f \in fields' |-> f]
  /\ UNCHANGED <<decl, progress>>

With(table, n, p) == [m \in DOMAIN table \cup {n} |-> IF m = n THEN p ELSE table[m]]

\* The names that are declared, in the order of the loops: each binding's path
\* and name, then the aliases.
Declared ==
  [k \in 1..(2 * Len(decl)) |->
     LET b == decl[(k + 1) \div 2] IN <<IF k % 2 = 1 THEN b.path ELSE b.alias, b.path>>] \o aliases

\* MUTANT of Contradicts: the last one to claim a name gets it.
ContradictsNever(n, p) == FALSE

\* add: a field keeps its own name; another name may not mean two paths.
Contradicts(n, p) == n \in DOMAIN paths \ fields /\ paths[n] # p

AddName ==
  /\ state = "names" /\ claimed < Len(Declared) /\ claimed' = claimed + 1
  /\ LET n == Declared[claimed'][1]
         p == Declared[claimed'][2]
     IN  IF n \in fields \cup {""} THEN UNCHANGED <<state, paths>>
         ELSE IF Contradicts(n, p) THEN state' = "refused" /\ UNCHANGED paths
         ELSE paths' = With(paths, n, p) /\ UNCHANGED state
  /\ UNCHANGED <<decl, fields, aliases, located, places, shared>>

\* The place a binding takes its value from is a name, unless it is a parameter.
Locate ==
  /\ state = "names" /\ claimed = Len(Declared)
  /\ located < Len(decl) /\ located' = located + 1
  /\ LET b == decl[located']
     IN  IF b.param \/ b.in = "" THEN UNCHANGED <<places, shared>>
         ELSE /\ places' = With(places, b.in, b.path)
              /\ shared' = shared \cup {n \in {b.in} \cap DOMAIN places : places[n] # b.path}
  /\ UNCHANGED <<decl, fields, aliases, state, paths, claimed>>

\* MUTANT of Inferred: of several places with one name the last one counts.
InferredLast == DOMAIN places \ DOMAIN paths

\* The name of a place becomes a name of the field if nothing declared it and
\* only one binding takes its value from there.
Inferred == DOMAIN places \ (DOMAIN paths \cup shared)

Infer ==
  /\ state = "names" /\ claimed = Len(Declared) /\ located = Len(decl)
  /\ paths' = [n \in DOMAIN paths \cup Inferred |->
                 IF n \in DOMAIN paths THEN paths[n] ELSE places[n]]
  /\ state' = "projected"
  /\ UNCHANGED <<decl, fields, aliases, progress>>

Project == Ask \/ AddName \/ Locate \/ Infer

-----------------------------------------------------------------------------
(* Properties.                                                             *)

\* What the bindings and aliases say, as sets: who claims which name, and where
\* values come from.
Claims ==
  (UNION {{<<b.path, b.path>>, <<b.alias, b.path>>} : b \in ToSet(decl)}) \cup ToSet(aliases)

Names == (fields \cup {c[1] : c \in Claims}) \ {""}

Meanings(n) == IF n \in fields THEN {n} ELSE {c[2] : c \in {d \in Claims : d[1] = n}}

Sources(n) == {b.path : b \in {a \in ToSet(decl) : ~a.param /\ a.in = n}}

\* "so provider order cannot choose a winner" (projection.go): the table is a
\* function of what is declared, as a set.  It is refused exactly when a declared
\* name means two fields; else every declared name means its field, and the name of
\* a place the one field that takes its value from there, if there is one only.
OrderFree ==
  /\ state = "refused" => \E n \in Names : \E p, q \in Meanings(n) : p # q
  /\ state = "projected" =>
       /\ \A n \in Names : n \in DOMAIN paths /\ Meanings(n) = {paths[n]}
       /\ \A n \in DOMAIN paths \ Names : n # "" /\ Sources(n) = {paths[n]}
       /\ \A b \in ToSet(decl) :
            b.in # "" /\ Sources(b.in) = {b.path} => b.in \in DOMAIN paths
=============================================================================
