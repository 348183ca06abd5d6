--------------------------- MODULE DependencyOrder ---------------------------
(***************************************************************************)
(* How a hydrate plan orders the components of a BOM                       *)
(* (pkg/distribution/hydrate/plan.go): the dependencies the BOM and the    *)
(* component packages declare are merged, then sorted topologically by a   *)
(* worklist that always takes the smallest ready name.  Every later pass   *)
(* (render, apply, rollback, health) walks the components in this order.   *)
(*                                                                         *)
(* A component is the rank of its name in string order.                    *)
(***************************************************************************)
EXTENDS Naturals, Sequences, FiniteSets

CONSTANTS
  Listed,         \* the packages of the BOM
  Unlisted,       \* names a package may depend on that the BOM lacks
  Declarations  \* the declared dependencies to consider

Want == {"none", "required", "optional", "mismatch"}
Declaration == [bom : [Listed -> SUBSET Listed],
                pkg : [Listed -> [Listed \cup Unlisted -> Want]]]

ASSUME NamesAssumption ==
    /\ Listed \subseteq Nat /\ IsFiniteSet(Listed)
    /\ Unlisted \cap Listed = {}
    /\ Declarations \subseteq Declaration

VARIABLES
  decl,      \* the BOM and the packages it resolves to
  deps,      \* dependenciesByComponent
  indegree,  \* dependencies of a component not yet in the order
  ready,     \* the worklist, kept sorted: a set and its least element
  order,     \* the components placed so far
  stage      \* "merge", "sort", "done", "missing", "version" or "cycle"

planVars == <<decl, deps, indegree, ready, order, stage>>

Emitted == {order[i] : i \in DOMAIN order}

-----------------------------------------------------------------------------
PlanInit ==
    /\ decl \in Declarations
    /\ deps = [c \in Listed |-> {}]
    /\ indegree = [c \in Listed |-> 0]
    /\ ready = {}
    /\ order = <<>>
    /\ stage = "merge"

\* A package dependency that refuses the plan.
Missing(c, n) == n \in Unlisted /\ decl.pkg[c][n] \in {"required", "mismatch"}
Mismatch(c, n) == n \in Listed /\ decl.pkg[c][n] = "mismatch"

Wanted(c) == {n \in Listed : decl.pkg[c][n] # "none"}
MergedPackageOnly(c) == Wanted(c) \ {c}
Merged(c) == (decl.bom[c] \cup Wanted(c)) \ {c}

\* The components are visited in map order: any failing one may be reported.
DependencyFails ==
    /\ stage = "merge"
    /\ \E c \in Listed, n \in Listed \cup Unlisted :
         \/ Missing(c, n) /\ stage' = "missing"
         \/ Mismatch(c, n) /\ stage' = "version"
    /\ UNCHANGED <<decl, deps, indegree, ready, order>>

BuildDependencySet ==
    /\ stage = "merge"
    /\ \A c \in Listed, n \in Listed \cup Unlisted :
         ~Missing(c, n) /\ ~Mismatch(c, n)
    /\ deps' = [c \in Listed |-> Merged(c)]
    /\ indegree' = [c \in Listed |-> Cardinality(Merged(c))]
    /\ ready' = {c \in Listed : Merged(c) = {}}
    /\ stage' = "sort"
    /\ UNCHANGED <<decl, order>>

Least(S) == CHOOSE s \in S : \A t \in S : s <= t
AnyReady(c) == c \in ready
LeastReady(c) == c \in ready /\ \A d \in ready : c <= d

\* Mutant: one dependency placed is enough.
RelaxedEarly(c) == [d \in Listed |->
                      IF c \in deps[d] THEN 0 ELSE indegree[d]]

\* A component leaves the worklist; its dependents have one dependency less,
\* and those with none left become ready.
Relaxed(c) == [d \in Listed |->
                 IF c \in deps[d] THEN indegree[d] - 1 ELSE indegree[d]]

Emit(c) ==
    /\ stage = "sort"
    /\ LeastReady(c)
    /\ order' = Append(order, c)
    /\ indegree' = Relaxed(c)
    /\ ready' = (ready \ {c})
                  \cup {d \in Listed : c \in deps[d] /\ indegree'[d] = 0}
    /\ UNCHANGED <<decl, deps, stage>>

FinishedAlways == "done"
Finished == IF Len(order) = Cardinality(Listed) THEN "done" ELSE "cycle"

Finish ==
    /\ stage = "sort"
    /\ ready = {}
    /\ stage' = Finished
    /\ UNCHANGED <<decl, deps, indegree, ready, order>>

PlanNext ==
    \/ DependencyFails
    \/ BuildDependencySet
    \/ \E c \in Listed : Emit(c)
    \/ Finish

PlanSpec == PlanInit /\ [][PlanNext]_planVars

-----------------------------------------------------------------------------
Stage == {"merge", "sort", "done", "missing", "version", "cycle"}

(***************************************************************************)
(* The worklist holds components, the order a sequence of them, and every  *)
(* degree is a number.                                                     *)
(***************************************************************************)
PlanTypeOK ==
    /\ decl \in Declaration
    /\ deps \in [Listed -> SUBSET Listed]
    /\ indegree \in [Listed -> Nat]
    /\ ready \subseteq Listed
    /\ order \in Seq(Listed)
    /\ stage \in Stage

(***************************************************************************)
(* A component is placed only once everything it depends on is placed:     *)
(* topoSortDependencies never applies a component before a dependency.     *)
(***************************************************************************)
DependenciesFirst ==
    \A i \in DOMAIN order : \A d \in deps[order[i]] :
        \E j \in DOMAIN order : j < i /\ order[j] = d

(***************************************************************************)
(* No component is placed twice, or placed and still waiting.              *)
(***************************************************************************)
PlacedOnce ==
    /\ \A i, j \in DOMAIN order : order[i] = order[j] => i = j
    /\ ready \cap Emitted = {}

(***************************************************************************)
(* The degree of a component counts exactly its unplaced dependencies, and *)
(* the worklist is exactly what could be placed next: decrementing one     *)
(* edge at a time never lets a component in early or forgets it.           *)
(***************************************************************************)
WorklistExact ==
    stage # "merge" /\ stage \notin {"missing", "version"} =>
        /\ \A c \in Listed :
             indegree[c] = Cardinality(deps[c] \ Emitted)
        /\ ready = {c \in Listed \ Emitted : deps[c] \subseteq Emitted}

(***************************************************************************)
(* A plan that is returned meets every requirement a package states, in    *)
(* the right version and before the package itself.                        *)
(***************************************************************************)
RequirementsMet ==
    stage = "done" =>
        /\ Emitted = Listed
        /\ \A c \in Listed, n \in Listed \cup Unlisted :
             /\ decl.pkg[c][n] = "required" => n \in Listed
             /\ n \in Listed => decl.pkg[c][n] # "mismatch"
             /\ n \in Listed \ {c}
                  /\ (decl.pkg[c][n] # "none" \/ n \in decl.bom[c]) =>
                  \E i, j \in DOMAIN order :
                      i < j /\ order[i] = n /\ order[j] = c

(***************************************************************************)
(* "component dependency cycle detected" is said of graphs with a cycle    *)
(* and of no others: some set of components wait for each other.           *)
(***************************************************************************)
Knot(S) == S # {} /\ \A c \in S : deps[c] \cap S # {}
CycleIsReal ==
    /\ stage = "cycle" => Knot(Listed \ Emitted)
    /\ stage = "done" => \A S \in SUBSET Listed : ~Knot(S)

(***************************************************************************)
(* The order is the same for every run: each place goes to the smallest    *)
(* name whose dependencies are placed, whatever order the maps were        *)
(* walked in, so a render of the same BOM gives the same bundle digest.    *)
(***************************************************************************)
Before(i) == {order[j] : j \in 1..(i - 1)}
OrderDetermined ==
    \A i \in DOMAIN order :
        order[i] = Least({c \in Listed \ Before(i) :
                            deps[c] \subseteq Before(i)})

(***************************************************************************)
(* Every graph: placed once, its requirements met, a cycle only where one  *)
(* is, and the same order whatever way the declarations are walked.        *)
(***************************************************************************)
PlanSound == PlanTypeOK /\ PlacedOnce /\ RequirementsMet /\ CycleIsReal /\ OrderDetermined
=============================================================================
