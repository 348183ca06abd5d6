--------------------------- MODULE Execution_proofs ---------------------------
(***************************************************************************)
(* Proofs about a plan and its execution: the order of the components of a *)
(* plan is topological for every BOM, and the execution of the components  *)
(* on the hosts is sound for any hosts, components and strategy.           *)
(***************************************************************************)
EXTENDS DependencyOrder, Rollout, FiniteSetTheorems, SequenceTheorems, TLAPS

-----------------------------------------------------------------------------
(* The plan *)

(***************************************************************************)
(* Every set of components has a size.                                     *)
(***************************************************************************)
LEMMA Sizes ==
    ASSUME NEW S \in SUBSET Listed
    PROVE  /\ IsFiniteSet(S)
           /\ Cardinality(S) \in Nat
           /\ Cardinality(S) = 0 <=> S = {}
           /\ \A c \in S : Cardinality(S \ {c}) = Cardinality(S) - 1
<1>1. IsFiniteSet(S) BY NamesAssumption, FS_Subset
<1>2. Cardinality(S) \in Nat BY <1>1, FS_CardinalityType
<1>3. Cardinality(S) = 0 <=> S = {} BY <1>1, FS_EmptySet
<1>4. \A c \in S : Cardinality(S \ {c}) = Cardinality(S) - 1
  BY <1>1, FS_RemoveElement
<1> QED BY <1>1, <1>2, <1>3, <1>4

(***************************************************************************)
(* Before the merge nothing is placed and nothing waits.                   *)
(***************************************************************************)
NothingPlaced ==
    stage \in {"merge", "missing", "version"} => order = <<>> /\ ready = {}

OrderInv ==
    /\ PlanTypeOK
    /\ NothingPlaced
    /\ WorklistExact
    /\ PlacedOnce
    /\ DependenciesFirst

(***************************************************************************)
(* Placing a component adds it, and nothing else, to what is placed.       *)
(***************************************************************************)
LEMMA Placing ==
    ASSUME order \in Seq(Listed), NEW c \in Listed,
           order' = Append(order, c)
    PROVE  /\ order' \in Seq(Listed)
           /\ Emitted' = Emitted \cup {c}
           /\ Len(order') = Len(order) + 1
           /\ DOMAIN order' = DOMAIN order \cup {Len(order) + 1}
           /\ \A i \in DOMAIN order : order'[i] = order[i]
           /\ order'[Len(order) + 1] = c
<1>1. /\ order' \in Seq(Listed)
      /\ Len(order') = Len(order) + 1
      /\ DOMAIN order' = DOMAIN order \cup {Len(order) + 1}
      /\ \A i \in DOMAIN order : order'[i] = order[i]
      /\ order'[Len(order) + 1] = c
  OBVIOUS
<1>2. Emitted' = Emitted \cup {c} BY <1>1 DEF Emitted
<1> QED BY <1>1, <1>2

(***************************************************************************)
(* Nothing is placed at the start.                                         *)
(***************************************************************************)
LEMMA InitOrder == PlanInit => OrderInv
BY NamesAssumption DEF PlanInit, OrderInv, PlanTypeOK, NothingPlaced, WorklistExact,
   PlacedOnce, DependenciesFirst, Stage, Emitted

(***************************************************************************)
(* The merge sets every degree to the number of dependencies and makes     *)
(* ready the components without any.                                       *)
(***************************************************************************)
LEMMA MergeStep ==
    ASSUME OrderInv, BuildDependencySet
    PROVE  OrderInv'
<1>1. order = <<>> /\ order' = <<>> /\ stage' = "sort" /\ decl' = decl
  BY DEF OrderInv, NothingPlaced, BuildDependencySet
<1>2. \A c \in Listed : Merged(c) \in SUBSET Listed
  BY DEF OrderInv, PlanTypeOK, Declaration, Merged, Wanted
<1>3. \A c \in Listed : Cardinality(Merged(c)) \in Nat
  BY <1>2, Sizes
<1>4. PlanTypeOK'
  BY <1>1, <1>2, <1>3 DEF OrderInv, PlanTypeOK, BuildDependencySet, Stage
<1>5. Emitted' = {} BY <1>1 DEF Emitted
<1>6. WorklistExact'
  <2>1. \A c \in Listed : deps'[c] = Merged(c)
    BY DEF BuildDependencySet
  <2>2. \A c \in Listed :
          indegree'[c] = Cardinality(deps'[c] \ Emitted')
    <3>1. \A c \in Listed : deps'[c] \ Emitted' = Merged(c)
      BY <1>5, <2>1
    <3> QED BY <3>1 DEF BuildDependencySet
  <2>3. ready' = {c \in Listed \ Emitted' : deps'[c] \subseteq Emitted'}
    BY <1>5, <2>1 DEF BuildDependencySet
  <2> QED BY <2>2, <2>3 DEF WorklistExact
<1>7. PlacedOnce' BY <1>1, <1>5 DEF PlacedOnce
<1>8. DependenciesFirst' BY <1>1 DEF DependenciesFirst
<1>9. NothingPlaced' BY <1>1 DEF NothingPlaced
<1> QED BY <1>4, <1>6, <1>7, <1>8, <1>9 DEF OrderInv

(***************************************************************************)
(* Placing a ready component keeps the worklist exact.                     *)
(***************************************************************************)
LEMMA EmitStep ==
    ASSUME OrderInv, NEW c \in Listed, Emit(c)
    PROVE  OrderInv'
<1>1. /\ stage = "sort" /\ stage' = "sort"
      /\ decl' = decl /\ deps' = deps
      /\ c \in ready /\ order' = Append(order, c)
      /\ indegree' = Relaxed(c)
      /\ ready' = (ready \ {c})
            \cup {d \in Listed : c \in deps[d] /\ indegree'[d] = 0}
  BY DEF Emit, LeastReady
<1>2. /\ PlanTypeOK
      /\ \A d \in Listed : indegree[d] = Cardinality(deps[d] \ Emitted)
      /\ ready = {d \in Listed \ Emitted : deps[d] \subseteq Emitted}
  BY <1>1 DEF OrderInv, WorklistExact
<1>3. c \notin Emitted /\ deps[c] \subseteq Emitted BY <1>1, <1>2
<1>4. /\ order' \in Seq(Listed)
      /\ Emitted' = Emitted \cup {c}
      /\ Len(order') = Len(order) + 1
      /\ DOMAIN order' = DOMAIN order \cup {Len(order) + 1}
      /\ \A i \in DOMAIN order : order'[i] = order[i]
      /\ order'[Len(order) + 1] = c
  BY <1>1, <1>2, Placing DEF PlanTypeOK
<1>5. \A d \in Listed :
        /\ indegree'[d] \in Nat
        /\ indegree'[d] = Cardinality(deps[d] \ Emitted')
  <2> SUFFICES ASSUME NEW d \in Listed
               PROVE  /\ indegree'[d] \in Nat
                      /\ indegree'[d] = Cardinality(deps[d] \ Emitted')
    OBVIOUS
  <2> DEFINE Left == deps[d] \ Emitted
  <2>1. Left \in SUBSET Listed BY <1>2 DEF PlanTypeOK
  <2>2. indegree[d] = Cardinality(Left) BY <1>2
  <2>3. deps[d] \ Emitted' = Left \ {c} BY <1>4
  <2>4. indegree'[d] = IF c \in deps[d] THEN indegree[d] - 1 ELSE indegree[d]
    BY <1>1 DEF Relaxed
  <2>5. CASE c \in deps[d]
    <3>1. c \in Left BY <2>5, <1>3
    <3>2. /\ Cardinality(Left) \in Nat
          /\ Cardinality(Left \ {c}) = Cardinality(Left) - 1
      BY <2>1, <3>1, Sizes
    <3>3. Left \ {c} \in SUBSET Listed BY <2>1
    <3>4. Cardinality(Left \ {c}) \in Nat BY <3>3, Sizes
    <3> HIDE DEF Left
    <3> QED BY <2>2, <2>3, <2>4, <2>5, <3>2, <3>4
  <2>6. CASE c \notin deps[d]
    <3>1. Left \ {c} = Left BY <2>6
    <3>2. Cardinality(Left) \in Nat BY <2>1, Sizes
    <3> HIDE DEF Left
    <3> QED BY <2>2, <2>3, <2>4, <2>6, <3>1, <3>2
  <2> QED BY <2>5, <2>6
<1>6. indegree' \in [Listed -> Nat]
  <2>1. indegree' = [d \in Listed |-> indegree'[d]]
    BY <1>1 DEF Relaxed
  <2> QED BY <2>1, <1>5
<1>7. PlanTypeOK'
  BY <1>1, <1>2, <1>4, <1>6 DEF PlanTypeOK
<1>8. ready' = {d \in Listed \ Emitted' : deps[d] \subseteq Emitted'}
  <2>1. ASSUME NEW d \in Listed
        PROVE  indegree'[d] = 0 <=> deps[d] \subseteq Emitted'
    <3>1. deps[d] \ Emitted' \in SUBSET Listed BY <1>2 DEF PlanTypeOK
    <3>2. Cardinality(deps[d] \ Emitted') = 0 <=> deps[d] \ Emitted' = {}
      BY <3>1, Sizes
    <3> QED BY <1>5, <3>2
  <2>2. ASSUME NEW d \in Listed, c \in deps[d], deps[d] \subseteq Emitted'
        PROVE  d \notin Emitted'
    <3>1. \A e \in Emitted : deps[e] \subseteq Emitted
      BY DEF OrderInv, DependenciesFirst, Emitted
    <3>2. d \notin Emitted BY <2>2, <3>1, <1>3
    <3>3. d # c BY <2>2, <1>3
    <3> QED BY <1>4, <3>2, <3>3
  <2> QED BY <1>1, <1>2, <1>3, <1>4, <2>1, <2>2
<1>9. WorklistExact' BY <1>1, <1>5, <1>8 DEF WorklistExact
<1>10. PlacedOnce'
  <2>1. \A i \in DOMAIN order : order[i] # c BY <1>3 DEF Emitted
  <2>2. \A i, j \in DOMAIN order' : order'[i] = order'[j] => i = j
    BY <2>1, <1>4 DEF OrderInv, PlacedOnce
  <2> QED BY <2>2, <1>8 DEF PlacedOnce
<1>11. DependenciesFirst'
  <2> SUFFICES ASSUME NEW i \in DOMAIN order', NEW d \in deps[order'[i]]
               PROVE  \E j \in DOMAIN order' : j < i /\ order'[j] = d
    BY <1>1 DEF DependenciesFirst
  <2>1. CASE i \in DOMAIN order
    BY <2>1, <1>4 DEF OrderInv, DependenciesFirst
  <2>2. CASE i = Len(order) + 1
    <3>1. d \in Emitted BY <2>2, <1>3, <1>4
    <3>2. PICK j \in DOMAIN order : order[j] = d BY <3>1 DEF Emitted
    <3>3. j < i BY <2>2, <1>2, <3>2 DEF PlanTypeOK
    <3> QED BY <1>4, <3>2, <3>3
  <2> QED BY <1>4, <2>1, <2>2
<1>12. NothingPlaced' BY <1>1 DEF NothingPlaced
<1> QED BY <1>7, <1>9, <1>10, <1>11, <1>12 DEF OrderInv

(***************************************************************************)
(* Every step keeps the invariant.                                         *)
(***************************************************************************)
LEMMA NextOrder == OrderInv /\ [PlanNext]_planVars => OrderInv'
<1> SUFFICES ASSUME OrderInv, [PlanNext]_planVars PROVE OrderInv'
  OBVIOUS
<1>1. CASE DependencyFails
  BY <1>1 DEF DependencyFails, OrderInv, PlanTypeOK, NothingPlaced, WorklistExact,
     PlacedOnce, DependenciesFirst, Stage, Emitted
<1>2. CASE BuildDependencySet BY <1>2, MergeStep
<1>3. CASE \E c \in Listed : Emit(c) BY <1>3, EmitStep
<1>4. CASE Finish
  <2>1. stage = "sort" /\ stage' \in {"done", "cycle"}
    BY <1>4 DEF Finish, Finished
  <2> QED
    BY <1>4, <2>1 DEF Finish, OrderInv, PlanTypeOK, NothingPlaced, WorklistExact,
       PlacedOnce, DependenciesFirst, Stage, Emitted
<1>5. CASE UNCHANGED planVars
  BY <1>5 DEF planVars, OrderInv, PlanTypeOK, NothingPlaced, WorklistExact,
     PlacedOnce, DependenciesFirst, Emitted
<1> QED BY <1>1, <1>2, <1>3, <1>4, <1>5 DEF PlanNext

(***************************************************************************)
(* The worklist of topoSortDependencies is always exact and places no      *)
(* component twice, for every BOM.                                         *)
(***************************************************************************)
THEOREM OrderInvariant == PlanSpec => [](PlanTypeOK /\ WorklistExact /\ PlacedOnce)
<1>1. OrderInv => PlanTypeOK /\ WorklistExact /\ PlacedOnce BY DEF OrderInv
<1> QED BY InitOrder, NextOrder, <1>1, PTL DEF PlanSpec

(***************************************************************************)
(* No component is placed, and so none rendered or applied, before         *)
(* everything it depends on.                                               *)
(***************************************************************************)
THEOREM DependenciesFirstHolds == PlanSpec => []DependenciesFirst
<1>1. OrderInv => DependenciesFirst BY DEF OrderInv
<1> QED BY InitOrder, NextOrder, <1>1, PTL DEF PlanSpec

-----------------------------------------------------------------------------
(***************************************************************************)
(* What the order says of the declarations.  The dependencies sorted are   *)
(* the merged ones and none of them refuses the plan; the verdict compares *)
(* the number of places with the number of components, so the number of    *)
(* places must count what is placed; and a set of components that wait for *)
(* each other never has a member placed.                                   *)
(***************************************************************************)
Sorting == stage \in {"sort", "done", "cycle"}

MergedInv ==
    Sorting =>
        /\ deps = [c \in Listed |-> Merged(c)]
        /\ \A c \in Listed, n \in Listed \cup Unlisted :
             ~Missing(c, n) /\ ~Mismatch(c, n)

VerdictInv == stage \in {"done", "cycle"} => ready = {} /\ stage = Finished

KnotInv == Sorting => \A S \in SUBSET Listed : Knot(S) => S \cap Emitted = {}

PlanInv ==
    /\ OrderInv
    /\ MergedInv
    /\ VerdictInv
    /\ Len(order) = Cardinality(Emitted)
    /\ KnotInv
    /\ OrderDetermined

(***************************************************************************)
(* The least element of a set of ranks is the one below all the others.    *)
(***************************************************************************)
LEMMA LeastIs ==
    ASSUME NEW S \in SUBSET Listed, NEW c \in S, \A d \in S : c <= d
    PROVE  Least(S) = c
<1>1. S \subseteq Nat BY NamesAssumption
<1>2. \A e \in S : (\A d \in S : e <= d) => e = c
  BY <1>1
<1> QED BY <1>2 DEF Least

(***************************************************************************)
(* What is placed is a set of components.                                  *)
(***************************************************************************)
LEMMA PlacedComponents ==
    ASSUME PlanTypeOK
    PROVE  /\ Emitted \in SUBSET Listed
           /\ IsFiniteSet(Emitted)
           /\ Before(Len(order) + 1) = Emitted
           /\ DOMAIN order = 1..Len(order)
           /\ Len(order) \in Nat
<1>1. order \in Seq(Listed) BY DEF PlanTypeOK
<1>2. /\ DOMAIN order = 1..Len(order) /\ Len(order) \in Nat
      /\ \A i \in DOMAIN order : order[i] \in Listed
  BY <1>1
<1>3. Emitted \in SUBSET Listed BY <1>2 DEF Emitted
<1>4. IsFiniteSet(Emitted) BY <1>3, Sizes
<1>5. (Len(order) + 1) - 1 = Len(order) BY <1>2
<1>6. Before(Len(order) + 1) = Emitted BY <1>2, <1>5 DEF Before, Emitted
<1> QED BY <1>2, <1>3, <1>4, <1>6

(***************************************************************************)
(* Nothing is placed at the start.                                         *)
(***************************************************************************)
LEMMA InitPlan == PlanInit => PlanInv
<1> SUFFICES ASSUME PlanInit PROVE PlanInv
  OBVIOUS
<1>1. OrderInv BY InitOrder
<1>2. order = <<>> /\ stage = "merge" BY DEF PlanInit
<1>3. Emitted = {} BY <1>2 DEF Emitted
<1>4. Len(order) = Cardinality(Emitted) BY <1>2, <1>3, FS_EmptySet
<1>5. MergedInv /\ VerdictInv /\ KnotInv /\ OrderDetermined
  BY <1>2 DEF Sorting, MergedInv, VerdictInv, KnotInv, OrderDetermined
<1> QED BY <1>1, <1>4, <1>5 DEF PlanInv

(***************************************************************************)
(* The merge starts the sort with nothing placed.                          *)
(***************************************************************************)
LEMMA MergePlan ==
    ASSUME PlanInv, BuildDependencySet, OrderInv'
    PROVE  PlanInv'
<1>1. order = <<>> /\ order' = <<>> /\ stage' = "sort" /\ decl' = decl
  BY DEF PlanInv, OrderInv, NothingPlaced, BuildDependencySet
<1>2. Emitted' = {} BY <1>1 DEF Emitted
<1>3. (Len(order) = Cardinality(Emitted))' BY <1>1, <1>2, FS_EmptySet
<1>4. MergedInv'
  BY <1>1 DEF MergedInv, BuildDependencySet, Merged, Wanted, Missing, Mismatch
<1>5. VerdictInv' BY <1>1 DEF VerdictInv
<1>6. KnotInv' BY <1>2 DEF KnotInv
<1>7. OrderDetermined' BY <1>1 DEF OrderDetermined
<1> QED BY <1>3, <1>4, <1>5, <1>6, <1>7 DEF PlanInv

(***************************************************************************)
(* A component that is placed had nothing left to wait for: it is in no    *)
(* knot, and it is the least of those that could be placed.                *)
(***************************************************************************)
LEMMA EmitPlan ==
    ASSUME PlanInv, NEW c \in Listed, Emit(c), OrderInv'
    PROVE  PlanInv'
<1>1. /\ stage = "sort" /\ stage' = "sort"
      /\ decl' = decl /\ deps' = deps
      /\ c \in ready /\ (\A d \in ready : c <= d)
      /\ order' = Append(order, c)
  BY DEF Emit, LeastReady
<1>2. /\ PlanTypeOK
      /\ ready = {d \in Listed \ Emitted : deps[d] \subseteq Emitted}
  BY <1>1 DEF PlanInv, OrderInv, WorklistExact
<1>3. c \notin Emitted /\ deps[c] \subseteq Emitted BY <1>1, <1>2
<1>4. /\ Emitted' = Emitted \cup {c}
      /\ Len(order') = Len(order) + 1
      /\ DOMAIN order' = DOMAIN order \cup {Len(order) + 1}
      /\ \A i \in DOMAIN order : order'[i] = order[i]
      /\ order'[Len(order) + 1] = c
  BY <1>1, <1>2, Placing DEF PlanTypeOK
<1>5. /\ Emitted \in SUBSET Listed
      /\ IsFiniteSet(Emitted)
      /\ Before(Len(order) + 1) = Emitted
      /\ DOMAIN order = 1..Len(order)
      /\ Len(order) \in Nat
  BY <1>2, PlacedComponents
<1>6. (Len(order) = Cardinality(Emitted))'
  <2>1. Cardinality(Emitted \cup {c}) = Cardinality(Emitted) + 1
    BY <1>3, <1>5, FS_AddElement
  <2>2. Len(order) = Cardinality(Emitted) BY DEF PlanInv
  <2> QED BY <1>4, <2>1, <2>2
<1>7. MergedInv'
  BY <1>1 DEF PlanInv, MergedInv, Sorting, Merged, Wanted, Missing, Mismatch
<1>8. VerdictInv' BY <1>1 DEF VerdictInv
<1>9. KnotInv'
  <2> SUFFICES ASSUME NEW S \in SUBSET Listed, Knot(S)'
               PROVE  S \cap Emitted' = {}
    BY DEF KnotInv
  <2>1. Knot(S) BY <1>1 DEF Knot
  <2>2. S \cap Emitted = {} BY <1>1, <2>1 DEF PlanInv, KnotInv, Sorting
  <2>3. c \notin S BY <1>3, <2>1, <2>2 DEF Knot
  <2> QED BY <1>4, <2>2, <2>3
<1>10. OrderDetermined'
  <2> SUFFICES ASSUME NEW i \in DOMAIN order'
               PROVE  order'[i] = Least({d \in Listed \ Before(i)' :
                                           deps[d] \subseteq Before(i)'})
    BY <1>1 DEF OrderDetermined
  <2>1. Before(i)' = Before(i)
    <3>1. \A j \in 1..(i - 1) : order'[j] = order[j] BY <1>4, <1>5
    <3> QED BY <3>1 DEF Before
  <2>2. CASE i \in DOMAIN order
    BY <1>4, <2>1, <2>2 DEF PlanInv, OrderDetermined
  <2>3. CASE i = Len(order) + 1
    <3>1. {d \in Listed \ Before(i)' : deps[d] \subseteq Before(i)'} = ready
      BY <1>2, <1>5, <2>1, <2>3
    <3>2. ready \in SUBSET Listed BY <1>2 DEF PlanTypeOK
    <3>3. Least(ready) = c BY <1>1, <3>2, LeastIs
    <3> QED BY <1>4, <2>3, <3>1, <3>3
  <2> QED BY <1>4, <2>2, <2>3
<1> QED BY <1>6, <1>7, <1>8, <1>9, <1>10 DEF PlanInv

(***************************************************************************)
(* Every step keeps the invariant of the plan.                             *)
(***************************************************************************)
LEMMA NextPlan == PlanInv /\ [PlanNext]_planVars => PlanInv'
<1> SUFFICES ASSUME PlanInv, [PlanNext]_planVars PROVE PlanInv'
  OBVIOUS
<1>1. OrderInv' BY NextOrder DEF PlanInv
<1>2. CASE DependencyFails
  <2>1. /\ stage' \in {"missing", "version"}
        /\ order' = order /\ deps' = deps
    BY <1>2 DEF DependencyFails
  <2>2. MergedInv' /\ VerdictInv' /\ KnotInv'
    BY <2>1 DEF MergedInv, VerdictInv, KnotInv, Sorting
  <2>3. (Len(order) = Cardinality(Emitted))' /\ OrderDetermined'
    <3>1. Emitted' = Emitted /\ \A i : Before(i)' = Before(i)
      BY <2>1 DEF Emitted, Before
    <3>2. OrderDetermined'
      BY <2>1, <3>1 DEF PlanInv, OrderDetermined
    <3> QED BY <2>1, <3>1, <3>2 DEF PlanInv
  <2> QED BY <1>1, <2>2, <2>3 DEF PlanInv
<1>3. CASE BuildDependencySet BY <1>1, <1>3, MergePlan
<1>4. CASE \E c \in Listed : Emit(c) BY <1>1, <1>4, EmitPlan
<1>5. CASE Finish
  <2>1. /\ stage = "sort" /\ stage' = Finished /\ stage' \in {"done", "cycle"}
        /\ ready = {} /\ ready' = ready /\ order' = order
        /\ deps' = deps /\ decl' = decl
    BY <1>5 DEF Finish, Finished
  <2>2. VerdictInv'
    <3>1. Finished' = Finished BY <2>1 DEF Finished
    <3> QED BY <2>1, <3>1 DEF VerdictInv
  <2>3. MergedInv'
    BY <2>1 DEF PlanInv, MergedInv, Sorting, Merged, Wanted, Missing, Mismatch
  <2>4. KnotInv' BY <2>1 DEF PlanInv, KnotInv, Sorting, Knot, Emitted
  <2>5. (Len(order) = Cardinality(Emitted))' /\ OrderDetermined'
    BY <2>1 DEF PlanInv, Emitted, OrderDetermined, Before
  <2> QED BY <1>1, <2>2, <2>3, <2>4, <2>5 DEF PlanInv
<1>6. CASE UNCHANGED planVars
  <2>1. MergedInv' /\ VerdictInv' /\ KnotInv'
    BY <1>6 DEF planVars, PlanInv, MergedInv, VerdictInv, KnotInv, Sorting, Knot,
       Merged, Wanted, Missing, Mismatch, Finished, Emitted
  <2>2. (Len(order) = Cardinality(Emitted))' /\ OrderDetermined'
    <3>1. order' = order /\ deps' = deps BY <1>6 DEF planVars
    <3> QED BY <3>1 DEF PlanInv, Emitted, OrderDetermined, Before
  <2> QED BY <1>1, <2>1, <2>2 DEF PlanInv
<1> QED BY <1>2, <1>3, <1>4, <1>5, <1>6 DEF PlanNext

(***************************************************************************)
(* A plan that is returned places every component.                         *)
(***************************************************************************)
LEMMA DoneIsAll ==
    ASSUME PlanInv
    PROVE  stage \in {"done", "cycle"} => (stage = "done" <=> Emitted = Listed)
<1> SUFFICES ASSUME stage \in {"done", "cycle"}
             PROVE  stage = "done" <=> Emitted = Listed
  OBVIOUS
<1>1. stage = "done" <=> Len(order) = Cardinality(Listed)
  BY DEF PlanInv, VerdictInv, Finished
<1>2. Emitted \in SUBSET Listed
  BY PlacedComponents DEF PlanInv, OrderInv
<1>3. Cardinality(Listed) = Cardinality(Emitted) => Listed = Emitted
  BY <1>2, NamesAssumption, FS_Subset
<1> QED BY <1>1, <1>3 DEF PlanInv

(***************************************************************************)
(* The invariant gives what the run checks.                                *)
(***************************************************************************)
LEMMA PlanInvSound == PlanInv => PlanSound
<1> SUFFICES ASSUME PlanInv PROVE PlanSound
  OBVIOUS
<1>1. PlanTypeOK /\ PlacedOnce /\ DependenciesFirst BY DEF PlanInv, OrderInv
<1>2. RequirementsMet
  <2> SUFFICES ASSUME stage = "done" PROVE RequirementsMet
    BY DEF RequirementsMet
  <2>1. Emitted = Listed BY DoneIsAll
  <2>2. /\ deps = [c \in Listed |-> Merged(c)]
        /\ \A c \in Listed, n \in Listed \cup Unlisted :
             ~Missing(c, n) /\ ~Mismatch(c, n)
    BY DEF PlanInv, MergedInv, Sorting
  <2>3. ASSUME NEW c \in Listed, NEW n \in Listed \cup Unlisted
        PROVE  /\ decl.pkg[c][n] = "required" => n \in Listed
               /\ n \in Listed => decl.pkg[c][n] # "mismatch"
    BY <2>2 DEF Missing, Mismatch
  <2>4. ASSUME NEW c \in Listed, NEW n \in Listed \ {c},
               decl.pkg[c][n] # "none" \/ n \in decl.bom[c]
        PROVE  \E i, j \in DOMAIN order :
                   i < j /\ order[i] = n /\ order[j] = c
    <3>1. n \in deps[c] BY <2>2, <2>4 DEF Merged, Wanted
    <3>2. PICK j \in DOMAIN order : order[j] = c BY <2>1 DEF Emitted
    <3>3. PICK i \in DOMAIN order : i < j /\ order[i] = n
      BY <1>1, <3>1, <3>2 DEF DependenciesFirst
    <3> QED BY <3>2, <3>3
  <2> QED BY <2>1, <2>3, <2>4 DEF RequirementsMet
<1>3. CycleIsReal
  <2>1. ASSUME stage = "cycle" PROVE Knot(Listed \ Emitted)
    <3>1. Emitted # Listed /\ Emitted \in SUBSET Listed
      BY <1>1, <2>1, DoneIsAll, PlacedComponents
    <3>2. {c \in Listed \ Emitted : deps[c] \subseteq Emitted} = {}
      BY <2>1 DEF PlanInv, OrderInv, WorklistExact, VerdictInv
    <3>3. \A c \in Listed : deps[c] \subseteq Listed
      BY <1>1 DEF PlanTypeOK
    <3> QED BY <3>1, <3>2, <3>3 DEF Knot
  <2>2. ASSUME stage = "done", NEW S \in SUBSET Listed PROVE ~Knot(S)
    <3>1. Emitted = Listed BY <2>2, DoneIsAll
    <3> QED BY <2>2, <3>1 DEF PlanInv, KnotInv, Sorting, Knot
  <2> QED BY <2>1, <2>2 DEF CycleIsReal
<1>4. OrderDetermined BY DEF PlanInv
<1> QED BY <1>1, <1>2, <1>3, <1>4 DEF PlanSound

(***************************************************************************)
(* The plan BuildPlan returns places every component once, meets every     *)
(* requirement the packages state before the package that states it, is    *)
(* refused as cyclic exactly when some components wait for each other, and *)
(* is the same whatever way the maps are walked: for every BOM.            *)
(***************************************************************************)
THEOREM PlansAreSound == PlanSpec => []PlanSound
<1> QED BY InitPlan, NextPlan, PlanInvSound, PTL DEF PlanSpec

-----------------------------------------------------------------------------
(* Arithmetic of the batches. *)

(* One size further is within the next multiple.                             *)
LEMMA Multiples ==
    ASSUME NEW i \in Nat, NEW j \in Nat, NEW s \in Nat, i < j
    PROVE  i * s + s <= j * s
<1> DEFINE d == j - i - 1
<1>1. d \in Nat /\ j = i + 1 + d
    OBVIOUS
<1>2. d * s \in Nat
    BY <1>1
<1>3. j * s = i * s + s + d * s
    BY <1>1
<1> HIDE DEF d
<1> QED
    BY <1>2, <1>3

(* What the division of splitRolloutHosts rounds to.                         *)
LEMMA Quotient ==
    ASSUME NEW a \in Nat, NEW s \in Nat \ {0}
    PROVE  /\ a \div s \in Nat
           /\ (a \div s) * s <= a
           /\ a < (a \div s) * s + s
OBVIOUS

(* A list of batches cuts a list of hosts when each host is in one place.    *)
Cuts(B, hosts) ==
    /\ B \in Seq(Seq(Host))
    /\ \A i \in 1 .. Len(B) : Len(B[i]) \in 1 .. Len(hosts)
    /\ \A i \in 1 .. Len(B) : \A p \in 1 .. Len(B[i]) :
           \E e \in 1 .. Len(hosts) : B[i][p] = hosts[e]
    /\ \A e \in 1 .. Len(hosts) :
           \E i \in 1 .. Len(B) : \E p \in 1 .. Len(B[i]) : B[i][p] = hosts[e]
    /\ \A i, j \in 1 .. Len(B) : \A p \in 1 .. Len(B[i]), q \in 1 .. Len(B[j]) :
           B[i][p] = B[j][q] => i = j /\ p = q

(* No host is listed twice.                                                *)
Distinct(hosts) ==
    \A d, e \in 1 .. Len(hosts) : hosts[d] = hosts[e] => d = e

(* splitRolloutHosts loses no host, repeats none and keeps the size.         *)
LEMMA SplitCuts ==
    ASSUME NEW hosts \in Seq(Host), Distinct(hosts), NEW size \in Nat
    PROVE  /\ Cuts(SplitRolloutHosts(hosts, size), hosts)
           /\ size > 0 => \A i \in 1 .. Len(SplitRolloutHosts(hosts, size)) :
                             Len(SplitRolloutHosts(hosts, size)[i]) <= size
           /\ hosts # <<>> => Len(SplitRolloutHosts(hosts, size)) >= 1
<1> DEFINE n == Len(hosts)
           B == SplitRolloutHosts(hosts, size)
<1>0. n \in Nat /\ \A e \in 1 .. n : hosts[e] \in Host
    BY LenProperties, ElementOfSeq
<1>1. CASE size = 0 \/ size >= n
    <2>1. CASE hosts = <<>>
        <3>1. B = <<>> /\ n = 0
            BY <1>1, <2>1 DEF SplitRolloutHosts
        <3>2. B \in Seq(Seq(Host)) /\ Len(B) = 0
            BY <3>1, EmptySeq
        <3> HIDE DEF B
        <3>3. Cuts(B, hosts)
            BY <3>1, <3>2 DEF Cuts
        <3> QED
            BY <2>1, <3>2, <3>3 DEF B
    <2>2. CASE hosts # <<>>
        <3>1. B = <<hosts>> /\ n >= 1
            BY <1>0, <1>1, <2>2, EmptySeq DEF SplitRolloutHosts
        <3>2. B \in Seq(Seq(Host)) /\ Len(B) = 1 /\ B[1] = hosts
            BY <3>1
        <3>3. \A i \in 1 .. Len(B) : i = 1 /\ B[i] = hosts
            BY <3>2
        <3>4. \A e \in 1 .. n : 1 \in 1 .. Len(B) /\ e \in 1 .. Len(B[1]) /\ B[1][e] = hosts[e]
            BY <3>2
        <3> HIDE DEF B
        <3>5. Cuts(B, hosts)
            <4>1. \A i \in 1 .. Len(B) : Len(B[i]) \in 1 .. n
                BY <1>0, <3>1, <3>3
            <4>2. \A i \in 1 .. Len(B) : \A p \in 1 .. Len(B[i]) : p \in 1 .. n /\ B[i][p] = hosts[p]
                BY <3>3
            <4>3. \A i, j \in 1 .. Len(B) : \A p \in 1 .. Len(B[i]), q \in 1 .. Len(B[j]) :
                      B[i][p] = B[j][q] => i = j /\ p = q
                BY <3>3 DEF Distinct
            <4> QED
                BY <3>2, <3>4, <4>1, <4>2, <4>3 DEF Cuts
        <3>6. size > 0 => \A i \in 1 .. Len(B) : Len(B[i]) <= size
            BY <1>0, <1>1, <3>3
        <3> QED
            BY <3>2, <3>5, <3>6 DEF B
    <2> QED
        BY <2>1, <2>2
<1>2. CASE size > 0 /\ size < n
    <2> DEFINE k == (n + size - 1) \div size
               from(i) == (i - 1) * size + 1
               to(i) == IF i * size > n THEN n ELSE i * size
    <2>1. k \in Nat /\ k * size <= n + size - 1 /\ n + size - 1 < k * size + size
        <3>1. n + size - 1 \in Nat /\ size \in Nat \ {0}
            BY <1>0, <1>2
        <3> QED
            BY <3>1, Quotient
    <2>2. B = [i \in 1 .. k |-> SubSeq(hosts, from(i), to(i))]
        BY <1>0, <1>2 DEF SplitRolloutHosts
    <2>k. k >= 1 /\ n <= k * size
        <3>1. k * size \in Nat /\ n <= k * size
            BY <1>0, <1>2, <2>1
        <3>2. k # 0
            <4>1. 0 * size = 0
                OBVIOUS
            <4> QED
                BY <1>0, <1>2, <3>1, <4>1
        <3> QED
            BY <2>1, <3>1, <3>2
    <2>3. ASSUME NEW i \in 1 .. k
          PROVE  /\ (i - 1) * size \in Nat /\ (i - 1) * size + size = i * size
                 /\ from(i) \in 1 .. n /\ to(i) \in from(i) .. n
                 /\ to(i) - from(i) + 1 <= size
                 /\ to(i) <= i * size
        <3>1. (i - 1) * size \in Nat /\ (i - 1) * size + size = i * size
            BY <1>2, <2>1
        <3>2. (i - 1) * size < n
            <4>1. CASE i = k
                BY <1>0, <1>2, <2>1, <3>1, <4>1
            <4>2. CASE i < k
                <5>1. i * size + size <= k * size
                    BY <2>1, <4>2, Multiples
                <5> QED
                    BY <1>0, <1>2, <2>1, <3>1, <5>1
            <4> QED
                BY <2>1, <4>1, <4>2
        <3> QED
            BY <1>0, <1>2, <3>1, <3>2
    <2>4. ASSUME NEW i \in 1 .. k
          PROVE  /\ B[i] \in Seq(Host)
                 /\ Len(B[i]) = to(i) - from(i) + 1
                 /\ \A p \in 1 .. Len(B[i]) : /\ B[i][p] = hosts[(i - 1) * size + p]
                                              /\ (i - 1) * size + p \in 1 .. n
                                              /\ p <= size
        <3>1. /\ from(i) \in 1 .. n /\ to(i) \in from(i) .. n /\ to(i) - from(i) + 1 <= size
              /\ (i - 1) * size \in Nat
            BY <2>3
        <3>2. from(i) \in Int /\ to(i) \in Int /\ from(i) <= to(i)
            BY <1>0, <3>1
        <3>3. \A e \in from(i) .. to(i) : hosts[e] \in Host
            BY <1>0, <3>1
        <3>4. B[i] = SubSeq(hosts, from(i), to(i))
            BY <2>2
        <3> HIDE DEF from, to, B
        <3>5. /\ B[i] \in Seq(Host) /\ Len(B[i]) = to(i) - from(i) + 1
              /\ \A p \in 1 .. to(i) - from(i) + 1 : B[i][p] = hosts[from(i) + p - 1]
            BY <3>2, <3>3, <3>4, SubSeqProperties
        <3> USE DEF from
        <3>6. \A p \in 1 .. Len(B[i]) : /\ from(i) + p - 1 = (i - 1) * size + p
                                        /\ (i - 1) * size + p \in 1 .. n
                                        /\ p <= size
            BY <1>0, <3>1, <3>5
        <3> QED
            BY <3>5, <3>6
    <2>5. Len(B) = k /\ B \in Seq(Seq(Host))
        <3>1. \A i \in 1 .. k : SubSeq(hosts, from(i), to(i)) \in Seq(Host)
            BY <2>2, <2>4
        <3> HIDE DEF from, to, k, B
        <3> QED
            BY <2>1, <2>2, <3>1
    <2>6. ASSUME NEW i \in 1 .. Len(B)
          PROVE  Len(B[i]) \in 1 .. n /\ Len(B[i]) <= size
        <3>1. i \in 1 .. k
            BY <2>5
        <3>2. /\ from(i) \in 1 .. n /\ to(i) \in from(i) .. n
              /\ to(i) - from(i) + 1 <= size /\ Len(B[i]) = to(i) - from(i) + 1
            BY <2>3, <2>4, <3>1
        <3> HIDE DEF from, to, B, k
        <3> QED
            BY <1>0, <1>2, <3>2
    <2>7. \A i \in 1 .. Len(B) : \A p \in 1 .. Len(B[i]) : \E e \in 1 .. n : B[i][p] = hosts[e]
        BY <2>4, <2>5
    <2>8. ASSUME NEW e \in 1 .. n
          PROVE  \E i \in 1 .. Len(B) : \E p \in 1 .. Len(B[i]) : B[i][p] = hosts[e]
        <3> DEFINE i == (e - 1) \div size + 1
                   p == e - (i - 1) * size
        <3>1. /\ (e - 1) \div size \in Nat
              /\ ((e - 1) \div size) * size <= e - 1
              /\ e - 1 < ((e - 1) \div size) * size + size
            <4>1. e - 1 \in Nat /\ size \in Nat \ {0}
                BY <1>0, <1>2
            <4> QED
                BY <4>1, Quotient
        <3>2. i \in Nat /\ i >= 1 /\ (i - 1) * size <= e - 1 /\ e - 1 < (i - 1) * size + size
              /\ (i - 1) * size \in Nat
            <4>1. i - 1 = (e - 1) \div size
                BY <3>1
            <4> QED
                BY <3>1, <4>1
        <3> HIDE DEF i
        <3>3. i <= k
            <4>1. CASE k < i
                <5>1. k <= i - 1 /\ i - 1 \in Nat
                    BY <2>1, <3>2, <4>1
                <5>2. k * size <= (i - 1) * size
                    <6>1. CASE k = i - 1
                        BY <1>2, <2>1, <6>1
                    <6>2. CASE k < i - 1
                        BY <1>2, <2>1, <3>2, <5>1, <6>2, Multiples
                    <6> QED
                        BY <5>1, <2>1, <6>1, <6>2
                <5> QED
                    BY <1>0, <2>k, <2>1, <3>2, <5>2
            <4> QED
                BY <2>1, <3>2, <4>1
        <3>4. i \in 1 .. k
            BY <2>1, <3>2, <3>3
        <3>5. p \in 1 .. Len(B[i])
            <4>1. p \in 1 .. size
                BY <1>0, <1>2, <3>2
            <4>2. Len(B[i]) = to(i) - from(i) + 1 /\ (i - 1) * size + size = i * size
                BY <2>3, <2>4, <3>4
            <4>3. p <= to(i) - from(i) + 1
                BY <1>0, <1>2, <3>2, <4>1, <4>2
            <4> QED
                BY <4>1, <4>2, <4>3, <1>2
        <3>6. B[i][p] = hosts[(i - 1) * size + p]
            BY <2>4, <3>4, <3>5
        <3>7. (i - 1) * size + p = e
            BY <3>2
        <3> QED
            BY <2>5, <3>4, <3>5, <3>6, <3>7
    <2>9. ASSUME NEW i \in 1 .. Len(B), NEW j \in 1 .. Len(B),
                 NEW p \in 1 .. Len(B[i]), NEW q \in 1 .. Len(B[j]), B[i][p] = B[j][q]
          PROVE  i = j /\ p = q
        <3>1. /\ hosts[(i - 1) * size + p] = hosts[(j - 1) * size + q]
              /\ (i - 1) * size + p \in 1 .. n /\ (j - 1) * size + q \in 1 .. n
              /\ p \in 1 .. size /\ q \in 1 .. size
            <4>1. i \in 1 .. k /\ j \in 1 .. k
                BY <2>5
            <4>2. /\ B[i][p] = hosts[(i - 1) * size + p] /\ p <= size
                  /\ (i - 1) * size + p \in 1 .. n
                BY <2>4, <4>1
            <4>3. /\ B[j][q] = hosts[(j - 1) * size + q] /\ q <= size
                  /\ (j - 1) * size + q \in 1 .. n
                BY <2>4, <4>1
            <4>4. p \in Nat /\ p >= 1 /\ q \in Nat /\ q >= 1
                BY <2>6
            <4> DEFINE x == (i - 1) * size + p
                       y == (j - 1) * size + q
            <4>5. B[i][p] = hosts[x] /\ B[j][q] = hosts[y] /\ x \in 1 .. n /\ y \in 1 .. n
                BY <4>2, <4>3
            <4>6. p \in 1 .. size /\ q \in 1 .. size
                BY <1>2, <4>2, <4>3, <4>4
            <4> HIDE DEF B, k, from, to, x, y
            <4>7. hosts[x] = hosts[y]
                BY <2>9, <4>5
            <4> QED
                BY <4>5, <4>6, <4>7 DEF x, y
        <3>2. (i - 1) * size + p = (j - 1) * size + q
            BY <3>1 DEF Distinct
        <3>3. (i - 1) * size \in Nat /\ (j - 1) * size \in Nat
            BY <2>3, <2>5
        <3>4. i \in Nat /\ j \in Nat /\ i - 1 \in Nat /\ j - 1 \in Nat
            BY <2>1, <2>5
        <3>5. ~ (i < j)
            <4> SUFFICES ASSUME i < j PROVE FALSE
                OBVIOUS
            <4>1. (i - 1) * size + size <= (j - 1) * size
                BY <1>2, <3>4, Multiples
            <4> QED
                BY <1>2, <3>1, <3>2, <3>3, <4>1
        <3>6. ~ (j < i)
            <4> SUFFICES ASSUME j < i PROVE FALSE
                OBVIOUS
            <4>1. (j - 1) * size + size <= (i - 1) * size
                BY <1>2, <3>4, Multiples
            <4> QED
                BY <1>2, <3>1, <3>2, <3>3, <4>1
        <3>7. i = j
            BY <3>4, <3>5, <3>6
        <3> QED
            BY <3>1, <3>2, <3>3, <3>7
    <2> HIDE DEF B, k, from, to
    <2>10. Cuts(B, hosts)
        BY <2>5, <2>6, <2>7, <2>8, <2>9 DEF Cuts
    <2> QED
        BY <2>k, <2>5, <2>6, <2>10 DEF B
<1> QED
    BY <1>0, <1>1, <1>2

-----------------------------------------------------------------------------
(* The hosts a component provisions. *)

(* What the provers need of the parameters. *)
LEMMA Facts ==
    /\ Hosts \in Seq(Host) /\ Len(Hosts) \in Nat /\ Len(Hosts) >= 1
    /\ Distinct(Hosts) /\ DOMAIN Hosts = 1 .. Len(Hosts)
    /\ \A e \in 1 .. Len(Hosts) : Hosts[e] \in Host
    /\ \A h \in Host : \E e \in 1 .. Len(Hosts) : h = Hosts[e]
    /\ Components \in Nat /\ Components >= 1 /\ MaxSize \in Nat
<1>1. Hosts \in Seq(Host) /\ Hosts # <<>>
    BY RolloutAssumption DEF Host
<1>2. Len(Hosts) \in Nat /\ Len(Hosts) >= 1 /\ DOMAIN Hosts = 1 .. Len(Hosts)
    BY <1>1, LenProperties, EmptySeq
<1>3. Distinct(Hosts)
    BY <1>2, RolloutAssumption DEF IsInjective, Distinct
<1>4. /\ \A e \in 1 .. Len(Hosts) : Hosts[e] \in Host
      /\ \A h \in Host : \E e \in 1 .. Len(Hosts) : h = Hosts[e]
    BY <1>2 DEF Host, Range
<1> QED
    BY <1>1, <1>2, <1>3, <1>4, RolloutAssumption

(* Counting the fresh hosts up to each of them numbers them from 1, as no    *)
(* two have the same count.                                                  *)
LEMMA FreshNumbered ==
    /\ Cardinality(Fresh) \in 0 .. Len(Hosts)
    /\ \A n \in 1 .. Cardinality(Fresh) :
          /\ NthFresh(n) \in Fresh
          /\ Cardinality({j \in Fresh : j <= NthFresh(n)}) = n
    /\ \A i \in Fresh : \E n \in 1 .. Cardinality(Fresh) : NthFresh(n) = i
<1> DEFINE UpTo(i) == {j \in Fresh : j <= i}
           N == Cardinality(Fresh)
           f == [i \in Fresh |-> Cardinality(UpTo(i))]
<1>1. Fresh \subseteq 1 .. Len(Hosts) /\ Len(Hosts) \in Nat
    BY Facts DEF Fresh
<1>2. IsFiniteSet(Fresh) /\ N \in Nat /\ N <= Len(Hosts)
    <2>1. IsFiniteSet(1 .. Len(Hosts)) /\ Cardinality(1 .. Len(Hosts)) = Len(Hosts)
        BY <1>1, FS_Interval
    <2> QED
        BY <1>1, <2>1, FS_Subset, FS_CardinalityType
<1>3. \A i \in Fresh : /\ IsFiniteSet(UpTo(i)) /\ Cardinality(UpTo(i)) \in 1 .. N
    <2> TAKE i \in Fresh
    <2>1. UpTo(i) \subseteq Fresh /\ i \in UpTo(i)
        BY <1>1
    <2>2. IsFiniteSet(UpTo(i)) /\ Cardinality(UpTo(i)) <= N /\ Cardinality(UpTo(i)) \in Nat
        BY <1>2, <2>1, FS_Subset, FS_CardinalityType
    <2>3. Cardinality(UpTo(i)) # 0
        BY <2>1, <2>2, FS_EmptySet
    <2> QED
        BY <1>2, <2>2, <2>3
<1>4. ASSUME NEW i \in Fresh, NEW j \in Fresh, i < j
      PROVE  Cardinality(UpTo(i)) < Cardinality(UpTo(j))
    <2>0. i \in Nat /\ j \in Nat /\ \A x \in Fresh : x \in Nat
        BY <1>1
    <2>1. UpTo(i) \subseteq UpTo(j) /\ j \in UpTo(j) /\ j \notin UpTo(i)
        <3>1. \A x \in Fresh : x <= i => x <= j
            BY <1>4, <2>0
        <3>2. j <= j /\ ~ (j <= i)
            BY <1>4, <2>0
        <3> QED
            BY <3>1, <3>2
    <2>2. /\ Cardinality(UpTo(i)) <= Cardinality(UpTo(j))
          /\ Cardinality(UpTo(i)) # Cardinality(UpTo(j))
        BY <1>3, <2>1, FS_Subset
    <2>3. Cardinality(UpTo(i)) \in Nat /\ Cardinality(UpTo(j)) \in Nat
        BY <1>3
    <2> HIDE DEF UpTo
    <2> QED
        BY <2>2, <2>3
<1>5. \A i, j \in Fresh : Cardinality(UpTo(i)) = Cardinality(UpTo(j)) => i = j
    <2> TAKE i, j \in Fresh
    <2>1. i \in Nat /\ j \in Nat
        BY <1>1
    <2>2. Cardinality(UpTo(i)) \in Nat /\ Cardinality(UpTo(j)) \in Nat
        BY <1>3
    <2> HIDE DEF UpTo
    <2>3. CASE i < j
        BY <1>4, <2>2, <2>3
    <2>4. CASE j < i
        BY <1>4, <2>2, <2>4
    <2> QED
        BY <2>1, <2>3, <2>4
<1>6. f \in Injection(Fresh, 1 .. N)
    BY <1>3, <1>5 DEF Injection, IsInjective
<1>7. f \in Surjection(Fresh, 1 .. N)
    <2>1. IsFiniteSet(1 .. N) /\ Cardinality(1 .. N) = N
        BY <1>2, FS_Interval
    <2> HIDE DEF f
    <2> QED
        BY <1>6, <2>1, FS_Injection
<1>8. \A n \in 1 .. N : \E i \in Fresh : Cardinality(UpTo(i)) = n
    BY <1>7 DEF Surjection
<1>9. \A n \in 1 .. N : NthFresh(n) \in Fresh /\ Cardinality(UpTo(NthFresh(n))) = n
    BY <1>8 DEF NthFresh
<1>10. \A i \in Fresh : NthFresh(Cardinality(UpTo(i))) = i
    BY <1>3, <1>5, <1>9
<1>11. \A i \in Fresh : \E n \in 1 .. N : NthFresh(n) = i
    BY <1>3, <1>10
<1>12. N \in 0 .. Len(Hosts)
    BY <1>1, <1>2
<1> HIDE DEF f
<1> QED
    BY <1>9, <1>11, <1>12

(* They are hosts, each once. *)
LEMMA Provisioned ==
    ASSUME NEW c \in Component
    PROVE  /\ ProvisioningHosts(c) \in Seq(Host) /\ Distinct(ProvisioningHosts(c))
           /\ Len(ProvisioningHosts(c)) <= Len(Hosts)
           /\ Range(ProvisioningHosts(c)) \subseteq Host
           /\ \A h \in Range(ProvisioningHosts(c)) :
                 \E e \in 1 .. Len(ProvisioningHosts(c)) : ProvisioningHosts(c)[e] = h
           /\ \A e \in 1 .. Len(ProvisioningHosts(c)) :
                 ProvisioningHosts(c)[e] \in Range(ProvisioningHosts(c))
<1> DEFINE P == ProvisioningHosts(c)
<1>1. P \in Seq(Host) /\ Distinct(P) /\ Len(P) <= Len(Hosts)
    <2>1. CASE kinds[c].fresh /\ Len(Hosts) > 1
        <3>1. P = [n \in 1 .. Cardinality(Fresh) |-> Hosts[NthFresh(n)]]
            BY <2>1 DEF ProvisioningHosts
        <3>2. Cardinality(Fresh) \in Nat /\ Cardinality(Fresh) <= Len(Hosts)
            BY Facts, FreshNumbered
        <3>3. \A n \in 1 .. Cardinality(Fresh) :
                 Hosts[NthFresh(n)] \in Host /\ NthFresh(n) \in 1 .. Len(Hosts)
            BY Facts, FreshNumbered DEF Fresh
        <3> HIDE DEF P
        <3>4. P \in Seq(Host) /\ Len(P) = Cardinality(Fresh)
            BY <3>1, <3>2, <3>3
        <3>5. ASSUME NEW d \in 1 .. Len(P), NEW e \in 1 .. Len(P), P[d] = P[e] PROVE d = e
            <4>1. NthFresh(d) = NthFresh(e)
                BY <3>1, <3>3, <3>4, <3>5, Facts DEF Distinct
            <4>2. /\ Cardinality({j \in Fresh : j <= NthFresh(d)}) = d
                  /\ Cardinality({j \in Fresh : j <= NthFresh(e)}) = e
                BY <3>4, FreshNumbered
            <4> QED
                BY <4>1, <4>2
        <3> QED
            BY <3>2, <3>4, <3>5 DEF Distinct
    <2>2. CASE ~ (kinds[c].fresh /\ Len(Hosts) > 1)
        BY <2>2, Facts DEF ProvisioningHosts
    <2> QED
        BY <2>1, <2>2
<1>2. DOMAIN P = 1 .. Len(P) /\ \A e \in 1 .. Len(P) : P[e] \in Host
    BY <1>1, LenProperties, ElementOfSeq
<1> QED
    BY <1>1, <1>2 DEF Range

-----------------------------------------------------------------------------
(* The batches of a component. *)

Bound(c) == IF HasCanary(ProvisioningHosts(c)) /\ rollout.canary > rollout.batchSize
            THEN rollout.canary ELSE rollout.batchSize

(* rolloutHostBatches does the same with a canary, its first batch.          *)
LEMMA CanaryCuts ==
    ASSUME NEW hosts \in Seq(Host), Distinct(hosts), rollout \in Strategy
    PROVE  LET B == RolloutHostBatches(hosts) IN
           /\ Cuts(B, hosts)
           /\ rollout.batchSize > 0 => \A i \in 1 .. Len(B) :
                 Len(B[i]) <= IF HasCanary(hosts) /\ rollout.canary > rollout.batchSize
                              THEN rollout.canary ELSE rollout.batchSize
           /\ HasCanary(hosts) =>
                 /\ Len(B) > 1 /\ Len(B[1]) = rollout.canary
                 /\ \A p \in 1 .. rollout.canary : B[1][p] = hosts[p]
<1> DEFINE n == Len(hosts)
           B == RolloutHostBatches(hosts)
           k == rollout.canary
           size == rollout.batchSize
<1>0. /\ n \in Nat /\ \A e \in 1 .. n : hosts[e] \in Host
      /\ size \in Nat /\ k \in Nat
    <2>1. MaxSize \in Nat \/ 0 .. MaxSize \subseteq Nat
        OBVIOUS
    <2> QED
        BY <2>1, LenProperties, ElementOfSeq DEF Strategy
<1>1. CASE ~ HasCanary(hosts)
    <2>1. B = SplitRolloutHosts(hosts, size)
        BY <1>1 DEF RolloutHostBatches
    <2> HIDE DEF B, size
    <2> QED
        BY <1>0, <1>1, <2>1, SplitCuts DEF B, size
<1>2. CASE HasCanary(hosts)
    <2> DEFINE rest == SubSeq(hosts, k + 1, n)
               R == SplitRolloutHosts(rest, size)
               C == SubSeq(hosts, 1, k)
    <2>1. k \in 1 .. n - 1
        BY <1>0, <1>2 DEF HasCanary
    <2> HIDE DEF n, k, size
    <2>2. /\ rest \in Seq(Host) /\ Len(rest) = n - k
          /\ \A e \in 1 .. n - k : rest[e] = hosts[k + e]
        <3>1. \A e \in k + 1 .. n : hosts[e] \in Host
            BY <1>0, <2>1
        <3>2. k + 1 \in Int /\ n \in Int /\ k + 1 <= n
            BY <1>0, <2>1
        <3>3. /\ rest \in Seq(Host) /\ Len(rest) = n - (k + 1) + 1
              /\ \A e \in 1 .. n - (k + 1) + 1 : rest[e] = hosts[k + 1 + e - 1]
            BY <3>1, <3>2, SubSeqProperties
        <3> HIDE DEF rest
        <3> QED
            BY <1>0, <2>1, <3>3
    <2>3. /\ C \in Seq(Host) /\ Len(C) = k
          /\ \A e \in 1 .. k : C[e] = hosts[e]
        <3>1. \A e \in 1 .. k : hosts[e] \in Host
            BY <1>0, <2>1
        <3>2. k \in Int /\ 1 <= k
            BY <1>0, <2>1
        <3>3. /\ C \in Seq(Host) /\ Len(C) = k - 1 + 1
              /\ \A e \in 1 .. k - 1 + 1 : C[e] = hosts[1 + e - 1]
            BY <3>1, <3>2, SubSeqProperties
        <3> HIDE DEF C
        <3> QED
            BY <1>0, <2>1, <3>3
    <2>6. B = <<C>> \o R
        BY <1>2 DEF RolloutHostBatches, n, k, size
    <2> HIDE DEF B, R, C, rest
    <2>4. Distinct(rest)
        <3> SUFFICES ASSUME NEW d \in 1 .. n - k, NEW e \in 1 .. n - k, rest[d] = rest[e]
                     PROVE  d = e
            BY <2>2 DEF Distinct
        <3>1. hosts[k + d] = hosts[k + e] /\ k + d \in 1 .. n /\ k + e \in 1 .. n
            BY <1>0, <2>1, <2>2
        <3>2. k + d = k + e
            BY <3>1 DEF Distinct, n
        <3> QED
            BY <1>0, <2>1, <3>2
    <2>5. /\ Cuts(R, rest) /\ Len(R) >= 1
          /\ size > 0 => \A i \in 1 .. Len(R) : Len(R[i]) <= size
        <3>1. Len(rest) # 0
            BY <2>1, <2>2, <1>0
        <3>2. rest # <<>>
            BY <3>1, EmptySeq
        <3> QED
            BY <1>0, <2>2, <2>4, <3>2, SplitCuts DEF R
    <2>7. /\ B \in Seq(Seq(Host)) /\ Len(B) = 1 + Len(R) /\ B[1] = C /\ Len(R) \in Nat
          /\ \A i \in 2 .. Len(B) : B[i] = R[i - 1] /\ i - 1 \in 1 .. Len(R)
        <3>1. R \in Seq(Seq(Host)) /\ <<C>> \in Seq(Seq(Host)) /\ Len(<<C>>) = 1 /\ <<C>>[1] = C
            BY <2>3, <2>5 DEF Cuts
        <3>2. Len(R) \in Nat
            BY <3>1, LenProperties
        <3> QED
            BY <2>6, <3>1, <3>2, ConcatProperties
    <2>8. \A i \in 1 .. Len(B) : i = 1 \/ i \in 2 .. Len(B)
        BY <2>7
    <2>9. ASSUME NEW i \in 1 .. Len(B), NEW p \in 1 .. Len(B[i])
          PROVE  \E e \in 1 .. n : B[i][p] = hosts[e] /\ (i = 1 <=> e <= k)
        <3>1. CASE i = 1
            <4>1. p \in 1 .. k /\ B[i][p] = hosts[p]
                BY <2>3, <2>7, <3>1
            <4> QED
                BY <1>0, <2>1, <3>1, <4>1
        <3>2. CASE i \in 2 .. Len(B)
            <4>1. B[i] = R[i - 1] /\ i - 1 \in 1 .. Len(R) /\ i # 1
                BY <2>7, <3>2
            <4>2. PICK e \in 1 .. Len(rest) : R[i - 1][p] = rest[e]
                <5>1. p \in 1 .. Len(R[i - 1])
                    BY <4>1
                <5> QED
                    BY <2>5, <4>1, <5>1 DEF Cuts
            <4>3. k + e \in 1 .. n /\ ~ (k + e <= k) /\ B[i][p] = hosts[k + e]
                <5>1. e \in 1 .. n - k
                    BY <2>2
                <5>2. rest[e] = hosts[k + e] /\ B[i][p] = R[i - 1][p]
                    BY <2>2, <4>1, <5>1
                <5>3. k + e \in 1 .. n /\ ~ (k + e <= k)
                    BY <1>0, <2>1, <5>1
                <5> QED
                    BY <4>2, <5>2, <5>3
            <4> QED
                BY <4>1, <4>3
        <3> QED
            BY <2>8, <3>1, <3>2
    <2>10. ASSUME NEW e \in 1 .. n
           PROVE  \E i \in 1 .. Len(B) : \E p \in 1 .. Len(B[i]) : B[i][p] = hosts[e]
        <3>1. CASE e <= k
            <4>1. 1 \in 1 .. Len(B) /\ e \in 1 .. Len(B[1]) /\ B[1][e] = hosts[e]
                BY <1>0, <2>1, <2>3, <2>7, <3>1
            <4> QED
                BY <4>1
        <3>2. CASE e > k
            <4>1. e - k \in 1 .. Len(rest) /\ rest[e - k] = hosts[e]
                <5>1. e - k \in 1 .. n - k /\ k + (e - k) = e
                    BY <1>0, <2>1, <3>2
                <5> QED
                    BY <2>2, <5>1
            <4>2. PICK i \in 1 .. Len(R) : \E p \in 1 .. Len(R[i]) : R[i][p] = rest[e - k]
                BY <2>5, <4>1 DEF Cuts
            <4>3. i + 1 \in 2 .. Len(B) /\ (i + 1) - 1 = i
                BY <2>7
            <4>4. B[i + 1] = R[i]
                BY <2>7, <4>3
            <4>5. i + 1 \in 1 .. Len(B)
                BY <4>3
            <4> QED
                BY <4>1, <4>2, <4>4, <4>5
        <3> QED
            BY <1>0, <2>1, <3>1, <3>2
    <2>11. ASSUME NEW i \in 1 .. Len(B), NEW j \in 1 .. Len(B),
                  NEW p \in 1 .. Len(B[i]), NEW q \in 1 .. Len(B[j]), B[i][p] = B[j][q]
           PROVE  i = j /\ p = q
        <3>1. PICK d \in 1 .. n : B[i][p] = hosts[d] /\ (i = 1 <=> d <= k)
            BY <2>9
        <3>2. PICK e \in 1 .. n : B[j][q] = hosts[e] /\ (j = 1 <=> e <= k)
            BY <2>9
        <3>3. d = e
            BY <2>11, <3>1, <3>2 DEF Distinct, n
        <3>4. CASE i = 1
            <4>1. j = 1 /\ p \in 1 .. k /\ q \in 1 .. k
                BY <2>3, <2>7, <3>1, <3>2, <3>3, <3>4
            <4>2. hosts[p] = hosts[q] /\ p \in 1 .. n /\ q \in 1 .. n
                BY <1>0, <2>1, <2>3, <2>7, <2>11, <3>4, <4>1
            <4> QED
                BY <3>4, <4>1, <4>2 DEF Distinct, n
        <3>5. CASE i # 1
            <4>1. i \in 2 .. Len(B) /\ j \in 2 .. Len(B)
                BY <2>8, <3>1, <3>2, <3>3, <3>5
            <4>2. /\ B[i] = R[i - 1] /\ i - 1 \in 1 .. Len(R)
                  /\ B[j] = R[j - 1] /\ j - 1 \in 1 .. Len(R)
                BY <2>7, <4>1
            <4>3. i - 1 = j - 1 /\ p = q
                <5>1. p \in 1 .. Len(R[i - 1]) /\ q \in 1 .. Len(R[j - 1])
                    BY <4>2
                <5>2. R[i - 1][p] = R[j - 1][q]
                    BY <2>11, <4>2
                <5>3. \A a, b \in 1 .. Len(R) : \A x \in 1 .. Len(R[a]), y \in 1 .. Len(R[b]) :
                          R[a][x] = R[b][y] => a = b /\ x = y
                    BY <2>5 DEF Cuts
                <5> DEFINE a == i - 1
                           b == j - 1
                <5>4. a \in 1 .. Len(R) /\ b \in 1 .. Len(R) /\ p \in 1 .. Len(R[a])
                      /\ q \in 1 .. Len(R[b]) /\ R[a][p] = R[b][q]
                    BY <4>2, <5>1, <5>2
                <5> HIDE DEF a, b
                <5>5. a = b /\ p = q
                    BY <5>3, <5>4
                <5> QED
                    BY <5>5 DEF a, b
            <4> QED
                BY <2>7, <4>3
        <3> QED
            BY <3>4, <3>5
    <2>12. ASSUME NEW i \in 1 .. Len(B)
           PROVE  /\ Len(B[i]) \in 1 .. n
                  /\ size > 0 => Len(B[i]) <= IF k > size THEN k ELSE size
        <3>1. CASE i = 1
            BY <1>0, <2>1, <2>3, <2>7, <3>1
        <3>2. CASE i \in 2 .. Len(B)
            <4>1. B[i] = R[i - 1] /\ i - 1 \in 1 .. Len(R)
                BY <2>7, <3>2
            <4>2. Len(B[i]) \in 1 .. n - k /\ (size > 0 => Len(B[i]) <= size)
                BY <2>2, <2>5, <4>1 DEF Cuts
            <4> QED
                BY <1>0, <2>1, <4>2
        <3> QED
            BY <2>8, <3>1, <3>2
    <2>13. Cuts(B, hosts)
        <3>1. \A i \in 1 .. Len(B) : \A p \in 1 .. Len(B[i]) : \E e \in 1 .. n : B[i][p] = hosts[e]
            BY <2>9
        <3>2. \A i \in 1 .. Len(B) : Len(B[i]) \in 1 .. n
            BY <2>12
        <3> QED
            BY <2>7, <2>10, <2>11, <3>1, <3>2 DEF Cuts, n
    <2>14. Len(B) > 1 /\ Len(B[1]) = k /\ \A p \in 1 .. k : B[1][p] = hosts[p]
        BY <2>3, <2>5, <2>7
    <2> QED
        BY <1>2, <2>12, <2>13, <2>14 DEF B, k, size
<1> QED
    BY <1>1, <1>2

(* The modes of a component and its phases. *)
LEMMA Modes ==
    ASSUME kinds \in [Component -> Kind], NEW c \in Component
    PROVE  /\ ModeOf(c) \in {"batched", "runtime", "bootstrap", "application"}
           /\ Full(c) \in {0, 7, 8}
           /\ Full(c) = 0 <=> ModeOf(c) = "application"
           /\ Len(ClusterSteps(c)) \in 0 .. 6
           /\ ModeOf(c) = "application" => ClusterSteps(c) = <<"preflight", "resources", "manifests",
                                               "configure", "install", "health">>
           /\ ModeOf(c) = "bootstrap" => ClusterSteps(c) = <<"resources", "manifests", "health">>
           /\ ModeOf(c) \in {"batched", "runtime"} => ClusterSteps(c) \in {<<>>, <<"health">>}
<1>1. ModeOf(c) \in {"batched", "runtime", "bootstrap", "application"}
    BY DEF Kind, ModeOf
<1>2. CASE ModeOf(c) = "application"
    <2>1. HostPhases(c) = <<>>
        BY <1>2 DEF HostPhases
    <2> QED
        BY <1>2, <2>1 DEF Full, ClusterSteps
<1>3. CASE ModeOf(c) = "bootstrap"
    <2>1. Len(HostPhases(c)) = 7
        BY <1>3 DEF HostPhases
    <2> QED
        BY <1>3, <2>1 DEF Full, ClusterSteps
<1>4. CASE ModeOf(c) \in {"batched", "runtime"}
    <2>1. Len(HostPhases(c)) \in {7, 8}
        <3> DEFINE seven == <<"preflight", "stop", "content", "reload", "bootstrap", "configure",
                              "install">>
        <3>1. HostPhases(c) = seven \o (IF GatedBatches(c) THEN <<"health">> ELSE <<>>)
            BY <1>4 DEF HostPhases
        <3>3. Len(seven \o <<"health">>) = 8 /\ Len(seven \o <<>>) = 7
            OBVIOUS
        <3> HIDE DEF seven
        <3> QED
            BY <3>1, <3>3
    <2>2. ClusterSteps(c) = IF GatedBatches(c) THEN <<>> ELSE <<"health">>
        BY <1>4 DEF ClusterSteps
    <2>3. Len(<<>>) = 0 /\ Len(<<"health">>) = 1
        OBVIOUS
    <2>4. Full(c) \in {7, 8}
        BY <2>1 DEF Full
    <2>5. Len(ClusterSteps(c)) \in 0 .. 6 /\ ClusterSteps(c) \in {<<>>, <<"health">>}
        BY <2>2, <2>3
    <2>6. Full(c) # 0 /\ ModeOf(c) # "application" /\ ModeOf(c) # "bootstrap"
        BY <1>4, <2>4
    <2> QED
        BY <1>1, <2>4, <2>5, <2>6
<1> QED
    BY <1>1, <1>2, <1>3, <1>4

(* The batches of a component of any mode.                                   *)
LEMMA BatchesCut ==
    ASSUME kinds \in [Component -> Kind], rollout \in Strategy,
           NEW c \in Component
    PROVE  /\ BatchesOf(c) \in Seq(Seq(Host))
           /\ ModeOf(c) = "application" => BatchesOf(c) = <<>>
           /\ ModeOf(c) # "application" => Cuts(BatchesOf(c), ProvisioningHosts(c))
           /\ Batchable(c) /\ rollout.batchSize > 0 =>
                 \A i \in 1 .. Len(BatchesOf(c)) : Len(BatchesOf(c)[i]) <= Bound(c)
           /\ Batchable(c) /\ HasCanary(ProvisioningHosts(c)) =>
                 /\ Len(BatchesOf(c)) > 1 /\ Len(BatchesOf(c)[1]) = rollout.canary
                 /\ \A p \in 1 .. rollout.canary : BatchesOf(c)[1][p] = ProvisioningHosts(c)[p]
<1> DEFINE P == ProvisioningHosts(c)
           B == BatchesOf(c)
<1>0. P \in Seq(Host) /\ Distinct(P) /\ Len(P) \in Nat
    BY Provisioned, LenProperties
<1>c. rollout.canary \in Nat /\ rollout.batchSize \in Nat
    BY Facts DEF Strategy
<1>1. CASE ModeOf(c) = "application"
    <2>1. B = <<>> /\ ~ Batchable(c)
        BY <1>1 DEF BatchesOf, Batchable
    <2> QED
        BY <1>1, <2>1, EmptySeq
<1>2. CASE ModeOf(c) # "application" /\ P = <<>>
    <2>1. B = <<>> /\ B \in Seq(Seq(Host)) /\ Len(B) = 0 /\ Len(P) = 0
        <3>1. B = <<>>
            BY <1>2 DEF BatchesOf
        <3>2. Len(P) = 0
            BY <1>2
        <3> QED
            BY <3>1, <3>2
    <2>2. ~ HasCanary(P)
        BY <1>c, <2>1 DEF HasCanary
    <2> HIDE DEF B, P
    <2>3. Cuts(B, P)
        BY <2>1 DEF Cuts
    <2> QED
        BY <1>2, <2>1, <2>2, <2>3 DEF B, P
<1>3. CASE ModeOf(c) # "application" /\ P # <<>> /\ Batchable(c)
    <2>1. B = RolloutHostBatches(P)
        BY <1>3 DEF BatchesOf
    <2> HIDE DEF B, P
    <2>2. Cuts(B, P)
        BY <1>0, <2>1, CanaryCuts
    <2>3. rollout.batchSize > 0 => \A i \in 1 .. Len(B) : Len(B[i]) <= Bound(c)
        BY <1>0, <2>1, CanaryCuts DEF Bound, P
    <2>4. HasCanary(P) =>
              /\ Len(B) > 1 /\ Len(B[1]) = rollout.canary
              /\ \A p \in 1 .. rollout.canary : B[1][p] = P[p]
        BY <1>0, <2>1, CanaryCuts
    <2>5. B \in Seq(Seq(Host))
        BY <2>2 DEF Cuts
    <2> QED
        BY <1>3, <2>2, <2>3, <2>4, <2>5 DEF B, P
<1>4. CASE ModeOf(c) # "application" /\ P # <<>> /\ ~ Batchable(c)
    <2>1. B = <<P>> /\ Len(P) >= 1
        BY <1>0, <1>4, EmptySeq DEF BatchesOf
    <2>2. B \in Seq(Seq(Host)) /\ Len(B) = 1 /\ B[1] = P
        BY <1>0, <2>1
    <2> HIDE DEF B, P
    <2>3. \A i \in 1 .. Len(B) : i = 1 /\ B[i] = P
        BY <2>2
    <2>4. Cuts(B, P)
        <3>1. \A i \in 1 .. Len(B) : Len(B[i]) \in 1 .. Len(P)
            BY <1>0, <2>1, <2>3
        <3>2. \A e \in 1 .. Len(P) : 1 \in 1 .. Len(B) /\ e \in 1 .. Len(B[1]) /\ B[1][e] = P[e]
            BY <2>2
        <3>3. \A i, j \in 1 .. Len(B) : \A p \in 1 .. Len(B[i]), q \in 1 .. Len(B[j]) :
                  B[i][p] = B[j][q] => i = j /\ p = q
            BY <1>0, <2>3 DEF Distinct
        <3>4. \A i \in 1 .. Len(B) : \A p \in 1 .. Len(B[i]) : p \in 1 .. Len(P) /\ B[i][p] = P[p]
            BY <2>3
        <3> QED
            BY <2>2, <3>1, <3>2, <3>3, <3>4 DEF Cuts
    <2> QED
        BY <1>4, <2>2, <2>4 DEF B, P
<1> QED
    BY <1>1, <1>2, <1>3, <1>4

-----------------------------------------------------------------------------
(* Where an execution is: the invariant. *)

(* What a component has done when it is over on all hosts. *)
Final(c, h) == IF h \in Range(ProvisioningHosts(c)) THEN Full(c) ELSE 0

Manifested(c) == ModeOf(c) \in {"bootstrap", "application"}

Canaried(c) == Batchable(c) /\ HasCanary(ProvisioningHosts(c))

Typed ==
    /\ kinds \in [Component -> Kind] /\ rollout \in Strategy /\ joined \subseteq Host
    /\ component \in Component
    /\ batches \in Seq(Seq(Host))
    /\ \A i \in 1 .. Len(batches) : Len(batches[i]) \in 1 .. Len(Hosts)
    /\ index \in 1 .. Len(batches) + 1 /\ phase \in 1 .. 9 /\ pos \in 1 .. Len(Hosts)
    /\ reached \in [Component -> [Host -> 0 .. 8]]
    /\ localResourcesApplied \in {"no", "yes"} /\ manifests \subseteq Component
    /\ status \in Status

(* Components before the present one are over, those after it untouched.     *)
InSequence ==
    \A c \in Component, h \in Host :
        /\ c < component => reached[c][h] = Final(c, h)
        /\ c > component => reached[c][h] = 0

(* Phases the p-th host of the i-th batch is through.                        *)
Steps(i, p) ==
    IF i < index THEN Full(component)
    ELSE IF i = index THEN IF p < pos THEN phase ELSE phase - 1
    ELSE 0

(* Where the present component is on the hosts.                              *)
InPosition ==
    /\ status = "component" => \A h \in Host : reached[component][h] = 0
    /\ status \in {"hosts", "Paused"} =>
          /\ batches = BatchesOf(component)
          /\ index <= Len(batches) => pos <= Len(batches[index]) /\ phase <= Full(component)
          /\ \A i \in 1 .. Len(batches) : \A p \in 1 .. Len(batches[i]) :
                reached[component][batches[i][p]] = Steps(i, p)
          /\ \A h \in Host :
                (\A i \in 1 .. Len(batches) : \A p \in 1 .. Len(batches[i]) : batches[i][p] # h)
                => reached[component][h] = 0
    /\ status \in {"cluster", "Succeeded"} =>
          \A h \in Host : reached[component][h] = Final(component, h)
    /\ status = "Failed" => FailureContained /\ CanaryFirst

(* With a pause, nothing goes past the first canary.                         *)
PauseKept ==
    /\ \A c \in Component : c < component /\ Canaried(c) => ~ rollout.pause
    /\ Canaried(component) /\ rollout.pause =>
          /\ status = "hosts" => index = 1
          /\ status \notin {"cluster", "Succeeded"}
    /\ status = "Paused" =>
          Canaried(component) /\ rollout.pause /\ index = 2 /\ phase = 1 /\ pos = 1

Past(application, bootstrap) ==
    \/ ModeOf(component) = "application" /\ phase > application
    \/ ModeOf(component) = "bootstrap" /\ phase > bootstrap

(* What has been applied to the cluster.                                     *)
OnCluster ==
    /\ resources = IF localResourcesApplied = "yes" THEN 1 ELSE 0
    /\ manifests # {} => localResourcesApplied = "yes"
    /\ \A c \in Component : /\ c < component => (c \in manifests <=> Manifested(c))
                            /\ c \in manifests => c <= component
    /\ status \in {"component", "hosts", "Paused"} => component \notin manifests
    /\ status = "cluster" =>
          /\ phase <= Len(ClusterSteps(component)) + 1
          /\ component \in manifests <=> Past(3, 2)
          /\ Past(2, 1) => localResourcesApplied = "yes"
    /\ status = "Succeeded" =>
          component = Components /\ (component \in manifests <=> Manifested(component))

IInv == Typed /\ InSequence /\ InPosition /\ PauseKept /\ OnCluster

-----------------------------------------------------------------------------
(* No step changes the components, the strategy or who has joined.           *)
LEMMA Unmoved ==
    ASSUME config' = config, NEW c \in Component
    PROVE  /\ ProvisioningHosts(c)' = ProvisioningHosts(c)
           /\ ModeOf(c)' = ModeOf(c) /\ Full(c)' = Full(c)
           /\ ClusterSteps(c)' = ClusterSteps(c) /\ BatchesOf(c)' = BatchesOf(c)
           /\ Canaried(c)' <=> Canaried(c)
           /\ Canary(c)' = Canary(c) /\ Bound(c)' = Bound(c)
           /\ \A h : Final(c, h)' = Final(c, h)
<1>1. kinds' = kinds /\ rollout' = rollout /\ joined' = joined
    BY DEF config
<1>2. Fresh' = Fresh
    BY <1>1 DEF Fresh
<1>3. \A n : NthFresh(n)' = NthFresh(n)
    BY <1>1, <1>2 DEF NthFresh
<1>4. ProvisioningHosts(c)' = ProvisioningHosts(c)
    BY <1>1, <1>2, <1>3 DEF ProvisioningHosts
<1>5. ModeOf(c)' = ModeOf(c) /\ (Batchable(c)' <=> Batchable(c))
    BY <1>1 DEF ModeOf, Batchable
<1>6. GatedBatches(c)' <=> GatedBatches(c)
    BY <1>1, <1>4, <1>5 DEF GatedBatches
<1>7. HostPhases(c)' = HostPhases(c) /\ ClusterSteps(c)' = ClusterSteps(c)
    BY <1>5, <1>6 DEF HostPhases, ClusterSteps
<1>8. Full(c)' = Full(c)
    BY <1>7 DEF Full
<1>9. \A hosts : HasCanary(hosts)' <=> HasCanary(hosts)
    BY <1>1 DEF HasCanary
<1>10. \A hosts : RolloutHostBatches(hosts)' = RolloutHostBatches(hosts)
    BY <1>1, <1>9 DEF RolloutHostBatches
<1>11. BatchesOf(c)' = BatchesOf(c)
    <2>1. HasCanary(ProvisioningHosts(c))' <=> HasCanary(ProvisioningHosts(c))
        BY <1>1, <1>4 DEF HasCanary
    <2>2. RolloutHostBatches(ProvisioningHosts(c))' = RolloutHostBatches(ProvisioningHosts(c))
        BY <1>1, <1>4, <2>1 DEF RolloutHostBatches
    <2> QED
        BY <1>4, <1>5, <2>2 DEF BatchesOf
<1>12. Canaried(c)' <=> Canaried(c)
    BY <1>1, <1>4, <1>5 DEF Canaried, HasCanary
<1>13. Canary(c)' = Canary(c) /\ Bound(c)' = Bound(c)
    BY <1>1, <1>4 DEF Canary, Bound, HasCanary
<1>14. \A h : Final(c, h)' = Final(c, h)
    BY <1>4, <1>8 DEF Final
<1> QED
    BY <1>4, <1>5, <1>7, <1>8, <1>11, <1>12, <1>13, <1>14

-----------------------------------------------------------------------------
(* Every step keeps the invariant. *)

(* An execution starts with nothing done.                                    *)
LEMMA Begins ==
    Init => IInv
<1> SUFFICES ASSUME Init PROVE IInv
    OBVIOUS
<1>1. Components >= 1 /\ Components \in Nat /\ Len(Hosts) >= 1 /\ Len(Hosts) \in Nat
    BY Facts
<1>2. /\ component = 1 /\ component \in Component /\ batches = <<>> /\ index = 1 /\ phase = 1 /\ pos = 1
      /\ reached = [c \in Component |-> [h \in Host |-> 0]]
      /\ localResourcesApplied = "no" /\ resources = 0 /\ manifests = {} /\ status = "component"
    BY <1>1 DEF Init, Component
<1>3. batches \in Seq(Seq(Host)) /\ Len(batches) = 0
    BY <1>2
<1>4. \A c \in Component : ~ (c < component)
    BY <1>1, <1>2 DEF Component
<1>5. \A c \in Component, h \in Host : reached[c][h] = 0
    BY <1>2
<1>6. Typed
    <2>1. index \in 1 .. Len(batches) + 1 /\ phase \in 1 .. 9 /\ pos \in 1 .. Len(Hosts)
        BY <1>1, <1>2, <1>3
    <2> QED
        BY <1>2, <1>3, <2>1 DEF Typed, Init, Status
<1>7. InSequence
    BY <1>4, <1>5 DEF InSequence
<1>8. InPosition
    BY <1>2, <1>5 DEF InPosition
<1>9. PauseKept
    BY <1>2, <1>4 DEF PauseKept
<1>10. OnCluster
    BY <1>2, <1>4 DEF OnCluster
<1> QED
    BY <1>6, <1>7, <1>8, <1>9, <1>10 DEF IInv

(* Only the steps of the present component change what is done.              *)
LEMMA Settled ==
    ASSUME InSequence, config' = config, component' = component,
           \A c \in Component : c # component => reached'[c] = reached[c]
    PROVE  InSequence'
<1>1. \A c \in Component, h \in Host : Final(c, h)' = Final(c, h)
    BY Unmoved
<1>2. \A c \in Component : c < component \/ c > component => c # component
    BY DEF Component
<1> SUFFICES ASSUME NEW c \in Component, NEW h \in Host
             PROVE  /\ c < component' => reached'[c][h] = Final(c, h)'
                    /\ c > component' => reached'[c][h] = 0
    BY DEF InSequence
<1>3. /\ c < component => reached[c][h] = Final(c, h)
      /\ c > component => reached[c][h] = 0
    BY DEF InSequence
<1> QED
    BY <1>1, <1>2, <1>3

(* A component is begun: its batches are made, no host is touched.           *)
LEMMA Applying ==
    ASSUME IInv, ApplyComponent
    PROVE  IInv'
<1> USE DEF IInv
<1>1. /\ config' = config /\ component' = component /\ reached' = reached /\ shared' = shared
      /\ batches' = BatchesOf(component) /\ index' = 1 /\ phase' = 1 /\ pos' = 1
      /\ status = "component" /\ status' = "hosts"
    BY DEF ApplyComponent, effects
<1>2. /\ kinds' = kinds /\ rollout' = rollout /\ joined' = joined
      /\ localResourcesApplied' = localResourcesApplied /\ resources' = resources
      /\ manifests' = manifests
    BY <1>1 DEF config, shared
<1>3. component \in Component /\ kinds \in [Component -> Kind] /\ rollout \in Strategy
    BY DEF Typed
<1>4. /\ BatchesOf(component) \in Seq(Seq(Host))
      /\ ModeOf(component) = "application" => BatchesOf(component) = <<>>
      /\ ModeOf(component) # "application" =>
            Cuts(BatchesOf(component), ProvisioningHosts(component))
    BY <1>3, BatchesCut
<1>5. Full(component) \in {0, 7, 8} /\ (Full(component) = 0 <=> ModeOf(component) = "application")
    BY <1>3, Modes
<1>6. /\ Len(batches') \in Nat
      /\ \A i \in 1 .. Len(batches') :
            /\ Len(batches'[i]) \in 1 .. Len(Hosts)
            /\ Full(component) \in {7, 8}
            /\ \A p \in 1 .. Len(batches'[i]) : batches'[i][p] \in Host
    <2>1. Len(batches') \in Nat /\ batches' \in Seq(Seq(Host))
        BY <1>1, <1>4, LenProperties
    <2>2. ASSUME NEW i \in 1 .. Len(batches')
          PROVE  Len(batches'[i]) \in 1 .. Len(Hosts) /\ Full(component) \in {7, 8}
        <3>1. ModeOf(component) # "application"
            BY <1>1, <1>4, <2>1
        <3>2. Len(batches'[i]) \in 1 .. Len(ProvisioningHosts(component))
            BY <1>1, <1>4, <3>1 DEF Cuts
        <3>3. /\ Len(ProvisioningHosts(component)) <= Len(Hosts) /\ Len(Hosts) \in Nat
              /\ ProvisioningHosts(component) \in Seq(Host)
            BY <1>3, Provisioned, Facts
        <3>4. Len(ProvisioningHosts(component)) \in Nat
            BY <3>3, LenProperties
        <3> QED
            BY <1>5, <3>1, <3>2, <3>3, <3>4
    <2>3. \A i \in 1 .. Len(batches') : \A p \in 1 .. Len(batches'[i]) : batches'[i][p] \in Host
        BY <2>1, ElementOfSeq
    <2> QED
        BY <2>1, <2>2, <2>3
<1>7. Typed'
    <2>1. index' \in 1 .. Len(batches') + 1 /\ phase' \in 1 .. 9 /\ pos' \in 1 .. Len(Hosts)
        BY <1>1, <1>6, Facts
    <2> QED
        BY <1>1, <1>2, <1>4, <1>6, <2>1 DEF Typed, Status
<1>8. InSequence'
    BY <1>1, Settled
<1>9. InPosition'
    <2>1. \A h \in Host : reached'[component'][h] = 0
        BY <1>1 DEF InPosition
    <2>2. batches' = BatchesOf(component)'
        BY <1>1, <1>3, Unmoved
    <2>3. \A i \in 1 .. Len(batches') : \A p \in 1 .. Len(batches'[i]) :
              reached'[component'][batches'[i][p]] = Steps(i, p)'
        <3> TAKE i \in 1 .. Len(batches')
        <3> TAKE p \in 1 .. Len(batches'[i])
        <3>1. Steps(i, p)' = 0
            BY <1>1, <1>6 DEF Steps
        <3> QED
            BY <1>6, <2>1, <3>1
    <2>4. index' <= Len(batches') => pos' <= Len(batches'[index']) /\ phase' <= Full(component)'
        <3>1. Full(component)' = Full(component)
            BY <1>1, <1>3, Unmoved
        <3> QED
            BY <1>1, <1>6, <3>1
    <2> QED
        BY <1>1, <2>1, <2>2, <2>3, <2>4 DEF InPosition
<1>10. PauseKept'
    <2>1. \A c \in Component : Canaried(c)' <=> Canaried(c)
        BY <1>1, Unmoved
    <2>2. Canaried(component)' <=> Canaried(component)
        BY <1>1, <1>3, <2>1
    <2> QED
        BY <1>1, <1>2, <2>1, <2>2 DEF PauseKept
<1>11. OnCluster'
    <2>1. \A c \in Component : Manifested(c)' <=> Manifested(c)
        BY <1>1, Unmoved DEF Manifested
    <2> QED
        BY <1>1, <1>2, <2>1 DEF OnCluster
<1> QED
    BY <1>7, <1>8, <1>9, <1>10, <1>11

-----------------------------------------------------------------------------
(* What the properties say of the hosts, of what is reached or has just been *)
(* reached.                                                                  *)

(* A set whose members are among n is finite and has at most n.              *)
LEMMA Elements ==
    ASSUME NEW n \in Nat, NEW s, NEW S, \A x \in S : \E p \in 1 .. n : x = s[p]
    PROVE  Cardinality(S) \in Nat /\ Cardinality(S) <= n
<1> DEFINE T == {s[p] : p \in 1 .. n}
           f == [p \in 1 .. n |-> s[p]]
<1>1. f \in Surjection(1 .. n, T)
    BY DEF Surjection
<1>2. IsFiniteSet(1 .. n) /\ Cardinality(1 .. n) = n
    BY FS_Interval
<1>3. S \subseteq T
    OBVIOUS
<1> HIDE DEF f, T
<1>4. IsFiniteSet(T) /\ Cardinality(T) <= n
    BY <1>1, <1>2, FS_Surjection
<1>5. IsFiniteSet(S) /\ Cardinality(S) <= Cardinality(T)
    BY <1>3, <1>4, FS_Subset
<1> QED
    BY <1>4, <1>5, FS_CardinalityType

Partial(r, c) == {h \in Host : r[c][h] > 0 /\ r[c][h] # Full(c)}

SafeFor(r, c) ==
    /\ Batchable(c) /\ rollout.batchSize > 0 => Cardinality(Partial(r, c)) <= Bound(c)
    /\ Canaried(c) /\ (\E h \in Host \ Canary(c) : r[c][h] > 0) =>
          ~ rollout.pause /\ \A h \in Canary(c) : r[c][h] = Full(c)

(* What a failure leaves, said for one component and for all.                *)
LEMMA SafeIs ==
    /\ (\A c \in Component : SafeFor(reached, c)) <=> FailureContained /\ CanaryFirst
    /\ (\A c \in Component : SafeFor(reached, c)') <=> FailureContained' /\ CanaryFirst'
<1>1. \A c : {h \in Host : reached[c][h] > 0 /\ ~ Done(c, h)} = Partial(reached, c)
    BY DEF Done, Partial
<1>2. \A c : {h \in Host : reached[c][h] > 0 /\ ~ Done(c, h)}' = Partial(reached, c)'
    BY DEF Done, Partial
<1>3. (\A c \in Component : SafeFor(reached, c)) <=> FailureContained /\ CanaryFirst
    BY <1>1 DEF SafeFor, FailureContained, CanaryFirst, Bound, Done, Canaried
<1>4. (\A c \in Component : SafeFor(reached, c)') <=> FailureContained' /\ CanaryFirst'
    BY <1>2 DEF SafeFor, FailureContained, CanaryFirst, Bound, Done, Canaried
<1> QED
    BY <1>3, <1>4

(* Where no host is between the phases nothing is partial.                   *)
LEMMA NonePartial ==
    ASSUME rollout \in Strategy, NEW r, NEW c \in Component,
           \A h \in Host : r[c][h] = 0 \/ r[c][h] = Full(c)
    PROVE  Cardinality(Partial(r, c)) <= Bound(c)
<1>1. Partial(r, c) = {}
    BY DEF Partial
<1>2. Bound(c) \in Nat
    BY Facts DEF Bound, Strategy
<1> QED
    BY <1>1, <1>2, FS_EmptySet

(* The canary's hosts are the first that are provisioned.                    *)
LEMMA CanaryProvisioned ==
    ASSUME rollout \in Strategy, NEW c \in Component, Canaried(c)
    PROVE  /\ \A h \in Canary(c) : \E p \in 1 .. rollout.canary : h = ProvisioningHosts(c)[p]
           /\ \A p \in 1 .. rollout.canary : ProvisioningHosts(c)[p] \in Canary(c)
           /\ Canary(c) \subseteq Range(ProvisioningHosts(c))
           /\ Canary(c) \subseteq Host
<1>1. rollout.canary \in Nat
    BY Facts DEF Strategy
<1>2. /\ ProvisioningHosts(c) \in Seq(Host) /\ Range(ProvisioningHosts(c)) \subseteq Host
      /\ \A e \in 1 .. Len(ProvisioningHosts(c)) :
             ProvisioningHosts(c)[e] \in Range(ProvisioningHosts(c))
    BY Provisioned
<1>3. Len(ProvisioningHosts(c)) \in Nat
    BY <1>2, LenProperties
<1>4. \A p \in 1 .. rollout.canary : p \in 1 .. Len(ProvisioningHosts(c))
    BY <1>1, <1>3 DEF Canaried, HasCanary
<1> QED
    BY <1>2, <1>4 DEF Canary

(* Components that are over or not begun, or the present one between them.   *)
LEMMA OthersSafe ==
    ASSUME IInv, NEW c \in Component, NEW r,
           \/ c # component /\ r[c] = reached[c]
           \/ (\A h \in Host : r[c][h] = 0)
           \/ (\A h \in Host : r[c][h] = Final(c, h)) /\ (Canaried(c) => ~ rollout.pause)
    PROVE  SafeFor(r, c)
<1> USE DEF IInv
<1>0. rollout \in Strategy /\ component \in Component /\ Components \in Nat
    BY Facts DEF Typed
<1>1. \/ \A h \in Host : r[c][h] = 0
      \/ (\A h \in Host : r[c][h] = Final(c, h)) /\ (Canaried(c) => ~ rollout.pause)
    <2>1. CASE c # component /\ r[c] = reached[c]
        <3>1. c < component \/ c > component
            BY <1>0, <2>1 DEF Component
        <3> QED
            BY <2>1, <3>1 DEF InSequence, PauseKept
    <2> QED
        BY <2>1
<1>2. \A h \in Host : r[c][h] = 0 \/ r[c][h] = Full(c)
    BY <1>1 DEF Final
<1>3. Cardinality(Partial(r, c)) <= Bound(c)
    BY <1>0, <1>2, NonePartial
<1>4. ASSUME Canaried(c), NEW g \in Host \ Canary(c), r[c][g] > 0
      PROVE  ~ rollout.pause /\ \A h \in Canary(c) : r[c][h] = Full(c)
    <2>1. (\A h \in Host : r[c][h] = Final(c, h)) /\ ~ rollout.pause
        BY <1>1, <1>4
    <2> QED
        BY <1>0, <1>4, <2>1, CanaryProvisioned DEF Final
<1> QED
    BY <1>3, <1>4 DEF SafeFor

(* The batches of the present component while it is on the hosts.            *)
LEMMA Placed ==
    ASSUME IInv, status \in {"hosts", "Paused"}
    PROVE  /\ Len(batches) \in Nat
           /\ \A i \in 1 .. Len(batches) : \A p \in 1 .. Len(batches[i]) :
                 /\ batches[i][p] \in Host
                 /\ batches[i][p] \in Range(ProvisioningHosts(component))
           /\ \A i, j \in 1 .. Len(batches) :
                 \A p \in 1 .. Len(batches[i]), q \in 1 .. Len(batches[j]) :
                    batches[i][p] = batches[j][q] => i = j /\ p = q
           /\ ModeOf(component) # "application" =>
                 \A h \in Range(ProvisioningHosts(component)) :
                    \E i \in 1 .. Len(batches) : \E p \in 1 .. Len(batches[i]) :
                       batches[i][p] = h
           /\ Batchable(component) /\ rollout.batchSize > 0 =>
                 \A i \in 1 .. Len(batches) : Len(batches[i]) <= Bound(component)
           /\ Canaried(component) =>
                 /\ Len(batches) > 1 /\ Len(batches[1]) = rollout.canary
                 /\ \A p \in 1 .. rollout.canary :
                       batches[1][p] = ProvisioningHosts(component)[p]
<1> USE DEF IInv
<1> DEFINE P == ProvisioningHosts(component)
<1>1. component \in Component /\ kinds \in [Component -> Kind] /\ rollout \in Strategy
    BY DEF Typed
<1>2. batches = BatchesOf(component)
    BY DEF InPosition
<1>3. /\ batches \in Seq(Seq(Host))
      /\ ModeOf(component) = "application" => batches = <<>>
      /\ ModeOf(component) # "application" => Cuts(batches, P)
      /\ Batchable(component) /\ rollout.batchSize > 0 =>
            \A i \in 1 .. Len(batches) : Len(batches[i]) <= Bound(component)
      /\ Canaried(component) =>
            /\ Len(batches) > 1 /\ Len(batches[1]) = rollout.canary
            /\ \A p \in 1 .. rollout.canary : batches[1][p] = P[p]
    BY <1>1, <1>2, BatchesCut DEF Canaried
<1>4. /\ \A h \in Range(P) : \E e \in 1 .. Len(P) : P[e] = h
      /\ \A e \in 1 .. Len(P) : P[e] \in Range(P) /\ P[e] \in Host
    BY <1>1, Provisioned
<1>5. Len(batches) \in Nat
    BY <1>3, LenProperties
<1> HIDE DEF P
<1>6. CASE ModeOf(component) = "application"
    <2>1. Len(batches) = 0
        BY <1>3, <1>6
    <2> QED
        BY <1>3, <1>5, <1>6, <2>1 DEF P
<1>7. CASE ModeOf(component) # "application"
    <2>1. Cuts(batches, P)
        BY <1>3, <1>7
    <2>2. \A i \in 1 .. Len(batches) : \A p \in 1 .. Len(batches[i]) :
              batches[i][p] \in Host /\ batches[i][p] \in Range(P)
        <3>1. \A i \in 1 .. Len(batches) : \A p \in 1 .. Len(batches[i]) :
                  \E e \in 1 .. Len(P) : batches[i][p] = P[e]
            BY <2>1 DEF Cuts
        <3> QED
            BY <1>4, <3>1
    <2>3. ASSUME NEW h \in Range(P)
          PROVE  \E i \in 1 .. Len(batches) : \E p \in 1 .. Len(batches[i]) : batches[i][p] = h
        <3>1. PICK e \in 1 .. Len(P) : P[e] = h
            BY <1>4
        <3>2. \E i \in 1 .. Len(batches) : \E p \in 1 .. Len(batches[i]) : batches[i][p] = P[e]
            BY <2>1 DEF Cuts
        <3> QED
            BY <3>1, <3>2
    <2>4. \A i, j \in 1 .. Len(batches) :
              \A p \in 1 .. Len(batches[i]), q \in 1 .. Len(batches[j]) :
                 batches[i][p] = batches[j][q] => i = j /\ p = q
        BY <2>1 DEF Cuts
    <2> QED
        BY <1>3, <1>5, <2>2, <2>3, <2>4 DEF P
<1> QED
    BY <1>6, <1>7

(* The batch being worked on, with what its present host may have just done. *)
LEMMA BatchSafe ==
    ASSUME IInv, status \in {"hosts", "Paused"}, NEW r,
           \A h \in Host : \/ r[component][h] = reached[component][h]
                           \/ AtHost /\ h = CurrentHost
    PROVE  SafeFor(r, component)
<1> USE DEF IInv
<1> DEFINE In(h, i, p) == i \in 1 .. Len(batches) /\ p \in 1 .. Len(batches[i]) /\ batches[i][p] = h
<1>0. /\ component \in Component /\ rollout \in Strategy /\ kinds \in [Component -> Kind]
      /\ index \in Nat /\ index >= 1 /\ phase \in Nat /\ phase >= 1 /\ pos \in Nat /\ pos >= 1
      /\ Full(component) \in Nat
    <2>1. component \in Component /\ rollout \in Strategy /\ kinds \in [Component -> Kind]
        BY DEF Typed
    <2>2. index \in Nat /\ index >= 1 /\ phase \in Nat /\ phase >= 1 /\ pos \in Nat /\ pos >= 1
        BY Placed, Facts DEF Typed
    <2> QED
        BY <2>1, <2>2, Modes
<1>1. \A i \in 1 .. Len(batches) : \A p \in 1 .. Len(batches[i]) :
          batches[i][p] \in Host /\ reached[component][batches[i][p]] = Steps(i, p)
    BY Placed DEF InPosition
<1>2. AtHost => index \in 1 .. Len(batches) /\ pos \in 1 .. Len(batches[index])
    <2>1. \A i \in 1 .. Len(batches) : Len(batches[i]) \in Nat
        BY Facts DEF Typed
    <2> QED
        BY <1>0, <2>1, Placed DEF AtHost, InPosition
<1>3. ASSUME NEW h \in Host, r[component][h] > 0
      PROVE  \E i \in 1 .. Len(batches) : \E p \in 1 .. Len(batches[i]) :
                batches[i][p] = h /\ i <= index /\ (status = "Paused" => i < index)
    <2>1. CASE AtHost /\ h = CurrentHost
        BY <1>0, <1>2, <2>1 DEF AtHost, CurrentHost
    <2>2. CASE r[component][h] = reached[component][h]
        <3>1. PICK i \in 1 .. Len(batches) : \E p \in 1 .. Len(batches[i]) : batches[i][p] = h
            BY <1>3, <2>2 DEF InPosition
        <3>2. PICK p \in 1 .. Len(batches[i]) : batches[i][p] = h
            BY <3>1
        <3>3. Steps(i, p) > 0
            BY <1>1, <1>3, <2>2, <3>2
        <3>4. i <= index
            BY <1>0, <3>3 DEF Steps
        <3>5. status = "Paused" => i < index
            <4>1. status = "Paused" => phase = 1 /\ pos = 1
                BY DEF PauseKept
            <4>2. Len(batches[i]) \in Nat
                BY Facts DEF Typed
            <4>3. p >= 1 /\ p \in Nat
                BY <4>2
            <4> QED
                BY <1>0, <3>3, <3>4, <4>1, <4>3 DEF Steps
        <3> QED
            BY <3>2, <3>4, <3>5
    <2> QED
        BY <2>1, <2>2
<1>4. ASSUME NEW i \in 1 .. Len(batches), NEW p \in 1 .. Len(batches[i]), i < index
      PROVE  r[component][batches[i][p]] = Full(component)
    <2>1. ~ (AtHost /\ batches[i][p] = CurrentHost)
        <3> SUFFICES ASSUME AtHost, batches[i][p] = batches[index][pos] PROVE FALSE
            BY DEF CurrentHost
        <3>1. i = index
            BY <1>2, Placed
        <3> QED
            BY <1>0, <1>4, <3>1
    <2>2. r[component][batches[i][p]] = Steps(i, p)
        BY <1>1, <2>1
    <2> QED
        BY <1>4, <2>2 DEF Steps
<1>5. Batchable(component) /\ rollout.batchSize > 0 =>
          Cardinality(Partial(r, component)) <= Bound(component)
    <2>0. Bound(component) \in Nat
        BY <1>0, Facts DEF Bound, Strategy
    <2>1. CASE \A h \in Host : r[component][h] = 0 \/ r[component][h] = Full(component)
        BY <1>0, <2>1, NonePartial
    <2>2. CASE \E g \in Host : r[component][g] # 0 /\ r[component][g] # Full(component)
        <3> SUFFICES ASSUME Batchable(component), rollout.batchSize > 0
                     PROVE  Cardinality(Partial(r, component)) <= Bound(component)
            OBVIOUS
        <3>1. ASSUME NEW h \in Host, r[component][h] > 0, r[component][h] # Full(component)
              PROVE  index \in 1 .. Len(batches) /\ \E p \in 1 .. Len(batches[index]) : h = batches[index][p]
            <4>1. PICK i \in 1 .. Len(batches) : \E p \in 1 .. Len(batches[i]) :
                         batches[i][p] = h /\ i <= index
                BY <1>3, <3>1
            <4>2. PICK p \in 1 .. Len(batches[i]) : batches[i][p] = h
                BY <4>1
            <4>3. i = index
                BY <1>0, <1>4, <3>1, <4>1, <4>2
            <4> QED
                BY <4>2, <4>3
        <3>2. CASE index \in 1 .. Len(batches)
            <4>1. Len(batches[index]) \in Nat /\ Len(batches[index]) <= Bound(component)
                BY <3>2, Placed, Facts DEF Typed
            <4>2. \A h \in Partial(r, component) : \E p \in 1 .. Len(batches[index]) : h = batches[index][p]
                BY <3>1 DEF Partial
            <4>3. Cardinality(Partial(r, component)) \in Nat
                  /\ Cardinality(Partial(r, component)) <= Len(batches[index])
                BY <4>1, <4>2, Elements
            <4> QED
                BY <2>0, <4>1, <4>3
        <3>3. CASE index \notin 1 .. Len(batches)
            <4>1. Partial(r, component) = {}
                BY <3>1, <3>3 DEF Partial
            <4> QED
                BY <2>0, <4>1, FS_EmptySet
        <3> QED
            BY <3>2, <3>3
    <2> QED
        BY <2>1, <2>2
<1>6. ASSUME Canaried(component), NEW g \in Host \ Canary(component), r[component][g] > 0
      PROVE  ~ rollout.pause /\ \A h \in Canary(component) : r[component][h] = Full(component)
    <2>1. PICK i \in 1 .. Len(batches) : \E p \in 1 .. Len(batches[i]) :
                 batches[i][p] = g /\ i <= index /\ (status = "Paused" => i < index)
        BY <1>3, <1>6
    <2>2. /\ Len(batches) > 1 /\ Len(batches[1]) = rollout.canary /\ Len(batches) \in Nat
          /\ \A p \in 1 .. rollout.canary : batches[1][p] \in Canary(component)
          /\ \A h \in Canary(component) : \E p \in 1 .. rollout.canary : h = batches[1][p]
        BY <1>0, <1>6, Placed, CanaryProvisioned
    <2>3. i # 1
        BY <1>6, <2>1, <2>2
    <2>4. index >= 2 /\ (status = "Paused" => index > 2)
        BY <1>0, <2>1, <2>2, <2>3
    <2>5. ~ rollout.pause
        BY <1>6, <2>4 DEF PauseKept
    <2>6. \A h \in Canary(component) : r[component][h] = Full(component)
        BY <1>0, <1>4, <2>2, <2>4
    <2> QED
        BY <2>5, <2>6
<1> QED
    BY <1>5, <1>6 DEF SafeFor

(* Whatever happens next, a failure would be contained.                      *)
LEMMA Contained ==
    ASSUME IInv
    PROVE  \A c \in Component : SafeFor(reached, c)
<1> USE DEF IInv
<1>0. component \in Component /\ status \in Status
    BY DEF Typed
<1>1. CASE status = "Failed"
    BY <1>1, SafeIs DEF InPosition
<1>2. CASE status # "Failed"
    <2>1. SafeFor(reached, component)
        <3>1. CASE status = "component"
            BY <1>0, <3>1, OthersSafe DEF InPosition
        <3>2. CASE status \in {"hosts", "Paused"}
            BY <3>2, BatchSafe
        <3>3. CASE status \in {"cluster", "Succeeded"}
            <4>1. Canaried(component) => ~ rollout.pause
                BY <3>3 DEF PauseKept
            <4>2. \A h \in Host : reached[component][h] = Final(component, h)
                BY <3>3 DEF InPosition
            <4> QED
                BY <1>0, <4>1, <4>2, OthersSafe
        <3> QED
            BY <1>0, <1>2, <3>1, <3>2, <3>3 DEF Status
    <2>2. \A c \in Component : c # component => SafeFor(reached, c)
        BY OthersSafe
    <2> QED
        BY <2>1, <2>2
<1> QED
    BY <1>1, <1>2

(* An execution that has failed only keeps what the properties say.          *)
LEMMA Failing ==
    ASSUME IInv, config' = config, progress' = progress, shared' = shared,
           reached' \in [Component -> [Host -> 0 .. 8]],
           \A c \in Component : c # component => reached'[c] = reached[c],
           \A h \in Host : \/ reached'[component][h] = reached[component][h]
                           \/ AtHost /\ h = CurrentHost,
           reached' = reached \/ AtHost, status' = "Failed"
    PROVE  IInv'
<1> USE DEF IInv
<1>1. /\ kinds' = kinds /\ rollout' = rollout /\ joined' = joined
      /\ component' = component /\ batches' = batches /\ index' = index /\ phase' = phase
      /\ pos' = pos /\ localResourcesApplied' = localResourcesApplied
      /\ resources' = resources /\ manifests' = manifests
    BY DEF config, progress, shared
<1>2. component \in Component
    BY DEF Typed
<1>3. Typed'
    BY <1>1 DEF Typed, Status
<1>4. InSequence'
    BY <1>1, Settled
<1>5. PauseKept'
    <2>1. \A c \in Component : Canaried(c)' <=> Canaried(c)
        BY Unmoved
    <2>2. Canaried(component)' <=> Canaried(component)
        BY <1>1, <1>2, <2>1
    <2> QED
        BY <1>1, <2>1, <2>2 DEF PauseKept
<1>6. OnCluster'
    <2>1. \A c \in Component : Manifested(c)' <=> Manifested(c)
        BY Unmoved DEF Manifested
    <2> QED
        BY <1>1, <2>1 DEF OnCluster
<1>7. InPosition'
    <2>1. \A c \in Component : SafeFor(reached', c)
        <3>1. ASSUME NEW c \in Component, c # component PROVE SafeFor(reached', c)
            BY <3>1, OthersSafe
        <3>2. SafeFor(reached', component)
            <4>1. CASE reached' = reached
                BY <1>2, <4>1, Contained
            <4>2. CASE AtHost
                BY <4>2, BatchSafe DEF AtHost
            <4> QED
                BY <4>1, <4>2
        <3> QED
            BY <3>1, <3>2
    <2>2. ASSUME NEW c \in Component PROVE SafeFor(reached, c)'
        <3>1. /\ Full(c)' = Full(c) /\ Bound(c)' = Bound(c) /\ Canary(c)' = Canary(c)
              /\ Canaried(c)' <=> Canaried(c)
              /\ Batchable(c)' <=> Batchable(c)
            BY Unmoved DEF Batchable
        <3>2. Partial(reached, c)' = Partial(reached', c)
            BY <3>1 DEF Partial
        <3> QED
            BY <1>1, <2>1, <3>1, <3>2 DEF SafeFor
    <2>3. FailureContained' /\ CanaryFirst'
        BY <2>2, SafeIs
    <2> QED
        BY <1>1, <2>3 DEF InPosition
<1> QED
    BY <1>3, <1>4, <1>5, <1>6, <1>7

(* A failure of any kind ends the execution where it stands.                 *)
LEMMA FailingSteps ==
    ASSUME IInv,
           ApplyComponentFails \/ HostStepFails \/ HookFails \/ ClusterStepFails
    PROVE  IInv'
<1>1. reached \in [Component -> [Host -> 0 .. 8]] /\ component \in Component /\ phase \in 1 .. 9
    BY DEF IInv, Typed
<1>2. CASE ApplyComponentFails \/ HookFails \/ ClusterStepFails
    <2>1. config' = config /\ progress' = progress /\ reached' = reached /\ shared' = shared
          /\ status' = "Failed"
        BY <1>2 DEF ApplyComponentFails, HookFails, ClusterStepFails, effects
    <2> QED
        BY <1>1, <2>1, Failing
<1>3. CASE HostStepFails
    <2>1. config' = config /\ progress' = progress /\ shared' = shared /\ AtHost
          /\ status' = "Failed"
        BY <1>3 DEF HostStepFails
    <2>2. CASE reached' = reached
        BY <1>1, <2>1, <2>2, Failing
    <2>3. CASE reached' = [reached EXCEPT ![component][CurrentHost] = phase]
        <3>1. phase \in 0 .. 8
            <4>1. phase <= Full(component) /\ Full(component) \in {0, 7, 8}
                BY <1>1, <2>1, Modes DEF AtHost, IInv, Typed, InPosition
            <4> QED
                BY <1>1, <4>1
        <3>2. reached' \in [Component -> [Host -> 0 .. 8]]
            BY <1>1, <2>3, <3>1
        <3>3. \A c \in Component : c # component => reached'[c] = reached[c]
            BY <1>1, <2>3
        <3>4. \A h \in Host : reached'[component][h] = reached[component][h] \/ h = CurrentHost
            BY <1>1, <2>3
        <3> QED
            BY <2>1, <3>2, <3>3, <3>4, Failing
    <2> QED
        BY <1>3, <2>2, <2>3 DEF HostStepFails
<1> QED
    BY <1>2, <1>3

(* The present host has gone through the present phase.                      *)
LEMMA Reaching ==
    ASSUME IInv, AtHost
    PROVE  /\ component \in Component /\ phase \in 1 .. 8 /\ phase <= Full(component)
           /\ index \in 1 .. Len(batches) /\ pos \in 1 .. Len(batches[index])
           /\ CurrentHost \in Host /\ reached[component][CurrentHost] = phase - 1
           /\ Full(component) \in {7, 8}
           /\ \A i \in 1 .. Len(batches) : Len(batches[i]) \in 1 .. Len(Hosts)
<1> USE DEF IInv
<1>1. component \in Component /\ kinds \in [Component -> Kind] /\ phase \in 1 .. 9
    BY DEF Typed
<1>2. Full(component) \in {0, 7, 8} /\ phase <= Full(component)
    BY <1>1, Modes DEF AtHost, InPosition
<1>3. /\ index \in 1 .. Len(batches) /\ pos \in 1 .. Len(batches[index])
      /\ \A i \in 1 .. Len(batches) : Len(batches[i]) \in 1 .. Len(Hosts)
    <2>1. Len(batches) \in Nat /\ index \in 1 .. Len(batches) + 1 /\ index <= Len(batches)
        BY Placed DEF AtHost, Typed
    <2>2. \A i \in 1 .. Len(batches) : Len(batches[i]) \in 1 .. Len(Hosts)
        BY DEF Typed
    <2>3. pos \in 1 .. Len(Hosts) /\ pos <= Len(batches[index]) /\ Len(Hosts) \in Nat
        BY <2>1, Facts DEF AtHost, InPosition, Typed
    <2>4. Len(batches[index]) \in Nat
        BY <2>1, <2>2, <2>3
    <2> QED
        BY <2>1, <2>2, <2>3, <2>4
<1>4. CurrentHost \in Host /\ reached[component][CurrentHost] = Steps(index, pos)
    BY <1>3, Placed DEF AtHost, InPosition, CurrentHost
<1>5. Steps(index, pos) = phase - 1
    BY <1>3, Facts DEF Steps
<1> QED
    BY <1>1, <1>2, <1>3, <1>4, <1>5

(* One host of the batch has one phase more; the next is due, or the pause.  *)
LEMMA HostStepping ==
    ASSUME IInv, HostStep
    PROVE  IInv'
<1> USE DEF IInv
<1>1. /\ config' = config /\ component' = component /\ batches' = batches /\ shared' = shared
      /\ AtHost /\ Advance /\ status = "hosts"
      /\ reached' = [reached EXCEPT ![component][CurrentHost] = phase]
    BY DEF HostStep, AtHost
<1>2. /\ kinds' = kinds /\ rollout' = rollout /\ joined' = joined
      /\ localResourcesApplied' = localResourcesApplied /\ resources' = resources
      /\ manifests' = manifests
    BY <1>1 DEF config, shared
<1>3. /\ component \in Component /\ phase \in 1 .. 8 /\ phase <= Full(component)
      /\ index \in 1 .. Len(batches) /\ pos \in 1 .. Len(batches[index])
      /\ CurrentHost \in Host /\ reached[component][CurrentHost] = phase - 1
      /\ Full(component) \in {7, 8} /\ Len(batches) \in Nat
      /\ \A i \in 1 .. Len(batches) : Len(batches[i]) \in 1 .. Len(Hosts)
      /\ reached \in [Component -> [Host -> 0 .. 8]]
    BY <1>1, Reaching, Placed DEF Typed
<1>4. /\ reached' \in [Component -> [Host -> 0 .. 8]]
      /\ \A c \in Component : c # component => reached'[c] = reached[c]
      /\ \A h \in Host : reached'[component][h] =
                            IF h = CurrentHost THEN phase ELSE reached[component][h]
    BY <1>1, <1>3
<1>5. Len(Hosts) \in Nat /\ Len(batches[index]) \in Nat /\ Len(batches[index]) >= 1
    BY <1>3, Facts
<1>6. \/ /\ pos < Len(batches[index])
         /\ pos' = pos + 1 /\ index' = index /\ phase' = phase /\ status' = "hosts"
      \/ /\ pos = Len(batches[index]) /\ phase < Full(component)
         /\ pos' = 1 /\ phase' = phase + 1 /\ index' = index /\ status' = "hosts"
      \/ /\ pos = Len(batches[index]) /\ phase = Full(component)
         /\ pos' = 1 /\ phase' = 1 /\ index' = index + 1
         /\ status' = IF PausesHere THEN "Paused" ELSE "hosts"
    <2>1. CASE pos < Len(batches[index])
        BY <1>1, <2>1 DEF Advance
    <2>2. CASE ~ (pos < Len(batches[index])) /\ phase < Full(component)
        <3>1. pos = Len(batches[index])
            BY <1>3, <1>5, <2>2
        <3> QED
            BY <1>1, <2>2, <3>1 DEF Advance, Full
    <2>3. CASE ~ (pos < Len(batches[index])) /\ ~ (phase < Full(component))
        <3>1. pos = Len(batches[index]) /\ phase = Full(component)
            BY <1>3, <1>5, <2>3
        <3>2. /\ pos' = 1 /\ phase' = 1 /\ index' = index + 1
              /\ status' = IF PausesHere THEN "Paused" ELSE status
            BY <1>1, <2>3 DEF Advance, Full
        <3> QED
            BY <1>1, <3>1, <3>2
    <2> QED
        BY <2>1, <2>2, <2>3
<1> HIDE DEF IInv
<1>7. \A c \in Component : Canaried(c)' <=> Canaried(c)
    BY <1>1, Unmoved
<1>8. Typed'
    <2>1. index' \in 1 .. Len(batches') + 1 /\ phase' \in 1 .. 9 /\ pos' \in 1 .. Len(Hosts)
        <3>1. index \in Nat /\ pos \in Nat /\ phase \in Nat
            BY <1>3, <1>5
        <3>2. Len(batches[index]) <= Len(Hosts) /\ Len(Hosts) >= 1
            BY <1>3, <1>5
        <3>3. index' \in 1 .. Len(batches') + 1
            BY <1>1, <1>3, <1>6, <3>1
        <3>4. phase' \in 1 .. 9
            BY <1>3, <1>6
        <3>5. pos' \in 1 .. Len(Hosts)
            <4>1. pos' = 1 \/ (pos' = pos + 1 /\ pos < Len(batches[index]))
                BY <1>6
            <4> DEFINE l == Len(batches[index])
                       n == Len(Hosts)
            <4>2. l \in Nat /\ n \in Nat /\ l <= n /\ n >= 1
                BY <1>5, <3>2
            <4> HIDE DEF l, n
            <4>3. pos' \in 1 .. n
                BY <3>1, <4>1, <4>2 DEF l
            <4> QED
                BY <4>3 DEF n
        <3> QED
            BY <3>3, <3>4, <3>5
    <2>2. status' \in Status
        BY <1>6 DEF Status
    <2>3. Typed
        BY DEF IInv
    <2> QED
        BY <1>1, <1>2, <1>4, <2>1, <2>2, <2>3 DEF Typed
<1>9. InSequence'
    BY <1>1, <1>4, Settled DEF IInv
<1>10. InPosition'
    <2>0. InPosition
        BY DEF IInv
    <2>1. batches' = BatchesOf(component)'
        BY <1>1, <1>3, <2>0, Unmoved DEF InPosition
    <2>2. Full(component)' = Full(component)
        BY <1>1, <1>3, Unmoved
    <2>3. index' <= Len(batches') => pos' <= Len(batches'[index']) /\ phase' <= Full(component)'
        <3>1. index' = index \/ index' = index + 1
            BY <1>6
        <3>2. index \in Nat /\ phase \in Nat /\ pos \in Nat
            BY <1>3, <1>5
        <3>3. index' <= Len(batches) => index' \in 1 .. Len(batches)
            BY <1>3, <3>1, <3>2
        <3>4. index' <= Len(batches) => Len(batches[index']) \in Nat /\ Len(batches[index']) >= 1
            BY <1>3, <1>5, <3>3
        <3> QED
            BY <1>1, <1>3, <1>5, <1>6, <2>2, <3>2, <3>4
    <2>4. ASSUME NEW i \in 1 .. Len(batches), NEW p \in 1 .. Len(batches[i])
          PROVE  reached'[component][batches[i][p]] = Steps(i, p)'
        <3>1. /\ batches[i][p] \in Host
              /\ reached[component][batches[i][p]] = Steps(i, p)
              /\ batches[i][p] = CurrentHost => i = index /\ p = pos
            BY <1>1, <1>3, <2>0, Placed DEF InPosition, CurrentHost
        <3>2. reached'[component][batches[i][p]] =
                 IF i = index /\ p = pos THEN phase ELSE Steps(i, p)
            BY <1>4, <3>1 DEF CurrentHost
        <3>3. /\ i \in Nat /\ p \in Nat /\ p >= 1 /\ index \in Nat /\ pos \in Nat /\ phase \in Nat
              /\ Len(batches[i]) \in Nat /\ p <= Len(batches[i])
            BY <1>3, <1>5
        <3>4. Steps(i, p)' = IF i < index' THEN Full(component)
                             ELSE IF i = index' THEN IF p < pos' THEN phase' ELSE phase' - 1
                             ELSE 0
            BY <1>1, <2>2 DEF Steps
        <3>5. Steps(i, p) = IF i < index THEN Full(component)
                            ELSE IF i = index THEN IF p < pos THEN phase ELSE phase - 1
                            ELSE 0
            BY DEF Steps
        <3>6. CASE i = index
            <4>1. p <= Len(batches[index])
                BY <3>3, <3>6
            <4>2. reached'[component][batches[i][p]] = IF p <= pos THEN phase ELSE phase - 1
                BY <3>2, <3>3, <3>5, <3>6
            <4> QED
                BY <1>3, <1>6, <3>3, <3>4, <3>6, <4>1, <4>2
        <3>7. CASE i < index
            BY <1>3, <1>6, <3>2, <3>3, <3>4, <3>5, <3>7
        <3>8. CASE i > index
            BY <1>3, <1>6, <3>2, <3>3, <3>4, <3>5, <3>8
        <3> QED
            BY <3>3, <3>6, <3>7, <3>8
    <2>5. ASSUME NEW h \in Host,
                 \A i \in 1 .. Len(batches) : \A p \in 1 .. Len(batches[i]) : batches[i][p] # h
          PROVE  reached'[component][h] = 0
        <3>1. h # CurrentHost
            BY <1>3, <2>5 DEF CurrentHost
        <3>2. reached[component][h] = 0
            BY <1>1, <2>0, <2>5 DEF InPosition
        <3> QED
            BY <1>4, <3>1, <3>2
    <2>6. status' \in {"hosts", "Paused"}
        BY <1>6
    <2> QED
        BY <1>1, <2>1, <2>3, <2>4, <2>5, <2>6 DEF InPosition
<1>11. PauseKept'
    <2>0. PauseKept
        BY DEF IInv
    <2>1. Canaried(component)' <=> Canaried(component)
        BY <1>1, <1>3, <1>7
    <2>2. ASSUME Canaried(component), rollout.pause, status' = "hosts" PROVE index' = 1
        <3>1. index = 1
            BY <1>1, <2>0, <2>2 DEF PauseKept
        <3>2. index < Len(batches)
            BY <1>1, <2>2, <3>1, Placed
        <3>3. PausesHere
            BY <2>2, <3>1, <3>2 DEF PausesHere, Canaried
        <3> QED
            BY <1>6, <2>2, <3>1, <3>3
    <2>3. ASSUME status' = "Paused"
          PROVE  Canaried(component) /\ rollout.pause /\ index' = 2 /\ phase' = 1 /\ pos' = 1
        <3>1. PausesHere /\ pos' = 1 /\ phase' = 1 /\ index' = index + 1
            BY <1>6, <2>3
        <3> QED
            BY <3>1 DEF PausesHere, Canaried
    <2>4. status' \in {"hosts", "Paused"}
        BY <1>6
    <2> QED
        BY <1>1, <1>2, <1>7, <2>0, <2>1, <2>2, <2>3, <2>4 DEF PauseKept
<1>12. OnCluster'
    <2>1. \A c \in Component : Manifested(c)' <=> Manifested(c)
        BY <1>1, Unmoved DEF Manifested
    <2>2. status' \in {"hosts", "Paused"} /\ OnCluster
        BY <1>6 DEF IInv
    <2> QED
        BY <1>1, <1>2, <2>1, <2>2 DEF OnCluster
<1> QED
    BY <1>8, <1>9, <1>10, <1>11, <1>12 DEF IInv

(* No host phase is skipped or repeated, and none before its time.           *)
LEMMA HostStepInOrder ==
    ASSUME IInv, HostStep \/ HostStepFails,
           NEW c \in Component, NEW h \in Host, reached'[c][h] # reached[c][h]
    PROVE  /\ reached'[c][h] = reached[c][h] + 1
           /\ \A b \in 1 .. (c - 1) : \A g \in Range(ProvisioningHosts(b)) : Done(b, g)
<1>1. AtHost /\ reached' = [reached EXCEPT ![component][CurrentHost] = phase]
    BY DEF HostStep, HostStepFails
<1>2. /\ component \in Component /\ phase \in 1 .. 8 /\ CurrentHost \in Host
      /\ reached[component][CurrentHost] = phase - 1
      /\ reached \in [Component -> [Host -> 0 .. 8]]
    BY <1>1, Reaching DEF IInv, Typed
<1>3. c = component /\ h = CurrentHost /\ reached'[c][h] = phase
    BY <1>1, <1>2
<1>4. ASSUME NEW b \in 1 .. (c - 1), NEW g \in Range(ProvisioningHosts(b))
      PROVE  Done(b, g)
    <2>1. b \in Component /\ b < component
        BY <1>2, <1>3, Facts DEF Component
    <2>2. g \in Host
        BY <2>1, Provisioned
    <2>3. reached[b][g] = Final(b, g)
        BY <2>1, <2>2 DEF IInv, InSequence
    <2> QED
        BY <2>3 DEF Final, Done
<1> QED
    BY <1>2, <1>3, <1>4

(* The steps on the cluster.                                                 *)
LEMMA HostsFinished ==
    ASSUME IInv, HostsDone
    PROVE  IInv'
<1>1. /\ config' = config /\ component' = component /\ batches' = batches /\ index' = index
      /\ pos' = pos /\ reached' = reached /\ shared' = shared /\ phase' = 1
      /\ status = "hosts" /\ status' = "cluster" /\ index > Len(batches)
    BY DEF HostsDone, effects
<1>2. /\ kinds' = kinds /\ rollout' = rollout /\ joined' = joined
      /\ localResourcesApplied' = localResourcesApplied /\ resources' = resources
      /\ manifests' = manifests
    BY <1>1 DEF config, shared
<1>3. component \in Component /\ kinds \in [Component -> Kind] /\ index \in Nat
      /\ Len(batches) \in Nat
    BY <1>1, Placed DEF IInv, Typed
<1>4. Typed'
    BY <1>1, <1>2 DEF IInv, Typed, Status
<1>5. InSequence'
    BY <1>1, Settled DEF IInv
<1>6. InPosition'
    <2>1. ASSUME NEW h \in Host PROVE reached[component][h] = Final(component, h)
        <3>1. CASE \E i \in 1 .. Len(batches) : \E p \in 1 .. Len(batches[i]) : batches[i][p] = h
            <4>1. PICK i \in 1 .. Len(batches) : \E p \in 1 .. Len(batches[i]) : batches[i][p] = h
                BY <3>1
            <4>2. PICK p \in 1 .. Len(batches[i]) : batches[i][p] = h
                BY <4>1
            <4>3. h \in Range(ProvisioningHosts(component))
                BY <1>1, <4>2, Placed
            <4>4. Steps(i, p) = Full(component)
                BY <1>1, <1>3 DEF Steps
            <4>5. reached[component][h] = Steps(i, p)
                BY <1>1, <4>2 DEF IInv, InPosition
            <4> QED
                BY <4>3, <4>4, <4>5 DEF Final
        <3>2. CASE \A i \in 1 .. Len(batches) : \A p \in 1 .. Len(batches[i]) : batches[i][p] # h
            <4>1. reached[component][h] = 0
                BY <1>1, <3>2 DEF IInv, InPosition
            <4>2. CASE ModeOf(component) = "application"
                BY <1>3, <4>1, <4>2, Modes DEF Final
            <4>3. CASE ModeOf(component) # "application"
                <5>1. h \notin Range(ProvisioningHosts(component))
                    BY <1>1, <3>2, <4>3, Placed
                <5> QED
                    BY <4>1, <5>1 DEF Final
            <4> QED
                BY <4>2, <4>3
        <3> QED
            BY <3>1, <3>2
    <2>2. \A h \in Host : Final(component, h)' = Final(component, h)
        BY <1>1, <1>3, Unmoved
    <2> QED
        BY <1>1, <2>1, <2>2 DEF InPosition
<1>7. PauseKept'
    <2>1. \A c \in Component : Canaried(c)' <=> Canaried(c)
        BY <1>1, Unmoved
    <2>2. Canaried(component)' <=> Canaried(component)
        BY <1>1, <1>3, <2>1
    <2>3. ~ (Canaried(component) /\ rollout.pause)
        <3> SUFFICES ASSUME Canaried(component), rollout.pause PROVE FALSE
            OBVIOUS
        <3>1. index = 1
            BY <1>1 DEF IInv, PauseKept
        <3>2. Len(batches) > 1
            BY <1>1, Placed
        <3> QED
            BY <1>1, <1>3, <3>1, <3>2
    <2> QED
        BY <1>1, <1>2, <2>1, <2>2, <2>3 DEF IInv, PauseKept
<1>8. OnCluster'
    <2>1. \A c \in Component : Manifested(c)' <=> Manifested(c)
        BY <1>1, Unmoved DEF Manifested
    <2>2. ~ Past(3, 2)' /\ ~ Past(2, 1)'
        BY <1>1 DEF Past
    <2>3. Len(ClusterSteps(component)') \in Nat
        BY <1>1, <1>3, Unmoved, Modes
    <2>4. phase' <= Len(ClusterSteps(component))' + 1
        BY <1>1, <2>3
    <2> QED
        BY <1>1, <1>2, <2>1, <2>2, <2>4 DEF IInv, OnCluster
<1> QED
    BY <1>4, <1>5, <1>6, <1>7, <1>8 DEF IInv

(* One step on the cluster as a whole.                                       *)
LEMMA ClusterStepping ==
    ASSUME IInv, ClusterStep
    PROVE  IInv'
<1>1. /\ config' = config /\ component' = component /\ batches' = batches /\ index' = index
      /\ pos' = pos /\ reached' = reached /\ phase' = phase + 1
      /\ status = "cluster" /\ status' = "cluster"
      /\ phase <= Len(ClusterSteps(component))
    BY DEF ClusterStep, AtClusterStep
<1>2. kinds' = kinds /\ rollout' = rollout /\ joined' = joined
    BY <1>1 DEF config
<1>3. component \in Component /\ kinds \in [Component -> Kind] /\ phase \in 1 .. 9
      /\ manifests \subseteq Component /\ localResourcesApplied \in {"no", "yes"}
    BY DEF IInv, Typed
<1>4. /\ Len(ClusterSteps(component)) \in 0 .. 6
      /\ ModeOf(component) \in {"batched", "runtime", "bootstrap", "application"}
      /\ ModeOf(component) = "application" => ClusterSteps(component) =
             <<"preflight", "resources", "manifests", "configure", "install", "health">>
      /\ ModeOf(component) = "bootstrap" => ClusterSteps(component) =
             <<"resources", "manifests", "health">>
      /\ ModeOf(component) \in {"batched", "runtime"} => ClusterSteps(component) \in {<<>>, <<"health">>}
    BY <1>3, Modes
<1>5. /\ CurrentStep = "manifests" <=> \/ ModeOf(component) = "application" /\ phase = 3
                                       \/ ModeOf(component) = "bootstrap" /\ phase = 2
      /\ CurrentStep = "resources" <=> \/ ModeOf(component) = "application" /\ phase = 2
                                       \/ ModeOf(component) = "bootstrap" /\ phase = 1
    <2> DEFINE all == <<"preflight", "resources", "manifests", "configure", "install", "health">>
               some == <<"resources", "manifests", "health">>
    <2>1. CASE ModeOf(component) = "application"
        <3>1. ClusterSteps(component) = all /\ Len(all) = 6
            BY <1>4, <2>1
        <3>2. phase \in 1 .. 6 /\ CurrentStep = all[phase]
            <4> HIDE DEF all
            <4> QED
                BY <1>1, <1>3, <3>1 DEF CurrentStep
        <3> QED
            BY <2>1, <3>2
    <2>2. CASE ModeOf(component) = "bootstrap"
        <3>1. ClusterSteps(component) = some /\ Len(some) = 3
            BY <1>4, <2>2
        <3>2. phase \in 1 .. 3 /\ CurrentStep = some[phase]
            <4> HIDE DEF some
            <4> QED
                BY <1>1, <1>3, <3>1 DEF CurrentStep
        <3> QED
            BY <2>2, <3>2
    <2>3. CASE ModeOf(component) \in {"batched", "runtime"}
        <3>1. ClusterSteps(component) = <<"health">>
            <4>1. ClusterSteps(component) # <<>>
                BY <1>1, <1>3
            <4> QED
                BY <1>4, <2>3, <4>1
        <3>2. phase = 1 /\ CurrentStep = "health"
            BY <1>1, <1>3, <3>1 DEF CurrentStep
        <3> QED
            BY <2>3, <3>2
    <2> QED
        BY <1>4, <2>1, <2>2, <2>3
<1>6. /\ localResourcesApplied' = (IF CurrentStep = "resources" THEN "yes" ELSE localResourcesApplied)
      /\ resources' = IF localResourcesApplied' = "yes" THEN 1 ELSE 0
    BY <1>3 DEF ClusterStep, ApplyLocalResources, IInv, OnCluster
<1>7. manifests' = IF CurrentStep = "manifests" THEN manifests \cup {component} ELSE manifests
    BY DEF ClusterStep
<1>8. Typed'
    <2>1. phase' \in 1 .. 9
        <3>1. \A n \in 0 .. 6 : phase <= n => phase + 1 \in 1 .. 9
            BY <1>3
        <3>2. phase + 1 \in 1 .. 9
            BY <1>1, <1>4, <3>1
        <3> QED
            BY <1>1, <3>2
    <2>2. manifests' \subseteq Component /\ localResourcesApplied' \in {"no", "yes"}
        BY <1>3, <1>6, <1>7
    <2> QED
        BY <1>1, <1>2, <2>1, <2>2 DEF IInv, Typed, Status
<1>9. InSequence'
    BY <1>1, Settled DEF IInv
<1>10. InPosition'
    <2>1. \A h \in Host : Final(component, h)' = Final(component, h)
        BY <1>1, <1>3, Unmoved
    <2> QED
        BY <1>1, <2>1 DEF IInv, InPosition
<1>11. PauseKept'
    <2>1. \A c \in Component : Canaried(c)' <=> Canaried(c)
        BY <1>1, Unmoved
    <2>2. Canaried(component)' <=> Canaried(component)
        BY <1>1, <1>3, <2>1
    <2> QED
        BY <1>1, <1>2, <2>1, <2>2 DEF IInv, PauseKept
<1>12. OnCluster'
    <2>0. OnCluster
        BY DEF IInv
    <2>1. \A c \in Component : Manifested(c)' <=> Manifested(c)
        BY <1>1, Unmoved DEF Manifested
    <2>2. ModeOf(component)' = ModeOf(component)
        BY <1>1, <1>2 DEF ModeOf
    <2>3. \A m, n \in Nat : Past(m, n)' <=> \/ ModeOf(component) = "application" /\ phase + 1 > m
                                            \/ ModeOf(component) = "bootstrap" /\ phase + 1 > n
        BY <1>1, <2>2 DEF Past
    <2>4. phase' <= Len(ClusterSteps(component))' + 1
        <3>1. Len(ClusterSteps(component))' = Len(ClusterSteps(component))
            BY <1>1, <1>3, Unmoved
        <3> QED
            BY <1>1, <1>3, <1>4, <3>1
    <2>5. (component \in manifests <=> Past(3, 2)) /\ (Past(2, 1) => localResourcesApplied = "yes")
        BY <1>1, <2>0 DEF OnCluster
    <2>6. component \in manifests' <=> Past(3, 2)'
        BY <1>3, <1>5, <1>7, <2>3, <2>5 DEF Past
    <2>7. Past(2, 1)' => localResourcesApplied' = "yes"
        BY <1>3, <1>5, <1>6, <2>3, <2>5 DEF Past
    <2>8. manifests' # {} => localResourcesApplied' = "yes"
        <3>1. CASE CurrentStep = "manifests"
            BY <1>3, <1>5, <1>6, <2>5, <3>1 DEF Past
        <3>2. CASE CurrentStep # "manifests"
            BY <1>6, <1>7, <2>0, <3>2 DEF OnCluster
        <3> QED
            BY <3>1, <3>2
    <2>9. \A c \in Component : /\ c < component => (c \in manifests' <=> Manifested(c))
                               /\ c \in manifests' => c <= component
        <3>1. \A c \in Component : c < component => c # component
            BY DEF Component
        <3>2. component <= component
            BY <1>3 DEF Component
        <3> QED
            BY <1>7, <2>0, <3>1, <3>2 DEF OnCluster
    <2> QED
        BY <1>1, <1>6, <2>1, <2>4, <2>6, <2>7, <2>8, <2>9 DEF OnCluster
<1> QED
    BY <1>8, <1>9, <1>10, <1>11, <1>12 DEF IInv

(* A component is over and the next one begins, or none is left.             *)
LEMMA Completing ==
    ASSUME IInv, ComponentDone
    PROVE  IInv'
<1>1. /\ config' = config /\ batches' = batches /\ index' = index /\ phase' = phase
      /\ pos' = pos /\ reached' = reached /\ shared' = shared
      /\ status = "cluster" /\ phase > Len(ClusterSteps(component))
    BY DEF ComponentDone, effects
<1>2. /\ kinds' = kinds /\ rollout' = rollout /\ joined' = joined
      /\ localResourcesApplied' = localResourcesApplied /\ resources' = resources
      /\ manifests' = manifests
    BY <1>1 DEF config, shared
<1>3. component \in Component /\ kinds \in [Component -> Kind] /\ phase \in 1 .. 9
      /\ Components \in Nat
    BY Facts DEF IInv, Typed
<1>4. \/ component < Components /\ component' = component + 1 /\ status' = "component"
      \/ component = Components /\ component' = component /\ status' = "Succeeded"
    BY <1>3 DEF ComponentDone, Component
<1>5. component' \in Component /\ status' \in Status
    BY <1>3, <1>4 DEF Component, Status
<1>6. component \in manifests <=> Manifested(component)
    <2>1. component \in manifests <=> Past(3, 2)
        BY <1>1 DEF IInv, OnCluster
    <2>2. Past(3, 2) <=> Manifested(component)
        <3>1. CASE ModeOf(component) = "application"
            <4>1. Len(ClusterSteps(component)) = 6
                BY <1>3, <3>1, Modes
            <4>2. phase > 3
                BY <1>1, <1>3, <4>1
            <4> QED
                BY <3>1, <4>2 DEF Past, Manifested
        <3>2. CASE ModeOf(component) = "bootstrap"
            <4>1. Len(ClusterSteps(component)) = 3
                BY <1>3, <3>2, Modes
            <4>2. phase > 2
                BY <1>1, <1>3, <4>1
            <4> QED
                BY <3>2, <4>2 DEF Past, Manifested
        <3> QED
            BY <3>1, <3>2 DEF Past, Manifested
    <2> QED
        BY <2>1, <2>2
<1>7. \A c \in Component : /\ c < component' => c < component \/ c = component
                           /\ c > component' => c > component
                           /\ component' # component => (c = component' => c > component)
    BY <1>3, <1>4 DEF Component
<1>8. Typed'
    BY <1>1, <1>2, <1>5 DEF IInv, Typed
<1>9. \A c \in Component, h \in Host : Final(c, h)' = Final(c, h)
    BY <1>1, Unmoved
<1>10. \A h \in Host : reached[component][h] = Final(component, h)
    BY <1>1 DEF IInv, InPosition
<1>11. InSequence'
    <2> SUFFICES ASSUME NEW c \in Component, NEW h \in Host
                 PROVE  /\ c < component' => reached[c][h] = Final(c, h)
                        /\ c > component' => reached[c][h] = 0
        BY <1>1, <1>9 DEF InSequence
    <2> QED
        BY <1>7, <1>10 DEF IInv, InSequence
<1>12. InPosition'
    <2>1. CASE component' = component + 1 /\ status' = "component"
        <3>1. component' # component
            BY <1>3, <2>1 DEF Component
        <3>2. \A h \in Host : reached[component'][h] = 0
            BY <1>5, <1>7, <3>1 DEF IInv, InSequence
        <3> QED
            BY <1>1, <2>1, <3>2 DEF InPosition
    <2>2. CASE component' = component /\ status' = "Succeeded"
        <3>1. \A h \in Host : Final(component, h)' = Final(component, h)
            BY <1>3, <1>9, <2>2
        <3> QED
            BY <1>1, <1>10, <2>2, <3>1 DEF InPosition
    <2> QED
        BY <1>4, <2>1, <2>2
<1>13. PauseKept'
    <2>1. \A c \in Component : Canaried(c)' <=> Canaried(c)
        BY <1>1, Unmoved
    <2>2. ~ (Canaried(component) /\ rollout.pause) /\ PauseKept
        BY <1>1 DEF IInv, PauseKept
    <2>3. \A c \in Component : c < component' /\ Canaried(c) => ~ rollout.pause
        BY <1>7, <2>2 DEF PauseKept
    <2>4. status' = "Succeeded" => component' = component
        BY <1>4
    <2>5. Canaried(component)' <=> Canaried(component')
        BY <1>1, <1>2, <1>5 DEF Canaried, Batchable, ModeOf, HasCanary, ProvisioningHosts, Fresh, NthFresh
    <2> QED
        BY <1>2, <1>4, <1>5, <2>1, <2>2, <2>3, <2>4, <2>5 DEF PauseKept
<1>14. OnCluster'
    <2>0. OnCluster
        BY DEF IInv
    <2>1. \A c \in Component : Manifested(c)' <=> Manifested(c)
        BY <1>1, Unmoved DEF Manifested
    <2>2. \A c \in Component : /\ c < component' => (c \in manifests <=> Manifested(c))
                               /\ c \in manifests => c <= component'
        <3>1. \A c \in Component : c <= component => c <= component'
            BY <1>3, <1>4 DEF Component
        <3> QED
            BY <1>6, <1>7, <2>0, <3>1 DEF OnCluster
    <2>3. status' = "component" => component' \notin manifests
        <3>1. status' = "component" => ~ (component' <= component)
            BY <1>3, <1>4 DEF Component
        <3> QED
            BY <1>5, <2>0, <3>1 DEF OnCluster
    <2>4. status' = "Succeeded" =>
              component' = Components /\ (component' \in manifests <=> Manifested(component)')
        BY <1>3, <1>4, <1>6, <2>1
    <2> QED
        BY <1>1, <1>2, <1>4, <2>0, <2>1, <2>2, <2>3, <2>4 DEF OnCluster
<1> QED
    BY <1>8, <1>11, <1>12, <1>13, <1>14 DEF IInv

(* Nothing happens, or the execution has returned.                           *)
LEMMA Standing ==
    ASSUME IInv, vars' = vars
    PROVE  IInv'
<1>1. /\ config' = config /\ component' = component /\ batches' = batches /\ index' = index
      /\ phase' = phase /\ pos' = pos /\ reached' = reached
      /\ localResourcesApplied' = localResourcesApplied /\ resources' = resources
      /\ manifests' = manifests /\ status' = status
    BY DEF vars, progress, effects, shared
<1>2. kinds' = kinds /\ rollout' = rollout /\ joined' = joined
    BY <1>1 DEF config
<1>3. component \in Component
    BY DEF IInv, Typed
<1>4. \A c \in Component :
          /\ Canaried(c)' <=> Canaried(c)
          /\ Manifested(c)' <=> Manifested(c)
          /\ BatchesOf(c)' = BatchesOf(c) /\ Full(c)' = Full(c)
          /\ ClusterSteps(c)' = ClusterSteps(c)
          /\ ModeOf(c)' = ModeOf(c)
          /\ \A h \in Host : Final(c, h)' = Final(c, h)
    BY <1>1, Unmoved DEF Manifested
<1>5. Typed'
    BY <1>1, <1>2 DEF IInv, Typed
<1>6. InSequence'
    BY <1>1, Settled DEF IInv
<1>7. InPosition'
    <2>0. InPosition
        BY DEF IInv
    <2>1. \A i, p : Steps(i, p)' = Steps(i, p)
        BY <1>1, <1>3, <1>4 DEF Steps
    <2>2. (FailureContained' <=> FailureContained) /\ (CanaryFirst' <=> CanaryFirst)
        <3>1. \A c \in Component : /\ Batchable(c)' <=> Batchable(c)
                                   /\ HasCanary(ProvisioningHosts(c))' <=> HasCanary(ProvisioningHosts(c))
                                   /\ Canary(c)' = Canary(c)
                                   /\ \A h : Done(c, h)' <=> Done(c, h)
            BY <1>1, <1>2, <1>4, Unmoved DEF Batchable, HasCanary, Done
        <3>2. \A c \in Component : {h \in Host : reached[c][h] > 0 /\ ~ Done(c, h)}'
                                       = {h \in Host : reached[c][h] > 0 /\ ~ Done(c, h)}
            BY <1>1, <3>1
        <3>3. FailureContained' <=> FailureContained
            BY <1>2, <3>1, <3>2 DEF FailureContained
        <3>4. CanaryFirst' <=> CanaryFirst
            BY <1>1, <1>2, <3>1 DEF CanaryFirst
        <3> QED
            BY <3>3, <3>4
    <2>3. /\ BatchesOf(component)' = BatchesOf(component) /\ Full(component)' = Full(component)
          /\ \A h \in Host : Final(component, h)' = Final(component, h)
        BY <1>1, <1>3, <1>4
    <2> QED
        BY <1>1, <2>0, <2>1, <2>2, <2>3 DEF InPosition
<1>8. PauseKept'
    <2>1. Canaried(component)' <=> Canaried(component)
        BY <1>1, <1>3, <1>4
    <2> QED
        BY <1>1, <1>2, <1>4, <2>1 DEF IInv, PauseKept
<1>9. OnCluster'
    <2>1. /\ ClusterSteps(component)' = ClusterSteps(component)
          /\ ModeOf(component)' = ModeOf(component) /\ (Manifested(component)' <=> Manifested(component))
        BY <1>1, <1>3, <1>4
    <2>2. \A m, n : Past(m, n)' <=> Past(m, n)
        BY <1>1, <2>1 DEF Past
    <2> QED
        BY <1>1, <1>4, <2>1, <2>2 DEF IInv, OnCluster
<1> QED
    BY <1>5, <1>6, <1>7, <1>8, <1>9 DEF IInv

-----------------------------------------------------------------------------
(* What the invariant says of an execution.                                  *)

(* At the pause the canary is done and nothing else is begun.                *)
LEMMA Pausing ==
    ASSUME IInv
    PROVE  PausedAtCanary
<1> SUFFICES ASSUME status = "Paused"
             PROVE  /\ \A h \in Host : reached[component][h] =
                           IF h \in Canary(component) THEN Full(component) ELSE 0
                    /\ Canary(component) # Range(ProvisioningHosts(component))
                    /\ \A c \in (component + 1) .. Components, h \in Host : reached[c][h] = 0
                    /\ \A c \in manifests : c < component
    BY DEF PausedAtCanary
<1>1. /\ component \in Component /\ component \in Nat /\ Components \in Nat
      /\ rollout \in Strategy /\ manifests \subseteq Component
    BY Facts DEF IInv, Typed, Component
<1>2. Canaried(component) /\ rollout.pause /\ index = 2 /\ phase = 1 /\ pos = 1
    BY DEF IInv, PauseKept
<1>3. /\ Len(batches) \in Nat /\ Len(batches) > 1 /\ Len(batches[1]) = rollout.canary
      /\ \A p \in 1 .. rollout.canary : batches[1][p] \in Canary(component)
      /\ \A h \in Canary(component) : \E p \in 1 .. rollout.canary : h = batches[1][p]
    BY <1>1, <1>2, Placed, CanaryProvisioned
<1>4. \A i \in 1 .. Len(batches) : Len(batches[i]) \in Nat /\ Len(batches[i]) >= 1
    BY Facts DEF IInv, Typed
<1>5. ASSUME NEW i \in 1 .. Len(batches), NEW p \in 1 .. Len(batches[i])
      PROVE  /\ reached[component][batches[i][p]] = IF i = 1 THEN Full(component) ELSE 0
             /\ batches[i][p] \in Canary(component) => i = 1
    <2>1. reached[component][batches[i][p]] = Steps(i, p)
        BY DEF IInv, InPosition
    <2>2. p \in Nat /\ p >= 1 /\ i \in Nat /\ i >= 1
        BY <1>3, <1>4
    <2>3. Steps(i, p) = IF i = 1 THEN Full(component) ELSE 0
        BY <1>2, <2>2 DEF Steps
    <2>4. ASSUME batches[i][p] \in Canary(component) PROVE i = 1
        <3>1. PICK q \in 1 .. rollout.canary : batches[i][p] = batches[1][q]
            BY <1>3, <2>4
        <3>2. 1 \in 1 .. Len(batches) /\ q \in 1 .. Len(batches[1])
            BY <1>3
        <3> QED
            BY <3>1, <3>2, Placed
    <2> QED
        BY <2>1, <2>3, <2>4
<1>6. ASSUME NEW h \in Host
      PROVE  reached[component][h] = IF h \in Canary(component) THEN Full(component) ELSE 0
    <2>1. CASE \E i \in 1 .. Len(batches) : \E p \in 1 .. Len(batches[i]) : batches[i][p] = h
        <3>1. PICK i \in 1 .. Len(batches) : \E p \in 1 .. Len(batches[i]) : batches[i][p] = h
            BY <2>1
        <3>2. PICK p \in 1 .. Len(batches[i]) : batches[i][p] = h
            BY <3>1
        <3>3. i = 1 => h \in Canary(component)
            BY <1>3, <3>2
        <3> QED
            BY <1>5, <3>2, <3>3
    <2>2. CASE \A i \in 1 .. Len(batches) : \A p \in 1 .. Len(batches[i]) : batches[i][p] # h
        <3>1. h \notin Canary(component)
            <4>1. 1 \in 1 .. Len(batches)
                BY <1>3
            <4> QED
                BY <1>3, <2>2, <4>1
        <3>2. reached[component][h] = 0
            BY <2>2 DEF IInv, InPosition
        <3> QED
            BY <3>1, <3>2
    <2> QED
        BY <2>1, <2>2
<1>7. Canary(component) # Range(ProvisioningHosts(component))
    <2>1. 2 \in 1 .. Len(batches) /\ 1 \in 1 .. Len(batches[2])
        BY <1>3, <1>4
    <2>2. batches[2][1] \in Range(ProvisioningHosts(component))
        BY <2>1, Placed
    <2>3. batches[2][1] \notin Canary(component)
        BY <1>5, <2>1
    <2> QED
        BY <2>2, <2>3
<1>8. \A c \in (component + 1) .. Components, h \in Host : reached[c][h] = 0
    <2>1. \A c \in (component + 1) .. Components : c \in Component /\ c > component
        BY <1>1 DEF Component
    <2> QED
        BY <2>1 DEF IInv, InSequence
<1>9. \A c \in manifests : c < component
    <2>1. component \notin manifests /\ \A c \in manifests : c \in Component /\ c <= component
        BY <1>1 DEF IInv, OnCluster
    <2> QED
        BY <1>1, <2>1 DEF Component
<1> QED
    BY <1>6, <1>7, <1>8, <1>9

(* A success has done everything.                                            *)
LEMMA Succeeding ==
    ASSUME IInv
    PROVE  SucceededIsComplete
<1> SUFFICES ASSUME status = "Succeeded"
             PROVE  /\ \A c \in Component, h \in Host :
                           reached[c][h] = IF h \in Range(ProvisioningHosts(c)) THEN Full(c) ELSE 0
                    /\ manifests = {c \in Component : ModeOf(c) \in {"bootstrap", "application"}}
    BY DEF SucceededIsComplete
<1>1. component = Components /\ Components \in Nat /\ manifests \subseteq Component
    BY Facts DEF IInv, OnCluster, Typed
<1>2. \A c \in Component : c < component \/ c = component
    BY <1>1 DEF Component
<1>3. \A c \in Component, h \in Host : reached[c][h] = Final(c, h)
    BY <1>2 DEF IInv, InSequence, InPosition
<1>4. \A c \in Component : c \in manifests <=> Manifested(c)
    BY <1>2 DEF IInv, OnCluster
<1> QED
    BY <1>1, <1>3, <1>4 DEF Final, Manifested

(* The types, and the local resources once and before manifests.             *)
LEMMA Typing ==
    ASSUME IInv
    PROVE  TypeOK /\ ResourcesOnceAndFirst
<1>1. resources = (IF localResourcesApplied = "yes" THEN 1 ELSE 0)
      /\ (manifests # {} => localResourcesApplied = "yes")
    BY DEF IInv, OnCluster
<1>2. resources \in 0 .. Components
    BY <1>1, Facts
<1>3. \A i \in DOMAIN batches : batches[i] # <<>> /\ Range(batches[i]) \subseteq Host
    <2>1. batches \in Seq(Seq(Host)) /\ DOMAIN batches = 1 .. Len(batches)
        BY LenProperties DEF IInv, Typed
    <2> SUFFICES ASSUME NEW i \in 1 .. Len(batches)
                 PROVE  batches[i] # <<>> /\ Range(batches[i]) \subseteq Host
        BY <2>1
    <2>2. Len(batches[i]) \in 1 .. Len(Hosts) /\ batches[i] \in Seq(Host)
        BY <2>1, ElementOfSeq DEF IInv, Typed
    <2>3. batches[i] # <<>>
        BY <2>2, Facts
    <2>4. \A p \in DOMAIN batches[i] : batches[i][p] \in Host
        BY <2>2, LenProperties, ElementOfSeq
    <2> QED
        BY <2>3, <2>4 DEF Range
<1> QED
    BY <1>1, <1>2, <1>3 DEF TypeOK, ResourcesOnceAndFirst, IInv, Typed

(* The invariant has the properties of every state.                          *)
LEMMA InvariantSound ==
    ASSUME IInv
    PROVE  /\ TypeOK /\ FailureContained /\ CanaryFirst /\ PausedAtCanary
           /\ SucceededIsComplete /\ ResourcesOnceAndFirst
BY Contained, SafeIs, Pausing, Succeeding, Typing

(* The action of PhasesInOrder.                                              *)
PhaseStep ==
    \A c \in Component, h \in Host : reached'[c][h] # reached[c][h] =>
        /\ reached'[c][h] = reached[c][h] + 1
        /\ \A b \in 1 .. (c - 1) : \A g \in Range(ProvisioningHosts(b)) : Done(b, g)

(* Every step keeps the invariant, and takes the phases in order.            *)
LEMMA NextKeeps ==
    ASSUME IInv, [Next]_vars
    PROVE  IInv' /\ (vars' = vars \/ PhaseStep)
<1>1. CASE HostStep
    BY <1>1, HostStepping, HostStepInOrder DEF PhaseStep
<1>2. CASE HostStepFails
    BY <1>2, FailingSteps, HostStepInOrder DEF PhaseStep
<1>3. CASE ~ HostStep /\ ~ HostStepFails /\ Next
    <2>1. reached' = reached
        BY <1>3 DEF Next, ApplyComponent, ApplyComponentFails, HookFails, HostsDone, ClusterStep,
                    ClusterStepFails, ComponentDone, Returned, vars, effects
    <2>2. IInv'
        BY <1>3, Applying, FailingSteps, HostsFinished, ClusterStepping, Completing, Standing
           DEF Next, Returned
    <2> QED
        BY <2>1, <2>2 DEF PhaseStep
<1>4. CASE UNCHANGED vars
    BY <1>4, Standing
<1> QED
    BY <1>1, <1>2, <1>3, <1>4

(***************************************************************************)
(* For any hosts, components, strategies and failures, an execution of a   *)
(* bundle (bundleExecutor.applyBundle) leaves at most one batch of hosts   *)
(* half-provisioned, goes past the canary hosts only when they are done    *)
(* and no pause is asked for, applies local resources once and first,      *)
(* takes each host through the phases in order and, when it reports        *)
(* success, has left nothing out.                                          *)
(***************************************************************************)
THEOREM RolloutsAreSound == Spec => RolloutSound
<1>1. Init => IInv
    BY Begins
<1>2. IInv /\ [Next]_vars => IInv' /\ [PhaseStep]_vars
    BY NextKeeps
<1>3. IInv => /\ TypeOK /\ FailureContained /\ CanaryFirst /\ PausedAtCanary
              /\ SucceededIsComplete /\ ResourcesOnceAndFirst
    BY InvariantSound
<1> QED
    BY <1>1, <1>2, <1>3, PTL DEF Spec, PhasesInOrder, PhaseStep, RolloutSound
=============================================================================
