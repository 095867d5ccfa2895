------------------------------ MODULE StageOrder ------------------------------
(***************************************************************************)
(* The stages of a task contract: which dependency declarations are         *)
(* accepted (validation.ts normalizeTaskContract,                           *)
(* validateStageDependencies) and in which layers the accepted ones run     *)
(* (parallel-stages.ts groupStagesByDependency; execution.ts flattens the   *)
(* layers when it runs the stages one after the other).                     *)
(*                                                                          *)
(* A contract is a sequence of [name, dependsOn], dependsOn a set of names; *)
(* the set is empty when the stage declares nothing.                        *)
(***************************************************************************)
EXTENDS Naturals, Sequences, FiniteSetsExt, SequencesExt

Names(stages) == {stages[i].name : i \in DOMAIN stages}

\* The adjacency map: a later stage of the same name replaces the earlier one.
LastOf(stages, name) == CHOOSE i \in DOMAIN stages :
                          /\ stages[i].name = name
                          /\ \A k \in DOMAIN stages : stages[k].name = name => k <= i
Adjacency(stages) == [n \in Names(stages) |-> stages[LastOf(stages, n)].dependsOn]

-----------------------------------------------------------------------------
(* The three-colour depth-first search.                                      *)

Found == <<>>  \* no colouring: visit has thrown

RECURSIVE Visit(_, _, _)
RECURSIVE VisitAll(_, _, _)
Visit(adjacency, node, color) ==
  CASE color = Found -> Found
    [] color # Found /\ color[node] = "gray" -> Found
    [] color # Found /\ color[node] = "black" -> color
    [] OTHER ->
         LET below == VisitAll(adjacency, adjacency[node], [color EXCEPT ![node] = "gray"])
         IN IF below = Found THEN Found ELSE [below EXCEPT ![node] = "black"]
VisitAll(adjacency, nodes, color) ==
  IF nodes = {} THEN color
  ELSE LET n == CHOOSE n \in nodes : TRUE
       IN VisitAll(adjacency, nodes \ {n}, Visit(adjacency, n, color))

HasCycle(stages) ==
  VisitAll(Adjacency(stages), Names(stages), [n \in Names(stages) |-> "white"]) = Found

-----------------------------------------------------------------------------
(* The checks of a contract's stages.                                        *)

Dangling(stages) == \E i \in DOMAIN stages : ~ stages[i].dependsOn \subseteq Names(stages)
DependsOnItself(stages) == \E i \in DOMAIN stages : stages[i].name \in stages[i].dependsOn

ValidContract(stages) ==
  /\ stages # <<>>
  /\ ~DependsOnItself(stages)
  /\ ~Dangling(stages)
  /\ ~HasCycle(stages)

-----------------------------------------------------------------------------
(* Layers, as sets of positions.  A name counts as completed as soon as one  *)
(* stage of that name is in an earlier layer.  The last alternative is the    *)
(* code's guard against a contract that was not validated.                   *)

RECURSIVE LayersFrom(_, _, _)
LayersFrom(stages, remaining, completed) ==
  LET ready == {i \in remaining : stages[i].dependsOn \subseteq completed}
  IN CASE remaining = {} -> <<>>
       [] remaining # {} /\ ready = {} -> <<remaining>>
       [] OTHER -> <<ready>> \o LayersFrom(stages, remaining \ ready,
                                           completed \cup {stages[i].name : i \in ready})

Layers(stages) ==
  IF Len(stages) <= 1 \/ \A i \in DOMAIN stages : stages[i].dependsOn = {}
  THEN <<DOMAIN stages>>
  ELSE LayersFrom(stages, DOMAIN stages, {})

\* executionOrder: the layers one after the other, each in its declared order.
ExecutionOrder(stages) ==
  FlattenSeq([l \in DOMAIN Layers(stages) |-> SetToSortSeq(Layers(stages)[l], <)])

-----------------------------------------------------------------------------
(* What they are for, stated without the search and without the loop.        *)

Distinct(stages) == Cardinality(Names(stages)) = Len(stages)

\* The dependencies can be satisfied: the names have a rank that grows along them.
Satisfiable(stages) ==
  \E rank \in [Names(stages) -> 1..Len(stages)] :
    \A n \in Names(stages) : \A d \in Adjacency(stages)[n] \cap Names(stages) : rank[d] < rank[n]

\* Every stage runs once, in the first layer after all its dependencies.
LayersAreRight(stages) ==
  LET layers == Layers(stages)
      LayerOf(i) == CHOOSE l \in DOMAIN layers : i \in layers[l]
      LayersOfDeps(i) == {LayerOf(k) : k \in {k \in DOMAIN stages :
                                               stages[k].name \in stages[i].dependsOn}}
  IN /\ \A i \in DOMAIN stages : Cardinality({l \in DOMAIN layers : i \in layers[l]}) = 1
     /\ \A i \in DOMAIN stages : LayerOf(i) = 1 + Max(LayersOfDeps(i) \cup {0})

\* A stage comes after every stage it names.
OrderIsRight(stages) ==
  LET order == ExecutionOrder(stages)
      At(i) == CHOOSE p \in DOMAIN order : order[p] = i
  IN /\ ToSet(order) = DOMAIN stages /\ Len(order) = Len(stages)
     /\ \A i, k \in DOMAIN stages : stages[k].name \in stages[i].dependsOn => At(k) < At(i)
=============================================================================
