--------------------------- MODULE MCParallelStages ---------------------------
(***************************************************************************)
(* Three stages: two without dependencies, and one after the first.  And    *)
(* the order of stages, compared with what it is for, over all contracts    *)
(* of at most three.                                                        *)
(***************************************************************************)
EXTENDS ParallelStages, TLC

Stages == INSTANCE StageOrder

ThreeStages == 1 .. 3
OneThenThree == 1 :> {} @@ 2 :> {} @@ 3 :> {1}

-----------------------------------------------------------------------------
Name == {"a", "b", "c"}
Contracts == UNION {[1..n -> [name: Name, dependsOn: SUBSET Name]] : n \in 1..3}

\* The search finds a cycle exactly when no order satisfies the dependencies.
ASSUME \A s \in Contracts :
         ~Stages!Dangling(s) /\ ~Stages!DependsOnItself(s) =>
           (Stages!HasCycle(s) <=> ~Stages!Satisfiable(s))

\* In an accepted contract every stage runs once, in the first layer after the
\* stages it depends on, and the serial order respects the same dependencies.
ASSUME \A s \in Contracts :
         Stages!ValidContract(s) /\ Stages!Distinct(s) =>
           Stages!LayersAreRight(s) /\ Stages!OrderIsRight(s)

\* Not so when two stages share a name, which no check refuses: a stage may
\* then run before one that it depends on.
ASSUME \E s \in Contracts : Stages!ValidContract(s) /\ ~Stages!OrderIsRight(s)

=============================================================================
