------------------------- MODULE ParallelStagesProofs -------------------------
(***************************************************************************)
(* Theorems about ParallelStages, for any set of stages, any dependencies  *)
(* between them, and any number of retries, commands and faults: the types *)
(* and the four properties that the run ParallelStages checks on three     *)
(* stages.  One inductive invariant carries them all: what is in the       *)
(* layers, what has been merged of the stages before, and what a run       *)
(* leaves behind.                                                          *)
(***************************************************************************)
EXTENDS ParallelStages, WellFoundedInduction, TLAPS

USE ParallelAssumption

-----------------------------------------------------------------------------
(* Stages, and the records that the variables hold. *)

LEMMA MinOf ==
  ASSUME NEW S \in SUBSET Stage, S # {}
  PROVE  Min(S) \in S
<1>1. S \subseteq Nat
  OBVIOUS
<1>2. PICK x \in S : \A y \in S : ~(<<y, x>> \in OpToRel(<, Nat))
  BY <1>1, NatLessThanWellFounded, WFMin
<1>3. ASSUME NEW y \in S
      PROVE  x <= y
  <2>1. x \in Nat /\ y \in Nat
    BY <1>1
  <2>2. ~(y < x)
    BY <1>2, <2>1 DEF OpToRel
  <2> QED
    BY <2>1, <2>2
<1> QED
  BY <1>3 DEF Min

LEMMA ReadyType == ASSUME NEW past \in SUBSET Stage PROVE Ready(past) \in SUBSET Stage
BY DEF Ready

LEMMA IdleType == Idle \in RunType
BY DEF Idle, RunType, Ended

LEMMA NoTaskType == NoTask \in TaskType
BY DEF NoTask, TaskType

WorkType == [made : BOOLEAN, recorded : BOOLEAN, base : SUBSET Stage]
MainType == [made : BOOLEAN, merged : SUBSET Stage]

LEMMA CleanedType ==
  ASSUME TypeOK, Cleaned
  PROVE  /\ wt' \in [Stage -> WorkType] /\ main' \in MainType
         /\ \A s \in Stage : wt'[s].base = wt[s].base /\ (wt'[s].made => wt[s].made)
<1>1. wt \in [Stage -> WorkType]
  BY DEF TypeOK, WorkType
<1>2. ASSUME NEW s \in Stage
      PROVE  wt'[s] \in WorkType /\ wt'[s].base = wt[s].base /\ (wt'[s].made => wt[s].made)
  <2> DEFINE w == wt[s]
  <2>1. w \in WorkType
    BY <1>1
  <2>2. wt'[s] = IF w.recorded THEN [w EXCEPT !.made = FALSE] ELSE w
    BY DEF Cleaned, Recorded
  <2> HIDE DEF w
  <2>3. wt'[s] \in WorkType /\ wt'[s].base = w.base /\ (wt'[s].made => w.made)
    BY <2>1, <2>2 DEF WorkType
  <2> QED
    BY <2>3 DEF w
<1>3. wt' = [s \in Stage |-> wt'[s]]
  BY DEF Cleaned, Recorded
<1>4. main' \in MainType
  BY DEF Cleaned, MainType
<1> QED
  BY <1>2, <1>3, <1>4

LEMMA DiesType ==
  ASSUME Dies
  PROVE  /\ run' \in RunType /\ task' \in [Stage -> TaskType]
         /\ run'.pc = "idle" /\ \A s \in Stage : task'[s].pc = "none"
BY IdleType, NoTaskType DEF Dies, Idle, NoTask

\* A step of runStage moves one task.
LEMMA MovesType ==
  ASSUME TypeOK, NEW s \in Stage, NEW t \in TaskType, Moves(s, t)
  PROVE  task' \in [Stage -> TaskType] /\ task'[s] = t /\ \A q \in Stage \ {s} : task'[q] = task[q]
BY DEF Moves, TypeOK

LEMMA EndsAsType ==
  ASSUME TypeOK, NEW s \in Stage, NEW end \in {"ok", "failed", "cancelled"}, EndsAs(s, end)
  PROVE  /\ task' \in [Stage -> TaskType] /\ task'[s].pc = "ended" /\ task'[s].end = end
         /\ \A q \in Stage \ {s} : task'[q] = task[q]
<1> DEFINE t == [task[s] EXCEPT !.pc = "ended", !.end = end]
<1>1. task[s] \in TaskType
  BY DEF TypeOK
<1>2. t \in TaskType /\ t.pc = "ended" /\ t.end = end
  BY <1>1 DEF TaskType
<1> HIDE DEF t
<1>3. Moves(s, t)
  BY DEF EndsAs, t
<1> QED
  BY <1>2, <1>3, MovesType

\* A step of runJob changes the record of the run.
RunOnly(pc, todo) ==
  /\ run' \in RunType /\ run'.pc = pc /\ run'.todo = todo
  /\ run'.past = run.past /\ run'.layer = run.layer /\ run'.base = run.base

LEMMA RunMoves ==
  ASSUME TypeOK, NEW todo \in SUBSET Stage,
         NEW pc \in {"idle", "layer", "record", "stages", "threw", "merge", "clean", "collect",
                     "finish", "tidy"},
         run' = [run EXCEPT !.todo = todo, !.pc = pc]
  PROVE  RunOnly(pc, todo) /\ run'.status = run.status
<1>1. run \in RunType
  BY DEF TypeOK
<1> QED
  BY <1>1 DEF RunOnly, RunType

LEMMA RunSteps ==
  ASSUME TypeOK,
         NEW pc \in {"idle", "layer", "record", "stages", "threw", "merge", "clean", "collect",
                     "finish", "tidy"},
         run' = [run EXCEPT !.pc = pc]
  PROVE  RunOnly(pc, run.todo) /\ run'.status = run.status
<1>1. run \in RunType
  BY DEF TypeOK
<1> QED
  BY <1>1 DEF RunOnly, RunType

LEMMA RunFinishes ==
  ASSUME TypeOK, NEW status \in Ended, Finish(status)
  PROVE  RunOnly("finish", {}) /\ run'.status = status
<1>1. run \in RunType
  BY DEF TypeOK
<1> QED
  BY <1>1 DEF Finish, RunOnly, RunType

LEMMA FirstOf ==
  ASSUME TypeOK, run.todo # {}
  PROVE  First \in run.todo /\ First \in Stage
<1>1. run.todo \in SUBSET Stage
  BY DEF TypeOK, RunType
<1> QED
  BY <1>1, MinOf DEF First

-----------------------------------------------------------------------------
(* The layers of a run. *)

\* From its first layer to the commit of its last one, what a run has to do is
\* in its layer, and the stages of its layer have had their dependencies done.
InLayer == run.pc \in {"layer", "record", "stages", "threw", "merge", "clean", "collect"}

Todo ==
  /\ run.todo \subseteq run.layer /\ run.layer \subseteq Stage \ run.past
  /\ run.pc \in {"record", "merge", "clean"} => run.todo # {}
  /\ run.pc \in {"stages", "threw", "collect"} => run.todo = {}
  /\ run.pc \in {"record", "stages", "merge", "clean", "collect"} => run.layer # {}

Layers == InLayer => Todo /\ \A s \in run.layer : Deps[s] \subseteq run.past

-----------------------------------------------------------------------------
(* Types. *)

LEMMA CommandType ==
  ASSUME TypeOK, Command
  PROVE  left' \in [commands : Nat, faults : Nat]
<1>1. left \in [commands : Nat, faults : Nat]
  BY DEF TypeOK
<1> QED
  BY <1>1 DEF Command

LEMMA FaultType ==
  ASSUME TypeOK, Fault
  PROVE  left' \in [commands : Nat, faults : Nat]
<1>1. left \in [commands : Nat, faults : Nat]
  BY DEF TypeOK
<1> QED
  BY <1>1 DEF Fault

LEMMA InitType == Init => TypeOK
<1> SUFFICES ASSUME Init PROVE TypeOK
  OBVIOUS
<1>1. run \in RunType /\ task \in [Stage -> TaskType]
  BY IdleType, NoTaskType DEF Init
<1>2. st \in StateType /\ wt \in [Stage -> WorkType]
  BY DEF Init, StateType, NoWork, WorkType
<1>3. left \in [commands : Nat, faults : Nat]
  BY DEF Init
<1> QED
  BY <1>1, <1>2, <1>3 DEF Init, TypeOK, WorkType

\* What a step leaves alone keeps its type, so the proof of an action is about
\* the variables it changes.
LEMMA StageStepType ==
  ASSUME TypeOK, NEW s \in Stage, StageStep(s)
  PROVE  TypeOK'
<1>1. task[s] \in TaskType /\ st \in StateType
  BY DEF TypeOK
<1>2. ASSUME task' \in [Stage -> TaskType], UNCHANGED <<ctx, st, entry, marker, main, wt, run, left>>,
             dirty' \in [Stage -> BOOLEAN]
      PROVE  TypeOK'
  BY <1>2 DEF TypeOK
<1>3. CASE StageCancelled(s)
  BY <1>2, <1>3, EndsAsType DEF StageCancelled, TypeOK
<1>4. CASE Attempt(s)
  <2>1. [task[s] EXCEPT !.pc = "write", !.read = st.used, !.persist = FALSE, !.then = "agent"] \in TaskType
    BY <1>1 DEF TaskType, StateType
  <2> QED
    BY <1>2, <1>4, <2>1, MovesType DEF Attempt, TypeOK
<1>5. CASE StateRead(s)
  <2>1. [task[s] EXCEPT !.pc = "write", !.read = st.used] \in TaskType
    BY <1>1 DEF TaskType, StateType
  <2> QED
    BY <1>2, <1>5, <2>1, MovesType DEF StateRead, TypeOK
<1>6. CASE StateWritten(s)
  <2>1. [task[s] EXCEPT !.pc = task[s].then, !.read = NoTask.read] \in TaskType
    BY <1>1 DEF TaskType, NoTask
  <2>2. task' \in [Stage -> TaskType]
    BY <1>6, <2>1, MovesType DEF StateWritten
  <2>3. task[s].read \in [Stage -> Nat] /\ task[s].used \in Nat
    BY <1>1 DEF TaskType
  <2> DEFINE used == IF task[s].persist THEN [task[s].read EXCEPT ![s] = task[s].used] ELSE task[s].read
  <2>4. used \in [Stage -> Nat]
    BY <2>3
  <2>5. st' = [st EXCEPT !.status = "running", !.used = used]
    BY <1>6 DEF StateWritten
  <2> HIDE DEF used
  <2>6. st' \in StateType
    BY <1>1, <2>4, <2>5 DEF StateType
  <2> QED
    BY <1>6, <2>2, <2>6 DEF StateWritten, TypeOK
<1>7. ASSUME NEW changes \in BOOLEAN, Passes(s, changes)
      PROVE  TypeOK'
  <2>1. [task[s] EXCEPT !.pc = "read", !.persist = FALSE, !.then = "ended", !.end = "ok"] \in TaskType
    BY <1>1 DEF TaskType
  <2>2. task' \in [Stage -> TaskType]
    <3>1. CASE marker
      BY <1>7, <3>1, EndsAsType DEF Passes
    <3>2. CASE ~marker
      BY <1>7, <2>1, <3>2, MovesType DEF Passes
    <3> QED
      BY <3>1, <3>2
  <2> QED
    BY <1>2, <1>7, <2>2 DEF Passes, AgentWorks, TypeOK
<1>8. ASSUME NEW changes \in BOOLEAN, Fails(s, changes)
      PROVE  TypeOK'
  <2>1. [task[s] EXCEPT !.pc = "read", !.persist = TRUE, !.then = "attempt", !.used = @ + 1] \in TaskType
    <3> DEFINE t == task[s]  n == t.used + 1
    <3>1. t \in TaskType /\ n \in Nat
      BY <1>1 DEF TaskType
    <3> HIDE DEF t, n
    <3>2. [t EXCEPT !.pc = "read", !.persist = TRUE, !.then = "attempt", !.used = n] \in TaskType
      BY <3>1 DEF TaskType
    <3> QED
      BY <3>2 DEF t, n
  <2>2. task' \in [Stage -> TaskType]
    <3>1. CASE marker
      BY <1>8, <3>1, EndsAsType DEF Fails
    <3>2. CASE ~marker /\ task[s].used < Retries
      BY <1>8, <2>1, <3>2, MovesType DEF Fails
    <3>3. CASE ~marker /\ ~(task[s].used < Retries)
      BY <1>8, <3>3, EndsAsType DEF Fails
    <3> QED
      BY <3>1, <3>2, <3>3
  <2> QED
    BY <1>2, <1>8, <2>2 DEF Fails, AgentWorks, TypeOK
<1> QED
  BY <1>3, <1>4, <1>5, <1>6, <1>7, <1>8 DEF StageStep

LEMMA CancelledType ==
  ASSUME TypeOK, FinishCancelled
  PROVE  /\ st' \in StateType /\ entry' = "cancelled" /\ run' \in RunType
         /\ task' \in [Stage -> TaskType] /\ wt' \in [Stage -> WorkType] /\ main' \in MainType
  BY CleanedType, DiesType DEF FinishCancelled, TypeOK, StateType

LEMMA RunStepType == TypeOK /\ Layers /\ RunStep => TypeOK'
<1> SUFFICES ASSUME TypeOK, Layers, RunStep PROVE TypeOK'
  OBVIOUS
<1>1. run \in RunType /\ wt \in [Stage -> WorkType] /\ main \in MainType
  BY DEF TypeOK, WorkType, MainType
<1>2. CASE LayerCancelled
  BY <1>2, CancelledType DEF LayerCancelled, TypeOK, WorkType, MainType
<1>3. CASE WorktreeAdded
  <2>1. First \in Stage
    BY <1>3, FirstOf DEF WorktreeAdded, Adding
  <2>2. [wt[First] EXCEPT !.made = TRUE, !.base = run.base] \in WorkType
    <3> DEFINE w == wt[First]
    <3>1. w \in WorkType /\ run.base \in SUBSET Stage
      BY <1>1, <2>1 DEF RunType
    <3> HIDE DEF w
    <3>2. [w EXCEPT !.made = TRUE, !.base = run.base] \in WorkType
      BY <3>1 DEF WorkType
    <3> QED
      BY <3>2 DEF w
  <2>3. wt' \in [Stage -> WorkType]
    BY <1>1, <1>3, <2>2 DEF WorktreeAdded
  <2>4. run' \in RunType
    BY <1>3, RunSteps DEF WorktreeAdded, RunOnly
  <2> QED
    BY <1>3, <2>3, <2>4 DEF WorktreeAdded, TypeOK, WorkType
<1>4. CASE WorktreeExists
  BY <1>4, DiesType DEF WorktreeExists, TypeOK
<1>5. CASE WorktreeRecorded
  <2>1. wt' \in [Stage -> WorkType]
    <3>1. wt' = [wt EXCEPT ![First] = [wt[First] EXCEPT !.recorded = TRUE]]
      BY <1>5 DEF WorktreeRecorded
    <3>2. ASSUME First \in Stage
          PROVE  [wt[First] EXCEPT !.recorded = TRUE] \in WorkType
      <4> DEFINE w == wt[First]
      <4>1. w \in WorkType
        BY <1>1, <3>2
      <4> HIDE DEF w
      <4>2. [w EXCEPT !.recorded = TRUE] \in WorkType
        BY <4>1 DEF WorkType
      <4> QED
        BY <4>2 DEF w
    <3> QED
      BY <1>1, <3>1, <3>2
  <2>2. run' \in RunType
    <3>1. run.todo \ {First} \in SUBSET Stage
      BY <1>1 DEF RunType
    <3> QED
      BY <1>5, <3>1, RunMoves DEF WorktreeRecorded, RunOnly
  <2>3. \A s \in Stage : Begun(s) \in TaskType
    BY NoTaskType DEF Begun, TaskType, TypeOK, StateType
  <2>4. task' \in [Stage -> TaskType]
    BY <1>5, <2>3, NoTaskType DEF WorktreeRecorded, TypeOK
  <2> QED
    BY <1>5, <2>1, <2>2, <2>4 DEF WorktreeRecorded, TypeOK, WorkType
<1>6. CASE LayerFails
  <2>1. ASSUME FinishCancelled
        PROVE  TypeOK'
    BY <1>6, <2>1, CancelledType DEF LayerFails, TypeOK, WorkType, MainType
  <2>2. ASSUME Finish("failed"), UNCHANGED <<st, entry, main, wt, task>>
        PROVE  TypeOK'
    BY <1>6, <2>2, RunFinishes DEF LayerFails, TypeOK, RunOnly, Ended
  <2> QED
    BY <1>6, <2>1, <2>2 DEF LayerFails
<1>7. CASE LayerPasses
  <2>1. run.layer \in SUBSET Stage
    BY <1>1 DEF RunType
  <2>2. run' \in RunType
    BY <1>7, <2>1, RunMoves DEF LayerPasses, RunOnly
  <2> QED
    BY <1>7, <2>2, NoTaskType DEF LayerPasses, TypeOK
<1>8. CASE Merges
  <2>1. First \in Stage
    BY <1>8, FirstOf DEF Merges, Layers, Todo, InLayer
  <2>2. wt[First].base \in SUBSET Stage
    BY <1>1, <2>1 DEF WorkType
  <2>3. main' \in MainType
    BY <1>1, <1>8, <2>1, <2>2 DEF Merges, MainType
  <2>4. run' \in RunType
    BY <1>8, RunSteps DEF Merges, RunOnly
  <2> QED
    BY <1>8, <2>3, <2>4 DEF Merges, TypeOK, MainType
<1>9. CASE Conflicts
  BY <1>9, RunFinishes DEF Conflicts, TypeOK, RunOnly, Ended
<1>10. CASE StageCleaned
  <2>1. wt' \in [Stage -> WorkType]
    BY <1>1, <1>10 DEF StageCleaned, NoWork, WorkType
  <2>2. run.todo \ {First} \in SUBSET Stage
    BY <1>1 DEF RunType
  <2>3. run' \in RunType
    BY <1>10, <2>2, RunMoves DEF StageCleaned, RunOnly
  <2> QED
    BY <1>10, <2>1, <2>3 DEF StageCleaned, TypeOK, WorkType
<1>11. CASE LayerCommitted
  <2>1. run' \in RunType
    <3>1. CASE run.past \cup run.layer = Stage
      BY <1>11, <3>1, RunFinishes DEF LayerCommitted, RunOnly, Ended
    <3>2. CASE run.past \cup run.layer # Stage
      <4>1. run.past \cup run.layer \in SUBSET Stage /\ main.merged \in SUBSET Stage
        BY <1>1 DEF RunType, MainType
      <4> DEFINE past == run.past \cup run.layer
      <4>2. run' = [run EXCEPT !.pc = "layer", !.past = past, !.layer = Ready(past),
                               !.todo = Ready(past), !.base = main.merged]
        BY <1>11, <3>2 DEF LayerCommitted
      <4>3. past \in SUBSET Stage /\ Ready(past) \in SUBSET Stage
        BY <4>1, ReadyType
      <4> HIDE DEF past
      <4> QED
        BY <1>1, <4>1, <4>2, <4>3 DEF RunType
    <3> QED
      BY <3>1, <3>2
  <2> QED
    BY <1>11, <2>1 DEF LayerCommitted, TypeOK
<1>12. CASE Finishes
  <2>1. run' \in RunType
    BY <1>12, RunSteps DEF Finishes, RunOnly
  <2> QED
    BY <1>1, <1>12, <2>1 DEF Finishes, TypeOK, StateType, RunType, Ended
<1>13. CASE Tidies
  BY <1>13, CleanedType, DiesType DEF Tidies, TypeOK, WorkType, MainType
<1>14. CASE ProcessEnds
  BY <1>14, DiesType DEF ProcessEnds, TypeOK
<1> QED
  BY <1>2, <1>3, <1>4, <1>5, <1>6, <1>7, <1>8, <1>9, <1>10, <1>11, <1>12, <1>13, <1>14 DEF RunStep

LEMMA NextType == TypeOK /\ Layers /\ [Next]_vars => TypeOK'
<1> SUFFICES ASSUME TypeOK, Layers, [Next]_vars PROVE TypeOK'
  OBVIOUS
<1>1. run \in RunType /\ wt \in [Stage -> WorkType] /\ main \in MainType
  BY DEF TypeOK, WorkType, MainType
<1>2. CASE Starts
  <2>1. run' \in RunType
    <3>1. Ready({}) \in SUBSET Stage
      BY ReadyType
    <3> QED
      BY <1>2, <3>1, IdleType DEF Starts, RunType
  <2> QED
    BY <1>1, <1>2, <2>1 DEF Starts, TypeOK, MainType
<1>3. CASE RunStep
  BY <1>3, RunStepType
<1>4. ASSUME NEW s \in Stage, StageStep(s)
      PROVE  TypeOK'
  BY <1>4, StageStepType
<1>5. ASSUME NEW s \in Stage, Throws(s)
      PROVE  TypeOK'
  <2>1. run' \in RunType
    BY <1>5, RunSteps DEF Throws, RunOnly
  <2>2. task' \in [Stage -> TaskType]
    BY <1>5, EndsAsType DEF Throws
  <2> QED
    BY <1>5, <2>1, <2>2, FaultType DEF Throws, TypeOK
<1>6. ASSUME NEW reset \in BOOLEAN, Again(reset)
      PROVE  TypeOK'
  <2>1. st' \in StateType
    BY <1>6 DEF Again, TypeOK, StateType
  <2> QED
    BY <1>6, <2>1, CommandType DEF Again, TypeOK
<1>7. CASE Approve
  <2>1. st' \in StateType
    BY <1>7 DEF Approve, TypeOK, StateType, Ended
  <2>2. wt' \in [Stage -> WorkType] /\ main' \in MainType
    BY <1>1, <1>7, CleanedType DEF Approve
  <2> QED
    BY <1>7, <2>1, <2>2, CommandType DEF Approve, TypeOK, WorkType, MainType
<1>8. CASE CancelMarks
  BY <1>8, CommandType DEF CancelMarks, TypeOK
<1>9. CASE CancelSettles
  BY <1>9, CleanedType, DiesType DEF CancelSettles, TypeOK, WorkType, MainType, StateType
<1>10. CASE Crash
  BY <1>10, DiesType, FaultType DEF Crash, TypeOK
<1>11. CASE UNCHANGED vars
  BY <1>11 DEF vars, TypeOK
<1> QED
  BY <1>2, <1>3, <1>4, <1>5, <1>6, <1>7, <1>8, <1>9, <1>10, <1>11 DEF Next

-----------------------------------------------------------------------------
(* What the properties rest on. *)

\* Only the stages of the current layer are at work, and only while it runs.
TasksInLayer ==
  \A s \in Stage : Working(s) => run.pc \in {"stages", "threw"} /\ s \in run.layer

\* The work of the layers before is in the job's worktree, and in the base of
\* this layer; their own worktrees are gone.
PastMerged ==
  InLayer => \A d \in run.past :
    (dirty[d] => d \in run.base /\ d \in main.merged) /\ ~wt[d].made

\* The stages of a layer start from its base ...
LayerBased ==
  /\ run.pc \in {"layer", "record", "stages", "threw"} =>
       \A s \in run.layer \ run.todo : wt[s].base = run.base
  /\ run.pc = "record" => wt[First].base = run.base

\* ... and are merged one after another.
LayerMerged ==
  /\ run.pc \in {"merge", "clean", "collect"} => \A s \in run.layer \ run.todo :
       (dirty[s] => s \in main.merged) /\ ~wt[s].made
  /\ run.pc = "clean" /\ dirty[First] => First \in main.merged

AllMerged ==
  run.pc = "finish" /\ run.status = "done" =>
    \A s \in Stage : (dirty[s] => s \in main.merged) /\ ~wt[s].made

OpenWhileRunning == run.pc \notin {"idle", "tidy"} => entry = "open" \/ marker

NothingLeft ==
  entry \in {"done", "awaiting_approval"} \/ st.status = "awaiting_approval" =>
    run.pc \in {"idle", "tidy"} /\ \A s \in Stage : ~wt[s].made

\* A stage that has got as far as its agent has written the state "running".
HasWritten(s) ==
  \/ task[s].pc \in {"read", "agent"}
  \/ task[s].pc = "ended" /\ task[s].end # "cancelled"
  \/ task[s].pc = "write" /\ task[s].then # "agent"

StateIsRunning ==
  /\ run.pc = "stages" => \A s \in run.layer : HasWritten(s) => st.status = "running"
  /\ run.pc \in {"merge", "clean", "collect", "finish"} => st.status = "running"

StageInv ==
  /\ TypeOK /\ Layers /\ TasksInLayer /\ PastMerged /\ LayerBased /\ LayerMerged
  /\ AllMerged /\ OpenWhileRunning /\ NothingLeft /\ StateIsRunning

LEMMA InitInv == Init => StageInv
<1> SUFFICES ASSUME Init PROVE StageInv
  OBVIOUS
<1>1. run.pc = "idle"
  BY DEF Init, Idle
<1>2. \A s \in Stage : task[s].pc = "none" /\ ~wt[s].made
  BY DEF Init, NoTask, NoWork
<1>3. entry = "open" /\ st.status = "queued"
  BY DEF Init
<1> QED
  BY <1>1, <1>2, <1>3, InitType
     DEF StageInv, Layers, InLayer, TasksInLayer, Working, PastMerged, LayerBased, LayerMerged,
         AllMerged, OpenWhileRunning, NothingLeft, StateIsRunning

\* A run that has ended leaves only the question what lies about.
LEMMA IdleInv ==
  ASSUME TypeOK', run'.pc = "idle", \A s \in Stage : ~Working(s)', NothingLeft'
  PROVE  StageInv'
BY DEF StageInv, Layers, InLayer, TasksInLayer, PastMerged, LayerBased, LayerMerged,
       AllMerged, OpenWhileRunning, StateIsRunning

LEMMA DiesInv ==
  ASSUME StageInv, TypeOK', Dies,
         \A s \in Stage : wt'[s].made => wt[s].made,
         \/ UNCHANGED <<st, entry>>
         \/ st'.status = "cancelled" /\ entry' \in {entry, "cancelled"}
  PROVE  StageInv'
<1>1. run'.pc = "idle" /\ \A s \in Stage : task'[s].pc = "none"
  BY DiesType
<1>2. NothingLeft'
  BY <1>1 DEF StageInv, NothingLeft
<1> QED
  BY <1>1, <1>2, IdleInv DEF Working

\* A run that knows how it ends.
LEMMA FinishInv ==
  ASSUME StageInv, TypeOK', InLayer, NEW status \in Ended, Finish(status),
         UNCHANGED <<st, entry, marker, main, wt, dirty, task>>,
         \A s \in Stage : ~Working(s), st.status = "running",
         status = "done" => \A s \in Stage : (dirty[s] => s \in main.merged) /\ ~wt[s].made
  PROVE  StageInv'
<1>1. run'.pc = "finish" /\ run'.status = status
  BY RunFinishes DEF StageInv, RunOnly
<1>2. NothingLeft'
  BY DEF StageInv, NothingLeft, InLayer
<1>3. OpenWhileRunning'
  BY DEF StageInv, OpenWhileRunning, InLayer
<1>4. AllMerged'
  BY <1>1 DEF AllMerged
<1>5. TasksInLayer' /\ StateIsRunning'
  BY <1>1 DEF TasksInLayer, Working, StateIsRunning
<1> QED
  BY <1>1, <1>2, <1>3, <1>4, <1>5
     DEF StageInv, Layers, InLayer, PastMerged, LayerBased, LayerMerged

\* A step of runJob inside a layer touches neither the state nor the queue.
LEMMA LayerInv ==
  ASSUME StageInv, InLayer, InLayer', UNCHANGED <<st, entry, marker>>
  PROVE  OpenWhileRunning' /\ NothingLeft' /\ AllMerged'
BY DEF StageInv, InLayer, OpenWhileRunning, NothingLeft, AllMerged

\* Nobody works while runJob is between two layers.
LEMMA NobodyWorks ==
  ASSUME StageInv, run.pc \notin {"stages", "threw"}
  PROVE  \A s \in Stage : ~Working(s)
BY DEF StageInv, TasksInLayer

LEMMA StartsInv == ASSUME StageInv, TypeOK', Starts PROVE StageInv'
<1>1. /\ run'.pc = "layer" /\ run'.past = {} /\ run'.base = {}
      /\ run'.layer = Ready({}) /\ run'.todo = Ready({})
  BY DEF Starts, Idle
<1>2. Layers'
  BY <1>1 DEF Layers, Todo, Ready
<1>3. TasksInLayer' /\ OpenWhileRunning' /\ NothingLeft'
  BY NobodyWorks DEF Starts, StageInv, TasksInLayer, Working, OpenWhileRunning, NothingLeft
<1> QED
  BY <1>1, <1>2, <1>3 DEF StageInv, PastMerged, LayerBased, LayerMerged, AllMerged, StateIsRunning

LEMMA AddedInv == ASSUME StageInv, TypeOK', WorktreeAdded PROVE StageInv'
<1>1. /\ run.pc = "layer" /\ run.todo # {} /\ UNCHANGED <<st, entry, marker, main, dirty, task>>
      /\ run'.pc = "record" /\ run'.todo = run.todo /\ run'.past = run.past
      /\ run'.layer = run.layer /\ run'.base = run.base
  BY RunSteps DEF StageInv, WorktreeAdded, Adding, RunOnly
<1>2. First \in run.todo /\ First \in Stage /\ First' = First
  BY <1>1, FirstOf DEF StageInv, First
<1>3. Todo
  BY <1>1 DEF StageInv, Layers, InLayer
<1>4. Layers'
  BY <1>1, <1>3 DEF StageInv, Layers, InLayer, Todo
<1>5. /\ \A s \in Stage \ {First} : wt'[s] = wt[s]
      /\ wt'[First].base = run.base
  <2> DEFINE w == [wt[First] EXCEPT !.made = TRUE, !.base = run.base]
  <2>1. wt' = [wt EXCEPT ![First] = w] /\ wt \in [Stage -> WorkType]
    BY DEF WorktreeAdded, StageInv, TypeOK, WorkType
  <2>2. w.base = run.base
    <3>1. wt[First] \in WorkType
      BY <1>2, <2>1
    <3> QED
      BY <3>1 DEF WorkType
  <2> HIDE DEF w
  <2> QED
    BY <1>2, <2>1, <2>2
<1>6. PastMerged'
  <2>1. run.past \subseteq Stage \ {First}
    BY <1>2, <1>3 DEF Todo, StageInv, TypeOK, RunType
  <2> QED
    BY <1>1, <1>5, <2>1 DEF StageInv, PastMerged, InLayer
<1>7. LayerBased'
  BY <1>1, <1>2, <1>3, <1>5 DEF StageInv, LayerBased, Todo
<1>8. TasksInLayer'
  BY <1>1, NobodyWorks DEF TasksInLayer, Working
<1>9. OpenWhileRunning' /\ NothingLeft' /\ AllMerged'
  BY <1>1, LayerInv DEF InLayer
<1> QED
  BY <1>1, <1>4, <1>6, <1>7, <1>8, <1>9 DEF StageInv, LayerMerged, StateIsRunning

LEMMA RecordedInv == ASSUME StageInv, TypeOK', WorktreeRecorded PROVE StageInv'
<1> DEFINE rest == run.todo \ {First}
<1>1. run.pc = "record" /\ UNCHANGED <<st, entry, marker, main, dirty>>
  BY DEF WorktreeRecorded
<1>2. Todo /\ run.todo # {} /\ rest \in SUBSET Stage
  BY <1>1 DEF StageInv, Layers, InLayer, Todo, TypeOK, RunType
<1>3. First \in run.todo /\ First \in Stage
  BY <1>2, FirstOf DEF StageInv
<1>4. run' = [run EXCEPT !.todo = rest, !.pc = IF rest = {} THEN "stages" ELSE "layer"]
  BY DEF WorktreeRecorded
<1>5. /\ run'.pc = IF rest = {} THEN "stages" ELSE "layer"
      /\ run'.todo = rest /\ run'.past = run.past /\ run'.layer = run.layer
      /\ run'.base = run.base
  BY <1>2, <1>4, RunMoves DEF StageInv, RunOnly
<1>6. Layers'
  BY <1>1, <1>2, <1>5 DEF StageInv, Layers, InLayer, Todo
<1>7. \A s \in Stage : wt'[s].base = wt[s].base /\ wt'[s].made = wt[s].made
  <2> DEFINE w == [wt[First] EXCEPT !.recorded = TRUE]
  <2>1. wt' = [wt EXCEPT ![First] = w] /\ wt \in [Stage -> WorkType]
    BY DEF WorktreeRecorded, StageInv, TypeOK, WorkType
  <2>2. w.base = wt[First].base /\ w.made = wt[First].made
    <3>1. wt[First] \in WorkType
      BY <1>3, <2>1
    <3> QED
      BY <3>1 DEF WorkType
  <2> HIDE DEF w
  <2> QED
    BY <1>3, <2>1, <2>2
<1>8. PastMerged'
  BY <1>1, <1>5, <1>7 DEF StageInv, PastMerged, InLayer, TypeOK, RunType
<1>9. LayerBased'
  <2>1. \A s \in run.layer \ rest : wt[s].base = run.base
    BY <1>1, <1>3 DEF StageInv, LayerBased
  <2>2. run.layer \subseteq Stage
    BY DEF StageInv, TypeOK, RunType
  <2> QED
    BY <1>5, <1>7, <2>1, <2>2 DEF LayerBased
<1>10. \A s \in Stage : Working(s)' => rest = {} /\ s \in run.layer
  <2>1. CASE rest # {}
    BY <1>1, <2>1, NobodyWorks DEF WorktreeRecorded, Working
  <2>2. CASE rest = {}
    BY <2>2 DEF WorktreeRecorded, Working, NoTask
  <2> QED
    BY <2>1, <2>2
<1>11. TasksInLayer'
  BY <1>5, <1>10 DEF TasksInLayer
<1>12. StateIsRunning'
  <2>1. ASSUME NEW s \in Stage, s \in run.layer, rest = {}
        PROVE  task'[s].pc = "attempt"
    BY <2>1 DEF WorktreeRecorded, Begun, NoTask
  <2>2. run.layer \subseteq Stage
    BY DEF StageInv, TypeOK, RunType
  <2> QED
    BY <1>5, <2>1, <2>2 DEF StateIsRunning, HasWritten
<1>13. OpenWhileRunning' /\ NothingLeft' /\ AllMerged'
  BY <1>1, <1>5, LayerInv DEF InLayer
<1> QED
  BY <1>5, <1>6, <1>8, <1>9, <1>11, <1>12, <1>13 DEF StageInv, LayerMerged

\* What a stage does is to itself: the other stages, the run and the worktrees
\* are as they were, and only its own agent changes its files.
LEMMA StageFrame ==
  ASSUME StageInv, NEW s \in Stage, StageStep(s)
  PROVE  /\ UNCHANGED <<ctx, entry, marker, main, wt, run>>
         /\ Working(s)
         /\ \A q \in Stage \ {s} : task'[q] = task[q] /\ dirty'[q] = dirty[q]
         /\ st'.status \in {st.status, "running"}
         /\ HasWritten(s)' => st'.status = "running" \/ HasWritten(s)
<1>1. TypeOK /\ task[s] \in TaskType /\ st \in StateType
  BY DEF StageInv, TypeOK
<1>2. CASE StageCancelled(s)
  BY <1>1, <1>2, EndsAsType DEF StageCancelled, Working, HasWritten
<1>3. CASE Attempt(s)
  <2> DEFINE t == [task[s] EXCEPT !.pc = "write", !.read = st.used, !.persist = FALSE,
                                  !.then = "agent"]
  <2>1. t \in TaskType /\ t.pc = "write" /\ t.then = "agent" /\ Moves(s, t)
    BY <1>1, <1>3 DEF Attempt, TaskType, StateType
  <2> HIDE DEF t
  <2> QED
    BY <1>1, <1>3, <2>1, MovesType DEF Attempt, Working, HasWritten
<1>4. CASE StateRead(s)
  <2> DEFINE t == [task[s] EXCEPT !.pc = "write", !.read = st.used]
  <2>1. t \in TaskType /\ Moves(s, t)
    BY <1>1, <1>4 DEF StateRead, TaskType, StateType
  <2> HIDE DEF t
  <2> QED
    BY <1>1, <1>4, <2>1, MovesType DEF StateRead, Working, HasWritten
<1>5. CASE StateWritten(s)
  <2> DEFINE t == [task[s] EXCEPT !.pc = task[s].then, !.read = NoTask.read]
  <2>1. t \in TaskType /\ Moves(s, t)
    BY <1>1, <1>5 DEF StateWritten, TaskType, NoTask
  <2>2. st'.status = "running"
    BY <1>1, <1>5 DEF StateWritten, StateType
  <2> HIDE DEF t
  <2> QED
    BY <1>1, <1>5, <2>1, <2>2, MovesType DEF StateWritten, Working
<1>6. ASSUME NEW changes \in BOOLEAN, Passes(s, changes) \/ Fails(s, changes)
      PROVE  /\ UNCHANGED <<ctx, st, entry, marker, main, wt, run>>
             /\ task[s].pc = "agent"
             /\ \A q \in Stage \ {s} : task'[q] = task[q] /\ dirty'[q] = dirty[q]
  BY <1>1, <1>6 DEF Passes, Fails, EndsAs, Moves, AgentWorks, TypeOK
<1> QED
  BY <1>2, <1>3, <1>4, <1>5, <1>6 DEF StageStep, Working, HasWritten

LEMMA StageInLayer ==
  ASSUME StageInv, NEW s \in Stage, Working(s)
  PROVE  run.pc \in {"stages", "threw"} /\ s \in run.layer /\ s \notin run.past
BY DEF StageInv, TasksInLayer, Layers, InLayer, Todo

\* A step of one stage of the layer, whether it ends or throws.
LEMMA StageChangesInv ==
  ASSUME StageInv, TypeOK', NEW s \in Stage, Working(s),
         UNCHANGED <<entry, marker, main, wt>>,
         RunOnly(run'.pc, run.todo), run'.pc = run.pc \/ run'.pc = "threw",
         \A q \in Stage \ {s} : task'[q] = task[q] /\ dirty'[q] = dirty[q],
         st'.status \in {st.status, "running"}
  PROVE  /\ Layers' /\ TasksInLayer' /\ PastMerged' /\ LayerBased' /\ LayerMerged'
         /\ AllMerged' /\ OpenWhileRunning' /\ NothingLeft'
<1>1. run.pc \in {"stages", "threw"} /\ run'.pc \in {"stages", "threw"} /\ s \in run.layer
  BY StageInLayer
<1>2. /\ run'.todo = run.todo /\ run'.past = run.past /\ run'.layer = run.layer
      /\ run'.base = run.base
  BY DEF RunOnly
<1>3. Todo /\ run.past \in SUBSET Stage
  BY <1>1 DEF StageInv, Layers, InLayer, TypeOK, RunType
<1>4. Layers'
  BY <1>1, <1>2, <1>3 DEF StageInv, Layers, InLayer, Todo
<1>5. TasksInLayer'
  BY <1>1, <1>2 DEF StageInv, TasksInLayer, Working
<1>6. PastMerged'
  <2>1. run.past \subseteq Stage \ {s}
    BY <1>1, <1>3 DEF Todo
  <2> QED
    BY <1>1, <1>2, <2>1 DEF StageInv, PastMerged, InLayer
<1>7. LayerBased' /\ LayerMerged' /\ AllMerged'
  BY <1>1, <1>2 DEF StageInv, LayerBased, LayerMerged, AllMerged
<1>8. OpenWhileRunning' /\ NothingLeft'
  BY <1>1 DEF StageInv, OpenWhileRunning, NothingLeft
<1> QED
  BY <1>4, <1>5, <1>6, <1>7, <1>8

LEMMA StageStepInv == ASSUME StageInv, TypeOK', NEW s \in Stage, StageStep(s) PROVE StageInv'
<1>1. UNCHANGED <<entry, marker, main, wt, run>> /\ Working(s)
  BY StageFrame
<1>2. \A q \in Stage \ {s} : task'[q] = task[q] /\ dirty'[q] = dirty[q]
  BY StageFrame
<1>3. /\ st'.status \in {st.status, "running"}
      /\ HasWritten(s)' => st'.status = "running" \/ HasWritten(s)
  BY StageFrame
<1>4. RunOnly(run'.pc, run.todo)
  BY <1>1 DEF RunOnly, StageInv, TypeOK
<1>5. StateIsRunning'
  <2>1. run.layer \subseteq Stage
    BY DEF StageInv, TypeOK, RunType
  <2> QED
    BY <1>1, <1>2, <1>3, <2>1, StageInLayer DEF StageInv, StateIsRunning, HasWritten
<1> QED
  BY <1>1, <1>2, <1>3, <1>4, <1>5, StageChangesInv DEF StageInv

LEMMA ThrowsInv == ASSUME StageInv, TypeOK', NEW s \in Stage, Throws(s) PROVE StageInv'
<1>1. UNCHANGED <<st, entry, marker, main, wt, dirty>> /\ Working(s)
  BY DEF Throws, Working
<1>2. \A q \in Stage \ {s} : task'[q] = task[q]
  BY EndsAsType DEF Throws, StageInv
<1>3. RunOnly("threw", run.todo)
  BY RunSteps DEF Throws, StageInv
<1>4. run'.pc = "threw"
  BY <1>3 DEF RunOnly
<1>5. StateIsRunning'
  BY <1>4 DEF StateIsRunning
<1> QED
  BY <1>1, <1>2, <1>3, <1>4, <1>5, StageChangesInv DEF StageInv

\* When all stages of a layer have ended, nobody works.
LEMMA EndedNobodyWorks ==
  ASSUME StageInv, AllEnded
  PROVE  \A s \in Stage : ~Working(s)
BY DEF StageInv, TasksInLayer, AllEnded, Working

LEMMA FailsInv == ASSUME StageInv, TypeOK', LayerFails PROVE StageInv'
<1>1. CASE FinishCancelled
  BY <1>1, CleanedType, DiesInv DEF FinishCancelled, StageInv, TypeOK, StateType
<1>2. CASE ~FinishCancelled
  <2>1. /\ run.pc = "stages" /\ AllEnded /\ Terminal # {}
        /\ Finish("failed") /\ task[Min(Terminal)].end # "cancelled"
        /\ UNCHANGED <<st, entry, marker, main, wt, dirty, task>>
    BY <1>2 DEF LayerFails
  <2>2. Min(Terminal) \in Terminal
    <3>1. Terminal \in SUBSET Stage
      BY DEF Terminal, StageInv, TypeOK, RunType
    <3> QED
      BY <2>1, <3>1, MinOf
  <2>3. st.status = "running"
    <3> DEFINE m == Min(Terminal)
    <3>1. m \in run.layer /\ task[m].pc = "ended" /\ task[m].end # "cancelled"
      BY <2>1, <2>2 DEF Terminal, AllEnded
    <3> HIDE DEF m
    <3> QED
      BY <2>1, <3>1 DEF StageInv, StateIsRunning, HasWritten
  <2> QED
    BY <2>1, <2>3, EndedNobodyWorks, FinishInv DEF InLayer, Ended
<1> QED
  BY <1>1, <1>2

LEMMA PassesInv == ASSUME StageInv, TypeOK', LayerPasses PROVE StageInv'
<1>1. /\ run.pc = "stages" /\ AllEnded /\ Terminal = {}
      /\ UNCHANGED <<st, entry, marker, main, wt, dirty>>
  BY DEF LayerPasses
<1>2. Todo /\ run.layer \in SUBSET Stage /\ run.layer # {}
  BY <1>1 DEF StageInv, Layers, InLayer, Todo, TypeOK, RunType
<1>3. /\ run'.pc = "merge" /\ run'.todo = run.layer /\ run'.past = run.past
      /\ run'.layer = run.layer /\ run'.base = run.base
  BY <1>2, RunMoves DEF LayerPasses, StageInv, RunOnly
<1>4. Layers'
  BY <1>1, <1>2, <1>3 DEF StageInv, Layers, InLayer, Todo
<1>5. PastMerged'
  BY <1>1, <1>3 DEF StageInv, PastMerged, InLayer
<1>6. TasksInLayer'
  BY DEF LayerPasses, TasksInLayer, Working, NoTask
<1>7. st.status = "running"
  <2>1. \A s \in run.layer : task[s].pc = "ended" /\ task[s].end = "ok"
    BY <1>1 DEF AllEnded, Terminal
  <2> QED
    BY <1>1, <1>2, <2>1 DEF StageInv, StateIsRunning, HasWritten
<1>8. OpenWhileRunning' /\ NothingLeft' /\ AllMerged'
  BY <1>1, <1>3, LayerInv DEF InLayer
<1> QED
  BY <1>1, <1>3, <1>4, <1>5, <1>6, <1>7, <1>8
     DEF StageInv, LayerBased, LayerMerged, StateIsRunning

LEMMA MergesInv == ASSUME StageInv, TypeOK', Merges PROVE StageInv'
<1>1. /\ run.pc = "merge" /\ UNCHANGED <<st, entry, marker, wt, dirty, task>>
      /\ run'.pc = "clean" /\ run'.todo = run.todo /\ run'.past = run.past
      /\ run'.layer = run.layer /\ run'.base = run.base
  BY RunSteps DEF StageInv, Merges, RunOnly
<1>2. Todo /\ First' = First
  BY <1>1 DEF StageInv, Layers, InLayer, First
<1>3. main.merged \subseteq main'.merged /\ (dirty[First] => First \in main'.merged)
  BY DEF Merges, StageInv, TypeOK
<1>4. Layers'
  BY <1>1, <1>2 DEF StageInv, Layers, InLayer, Todo
<1>5. PastMerged'
  BY <1>1, <1>3 DEF StageInv, PastMerged, InLayer
<1>6. LayerMerged'
  BY <1>1, <1>2, <1>3 DEF StageInv, LayerMerged
<1>7. TasksInLayer'
  BY <1>1, NobodyWorks DEF TasksInLayer, Working
<1>8. OpenWhileRunning' /\ NothingLeft' /\ AllMerged'
  BY <1>1, LayerInv DEF InLayer
<1> QED
  BY <1>1, <1>4, <1>5, <1>6, <1>7, <1>8 DEF StageInv, LayerBased, StateIsRunning

LEMMA ConflictsInv == ASSUME StageInv, TypeOK', Conflicts PROVE StageInv'
<1>1. run.pc = "merge" /\ Finish("needs_fix")
  BY DEF Conflicts
<1>2. (\A s \in Stage : ~Working(s)) /\ st.status = "running"
  BY <1>1, NobodyWorks DEF StageInv, StateIsRunning
<1> QED
  BY <1>1, <1>2, FinishInv DEF Conflicts, InLayer, Ended

LEMMA CleanedInv == ASSUME StageInv, TypeOK', StageCleaned PROVE StageInv'
<1> DEFINE rest == run.todo \ {First}
<1>1. run.pc = "clean" /\ UNCHANGED <<st, entry, marker, main, dirty, task>>
  BY DEF StageCleaned
<1>2. Todo /\ run.todo # {} /\ rest \in SUBSET Stage
  BY <1>1 DEF StageInv, Layers, InLayer, Todo, TypeOK, RunType
<1>3. First \in run.todo /\ First \in Stage
  BY <1>2, FirstOf DEF StageInv
<1>4. run' = [run EXCEPT !.todo = rest, !.pc = IF rest = {} THEN "collect" ELSE "merge"]
  BY DEF StageCleaned
<1>5. /\ run'.pc = IF rest = {} THEN "collect" ELSE "merge"
      /\ run'.todo = rest /\ run'.past = run.past /\ run'.layer = run.layer
      /\ run'.base = run.base
  <2> HIDE DEF rest
  <2> DEFINE pc == IF rest = {} THEN "collect" ELSE "merge"
  <2>1. pc \in {"collect", "merge"} /\ run' = [run EXCEPT !.todo = rest, !.pc = pc]
    BY <1>4
  <2> HIDE DEF pc
  <2>2. RunOnly(pc, rest)
    BY <1>2, <2>1, RunMoves DEF StageInv
  <2> QED
    BY <2>2 DEF RunOnly, pc
<1>6. ~wt'[First].made /\ \A s \in Stage \ {First} : wt'[s] = wt[s]
  BY <1>3 DEF StageCleaned, NoWork, StageInv, TypeOK
<1>7. Layers'
  BY <1>1, <1>2, <1>5 DEF StageInv, Layers, InLayer, Todo
<1>8. PastMerged'
  <2>1. run.past \in SUBSET Stage
    BY DEF StageInv, TypeOK, RunType
  <2> QED
    BY <1>1, <1>5, <1>6, <2>1 DEF StageInv, PastMerged, InLayer
<1>9. LayerMerged'
  <2>1. run.layer \in SUBSET Stage
    BY DEF StageInv, TypeOK, RunType
  <2>2. \A s \in run.layer \ rest : (dirty[s] => s \in main.merged) /\ ~wt'[s].made
    BY <1>1, <1>6, <2>1 DEF StageInv, LayerMerged
  <2> QED
    BY <1>1, <1>5, <2>2 DEF LayerMerged
<1>10. TasksInLayer'
  BY <1>1, NobodyWorks DEF TasksInLayer, Working
<1>11. OpenWhileRunning' /\ NothingLeft' /\ AllMerged'
  BY <1>1, <1>5, LayerInv DEF InLayer
<1> QED
  BY <1>1, <1>5, <1>7, <1>8, <1>9, <1>10, <1>11 DEF StageInv, LayerBased, StateIsRunning

LEMMA CommittedInv == ASSUME StageInv, TypeOK', LayerCommitted PROVE StageInv'
<1> DEFINE past == run.past \cup run.layer
<1>1. run.pc = "collect" /\ UNCHANGED <<st, entry, marker, main, wt, dirty, task>>
  BY DEF LayerCommitted
<1>2. Todo /\ run \in RunType /\ past \in SUBSET Stage /\ run.todo = {}
  BY <1>1 DEF StageInv, Layers, InLayer, Todo, TypeOK, RunType
<1>3. \A s \in past : (dirty[s] => s \in main.merged) /\ ~wt[s].made
  BY <1>1, <1>2 DEF StageInv, PastMerged, InLayer, LayerMerged
<1>4. (\A s \in Stage : ~Working(s)) /\ st.status = "running"
  BY <1>1, NobodyWorks DEF StageInv, StateIsRunning
<1>5. CASE past = Stage
  BY <1>1, <1>3, <1>4, <1>5, FinishInv DEF LayerCommitted, InLayer, Ended
<1>6. CASE past # Stage
  <2>1. /\ run'.pc = "layer" /\ run'.past = past /\ run'.layer = Ready(past)
        /\ run'.todo = Ready(past) /\ run'.base = main.merged
    <3>1. run' = [run EXCEPT !.pc = "layer", !.past = past, !.layer = Ready(past),
                             !.todo = Ready(past), !.base = main.merged]
      BY <1>6 DEF LayerCommitted
    <3> HIDE DEF past
    <3> QED
      BY <1>2, <3>1 DEF RunType
  <2>2. Layers'
    BY <2>1 DEF Layers, Todo, Ready
  <2>3. PastMerged'
    BY <1>1, <1>3, <2>1 DEF PastMerged
  <2>4. TasksInLayer'
    BY <1>1, <1>4 DEF TasksInLayer, Working
  <2>5. OpenWhileRunning' /\ NothingLeft' /\ AllMerged'
    BY <1>1, <2>1, LayerInv DEF InLayer
  <2> QED
    BY <2>1, <2>2, <2>3, <2>4, <2>5 DEF StageInv, LayerBased, LayerMerged, StateIsRunning
<1> QED
  BY <1>5, <1>6

LEMMA FinishesInv == ASSUME StageInv, TypeOK', Finishes PROVE StageInv'
<1>1. run.pc = "finish" /\ UNCHANGED <<wt, task>>
  BY DEF Finishes
<1>2. run'.pc = "tidy"
  BY RunSteps DEF Finishes, StageInv, RunOnly
<1>3. NothingLeft'
  <2>1. entry' \in {"done", "awaiting_approval"} \/ st'.status = "awaiting_approval"
          => run.status = "done"
    BY DEF Finishes, StageInv, TypeOK, StateType, RunType, Ended
  <2> QED
    BY <1>1, <1>2, <2>1 DEF StageInv, AllMerged, NothingLeft
<1>4. TasksInLayer'
  BY <1>1, NobodyWorks DEF TasksInLayer, Working
<1> QED
  BY <1>2, <1>3, <1>4
     DEF StageInv, Layers, InLayer, PastMerged, LayerBased, LayerMerged, AllMerged,
         OpenWhileRunning, StateIsRunning

\* Everything else ends a run, or finds none.
LEMMA TidiesInv == ASSUME StageInv, TypeOK', Tidies PROVE StageInv'
BY CleanedType, DiesInv DEF Tidies, StageInv

LEMMA StillIdle ==
  ASSUME StageInv, TypeOK', run.pc = "idle", UNCHANGED <<run, task>>, NothingLeft'
  PROVE  StageInv'
BY NobodyWorks, IdleInv DEF Working

LEMMA ApproveInv == ASSUME StageInv, TypeOK', Approve PROVE StageInv'
<1>1. run.pc = "idle" /\ UNCHANGED <<run, task>> /\ \A s \in Stage : ~wt[s].made
  BY DEF Approve, StageInv, NothingLeft
<1>2. \A s \in Stage : ~wt'[s].made
  BY <1>1, CleanedType DEF Approve, StageInv
<1> QED
  BY <1>1, <1>2, StillIdle DEF NothingLeft

LEMMA AgainInv == ASSUME StageInv, TypeOK', NEW reset \in BOOLEAN, Again(reset) PROVE StageInv'
<1>1. run.pc = "idle" /\ UNCHANGED <<run, task, wt>> /\ entry' = "open"
  BY DEF Again
<1>2. st'.status \in {"queued", st.status}
  BY DEF Again, StageInv, TypeOK, StateType
<1>3. NothingLeft'
  BY <1>1, <1>2 DEF StageInv, NothingLeft
<1> QED
  BY <1>1, <1>3, StillIdle

LEMMA MarksInv == ASSUME StageInv, TypeOK', CancelMarks PROVE StageInv'
<1>1. UNCHANGED <<st, main, wt, dirty, run, task>> /\ marker' /\ entry' \in {entry, "cancelled"}
  BY DEF CancelMarks
<1>2. First' = First
  BY <1>1 DEF First
<1> QED
  BY <1>1, <1>2
     DEF StageInv, Layers, InLayer, Todo, TasksInLayer, Working, PastMerged, LayerBased,
         LayerMerged, AllMerged, OpenWhileRunning, NothingLeft, StateIsRunning, HasWritten

LEMMA SettlesInv == ASSUME StageInv, TypeOK', CancelSettles PROVE StageInv'
BY CleanedType, DiesInv DEF CancelSettles, StageInv, TypeOK, StateType

LEMMA NextInv == StageInv /\ [Next]_vars => StageInv'
<1> SUFFICES ASSUME StageInv, [Next]_vars PROVE StageInv'
  OBVIOUS
<1>1. TypeOK'
  BY NextType DEF StageInv
<1>2. CASE RunStep
  <2>1. CASE LayerCancelled
    BY <1>1, <2>1, CleanedType, DiesInv DEF LayerCancelled, FinishCancelled, StageInv, TypeOK,
                                            StateType
  <2>2. CASE WorktreeExists
    BY <1>1, <2>2, DiesInv DEF WorktreeExists
  <2>3. CASE ProcessEnds
    BY <1>1, <2>3, DiesInv DEF ProcessEnds
  <2> QED
    BY <1>1, <1>2, <2>1, <2>2, <2>3, AddedInv, RecordedInv, FailsInv, PassesInv, MergesInv,
       ConflictsInv, CleanedInv, CommittedInv, FinishesInv, TidiesInv DEF RunStep
<1>3. ASSUME NEW s \in Stage, StageStep(s) \/ Throws(s)
      PROVE  StageInv'
  BY <1>1, <1>3, StageStepInv, ThrowsInv
<1>4. ASSUME NEW reset \in BOOLEAN, Again(reset)
      PROVE  StageInv'
  BY <1>1, <1>4, AgainInv
<1>5. CASE Crash
  BY <1>1, <1>5, DiesInv DEF Crash
<1>6. CASE UNCHANGED vars
  <2>1. First' = First
    BY <1>6 DEF vars, First
  <2> QED
    BY <1>6, <2>1
       DEF vars, StageInv, TypeOK, Layers, InLayer, Todo, TasksInLayer, Working, PastMerged,
           LayerBased, LayerMerged, AllMerged, OpenWhileRunning, NothingLeft, StateIsRunning,
           HasWritten
<1> QED
  BY <1>1, <1>2, <1>3, <1>4, <1>5, <1>6, StartsInv, ApproveInv, MarksInv, SettlesInv DEF Next

LEMMA Invariant == Spec => []StageInv
BY InitInv, NextInv, PTL DEF Spec

-----------------------------------------------------------------------------
(* The theorems. *)

\* Every variable keeps its type.
THEOREM TypeCorrect == Spec => []TypeOK
<1>1. StageInv => TypeOK
  BY DEF StageInv
<1> QED
  BY <1>1, Invariant, PTL

\* An agent starts from files that have what the stages its own depends on have
\* left (worktree.ts makes the worktrees of a layer from the merged layers).
THEOREM BuildsOnDependencies == Spec => []SeesItsDependencies
<1>1. StageInv => SeesItsDependencies
  <2> SUFFICES ASSUME StageInv, NEW s \in Stage, task[s].pc = "agent", NEW d \in Deps[s], dirty[d]
               PROVE  d \in wt[s].base
    BY DEF SeesItsDependencies
  <2>1. run.pc \in {"stages", "threw"} /\ s \in run.layer
    BY StageInLayer DEF Working
  <2>2. run.todo = {} /\ d \in run.past
    BY <2>1 DEF StageInv, Layers, InLayer, Todo
  <2>3. d \in run.base
    BY <2>1, <2>2 DEF StageInv, PastMerged, InLayer
  <2> QED
    BY <2>1, <2>2, <2>3 DEF StageInv, LayerBased
<1> QED
  BY <1>1, Invariant, PTL

\* A run that has recorded its end has no stage at work (runStages waits for
\* every promise of the layer before it decides).
THEOREM EndsQuietly == Spec => []QuietWhenEnded
<1>1. StageInv => QuietWhenEnded
  BY DEF StageInv, QuietWhenEnded, OpenWhileRunning, TasksInLayer
<1> QED
  BY <1>1, Invariant, PTL

\* A job that is done has left no stage worktree, whatever runs it took.
THEOREM LeavesNoWorktree == Spec => []DoneLeavesNoWorktree
<1>1. StageInv => DoneLeavesNoWorktree
  BY DEF StageInv, DoneLeavesNoWorktree, NothingLeft
<1> QED
  BY <1>1, Invariant, PTL

\* A run that ends well has the changes of all its stages in the job's worktree.
THEOREM AllWorkIsMerged == Spec => DoneHasAllWork
<1>1. StageInv /\ [Next]_vars
        => [run.pc = "finish" /\ st'.status \in {"done", "awaiting_approval"}
              => \A s \in Stage : dirty[s] => s \in main.merged]_vars
  <2> SUFFICES ASSUME StageInv, [Next]_vars, run.pc = "finish",
                      st'.status \in {"done", "awaiting_approval"}
               PROVE  \A s \in Stage : dirty[s] => s \in main.merged
    OBVIOUS
  <2>1. st.status = "running" /\ st \in StateType
    BY DEF StageInv, StateIsRunning, TypeOK
  <2>2. CASE Finishes
    <3>1. run.status = "done"
      BY <2>1, <2>2 DEF Finishes, StateType, StageInv, TypeOK, RunType, Ended
    <3> QED
      BY <3>1 DEF StageInv, AllMerged
  <2>3. CASE ~Finishes
    <3>1. \A s \in Stage : ~StageStep(s) /\ ~Throws(s)
      BY StageFrame, NobodyWorks DEF Throws
    <3>2. st'.status \in {st.status, "cancelled"}
      BY <2>1, <2>3, <3>1
         DEF Next, Starts, RunStep, LayerCancelled, WorktreeAdded, WorktreeExists, Adding,
             WorktreeRecorded, LayerFails, LayerPasses, Merges, Conflicts, StageCleaned,
             LayerCommitted, Tidies, ProcessEnds, Again, Approve, CancelMarks, CancelSettles,
             Crash, vars, StateType
    <3> QED
      BY <2>1, <3>2
  <2> QED
    BY <2>2, <2>3
<1> QED
  BY <1>1, Invariant, PTL DEF Spec, DoneHasAllWork

=============================================================================
