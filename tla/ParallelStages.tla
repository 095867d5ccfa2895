---------------------------- MODULE ParallelStages ----------------------------
(***************************************************************************)
(* The stages of an isolated job with dependencies: layer by layer, each   *)
(* stage of a layer at the same time as the others and in a worktree of    *)
(* its own, merged into the job's worktree when all have ended.            *)
(*                                                                         *)
(* JobRun has what one stage does in detail; here an attempt is an agent   *)
(* that works and then passes or fails, and one budget stands for the two  *)
(* that RetryBudget keeps in the same way.  All stages write the one job   *)
(* state, and each write is a load and, later, a store of all of it.       *)
(***************************************************************************)
EXTENDS Naturals, FiniteSetsExt

CONSTANTS
  Stage,        \* the indices of the stages, in the order of their declaration
  Deps,         \* dependsOn
  Retries,      \* context.executionRetries and fixRetries
  MaxCommands,  \* bounds the commands of users
  MaxFaults     \* bounds the crashes and uncaught errors

ASSUME ParallelAssumption ==
  /\ Stage \subseteq Nat \ {0}
  /\ Deps \in [Stage -> SUBSET Stage]
  /\ \A s \in Stage, d \in Stage : d \in Deps[s] => s \notin Deps[d] /\ s # d
  /\ {Retries, MaxCommands, MaxFaults} \subseteq Nat

VARIABLES
  ctx,     \* context.json: keepWorktree, approvalBeforeComplete
  st,      \* the job state; used: stageRetries
  entry,   \* the status of the job's queue entry
  marker,  \* cancel.requested
  main,    \* the job's worktree: the stages merged into its HEAD
  wt,      \* the stage worktrees and their records
  dirty,   \* whether the last agent of a stage has left changes it did not commit
  run,     \* the process that executes the job
  task,    \* runStage of each stage of the layer
  left     \* how many commands and faults may still happen

vars == <<ctx, st, entry, marker, main, wt, dirty, run, task, left>>

Ended == {"done", "needs_fix", "failed"}

\* threw: the rejected promise has released run.lock, but the other stages of
\* the process go on.
StateType == [status : Ended \cup {"queued", "running", "awaiting_approval", "cancelled"},
              used : [Stage -> Nat]]
RunType   == [pc : {"idle", "layer", "record", "stages", "threw", "merge", "clean", "collect",
                    "finish", "tidy"},
              past : SUBSET Stage, layer : SUBSET Stage, todo : SUBSET Stage,
              base : SUBSET Stage, status : Ended]
TaskType  == [pc : {"none", "attempt", "read", "write", "agent", "ended"},
              then : {"attempt", "agent", "ended"}, persist : BOOLEAN,
              used : Nat, read : [Stage -> Nat], end : {"ok", "failed", "cancelled"}]

TypeOK ==
  /\ ctx \in [keep : BOOLEAN, approve : BOOLEAN]
  /\ st \in StateType
  /\ entry \in {"open", "done", "failed", "cancelled", "awaiting_approval"}
  /\ marker \in BOOLEAN
  /\ main \in [made : BOOLEAN, merged : SUBSET Stage]
  /\ wt \in [Stage -> [made : BOOLEAN, recorded : BOOLEAN, base : SUBSET Stage]]
  /\ dirty \in [Stage -> BOOLEAN]
  /\ run \in RunType
  /\ task \in [Stage -> TaskType]
  /\ left \in [commands : Nat, faults : Nat]

Idle   == [pc |-> "idle", past |-> {}, layer |-> {}, todo |-> {}, base |-> {}, status |-> "done"]
NoTask == [pc |-> "none", then |-> "attempt", persist |-> FALSE, used |-> 0,
           read |-> [s \in Stage |-> 0], end |-> "ok"]
NoWork == [made |-> FALSE, recorded |-> FALSE, base |-> {}]

Init ==
  /\ ctx \in [keep : BOOLEAN, approve : BOOLEAN]
  /\ st = [status |-> "queued", used |-> [s \in Stage |-> 0]]
  /\ entry = "open"
  /\ marker = FALSE
  /\ main = [made |-> FALSE, merged |-> {}]
  /\ wt = [s \in Stage |-> NoWork]
  /\ dirty = [s \in Stage |-> FALSE]
  /\ run = Idle
  /\ task = [s \in Stage |-> NoTask]
  /\ left = [commands |-> MaxCommands, faults |-> MaxFaults]

-----------------------------------------------------------------------------
(* The layers *)

\* groupStagesByDependency, one layer at a time: the stages whose dependencies
\* have all been executed.  A stage that fails ends the job, so none is skipped.
Ready(past) == {s \in Stage \ past : Deps[s] \subseteq past}

\* The job's worktree is made from the base commit unless it is there.
Starts ==
  /\ run.pc = "idle" /\ entry = "open"
  /\ st.status # "awaiting_approval"
  /\ ~(marker /\ st.status = "cancelled")
  /\ main' = IF main.made THEN main ELSE [made |-> TRUE, merged |-> {}]
  /\ dirty' = [s \in Stage |-> FALSE]
  /\ run' = [Idle EXCEPT !.pc = "layer", !.layer = Ready({}), !.todo = Ready({})]
  /\ UNCHANGED <<ctx, st, entry, marker, wt, task, left>>

\* What ends a run without an answer: JobQueue starts the job again.
Dies == run' = Idle /\ task' = [s \in Stage |-> NoTask]

Recorded(t) == [s \in Stage |-> IF t[s].recorded THEN [t[s] EXCEPT !.made = FALSE] ELSE t[s]]

\* cleanupWorktree: the worktrees that are recorded, and the job's own.
Cleaned == wt' = Recorded(wt) /\ main' = [made |-> FALSE, merged |-> {}]

\* finishCancelled
FinishCancelled ==
  /\ Cleaned
  /\ st' = [st EXCEPT !.status = "cancelled"]
  /\ entry' = "cancelled"
  /\ Dies

LayerCancelled ==
  /\ run.pc = "layer" /\ run.todo = run.layer /\ marker
  /\ FinishCancelled
  /\ UNCHANGED <<ctx, marker, dirty, left>>

\* prepareStageWorktree of the next stage; a worktree that exists is an error
\* that nothing catches.
First == Min(run.todo)

Adding == run.pc = "layer" /\ run.todo # {} /\ (run.todo = run.layer => ~marker)

WorktreeAdded ==
  /\ Adding /\ ~wt[First].made
  /\ wt' = [wt EXCEPT ![First] = [@ EXCEPT !.made = TRUE, !.base = run.base]]
  /\ run' = [run EXCEPT !.pc = "record"]
  /\ UNCHANGED <<ctx, st, entry, marker, main, dirty, task, left>>

WorktreeExists ==
  /\ Adding /\ wt[First].made
  /\ Dies
  /\ UNCHANGED <<ctx, st, entry, marker, main, wt, dirty, left>>

\* runStage begins: a RetryBudget is made from the state.
Begun(s) == [NoTask EXCEPT !.pc = "attempt", !.used = st.used[s]]

\* The record is written; after the last one the stages begin.
WorktreeRecorded ==
  /\ run.pc = "record"
  /\ wt' = [wt EXCEPT ![First].recorded = TRUE]
  /\ LET rest == run.todo \ {First}
     IN  /\ run' = [run EXCEPT !.todo = rest, !.pc = IF rest = {} THEN "stages" ELSE "layer"]
         /\ task' = IF rest # {} THEN task
                    ELSE [s \in Stage |-> IF s \in run.layer THEN Begun(s) ELSE NoTask]
  /\ UNCHANGED <<ctx, st, entry, marker, main, dirty, left>>

-----------------------------------------------------------------------------
(* The stages of a layer *)

Moves(s, t) == task' = [task EXCEPT ![s] = t]

EndsAs(s, end) == Moves(s, [task[s] EXCEPT !.pc = "ended", !.end = end])

StageCancelled(s) ==
  /\ task[s].pc = "attempt" /\ marker
  /\ EndsAs(s, "cancelled")
  /\ UNCHANGED <<ctx, st, entry, marker, main, wt, dirty, run, left>>

\* A stage loads the state it is about to write.
Attempt(s) ==
  /\ task[s].pc = "attempt" /\ ~marker
  /\ Moves(s, [task[s] EXCEPT !.pc = "write", !.read = st.used, !.persist = FALSE,
                             !.then = "agent"])
  /\ UNCHANGED <<ctx, st, entry, marker, main, wt, dirty, run, left>>

\* writeState, and RetryBudget.persist: load ...
StateRead(s) ==
  /\ task[s].pc = "read"
  /\ Moves(s, [task[s] EXCEPT !.pc = "write", !.read = st.used])
  /\ UNCHANGED <<ctx, st, entry, marker, main, wt, dirty, run, left>>

\* ... and store, with the stage's own budget if that is what is written.
StateWritten(s) ==
  /\ task[s].pc = "write"
  /\ st' = [st EXCEPT
       !.status = "running",
       !.used = IF task[s].persist THEN [task[s].read EXCEPT ![s] = task[s].used]
                                   ELSE task[s].read]
  /\ Moves(s, [task[s] EXCEPT !.pc = task[s].then, !.read = NoTask.read])
  /\ UNCHANGED <<ctx, entry, marker, main, wt, dirty, run, left>>

\* The agent, the test and the review of an attempt.  An agent may change the
\* files of its worktree, and may commit what is changed.
AgentWorks(s, changes) == dirty' = [dirty EXCEPT ![s] = changes]

Passes(s, changes) ==
  /\ task[s].pc = "agent"
  /\ AgentWorks(s, changes)
  /\ IF marker THEN EndsAs(s, "cancelled")
     ELSE Moves(s, [task[s] EXCEPT !.pc = "read", !.persist = FALSE, !.then = "ended",
                                   !.end = "ok"])
  /\ UNCHANGED <<ctx, st, entry, marker, main, wt, run, left>>

\* useExecutionRetry or useFixRetry, if there is one.
Fails(s, changes) ==
  /\ task[s].pc = "agent"
  /\ AgentWorks(s, changes)
  /\ IF marker THEN EndsAs(s, "cancelled")
     ELSE IF task[s].used < Retries
     THEN Moves(s, [task[s] EXCEPT !.pc = "read", !.persist = TRUE, !.then = "attempt",
                                   !.used = @ + 1])
     ELSE EndsAs(s, "failed")
  /\ UNCHANGED <<ctx, st, entry, marker, main, wt, run, left>>

-----------------------------------------------------------------------------
(* The verdict on a layer *)

\* Mutant: the first stage that fails decides.
OneEnded == \E s \in run.layer : task[s].pc = "ended" /\ task[s].end # "ok"
AllEnded == \A s \in run.layer : task[s].pc = "ended"
Terminal == {s \in run.layer : task[s].end # "ok"}

Finish(status) == run' = [run EXCEPT !.pc = "finish", !.status = status, !.todo = {}]

\* Mutant: a cancelled stage ends the job like a failed one.
LayerEndsAsStage ==
  /\ run.pc = "stages" /\ AllEnded /\ Terminal # {}
  /\ Finish(task[Min(Terminal)].end)
  /\ UNCHANGED <<ctx, st, entry, marker, main, wt, dirty, task, left>>

\* Of the stages that did not succeed the first declared one decides.
LayerFails ==
  /\ run.pc = "stages" /\ AllEnded /\ Terminal # {}
  /\ IF task[Min(Terminal)].end = "cancelled"
     THEN FinishCancelled
     ELSE Finish("failed") /\ UNCHANGED <<st, entry, main, wt, task>>
  /\ UNCHANGED <<ctx, marker, dirty, left>>

LayerPasses ==
  /\ run.pc = "stages" /\ AllEnded /\ Terminal = {}
  /\ run' = [run EXCEPT !.pc = "merge", !.todo = run.layer]
  /\ task' = [s \in Stage |-> NoTask]
  /\ UNCHANGED <<ctx, st, entry, marker, main, wt, dirty, left>>

\* mergeStageIntoMain: a clean stage worktree has nothing to merge, whatever its
\* agent has committed.
Merges ==
  /\ run.pc = "merge"
  /\ main' = [main EXCEPT !.merged =
       IF dirty[First] THEN @ \cup wt[First].base \cup {First} ELSE @]
  /\ run' = [run EXCEPT !.pc = "clean"]
  /\ UNCHANGED <<ctx, st, entry, marker, wt, dirty, task, left>>

\* Mutant: a stage that conflicts is left out.
ConflictIgnored ==
  /\ run.pc = "merge" /\ dirty[First] /\ main.merged # wt[First].base
  /\ run' = [run EXCEPT !.pc = "clean"]
  /\ UNCHANGED <<ctx, st, entry, marker, main, wt, dirty, task, left>>

\* A merge conflicts only with work that the stage has not seen.
Conflicts ==
  /\ run.pc = "merge" /\ dirty[First] /\ main.merged # wt[First].base
  /\ Finish("needs_fix")
  /\ UNCHANGED <<ctx, st, entry, marker, main, wt, dirty, task, left>>

\* Mutant: the worktree of a merged stage stays.
StageLeft ==
  /\ run.pc = "clean"
  /\ LET rest == run.todo \ {First}
     IN  run' = [run EXCEPT !.todo = rest, !.pc = IF rest = {} THEN "collect" ELSE "merge"]
  /\ UNCHANGED <<ctx, st, entry, marker, main, wt, dirty, task, left>>

\* cleanupStageWorktree
StageCleaned ==
  /\ run.pc = "clean"
  /\ wt' = [wt EXCEPT ![First] = NoWork]
  /\ LET rest == run.todo \ {First}
     IN  run' = [run EXCEPT !.todo = rest, !.pc = IF rest = {} THEN "collect" ELSE "merge"]
  /\ UNCHANGED <<ctx, st, entry, marker, main, dirty, task, left>>

\* Mutant: the next layer starts from the base commit, too.
LayerFromBase ==
  /\ run.pc = "collect"
  /\ LET past == run.past \cup run.layer
     IN  IF past = Stage THEN Finish("done")
         ELSE run' = [run EXCEPT !.pc = "layer", !.past = past, !.layer = Ready(past),
                                 !.todo = Ready(past)]
  /\ UNCHANGED <<ctx, st, entry, marker, main, wt, dirty, task, left>>

\* commitLayer: the next layer starts from what has been merged.
LayerCommitted ==
  /\ run.pc = "collect"
  /\ LET past == run.past \cup run.layer
     IN  IF past = Stage THEN Finish("done")
         ELSE run' = [run EXCEPT !.pc = "layer", !.past = past, !.layer = Ready(past),
                                 !.todo = Ready(past), !.base = main.merged]
  /\ UNCHANGED <<ctx, st, entry, marker, main, wt, dirty, task, left>>

-----------------------------------------------------------------------------
(* The end of a run *)

\* finish: state and queue entry ...
Finishes ==
  /\ run.pc = "finish"
  /\ LET status == IF run.status = "done" /\ ctx.approve THEN "awaiting_approval" ELSE run.status
     IN  /\ st' = [st EXCEPT !.status = status]
         /\ entry' = IF status \in {"done", "awaiting_approval"} THEN status ELSE "failed"
         /\ run' = [run EXCEPT !.pc = "tidy"]
  /\ UNCHANGED <<ctx, marker, main, wt, dirty, task, left>>

\* ... then the worktrees, unless they are to be kept.
Tidies ==
  /\ run.pc = "tidy"
  /\ IF ~ctx.keep /\ st.status \in Ended THEN Cleaned ELSE UNCHANGED <<main, wt>>
  /\ Dies
  /\ UNCHANGED <<ctx, st, entry, marker, dirty, left>>

-----------------------------------------------------------------------------
(* Commands of users, and faults *)

Command == left.commands > 0 /\ left' = [left EXCEPT !.commands = @ - 1]

\* retryQueueJob gives the budgets back, startBackground does not.
Again(reset) ==
  /\ Command
  /\ run.pc = "idle" /\ entry \notin {"open", "awaiting_approval"}
  /\ st' = [st EXCEPT !.status = IF reset THEN "queued" ELSE @,
                      !.used = IF reset THEN [s \in Stage |-> 0] ELSE @]
  /\ entry' = "open"
  /\ marker' = FALSE
  /\ UNCHANGED <<ctx, main, wt, dirty, run, task>>

\* approveJob takes the difference to HEAD, which is empty when all is merged,
\* and compares it with the one to the base commit that finish has taken.
SameDiff == main.made /\ main.merged = {}

Approve ==
  /\ Command
  /\ st.status = "awaiting_approval" /\ run.pc = "idle"
  /\ LET status == IF SameDiff THEN "done" ELSE "needs_fix"
     IN  /\ st' = [st EXCEPT !.status = status]
         /\ entry' = IF status = "done" THEN "done" ELSE "failed"
         /\ IF status = "done" /\ ~ctx.keep THEN Cleaned ELSE UNCHANGED <<main, wt>>
  /\ UNCHANGED <<ctx, marker, dirty, run, task>>

\* cancelJob: the marker and the entry; then what runs is killed, and what is
\* recorded is removed.
CancelMarks ==
  /\ Command
  /\ ~marker
  /\ marker' = TRUE
  /\ entry' = IF entry \in {"open", "awaiting_approval"} THEN "cancelled" ELSE entry
  /\ UNCHANGED <<ctx, st, main, wt, dirty, run, task>>

CancelSettles ==
  /\ marker /\ (st.status # "cancelled" \/ run.pc # "idle")
  /\ st' = [st EXCEPT !.status = "cancelled"]
  /\ entry' = IF entry \in {"open", "awaiting_approval"} THEN "cancelled" ELSE entry
  /\ Dies
  /\ Cleaned
  /\ UNCHANGED <<ctx, marker, dirty, left>>

Fault == left.faults > 0 /\ left' = [left EXCEPT !.faults = @ - 1]

Crash ==
  /\ Fault
  /\ run.pc # "idle"
  /\ Dies
  /\ UNCHANGED <<ctx, st, entry, marker, main, wt, dirty>>

\* An uncaught error of one stage rejects the job; the process ends when the
\* other stages have ended, too.
Throws(s) ==
  /\ Fault
  /\ run.pc \in {"stages", "threw"} /\ task[s].pc \in {"read", "write", "agent"}
  /\ EndsAs(s, "failed")
  /\ run' = [run EXCEPT !.pc = "threw"]
  /\ UNCHANGED <<ctx, st, entry, marker, main, wt, dirty>>

ProcessEnds ==
  /\ run.pc = "threw" /\ AllEnded
  /\ Dies
  /\ UNCHANGED <<ctx, st, entry, marker, main, wt, dirty, left>>

-----------------------------------------------------------------------------
StageStep(s) ==
  \/ StageCancelled(s) \/ Attempt(s) \/ StateRead(s) \/ StateWritten(s)
  \/ \E changes \in BOOLEAN : Passes(s, changes) \/ Fails(s, changes)

RunStep ==
  \/ LayerCancelled \/ WorktreeAdded \/ WorktreeExists \/ WorktreeRecorded
  \/ LayerFails \/ LayerPasses \/ Merges \/ Conflicts \/ StageCleaned \/ LayerCommitted
  \/ Finishes \/ Tidies \/ ProcessEnds

Next ==
  \/ Starts \/ RunStep
  \/ \E s \in Stage : StageStep(s) \/ Throws(s)
  \/ \E reset \in BOOLEAN : Again(reset)
  \/ Approve \/ CancelMarks \/ CancelSettles \/ Crash

Spec == Init /\ [][Next]_vars

-----------------------------------------------------------------------------
(* Properties *)

Working(s) == task[s].pc \in {"attempt", "read", "write", "agent"}

\* An agent works on files that have what the stages its stage depends on have
\* left: the worktree of a layer is made from the merged layers before it.
SeesItsDependencies ==
  \A s \in Stage : task[s].pc = "agent" => \A d \in Deps[s] : dirty[d] => d \in wt[s].base

\* A job is done, or waits for the approval of its completion, only when the
\* uncommitted changes of every stage are in the job's worktree.
DoneHasAllWork ==
  [][run.pc = "finish" /\ st'.status \in {"done", "awaiting_approval"}
       => \A s \in Stage : dirty[s] => s \in main.merged]_vars

\* Once a run has recorded how it ended, none of its stages is at work, however
\* many of them there were when the first one failed.
QuietWhenEnded == entry # "open" /\ ~marker => \A s \in Stage : ~Working(s)

\* A job that is done has left no stage worktree behind, whatever runs it took.
DoneLeavesNoWorktree ==
  entry \in {"done", "awaiting_approval"} /\ ~marker => \A s \in Stage : ~wt[s].made

\* execution.ts takes the difference of a parallel job to its base commit,
\* because HEAD has the merged layers.  An approval that finds the worktree as
\* it was completes the job.  It does not: approveJob compares with HEAD.
ApprovalCompletes ==
  [][st.status = "awaiting_approval" /\ st'.status # "awaiting_approval" /\ ~marker
       => st'.status = "done"]_vars

\* retry-budget.ts says that a run after a crash goes on with the budgets that
\* are recorded: none is given back without a command.  A write of another
\* stage that was loaded before gives it back.
BudgetsSurvive ==
  [][(\A s \in Stage : st'.used[s] >= st.used[s]) \/ left'.commands < left.commands]_vars

\* A run that died is made good by the next one: it gets as far as its stages.
\* It does not: the stage worktrees of the last run are in its way.
RestartsWork ==
  [][run.pc = "layer" /\ run'.pc = "idle" => st'.status = "cancelled" \/ left'.faults < left.faults]_vars

=============================================================================
