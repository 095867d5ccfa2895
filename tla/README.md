# A formal model of cbx-orch

cbx runs coding agents as *jobs* of a workspace. A job has a directory, a row in a SQLite database
and, when it is isolated, a Git worktree; a queue decides when it runs; a detached worker process
runs it under a file lock; people create, start, continue, approve, cancel, retry and forget it from
several front ends at the same time; events about it go to a log, to browsers and to webhooks. This
directory holds TLA+ modules of that machinery, TLC configurations that check small instances, and
proofs, checked by TLAPS, of what holds for every instance.

Paths below are relative to the repository (`queue.ts` is `src/src/queue.ts`).

| file | content |
|---|---|
| `JobQueue.tla`, `MCJobQueue.tla`, `JobQueue*.cfg` | the queue, its dispatchers, the workers and the user commands; five runs |
| `JobQueueProofs.tla` | theorems about `JobQueue` |
| `FileLock.tla`, `FileLock.cfg`, `FileLockProofs.tla` | the lock file under which jobs run and are approved; its run and theorems |
| `JobRun.tla`, `MCJobRun.tla`, `JobRun.cfg`, `JobRunProofs.tla` | what one job goes through: stages, attempts, reviews, budgets, gates, adaptive rounds; its run and theorems |
| `ParallelStages.tla`, `MCParallelStages.tla`, `ParallelStages.cfg`, `ParallelStagesProofs.tla` | stages in worktrees of their own, and their merges; its run and theorems |
| `Delivery.tla` | what an outbox promises: the abstract specification |
| `Outbox.tla`, `Outbox.cfg`, `OutboxProofs.tla` | the outbox with its drains, shown to implement `Delivery`; its run and theorems |
| `ExecutorCall.tla`, `MCExecutorCall.tla`, `ExecutorCall.cfg`, `ExecutorCallProofs.tla` | one call of an agent, a plugin or a runner plugin: process group, timeout, streams, usage; its run and theorems |
| `EventStream.tla`, `MCEventStream.tla`, `EventStream.cfg`, `EventStreamProofs.tla` | the live event stream of the web UI; its run and theorems |
| `JobStore.tla`, `MCJobStore.tla`, `JobStore.cfg`, `JobStoreProofs.tla` | creating, cleaning, forgetting, purging and importing jobs; its run and theorems |
| `Intake.tla` | what a request to create a job becomes: pure functions, used by `JobStore` |
| `StageOrder.tla`, `Routing.tla`, `Batch.tla`, `Verdicts.tla`, `ContextBudget.tla` | pure functions of the code |
| `FunctionChecks.tla` | what those functions compute, compared with what they are for |
| `PROJECT.json` | components, runs, mutants, the map to the source, hazards, theorems |

## 1. Inventory

For each part: its state, its operations, what is hard, what makes it correct, and its module.

**Job queue and dispatcher** (`queue.ts`). State: the tables `queue_entries` (status, pid, reclaim
count, priority) and `queue_meta` (paused). Operations: `dispatchQueue`, `enqueueJob`,
`finishQueueEntry`, `cancelQueueEntries(WithState)`, `retryQueueJob`, `pauseQueue`, `resumeQueue`,
`serveQueue`. Any process may be inside `dispatchQueue` at any time. It has two phases: outside a
transaction it judges running entries, kills strays and *spawns* workers; inside one it re-reads the
queue, applies what it decided and rewrites every row. Correct when no entry is lost or revived, a
job has one entry in progress, the limit of workers is overrun by no more than races explain, a
queued job can be started, and every entry is settled in the end. → `JobQueue`.

**Persistence and storage** (`queue-persistence.ts`, `storage.ts`). `BEGIN IMMEDIATE` transactions,
row statements, full rewrites that delete rows not in the list, the import of what older versions
left as files, and the *service lease* that is meant to keep one serve loop per workspace. Hard:
`E_QUEUE_BUSY`, two imports at once. → `JobQueue`, `JobStore`; the lease is not modelled.

**Job state and storage of jobs** (`state.ts`, `jobs.ts`, `worktree.ts`). A directory with
`context.json`, the `state.json` mirror and `worktree.json`; a row; a worktree. No transaction spans
the three. Operations: `createJob`, `writeState` (load, store, mirror), `forgetJob`, `pruneJobs`,
`purgeJob`, `cleanWorktree`, `cleanOrphanWorktrees`. Hard: a job that is started, re-created or
swept while it is forgotten. → `JobStore`.

**Job creation and profiles** (`jobs.ts`, `profile.ts`, and what `cli.ts`, `mcp-server.ts`, `ui.ts`
make of a request). A request, the overrides, `.cbx.json` and the profile are combined; a policy
refuses some combinations. Correct when an accepted job has what its profile promises. → `Intake`.

**Lifecycle, approval, Human Gates** (`lifecycle.ts`, `approval.ts`, `approval-gate.ts`,
`human-gate.ts`). Each command is a sequence of files, kills and transactions that other processes
interleave with. Correct when a waiting job does not run, an approved one does, and a cancel stops
the work. → `JobQueue` (against the queue), `JobRun` (against the run).

**Execution** (`execution.ts`, `stage-runner.ts`, `retry-budget.ts`, `review-gate.ts`,
`adaptive-*.ts`, `progress.ts`, `evidence.ts`, `result.ts`). A worker takes `run.lock`, passes the
gates, runs stages with attempts, tests and reviews against budgets, or adaptive rounds, and ends in
a final state. Hard: crashes between attempts, the cancel marker that is only polled, edits by
others between the tests and the approval. Correct when what is delivered is what was verified. →
`JobRun`, `Verdicts`.

**Parallel stages** (`parallel-stages.ts`, `git-ops.ts`). Layers of stages in worktrees of their own
share one job state and one budget; merges, conflicts, layer commits. Correct when a stage starts
from the work of its dependencies and a done job has the work of all. → `ParallelStages`,
`StageOrder`.

**File lock** (`lock.ts`). An `O_EXCL` file with stale detection and reclaim. Correct when two calls
are never inside at once. → `FileLock`.

**Outbox and observability** (`outbox.ts`, `observability.ts`). A number, a line in `events.ndjson`,
a row of `delivery_outbox`; drains of all processes claim, send, reschedule or give up. Correct when
a notification is delivered at least once or its failure is on record. → `Outbox`, `Delivery`.

**Process runner and executors** (`process-runner.ts`, `runner.ts`, `runner-plugin.ts`,
`executors/`, `log-filter.ts`). A detached process group, `active.pid`, a timeout, a grace time for
streams that stay open, plugins, the usage read from the output. Correct when a call settles once, a
timeout leaves nobody behind, and usage is what was printed. → `ExecutorCall`, `Routing`.

**Web UI event stream** (`ui.ts`, `ui/app.js`). Tailers poll, browsers reconnect with Last-Event-ID
and get a replay. Correct when what a browser resumes from hides nothing it has missed. →
`EventStream`.

**Batches** (`batch.ts`), **context packs** (`context-pack.ts`). Waves and exit codes; budgets by
role. → `Batch`, `ContextBudget`.

**Configuration, governance and redaction, front ends, diagnostics** (`config-loader.ts`,
`governance.ts`, `redaction.ts`, `cli.ts`, `mcp-server.ts`, `ui.ts`, `tui/`, `doctor.ts`): parsing,
text and I/O around the parts above; see section 15.

How they interact: front ends call lifecycle, approval and storage functions; those write files of
the job directory, kill processes and change queue and state in transactions; a dispatch spawns
workers as detached processes that share nothing with it but the database, the files and their pids;
a worker spawns executors as process groups of their own, which may outlive it; a worker that ends
dispatches again; every part publishes events, which the outbox and the stream carry on.

The modules cut the system along these lines. `JobQueue` takes a run as one step and `run.lock` as
exclusive; `JobRun` takes the queue entry as open or closed and has the run in detail; `FileLock`
says when the lock is exclusive; `ParallelStages` has the stages of an isolated job that `JobRun`
runs one after the other; `ExecutorCall` justifies what `JobQueue` assumes of `active.pid`
(`RunningChildIsRecorded`); `JobStore` has the life of the directory and the row that all of them
take as given, and uses `Intake` for the context it writes; `Outbox` and `EventStream` have the two
ways an event takes.

The hazards of this code, each at its line, with the properties that would catch it, are listed in
`PROJECT.json`.

## 2. Plan

Done: the queue, the lock, the run, parallel stages, the outbox with its refinement, executor calls,
the event stream, the job store, and the pure functions; proofs for all but the pure functions and
liveness.

Left, in this order:

1. Proofs: under which conditions `OneActiveEntryPerJob` and `NoStrayBesideWorker` hold (section 12
   has why they do not in general); `CancelStopsWork` for the stages of `ParallelStages`.
2. The service lease of `serve` against the set of dispatchers it is meant to limit.
3. The subscriptions of the MCP server, whose timers race like those of the event stream.
4. `config-loader.ts` as a pure function, in front of `Intake`.

## 3. JobQueue

### State

| variable | the program |
|---|---|
| `queue[e]` | the row with queue id `e`; ids are numbered in order of creation |
| `nextId`, `paused` | the next id; `queue_meta.paused` |
| `job[j]` | `jobs.status`, the reason of a *waiting* Human Gate that blocks, `approved`, and the files `cancel.requested` (marker), `worker.heartbeat`, `active.pid` of an executor whose worker is dead (stray) |
| `worker[w]` | the process with pid `w`: how far `cbx run --queue-entry-id` has got, its job and entry |
| `disp[d]` | the local variables of a `dispatchQueue` call: snapshot, verdicts, count, spawn results |
| `client[k]` | the local variables of a command: its step, the job, the pids it will kill, the state it has loaded |

### Actions

A dispatch is `Snapshot`, one `Recon` per running entry, `CountActive`, one `Spawn` per started
worker and `Commit` (the transaction), or `Abandon` at any point where the process may die or the
database is busy. A worker goes `WorkerAdmitted` (gate check, heartbeat), `WorkerBegins` (run.lock),
then `WorkerSkips`, `WorkerReturns`, `WorkerAsks`, or `WorkerRuns` and `WorkerFinishes` /
`WorkerSeesCancel`, then `WorkerExits`; it may be turned away, throw, die before its heartbeat or
crash. `WorkerGoesOn` is the verification gate of an adaptive job (`execution.ts:505-534`): it records
`needs_fix`, which closes the entry, and the worker goes on with the next round and records its end
over the closed row. Commands are split wherever the code awaits something another process may interleave with:
`Start`/`Enqueue`, `ApproveReads`/`ApproveWrites`/`Launch`, `CancelReads`/`CancelMarks`/
`CancelDequeues`/`CancelKills`/`LoadsState`/`CancelSettles`, `RetryMarks`/`RetryKills`/`LoadsState`/
`RetryReplaces`, `SetPaused`. What the code does inside one SQLite transaction is one action.

### Abstractions

* Time: whether a *living* worker looks stale (no heartbeat for 60 s, or one older than 45 s) is a
  choice, where `MayLookStale` allows it: it does not beat in time (the fault `slow`), it has not yet
  written over the old heartbeat file of a worker that crashed, or its file is missing since a worker
  that was turned away has removed it. A dead one always looks stale.
* A run is "running" until it ends with some outcome of `Outcomes`; stages, attempts, reviews and
  adaptive rounds are what `WorkerRuns` repeats. The gates that any continuation resolves are not
  kept.
* A pid is reused only when nothing in the model refers to it.
* `writeState` of a worker is one step. Its load and its store are separate in the code, and other
  writers of the state of a running job are commands only, whose own load and store are separate
  here.
* A worker that closes the entry of a cancelled job (`WorkerSkips`) reads the state once, where
  `executeJob` and `finishQueueEntry` read it one after the other.
* The trailing `dispatchQueue` of a worker or a command is one of the `Dispatcher`s.

### Bounds

`Entry` bounds the number of enqueues, `Worker` the workers that are alive or referred to at one
time, `Dispatcher` the concurrent dispatches, `Client` the concurrent commands; `MaxReclaims` is 3
in the code and 0, 1 or 3 in the runs; `KeepRows` is 200 in the code and 1 or 2 in runs that must
reach the truncation. `reclaims` needs no bound: the breaker stops it. Two dispatchers and two
workers are enough for every race on one entry (old owner, new owner), and two entries for a
predecessor and a successor of one job. `limit` has two jobs, whose priorities order the queue, and
three workers, since a limit of one is overrun by two.

### Fairness

`FairSpec` asks weak fairness of `Dispatch(d)` (`serveQueue` ticks on an interval, and no step of a
dispatch waits for anything), of `WorkerStep(w)` (every executor call has a timeout, `run.lock` is
tried once with no retries) and of `WorkerFinishes(w)` (a run has a limited number of attempts and
rounds, which is `RunsEnd` of `JobRun`). Users, faults and heartbeats owe nothing. `EveryEntrySettles`
excepts a queue that stays paused, and living workers that are judged stale for ever
(`TakenForDead`): a worker that finds `run.lock` busy removes the heartbeat file of the one that
holds it (`cli.ts:294-304`), which is then reclaimed and given another such worker.

## 4. FileLock

`withFileLock` guards the run of a job and its approval (`run.lock`) and the changes of its gates
(`gate.lock`). `JobQueue` takes `run.lock` as exclusive; this module says when it is.

`lock` is the file the name stands for, `file` what each file contains, `aside[p]` the file that `p`
has renamed to its `.stale.` name; `handle`, `seen` and `attempt` are the local variables of the
call. Every system call is an action: `Creates` (`open` with `wx`) or `FindsFile` (`EEXIST`),
`Writes`, `Reads` and `Judges` (`staleLock`: the file is read, *then* the pid is tested),
`MovesAside`, `LooksAgain`, `Restores` or `Drops` (`reclaimLock`), `Releases` (reads the token
back), `Unlinks`. A process may die at any of them; a command that has released its lock and ends
dies too. A process whose record could not be written leaves an empty file and does not call again.

A file is an inode with an identity, since `rename` and `unlink` act on whatever has the name by
then; the token of a record is that identity. The age of a file without a record is a choice, except
that a live writer is assumed to write within `staleAfterMs` (30 s). Calls of one process are told
apart as processes, and a pid is not used again. `attempt` counts up to `Retries`, beyond which the
code makes no difference; all callers pass `retries: 0`, the run has 1 so that waiting is reached
too. Three processes are an old owner and two that reclaim its file; a fourth file is always free.
Fairness: a live process goes on with the system calls of a call it has begun. The run may stop when
every process has ended, hence `CHECK_DEADLOCK FALSE`.

Once a process has ended, two others can be inside the lock, in 19 steps: `q` reads the record of
`p`; `p` releases and ends; `q` finds the pid dead; `r` creates the lock; `q` renames *r's* file
aside, finds no record in it yet, and drops it; `r` writes into the dropped file and goes on; `q`
creates the lock. In another order `q` finds `r`'s record and renames the file back, after `r` has
released it: the file of a live process then stays until that process ends, and every call is told
that the lock is busy. The comment at `lock.ts:86` names the file that a `SIGKILL` leaves, not
these.

`ExclusiveUnlessRobbed` says that this is the only way in: two processes are inside only after a
rename has taken a file that somebody uses and that is not the one the reclaimer had read.
Reclaims of the files of dead processes, by any number of callers at a time, are included. Two
history variables express it: `current` has the processes that would rename the very file they have
read, since nobody has created, moved or removed the lock since; `robbed` is set by a rename of
another process's file by one that is not `current`.

## 5. JobRun

One job from its creation to its end: `ctx` is `context.json`, `st` the job state (status, gate,
reason, budgets, round, failure tracker, audit), `entry` its queue entry (open or how it was
closed), `tree` whether the worktree is the one the last passing test and the last passing review
have seen, `files` the artifacts, `run` the process in `executeJobLocked` with its local variables,
`result` `result.json`.

A run is `Starts` or `Blocked`, then for a stage `Attempt` (cancel checkpoint, budget, state write),
`ExecutorReturns`, `TestPasses`/`TestFails`/`TestCancelled`, `ReviewReturns`/`ReviewFails`/
`ReviewCancelled`/`ReviewerEdits`, and what the code makes of them: a retry, a fix, the next stage,
a gate or the end; for an adaptive job the rounds with the manager's decisions and the verification
gate. It ends in `Finishes` (state and entry), `Tidies` (worktree) and `Reports` (`result.json`),
three steps a crash or a command can come between. `Continue` (with or without more rounds and a
refreshed contract), `Retry`, `ApproveRun`, `ApproveCompletion`, `CancelMarks` and `CancelSettles`
are the commands; `Crash` and `EditedByOthers` the faults.

What agents, tests and reviewers answer is a choice; so is what the manager decides. A test command
is assumed. Left out: the early end of an isolated job without a base (`execution.ts:121-134`), the
serial branch for a failed dependency (668-689), which a serial order of stages never reaches. The
commit between the completion gate and the state write is one step with it.

`RunsEnd` is a liveness property stated as an action property, without fairness: every step of a run
that does not end it uses up a retry, a stage or a round, or comes closer to the end of the attempt
(`Position`), whatever the agents do; none gives back what has been used up, and what there is of it
is bounded. So no run goes on for ever.
`DeliversWhatWasVerified` compares two ends of a long interval: retries, approvals and edits come in
between.

## 6. ParallelStages

`main` is the job's worktree (which stages it has merged and committed), `wt[s]` the worktree of a
stage and its record, `dirty[s]` whether the agent of `s` left uncommitted changes, `task[s]` the
local variables of `runStage`, `run` those of the loop over layers. A stage writes the one job state
in two steps, `StateRead` and `StateWritten`, as `writeState` does. `Throws` is an error nothing
catches: the run ends, while the stages it had started go on until they end.

One budget stands for the two that `RetryBudget` keeps in the same way; tests, reviews and the
repeated-failure gate inside an attempt are those of `JobRun`; a stage whose dependency failed is
never reached (the layer before has ended the run), so the branch at `parallel-stages.ts:209-226`
has no action. The layers of a contract come from `StageOrder`, whose claims `MCParallelStages`
states as `ASSUME`s over all contracts of three names: the cycle search finds a cycle exactly when
no order exists; every stage is in the first layer after its dependencies.

## 7. Outbox and Delivery

`Delivery` is what a reader of the README expects: a notification that is accepted is kept until it
is received, at least once, or its failure is on record. `Outbox` has the code: `publishEvent` in
two steps (line, row), a drain that claims a row (`locked`, `owner`), sends, completes, reschedules
or gives up; one drain and one publisher per process; timers; processes that exit when they have
nothing to do, crash, or are suspended for longer than their lock; a completion that fails; a drain
that throws. `Promise` maps `kept` to the rows of the table, and `Implements` is `Delivery`'s
specification. The dead letter is written before the row goes, so an event may be both received and
on record as failed; `Delivery` allows it.

Time is abstract: `ComesDue` and `LockExpires`. The lock (130 s) is longer than a delivery (at most
120 s, `config-loader.ts:276`), so it expires only on a process that died or was suspended;
`OneSender` says the rest.

## 8. ExecutorCall

`call` is the promise of a call (timer, grace timer, result), `child` and `helper` two processes of
its group (the helper may close the streams or leave the group), `pipe` how much of the output has
come, `acc` the accumulator of lines, `billed` what has been added to the job's usage. A call is an
agent, a plugin process or a runner plugin. The output is a sequence of three characters that may be
cut anywhere. Left out: Windows, the truncation of kept output, the event buffer; kills are assumed
to succeed. The calls of a serial job come one after the other (`Serial`); parallel stages share one
`active.pid`, and `RunningChildIsRecorded` does not hold for them (section 12). A failing write of
`active.pid` (`process-runner.ts:233`) is left out too: the call is rejected with the child running and
no timer armed.

## 9. EventStream

`next` is the event number of each workspace, `log` its `events.ndjson`, `size` and `poll` the
tailers, `client` and `wire` the server's side of a connection and what is on its way, `lastId` what
the browser would resume from. Polls of one tailer overlap, since `setInterval` does not wait; a
poll that finds nothing new takes no step, so that one which resumes only after another has moved
the tailer on, and then repeats events, is left out.
`owed` is a history variable: the events a browser must learn of, which are those appended in the
order of their numbers while its tailer has a baseline and the browser an id. The excluded cases are
real and in section 12. The candidates of a replay are places in the file (`Candidates`), of which
the last `MaxReplay` are sent (`ToSend`) in their order. The instance starts from a session under way (`SessionInit`), one event in
each workspace.

## 10. JobStore and Intake

`dir`, `row`, `tree` are the three places a job has; `scheduled` says that it has an open queue
entry; `user[u]` and `worker[j]` are the local variables of commands and of the run. Creation is
check, `mkdir`, context, row, entry, one step each; forget is check, delete the directory, delete
row and entries; a continuation writes only the entry, so that its row keeps a terminal status until
the worker writes "running". `writeState` is load, store and mirror. `overtaken` is a history
variable for the one case no guard closes: a job that is started, created or scheduled while it is
being forgotten. `Scan` and `RemoveOrphan` are the sweep, whose look and removal are far apart.

Statuses that matter alike to these commands are one ("ended"); left out are `awaiting_approval`,
cancel (`JobQueue`), stage worktrees (`ParallelStages`), branches, ids that end in `-stage-<n>` and
a second sweep at the same time.

`Intake` has `Context(request, config)` and `Accepted(request, config, runner)`: per entry point the
settings it hands on, the overrides, the merge with `.cbx.json`, the promotion of isolation and the
policy. `Governed` is what a profile promises.

## 11. Pure functions

`StageOrder` (validation, cycle search, layers), `Routing` (statistics, the choice of an agent,
fallback), `Batch` (waves, waits, summary, exit code), `Verdicts` (how a stage, the stop gate and
the adaptive loop read what an agent left) and `ContextBudget` (the cut of a pack, by sizes) are
operators without state. What they should compute is stated beside the code's definition
(`Satisfiable`, `LayersAreRight`, `IsBestChoice`, `AtMost`, ...) and compared with it over all small
inputs by the `ASSUME`s of `FunctionChecks` and `MCParallelStages`. TLC evaluates them when it
starts the runs `process` and `parallel`. A claim of the documentation that does not hold is an
`ASSUME` with the opposite, and a comment that names the line.

## 12. Disagreements met

Behaviours of the code that a comment, a test, the change log or the README says are impossible.
Some have a property that states the claim, named below. Since it does not hold, such a property is
in its module and in no run, or in a run without the fault it needs.

*Queue: the limit.* `queue.ts:145` subtracts a dead worker's entry from a count it is not in, and a
dispatch does not see the workers that other dispatches have started since it loaded the queue
(`executeJob`, `enqueueJob`, start and retry all dispatch in their own processes), so more workers
run than `README.md:20` allows; `OvershootIsBounded` says by how many. No fault is needed for either:
a worker that a gate or `run.lock` turns away exits without a record, and its entry is reclaimed like
that of a dead one.

*Queue: the verification gate* (`execution.ts:505-534`). It closes the entry as failed while the
worker goes on. With one dispatch at a time, no cancel and no fault, a start then creates a second
entry, and the first worker records `awaiting_approval` over its closed row
(`queue-persistence.ts:147`): two active entries (`OneActiveEntryPerJob`; `queue.ts:241`). If the
worker crashes in a later round, no recon looks for the executor of a closed entry, and the worker of
the next entry runs beside it (`queue.ts:107-124`; the run `strays` checks `NoStrayBesideWorker` and
finds this; `CHANGELOG.md:46` and `tests/reliability.test.ts:131` say that reclaiming closes this
window). A worker that a cancel has missed does the same over its cancelled entry.

*Queue: who is taken for dead.* `queue.ts:166`: a verdict on the first worker of an entry is applied to
its second (comment at 370-372; two dispatchers). `queue.ts:112-114`: the heartbeat file that a
crashed worker has left makes its successor look stale until that one writes its own, and a worker
that was turned away removes the file of the one that holds the lock (`cli.ts:294-304`). In all three
a living worker loses its entry (`LiveWorkerKeepsEntry`); `run.lock` keeps the second one from
running the job. `queue.ts:131`: the leftover file also resets the reclaim count for ever
(`queue.ts:84`; `BreakerTrips`).

*Queue: commands.* `queue.ts:327`: a cancel loads the state before its transaction and may write
"cancelled" over a `done` (313-319; `NoTornCancel`). `queue.ts:378`: retry keeps a waiting completion
gate, and every worker is turned away (`execution.ts:828-829`; `QueuedCanStart` with a retry).
`queue.ts:133`: the breaker closes the entry of a job whose state says running or queued, which retry
refuses, although the error recommends it. `queue.ts:128`: a done job that is continued stays done
until its worker runs; if that worker dies before, the entry is closed as done and nothing has run.
A crash between an approval and its launch (`approval.ts:181-194`) leaves a queued job without an
entry, which only a start takes up.

*Run.* `review.md` is not removed before a review, so a reviewer that writes nothing passes with an
earlier verdict (`ReviewedWhenDone`; not with structured audits). A result of an adaptive job can
say verified without a passing test (`VerifiedWasTested`; `README.en.md`). `execution.ts:505`: the
verification gate closes the entry while the worker goes on; a crash then leaves a running job
nobody restarts (for the queue: above).

*Parallel stages.* The completion of a parallel job compares with HEAD where the evidence was taken
against the base, so an approval finds the evidence stale (`ApprovalCompletes`; `approval.ts:84-87`,
`execution.ts:193-195, 257`). A concurrent write of the state gives a used budget back
(`BudgetsSurvive` of `ParallelStages`; `retry-budget.ts:3-4, 57-72`). Worktrees of a run that died
are in the way of the next (`RestartsWork`; `git-ops.ts:208-210`). An agent that commits its own
work leaves a clean `git status`, and nothing of it is merged (`git-ops.ts:261-262`). The merged
tree of the last layer is not tested. Two stages of one name pass the validation, and one may run
before its dependency. `context.fallback` is written from a copy and loses what an earlier stage
recorded (`stage-runner.ts:139-143`).

*File lock.* Section 4.

*Outbox.* A crash between the line and the row loses the notification; a receiver may get one twice;
a drain that reaches its limit of 100 or ends by an error sets no timer, and nothing drains at the
start of a process; timers do not keep a process alive. `Settles` names these exceptions (`quit`).

*Executor calls.* `plugin-result.json` of an earlier call is taken for the answer of one that wrote
none (`AnswerIsOwn`; `runner.ts:284-289`). A runner plugin that ignores its signal is not timed out
(`RunnerTimesOut`; `runner-plugin.ts:102-103` against 109-113). Cancel reads `active.pid` before it
writes the marker (`lifecycle.ts:45-60`): a child spawned in between survives until it ends. A usage
line can be broken by a chunk of stderr. Turn ends and the final result are both counted when an
agent prints both (`log-filter.ts:26-44`).

*Event stream.* Two processes may append out of the order of their numbers, and a browser that
reconnects then never gets the lower one (`ui.ts:517, 790`). A first connection gets the whole
history (`ui.ts:782-789` against `README.md:456`), mixed with broadcasts. The id names one
workspace, so the others are replayed from their start. Events between the replay and the first poll
after a restart are not sent.

*Storage.* A purge leaves the worktree (`state.ts:196-217` against `cli.ts:616`, `README.md:653` and
`tests/ui.test.ts:1105`; `PurgeRemovesTree`). A job that is being continued passes the guard of
forget (`state.ts:168`). Two creations of one id may both pass; a purge followed by a creation may
remove the new worktree; of two forgets with a creation in between, the second erases the new row. A
command on an id that does not exist leaves an empty directory (`lock.ts:102`), which then refuses
both creation and forget; so does a crash between `mkdir` and the row. The tombstone comment
(`state.ts:222-224`) says that re-creation is refused. A second import at the same time fails on the
primary key (`storage.ts:379`). Routing statistics read mirrors that queue-side writes do not
refresh.

*Requests.* `cbx_start` of MCP drops the trust mode (`mcp-server.ts:296-324`), so `untrusted` cannot
be had there (`README.md:328`). A batch drops `adaptive`, review rules, routing and model
(`cli.ts:764-786`; `README.md:379`). `fixRetries` is at least 1 (`jobs.ts:243`; `README.md:655`).

*Functions.* A batch job longer than the wait lets the next wave start beside it (`batch.ts:126`).
The first job of a category can cost an agent the choice. A missing `review.md` fails a stage and
passes the stop gate. A pack above its budget is not cut when its contract alone fits
(`README.md:460`); one within the default budget can be above the 24 000 characters and be refused.

## 13. Runs

| run | instance | states | shows |
|---|---|---|---|
| `races` | 2 dispatchers, start and approve, 2 entries; dispatch and command may die, workers be stillborn | 1.7 M | `PidIsOwnWorker`, `OneEntryInProgress`, `QueuedCanStart`, `NoResurrection`, `NoRunWhileAwaiting` |
| `limit` | 2 dispatchers, 2 jobs, 2 priorities, 3 workers, a limit of 1 | 0.66 M | `OvershootIsBounded` |
| `commands` | start, cancel, retry against every other fault, one row kept | 2.7 M | `QueueInv`, `OneEntryInProgress`, `NoActiveRowLost` |
| `live` | throwing and stillborn workers, pause and resume, fairness | 183 k | `EveryEntrySettles` |
| `strays` | 1 dispatcher, 1 command, workers that crash | – | violated, as section 12 says: `NoStrayBesideWorker` |
| `lock` | 3 processes that may die at any step, fairness | 61 k | `ExclusiveUnlessRobbed`, `CallsEnd` |
| `jobrun` | 4 contexts, 2 stages, 2 rounds (3 at most), 1 retry and 1 fix, 1 command, 1 fault | 0.82 M | `DeliversWhatWasVerified`, `NoWorkBehindAGate`, `CancelStopsWork`, `WithinLimits`, `BudgetsSurvive`, `WorkHasAnEntry`, `ResultAgrees`, `RunsEnd` |
| `parallel` | 3 stages in two layers, 1 retry, 1 command, 1 fault | 3.1 M | `SeesItsDependencies`, `DoneHasAllWork`, `QuietWhenEnded`, `DoneLeavesNoWorktree` |
| `outbox` | 2 events, a service and a command, 1 retry, 1 fault | 0.72 M | `Implements`, `OneSender`, `GivenUpLast`, `Settles` |
| `process` | 2 calls, a summary line and the start of another | 127 k | `RunningChildIsRecorded`, `TimeoutStopsGroup`, `UsageIsHonest`, `CallsSettle` |
| `stream` | 2 workspaces, 2 publishers, 1 browser, 4 events, overlapping polls, 1 fault | 0.4 M | `CursorHasSeenAll`, `Delivered` |
| `store` | 1 id, 2 users, 2 creations, 1 restart, 1 fault, 1 legacy job | 0.6 M | `ProfileKept`, `SweepSparesJobs`, `ForgottenStays`, `Forgotten` |

Each property of a passing run has a mutant in `PROJECT.json`: a plausible bug (a dropped status
check in the commit, a duplicate check that overlooks queued entries, an approval whose state and
entry are two transactions, a retry that leaves the old entry, a kill of the child without its group, a drain that takes rows that are locked, a sweep that forces, ...) that TLC
finds under the same configuration.

**Bounds.** Two of each actor are enough for a race between an old and a new owner of one thing; a
third process is needed in `lock`, and a third stage for a layer that follows another. The bounds on
commands and faults (`Max...`) are guards of the actions that spend them; one command and one fault
reach every place of a run where it can be cut, and a run is started again after each. `jobrun`
reaches the limit of rounds through `Continue`. In `outbox` one retry shows rescheduling and giving
up, and two rows a drain that takes a second. `stream` needs two workspaces because an id names one
of them. `store` has one id: every command acts on the files, rows and worktree of its own. The job
of `races`, `commands` and `live` is adaptive, so that the verification gate is taken. `limit` has no
fault; the entries it reclaims are those of workers that were turned away.

`CHECK_DEADLOCK FALSE` is said where the system may rest: processes have ended, jobs are over, all
events are published.

**Fairness.** `JobQueue` and `FileLock`: sections 3 and 4. `Outbox`: weak fairness of the steps of a
publication that has begun, of timers and drains, and of time (`ComesDue`, `LockExpires`); crashes
and exits owe nothing. `ExecutorCall`: only the timers (`TimeOut`, `ForceSettle`) and a runner that
reports the abort; processes and streams owe nothing, which is what `CallsSettle` is about.
`EventStream`: polls (`setInterval`), reconnects (`EventSource` does by itself), the two halves of a
replay and the delivery of what is on the wire. `JobStore`: processes that are alive go on, the
queue runs what is scheduled, and who wants a job forgotten tries again. `JobRun` and
`ParallelStages` assume none.

## 14. Proofs

`JobQueueProofs` proves, from `QueueAssumption` alone (finite sets of queue ids, a positive limit,
commands, faults and outcomes from the program's sets) and for any number of jobs, workers,
dispatchers and users with every fault enabled:

* `TypeCorrect`: `TypeOK` is an invariant.
* `QueueInvariant`: `QueueInv` is an invariant. `PidIsOwnWorker`, the interesting part, is not
  inductive: between a spawn and its commit the pid is only in the dispatch, so `SpawnedIsOwnWorker`
  must hold of the spawn results; for the commit to move a pid into the right row, the row must
  still belong to the job the dispatch loaded, which is `RowsAreKnown` (ids are never reused, and a
  row in the table has the job of the row in every snapshot).
* `PidCorrect`: a living pid in a running row is a worker of that entry, so that a cancel never
  kills another job's worker.
* `NeverResurrected` and `NeverLost`: the action properties `NoResurrection` and `NoActiveRowLost`.
  The argument is about one step: `AppliedRows` says what a commit may make of a row, `RowsOnlyEnd`
  what records, cancellations and approvals may, `NewRowIsNew` that an enqueue writes where there
  was nothing.

* `AwaitingIsNotRun`: `NoRunWhileAwaiting`, with any number of dispatchers. `AwaitInv` adds that a
  job awaits either its completion approval or one before its run that it has not had.

The proof found the exact form of `NoActiveRowLost`: an active row may vanish in the very commit
that closes it, when two hundred newer entries have finished.

* `OneAttemptAtATime`: `OneEntryInProgress`. A start looks for a duplicate and a retry supersedes what
  is queued or running, each in the transaction that creates the row; `NoResurrection` says that no
  closed row comes back, and a row is sent back to the queue only from "running".
* `LimitIsOverrunByRaces`: `OvershootIsBounded`. `Counted` relates the count a dispatch keeps in a local
  variable to what it knows: the entries that ran when it loaded the queue and whose workers live
  (`StillRunning`) and those it has spawned workers for (`Starting`) are together no more than the
  count and the entries it reclaims. After the commit whatever lives is one of these or was started
  by others.
* `QueuedJobsAreStartable`: `QueuedCanStart`, with the hypothesis that nobody retries, since a retry
  writes the gate it has loaded into a queued job (section 12). `WorksOnOwnRow` adds that a worker's
  entry is a row of its job, so that a state and the row written with it belong together.

No theorem about the queue assumes anything of who dispatches, of faults, or, but for the last, of the
commands.

`FileLockProofs` proves `LockTypes` and `ExclusionHolds` for any number of processes, files and retries,
with deaths at any step. `ExclusiveUnlessRobbed` is not inductive; `OwnInv` adds, as long as nobody
was robbed: who uses a file (`Users`) has the one the name stands for, and created it; a named file
was written by its user or by a process that has died (`NamedFile`); who has judged a file stale and
is still `current` would move aside a file that nobody uses (`Judgements`); and what has been moved
aside has no user, so that nothing is put back (`MovedAside`).

`OutboxProofs` proves `TypeCorrect`, `NeverGivenUpEarly` and `Refinement` for any number of events
and processes, from `OutboxAssumption`. The invariant `IInv` is `TypeOK` with `Publishing` (an event
that is being published is so by one process, has no row yet and is neither received nor on record),
`Claimed` (a drain works on an event that was put into the outbox; one it is about to complete was
received, one it is about to drop is on record) and `Counted` (the attempts of a row are never more
than the failures). `Claimed` is what the refinement needs: a row may leave the table after a lock
has run out and another drain has settled it, and then the event is received or on record already.

`SendsAlone` proves `OneSender` from `SenderLocks`: a drain that is sending holds the row's lock as
its owner, unless it was suspended for longer than the lock lasts, which is the one case `OneSender`
excepts (`outbox.ts:57`).

`JobRunProofs` proves the type invariant, the five invariants of the run `jobrun` and its three
action properties, for any number of stages, rounds, retries, fixes, commands and faults and any
contexts, from `RunAssumption`: `WorksOnlyWhenAllowed`, `CancelEndsTheWork`, `LimitsHold`,
`WorkIsQueued`, `ResultIsCurrent`, `DoneWasVerified`, `BudgetsAreKept`,
`RunsComeToAnEnd`. One invariant, `JobInv`, carries
them. Its parts: `Rounds` (an adaptive job has no more reports than rounds, and fewer while it
works), `Kinds` (where a serial run can be and an adaptive one cannot), `Budgets`, `Failures` (the
third repeated failure raises its gate), `Gates` (no gate waits while a run works, and what a waiting
approval is for), `Outcomes` (what `finish` is called with), `Entries`, `Lateness` (where a run can
be after a cancel), `Results` and `Passed` (what is about to be done, or waits for its approval, has
passed its tests and its review). The attempt to prove `WorkHasAnEntry` in an earlier form failed for
a reason: an adaptive job that failed its verification goes on without an open entry in *every*
later round, also when the last round ends on an evidence that has become stale, which needs more
rounds than the run has. The property now says which jobs work without an entry.

`RunsComeToAnEnd` (`RunsEnd`) was first stated with a number, the sum of all budgets that are left; what
such a sum does when one budget is used needs an induction the provers cannot do. As it stands it
compares the budgets one by one, which says more and is proved from `JobInv` action by action: each
either uses something up (`RetriedDescends`, `PassesDescends`, `Round`) or lowers `Position` within the
same stage and round (`Closer`).

`ParallelStagesProofs` proves the types and the four properties of the run `parallel` for any set of
stages, any dependencies and any bounds: `BuildsOnDependencies`, `EndsQuietly`, `LeavesNoWorktree`,
`AllWorkIsMerged`. `StageInv` follows the loop over the layers: only stages of the current layer work
(`TasksInLayer`); what earlier layers changed is merged and in the base of this one (`PastMerged`,
`LayerBased`); the layer's own stages are merged one by one (`LayerMerged`); a run that is about to
record "done" has merged all (`AllMerged`), and what a run leaves behind is gone when the job is done
(`NothingLeft`). `Layers` says that the stages of a layer depend on stages of earlier layers only,
which is how `runDependencyLayers` picks them.

`ExecutorCallProofs` proves, for any number of calls:

* `TimedOutIsStopped` (`TimeoutStopsGroup`): `GroupInv` says of each call which timers can be armed in
  which phase, and that a runner has no group.
* `RunningIsRecorded` (`RunningChildIsRecorded`) under the hypothesis `Serial`, the constant that says
  whether calls overlap: `active.pid` is one file. Parallel stages overlap, and there the property is
  false; `JobQueue` uses it for the serial run. `RecordInv` adds that one call runs at a time.
* `BilledWasPrinted` (`UsageIsHonest`), for any output and any way to cut it into chunks.
  `HonestInv` says what the accumulator keeps back: the text since some end of a line, with what was
  billed before it (`LineFrom`). `ScriptAssumption` says that an agent prints a summary as a line of its
  own; without it one line with two summaries would be billed once.

`EventStreamProofs` proves `ResumesBehindNothingMissed` (`CursorHasSeenAll`) for any number of
workspaces, publishers, browsers and overlapping polls and any limit of the replay. What a browser
resumes from is the id of the last message it has got, so the invariant is about what is still on
its way. A sequence of messages is `Sound` when no event in it comes before a lower one of the same
workspace that the browser is owed and neither has nor is told of earlier in the sequence. `StreamInv`
says that what is on the wire is sound, and that what is buffered is sound after the rest of the
replay (`WireIsSound`, `PendingIsSound`). What makes a broadcast sound is `BehindIsCovered`: every
place of the file that a tailer has behind it, or that a poll has read from, holds an event that the
connection has, is being sent, or will get from its replay; a poll that was overtaken, or that takes
the tailer back, repeats events and leaves out none. What makes a replay sound is that the owed
events came above all earlier ones (`OwedInOrder`) and that its cursor hides none
(`CursorHidesNothing`). `ReplayIsComplete` is the lemma about the replay itself: the last
`maxReplayLines` in their order, the others in a warning before them.

`JobStoreProofs` proves, for any number of jobs, users and requests and any bounds:

* `StoreTypes`: the type invariant `Types`, which says of a context only that it is `Governed`.
* `ProfilesAreKept`: `ProfileKept` follows from it. The argument is the lemma `AcceptedIsGoverned`:
  whatever request, overrides and configuration, a context that `Accepted` lets through is governed.
  It is a proof about the pure functions of `Intake`, from `NoneAssumption` alone.
* `RowsStayGone`: the action property `ForgottenStays`.
* `SweepSparesWorktrees`: `SweepSparesJobs`. It is far from inductive. `SweepInv` adds: an active
  worker belongs to a scheduled job or an overtaken one (`ActiveScheduled`); a forget that erases a
  scheduled job is noted as overtaking it (`ForgettingSeen`); hence an active worker's directory is
  there or the job was overtaken (`ActiveHasDirectory`); hence what was an orphan at the scan is
  used by nobody, and stays unused, since a worktree that exists cannot be added again
  (`OrphansUnused`); `WorkerRecords` says that only an isolated worker records a worktree, and that
  one that closes its entry does not go on to work.

Only model-checked:

* Liveness (`EveryEntrySettles`, `CallsEnd`, `Settles`, `CallsSettle`, `Delivered`, `Forgotten`): TLAPS
  does not prove `ENABLED`.
* What the pure functions compute (section 11): most are recursive, and the provers have no
  induction over data.
* The disagreements of section 12 and the rows of section 13 that depend on a bound.

## 15. Not modelled

* The service lease (`storage.ts:577-617`): a holder that sleeps longer than the lease leaves two
  serve loops until the next renewal. The queue model assumes no single dispatcher, so its results
  do not rest on it.
* The subscriptions of the MCP server (`mcp-server.ts:657-728, 808-863`): an unsubscribe during the
  read of the baseline leaves a timer nobody stops, and the last connection's end clears the
  subscription of a client that has not opened its stream yet. Planned.
* The configuration's parsing; how its settings combine with a request is in `Intake`.
* Redaction, prompts, wording, the screens of the TUI and the pages of the web UI, `doctor`, schema
  migration, the detection of installed agents: text and I/O without control state of their own.
* Git, SQLite, the operating system: external, modelled by what the code relies on (a transaction is
  one step, `rename` and `unlink` act on a name, `worktree add` refuses a path or branch that
  exists, a signal to a group reaches its members).
* Lost updates of `writeState` between two *commands* on one job: `JobQueue` and `ParallelStages`
  have the load and the store as two steps where a run is one of the two writers.

The status of every component is in `PROJECT.json`.
