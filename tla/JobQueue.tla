------------------------------- MODULE JobQueue -------------------------------
(***************************************************************************)
(* The SQLite job queue of cbx: the tables queue_entries, queue_meta and   *)
(* the status column of jobs, and every process that works on them.        *)
(*                                                                         *)
(* Any process may be inside dispatchQueue: the serve loop, a CLI command, *)
(* or a worker that has just finished.  A dispatch is two-phase.  Outside  *)
(* the transaction it loads the queue, judges the running entries and      *)
(* spawns worker processes for queued ones; then one BEGIN IMMEDIATE       *)
(* transaction re-reads the queue, applies the verdicts to the entries     *)
(* still in the state they were judged in, and writes every row back.      *)
(* Workers run one job each under run.lock and record the final job state  *)
(* and the entry's status in one transaction.  Users start (or continue),  *)
(* cancel and retry jobs and pause the queue, each in several steps.       *)
(*                                                                         *)
(* Time is abstract: heartbeats and grace periods appear as the choice     *)
(* whether a live worker looks stale (MayLookStale).  Process ids are      *)
(* recycled only when nothing refers to them any more, so a pid names one  *)
(* process: reuse by the operating system is not modelled.                 *)
(***************************************************************************)
EXTENDS Integers, FiniteSets

CONSTANTS
  Job,            \* job ids
  Entry,          \* queue ids, numbered in order of creation; bounds the enqueues
  Worker,         \* worker process ids; bounds the workers alive at one time
  Dispatcher,     \* processes that can be inside dispatchQueue
  Client,         \* processes that run user commands
  Ops,            \* the user commands that may occur
  Faults,         \* the failures that may occur
  Outcomes,       \* final job statuses a worker may record
  ApproveFirst,   \* jobs with approvalBeforeRun
  Adaptive,       \* adaptive jobs
  Priority,       \* queue priorities
  MaxConcurrent,  \* maxConcurrent of .cbx.json
  MaxReclaims,    \* MAX_RECLAIMS
  KeepRows,       \* 200: rows dispatchQueue keeps
  None            \* absent job, pid, entry

JobStatus == {"queued", "running", "awaiting_approval", "needs_fix",
              "review_failed", "failed", "done", "cancelled"}
Gate      == {"none", "before_run", "completion", "max_rounds"}
AllOps    == {"start", "approve", "cancel", "retry", "pause", "resume"}
AllFaults == {"crash", "stillborn", "throw",  \* of workers
              "slow",                          \* a live worker does not beat in time
              "load",                          \* loadState throws
              "spawn", "dispatcher",           \* of a dispatch
              "client",                        \* a command throws or its process dies
              "busy",                          \* E_QUEUE_BUSY
              "kill"}                          \* terminateTree does not succeed

ASSUME QueueAssumption ==
  /\ Entry \subseteq Nat /\ IsFiniteSet(Entry)
  /\ Priority \subseteq Int /\ 0 \in Priority
  /\ MaxConcurrent \in Nat \ {0}
  /\ MaxReclaims \in Nat
  /\ KeepRows \in Nat
  /\ Ops \subseteq AllOps /\ Faults \subseteq AllFaults
  /\ Outcomes \subseteq JobStatus \ {"queued", "running"}
  /\ ApproveFirst \subseteq Job /\ Adaptive \subseteq Job
  /\ None \notin Job \cup Entry \cup Worker

VARIABLES
  queue,    \* table queue_entries: queue[e].status = "none" for no such row
  nextId,   \* the next queue id to be created
  paused,   \* queue_meta.paused
  job,      \* jobs.status, the waiting gate, and the files of the job directory
  worker,   \* worker processes
  disp,     \* what each dispatchQueue call has in its local variables
  client    \* what each user command has in its local variables

vars == <<queue, nextId, paused, job, worker, disp, client>>

-----------------------------------------------------------------------------
(* Types *)

Active      == {"queued", "running", "awaiting_approval"}
Finished    == {"done", "failed", "cancelled"}
EntryStatus == Active \cup Finished

Row == [status : EntryStatus \cup {"none"}, job : Job \cup {None},
        pid : Worker \cup {None}, reclaims : Nat, prio : Priority]
NoRow == [status |-> "none", job |-> None, pid |-> None, reclaims |-> 0, prio |-> 0]

\* gate: the reason of a waiting Human Gate that blocks the job; the others are
\* resolved by any continuation.  approved: approved before the run.  marker:
\* the file cancel.requested.  heartbeat: the file worker.heartbeat.  stray:
\* active.pid names an executor that outlived its worker.
JobRec == [status : JobStatus, gate : Gate, approved : BOOLEAN, marker : BOOLEAN,
           heartbeat : BOOLEAN, stray : BOOLEAN]

WorkerRec == [pc : {"gone", "spawned", "admitted", "locked", "running", "recorded"},
              job : Job \cup {None}, entry : Entry \cup {None}]
Gone == [pc |-> "gone", job |-> None, entry |-> None]

\* verdict: reconResults.  spawned and failed: spawnResults.
Verdict == [status : {"none", "queued", "failed", "done", "cancelled"}, reclaims : Nat]
NoVerdict == [status |-> "none", reclaims |-> 0]
DispRec == [pc : {"idle", "recon", "spawn"}, queue : [Entry -> Row], paused : BOOLEAN,
            judged : SUBSET Entry, verdict : [Entry -> Verdict], active : Nat,
            spawned : [Entry -> Worker \cup {None}], failed : SUBSET Entry]
Idle == [pc |-> "idle", queue |-> [e \in Entry |-> NoRow], paused |-> FALSE,
         judged |-> {}, verdict |-> [e \in Entry |-> NoVerdict], active |-> 0,
         spawned |-> [e \in Entry |-> None], failed |-> {}]

\* gate, approved: of the job state a command has loaded and will write back.
ClientRec ==
  {c \in [pc : {"idle", "start", "approve", "launch", "mark", "dequeue", "kill", "load",
                "settle", "reset", "reload", "replace"},
          job : Job \cup {None}, pids : SUBSET Worker, stray : BOOLEAN,
          survivors : BOOLEAN, gate : Gate, approved : BOOLEAN] :
     c.pc # "idle" => c.job \in Job}
NoCommand == [pc |-> "idle", job |-> None, pids |-> {}, stray |-> FALSE,
              survivors |-> FALSE, gate |-> "none", approved |-> FALSE]

TypeOK ==
  /\ queue \in [Entry -> Row]
  /\ nextId \in Nat
  /\ paused \in BOOLEAN
  /\ job \in [Job -> JobRec]
  /\ worker \in [Worker -> WorkerRec]
  /\ disp \in [Dispatcher -> DispRec]
  /\ client \in [Client -> ClientRec]

-----------------------------------------------------------------------------
(* Helpers *)

\* processAlive
Alive(w) == w \in Worker /\ worker[w].pc # "gone"

\* A pid the operating system may hand out: nothing refers to it any more.
Fresh(w) ==
  /\ ~Alive(w)
  /\ \A e \in Entry : queue[e].pid # w
  /\ \A d \in Dispatcher, e \in Entry :
       disp[d].spawned[e] # w /\ disp[d].queue[e].pid # w
  /\ \A k \in Client : w \notin client[k].pids

\* run.lock is held by the live process that is inside withFileLock.
LockHeld(j) ==
  \/ \E w \in Worker : worker[w].job = j /\ worker[w].pc \in {"locked", "running", "recorded"}
  \/ \E k \in Client : client[k].job = j /\ client[k].pc = "approve"

In(q, statuses) == {e \in Entry : q[e].status \in statuses}

\* mapStateToQueueStatus
QueueStatusOf(s) == IF s \in {"done", "cancelled", "awaiting_approval"} THEN s ELSE "failed"

\* finishQueueEntryRow: UPDATE ... WHERE queue_id = ?, whatever the row's status is.
FinishRow(e, s) ==
  IF queue[e].status = "none" THEN queue
  ELSE [queue EXCEPT ![e].status = QueueStatusOf(s), ![e].pid = None]

\* The entries of job j in one of the statuses become cancelled.
CancelRows(j, statuses) ==
  [e \in Entry |-> IF queue[e].job = j /\ queue[e].status \in statuses
                   THEN [queue[e] EXCEPT !.status = "cancelled", !.pid = None]
                   ELSE queue[e]]

NewRow(j, p) == [NoRow EXCEPT !.status = "queued", !.job = j, !.prio = p]

\* ORDER BY priority DESC, createdAt ASC
Before(q, e, f) == q[e].prio > q[f].prio \/ (q[e].prio = q[f].prio /\ e < f)

-----------------------------------------------------------------------------
(* dispatchQueue, phase 1: outside the transaction *)

\* The rows of a loaded queue that the dispatch looks at.
Unfinished(q) == [e \in Entry |-> IF q[e].status \in {"queued", "running"} THEN q[e] ELSE NoRow]

\* The queue is loaded; nothing is locked from here to Commit.
Snapshot(d) ==
  /\ disp[d].pc = "idle"
  /\ disp' = [disp EXCEPT ![d] = [Idle EXCEPT !.pc = "recon", !.paused = paused,
                                              !.queue = Unfinished(queue)]]
  /\ UNCHANGED <<queue, nextId, paused, job, worker, client>>

Unjudged(d) == In(disp[d].queue, {"running"}) \ disp[d].judged

\* Mutant: the reclaim count starts over at every reclaim.
VerdictWithoutCount(row, readable) ==
  LET s == job[row.job].status IN
  [status |-> IF readable /\ s \in {"done", "cancelled"} THEN s ELSE "queued", reclaims |-> 0]

\* The verdict on a stale entry: done and cancelled jobs close it, anything else
\* sends it back to the queue until it has been reclaimed too often.  A
\* heartbeat file on disk resets the count.  A state that cannot be read is as
\* good as an unfinished one.
VerdictOn(row, readable) ==
  LET j == row.job
      n == IF job[j].heartbeat THEN 0 ELSE row.reclaims + 1
  IN  IF readable /\ job[j].status \in {"done", "cancelled"}
      THEN [status |-> job[j].status, reclaims |-> row.reclaims]
      ELSE [status |-> IF n > MaxReclaims THEN "failed" ELSE "queued", reclaims |-> n]

\* What terminateTree(active.pid) leaves of a stray executor; recon and retry
\* ignore its result.
AfterKill(stray) == IF "kill" \in Faults THEN {stray, FALSE} ELSE {FALSE}

\* A living worker looks stale when it does not beat in time, while it has not
\* yet written over the old heartbeat file of a worker that crashed, and while
\* the file it wrote is missing because a worker that was turned away has
\* removed it.
MayLookStale(row) ==
  \/ "slow" \in Faults
  \/ /\ job[row.job].heartbeat
     /\ \A w \in Worker : worker[w].job = row.job => worker[w].pc = "spawned"
  \/ ~job[row.job].heartbeat /\ worker[row.pid].pc # "spawned"

\* One running entry is judged, in table order.  The executor a dead worker left
\* behind is killed on the way.  One step per entry: a dead pid stays dead, so
\* the liveness check commutes with what happens before the job state is read.
Recon(d) ==
  /\ disp[d].pc = "recon"
  /\ \E e \in Unjudged(d), stale, readable \in BOOLEAN :
       LET row == disp[d].queue[e] IN
       /\ \A f \in Unjudged(d) : e <= f
       /\ ~Alive(row.pid) => stale
       /\ stale /\ Alive(row.pid) => MayLookStale(row)
       /\ ~readable => stale /\ "load" \in Faults
       /\ disp' = [disp EXCEPT ![d].judged = @ \cup {e},
                               ![d].verdict[e] = IF stale THEN VerdictOn(row, readable) ELSE @]
       /\ IF Alive(row.pid) THEN job' = job
          ELSE \E left \in AfterKill(job[row.job].stray) :
                 job' = [job EXCEPT ![row.job].stray = left]
  /\ UNCHANGED <<queue, nextId, paused, worker, client>>

Reclaimed(d) == {e \in Entry : disp[d].verdict[e].status # "none"}

\* activeAfterReclaim: the snapshot's running entries whose pid is alive now,
\* minus the entries judged stale.
CountActive(d) ==
  /\ disp[d].pc = "recon"
  /\ Unjudged(d) = {}
  /\ LET alive == {e \in In(disp[d].queue, {"running"}) : Alive(disp[d].queue[e].pid)}
         n     == Cardinality(alive) - Cardinality(Reclaimed(d))
     IN  disp' = [disp EXCEPT ![d].pc = "spawn", ![d].active = IF n > 0 THEN n ELSE 0,
                              ![d].judged = {}]
  /\ UNCHANGED <<queue, nextId, paused, job, worker, client>>

\* The snapshot's queued entries this dispatch has not tried yet.
Waiting(d) == {e \in In(disp[d].queue, {"queued"}) :
                 disp[d].spawned[e] = None /\ e \notin disp[d].failed}

\* Mutant: one worker too many.
CanSpawnOneMore(d) == ~disp[d].paused /\ disp[d].active <= MaxConcurrent /\ Waiting(d) # {}

CanSpawn(d) == ~disp[d].paused /\ disp[d].active < MaxConcurrent /\ Waiting(d) # {}

\* spawnQueueWorker: the worker process exists from here on, and may run before
\* the dispatch commits.  When the pid file cannot be written the entry is
\* recorded as failed although the process was started.
Spawn(d) ==
  /\ disp[d].pc = "spawn"
  /\ CanSpawn(d)
  /\ \E e \in Waiting(d), w \in Worker, ok \in BOOLEAN :
       /\ \A f \in Waiting(d) \ {e} : Before(disp[d].queue, e, f)
       /\ Fresh(w)
       /\ ~ok => "spawn" \in Faults
       /\ worker' = [worker EXCEPT ![w] = [pc |-> "spawned", job |-> disp[d].queue[e].job, entry |-> e]]
       /\ disp' = IF ok
                  THEN [disp EXCEPT ![d].spawned[e] = w, ![d].active = @ + 1]
                  ELSE [disp EXCEPT ![d].failed = @ \cup {e}]
  /\ UNCHANGED <<queue, nextId, paused, job, client>>

-----------------------------------------------------------------------------
(* dispatchQueue, phase 2: one transaction *)

\* The re-read row after the verdict, which counts only if the row still runs.
AfterVerdict(d, row, e) ==
  LET v == disp[d].verdict[e] IN
  IF row.status = "running" /\ v.status # "none"
  THEN [row EXCEPT !.status = v.status, !.pid = None,
                   !.reclaims = IF v.status \in {"queued", "failed"} THEN v.reclaims ELSE @]
  ELSE row

\* Mutants: the row's status is not checked again; the pid is not recorded.
AfterSpawnUnchecked(d, row, e) ==
  IF disp[d].spawned[e] # None
  THEN [row EXCEPT !.status = "running", !.pid = disp[d].spawned[e]]
  ELSE row
AfterSpawnWithoutPid(d, row, e) ==
  IF row.status = "queued" /\ disp[d].spawned[e] # None
  THEN [row EXCEPT !.status = "running"]
  ELSE row

\* ... and after the spawn result, which counts only if the row is queued.
AfterSpawn(d, row, e) ==
  CASE row.status = "queued" /\ disp[d].spawned[e] # None ->
         [row EXCEPT !.status = "running", !.pid = disp[d].spawned[e]]
    [] row.status = "queued" /\ e \in disp[d].failed ->
         [row EXCEPT !.status = "failed"]
    [] OTHER -> row

\* Mutant: the queue is not read again inside the transaction.
AppliedToSnapshot(d) ==
  [e \in Entry |-> AfterSpawn(d, AfterVerdict(d, disp[d].queue[e], e), e)]

Applied(d) == [e \in Entry |-> AfterSpawn(d, AfterVerdict(d, queue[e], e), e)]

\* finishedEntries.slice(-Math.max(0, KeepRows - active)): the oldest finished
\* rows go; slice(-0) keeps them all.
Truncated(q) ==
  LET room == KeepRows - Cardinality(In(q, Active))
      Newer(e) == {f \in In(q, Finished) : f > e}
  IN  [e \in Entry |-> IF q[e].status \in Finished /\ room > 0 /\ Cardinality(Newer(e)) >= room
                       THEN NoRow ELSE q[e]]

Commit(d) ==
  /\ disp[d].pc = "spawn"
  /\ ~CanSpawn(d)
  /\ queue' = Truncated(Applied(d))
  /\ disp' = [disp EXCEPT ![d] = Idle]
  /\ UNCHANGED <<nextId, paused, job, worker, client>>

\* E_QUEUE_BUSY after busy_timeout, or the death of the dispatching process:
\* nothing of the dispatch is recorded, the workers it spawned live on.
Abandon(d) ==
  /\ \/ disp[d].pc = "spawn" /\ ~CanSpawn(d) /\ "busy" \in Faults
     \/ disp[d].pc # "idle" /\ "dispatcher" \in Faults
  /\ disp' = [disp EXCEPT ![d] = Idle]
  /\ UNCHANGED <<queue, nextId, paused, job, worker, client>>

Dispatch(d) == Snapshot(d) \/ Recon(d) \/ CountActive(d) \/ Spawn(d) \/ Commit(d)

-----------------------------------------------------------------------------
(* A worker process: cbx run --queue-entry-id *)

\* The process ends through the finally blocks: lock and heartbeat file are gone.
Exit(w) ==
  /\ worker' = [worker EXCEPT ![w] = Gone]
  /\ job' = [job EXCEPT ![worker[w].job].heartbeat = FALSE]

\* prepareContinuation lets the job pass; the heartbeat file was written before.
WorkerAdmitted(w) ==
  LET j == worker[w].job IN
  /\ worker[w].pc = "spawned"
  /\ job[j].gate = "none"
  /\ worker' = [worker EXCEPT ![w].pc = "admitted"]
  /\ job' = [job EXCEPT ![j].heartbeat = TRUE]
  /\ UNCHANGED <<queue, nextId, paused, disp, client>>

\* executeJob returns or throws before it holds run.lock: a Human Gate blocks
\* the job, or another process holds the lock.  The queue entry is not touched.
WorkerTurnedAway(w) ==
  /\ \/ worker[w].pc = "spawned" /\ job[worker[w].job].gate # "none"
     \/ worker[w].pc = "admitted" /\ LockHeld(worker[w].job)
  /\ Exit(w)
  /\ UNCHANGED <<queue, nextId, paused, disp, client>>

\* run.lock is taken.
WorkerBegins(w) ==
  /\ worker[w].pc = "admitted"
  /\ ~LockHeld(worker[w].job)
  /\ worker' = [worker EXCEPT ![w].pc = "locked"]
  /\ UNCHANGED <<queue, nextId, paused, job, disp, client>>

\* Mutant: only the gate check before the lock counts.
NeverPending(j) == FALSE

\* What executeJob finds when it holds the lock, in this order.
CancelPending(j)     == job[j].marker /\ job[j].status = "cancelled"
CompletionPending(j) == job[j].status = "awaiting_approval" /\ job[j].gate = "completion"
Unapproved(j)        == j \in ApproveFirst /\ ~job[j].approved
MayRun(j)            == ~CancelPending(j) /\ ~CompletionPending(j) /\ ~Unapproved(j)
Executing(w)         == \/ worker[w].pc = "locked" /\ MayRun(worker[w].job)
                        \/ worker[w].pc = "running"

\* A pending cancel of a job whose state is cancelled closes the entry
\* (finishQueueEntry): with the state it reads, or as failed if it cannot.
WorkerSkips(w) ==
  LET j == worker[w].job IN
  /\ worker[w].pc = "locked"
  /\ CancelPending(j)
  /\ \E s \in {"cancelled"} \cup (IF "load" \in Faults THEN {"failed"} ELSE {}) :
       queue' = FinishRow(worker[w].entry, s)
  /\ worker' = [worker EXCEPT ![w].pc = "recorded"]
  /\ UNCHANGED <<nextId, paused, job, disp, client>>

\* A job that awaits its completion approval is returned as it is.
WorkerReturns(w) ==
  LET j == worker[w].job IN
  /\ worker[w].pc = "locked"
  /\ ~CancelPending(j) /\ CompletionPending(j)
  /\ worker' = [worker EXCEPT ![w].pc = "recorded"]
  /\ UNCHANGED <<queue, nextId, paused, job, disp, client>>

\* writeState with the queue entry: job state and entry in one transaction.  A
\* new gate is written with the state; otherwise the old one stays.
Record(w, s, gate) ==
  LET j == worker[w].job IN
  /\ queue' = FinishRow(worker[w].entry, s)
  /\ job' = [job EXCEPT ![j].status = s, ![j].gate = IF gate = "none" THEN @ ELSE gate]
  /\ worker' = [worker EXCEPT ![w].pc = "recorded"]
  /\ UNCHANGED <<nextId, paused, disp, client>>

\* approvalBeforeRun
WorkerAsks(w) ==
  LET j == worker[w].job IN
  /\ worker[w].pc = "locked"
  /\ ~CancelPending(j) /\ ~CompletionPending(j) /\ Unapproved(j)
  /\ Record(w, "awaiting_approval", "before_run")

\* writeState(status: "running"), at every stage and attempt: no check that the
\* entry still stands, and the marker may have been raised since it was looked at.
WorkerRuns(w) ==
  LET j == worker[w].job IN
  /\ Executing(w)
  /\ worker' = [worker EXCEPT ![w].pc = "running"]
  /\ job' = [job EXCEPT ![j].status = "running"]
  /\ UNCHANGED <<queue, nextId, paused, disp, client>>

\* The job ends: before any stage (baseline drift, no worktree), or after it has
\* run, when it may wait for its completion approval or for more rounds.
WorkerFinishes(w) ==
  \E s \in Outcomes, gate \in Gate \ {"before_run"} :
    /\ Executing(w)
    /\ worker[w].pc = "locked" => s \in {"needs_fix", "failed"} /\ gate = "none"
    /\ s = "awaiting_approval" <=> gate = "completion"
    /\ gate = "max_rounds" => s = "needs_fix"
    /\ Record(w, s, gate)

\* The verification gate of an adaptive job: finish() records needs_fix and so
\* closes the entry as failed, and the worker goes on with the next round.  What
\* it records later it records over the closed row.
WorkerGoesOn(w) ==
  /\ worker[w].pc = "running"
  /\ worker[w].job \in Adaptive
  /\ queue' = FinishRow(worker[w].entry, "needs_fix")
  /\ job' = [job EXCEPT ![worker[w].job].status = "needs_fix"]
  /\ UNCHANGED <<nextId, paused, worker, disp, client>>

\* A cancel marker seen at one of the checkpoints (finishCancelled).
WorkerSeesCancel(w) ==
  /\ Executing(w)
  /\ job[worker[w].job].marker
  /\ Record(w, "cancelled", "none")

\* The heartbeat timer: a worker that was turned away removes the file of the
\* worker that holds the lock, which writes it again.
WorkerBeats(w) ==
  /\ worker[w].pc \in {"admitted", "locked", "running", "recorded"}
  /\ ~job[worker[w].job].heartbeat
  /\ job' = [job EXCEPT ![worker[w].job].heartbeat = TRUE]
  /\ UNCHANGED <<queue, nextId, paused, worker, disp, client>>

\* The trailing dispatchQueue of executeJob is one of the Dispatchers.
WorkerExits(w) ==
  /\ worker[w].pc = "recorded"
  /\ Exit(w)
  /\ UNCHANGED <<queue, nextId, paused, disp, client>>

WorkerStep(w) ==
  \/ WorkerAdmitted(w) \/ WorkerTurnedAway(w) \/ WorkerBegins(w)
  \/ WorkerSkips(w) \/ WorkerReturns(w) \/ WorkerAsks(w) \/ WorkerRuns(w)
  \/ WorkerFinishes(w) \/ WorkerGoesOn(w) \/ WorkerSeesCancel(w) \/ WorkerExits(w)

\* An exception inside executeJob: the finally blocks run, nothing is recorded.
WorkerThrows(w) ==
  /\ "throw" \in Faults
  /\ worker[w].pc \in {"spawned", "admitted", "locked", "running"}
  /\ Exit(w)
  /\ UNCHANGED <<queue, nextId, paused, disp, client>>

\* The process dies before it writes its heartbeat.
WorkerStillborn(w) ==
  /\ "stillborn" \in Faults
  /\ worker[w].pc = "spawned"
  /\ worker' = [worker EXCEPT ![w] = Gone]
  /\ UNCHANGED <<queue, nextId, paused, job, disp, client>>

\* SIGKILL, OOM, power loss: the heartbeat file stays, and so does the executor.
WorkerCrashes(w) ==
  /\ "crash" \in Faults
  /\ worker[w].pc \in {"admitted", "locked", "running", "recorded"}
  /\ worker' = [worker EXCEPT ![w] = Gone]
  /\ job' = [job EXCEPT ![worker[w].job].stray = @ \/ worker[w].pc = "running"]
  /\ UNCHANGED <<queue, nextId, paused, disp, client>>

WorkerFault(w) == WorkerThrows(w) \/ WorkerStillborn(w) \/ WorkerCrashes(w)

-----------------------------------------------------------------------------
(* User commands *)

\* startBackground: refused while a gate blocks, except that extra rounds resolve
\* a max_rounds gate; the cancel marker is removed before the queue says whether
\* the job may be enqueued.
Prepare(k, j) ==
  /\ job[j].gate \in {"none", "max_rounds"}
  /\ job' = [job EXCEPT ![j].marker = FALSE, ![j].gate = "none"]
  /\ client' = [client EXCEPT ![k].pc = "start", ![k].job = j]

Start(k) ==
  /\ "start" \in Ops /\ client[k].pc = "idle" /\ nextId \in Entry
  /\ \E j \in Job : Prepare(k, j)
  /\ UNCHANGED <<queue, nextId, paused, worker, disp>>

\* Mutant: only a running entry counts.
DuplicateRunning(j) == \E e \in Entry : queue[e].job = j /\ queue[e].status = "running"

\* An entry of the job that keeps enqueueJob from creating another one.
Duplicate(j) == \E e \in Entry : queue[e].job = j /\ queue[e].status \in Active

\* enqueueJob's transaction
Enqueue(k) ==
  /\ client[k].pc = "start"
  /\ IF Duplicate(client[k].job)
     THEN UNCHANGED <<queue, nextId>>
     ELSE /\ nextId \in Entry
          /\ \E p \in Priority : queue' = [queue EXCEPT ![nextId] = NewRow(client[k].job, p)]
          /\ nextId' = nextId + 1
  /\ client' = [client EXCEPT ![k] = NoCommand]
  /\ UNCHANGED <<paused, job, worker, disp>>

\* approveJob takes run.lock and looks at the state and its gate.
ApproveReads(k) ==
  /\ "approve" \in Ops /\ client[k].pc = "idle"
  /\ \E j \in Job :
       /\ job[j].status = "awaiting_approval" /\ job[j].gate \in {"before_run", "completion"}
       /\ ~LockHeld(j)
       /\ client' = [client EXCEPT ![k].pc = "approve", ![k].job = j, ![k].gate = job[j].gate]
  /\ UNCHANGED <<queue, nextId, paused, job, worker, disp>>

\* resolveApprovalQueueRow
ResolveRows(j, s) ==
  [e \in Entry |-> IF queue[e].job = j /\ queue[e].status = "awaiting_approval"
                   THEN [queue[e] EXCEPT !.status = s, !.pid = None] ELSE queue[e]]

\* Mutant: the state is written without the entry, which a later transaction is to close.
ApprovesStateOnly(k) ==
  LET j == client[k].job
      first == client[k].gate = "before_run"
  IN
  /\ client[k].pc = "approve"
  /\ job' = [job EXCEPT ![j].status = IF first THEN "queued" ELSE "done",
                        ![j].gate = "none", ![j].approved = @ \/ first]
  /\ client' = [client EXCEPT ![k] = IF first THEN [NoCommand EXCEPT !.pc = "launch", !.job = j]
                                     ELSE NoCommand]
  /\ UNCHANGED <<queue, nextId, paused, worker, disp>>

\* writeApprovalState: the awaiting entry and the job state, one transaction.  An
\* approval before the run leaves a queued job without an entry, which
\* approveJobAndStart launches next; a completion may fail on changed evidence
\* or on the commit.
ApproveWrites(k) ==
  LET j == client[k].job
      first == client[k].gate = "before_run"
  IN
  /\ client[k].pc = "approve"
  /\ \E s \in IF first THEN {"queued"} ELSE {"done", "needs_fix", "failed"} :
       /\ queue' = ResolveRows(j, IF s \in {"queued", "done"} THEN "done" ELSE "failed")
       /\ job' = [job EXCEPT ![j].status = s, ![j].gate = "none", ![j].approved = @ \/ first]
  /\ client' = [client EXCEPT ![k] = IF first THEN [NoCommand EXCEPT !.pc = "launch", !.job = j]
                                     ELSE NoCommand]
  /\ UNCHANGED <<nextId, paused, worker, disp>>

Launch(k) ==
  /\ client[k].pc = "launch"
  /\ \/ Prepare(k, client[k].job)
     \/ /\ job[client[k].job].gate \in {"before_run", "completion"}
        /\ client' = [client EXCEPT ![k] = NoCommand]
        /\ job' = job
  /\ UNCHANGED <<queue, nextId, paused, worker, disp>>

\* cancelJob reads the state and the pids it will kill; any job may be cancelled.
CancelReads(k) ==
  /\ "cancel" \in Ops /\ client[k].pc = "idle"
  /\ \E j \in Job :
       client' = [client EXCEPT ![k] = [NoCommand EXCEPT
         !.pc = "mark", !.job = j, !.stray = job[j].status = "running",
         !.pids = {queue[e].pid : e \in {f \in In(queue, {"running"}) : queue[f].job = j}} \cap Worker]]
  /\ UNCHANGED <<queue, nextId, paused, job, worker, disp>>

CancelMarks(k) ==
  /\ client[k].pc = "mark"
  /\ job' = [job EXCEPT ![client[k].job].marker = TRUE]
  /\ client' = [client EXCEPT ![k].pc = "dequeue"]
  /\ UNCHANGED <<queue, nextId, paused, worker, disp>>

\* cancelQueueEntries; a failure is only logged.
CancelDequeues(k) ==
  /\ client[k].pc = "dequeue"
  /\ queue' = CancelRows(client[k].job, Active) \/ ("busy" \in Faults /\ queue' = queue)
  /\ client' = [client EXCEPT ![k].pc = "kill"]
  /\ UNCHANGED <<nextId, paused, job, worker, disp>>

\* terminateTree of the worker pids read at the start, and of the executor read
\* then if the job was running.  The executor is a process group of its own: one
\* that was started later, or does not exit, outlives the worker.
CancelKills(k) ==
  /\ client[k].pc = "kill"
  /\ \E killed, exited, left \in BOOLEAN :
       /\ ~killed => "kill" \in Faults /\ \E w \in client[k].pids : Alive(w)
       /\ ~exited => "kill" \in Faults /\ client[k].stray /\ killed /\ left
       /\ left => ~exited \/ \E w \in client[k].pids : killed /\ worker[w].pc = "running"
       /\ worker' = IF killed THEN [w \in Worker |-> IF w \in client[k].pids THEN Gone ELSE worker[w]]
                              ELSE worker
       /\ client' = [client EXCEPT ![k].pc = "load", ![k].pids = {}, ![k].survivors = ~(killed /\ exited)]
       /\ job' = [job EXCEPT ![client[k].job].stray = (@ /\ ~client[k].stray) \/ left]
  /\ UNCHANGED <<queue, nextId, paused, disp>>

\* cancelQueueEntriesWithState and retryQueueJob load the state before their
\* transaction writes it back: whatever changes in between is lost.
LoadsState(k) ==
  /\ client[k].pc \in {"load", "reload"}
  /\ client' = [client EXCEPT ![k].pc = IF @ = "load" THEN "settle" ELSE "replace",
                              ![k].gate = job[client[k].job].gate,
                              ![k].approved = job[client[k].job].approved]
  /\ UNCHANGED <<queue, nextId, paused, job, worker, disp>>

WritesBack(k, s) ==
  job' = [job EXCEPT ![client[k].job].status = s, ![client[k].job].gate = client[k].gate,
                     ![client[k].job].approved = client[k].approved]

\* The transaction: active entries are cancelled, the final state is written.
CancelSettles(k) ==
  /\ client[k].pc = "settle"
  /\ queue' = CancelRows(client[k].job, Active)
  /\ WritesBack(k, IF client[k].survivors THEN "needs_fix" ELSE "cancelled")
  /\ client' = [client EXCEPT ![k] = NoCommand]
  /\ UNCHANGED <<nextId, paused, worker, disp>>

\* retryQueueJob: the status is checked once, then the marker is raised while
\* the old executor is killed.
RetryMarks(k) ==
  /\ "retry" \in Ops /\ client[k].pc = "idle"
  /\ \E j \in Job :
       /\ job[j].status \notin {"running", "queued", "awaiting_approval"} /\ nextId \in Entry
       /\ job' = [job EXCEPT ![j].marker = TRUE]
       /\ client' = [client EXCEPT ![k].pc = "reset", ![k].job = j]
  /\ UNCHANGED <<queue, nextId, paused, worker, disp>>

RetryKills(k) ==
  /\ client[k].pc = "reset"
  /\ \E left \in AfterKill(job[client[k].job].stray) :
       job' = [job EXCEPT ![client[k].job].stray = left, ![client[k].job].marker = FALSE]
  /\ client' = [client EXCEPT ![k].pc = "reload"]
  /\ UNCHANGED <<queue, nextId, paused, worker, disp>>

\* Mutant: the job had ended when the command began, so no entry needs to be superseded.
RetryAdds(k) ==
  /\ client[k].pc = "replace"
  /\ nextId \in Entry
  /\ \E p \in Priority : queue' = [queue EXCEPT ![nextId] = NewRow(client[k].job, p)]
  /\ nextId' = nextId + 1
  /\ WritesBack(k, "queued")
  /\ client' = [client EXCEPT ![k] = NoCommand]
  /\ UNCHANGED <<paused, worker, disp>>

\* The transaction: queued and running entries are superseded, a new entry and
\* the reset state are written.  The gate of the old run survives the reset.
RetryReplaces(k) ==
  LET j == client[k].job IN
  /\ client[k].pc = "replace"
  /\ nextId \in Entry
  /\ \E p \in Priority :
       queue' = [CancelRows(j, {"queued", "running"}) EXCEPT ![nextId] = NewRow(j, p)]
  /\ nextId' = nextId + 1
  /\ WritesBack(k, "queued")
  /\ client' = [client EXCEPT ![k] = NoCommand]
  /\ UNCHANGED <<paused, worker, disp>>

\* pauseQueue and resumeQueue
SetPaused(k) ==
  /\ client[k].pc = "idle"
  /\ \/ "pause" \in Ops /\ paused' = TRUE
     \/ "resume" \in Ops /\ paused' = FALSE
  /\ UNCHANGED <<queue, nextId, job, worker, disp, client>>

\* A transaction of the command fails, or its process dies between two steps.
CommandFails(k) ==
  /\ "client" \in Faults /\ client[k].pc # "idle"
  /\ client' = [client EXCEPT ![k] = NoCommand]
  /\ UNCHANGED <<queue, nextId, paused, job, worker, disp>>

Command(k) ==
  \/ Start(k) \/ Enqueue(k)
  \/ ApproveReads(k) \/ ApproveWrites(k) \/ Launch(k)
  \/ CancelReads(k) \/ CancelMarks(k) \/ CancelDequeues(k) \/ CancelKills(k) \/ CancelSettles(k)
  \/ RetryMarks(k) \/ RetryKills(k) \/ RetryReplaces(k)
  \/ LoadsState(k) \/ SetPaused(k) \/ CommandFails(k)

-----------------------------------------------------------------------------
Init ==
  /\ queue = [e \in Entry |-> NoRow]
  /\ nextId = 1
  /\ paused = FALSE
  /\ job = [j \in Job |-> [status |-> "queued", gate |-> "none", approved |-> FALSE, marker |-> FALSE,
                           heartbeat |-> FALSE, stray |-> FALSE]]
  /\ worker = [w \in Worker |-> Gone]
  /\ disp = [d \in Dispatcher |-> Idle]
  /\ client = [k \in Client |-> NoCommand]

Next ==
  \/ \E d \in Dispatcher : Dispatch(d) \/ Abandon(d)
  \/ \E w \in Worker : WorkerStep(w) \/ WorkerBeats(w) \/ WorkerFault(w)
  \/ \E k \in Client : Command(k)

Spec == Init /\ [][Next]_vars

\* serveQueue ticks for ever, a dispatch never waits, and a worker goes on: every
\* executor call has a timeout.  A run ends, as its rounds are limited.  Users and
\* faults owe nothing.
Fairness ==
  /\ \A d \in Dispatcher : WF_vars(Dispatch(d))
  /\ \A w \in Worker : WF_vars(WorkerStep(w)) /\ WF_vars(WorkerFinishes(w))

FairSpec == Spec /\ Fairness

-----------------------------------------------------------------------------
(* Safety *)

\* The rewrite of all rows with a dispatch's old judgements never brings back an
\* entry another process has finished in the meantime (queue.ts:165-186).
NoResurrection ==
  [][\A e \in Entry : queue[e].status \in Finished => queue'[e].status \notin {"queued", "running"}]_vars

\* writeQueueRows deletes the rows that are not in its list.  An entry that is
\* queued, running or awaiting approval, be it enqueued after the dispatch read
\* the queue, is among them only if the dispatch closes it and two hundred newer
\* ones have finished (queue.ts:164-191).
NoActiveRowLost ==
  [][\A e \in Entry : queue[e].status \in Active /\ queue'[e].status = "none" =>
       \E d \in Dispatcher : disp[d].verdict[e].status \in Finished \/ e \in disp[d].failed]_vars

Lives(w) == worker[w].pc # "gone"

\* Process w, while it lives, is a worker of entry e and job j.
WorkerOf(w, e, j) == w \in Worker /\ (Lives(w) => worker[w].entry = e /\ worker[w].job = j)

\* The pid in a running row, while it lives, is a worker that was spawned for
\* this very entry: what cancelJob kills is the worker of the job it cancels
\* (queue.ts:152, 176-187, 303).
PidIsOwnWorker ==
  \A e \in In(queue, {"running"}) : WorkerOf(queue[e].pid, e, queue[e].job)

\* A row has been created, and what a dispatch has loaded has the job of the row
\* that is in the table now.
RowsAreKnown ==
  \A e \in Entry :
    /\ queue[e].status # "none" => e < nextId
    /\ \A d \in Dispatcher : disp[d].queue[e].status # "none" =>
         /\ e < nextId
         /\ queue[e].status # "none" => queue[e].job = disp[d].queue[e].job

\* What a dispatch has spawned is a worker of the queued entry it has loaded.
SpawnedIsOwnWorker ==
  \A d \in Dispatcher, e \in Entry : disp[d].spawned[e] # None =>
    /\ disp[d].queue[e].status = "queued"
    /\ WorkerOf(disp[d].spawned[e], e, disp[d].queue[e].job)

\* PidIsOwnWorker with what keeps it true: between a spawn and its commit the
\* pid is only in the dispatch (queue.ts:147-187), and a row that is created or
\* deleted in between never has another job under the same queue id.
QueueInv == TypeOK /\ PidIsOwnWorker /\ RowsAreKnown /\ SpawnedIsOwnWorker

\* The running entries whose worker lives
LivingEntries == {e \in In(queue, {"running"}) : Lives(queue[e].pid)}

\* The living entries that other dispatches have started since d loaded the queue
StartedByOthers(d) ==
  {e \in LivingEntries : ~(disp[d].queue[e].status = "running" /\ disp[d].queue[e].pid = queue[e].pid)}

\* A dispatch that starts workers goes beyond maxConcurrent by the entries it
\* reclaims, which it subtracts from a count that the dead are not in, and by
\* those that other dispatches have started since it loaded the queue, which it
\* does not count again, and by no more (queue.ts:144-158, 176-181).
OvershootIsBounded ==
  [][\/ LivingEntries' \subseteq LivingEntries
     \/ \E d \in Dispatcher :
          /\ disp'[d] # disp[d]
          /\ Cardinality(LivingEntries')
               <= MaxConcurrent + Cardinality(Reclaimed(d)) + Cardinality(StartedByOthers(d))]_vars

\* A job never has two entries that wait for a worker or have one, whoever
\* starts, retries, cancels, reclaims and records at the same time: a second one
\* would run the job twice (queue.ts:241-247, 376-381).
OneEntryInProgress ==
  \A e, f \in In(queue, {"queued", "running"}) : queue[e].job = queue[f].job => e = f

\* A job that awaits approval is not started, not even by a second worker that
\* passed the gate check before the first one asked (execution.ts:95-119, 815-824).
NoRunWhileAwaiting ==
  [][\A w \in Worker : worker[w].pc # "running" /\ worker'[w].pc = "running"
       => job[worker[w].job].status # "awaiting_approval"]_vars

\* A queued job can be started, at whatever step the process that approved it has
\* died: no Human Gate is in the way and no entry awaits approval, which would
\* count as a duplicate and so refuse the start for ever (approval.ts:181-194,
\* queue.ts:241, execution.ts:828-829).
QueuedCanStart ==
  \A j \in Job : job[j].status = "queued" =>
    /\ job[j].gate = "none"
    /\ \A e \in In(queue, {"awaiting_approval"}) : queue[e].job # j

\* The executor a dead worker left is gone before another worker runs the job:
\* two agents never write to one worktree (queue.ts:116-124).
NoStrayBesideWorker ==
  \A w \in Worker : worker[w].pc = "running" => ~job[worker[w].job].stray

(* Three statements that the code does not keep; README, section 12. *)

\* A job has at most one entry that is queued, running or awaiting approval.
OneActiveEntryPerJob ==
  \A e, f \in In(queue, Active) : queue[e].job = queue[f].job => e = f

\* A worker that lives keeps its entry: no dispatch sends the entry back to the
\* queue or gives it to another worker (queue.ts:112-139, 166-174).
LiveWorkerKeepsEntry ==
  [][\A e \in Entry : queue[e].status = "running" /\ Lives(queue[e].pid)
       => /\ queue'[e].status # "queued"
          /\ queue'[e].status = "running" => queue'[e].pid = queue[e].pid]_vars

\* Once no command is under way, a job whose state is cancelled has no done
\* entry that is its newest: state and entry are not torn (queue.ts:313-319).
NoTornCancel ==
  (\A k \in Client : client[k].pc = "idle") =>
    \A e \in In(queue, {"done"}) :
      (\A f \in Entry : queue[f].job = queue[e].job => f <= e) => job[queue[e].job].status # "cancelled"

-----------------------------------------------------------------------------
(* Liveness, under FairSpec *)

Settles(e) == queue[e].status = "queued" ~> queue[e].status \notin {"queued", "running"}

\* A living worker of a running entry is judged stale.
TakenForDead ==
  \E d \in Dispatcher, e \in Entry :
    disp'[d].verdict[e] # disp[d].verdict[e] /\ disp'[d].pc = "recon" /\ Alive(disp[d].queue[e].pid)

\* Unless the queue stays paused or living workers are taken for dead for ever,
\* every queued entry is finished or waits for approval in the end, however often
\* its workers end without a word: the reclaim breaker sees to it (queue.ts:130-137).
EveryEntrySettles ==
  <>[]~paused /\ <>[][~TakenForDead]_vars => \A e \in Entry : Settles(e)

\* The same when at some point workers stop coming up at all, so that none
\* writes a heartbeat any more (queue.ts:83, 131).
BreakerTrips ==
  <>[][\A w \in Worker : ~WorkerAdmitted(w)]_vars => \A e \in Entry : Settles(e)

=============================================================================
