------------------------------- MODULE JobStore -------------------------------
(***************************************************************************)
(* Where a job lives: its directory under .cbx/jobs (context.json, the      *)
(* state.json mirror, worktree.json), its row in SQLite, and its Git        *)
(* worktree beside the repository.  No transaction spans the three.  Users   *)
(* create, start, continue, retry, clean, forget and purge jobs by id; a     *)
(* worker runs them; the orphan sweep removes worktrees without a directory;  *)
(* the first process to open the database imports the jobs of older          *)
(* versions.  Any process may die between two steps.                         *)
(*                                                                           *)
(* Left out: awaiting_approval (to forget, it is a job that is running),     *)
(* cancel (JobQueue), the worktrees of parallel stages (ParallelStages),     *)
(* branches, ids that end in -stage-<n>, a second sweep at the same time.    *)
(***************************************************************************)
EXTENDS Intake, FiniteSets

CONSTANTS
  Job,          \* ids
  User,         \* processes that run commands: CLI, MCP, Web UI, health checks
  Config,       \* .cbx.json
  Runner,       \* whether it names a runner plugin
  Request,      \* the requests users make
  Legacy,       \* jobs that an older version may have left as files
  MaxCreates,   \* bounds: jobs created or left by the older version, new
  MaxRestarts,  \*   starts of an ended job, deaths and failing deletions
  MaxFaults

VARIABLES
  dir,        \* .cbx/jobs/<id>: None or [ctx, mirror (is there), wt]
  row,        \* the status in the jobs table, or None
  scheduled,  \* jobs with a queued or running entry in the queue
  tree,       \* whether the worktree exists
  imported,   \* metadata.legacy_import_v1
  user,       \* the command each process is executing
  worker,     \* the run of each job
  orphans,    \* what the sweep has found and not yet removed
  wanted,     \* history: jobs somebody has begun to forget and that still exist
  overtaken,  \* history: jobs that were forgotten while created, started or scheduled
  creates, restarts, faults
vars == <<dir, row, scheduled, tree, imported, user, worker, orphans, wanted, overtaken,
          creates, restarts, faults>>

Status == {"queued", "running", "ended"}  \* ended: done, failed, needs_fix, ...

Contexts == {Context(r, Config) : r \in {r \in Request : Accepted(r, Config, Runner)}}
Files == [ctx: Contexts \cup {None}, mirror: BOOLEAN, wt: BOOLEAN]

ASSUME StatusAssumption == None \notin Status
ASSUME FilesAssumption == None \notin Files

Closed == [pc |-> "closed"]
Idle == [pc |-> "idle"]
NoFiles == [ctx |-> None, mirror |-> FALSE, wt |-> FALSE]
NoRun == [pc |-> "idle"]

TypeOK ==
  /\ dir \in [Job -> Files \cup {None}]
  /\ row \in [Job -> Status \cup {None}] /\ scheduled \subseteq Job
  /\ tree \in [Job -> BOOLEAN] /\ imported \in BOOLEAN
  /\ orphans \subseteq Job /\ wanted \subseteq Job /\ overtaken \subseteq Job

Init ==
  /\ \E old \in SUBSET Legacy, ctx \in Contexts :
       /\ dir = [j \in Job |-> IF j \in old THEN [ctx |-> ctx, mirror |-> TRUE, wt |-> FALSE]
                               ELSE None]
       /\ creates = Cardinality(old)
  /\ row = [j \in Job |-> None] /\ scheduled = {}
  /\ tree = [j \in Job |-> FALSE] /\ imported = FALSE
  /\ user = [u \in User |-> Closed] /\ worker = [j \in Job |-> NoRun]
  /\ orphans = {} /\ wanted = {} /\ overtaken = {}
  /\ restarts = 0 /\ faults = 0

-----------------------------------------------------------------------------
\* The steps of a command after which the job's directory or row is written.
Creating == {"mkdir", "context", "row", "mirror"}
Starting == {"lock", "load", "enqueue"}
Forgetting == {"remove", "erase"}
At(u, pcs, j) == user[u].pc \in pcs /\ user[u].job = j

Goes(u, next) == user' = [user EXCEPT ![u] = next]

(* saveJson and withFileLock make the directory when it is not there         *)
(* (file-utils.ts, lock.ts).                                                 *)
FilesOf(j) == IF dir[j] = None THEN NoFiles ELSE dir[j]
Put(j, files) == dir' = [dir EXCEPT ![j] = files]

\* cleanupRecordedWorktree: the worktree the directory records.
CleansTree(j) == tree' = [tree EXCEPT ![j] = @ /\ ~FilesOf(j).wt]

\* Somebody is deleting the job that is created or started.
Overtakes(j) ==
  overtaken' = IF \E u \in User : At(u, Forgetting, j) THEN overtaken \cup {j} ELSE overtaken

-----------------------------------------------------------------------------
(* The first command of a process opens the database; the first process of   *)
(* all imports what older versions kept in files (storage.ts                 *)
(* importLegacyData).  The files are read before the transaction.            *)

OpenDatabase(u) ==
  /\ user[u] = Closed
  /\ \/ imported /\ Goes(u, Idle)
     \/ /\ ~imported
        /\ Goes(u, [pc |-> "import",
                    found |-> {j \in Job : FilesOf(j).mirror}])
  /\ UNCHANGED <<dir, row, scheduled, tree, imported, worker, orphans, wanted, overtaken,
                 creates, restarts, faults>>

\* The mark is inserted in the same transaction: a second import fails as a whole.
\* Mutant: it is replaced.
MarkReplaced == TRUE
Unmarked == ~imported

Import(u) ==
  /\ user[u].pc = "import"
  /\ IF Unmarked
     THEN /\ row' = [j \in Job |-> IF row[j] = None /\ j \in user[u].found
                                   THEN "ended" ELSE row[j]]
          /\ imported' = TRUE /\ Goes(u, Idle)
     ELSE Goes(u, Closed) /\ UNCHANGED <<row, imported>>
  /\ UNCHANGED <<dir, scheduled, tree, worker, orphans, wanted, overtaken, creates, restarts, faults>>

-----------------------------------------------------------------------------
(* createJob: the checks, then the directory, context.json, the row and the  *)
(* mirror, one after the other.                                              *)

Create(u, j, request) ==
  /\ user[u] = Idle /\ creates < MaxCreates
  /\ Accepted(request, Config, Runner)
  /\ dir[j] = None /\ row[j] = None
  /\ Goes(u, [pc |-> "mkdir", job |-> j, ctx |-> Context(request, Config)])
  /\ creates' = creates + 1
  /\ UNCHANGED <<dir, row, scheduled, tree, imported, worker, orphans, wanted, overtaken, restarts, faults>>

CreateStep(u) ==
  LET j == user[u].job
      To(pc) == Goes(u, [user[u] EXCEPT !.pc = pc])
  IN /\ \/ /\ user[u].pc = "mkdir" /\ To("context")
           /\ Put(j, FilesOf(j)) /\ UNCHANGED row
        \/ /\ user[u].pc = "context" /\ To("row")
           /\ Put(j, [FilesOf(j) EXCEPT !.ctx = user[u].ctx]) /\ UNCHANGED row
        \/ /\ user[u].pc = "row" /\ To("mirror")
           /\ row' = [row EXCEPT ![j] = "queued"] /\ UNCHANGED dir
        \/ /\ user[u].pc = "mirror" /\ Goes(u, [pc |-> "lock", job |-> j, retry |-> FALSE])
           /\ Put(j, [FilesOf(j) EXCEPT !.mirror = TRUE]) /\ UNCHANGED row
     /\ Overtakes(j)
     /\ UNCHANGED <<scheduled, tree, imported, worker, orphans, wanted, creates, restarts, faults>>

-----------------------------------------------------------------------------
(* startBackground, which follows a creation and which start --job-id and    *)
(* continue are: it takes gate.lock in the job's directory before it loads    *)
(* the state.  Only retry writes the state with the queue entry: after a      *)
(* continue, the row keeps its terminal status until the worker writes it.    *)

Start(u, j) ==
  /\ user[u] = Idle /\ restarts < MaxRestarts
  /\ \/ Goes(u, [pc |-> "lock", job |-> j, retry |-> FALSE])
     \/ row[j] = "ended" /\ Goes(u, [pc |-> "load", job |-> j, retry |-> TRUE])
  /\ restarts' = restarts + 1
  /\ UNCHANGED <<dir, row, scheduled, tree, imported, worker, orphans, wanted, overtaken,
                 creates, faults>>

StartStep(u) ==
  LET j == user[u].job
      To(pc) == Goes(u, [user[u] EXCEPT !.pc = pc])
  IN /\ \/ /\ user[u].pc = "lock" /\ To("load")
           /\ Put(j, FilesOf(j)) /\ UNCHANGED <<row, scheduled>>
        \/ /\ user[u].pc = "load"
           /\ IF row[j] = None THEN Goes(u, Idle) ELSE To("enqueue")
           /\ UNCHANGED <<dir, row, scheduled>>
        \/ /\ user[u].pc = "enqueue" /\ Goes(u, Idle)
           /\ scheduled' = scheduled \cup {j}
           /\ row' = IF user[u].retry THEN [row EXCEPT ![j] = "queued"] ELSE row
           /\ UNCHANGED dir
     /\ Overtakes(j)
     /\ UNCHANGED <<tree, imported, worker, orphans, wanted, creates, restarts, faults>>

-----------------------------------------------------------------------------
(* forget and purge: the status is checked, the directory deleted, then row  *)
(* and queue entries in one transaction; purge then cleans what the          *)
(* directory records.  pruneExpiredJobs does the same for a job that was     *)
(* expired when it was listed.                                               *)

\* Mutant: the state is read from the mirror.
MirrorEnded(j) == row[j] = "ended" /\ FilesOf(j).mirror
Forgettable(j) == row[j] = "ended"

BeginForget(u, j, purge) ==
  /\ user[u] = Idle /\ Forgettable(j)
  /\ Goes(u, [pc |-> "remove", job |-> j, purge |-> purge])
  /\ wanted' = wanted \cup {j}
  /\ overtaken' = IF j \in scheduled THEN overtaken \cup {j} ELSE overtaken
  /\ UNCHANGED <<dir, row, scheduled, tree, imported, worker, orphans, creates, restarts, faults>>

RemoveDirectory(u) ==
  /\ user[u].pc = "remove"
  /\ Put(user[u].job, None)
  /\ Goes(u, [user[u] EXCEPT !.pc = "erase"])
  /\ UNCHANGED <<row, scheduled, tree, imported, worker, orphans, wanted, overtaken,
                 creates, restarts, faults>>

RemoveFails(u) ==
  /\ user[u].pc = "remove" /\ faults < MaxFaults
  /\ faults' = faults + 1 /\ Goes(u, Idle)
  /\ UNCHANGED <<dir, row, scheduled, tree, imported, worker, orphans, wanted, overtaken, creates, restarts>>

Erase(u) ==
  LET j == user[u].job
  IN /\ user[u].pc = "erase"
     /\ row' = [row EXCEPT ![j] = None] /\ scheduled' = scheduled \ {j}
     /\ wanted' = wanted \ {j}
     /\ Goes(u, IF user[u].purge THEN [user[u] EXCEPT !.pc = "tree"] ELSE Idle)
     /\ UNCHANGED <<dir, tree, imported, worker, orphans, overtaken, creates, restarts, faults>>

PurgeTree(u) ==
  /\ user[u].pc = "tree"
  /\ CleansTree(user[u].job) /\ Goes(u, Idle)
  /\ UNCHANGED <<dir, row, scheduled, imported, worker, orphans, wanted, overtaken,
                 creates, restarts, faults>>

\* cbx clean: whatever the job is doing.
Clean(u, j) ==
  /\ user[u] = Idle
  /\ CleansTree(j)
  /\ UNCHANGED <<dir, row, scheduled, imported, user, worker, orphans, wanted, overtaken,
                 creates, restarts, faults>>

Dies(u) ==
  /\ user[u].pc \notin {"closed", "idle"} /\ faults < MaxFaults
  /\ faults' = faults + 1 /\ Goes(u, Closed)
  /\ UNCHANGED <<dir, row, scheduled, tree, imported, worker, orphans, wanted, overtaken, creates, restarts>>

-----------------------------------------------------------------------------
(* The worker of a job (execution.ts), as far as it writes the three.        *)

Runs(j, run) == worker' = [worker EXCEPT ![j] = run]

Begin(j) ==
  /\ worker[j] = NoRun /\ j \in scheduled
  /\ row[j] # None /\ FilesOf(j).ctx # None
  /\ Runs(j, [pc |-> "prepare", isolated |-> FilesOf(j).ctx.isolated])
  /\ UNCHANGED <<dir, row, scheduled, tree, imported, user, orphans, wanted, overtaken,
                 creates, restarts, faults>>

\* Its run.lock makes the directory again; then it throws, until the queue
\* gives the entry up.
BeginFails(j) ==
  /\ worker[j] = NoRun /\ j \in scheduled
  /\ row[j] = None \/ FilesOf(j).ctx = None
  /\ Put(j, FilesOf(j)) /\ scheduled' = scheduled \ {j}
  /\ UNCHANGED <<row, tree, imported, user, worker, orphans, wanted, overtaken,
                 creates, restarts, faults>>

\* git worktree add fails when the worktree exists.  Mutant: --force.
AddByForce(j) == TRUE
CanAdd(j) == ~tree[j]

\* prepareWorktree, unless the worktree of an earlier run is recorded and there.
Prepare(j) ==
  LET reuses == ~worker[j].isolated \/ (FilesOf(j).wt /\ tree[j])
  IN /\ worker[j].pc = "prepare"
     /\ \/ /\ reuses
           /\ Runs(j, [worker[j] EXCEPT !.pc = "start"]) /\ UNCHANGED <<tree, scheduled>>
        \/ /\ ~reuses /\ CanAdd(j)
           /\ tree' = [tree EXCEPT ![j] = TRUE]
           /\ Runs(j, [worker[j] EXCEPT !.pc = "record"]) /\ UNCHANGED scheduled
        \/ /\ ~reuses /\ ~CanAdd(j)
           /\ Runs(j, NoRun) /\ scheduled' = scheduled \ {j} /\ UNCHANGED tree
     /\ UNCHANGED <<dir, row, imported, user, orphans, wanted, overtaken,
                    creates, restarts, faults>>

Record(j) ==
  /\ worker[j].pc = "record"
  /\ Put(j, [FilesOf(j) EXCEPT !.wt = TRUE])
  /\ Runs(j, [worker[j] EXCEPT !.pc = "start"])
  /\ UNCHANGED <<row, scheduled, tree, imported, user, orphans, wanted, overtaken,
                 creates, restarts, faults>>

(* writeState loads the row, puts back what it has loaded with its changes,  *)
(* and then writes the mirror: three steps.  It throws when the row is gone.  *)
Loads(j, status, closes, next) ==
  Runs(j, IF row[j] = None THEN NoRun
          ELSE [pc |-> "store", isolated |-> worker[j].isolated, status |-> status,
                closes |-> closes, next |-> next])

\* A worktree is kept when keepWorktree says so or when the run has only paused.
Load(j) ==
  /\ \/ worker[j].pc = "start" /\ Loads(j, "running", FALSE, "work") /\ UNCHANGED tree
     \/ /\ worker[j].pc = "work" /\ UNCHANGED tree
        /\ \E next \in {"tidy", "end"} : Loads(j, "ended", TRUE, next)
     \/ worker[j].pc = "tidy" /\ CleansTree(j) /\ Loads(j, row[j], FALSE, "end")
  /\ UNCHANGED <<dir, row, scheduled, imported, user, orphans, wanted, overtaken,
                 creates, restarts, faults>>

Store(j) ==
  /\ worker[j].pc = "store"
  /\ row' = [row EXCEPT ![j] = worker[j].status]
  /\ scheduled' = IF worker[j].closes THEN scheduled \ {j} ELSE scheduled
  /\ Runs(j, [worker[j] EXCEPT !.pc = "mirror"])
  /\ UNCHANGED <<dir, tree, imported, user, orphans, wanted, overtaken, creates, restarts, faults>>

WriteMirror(j) ==
  /\ worker[j].pc = "mirror"
  /\ Put(j, [FilesOf(j) EXCEPT !.mirror = TRUE])
  /\ Runs(j, IF worker[j].next = "end" THEN NoRun
             ELSE [pc |-> worker[j].next, isolated |-> worker[j].isolated])
  /\ UNCHANGED <<row, scheduled, tree, imported, user, orphans, wanted, overtaken,
                 creates, restarts, faults>>

\* The queue starts the job again when its entry is still open.
WorkerDies(j) ==
  /\ worker[j] # NoRun /\ faults < MaxFaults
  /\ faults' = faults + 1 /\ Runs(j, NoRun)
  /\ UNCHANGED <<dir, row, scheduled, tree, imported, user, orphans, wanted, overtaken,
                 creates, restarts>>

-----------------------------------------------------------------------------
(* cbx clean --orphans: scan, then remove (worktree.ts).                     *)

IsOrphan(j) == tree[j] /\ dir[j] = None

Scan ==
  /\ orphans = {}
  /\ orphans' = {j \in Job : IsOrphan(j)} /\ orphans' # {}
  /\ UNCHANGED <<dir, row, scheduled, tree, imported, user, worker, wanted, overtaken,
                 creates, restarts, faults>>

RemoveOrphan(j) ==
  /\ j \in orphans
  /\ tree' = [tree EXCEPT ![j] = FALSE] /\ orphans' = orphans \ {j}
  /\ UNCHANGED <<dir, row, scheduled, imported, user, worker, wanted, overtaken, creates, restarts, faults>>

-----------------------------------------------------------------------------
UserStep(u) ==
  OpenDatabase(u) \/ Import(u) \/ CreateStep(u) \/ StartStep(u)
  \/ RemoveDirectory(u) \/ Erase(u) \/ PurgeTree(u)

WorkerStep(j) ==
  Begin(j) \/ BeginFails(j) \/ Prepare(j) \/ Record(j) \/ Load(j) \/ Store(j) \/ WriteMirror(j)

Command(u) ==
  \E j \in Job :
    \/ \E request \in Request : Create(u, j, request)
    \/ Start(u, j) \/ Clean(u, j)
    \/ \E purge \in BOOLEAN : BeginForget(u, j, purge)

Next ==
  \/ \E u \in User : UserStep(u) \/ Command(u) \/ RemoveFails(u) \/ Dies(u)
  \/ \E j \in Job : WorkerStep(j) \/ WorkerDies(j) \/ RemoveOrphan(j)
  \/ Scan

Spec == Init /\ [][Next]_vars

(* Processes go on, the queue runs what is scheduled, and who wants a job    *)
(* forgotten tries again when an attempt has failed.                         *)
Fairness ==
  /\ \A u \in User : WF_vars(UserStep(u))
  /\ \A j \in Job :
       /\ WF_vars(WorkerStep(j))
       /\ WF_vars(j \in wanted /\ \E u \in User, purge \in BOOLEAN : BeginForget(u, j, purge))
FairSpec == Spec /\ Fairness

-----------------------------------------------------------------------------
(* Every context that is on disk, of whatever entry point, configuration and *)
(* overrides, has what its profile promises (README.md, profiles).           *)
ProfileKept == \A j \in Job : FilesOf(j).ctx # None => Governed(dir[j].ctx)

\* The worktree has been prepared and the run's end is not being written.
InUse(j) ==
  \/ FilesOf(j).wt
  \/ /\ dir[j] # None /\ worker[j] # NoRun /\ worker[j].isolated
     /\ \/ worker[j].pc \in {"record", "start", "work"}
        \/ worker[j].pc \in {"store", "mirror"} /\ worker[j].next = "work"

(* The orphan sweep never removes a worktree that a job works in or that its *)
(* directory records, although it looks first and removes later and the id   *)
(* may have been created again in between.  A job that was started while it  *)
(* was being forgotten is excepted: its directory disappears under it.       *)
SweepSparesJobs ==
  [][\A j \in orphans \ orphans' : tree[j] /\ ~tree'[j] => ~InUse(j) \/ j \in overtaken]_vars

(* A job whose row is gone stays gone: only creating it, the one import of   *)
(* old files, and the write of a retry or a worker that had loaded the row   *)
(* before bring a row back.                                                  *)
ForgottenStays ==
  [][\A j \in Job : row[j] = None /\ row'[j] # None =>
       \/ \E u \in User : At(u, {"row", "enqueue"}, j) /\ user'[u] # user[u]
       \/ imported # imported'
       \/ worker[j].pc = "store" /\ worker'[j] # worker[j]]_vars

(* Nobody is in the middle of something else with the job.                   *)
Quiet(j) ==
  /\ row[j] = "ended" /\ j \notin scheduled /\ worker[j] = NoRun /\ j \notin overtaken
  /\ \A u \in User : ~At(u, Creating \cup Starting \cup {"erase"}, j)

(* A job that somebody has begun to forget is gone in the end, directory and *)
(* row, although deleting the directory may fail and the process may die     *)
(* anywhere: what an attempt leaves behind can be forgotten again.  Unless   *)
(* the job is started again meanwhile.                                       *)
Forgotten ==
  \A j \in Job : (j \in wanted /\ Quiet(j)) ~>
                   \/ dir[j] = None /\ row[j] = None
                   \/ j \in scheduled \cup overtaken

(* A purge that has returned has removed the worktree.  (The code does not.)  *)
PurgeRemovesTree ==
  [][\A u \in User : user[u].pc = "tree" /\ user'[u] = Idle =>
       ~tree'[user[u].job]]_vars
=============================================================================
