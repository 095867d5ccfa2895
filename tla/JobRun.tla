--------------------------------- MODULE JobRun ---------------------------------
(***************************************************************************)
(* What one job goes through between its creation and its end: the runs of *)
(* executeJob, their stages with attempts, tests and reviews, the adaptive *)
(* rounds, the completion gates, and the commands of users between runs.   *)
(*                                                                         *)
(* JobQueue decides when a run starts and that at most one does at a time; *)
(* here entry is the job's queue entry, a run is one process, and a run    *)
(* that dies is started again as long as its entry is open.                *)
(*                                                                         *)
(* The files of the worktree are abstract: the model keeps whether the     *)
(* tree, as it is now, is the one the last passing test and the last       *)
(* passing review have seen, and whether complete.patch describes it.      *)
(***************************************************************************)
EXTENDS Integers

CONSTANTS
  Stages,            \* the number of stages of a serial job
  ExecutionRetries,  \* context.executionRetries
  FixRetries,        \* context.fixRetries
  MaxRounds,         \* context.adaptive.maxRounds of a new job
  RoundLimit,        \* 100: what extendRoundLimit allows in total
  Context,           \* the job contexts a job may be created with
  MaxCommands,       \* bounds the commands of users, besides an approval before the run
  MaxFaults          \* bounds the crashes and the edits by others

Stage == 1 .. Stages

\* stageIndex: of an adaptive job, the number of stages that ran before.
Index == 1 .. Stages + RoundLimit

ContextType ==
  [adaptive : BOOLEAN, contract : BOOLEAN, review : BOOLEAN, skip : SUBSET Stage,
   beforeRun : BOOLEAN, beforeComplete : BOOLEAN, isolated : BOOLEAN, keep : BOOLEAN,
   commit : BOOLEAN, guard : BOOLEAN]

ASSUME RunAssumption ==
  /\ Stages \in Nat \ {0}
  /\ {ExecutionRetries, FixRetries, MaxCommands, MaxFaults} \subseteq Nat
  /\ MaxRounds \in Nat /\ RoundLimit \in Nat /\ MaxRounds <= RoundLimit
  /\ Context \subseteq ContextType

VARIABLES
  ctx,     \* context.json
  st,      \* the job state
  entry,   \* the status of the job's queue entry
  tree,    \* the worktree (the workspace itself for a job that is not isolated)
  files,   \* the artifacts of the job directory
  marker,  \* cancel.requested
  run,     \* the process that executes the job, and its local variables
  result,  \* result.json
  left,    \* how many commands and faults may still happen
  late     \* agents started since the marker was written

vars == <<ctx, st, entry, tree, files, marker, run, result, left, late>>

-----------------------------------------------------------------------------
(* Types *)

Status   == {"queued", "running", "awaiting_approval", "needs_fix",
             "review_failed", "failed", "done", "cancelled"}
Terminal == {"done", "failed", "needs_fix", "review_failed"}
Phase    == {"other", "before_run", "before_complete", "verification_gate",
             "awaiting_clarification", "adaptive_ask", "adaptive_blocked",
             "adaptive_max_rounds", "adaptive_manager_safety"}
\* The reason of a waiting Human Gate.
Gate     == {"none", "before_run", "needs_input", "semantic_conflict",
             "repeated_failure", "max_rounds", "completion"}
\* What an error message is about: trackFailure compares messages.
Error    == {"none", "baseline", "handshake", "manager", "decision", "executor", "guard",
             "test", "reviewer", "audit", "review", "verification", "stale", "commit",
             "other"}

\* complete: the audit is complete, clean and aligned, every criterion verified by
\* files that still have the content it has seen.  cites: those files include
\* complete.patch.
Audit   == [complete : BOOLEAN, cites : BOOLEAN]
NoAudit == [complete |-> FALSE, cites |-> FALSE]

\* state.stages: how many reports there are and, of the last one, whether its
\* testExitCode is 0 or null (a null is read as 0) and its reviewVerdict.
Verdict  == {"PASS", "FAIL", "none"}
\* What review.md says, if it exists; FAIL stands for no verdict, too.
Review   == {"none", "PASS", "FAIL", "SEMANTIC"}
Report   == [n : Nat, testOk : BOOLEAN, verdict : Verdict]
NoReport == [n |-> 0, testOk |-> TRUE, verdict |-> "none"]

StateType ==
  [status : Status, phase : Phase, gate : Gate, approved : BOOLEAN, round : Nat,
   maxRounds : Nat, streak : Nat, last : Report, testOk : BOOLEAN,
   verdict : Verdict, audit : Audit, execution : [Index -> Nat], fix : [Index -> Nat],
   key : Error, count : Nat]

Working == {"handshake", "round", "manager", "attempt", "execute", "test", "review"}

RunType ==
  [pc : {"idle", "locked", "finish", "tidy", "report", "again"} \cup Working,
   stage : Index, skip : BOOLEAN, cached : BOOLEAN, streak : Nat, last : Report,
   status : Status, phase : Phase, gate : Gate, error : Error, then : {"end", "report", "again"},
   testOk : BOOLEAN, verdict : Verdict]

Idle == [pc |-> "idle", stage |-> 1, skip |-> FALSE, cached |-> FALSE, streak |-> 0,
         last |-> NoReport, status |-> "queued", phase |-> "other", gate |-> "none",
         error |-> "none", then |-> "end", testOk |-> FALSE, verdict |-> "none"]

TypeOK ==
  /\ ctx \in Context
  /\ st \in StateType
  /\ entry \in {"none", "open", "awaiting_approval", "done", "failed", "cancelled"}
  /\ tree \in [made : BOOLEAN, drift : {"none", "dirty", "commit"}, tested : BOOLEAN,
               reviewed : BOOLEAN, snapshot : BOOLEAN]
  /\ files \in [patch : {"none", "fresh", "stale"}, test : BOOLEAN, review : Review,
                understanding : BOOLEAN]
  /\ marker \in BOOLEAN
  /\ run \in RunType
  /\ result \in [status : Status, verified : BOOLEAN]
  /\ left \in [commands : Nat, faults : Nat]
  /\ late \in Nat

-----------------------------------------------------------------------------
(* Operators *)

\* structuredAuditRequested
Structured == /\ ctx.contract /\ ctx.review
              /\ ctx.adaptive \/ ctx.skip = {}

\* A file of the worktree changes.  snapshot: the tree is the one whose hash
\* pendingCompletion holds.
Edited(t) == [t EXCEPT !.tested = FALSE, !.reviewed = FALSE, !.snapshot = FALSE,
                       !.drift = IF ctx.isolated THEN @ ELSE "dirty"]
Edit      == /\ tree' = Edited(tree)
             /\ files' = [files EXCEPT !.patch = IF @ = "fresh" THEN "stale" ELSE @]

\* collectDiff: complete.patch is rewritten, and evidence that cites its old
\* content is no longer valid.
Collected(f)   == [f EXCEPT !.patch = "fresh"]
AfterDiff(a, f) == IF f.patch = "stale" /\ a.cites THEN NoAudit ELSE a

\* auditAllowsCompletion of the audit and of what reconcileVerifiedProgress
\* makes of it: complete, clean, aligned, every criterion verified by evidence
\* that has not changed, and the three required artifacts present.
AuditAllows(a) == a.complete /\ files.patch # "none" /\ files.test /\ files.review # "none"

\* completionEvidenceValid
EvidenceValid(testOk, verdict, a) ==
  /\ testOk
  /\ ctx.review => verdict = "PASS" \/ (~Structured /\ verdict = "none")
  /\ files.patch # "none" /\ files.test /\ (ctx.review => files.review # "none")
  /\ Structured => AuditAllows(a)

\* The errors of these phases are not counted as repeated failures.
Uncounted(phase) == phase \in {"awaiting_clarification", "adaptive_ask", "adaptive_blocked",
                               "adaptive_max_rounds", "adaptive_manager_safety"}

\* trackFailure
Tracked(s, error) ==
  IF s.key = error THEN [s EXCEPT !.count = @ + 1] ELSE [s EXCEPT !.key = error, !.count = 1]

\* evidenceAvailable of writeResult
Verified(s) ==
  /\ s.status = "done" /\ s.testOk
  /\ ctx.review => s.verdict = "PASS" \/ (~Structured /\ s.verdict = "none")
  /\ files.patch # "none" /\ files.test /\ (ctx.review => files.review # "none")

\* writeResult
Written(s) == [status |-> s.status, verified |-> Verified(s)]

\* Mutant: the entry gets the status of the job.
StatusAsIs(status) == status

\* mapStateToQueueStatus
EntryStatus(status) == CASE status \in {"done", "cancelled", "awaiting_approval"} -> status
                         [] OTHER -> "failed"

\* cleanupWorktree: only the worktree of an isolated job is removed.
Cleaned(t) == IF ctx.isolated
              THEN [t EXCEPT !.made = FALSE, !.tested = FALSE, !.reviewed = FALSE, !.snapshot = FALSE]
              ELSE t

-----------------------------------------------------------------------------
Init ==
  /\ ctx \in Context
  /\ st = [status |-> "queued", phase |-> "other", gate |-> "none", approved |-> FALSE,
           round |-> 0, maxRounds |-> MaxRounds, streak |-> 0, last |-> NoReport,
           testOk |-> FALSE, verdict |-> "none", audit |-> NoAudit,
           execution |-> [s \in Index |-> 0], fix |-> [s \in Index |-> 0],
           key |-> "none", count |-> 0]
  /\ entry = "open"
  /\ tree = [made |-> ~ctx.isolated, drift |-> "none", tested |-> FALSE, reviewed |-> FALSE,
             snapshot |-> FALSE]
  /\ files = [patch |-> "none", test |-> FALSE, review |-> "none", understanding |-> FALSE]
  /\ marker = FALSE
  /\ run = Idle
  /\ result = [status |-> "queued", verified |-> FALSE]
  /\ left = [commands |-> IF ctx.beforeRun THEN MaxCommands + 1 ELSE MaxCommands,
            faults |-> MaxFaults]
  /\ late = 0

-----------------------------------------------------------------------------
(* A run: executeJob up to the first stage or round *)

\* The run ends without another write.
Ends == run' = Idle

\* finalizeState with the queue entry: state, entry and result.json.
Finalizes(s, status) ==
  LET t == [s EXCEPT !.status = status, !.phase = "other"]
  IN  /\ st' = t /\ entry' = EntryStatus(status) /\ result' = Written(t)
      /\ Ends

\* A gate that only approve resolves, or rounds that only the user can grant:
\* prepareContinuation blocks the run, which leaves state and entry as they are.
\* The queue fails the entry when it has started the job often enough (JobQueue).
Blocked ==
  /\ run.pc = "idle" /\ entry = "open"
  /\ st.gate \in {"before_run", "completion", "max_rounds"}
  /\ entry' = "failed"
  /\ UNCHANGED <<ctx, st, tree, files, marker, run, result, left, late>>

\* Mutant: the gate stays.
ResolvedBudgets(s) == [s EXCEPT !.key = "none", !.count = 0,
                                !.execution = [x \in Index |-> 0], !.fix = [x \in Index |-> 0]]

\* prepareContinuation resolves any other gate and gives the budgets back.
Resolved(s) == [s EXCEPT !.gate = "none", !.key = "none", !.count = 0,
                         !.execution = [x \in Index |-> 0], !.fix = [x \in Index |-> 0]]

\* Mutant: a restart gives the budgets back.
StartsAnew ==
  /\ run.pc = "idle" /\ entry = "open"
  /\ st.gate \notin {"before_run", "completion", "max_rounds"}
  /\ st' = Resolved(st)
  /\ run' = [Idle EXCEPT !.pc = "locked"]
  /\ UNCHANGED <<ctx, entry, tree, files, marker, result, left, late>>

Starts ==
  /\ run.pc = "idle" /\ entry = "open"
  /\ st.gate \notin {"before_run", "completion", "max_rounds"}
  /\ st' = IF st.gate = "none" THEN st ELSE Resolved(st)
  /\ run' = [Idle EXCEPT !.pc = "locked"]
  /\ UNCHANGED <<ctx, entry, tree, files, marker, result, left, late>>

\* The marker of a job that is already cancelled: nothing runs.
Skips ==
  /\ run.pc = "locked" /\ marker /\ st.status = "cancelled"
  /\ Finalizes(st, "cancelled")
  /\ UNCHANGED <<ctx, tree, files, marker, left, late>>

AsksApproval ==
  /\ run.pc = "locked" /\ ~(marker /\ st.status = "cancelled")
  /\ ctx.beforeRun /\ ~st.approved
  /\ st' = [st EXCEPT !.status = "awaiting_approval", !.phase = "before_run",
                      !.gate = "before_run"]
  /\ entry' = "awaiting_approval"
  /\ Ends
  /\ UNCHANGED <<ctx, tree, files, marker, result, left, late>>

\* The workspace has changed since the job was created.
Drifts ==
  /\ run.pc = "locked" /\ ~(marker /\ st.status = "cancelled")
  /\ ctx.beforeRun => st.approved
  /\ ~ctx.isolated /\ tree.drift # "none"
  /\ Finalizes(st, "needs_fix")
  /\ UNCHANGED <<ctx, tree, files, marker, left, late>>

\* prepareWorktree, and on to the handshake, the rounds or the stages.
Prepares ==
  /\ run.pc = "locked" /\ ~(marker /\ st.status = "cancelled")
  /\ ctx.beforeRun => st.approved
  /\ ctx.isolated \/ tree.drift = "none"
  /\ tree' = IF tree.made THEN tree
             ELSE [tree EXCEPT !.made = TRUE, !.tested = FALSE, !.reviewed = FALSE]
  /\ files' = [files EXCEPT !.patch = IF ~tree.made /\ @ = "fresh" THEN "stale" ELSE @]
  /\ run' = [run EXCEPT
       !.pc = IF ctx.contract /\ ~files.understanding THEN "handshake"
              ELSE IF ctx.adaptive THEN "round" ELSE "attempt",
       !.skip = 1 \in ctx.skip,
       !.streak = st.streak,
       !.last = IF ctx.adaptive THEN st.last ELSE NoReport]
  /\ UNCHANGED <<ctx, st, entry, marker, result, left, late>>

\* An agent is started.
Invoked == late' = IF marker THEN late + 1 ELSE late

\* finish(updates) is called; then says what its caller does when it returns.
Finish(r, status, phase, gate, error, then) ==
  [r EXCEPT !.pc = "finish", !.status = status, !.phase = phase, !.gate = gate,
            !.error = error, !.then = then]

\* performContextHandshake
Handshake ==
  /\ run.pc = "handshake"
  /\ Invoked
  /\ \/ /\ files' = [files EXCEPT !.understanding = TRUE]
        /\ run' = [run EXCEPT !.pc = IF ctx.adaptive THEN "round" ELSE "attempt"]
        /\ UNCHANGED tree
     \/ /\ run' = Finish(run, "needs_fix", "other", "none", "handshake", "end")
        /\ Edit \/ UNCHANGED <<tree, files>>
     \/ /\ files' = [files EXCEPT !.understanding = TRUE]
        /\ run' = Finish(run, "needs_fix", "awaiting_clarification", "needs_input", "other", "end")
        /\ UNCHANGED tree
  /\ UNCHANGED <<ctx, st, entry, marker, result, left>>

\* finishCancelled
Cancelled ==
  /\ Finalizes(st, "cancelled")
  /\ tree' = Cleaned(tree)
  /\ files' = [files EXCEPT !.patch = IF ctx.isolated /\ @ = "fresh" THEN "stale" ELSE @]
  /\ UNCHANGED <<ctx, marker, left, late>>

-----------------------------------------------------------------------------
(* Adaptive rounds *)

SkipLimit == 2  \* MANAGER_SKIP_LIMIT

Round ==
  /\ run.pc = "round" /\ st.round < st.maxRounds /\ ~marker
  /\ st' = [st EXCEPT !.status = "running", !.phase = "other", !.round = @ + 1]
  /\ run' = [run EXCEPT !.pc = "manager", !.cached = run.streak \in 1 .. SkipLimit]
  /\ UNCHANGED <<ctx, entry, tree, files, marker, result, left, late>>

RoundCancelled ==
  /\ run.pc = "round" /\ st.round < st.maxRounds /\ marker
  /\ Cancelled

RoundsExhausted ==
  /\ run.pc = "round" /\ st.round >= st.maxRounds
  /\ run' = Finish(run, "needs_fix", "adaptive_max_rounds", "max_rounds", "other", "end")
  /\ UNCHANGED <<ctx, st, entry, tree, files, marker, result, left, late>>

\* requestAdaptiveAction throws.
ManagerFails ==
  /\ run.pc = "manager" /\ ~run.cached
  /\ Invoked
  /\ \/ /\ run' = Finish(run, "failed", "adaptive_manager_safety", "none", "other", "end")
        /\ tree' = Edited(tree)
        /\ st' = [st EXCEPT !.audit = AfterDiff(@, [patch |-> "stale"])]
        /\ files' = Collected(files)
     \/ /\ \/ run' = Finish(run, "failed", "other", "none", "manager", "end")
           \/ run' = Finish(run, "needs_fix", "other", "none", "decision", "end")
        /\ UNCHANGED <<st, tree, files>>
  /\ UNCHANGED <<ctx, entry, marker, result, left>>

\* The manager decides, and the marker is looked at again.
Decides(action) ==
  /\ run.pc = "manager" /\ ~marker
  /\ run.cached => action = "done"
  /\ IF run.cached THEN UNCHANGED late ELSE Invoked

ManagerAsks ==
  /\ Decides("ask")
  /\ \E phase \in {"adaptive_ask", "adaptive_blocked"} :
       run' = Finish([run EXCEPT !.streak = 0], "needs_fix", phase, "needs_input", "other", "end")
  /\ UNCHANGED <<ctx, st, entry, tree, files, marker, result, left>>

\* done: the last report stands for the whole job.
ManagerDone ==
  /\ Decides("done")
  /\ run' = Finish([run EXCEPT !.testOk = run.last.testOk, !.verdict = run.last.verdict],
                   "done", "other", "none", "none", "again")
  /\ UNCHANGED <<ctx, st, entry, tree, files, marker, result, left>>

\* execute: one more stage.
ManagerExecutes ==
  /\ Decides("execute")
  /\ \E skip \in BOOLEAN :
       run' = [run EXCEPT !.pc = "attempt", !.streak = 0, !.stage = run.last.n + 1, !.skip = skip]
  /\ UNCHANGED <<ctx, st, entry, tree, files, marker, result, left>>

ManagerCancelled ==
  /\ run.pc = "manager" /\ marker
  /\ Finalizes(st, "cancelled")
  /\ tree' = Cleaned(tree)
  /\ files' = [files EXCEPT !.patch = IF ctx.isolated /\ @ = "fresh" THEN "stale" ELSE @]
  /\ IF run.cached THEN UNCHANGED late ELSE Invoked
  /\ UNCHANGED <<ctx, marker, left>>

\* Mutant: the loop does not look at what finish has recorded.
AgainAnyway ==
  /\ run.pc = "again"
  /\ IF run.last.n > 0
     THEN /\ run' = [run EXCEPT !.pc = "round", !.streak = @ + 1]
          /\ st' = [st EXCEPT !.streak = run.streak + 1]
     ELSE Ends /\ UNCHANGED st
  /\ UNCHANGED <<ctx, entry, tree, files, marker, result, left, late>>

\* What the loop does with the state finish has recorded: only a failed
\* verification after some stage has run is tried again.
Again ==
  /\ run.pc = "again"
  /\ IF st.status = "needs_fix" /\ st.phase = "verification_gate" /\ run.last.n > 0
     THEN /\ run' = [run EXCEPT !.pc = "round", !.streak = @ + 1]
          /\ st' = [st EXCEPT !.streak = run.streak + 1]
     ELSE Ends /\ UNCHANGED st
  /\ UNCHANGED <<ctx, entry, tree, files, marker, result, left, late>>

-----------------------------------------------------------------------------
(* runStage *)

\* The stage ends the run: the caller adds its report to the stages.
Reported(r, verdict, testOk) ==
  [r EXCEPT !.last = [n |-> @.n + 1, testOk |-> testOk, verdict |-> verdict]]
StageFails(status, phase, gate, error, verdict, testOk) ==
  run' = Finish(Reported(run, verdict, testOk), status, phase, gate, error, "report")

\* cancelOutcome, and the caller's finalizeState with the reports.
StageCancelled ==
  /\ Finalizes(IF ctx.adaptive THEN [st EXCEPT !.last = Reported(run, "none", TRUE).last] ELSE st,
               "cancelled")
  /\ tree' = Cleaned(tree)
  /\ UNCHANGED <<ctx, marker, left>>

\* budget.useExecutionRetry and budget.useFixRetry, and the next attempt.
\* Mutants: one retry too many; a retry that is not counted.
OneFixMore        == st.fix[run.stage] <= FixRetries
RetriesUncounted(s) == st' = s /\ run' = [run EXCEPT !.pc = "attempt"]
CanRetryExecution == st.execution[run.stage] < ExecutionRetries
CanRetryFix       == st.fix[run.stage] < FixRetries
RetriesExecution(s) ==
  /\ st' = [s EXCEPT !.execution[run.stage] = @ + 1]
  /\ run' = [run EXCEPT !.pc = "attempt"]
RetriesFix(s) ==
  /\ st' = [s EXCEPT !.fix[run.stage] = @ + 1]
  /\ run' = [run EXCEPT !.pc = "attempt"]

FixOrFail(s, status, error, verdict, testOk) ==
  IF CanRetryFix THEN RetriesFix(s)
  ELSE StageFails(status, "other", "none", error, verdict, testOk) /\ st' = s

\* Mutant: the marker is not looked at.
AttemptBlindly ==
  /\ run.pc = "attempt"
  /\ st' = [st EXCEPT !.status = "running", !.phase = "other"]
  /\ run' = [run EXCEPT !.pc = "execute"]
  /\ UNCHANGED <<ctx, entry, tree, files, marker, result, left, late>>

Attempt ==
  /\ run.pc = "attempt"
  /\ \/ /\ marker
        /\ StageCancelled
        /\ UNCHANGED <<files, late>>
     \/ /\ ~marker
        /\ st' = [st EXCEPT !.status = "running", !.phase = "other"]
        /\ run' = [run EXCEPT !.pc = "execute"]
        /\ UNCHANGED <<ctx, entry, tree, files, marker, result, left, late>>

\* The executor changes files or does not, and ends.
Executor == Edit \/ UNCHANGED <<tree, files>>

ExecutorThrows ==
  /\ run.pc = "execute"
  /\ Invoked /\ Executor
  /\ IF CanRetryExecution THEN RetriesExecution(st)
     ELSE StageFails("failed", "other", "none", "executor", "none", TRUE) /\ UNCHANGED st
  /\ UNCHANGED <<ctx, entry, marker, result, left>>

ExecutorCancelled ==
  /\ run.pc = "execute" /\ marker
  /\ Invoked
  /\ StageCancelled
  /\ files' = [files EXCEPT !.patch = IF @ = "fresh" THEN "stale" ELSE @]

\* The executor has ended and complete.patch is written.
ExecutorReturns(edited) ==
  LET f == IF edited /\ files.patch = "fresh" THEN [files EXCEPT !.patch = "stale"] ELSE files
      s == [st EXCEPT !.audit = AfterDiff(@, f)]
  IN  /\ run.pc = "execute" /\ ~marker
      /\ Invoked
      /\ tree' = IF edited THEN Edited(tree) ELSE tree
      /\ files' = Collected(f)
      /\ \/ /\ ctx.guard /\ edited
            /\ FixOrFail(s, "needs_fix", "guard", "none", TRUE)
         \/ IF CanRetryExecution THEN RetriesExecution(s)
            ELSE StageFails("failed", "other", "none", "executor", "none", TRUE) /\ st' = s
         \/ st' = s /\ run' = [run EXCEPT !.pc = "test"]
      /\ UNCHANGED <<ctx, entry, marker, result, left>>

\* A stage that has passed is followed by the next one, by another round, or
\* by the end of a serial job.
StagePasses(s, verdict) ==
  LET r == Reported(run, verdict, TRUE)
  IN  IF ctx.adaptive
      THEN /\ run' = [r EXCEPT !.pc = "round"]
           /\ st' = [s EXCEPT !.last = r.last]
      ELSE /\ st' = s
           /\ run' = IF run.stage < Stages
                     THEN [r EXCEPT !.pc = "attempt", !.stage = @ + 1,
                                    !.skip = run.stage + 1 \in ctx.skip]
                     ELSE Finish([r EXCEPT !.testOk = TRUE, !.verdict = verdict],
                                 "done", "other", "none", "none", "end")

TestCancelled ==
  /\ run.pc = "test" /\ marker
  /\ StageCancelled
  /\ files' = [files EXCEPT !.test = TRUE, !.patch = IF ctx.isolated THEN "stale" ELSE @]
  /\ UNCHANGED late

TestFails ==
  /\ run.pc = "test" /\ ~marker
  /\ files' = [files EXCEPT !.test = TRUE]
  /\ FixOrFail(st, "needs_fix", "test", "none", FALSE)
  /\ UNCHANGED <<ctx, entry, tree, marker, result, left, late>>

TestPasses ==
  /\ run.pc = "test" /\ ~marker
  /\ files' = [files EXCEPT !.test = TRUE]
  /\ tree' = [tree EXCEPT !.tested = TRUE]
  /\ IF run.skip \/ ~ctx.review
     THEN StagePasses(st, "none")
     ELSE run' = [run EXCEPT !.pc = "review"] /\ UNCHANGED st
  /\ UNCHANGED <<ctx, entry, marker, result, left, late>>

\* The old review.md is removed only for a structured audit.
BeforeReview == [files EXCEPT !.review = IF Structured THEN "none" ELSE @]

\* The reviewer throws, fails, or leaves no valid audit.
ReviewFails ==
  /\ run.pc = "review"
  /\ Invoked
  /\ files' = BeforeReview
  /\ \/ FixOrFail(st, "review_failed", "reviewer", "none", TRUE)
     \/ /\ ~marker /\ Structured
        /\ FixOrFail(st, "review_failed", "audit", "FAIL", TRUE)
  /\ UNCHANGED <<ctx, entry, tree, marker, result, left>>

ReviewCancelled ==
  /\ run.pc = "review" /\ marker
  /\ Invoked
  /\ StageCancelled
  /\ files' = [BeforeReview EXCEPT !.patch = IF ctx.isolated THEN "stale" ELSE @]

ReviewerEdits ==
  /\ run.pc = "review" /\ ~marker
  /\ Invoked
  /\ tree' = Edited(tree)
  /\ files' = BeforeReview
  /\ st' = [st EXCEPT !.audit = AfterDiff(@, [patch |-> "stale"])]
  /\ StageFails("review_failed", "other", "none", "other", "FAIL", TRUE)
  /\ UNCHANGED <<ctx, entry, marker, result, left>>

\* The reviewer ends well.  md: what it wrote to review.md, none if nothing;
\* json: whether review.json says PASS.  parseReviewVerdict prefers json.
Reviews(md, json, audit) ==
  LET text    == IF md = "none" THEN BeforeReview.review ELSE md
      verdict == IF json \/ text = "PASS" THEN "PASS" ELSE "FAIL"
      s       == IF Structured THEN [st EXCEPT !.audit = audit] ELSE st
  IN  /\ run.pc = "review" /\ ~marker
      /\ Invoked
      /\ files' = [files EXCEPT !.review = text]
      /\ tree' = [tree EXCEPT !.reviewed = json \/ md = "PASS" \/ (@ /\ md = "none")]
      /\ \/ verdict = "PASS" /\ StagePasses(s, "PASS")
         \/ /\ verdict = "FAIL" /\ text = "SEMANTIC"
            /\ StageFails("needs_fix", "awaiting_clarification", "semantic_conflict", "other",
                          "FAIL", TRUE)
            /\ st' = s
         \/ /\ verdict = "FAIL" /\ text # "SEMANTIC"
            /\ FixOrFail(s, "needs_fix", "review", "FAIL", TRUE)
      /\ UNCHANGED <<ctx, entry, marker, result, left>>

ReviewReturns ==
  \E md \in Review, json \in BOOLEAN, audit \in Audit :
    /\ audit.complete \/ ~audit.cites
    /\ Structured \/ audit = NoAudit
    /\ Reviews(md, json, audit)

-----------------------------------------------------------------------------
(* finish *)

\* The completion gates, in the order of the code.
AuditGate(r) ==
  IF r.status = "done" /\ Structured /\ ~(r.testOk /\ r.verdict = "PASS" /\ AuditAllows(st.audit))
  THEN [r EXCEPT !.status = "needs_fix", !.phase = "verification_gate", !.error = "verification"]
  ELSE r

ApprovalGate(r) ==
  IF r.status # "done" \/ ~ctx.beforeComplete THEN r
  ELSE IF EvidenceValid(r.testOk, r.verdict, st.audit)
       THEN [r EXCEPT !.status = "awaiting_approval", !.phase = "before_complete",
                      !.gate = "completion"]
       ELSE [r EXCEPT !.status = "needs_fix", !.phase = "verification_gate", !.error = "stale"]

Counts(r) == /\ r.error # "none" /\ r.gate = "none" /\ ~Uncounted(r.phase)
             /\ r.status \in {"failed", "needs_fix", "review_failed"}

FailureGate(r, s) ==
  IF Counts(r) /\ s.count >= 3
  THEN [r EXCEPT !.status = "needs_fix", !.phase = "other", !.gate = "repeated_failure"] ELSE r

\* git_commit fails.
CommitGate(r, ok) ==
  IF r.status = "done" /\ ctx.commit /\ ~ok
  THEN [r EXCEPT !.status = "failed", !.phase = "other"] ELSE r

\* finish up to writeState: state and entry in one transaction.
Finishes(committed) ==
  LET gated   == ApprovalGate(AuditGate(run))
      tracked == IF Counts(gated) THEN Tracked(st, gated.error) ELSE st
      final   == CommitGate(FailureGate(gated, tracked), committed)
  IN  /\ run.pc = "finish"
      /\ st' = [tracked EXCEPT
           !.status = final.status, !.phase = final.phase,
           !.gate = IF final.gate = "none" THEN @ ELSE final.gate,
           !.last = IF ctx.adaptive /\ run.phase = "adaptive_max_rounds" THEN run.last ELSE @,
           !.testOk = IF run.status = "done" THEN run.testOk ELSE @,
           !.verdict = IF run.status = "done" THEN run.verdict ELSE @]
      /\ entry' = EntryStatus(final.status)
      /\ tree' = [tree EXCEPT
           !.snapshot = @ \/ final.status = "awaiting_approval",
           !.drift = IF final.status = "done" /\ ctx.commit /\ ~ctx.isolated THEN "commit" ELSE @]
      /\ run' = [run EXCEPT !.pc = "tidy"]
      /\ UNCHANGED <<ctx, files, marker, result, left, late>>

\* The rest of finish: the worktree is removed unless it is still needed, and
\* result.json is written.
Recoverable == \/ ctx.adaptive /\ st.status = "needs_fix"
               \/ st.gate # "none"
               \/ st.phase = "verification_gate"

\* Mutant: result.json is not written.
TidiesOnly ==
  /\ run.pc = "tidy"
  /\ LET clean == ~ctx.keep /\ ~Recoverable /\ st.status \in Terminal
     IN  /\ tree' = IF clean THEN Cleaned(tree) ELSE tree
         /\ files' = [files EXCEPT !.patch = IF clean /\ ctx.isolated /\ @ = "fresh" THEN "stale" ELSE @]
  /\ IF run.then = "end" THEN Ends ELSE run' = [run EXCEPT !.pc = run.then]
  /\ UNCHANGED <<ctx, st, entry, marker, result, left, late>>

Tidies ==
  /\ run.pc = "tidy"
  /\ LET clean == ~ctx.keep /\ ~Recoverable /\ st.status \in Terminal
     IN  /\ tree' = IF clean THEN Cleaned(tree) ELSE tree
         /\ files' = [files EXCEPT !.patch = IF clean /\ ctx.isolated /\ @ = "fresh" THEN "stale" ELSE @]
  /\ result' = Written(st)
  /\ IF run.then = "end" THEN Ends ELSE run' = [run EXCEPT !.pc = run.then]
  /\ UNCHANGED <<ctx, st, entry, marker, left, late>>

\* finalizeState with the stages, after a stage that ended the run.
Reports ==
  /\ run.pc = "report"
  /\ st' = IF ctx.adaptive THEN [st EXCEPT !.last = run.last] ELSE st
  /\ result' = Written(st)
  /\ Ends
  /\ UNCHANGED <<ctx, entry, tree, files, marker, left, late>>

-----------------------------------------------------------------------------
(* Commands of users, between runs *)

Command == /\ left.commands > 0
           /\ left' = [left EXCEPT !.commands = @ - 1]

\* startBackground.  extra: extra_rounds.  refresh: refreshBaseline.
Continue(extra, refresh) ==
  /\ Command
  /\ run.pc = "idle" /\ entry \notin {"open", "awaiting_approval"}
  /\ st.gate \notin {"before_run", "completion"}
  /\ IF st.gate = "max_rounds" THEN extra > 0 ELSE extra = 0
  /\ st.maxRounds + extra <= RoundLimit
  /\ st' = IF st.gate = "none" THEN st
           ELSE [Resolved(st) EXCEPT !.maxRounds = @ + extra]
  /\ tree' = IF refresh THEN [tree EXCEPT !.drift = "none"] ELSE tree
  /\ files' = [files EXCEPT !.understanding = FALSE]
  /\ marker' = FALSE
  /\ late' = 0
  /\ entry' = "open"
  /\ UNCHANGED <<ctx, run, result>>

\* retryQueueJob: the budgets start anew, a waiting gate stays.
Retry ==
  /\ Command
  /\ run.pc = "idle" /\ entry # "open"
  /\ st.status \notin {"running", "queued", "awaiting_approval"}
  /\ st' = [st EXCEPT !.status = "queued", !.phase = "other",
                      !.execution = [x \in Index |-> 0], !.fix = [x \in Index |-> 0]]
  /\ marker' = FALSE
  /\ late' = 0
  /\ entry' = "open"
  /\ UNCHANGED <<ctx, tree, files, run, result>>

\* approveJobAndStart of a job that waits to be run.
ApproveRun ==
  /\ Command
  /\ run.pc = "idle" /\ st.status = "awaiting_approval" /\ st.phase = "before_run"
  /\ st' = [st EXCEPT !.status = "queued", !.phase = "other", !.gate = "none",
                      !.approved = TRUE]
  /\ files' = [files EXCEPT !.understanding = FALSE]
  /\ marker' = FALSE
  /\ late' = 0
  /\ entry' = "open"
  /\ UNCHANGED <<ctx, tree, run, result>>

\* approveJob of a job that waits to be completed: what was verified must be
\* what is there now.
\* Mutant: the worktree is not compared.
EvidenceHolds   == tree.made /\ EvidenceValid(st.testOk, st.verdict, st.audit)
CompletionHolds == tree.made /\ tree.snapshot /\ EvidenceValid(st.testOk, st.verdict, st.audit)
ApproveCompletion(committed) ==
  /\ Command
  /\ run.pc = "idle" /\ st.status = "awaiting_approval" /\ st.phase = "before_complete"
  /\ LET status == IF ~CompletionHolds THEN "needs_fix"
                   ELSE IF ctx.commit /\ ~committed THEN "failed" ELSE "done"
         s      == [st EXCEPT !.status = status, !.phase = "other", !.gate = "none"]
     IN  /\ st' = s
         /\ result' = Written(s)
         /\ entry' = IF entry = "awaiting_approval" THEN EntryStatus(status) ELSE entry
         /\ tree' = LET t == [tree EXCEPT !.drift = IF status = "done" /\ ctx.commit /\ ~ctx.isolated
                                                   THEN "commit" ELSE @]
                    IN  IF status = "done" /\ ~ctx.keep THEN Cleaned(t) ELSE t
  /\ UNCHANGED <<ctx, files, marker, run, late>>

\* cancelJob writes the marker and cancels the entry ...
CancelMarks ==
  /\ Command
  /\ ~marker
  /\ marker' = TRUE
  /\ entry' = IF entry \in {"open", "awaiting_approval"} THEN "cancelled" ELSE entry
  /\ UNCHANGED <<ctx, st, tree, files, run, result, late>>

\* ... and, when it has killed what runs, records the end.  A run that has just
\* begun may not be known to it.
CancelSettles ==
  /\ marker /\ (st.status # "cancelled" \/ run.pc # "idle")
  /\ run' = Idle \/ (run.pc = "locked" /\ UNCHANGED run)
  /\ st' = [st EXCEPT !.status = "cancelled", !.phase = "other"]
  /\ entry' = IF entry \in {"open", "awaiting_approval"} THEN "cancelled" ELSE entry
  /\ tree' = Cleaned(tree)
  /\ files' = [files EXCEPT !.patch = IF ctx.isolated /\ @ = "fresh" THEN "stale" ELSE @]
  /\ UNCHANGED <<ctx, marker, result, left, late>>

-----------------------------------------------------------------------------
(* Faults *)

Fault == /\ left.faults > 0
         /\ left' = [left EXCEPT !.faults = @ - 1]

\* The run dies, or an uncaught error ends it; an agent may have changed files.
Crash ==
  /\ Fault
  /\ run.pc # "idle"
  /\ Ends
  /\ IF run.pc \in {"handshake", "execute"} THEN Executor ELSE UNCHANGED <<tree, files>>
  /\ UNCHANGED <<ctx, st, entry, marker, result, late>>

\* Someone else changes the files while nothing runs.
EditedByOthers ==
  /\ Fault
  /\ run.pc = "idle" /\ tree.made
  /\ Edit
  /\ UNCHANGED <<ctx, st, entry, marker, run, result, late>>

-----------------------------------------------------------------------------
WorkerStep ==
  \/ Skips \/ AsksApproval \/ Drifts \/ Prepares \/ Handshake
  \/ Round \/ RoundCancelled \/ RoundsExhausted
  \/ ManagerFails \/ ManagerAsks \/ ManagerDone \/ ManagerExecutes \/ ManagerCancelled \/ Again
  \/ Attempt \/ ExecutorThrows \/ ExecutorCancelled
  \/ \E edited \in BOOLEAN : ExecutorReturns(edited)
  \/ TestCancelled \/ TestFails \/ TestPasses
  \/ ReviewFails \/ ReviewCancelled \/ ReviewerEdits \/ ReviewReturns
  \/ \E committed \in BOOLEAN : Finishes(committed)
  \/ Tidies \/ Reports

Next ==
  \/ Starts \/ Blocked \/ WorkerStep
  \/ \E extra \in 0 .. 1, refresh \in BOOLEAN : Continue(extra, refresh)
  \/ Retry \/ ApproveRun
  \/ \E committed \in BOOLEAN : ApproveCompletion(committed)
  \/ CancelMarks \/ CancelSettles
  \/ Crash \/ EditedByOthers

Spec == Init /\ [][Next]_vars

-----------------------------------------------------------------------------
(* Properties *)

Works == run.pc \in Working

Serial == ~ctx.adaptive

\* A serial job is recorded as done, by the run or by an approval, only when the
\* tree it delivers is the one the tests have passed on; with structured audits
\* it is also the one the reviewer has passed and whose audit is complete.  The
\* interval is long: the run may be retried, the approver may come later,
\* others may edit in between.
DeliversWhatWasVerified ==
  [][st'.status = "done" /\ st.status # "done" /\ Serial
       => /\ tree.tested
          /\ Structured => tree.reviewed /\ st.audit.complete]_vars

\* No agent works on a job whose Human Gate waits, or that was to be approved
\* before its run and was not.
NoWorkBehindAGate == Works => st.gate = "none" /\ (ctx.beforeRun => st.approved)

\* A cancel stops the work: the run looks at the marker before every agent it
\* starts, so at most one more is started.
CancelStopsWork == late <= 1

\* A crash does not give budgets back: what an attempt has used is recorded
\* before the attempt begins, and only a command or a resolved gate resets it.
BudgetsSurvive ==
  [][ \/ \A i \in Index : st'.execution[i] >= st.execution[i] /\ st'.fix[i] >= st.fix[i]
      \/ left'.commands < left.commands
      \/ run.pc = "idle" /\ st.gate # "none" /\ st'.gate = "none"]_vars

\* The budgets, the rounds and the counter of repeated failures stay within
\* their limits, whatever crashes and commands come in between.
WithinLimits ==
  /\ \A i \in Index : st.execution[i] <= ExecutionRetries /\ st.fix[i] <= FixRetries
  /\ st.round <= st.maxRounds /\ st.maxRounds <= RoundLimit
  /\ st.last.n <= st.round
  /\ st.count <= 3

\* A job at work has an open entry (or one that a cancel has closed), so a crash
\* is noticed and the job is started again.  Only the adaptive loop works without
\* one, when it goes on after a verification that has failed.
WorkHasAnEntry ==
  Works => \/ entry = "open" \/ marker
           \/ ctx.adaptive /\ st.key \in {"verification", "stale"}

\* result.json says what the state says once a run has ended by itself.
ResultAgrees ==
  run.pc = "idle" /\ left.faults = MaxFaults /\ st.status \in Terminal => result.status = st.status

\* stage-runner.ts says that a review without a verdict counts as failed.  A
\* reviewed serial job is done only when its reviewers have passed the tree.
\* It does not hold without structured audits: review.md is not removed
\* before a review, so a reviewer that writes nothing passes the stage with the
\* verdict of an earlier one.
ReviewedWhenDone ==
  [][st'.status = "done" /\ st.status # "done" /\ Serial /\ ctx.review /\ ctx.skip = {}
       => tree.reviewed]_vars

\* README.en.md says that a result is verified only when the tests have
\* succeeded.  It does not hold for adaptive jobs.
VerifiedWasTested ==
  [][result'.verified /\ ~result.verified => tree.tested]_vars

\* Every run ends, whatever the agents do: each of its steps uses up a retry, a
\* stage or a round, or brings the attempt closer to its end; none gives back
\* what has been used up, and what there is of it is bounded.
Position(r) ==
  [locked |-> 11, handshake |-> 10, manager |-> 9, attempt |-> 8, execute |-> 7, test |-> 6,
   review |-> 5, finish |-> IF r.then = "again" THEN 6 ELSE 2,
   tidy |-> IF r.then = "again" THEN 5 ELSE 1, again |-> 4, round |-> 3,
   report |-> 0, idle |-> 0][r.pc]

\* The stages or rounds that are left.
Ahead == IF ctx.adaptive THEN st.maxRounds - st.round ELSE Stages - run.stage

GivesNothingBack ==
  /\ Ahead >= Ahead' /\ Ahead' >= 0
  /\ \A i \in Index : /\ st'.execution[i] \in st.execution[i] .. ExecutionRetries
                      /\ st'.fix[i] \in st.fix[i] .. FixRetries

UsesUp == \/ Ahead' < Ahead
          \/ \E i \in Index : st'.execution[i] > st.execution[i] \/ st'.fix[i] > st.fix[i]

RunsEnd ==
  [][run.pc # "idle" /\ run'.pc # "idle" /\ run' # run
       => GivesNothingBack /\ (UsesUp \/ Position(run') < Position(run))]_vars

=============================================================================
