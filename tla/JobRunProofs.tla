------------------------------ MODULE JobRunProofs ------------------------------
(***************************************************************************)
(* Theorems about JobRun, for any number of stages, retries, fixes, rounds,*)
(* commands and faults, and any job contexts: the types, the invariants and*)
(* the action properties that the run jobrun checks on two stages in four  *)
(* contexts.                                                               *)
(*                                                                         *)
(* One inductive invariant, JobInv, carries them all.  A step of a run that*)
(* goes on changes few of the things it speaks about, so most actions are  *)
(* first shown to be of one of three kinds (WorkInv, FinalInv, IdleInv).   *)
(***************************************************************************)
EXTENDS JobRun, TLAPS

-----------------------------------------------------------------------------
(* Types of the parts. *)

TreeType   == [made : BOOLEAN, drift : {"none", "dirty", "commit"}, tested : BOOLEAN,
               reviewed : BOOLEAN, snapshot : BOOLEAN]
FilesType  == [patch : {"none", "fresh", "stale"}, test : BOOLEAN, review : Review,
               understanding : BOOLEAN]
ResultType == [status : Status, verified : BOOLEAN]

LEMMA ContextOK == ASSUME TypeOK PROVE ctx \in ContextType
BY RunAssumption DEF TypeOK

LEMMA IndexFacts == 1 \in Index /\ \A s \in Stage : s \in Index
BY RunAssumption DEF Index, Stage

LEMMA IdleType == Idle \in RunType
BY IndexFacts DEF Idle, RunType, NoReport, Report, Verdict, Status, Phase, Gate, Error

LEMMA EditedFacts ==
  ASSUME NEW t \in TreeType
  PROVE  /\ Edited(t) \in TreeType
         /\ ~Edited(t).snapshot /\ ~Edited(t).tested /\ ~Edited(t).reviewed
BY DEF Edited, TreeType

LEMMA CleanedFacts ==
  ASSUME NEW t \in TreeType
  PROVE  /\ Cleaned(t) \in TreeType
         /\ Cleaned(t).snapshot =>
              t.snapshot /\ Cleaned(t).tested = t.tested /\ Cleaned(t).reviewed = t.reviewed
BY DEF Cleaned, TreeType

LEMMA WrittenFacts ==
  ASSUME TypeOK, NEW s \in StateType
  PROVE  Written(s) \in ResultType /\ Written(s).status = s.status
<1>1. Verified(s) \in BOOLEAN
  BY DEF Verified
<1>2. s.status \in Status
  BY DEF StateType
<1> QED
  BY <1>1, <1>2 DEF Written, ResultType

LEMMA PatchStale ==
  ASSUME NEW f \in FilesType, NEW p \in {"none", "fresh", "stale"}
  PROVE  [f EXCEPT !.patch = p] \in FilesType
BY DEF FilesType

LEMMA EditType ==
  ASSUME TypeOK, Edit
  PROVE  tree' \in TreeType /\ files' \in FilesType /\ ~tree'.snapshot
<1>1. tree \in TreeType /\ files \in FilesType
  BY DEF TypeOK, TreeType, FilesType
<1>2. files' \in FilesType
  BY <1>1 DEF Edit, FilesType
<1> QED
  BY <1>1, <1>2, EditedFacts DEF Edit

LEMMA ExecutorType ==
  ASSUME TypeOK, Executor
  PROVE  tree' \in TreeType /\ files' \in FilesType
BY EditType DEF Executor, TypeOK, TreeType, FilesType

LEMMA InvokedType ==
  ASSUME TypeOK, Invoked
  PROVE  late' \in Nat /\ late' = IF marker THEN late + 1 ELSE late
BY DEF Invoked, TypeOK

LEMMA CommandType == ASSUME TypeOK, Command
                     PROVE  left' \in [commands : Nat, faults : Nat] /\ left'.faults = left.faults
<1>1. left \in [commands : Nat, faults : Nat]
  BY DEF TypeOK
<1> QED
  BY <1>1 DEF Command

LEMMA FaultType == ASSUME TypeOK, Fault
                   PROVE  left' \in [commands : Nat, faults : Nat] /\ left'.faults < left.faults
<1>1. left \in [commands : Nat, faults : Nat]
  BY DEF TypeOK
<1> QED
  BY <1>1 DEF Fault

-----------------------------------------------------------------------------
(* What the properties rest on. *)

\* The points at which a run is over, or as good as over, for the rest.
Quiet == {"idle", "tidy", "report", "again"}

\* An adaptive job has no more reports than rounds, and less while it works.
Rounds ==
  /\ st.round <= st.maxRounds /\ st.maxRounds <= RoundLimit /\ st.last.n <= st.round
  /\ ctx.adaptive => run.last.n <= st.round
  /\ ctx.adaptive /\ run.pc \in {"manager", "attempt", "execute", "test", "review"}
       => run.last.n < st.round

\* What tells the runs of a serial job from those of an adaptive one.
Kinds ==
  /\ run.pc \in {"round", "manager", "again"} \/ run.then = "again" => ctx.adaptive
  /\ run.pc = "locked" => run.stage = 1
  /\ Serial => run.stage <= Stages
  /\ Serial /\ run.pc \in {"handshake", "attempt", "execute", "test", "review"}
       => run.skip = (run.stage \in ctx.skip)

Budgets == \A i \in Index : st.execution[i] <= ExecutionRetries /\ st.fix[i] <= FixRetries

\* The third repeated failure raises a gate, and no gate of another kind.
Failures == st.count <= 2 \/ (st.count = 3 /\ st.gate = "repeated_failure")

Unverified == {"verification", "stale"}

\* A job that waits for an approval has the gate of that approval.
Waits ==
  st.status = "awaiting_approval" =>
    \/ st.phase = "before_run" /\ st.gate = "before_run"
    \/ st.phase = "before_complete" /\ st.gate = "completion"

Gates ==
  /\ run.pc \notin Quiet => st.gate = "none"
  /\ run.pc \notin {"idle", "locked"} => (ctx.beforeRun => st.approved)
  /\ Waits
  /\ run.pc \in {"tidy", "again"} /\ st.phase = "verification_gate"
       => st.gate = "none" /\ st.key \in Unverified

\* What finish is called with.
Outcomes ==
  run.pc = "finish" =>
    /\ run.status \in Terminal
    /\ run.status = "done" => run.gate = "none" /\ run.phase = "other" /\ run.error = "none"
    /\ run.phase \notin {"before_run", "before_complete", "verification_gate"}

Entries ==
  /\ run.pc \notin Quiet => entry = "open" \/ marker \/ (ctx.adaptive /\ st.key \in Unverified)
  /\ marker => entry # "open"

Lateness == late > 0 => /\ marker /\ late <= 1
                        /\ run.pc \in Quiet \cup {"round", "attempt", "finish"}

Results ==
  /\ left.faults <= MaxFaults
  /\ left.faults = MaxFaults /\ st.status \in Terminal /\ run.pc # "tidy"
       => result.status = st.status

\* What is about to be done, or waits for its approval, has passed.
HasPassed == tree.tested /\ (Structured => tree.reviewed)
WaitsForCompletion == st.status = "awaiting_approval" /\ st.phase = "before_complete"

Passed ==
  Serial =>
    /\ run.pc = "review" => tree.tested
    /\ run.pc = "finish" /\ run.status = "done" => HasPassed
    /\ WaitsForCompletion /\ tree.snapshot => HasPassed

JobInv == /\ TypeOK /\ Rounds /\ Kinds /\ Budgets /\ Failures /\ Gates /\ Outcomes /\ Entries
          /\ Lateness /\ Results /\ Passed

LEMMA InitType == Init => TypeOK
<1> SUFFICES ASSUME Init PROVE TypeOK
  OBVIOUS
<1>1. st \in StateType
  BY RunAssumption DEF Init, StateType, Status, Phase, Gate, Error, NoReport, Report, Verdict, NoAudit, Audit
<1>2. ctx \in ContextType
  BY RunAssumption DEF Init
<1>3. tree \in TreeType
  BY <1>2 DEF Init, TreeType, ContextType
<1>4. files \in FilesType /\ result \in ResultType
  BY DEF Init, FilesType, ResultType, Review, Status
<1>5. left \in [commands : Nat, faults : Nat]
  BY RunAssumption DEF Init
<1> QED
  BY <1>1, <1>3, <1>4, <1>5, IdleType DEF Init, TypeOK, TreeType, FilesType, ResultType

LEMMA InitInv == Init => JobInv
<1> SUFFICES ASSUME Init PROVE JobInv
  OBVIOUS
<1>1. TypeOK
  BY InitType
<1>2. run.pc = "idle" /\ run.last.n = 0 /\ run.stage = 1 /\ run.then = "end"
  BY DEF Init, Idle, NoReport
<1>3. /\ st.status = "queued" /\ st.gate = "none" /\ st.count = 0 /\ st.round = 0
      /\ st.maxRounds = MaxRounds /\ st.last.n = 0
      /\ \A i \in Index : st.execution[i] = 0 /\ st.fix[i] = 0
  BY DEF Init, NoReport
<1>4. entry = "open" /\ marker = FALSE /\ late = 0 /\ left.faults = MaxFaults
  BY DEF Init
<1>5. Rounds /\ Kinds /\ Budgets /\ Failures
  BY <1>2, <1>3, RunAssumption DEF Rounds, Kinds, Budgets, Failures
<1>6. Gates /\ Outcomes /\ Entries /\ Lateness /\ Results /\ Passed
  BY <1>2, <1>3, <1>4, RunAssumption
     DEF Gates, Waits, Quiet, Outcomes, Entries, Lateness, Results, Terminal, Passed, WaitsForCompletion
<1> QED
  BY <1>1, <1>5, <1>6 DEF JobInv

-----------------------------------------------------------------------------
(* Steps that end a run, and steps between runs. *)

\* A run that works, or is about to, has no gate, so its job does not wait.
LEMMA NotWaiting ==
  ASSUME JobInv, run.pc \notin Quiet
  PROVE  st.gate = "none" /\ st.status # "awaiting_approval"
BY DEF JobInv, Gates, Waits

LEMMA IdleInv ==
  ASSUME TypeOK', run' = Idle,
         st'.round <= st'.maxRounds /\ st'.maxRounds <= RoundLimit /\ st'.last.n <= st'.round,
         Budgets', Failures', Waits', marker' => entry' # "open",
         late' > 0 => marker' /\ late' <= 1, Results',
         (Serial /\ WaitsForCompletion /\ tree.snapshot => HasPassed)'
  PROVE  JobInv'
<1>1. run'.pc = "idle" /\ run'.last.n = 0 /\ run'.stage = 1 /\ run'.then = "end"
  BY DEF Idle, NoReport
<1>2. st'.round \in Nat /\ late' \in Nat
  BY DEF TypeOK, StateType
<1>3. Rounds' /\ Kinds'
  BY <1>1, <1>2, RunAssumption DEF Rounds, Kinds
<1>4. Gates' /\ Outcomes' /\ Entries' /\ Lateness' /\ Passed'
  BY <1>1 DEF Gates, Quiet, Outcomes, Entries, Lateness, Passed
<1> QED
  BY <1>3, <1>4 DEF JobInv

\* What the limits speak about.
Keeps(s) ==
  /\ s \in StateType
  /\ s.round = st.round /\ s.maxRounds = st.maxRounds
  /\ s.execution = st.execution /\ s.fix = st.fix
  /\ s.gate = st.gate /\ s.approved = st.approved /\ s.key = st.key /\ s.count = st.count

LEMMA EndsInv ==
  ASSUME JobInv, TypeOK', run' = Idle, UNCHANGED ctx, marker' = marker,
         Keeps(st'), st'.last.n <= st.round,
         \/ st'.status # "awaiting_approval"
         \/ /\ st'.status = st.status /\ st'.phase = st.phase
            /\ tree'.snapshot =>
                 tree.snapshot /\ tree'.tested = tree.tested /\ tree'.reviewed = tree.reviewed,
         entry' = entry \/ entry' # "open",
         late' = late \/ (late = 0 /\ marker /\ late' = 1),
         Results'
  PROVE  JobInv'
<1>1. st'.round <= st'.maxRounds /\ st'.maxRounds <= RoundLimit /\ st'.last.n <= st'.round
  BY DEF JobInv, Rounds, Keeps
<1>2. Budgets' /\ Failures' /\ Waits'
  BY DEF JobInv, Budgets, Failures, Gates, Waits, Keeps
<1>3. marker' => entry' # "open"
  BY DEF JobInv, Entries
<1>4. late' > 0 => marker' /\ late' <= 1
  BY DEF JobInv, Lateness
<1>5. (Serial /\ WaitsForCompletion /\ tree.snapshot => HasPassed)'
  BY DEF JobInv, Passed, WaitsForCompletion, HasPassed, Serial, Structured
<1> QED
  BY <1>1, <1>2, <1>3, <1>4, <1>5, IdleInv

LEMMA FinalInv ==
  ASSUME JobInv, NEW s \in StateType, Keeps(s), s.last.n <= st.round,
         NEW status \in {"cancelled", "needs_fix"}, Finalizes(s, status),
         UNCHANGED <<ctx, marker, left>>, tree' \in TreeType, files' \in FilesType,
         late' = late \/ (late = 0 /\ marker /\ late' = 1)
  PROVE  JobInv'
<1> DEFINE t == [s EXCEPT !.status = status, !.phase = "other"]
<1>1. t \in StateType /\ Keeps(t) /\ t.last = s.last /\ t.status = status
  BY DEF Keeps, StateType, Status, Phase
<1>2. st' = t /\ entry' = EntryStatus(status) /\ result' = Written(t) /\ run' = Idle
  BY DEF Finalizes, Ends
<1> HIDE DEF t
<1>3. result' \in ResultType /\ result'.status = status
  BY <1>1, <1>2, WrittenFacts DEF JobInv
<1>4. entry' \in {"cancelled", "failed"}
  BY <1>2 DEF EntryStatus
<1>5. TypeOK'
  BY <1>1, <1>2, <1>3, <1>4, IdleType DEF JobInv, TypeOK, TreeType, FilesType, ResultType
<1>6. Results'
  BY <1>1, <1>2, <1>3 DEF JobInv, Results
<1> QED
  BY <1>1, <1>2, <1>4, <1>5, <1>6, EndsInv

\* A state with other reports keeps the rest.
LEMMA WithReports ==
  ASSUME TypeOK, NEW report \in Report
  PROVE  /\ [st EXCEPT !.last = report] \in StateType /\ Keeps([st EXCEPT !.last = report])
         /\ [st EXCEPT !.last = report].last = report
         /\ Keeps(st)
BY DEF TypeOK, StateType, Keeps

LEMMA Typed ==
  ASSUME TypeOK
  PROVE  /\ tree \in TreeType /\ files \in FilesType /\ result \in ResultType
         /\ st \in StateType /\ run \in RunType /\ st.last \in Report /\ run.last \in Report
         /\ late \in Nat /\ run.last.n \in Nat /\ st.last.n \in Nat /\ st.round \in Nat
BY DEF TypeOK, TreeType, FilesType, ResultType, StateType, RunType, Report

LEMMA SkipsInv == ASSUME JobInv, Skips PROVE JobInv'
BY Typed, WithReports, FinalInv DEF Skips, JobInv, Rounds

LEMMA DriftsInv == ASSUME JobInv, Drifts PROVE JobInv'
BY Typed, WithReports, FinalInv DEF Drifts, JobInv, Rounds

\* An invocation that finds the marker is the first one since.
LEMMA InvokedOnce ==
  ASSUME JobInv, Invoked, run.pc \in {"handshake", "manager", "execute", "review"}
  PROVE  late' = late \/ (late = 0 /\ marker /\ late' = 1)
<1>1. late \in Nat /\ ~(late > 0)
  BY Typed DEF JobInv, Lateness, Quiet
<1> QED
  BY <1>1 DEF Invoked

LEMMA StaleType ==
  ASSUME TypeOK, NEW f \in FilesType,
         \/ files' = [f EXCEPT !.patch = IF ctx.isolated /\ @ = "fresh" THEN "stale" ELSE @]
         \/ files' = [f EXCEPT !.patch = IF @ = "fresh" THEN "stale" ELSE @]
         \/ files' = [f EXCEPT !.patch = IF ctx.isolated THEN "stale" ELSE @]
  PROVE  files' \in FilesType
BY DEF FilesType

LEMMA CancelledInv ==
  ASSUME JobInv, Cancelled
  PROVE  JobInv'
<1>1. files' \in FilesType /\ tree' \in TreeType
  BY Typed, StaleType, CleanedFacts DEF Cancelled, JobInv
<1> QED
  BY <1>1, Typed, WithReports, FinalInv DEF Cancelled, JobInv, Rounds

LEMMA ManagerCancelledInv == ASSUME JobInv, ManagerCancelled PROVE JobInv'
<1>1. files' \in FilesType /\ tree' \in TreeType
  BY Typed, StaleType, CleanedFacts DEF ManagerCancelled, JobInv
<1>2. late' = late \/ (late = 0 /\ marker /\ late' = 1)
  BY InvokedOnce DEF ManagerCancelled
<1>3. Finalizes(st, "cancelled") /\ UNCHANGED <<ctx, marker, left>>
  BY DEF ManagerCancelled
<1> QED
  BY <1>1, <1>2, <1>3, Typed, WithReports, FinalInv DEF JobInv, Rounds

LEMMA ReportedFacts ==
  ASSUME NEW r \in RunType, NEW verdict \in Verdict, NEW ok \in BOOLEAN
  PROVE  /\ Reported(r, verdict, ok) \in RunType
         /\ Reported(r, verdict, ok).last \in Report
         /\ Reported(r, verdict, ok).last.n = r.last.n + 1
         /\ \A f \in {"pc", "stage", "skip", "cached", "streak", "status", "phase", "gate", "error",
                      "then", "testOk", "verdict"} : Reported(r, verdict, ok)[f] = r[f]
<1> DEFINE report == [n |-> r.last.n + 1, testOk |-> ok, verdict |-> verdict]
<1>1. report \in Report /\ report.n = r.last.n + 1
  BY DEF RunType, Report
<1>2. Reported(r, verdict, ok) = [r EXCEPT !.last = report]
  BY DEF Reported
<1> HIDE DEF report
<1> QED
  BY <1>1, <1>2 DEF RunType

LEMMA StageCancelledInv ==
  ASSUME JobInv, StageCancelled, files' \in FilesType,
         run.pc \in {"attempt", "execute", "test", "review"},
         late' = late \/ (late = 0 /\ marker /\ late' = 1)
  PROVE  JobInv'
<1>1. tree' \in TreeType /\ UNCHANGED <<ctx, marker, left>>
  BY Typed, CleanedFacts DEF StageCancelled, JobInv
<1>2. CASE ctx.adaptive
  <2> DEFINE report == Reported(run, "none", TRUE).last
  <2>1. report \in Report /\ report.n = run.last.n + 1
    BY Typed, ReportedFacts DEF JobInv, Verdict
  <2>2. Finalizes([st EXCEPT !.last = report], "cancelled")
    BY <1>2 DEF StageCancelled
  <2> HIDE DEF report
  <2>3. report.n <= st.round
    BY <1>2, <2>1, Typed DEF JobInv, Rounds
  <2> DEFINE s == [st EXCEPT !.last = report]
  <2>4. s \in StateType /\ Keeps(s) /\ s.last = report
    BY <2>1, WithReports DEF JobInv
  <2>5. Finalizes(s, "cancelled")
    BY <2>2
  <2> HIDE DEF s
  <2> QED
    BY <1>1, <2>3, <2>4, <2>5, FinalInv
<1>3. CASE ~ctx.adaptive
  <2>1. Finalizes(st, "cancelled")
    BY <1>3 DEF StageCancelled
  <2> QED
    BY <1>1, <2>1, Typed, WithReports, FinalInv DEF JobInv, Rounds
<1> QED
  BY <1>2, <1>3

LEMMA BeforeReviewType == TypeOK => BeforeReview \in FilesType
BY DEF TypeOK, BeforeReview, FilesType, Review

LEMMA StageCancellations ==
  ASSUME JobInv, (Attempt /\ marker) \/ ExecutorCancelled \/ TestCancelled \/ ReviewCancelled
  PROVE  JobInv'
<1>1. CASE Attempt /\ marker
  BY <1>1, Typed, StageCancelledInv DEF Attempt, JobInv
<1>2. CASE ExecutorCancelled
  BY <1>2, Typed, StaleType, InvokedOnce, StageCancelledInv DEF ExecutorCancelled, JobInv
<1>3. CASE TestCancelled
  <2> DEFINE f == [files EXCEPT !.test = TRUE]
  <2>1. f \in FilesType
    BY Typed DEF JobInv, FilesType
  <2>2. files' = [f EXCEPT !.patch = IF ctx.isolated THEN "stale" ELSE @]
    BY <1>3 DEF TestCancelled
  <2> HIDE DEF f
  <2> QED
    BY <1>3, <2>1, <2>2, StaleType, StageCancelledInv DEF TestCancelled, JobInv
<1>4. CASE ReviewCancelled
  <2>1. files' \in FilesType
    BY <1>4, StaleType, BeforeReviewType DEF ReviewCancelled, JobInv
  <2> QED
    BY <1>4, <2>1, InvokedOnce, StageCancelledInv DEF ReviewCancelled
<1> QED
  BY <1>1, <1>2, <1>3, <1>4

LEMMA AsksInv == ASSUME JobInv, AsksApproval PROVE JobInv'
<1>1. run.pc = "locked" /\ st.gate = "none"
  BY NotWaiting DEF AsksApproval, Quiet
<1>2. /\ st' \in StateType /\ st'.status = "awaiting_approval" /\ st'.phase = "before_run"
      /\ st'.gate = "before_run" /\ st'.count = st.count
      /\ st'.round = st.round /\ st'.maxRounds = st.maxRounds /\ st'.last = st.last
      /\ st'.execution = st.execution /\ st'.fix = st.fix
  BY Typed DEF AsksApproval, JobInv, StateType, Status, Phase, Gate
<1>3. entry' = "awaiting_approval" /\ run' = Idle
      /\ UNCHANGED <<ctx, tree, files, marker, result, left, late>>
  BY DEF AsksApproval, Ends
<1>4. TypeOK'
  BY <1>2, <1>3, IdleType DEF JobInv, TypeOK
<1>5. st'.round <= st'.maxRounds /\ st'.maxRounds <= RoundLimit /\ st'.last.n <= st'.round
  BY <1>2 DEF JobInv, Rounds
<1>6. Budgets' /\ Failures' /\ Waits'
  BY <1>1, <1>2 DEF JobInv, Budgets, Failures, Waits
<1>7. Results' /\ (late' > 0 => marker' /\ late' <= 1)
  BY <1>2, <1>3 DEF JobInv, Results, Terminal, Lateness
<1>8. (Serial /\ WaitsForCompletion /\ tree.snapshot => HasPassed)'
  BY <1>2 DEF WaitsForCompletion
<1> QED
  BY <1>3, <1>4, <1>5, <1>6, <1>7, <1>8, IdleInv

LEMMA ReportsInv == ASSUME JobInv, Reports PROVE JobInv'
<1>1. /\ run.pc = "report" /\ run' = Idle /\ result' = Written(st)
      /\ UNCHANGED <<ctx, entry, tree, files, marker, left, late>>
  BY DEF Reports, Ends
<1>2. /\ Keeps(st') /\ st'.last.n <= st.round /\ st'.status = st.status /\ st'.phase = st.phase
  <2>1. CASE ctx.adaptive
    <3>1. st' = [st EXCEPT !.last = run.last] /\ run.last \in Report /\ run.last.n <= st.round
      BY <2>1, Typed DEF Reports, JobInv, Rounds
    <3> QED
      BY <3>1, WithReports DEF JobInv, TypeOK, StateType
  <2>2. CASE ~ctx.adaptive
    BY <2>2, WithReports, Typed DEF Reports, JobInv, Rounds
  <2> QED
    BY <2>1, <2>2
<1>3. result' \in ResultType /\ result'.status = st.status
  BY <1>1, Typed, WrittenFacts DEF JobInv
<1>4. TypeOK' /\ Results'
  BY <1>1, <1>2, <1>3, IdleType DEF JobInv, TypeOK, Keeps, ResultType, Results
<1> QED
  BY <1>1, <1>2, <1>4, EndsInv

LEMMA TidiesInv == ASSUME JobInv, Tidies PROVE JobInv'
<1> DEFINE clean == ~ctx.keep /\ ~Recoverable /\ st.status \in Terminal
<1>1. /\ run.pc = "tidy" /\ result' = Written(st)
      /\ tree' = IF clean THEN Cleaned(tree) ELSE tree
      /\ files' = [files EXCEPT !.patch = IF clean /\ ctx.isolated /\ @ = "fresh" THEN "stale" ELSE @]
      /\ UNCHANGED <<ctx, st, entry, marker, left, late>>
  BY DEF Tidies
<1> HIDE DEF clean
<1>2. files' \in FilesType
  BY <1>1, Typed DEF JobInv, FilesType
<1>3. /\ tree' \in TreeType
      /\ tree'.snapshot =>
           tree.snapshot /\ tree'.tested = tree.tested /\ tree'.reviewed = tree.reviewed
  BY <1>1, Typed, CleanedFacts DEF JobInv
<1>4. result' \in ResultType /\ result'.status = st.status
  BY <1>1, Typed, WrittenFacts DEF JobInv
<1>5. CASE run.then = "end"
  <2>1. run' = Idle
    BY <1>5 DEF Tidies, Ends
  <2>2. TypeOK' /\ Results'
    BY <1>1, <1>2, <1>3, <1>4, <2>1, IdleType
       DEF JobInv, TypeOK, TreeType, FilesType, ResultType, Results
  <2>3. Keeps(st') /\ st'.last.n <= st.round
    BY <1>1, WithReports, Typed DEF JobInv, Rounds
  <2> QED
    BY <1>1, <1>3, <2>1, <2>2, <2>3, EndsInv
<1>6. CASE run.then # "end"
  <2>1. /\ run' \in RunType /\ run'.pc = run.then /\ run'.pc \in {"report", "again"}
        /\ run'.last = run.last /\ run'.stage = run.stage /\ run'.then = run.then
    BY <1>6, Typed DEF Tidies, JobInv, RunType
  <2>2. TypeOK'
    BY <1>1, <1>2, <1>3, <1>4, <2>1 DEF JobInv, TypeOK, TreeType, FilesType, ResultType
  <2>3. Rounds' /\ Kinds' /\ Budgets' /\ Failures'
    BY <1>1, <2>1 DEF JobInv, Rounds, Kinds, Serial, Budgets, Failures
  <2>4. Gates' /\ Outcomes' /\ Entries' /\ Lateness' /\ Results'
    BY <1>1, <1>4, <2>1
       DEF JobInv, Gates, Waits, Quiet, Outcomes, Entries, Lateness, Results
  <2>5. Passed'
    BY <1>1, <1>3, <2>1 DEF JobInv, Passed, WaitsForCompletion, HasPassed, Serial, Structured
  <2> QED
    BY <2>2, <2>3, <2>4, <2>5 DEF JobInv
<1> QED
  BY <1>5, <1>6

LEMMA AgainInv == ASSUME JobInv, Again PROVE JobInv'
<1>1. run.pc = "again" /\ UNCHANGED <<ctx, entry, tree, files, marker, result, left, late>>
  BY DEF Again
<1>2. CASE st.status = "needs_fix" /\ st.phase = "verification_gate" /\ run.last.n > 0
  <2>1. /\ run' \in RunType /\ run'.pc = "round" /\ run'.last = run.last /\ run'.stage = run.stage
        /\ run'.then = run.then
    <3> DEFINE n == run.streak + 1
    <3>1. n \in Nat /\ run' = [run EXCEPT !.pc = "round", !.streak = n]
      BY <1>2, Typed DEF Again, JobInv, RunType
    <3> HIDE DEF n
    <3> QED
      BY <3>1, Typed DEF JobInv, RunType, Working
  <2>2. /\ st' \in StateType /\ st' = [st EXCEPT !.streak = run.streak + 1]
        /\ Keeps(st') /\ st'.last = st.last /\ st'.status = st.status /\ st'.phase = st.phase
    <3> DEFINE n == run.streak + 1
    <3>1. n \in Nat /\ st' = [st EXCEPT !.streak = n]
      BY <1>2, Typed DEF Again, JobInv, RunType
    <3> HIDE DEF n
    <3> QED
      BY <3>1, Typed DEF JobInv, StateType, Keeps, n
  <2>3. TypeOK'
    BY <1>1, <2>1, <2>2 DEF JobInv, TypeOK
  <2>4. Rounds' /\ Kinds' /\ Budgets' /\ Failures'
    BY <1>1, <2>1, <2>2 DEF JobInv, Rounds, Kinds, Serial, Budgets, Failures, Keeps
  <2>5. Gates' /\ Outcomes' /\ Entries'
    BY <1>1, <1>2, <2>1, <2>2
       DEF JobInv, Gates, Waits, Quiet, Outcomes, Entries, Keeps, Kinds
  <2>6. Lateness' /\ Results'
    BY <1>1, <2>1, <2>2 DEF JobInv, Lateness, Results
  <2>7. Passed'
    BY <1>1, <1>2, <2>1, <2>2 DEF Passed, WaitsForCompletion
  <2> QED
    BY <2>3, <2>4, <2>5, <2>6, <2>7 DEF JobInv
<1>3. CASE ~(st.status = "needs_fix" /\ st.phase = "verification_gate" /\ run.last.n > 0)
  <2>1. run' = Idle /\ UNCHANGED st
    BY <1>3 DEF Again, Ends
  <2>2. TypeOK' /\ Results'
    BY <1>1, <2>1, IdleType DEF JobInv, TypeOK, Results
  <2>3. Keeps(st') /\ st'.last.n <= st.round
    BY <2>1, WithReports, Typed DEF JobInv, Rounds
  <2> QED
    BY <1>1, <2>1, <2>2, <2>3, EndsInv
<1> QED
  BY <1>2, <1>3

-----------------------------------------------------------------------------
(* Steps of a run that goes on. *)

AtWork == Working \cup {"finish"}

LEMMA WorkInv ==
  ASSUME JobInv, st' \in StateType, run' \in RunType, tree' \in TreeType, files' \in FilesType,
         late' \in Nat, UNCHANGED <<ctx, entry, marker, result, left>>,
         run.pc \in Working \cup {"locked"}, run'.pc \in AtWork,
         run.pc = "locked" => (ctx.beforeRun => st.approved),
         Rounds', Kinds', Budgets', Outcomes',
         st'.gate = st.gate, st'.approved = st.approved, st'.key = st.key, st'.count = st.count,
         st'.status \in {st.status, "running"},
         late' > 0 => late' = 1 /\ marker /\ run'.pc \in {"round", "attempt", "finish"},
         Serial /\ run'.pc = "review" => tree'.tested,
         Serial /\ run'.pc = "finish" /\ run'.status = "done" => HasPassed'
  PROVE  JobInv'
<1>1. run.pc \notin Quiet /\ run'.pc \notin Quiet \cup {"locked"}
  BY DEF Working, AtWork, Quiet
<1>2. TypeOK'
  BY DEF JobInv, TypeOK, TreeType, FilesType
<1>3. st.gate = "none" /\ st.status # "awaiting_approval"
  BY <1>1, NotWaiting
<1>4. Failures'
  BY DEF JobInv, Failures
<1>5. Gates'
  BY <1>1, <1>3 DEF JobInv, Gates, Waits, Quiet
<1>6. Entries' /\ Lateness'
  BY <1>1 DEF JobInv, Entries, Lateness
<1>7. Results'
  BY <1>1 DEF JobInv, Results, Quiet, Terminal
<1>8. Passed'
  BY <1>3 DEF Passed, WaitsForCompletion, Serial
<1> QED
  BY <1>2, <1>4, <1>5, <1>6, <1>7, <1>8 DEF JobInv

LEMMA FinishFacts ==
  ASSUME NEW r \in RunType, NEW status \in Status, NEW phase \in Phase, NEW gate \in Gate,
         NEW error \in Error, NEW then \in {"end", "report", "again"},
         run' = Finish(r, status, phase, gate, error, then)
  PROVE  /\ run' \in RunType /\ run'.pc = "finish" /\ run'.status = status
         /\ run'.phase = phase /\ run'.gate = gate /\ run'.error = error /\ run'.then = then
         /\ run'.stage = r.stage /\ run'.skip = r.skip /\ run'.last = r.last
         /\ run'.testOk = r.testOk /\ run'.verdict = r.verdict
BY DEF Finish, RunType

LEMMA StartsInv == ASSUME JobInv, Starts PROVE JobInv'
<1>1. /\ run.pc = "idle" /\ entry = "open"
      /\ st.gate \notin {"before_run", "completion", "max_rounds"}
      /\ UNCHANGED <<ctx, entry, tree, files, marker, result, left, late>>
  BY DEF Starts
<1>2. /\ run' \in RunType /\ run'.pc = "locked" /\ run'.last.n = 0 /\ run'.stage = 1
      /\ run'.then = "end"
  <2>1. run' = [Idle EXCEPT !.pc = "locked"]
    BY DEF Starts
  <2>2. Idle.last.n = 0 /\ Idle.stage = 1 /\ Idle.then = "end"
    BY DEF Idle, NoReport
  <2> QED
    BY <2>1, <2>2, IdleType DEF RunType
<1>3. /\ st' \in StateType /\ st'.gate = "none" /\ st'.status = st.status /\ st'.phase = st.phase
      /\ st'.count \in {0, st.count} /\ st'.approved = st.approved
      /\ st'.round = st.round /\ st'.maxRounds = st.maxRounds /\ st'.last = st.last
      /\ st.gate = "none" => st' = st
      /\ \A i \in Index : /\ st'.execution[i] \in {0, st.execution[i]}
                          /\ st'.fix[i] \in {0, st.fix[i]}
  <2>1. CASE st.gate = "none"
    BY <2>1, Typed DEF Starts, JobInv
  <2>2. CASE st.gate # "none"
    <3>1. st' = Resolved(st) /\ st \in StateType
      BY <2>2, Typed DEF Starts, JobInv
    <3> QED
      BY <2>2, <3>1 DEF Resolved, StateType, Gate, Error
  <2> QED
    BY <2>1, <2>2
<1>4. st.status # "awaiting_approval"
  BY <1>1 DEF JobInv, Gates, Waits
<1>5. st.gate = "none" => st.count <= 2
  BY DEF JobInv, Failures
<1>6. TypeOK'
  BY <1>1, <1>2, <1>3 DEF JobInv, TypeOK
<1>7. Rounds' /\ Kinds'
  BY <1>1, <1>2, <1>3, Typed, RunAssumption DEF JobInv, Rounds, Kinds, Serial
<1>8. Budgets' /\ Failures'
  <2>1. \A i \in Index : st'.execution[i] <= ExecutionRetries /\ st'.fix[i] <= FixRetries
    BY <1>3, RunAssumption DEF JobInv, Budgets
  <2>2. st'.count <= 2
    <3>1. CASE st.gate = "none"
      BY <1>3, <1>5, <3>1
    <3>2. CASE st.gate # "none"
      BY <3>2 DEF Starts, Resolved, JobInv, TypeOK, StateType
    <3> QED
      BY <3>1, <3>2
  <2> QED
    BY <2>1, <2>2 DEF Budgets, Failures
<1>9. Gates' /\ Outcomes'
  BY <1>2, <1>3, <1>4 DEF Gates, Waits, Outcomes
<1>10. Entries' /\ Lateness' /\ Results'
  BY <1>1, <1>2, <1>3, Typed DEF JobInv, Entries, Lateness, Results
<1>11. Passed'
  BY <1>2, <1>3, <1>4 DEF Passed, WaitsForCompletion
<1> QED
  BY <1>6, <1>7, <1>8, <1>9, <1>10, <1>11 DEF JobInv

LEMMA PreparesInv == ASSUME JobInv, Prepares PROVE JobInv'
<1>1. /\ run.pc = "locked" /\ (ctx.beforeRun => st.approved)
      /\ UNCHANGED <<ctx, st, entry, marker, result, left, late>>
  BY DEF Prepares
<1>2. tree' \in TreeType /\ files' \in FilesType
  BY Typed DEF Prepares, JobInv, TreeType, FilesType
<1> DEFINE pc   == IF ctx.contract /\ ~files.understanding THEN "handshake"
                   ELSE IF ctx.adaptive THEN "round" ELSE "attempt"
           last == IF ctx.adaptive THEN st.last ELSE NoReport
           skip == 1 \in ctx.skip
<1>3. /\ run' = [run EXCEPT !.pc = pc, !.skip = skip, !.streak = st.streak, !.last = last]
  BY DEF Prepares
<1>4. /\ pc \in {"handshake", "round", "attempt"} /\ (pc = "round" => ctx.adaptive)
      /\ (pc = "attempt" => ~ctx.adaptive) /\ skip \in BOOLEAN
      /\ last \in Report /\ (ctx.adaptive => last.n <= st.round)
  BY Typed DEF JobInv, Rounds, NoReport, Report, Verdict
<1>5. st.streak \in Nat
  BY Typed DEF JobInv, StateType
<1> HIDE DEF pc, last, skip
<1>6. /\ run' \in RunType /\ run'.pc = pc /\ run'.skip = skip /\ run'.last = last
      /\ run'.stage = run.stage /\ run'.then = run.then
  BY <1>3, <1>4, <1>5, Typed DEF JobInv, RunType, Working
<1>7. Rounds' /\ Budgets' /\ Outcomes'
  BY <1>1, <1>4, <1>6 DEF JobInv, Rounds, Budgets, Outcomes
<1>8. Kinds'
  BY <1>1, <1>4, <1>6 DEF JobInv, Kinds, Serial, skip
<1>9. late' = late /\ late \in Nat /\ ~(late > 0)
  BY <1>1, Typed DEF JobInv, Lateness, Quiet
<1> QED
  BY <1>1, <1>2, <1>4, <1>6, <1>7, <1>8, <1>9, Typed, WorkInv DEF JobInv, AtWork, Working

LEMMA HandshakeInv == ASSUME JobInv, Handshake PROVE JobInv'
<1>1. run.pc = "handshake" /\ UNCHANGED <<ctx, st, entry, marker, result, left>> /\ Invoked
  BY DEF Handshake
<1>2. late' \in Nat /\ (late' > 0 => late' = 1 /\ marker)
  BY <1>1, Typed, InvokedOnce DEF JobInv, Lateness, Quiet
<1>3. Budgets'
  BY <1>1 DEF JobInv, Budgets
<1>4. CASE /\ files' = [files EXCEPT !.understanding = TRUE]
           /\ run' = [run EXCEPT !.pc = IF ctx.adaptive THEN "round" ELSE "attempt"]
           /\ UNCHANGED tree
  <2>1. files' \in FilesType /\ tree' \in TreeType
    BY <1>4, Typed DEF JobInv, FilesType
  <2>2. /\ run' \in RunType /\ run'.pc = IF ctx.adaptive THEN "round" ELSE "attempt"
        /\ run'.skip = run.skip /\ run'.last = run.last /\ run'.stage = run.stage
        /\ run'.then = run.then
    BY <1>4, Typed DEF JobInv, RunType, Working
  <2>3. Rounds' /\ Kinds' /\ Outcomes'
    BY <1>1, <2>2 DEF JobInv, Rounds, Kinds, Serial, Outcomes
  <2> QED
    BY <1>1, <1>2, <1>3, <2>1, <2>2, <2>3, Typed, WorkInv DEF JobInv, AtWork, Working
<1>5. ASSUME NEW phase \in {"other", "awaiting_clarification"}, NEW gate \in {"none", "needs_input"},
             NEW error \in {"handshake", "other"},
             run' = Finish(run, "needs_fix", phase, gate, error, "end"),
             tree' \in TreeType, files' \in FilesType
      PROVE  JobInv'
  <2>1. /\ run' \in RunType /\ run'.pc = "finish" /\ run'.status = "needs_fix" /\ run'.phase = phase
        /\ run'.then = "end" /\ run'.stage = run.stage /\ run'.last = run.last
    <3>1. "needs_fix" \in Status /\ phase \in Phase /\ gate \in Gate /\ error \in Error
      BY DEF Status, Phase, Gate, Error
    <3> QED
      BY <1>5, <3>1, Typed, FinishFacts DEF JobInv
  <2>2. Rounds' /\ Kinds' /\ Outcomes'
    BY <1>1, <2>1 DEF JobInv, Rounds, Kinds, Serial, Outcomes, Terminal
  <2> QED
    BY <1>1, <1>2, <1>3, <1>5, <2>1, <2>2, Typed, WorkInv DEF JobInv, AtWork, Working
<1>6. ASSUME Edit \/ UNCHANGED <<tree, files>>
      PROVE  tree' \in TreeType /\ files' \in FilesType
  BY <1>6, EditType, Typed DEF JobInv
<1>7. ASSUME files' = [files EXCEPT !.understanding = TRUE], UNCHANGED tree
      PROVE  tree' \in TreeType /\ files' \in FilesType
  BY <1>7, Typed DEF JobInv, FilesType
<1> QED
  BY <1>4, <1>5, <1>6, <1>7 DEF Handshake

LEMMA RoundInv == ASSUME JobInv, Round PROVE JobInv'
<1>1. /\ run.pc = "round" /\ st.round < st.maxRounds /\ ~marker
      /\ UNCHANGED <<ctx, entry, tree, files, marker, result, left, late>>
  BY DEF Round
<1>2. /\ st' \in StateType /\ st'.status = "running" /\ st'.round = st.round + 1
      /\ st'.maxRounds = st.maxRounds /\ st'.last = st.last /\ st'.gate = st.gate
      /\ st'.approved = st.approved /\ st'.key = st.key /\ st'.count = st.count
      /\ st'.execution = st.execution /\ st'.fix = st.fix
  <2> DEFINE n == st.round + 1
  <2>1. n \in Nat /\ st' = [st EXCEPT !.status = "running", !.phase = "other", !.round = n]
    BY Typed DEF Round, JobInv
  <2> HIDE DEF n
  <2>2. /\ st' \in StateType /\ st'.status = "running" /\ st'.round = n
        /\ st'.maxRounds = st.maxRounds /\ st'.last = st.last /\ st'.gate = st.gate
        /\ st'.approved = st.approved /\ st'.key = st.key /\ st'.count = st.count
        /\ st'.execution = st.execution /\ st'.fix = st.fix
    BY <2>1, Typed DEF JobInv, StateType, Status, Phase
  <2> QED
    BY <2>2 DEF n
<1>3. /\ run' \in RunType /\ run'.pc = "manager" /\ run'.last = run.last /\ run'.stage = run.stage
      /\ run'.then = run.then
  <2> DEFINE cached == run.streak \in 1 .. SkipLimit
  <2>1. cached \in BOOLEAN /\ run' = [run EXCEPT !.pc = "manager", !.cached = cached]
    BY DEF Round
  <2> HIDE DEF cached
  <2> QED
    BY <2>1, Typed DEF JobInv, RunType, Working
<1>4. Rounds' /\ Kinds' /\ Budgets' /\ Outcomes'
  <2>1. st.maxRounds \in Nat
    BY Typed DEF JobInv, StateType
  <2> QED
    BY <1>1, <1>2, <1>3, <2>1, Typed DEF JobInv, Rounds, Kinds, Serial, Budgets, Outcomes
<1>5. late' = late /\ late \in Nat /\ ~(late > 0)
  BY <1>1, Typed DEF JobInv, Lateness
<1> QED
  BY <1>1, <1>2, <1>3, <1>4, <1>5, Typed, WorkInv DEF JobInv, AtWork, Working

\* A run of an adaptive job that gives up, asks, or is done.
LEMMA ManagerFinishInv ==
  ASSUME JobInv, run.pc \in {"round", "manager"},
         UNCHANGED <<ctx, entry, marker, result, left>>,
         Keeps(st'), st'.status = st.status, st'.last = st.last,
         tree' \in TreeType, files' \in FilesType,
         NEW r \in RunType, r.stage = run.stage, r.last = run.last,
         NEW status \in Terminal, NEW phase \in Phase, NEW gate \in Gate, NEW error \in Error,
         NEW then \in {"end", "again"}, run' = Finish(r, status, phase, gate, error, then),
         phase \notin {"before_run", "before_complete", "verification_gate"},
         status = "done" => phase = "other" /\ gate = "none" /\ error = "none",
         late' \in Nat, late' > 0 => late' = 1 /\ marker
  PROVE  JobInv'
<1>1. ctx.adaptive
  BY DEF JobInv, Kinds
<1>2. /\ run' \in RunType /\ run'.pc = "finish" /\ run'.status = status /\ run'.phase = phase
      /\ run'.gate = gate /\ run'.error = error
      /\ run'.then = then /\ run'.stage = run.stage /\ run'.last = run.last
  BY FinishFacts DEF Terminal, Status
<1>3. Rounds' /\ Kinds' /\ Budgets' /\ Outcomes'
  BY <1>1, <1>2 DEF JobInv, Rounds, Kinds, Serial, Budgets, Outcomes, Keeps
<1> QED
  BY <1>1, <1>2, <1>3, WorkInv DEF Keeps, AtWork, Working, Serial

\* What the manager's own edits do to the evidence.
LEMMA AfterDiffFacts ==
  ASSUME NEW a \in Audit, NEW f
  PROVE  AfterDiff(a, f) \in Audit
BY DEF AfterDiff, NoAudit, Audit

LEMMA WithAudit ==
  ASSUME TypeOK, NEW a \in Audit
  PROVE  /\ [st EXCEPT !.audit = a] \in StateType /\ Keeps([st EXCEPT !.audit = a])
         /\ [st EXCEPT !.audit = a].status = st.status /\ [st EXCEPT !.audit = a].phase = st.phase
         /\ [st EXCEPT !.audit = a].last = st.last
BY DEF TypeOK, StateType, Keeps

LEMMA ManagerFailsInv == ASSUME JobInv, ManagerFails PROVE JobInv'
<1>1. run.pc = "manager" /\ UNCHANGED <<ctx, entry, marker, result, left>> /\ Invoked
  BY DEF ManagerFails
<1>2. late' \in Nat /\ (late' > 0 => late' = 1 /\ marker)
  BY <1>1, Typed, InvokedOnce DEF JobInv, Lateness, Quiet
<1>3. ASSUME NEW status \in {"failed", "needs_fix"}, NEW phase \in {"other", "adaptive_manager_safety"},
             NEW error \in {"other", "manager", "decision"},
             run' = Finish(run, status, phase, "none", error, "end"),
             Keeps(st'), st'.status = st.status, st'.last = st.last,
             tree' \in TreeType, files' \in FilesType
      PROVE  JobInv'
  <2>1. phase \in Phase /\ "none" \in Gate /\ error \in Error /\ status \in Terminal
    BY DEF Phase, Gate, Error, Terminal
  <2> QED
    BY <1>1, <1>2, <1>3, <2>1, Typed, ManagerFinishInv DEF JobInv
<1>4. CASE /\ run' = Finish(run, "failed", "adaptive_manager_safety", "none", "other", "end")
           /\ tree' = Edited(tree)
           /\ st' = [st EXCEPT !.audit = AfterDiff(@, [patch |-> "stale"])]
           /\ files' = Collected(files)
  <2> DEFINE a == AfterDiff(st.audit, [patch |-> "stale"])
  <2>1. a \in Audit /\ st' = [st EXCEPT !.audit = a]
    BY <1>4, Typed, AfterDiffFacts DEF JobInv, StateType
  <2> HIDE DEF a
  <2>2. Keeps(st') /\ st'.status = st.status /\ st'.last = st.last
    BY <2>1, WithAudit DEF JobInv
  <2>3. tree' \in TreeType /\ files' \in FilesType
    BY <1>4, Typed, EditedFacts, PatchStale DEF JobInv, Collected
  <2> QED
    BY <1>3, <1>4, <2>2, <2>3
<1>5. CASE /\ \/ run' = Finish(run, "failed", "other", "none", "manager", "end")
              \/ run' = Finish(run, "needs_fix", "other", "none", "decision", "end")
           /\ UNCHANGED <<st, tree, files>>
  <2>1. Keeps(st') /\ st'.status = st.status /\ st'.last = st.last
    BY <1>5, WithReports, Typed DEF JobInv
  <2> QED
    BY <1>3, <1>5, <2>1, Typed DEF JobInv
<1> QED
  BY <1>4, <1>5 DEF ManagerFails

LEMMA RoundsExhaustedInv == ASSUME JobInv, RoundsExhausted PROVE JobInv'
<1>1. /\ run.pc = "round" /\ UNCHANGED <<ctx, st, entry, tree, files, marker, result, left, late>>
      /\ run' = Finish(run, "needs_fix", "adaptive_max_rounds", "max_rounds", "other", "end")
  BY DEF RoundsExhausted
<1>2. late' \in Nat /\ (late' > 0 => late' = 1 /\ marker)
  BY <1>1, Typed DEF JobInv, Lateness
<1>3. /\ "needs_fix" \in Terminal /\ "adaptive_max_rounds" \in Phase /\ "max_rounds" \in Gate
      /\ "other" \in Error
  BY DEF Terminal, Phase, Gate, Error
<1>4. Keeps(st') /\ st'.status = st.status /\ st'.last = st.last
  BY <1>1, WithReports, Typed DEF JobInv
<1> QED
  BY <1>1, <1>2, <1>3, <1>4, Typed, ManagerFinishInv DEF JobInv

\* A decision is only taken without a marker, by the manager or from the last.
LEMMA DecidesFacts ==
  ASSUME JobInv, NEW action, Decides(action),
         UNCHANGED <<st, entry, tree, files, marker, result, left>>
  PROVE  /\ run.pc = "manager" /\ late' = 0 /\ late' \in Nat
         /\ Keeps(st') /\ st'.status = st.status /\ st'.last = st.last
         /\ tree' \in TreeType /\ files' \in FilesType
<1>1. run.pc = "manager" /\ ~marker /\ late = 0
  BY Typed DEF Decides, JobInv, Lateness
<1>2. late' = 0
  BY <1>1 DEF Decides, Invoked
<1> QED
  BY <1>1, <1>2, WithReports, Typed DEF JobInv

LEMMA ManagerAsksInv == ASSUME JobInv, ManagerAsks PROVE JobInv'
<1>1. Decides("ask") /\ UNCHANGED <<ctx, st, entry, tree, files, marker, result, left>>
  BY DEF ManagerAsks
<1>2. PICK phase \in {"adaptive_ask", "adaptive_blocked"} :
        run' = Finish([run EXCEPT !.streak = 0], "needs_fix", phase, "needs_input", "other", "end")
  BY DEF ManagerAsks
<1> DEFINE r == [run EXCEPT !.streak = 0]
<1>3. r \in RunType /\ r.stage = run.stage /\ r.last = run.last
  BY Typed DEF JobInv, RunType
<1>4. "needs_fix" \in Terminal /\ phase \in Phase /\ "needs_input" \in Gate /\ "other" \in Error
  BY DEF Terminal, Phase, Gate, Error
<1>5. run' = Finish(r, "needs_fix", phase, "needs_input", "other", "end")
  BY <1>2
<1> HIDE DEF r
<1>6. /\ run.pc = "manager" /\ late' = 0 /\ late' \in Nat
      /\ Keeps(st') /\ st'.status = st.status /\ st'.last = st.last
      /\ tree' \in TreeType /\ files' \in FilesType
  BY <1>1, DecidesFacts
<1> QED
  BY <1>1, <1>3, <1>4, <1>5, <1>6, ManagerFinishInv

LEMMA ManagerDoneInv == ASSUME JobInv, ManagerDone PROVE JobInv'
<1>1. Decides("done") /\ UNCHANGED <<ctx, st, entry, tree, files, marker, result, left>>
  BY DEF ManagerDone
<1> DEFINE r == [run EXCEPT !.testOk = run.last.testOk, !.verdict = run.last.verdict]
<1>2. r \in RunType /\ r.stage = run.stage /\ r.last = run.last
  BY Typed DEF JobInv, RunType, Report
<1>3. "done" \in Terminal /\ "other" \in Phase /\ "none" \in Gate /\ "none" \in Error
  BY DEF Terminal, Phase, Gate, Error
<1>4. run' = Finish(r, "done", "other", "none", "none", "again")
  BY DEF ManagerDone
<1> HIDE DEF r
<1>5. /\ run.pc = "manager" /\ late' = 0 /\ late' \in Nat
      /\ Keeps(st') /\ st'.status = st.status /\ st'.last = st.last
      /\ tree' \in TreeType /\ files' \in FilesType
  BY <1>1, DecidesFacts
<1> QED
  BY <1>1, <1>2, <1>3, <1>4, <1>5, ManagerFinishInv

LEMMA ManagerExecutesInv == ASSUME JobInv, ManagerExecutes PROVE JobInv'
<1>1. Decides("execute") /\ UNCHANGED <<ctx, st, entry, tree, files, marker, result, left>>
  BY DEF ManagerExecutes
<1>2. /\ run.pc = "manager" /\ late' = 0 /\ late' \in Nat
      /\ Keeps(st') /\ st'.status = st.status /\ st'.last = st.last
      /\ tree' \in TreeType /\ files' \in FilesType
  BY <1>1, DecidesFacts
<1>3. ctx.adaptive
  BY <1>2 DEF JobInv, Kinds
<1> DEFINE n == run.last.n + 1
<1>4. PICK skip \in BOOLEAN :
        run' = [run EXCEPT !.pc = "attempt", !.streak = 0, !.stage = n, !.skip = skip]
  BY DEF ManagerExecutes
<1>5. n \in Index
  <2>1. run.last.n < st.round /\ st.round <= st.maxRounds /\ st.maxRounds <= RoundLimit
    BY <1>2, <1>3 DEF JobInv, Rounds
  <2>2. run.last.n \in Nat /\ st.round \in Nat /\ st.maxRounds \in Nat
    BY Typed DEF JobInv, StateType
  <2> QED
    BY <2>1, <2>2, RunAssumption DEF Index
<1> HIDE DEF n
<1>6. /\ run' \in RunType /\ run'.pc = "attempt" /\ run'.last = run.last /\ run'.then = run.then
  BY <1>4, <1>5, Typed DEF JobInv, RunType, Working
<1>7. Rounds' /\ Kinds' /\ Budgets' /\ Outcomes'
  BY <1>1, <1>2, <1>3, <1>6 DEF JobInv, Rounds, Kinds, Serial, Budgets, Outcomes
<1> QED
  BY <1>1, <1>2, <1>3, <1>6, <1>7, WorkInv DEF Keeps, AtWork, Working, Serial

-----------------------------------------------------------------------------
(* The steps of a stage. *)

\* A stage that works: what its steps have in common.
StageWorks ==
  /\ run.pc \in {"execute", "test", "review"}
  /\ UNCHANGED <<ctx, entry, marker, result, left>>
  /\ tree' \in TreeType /\ files' \in FilesType
  /\ late' \in Nat /\ (late' > 0 => late' = 1 /\ marker)

\* The state, but for the audit.
Like(s) == Keeps(s) /\ s.status = st.status /\ s.last = st.last

LEMMA LikeState == ASSUME TypeOK PROVE Like(st)
BY DEF TypeOK, Like, Keeps

LEMMA LikeAudit == ASSUME TypeOK, NEW a \in Audit PROVE Like([st EXCEPT !.audit = a])
BY WithAudit DEF Like

LEMMA StageOf ==
  ASSUME JobInv
  PROVE  /\ run.stage \in Index
         /\ st.execution \in [Index -> Nat] /\ st.fix \in [Index -> Nat]
BY Typed DEF JobInv, RunType, StateType

LEMMA OneMore ==
  ASSUME NEW f \in [Index -> Nat], NEW i \in Index
  PROVE  /\ [f EXCEPT ![i] = @ + 1] \in [Index -> Nat]
         /\ \A j \in Index : [f EXCEPT ![i] = @ + 1][j] = IF j = i THEN f[j] + 1 ELSE f[j]
OBVIOUS

LEMMA RetriedFacts ==
  ASSUME JobInv, NEW s, Like(s),
         (CanRetryExecution /\ RetriesExecution(s)) \/ (CanRetryFix /\ RetriesFix(s))
  PROVE  /\ st' \in StateType /\ st'.status = st.status /\ st'.last = st.last
         /\ st'.gate = st.gate /\ st'.approved = st.approved /\ st'.key = st.key
         /\ st'.count = st.count /\ st'.round = st.round /\ st'.maxRounds = st.maxRounds
         /\ Budgets'
         /\ \A i \in Index : st'.execution[i] >= st.execution[i] /\ st'.fix[i] >= st.fix[i]
<1> DEFINE i == run.stage
           e == [st.execution EXCEPT ![i] = @ + 1]
           x == [st.fix EXCEPT ![i] = @ + 1]
<1>1. i \in Index /\ st.execution \in [Index -> Nat] /\ st.fix \in [Index -> Nat]
  BY StageOf
<1>2. /\ e \in [Index -> Nat] /\ \A j \in Index : e[j] = IF j = i THEN st.execution[j] + 1 ELSE st.execution[j]
      /\ x \in [Index -> Nat] /\ \A j \in Index : x[j] = IF j = i THEN st.fix[j] + 1 ELSE st.fix[j]
  BY <1>1, OneMore
<1>3. s \in StateType /\ s.execution = st.execution /\ s.fix = st.fix
  BY DEF Like, Keeps
<1>4. \/ st.execution[i] < ExecutionRetries /\ st' = [s EXCEPT !.execution = e]
      \/ st.fix[i] < FixRetries /\ st' = [s EXCEPT !.fix = x]
  BY <1>3 DEF CanRetryExecution, RetriesExecution, CanRetryFix, RetriesFix, StateType
<1> HIDE DEF i, e, x
<1>5. CASE st.execution[i] < ExecutionRetries /\ st' = [s EXCEPT !.execution = e]
  <2>1. /\ st' \in StateType /\ st'.execution = e /\ st'.fix = st.fix
        /\ st'.status = st.status /\ st'.last = st.last
        /\ st'.gate = st.gate /\ st'.approved = st.approved /\ st'.key = st.key
        /\ st'.count = st.count /\ st'.round = st.round /\ st'.maxRounds = st.maxRounds
    BY <1>2, <1>3, <1>5 DEF StateType, Like, Keeps
  <2>2. \A j \in Index : e[j] <= ExecutionRetries /\ e[j] >= st.execution[j]
    BY <1>1, <1>2, <1>5, RunAssumption DEF JobInv, Budgets
  <2> QED
    BY <1>1, <2>1, <2>2 DEF JobInv, Budgets
<1>6. CASE st.fix[i] < FixRetries /\ st' = [s EXCEPT !.fix = x]
  <2>1. /\ st' \in StateType /\ st'.execution = st.execution /\ st'.fix = x
        /\ st'.status = st.status /\ st'.last = st.last
        /\ st'.gate = st.gate /\ st'.approved = st.approved /\ st'.key = st.key
        /\ st'.count = st.count /\ st'.round = st.round /\ st'.maxRounds = st.maxRounds
    BY <1>2, <1>3, <1>6 DEF StateType, Like, Keeps
  <2>2. \A j \in Index : x[j] <= FixRetries /\ x[j] >= st.fix[j]
    BY <1>1, <1>2, <1>6, RunAssumption DEF JobInv, Budgets
  <2> QED
    BY <1>1, <2>1, <2>2 DEF JobInv, Budgets
<1> QED
  BY <1>4, <1>5, <1>6

LEMMA RetriedInv ==
  ASSUME JobInv, StageWorks, NEW s, Like(s),
         (CanRetryExecution /\ RetriesExecution(s)) \/ (CanRetryFix /\ RetriesFix(s))
  PROVE  JobInv'
<1>1. /\ st' \in StateType /\ st'.status = st.status /\ st'.last = st.last
      /\ st'.gate = st.gate /\ st'.approved = st.approved /\ st'.key = st.key
      /\ st'.count = st.count /\ st'.round = st.round /\ st'.maxRounds = st.maxRounds
      /\ Budgets'
  BY RetriedFacts
<1>2. /\ run' \in RunType /\ run'.pc = "attempt" /\ run'.stage = run.stage /\ run'.skip = run.skip
      /\ run'.last = run.last /\ run'.then = run.then
  <2>1. run' = [run EXCEPT !.pc = "attempt"]
    BY DEF RetriesExecution, RetriesFix
  <2> QED
    BY <2>1, Typed DEF JobInv, RunType, Working
<1>3. Rounds' /\ Kinds' /\ Outcomes'
  BY <1>1, <1>2 DEF JobInv, StageWorks, Rounds, Kinds, Serial, Outcomes
<1> QED
  BY <1>1, <1>2, <1>3, WorkInv DEF StageWorks, AtWork, Working

LEMMA StageFailsInv ==
  ASSUME JobInv, StageWorks, NEW s, Like(s), st' = s,
         NEW status \in {"failed", "needs_fix", "review_failed"},
         NEW phase \in {"other", "awaiting_clarification"},
         NEW gate \in {"none", "semantic_conflict"}, NEW error \in Error,
         NEW verdict \in Verdict, NEW ok \in BOOLEAN,
         StageFails(status, phase, gate, error, verdict, ok)
  PROVE  JobInv'
<1> DEFINE r == Reported(run, verdict, ok)
<1>1. r \in RunType /\ r.last \in Report /\ r.last.n = run.last.n + 1 /\ r.stage = run.stage
  <2>1. /\ \A f \in {"pc", "stage", "skip", "cached", "streak", "status", "phase", "gate", "error",
                      "then", "testOk", "verdict"} : r[f] = run[f]
    BY Typed, ReportedFacts DEF JobInv
  <2> QED
    BY <2>1, Typed, ReportedFacts DEF JobInv
<1>2. run' = Finish(r, status, phase, gate, error, "report")
  BY DEF StageFails
<1> HIDE DEF r
<1>3. status \in Status /\ status \in Terminal /\ status # "done" /\ phase \in Phase /\ gate \in Gate
  BY DEF Status, Terminal, Phase, Gate
<1>4. /\ run' \in RunType /\ run'.pc = "finish" /\ run'.status = status /\ run'.phase = phase
      /\ run'.then = "report" /\ run'.stage = run.stage /\ run'.last = r.last
  BY <1>1, <1>2, <1>3, FinishFacts
<1>5. Rounds' /\ Kinds' /\ Budgets' /\ Outcomes'
  BY <1>1, <1>3, <1>4, Typed
     DEF JobInv, StageWorks, Rounds, Kinds, Serial, Budgets, Outcomes, Like, Keeps
<1> QED
  BY <1>3, <1>4, <1>5, WorkInv DEF StageWorks, Like, Keeps, AtWork, Working

LEMMA FixOrFailInv ==
  ASSUME JobInv, StageWorks, NEW s, Like(s),
         NEW status \in {"needs_fix", "review_failed"}, NEW error \in Error,
         NEW verdict \in Verdict, NEW ok \in BOOLEAN,
         FixOrFail(s, status, error, verdict, ok)
  PROVE  JobInv'
<1>1. CASE CanRetryFix
  BY <1>1, RetriedInv DEF FixOrFail
<1>2. CASE ~CanRetryFix
  BY <1>2, StageFailsInv DEF FixOrFail
<1> QED
  BY <1>1, <1>2

\* A serial job passes with what its last stage has passed.
LEMMA StagePassesInv ==
  ASSUME JobInv, StageWorks, ~marker, NEW s, Like(s), NEW verdict \in Verdict,
         StagePasses(s, verdict), Serial => HasPassed'
  PROVE  JobInv'
<1> DEFINE r == Reported(run, verdict, TRUE)
<1>1. /\ r \in RunType /\ r.last \in Report /\ r.last.n = run.last.n + 1
      /\ r.stage = run.stage /\ r.then = run.then
  <2>1. /\ \A f \in {"pc", "stage", "skip", "cached", "streak", "status", "phase", "gate", "error",
                      "then", "testOk", "verdict"} : r[f] = run[f]
    BY Typed, ReportedFacts DEF JobInv
  <2> QED
    BY <2>1, Typed, ReportedFacts DEF JobInv
<1>2. ~(late' > 0)
  BY DEF StageWorks
<1>3. s \in StateType
  BY DEF Like, Keeps
<1>4. CASE ctx.adaptive
  <2>1. run' = [r EXCEPT !.pc = "round"] /\ st' = [s EXCEPT !.last = r.last]
    BY <1>4 DEF StagePasses
  <2> HIDE DEF r
  <2>2. /\ run' \in RunType /\ run'.pc = "round" /\ run'.last = r.last /\ run'.stage = run.stage
    BY <1>1, <2>1 DEF RunType, Working
  <2>3. /\ st' \in StateType /\ st'.status = st.status /\ st'.last = r.last
        /\ st'.gate = st.gate /\ st'.approved = st.approved /\ st'.key = st.key
        /\ st'.count = st.count /\ st'.round = st.round /\ st'.maxRounds = st.maxRounds
        /\ st'.execution = st.execution /\ st'.fix = st.fix
    BY <1>1, <1>3, <2>1 DEF StateType, Like, Keeps
  <2>4. Rounds' /\ Kinds' /\ Budgets' /\ Outcomes'
    BY <1>1, <1>4, <2>2, <2>3, Typed
       DEF JobInv, StageWorks, Rounds, Kinds, Serial, Budgets, Outcomes
  <2> QED
    BY <1>2, <1>4, <2>2, <2>3, <2>4, WorkInv DEF StageWorks, AtWork, Working, Serial
<1>5. CASE ~ctx.adaptive /\ run.stage < Stages
  <2> DEFINE n == run.stage + 1
             skip == run.stage + 1 \in ctx.skip
  <2>1. n \in Index /\ n <= Stages /\ skip = (n \in ctx.skip) /\ skip \in BOOLEAN
    <3>1. run.stage \in Nat /\ run.stage >= 1
      BY StageOf, RunAssumption DEF Index
    <3>2. n \in Index /\ n <= Stages
      BY <1>5, <3>1, RunAssumption DEF Index
    <3> QED
      BY <3>2
  <2>2. st' = s /\ run' = [r EXCEPT !.pc = "attempt", !.stage = n, !.skip = skip]
    BY <1>1, <1>5 DEF StagePasses, Serial
  <2> HIDE DEF r, n, skip
  <2>3. /\ run' \in RunType /\ run'.pc = "attempt" /\ run'.stage = n /\ run'.skip = skip
        /\ run'.then = run.then
    BY <1>1, <2>1, <2>2 DEF RunType, Working
  <2>4. Rounds' /\ Kinds' /\ Budgets' /\ Outcomes'
    BY <1>5, <2>1, <2>2, <2>3
       DEF JobInv, StageWorks, Rounds, Kinds, Serial, Budgets, Outcomes, Like, Keeps
  <2> QED
    BY <1>2, <2>2, <2>3, <2>4, WorkInv DEF StageWorks, AtWork, Working, Like, Keeps
<1>6. CASE ~ctx.adaptive /\ ~(run.stage < Stages)
  <2> DEFINE q == [r EXCEPT !.testOk = TRUE, !.verdict = verdict]
  <2>1. st' = s /\ run' = Finish(q, "done", "other", "none", "none", "end")
    BY <1>6 DEF StagePasses
  <2>2. q \in RunType /\ q.stage = run.stage
    <3> HIDE DEF r
    <3> QED
      BY <1>1 DEF RunType
  <2> HIDE DEF r, q
  <2>3. "done" \in Status /\ "done" \in Terminal /\ "other" \in Phase /\ "none" \in Gate /\ "none" \in Error
    BY DEF Status, Terminal, Phase, Gate, Error
  <2>4. /\ run' \in RunType /\ run'.pc = "finish" /\ run'.status = "done" /\ run'.phase = "other"
        /\ run'.gate = "none" /\ run'.error = "none" /\ run'.then = "end" /\ run'.stage = run.stage
    BY <2>1, <2>2, <2>3, FinishFacts
  <2>5. Rounds' /\ Kinds' /\ Budgets' /\ Outcomes'
    BY <1>6, <2>1, <2>3, <2>4
       DEF JobInv, StageWorks, Rounds, Kinds, Serial, Budgets, Outcomes, Like, Keeps
  <2> QED
    BY <1>2, <1>6, <2>1, <2>4, <2>5, WorkInv DEF StageWorks, AtWork, Working, Serial, Like, Keeps
<1> QED
  BY <1>4, <1>5, <1>6

LEMMA AttemptInv == ASSUME JobInv, Attempt PROVE JobInv'
<1>1. CASE marker
  BY <1>1, StageCancellations
<1>2. CASE ~marker
  <2>1. /\ run.pc = "attempt" /\ st' = [st EXCEPT !.status = "running", !.phase = "other"]
        /\ run' = [run EXCEPT !.pc = "execute"]
        /\ UNCHANGED <<ctx, entry, tree, files, marker, result, left, late>>
    BY <1>2 DEF Attempt
  <2>2. /\ st' \in StateType /\ st'.status = "running" /\ st'.last = st.last
        /\ st'.gate = st.gate /\ st'.approved = st.approved /\ st'.key = st.key
        /\ st'.count = st.count /\ st'.round = st.round /\ st'.maxRounds = st.maxRounds
        /\ st'.execution = st.execution /\ st'.fix = st.fix
    BY <2>1, Typed DEF JobInv, StateType, Status, Phase
  <2>3. /\ run' \in RunType /\ run'.pc = "execute" /\ run'.stage = run.stage
        /\ run'.skip = run.skip /\ run'.last = run.last /\ run'.then = run.then
    BY <2>1, Typed DEF JobInv, RunType, Working
  <2>4. Rounds' /\ Kinds' /\ Budgets' /\ Outcomes'
    BY <2>1, <2>2, <2>3 DEF JobInv, Rounds, Kinds, Serial, Budgets, Outcomes
  <2>5. late' = late /\ late \in Nat /\ ~(late > 0)
    BY <1>2, <2>1, Typed DEF JobInv, Lateness
  <2> QED
    BY <2>1, <2>2, <2>3, <2>4, <2>5, Typed, WorkInv DEF JobInv, AtWork, Working
<1> QED
  BY <1>1, <1>2

LEMMA WorksAfterInvoking ==
  ASSUME JobInv, Invoked, run.pc \in {"execute", "review"},
         UNCHANGED <<ctx, entry, marker, result, left>>,
         tree' \in TreeType, files' \in FilesType
  PROVE  StageWorks
<1>1. late \in Nat /\ ~(late > 0)
  BY Typed DEF JobInv, Lateness, Quiet
<1> QED
  BY <1>1 DEF Invoked, StageWorks

LEMMA ThrowsInv == ASSUME JobInv, ExecutorThrows PROVE JobInv'
<1>1. StageWorks
  BY ExecutorType, WorksAfterInvoking DEF ExecutorThrows, JobInv
<1>2. Like(st)
  BY LikeState DEF JobInv
<1>3. CASE CanRetryExecution
  BY <1>1, <1>2, <1>3, RetriedInv DEF ExecutorThrows
<1>4. CASE ~CanRetryExecution
  <2>1. "executor" \in Error /\ "none" \in Verdict
    BY DEF Error, Verdict
  <2>2. StageFails("failed", "other", "none", "executor", "none", TRUE) /\ st' = st
    BY <1>4 DEF ExecutorThrows
  <2> QED
    BY <1>1, <1>2, <2>1, <2>2, StageFailsInv
<1> QED
  BY <1>3, <1>4

LEMMA ReturnsInv ==
  ASSUME JobInv, NEW edited \in BOOLEAN, ExecutorReturns(edited)
  PROVE  JobInv'
<1> DEFINE f == IF edited /\ files.patch = "fresh" THEN [files EXCEPT !.patch = "stale"] ELSE files
           a == AfterDiff(st.audit, f)
           s == [st EXCEPT !.audit = a]
<1>1. f \in FilesType /\ a \in Audit /\ Like(s)
  <2>1. f \in FilesType
    BY Typed, PatchStale DEF JobInv
  <2>2. a \in Audit
    BY Typed, AfterDiffFacts DEF JobInv, StateType
  <2> HIDE DEF f, a
  <2> QED
    BY <2>1, <2>2, LikeAudit DEF JobInv
<1>2. /\ run.pc = "execute" /\ ~marker /\ Invoked
      /\ tree' = IF edited THEN Edited(tree) ELSE tree
      /\ files' = Collected(f)
      /\ UNCHANGED <<ctx, entry, marker, result, left>>
      /\ \/ FixOrFail(s, "needs_fix", "guard", "none", TRUE)
         \/ IF CanRetryExecution THEN RetriesExecution(s)
            ELSE StageFails("failed", "other", "none", "executor", "none", TRUE) /\ st' = s
         \/ st' = s /\ run' = [run EXCEPT !.pc = "test"]
  BY DEF ExecutorReturns
<1> HIDE DEF f, a, s
<1>3. tree' \in TreeType /\ files' \in FilesType
  BY <1>1, <1>2, Typed, EditedFacts, PatchStale DEF JobInv, Collected
<1>4. StageWorks
  BY <1>2, <1>3, WorksAfterInvoking
<1>5. "executor" \in Error /\ "guard" \in Error /\ "none" \in Verdict
  BY DEF Error, Verdict
<1>6. CASE FixOrFail(s, "needs_fix", "guard", "none", TRUE)
  BY <1>1, <1>4, <1>5, <1>6, FixOrFailInv
<1>7. CASE CanRetryExecution /\ RetriesExecution(s)
  BY <1>1, <1>4, <1>7, RetriedInv
<1>8. CASE StageFails("failed", "other", "none", "executor", "none", TRUE) /\ st' = s
  BY <1>1, <1>4, <1>5, <1>8, StageFailsInv
<1>9. CASE st' = s /\ run' = [run EXCEPT !.pc = "test"]
  <2>1. /\ run' \in RunType /\ run'.pc = "test" /\ run'.stage = run.stage
        /\ run'.skip = run.skip /\ run'.last = run.last /\ run'.then = run.then
    BY <1>9, Typed DEF JobInv, RunType, Working
  <2>2. Keeps(st') /\ st'.status = st.status /\ st'.last = st.last
    BY <1>1, <1>9 DEF Like
  <2>3. Rounds' /\ Kinds' /\ Budgets' /\ Outcomes'
    BY <1>2, <2>1, <2>2 DEF JobInv, Rounds, Kinds, Serial, Budgets, Outcomes, Keeps
  <2> QED
    BY <1>2, <1>4, <2>1, <2>2, <2>3, WorkInv DEF StageWorks, Keeps, AtWork, Working
<1> QED
  BY <1>2, <1>6, <1>7, <1>8, <1>9

LEMMA TestWorks ==
  ASSUME JobInv, run.pc = "test", ~marker, late' = late,
         UNCHANGED <<ctx, entry, marker, result, left>>,
         files' = [files EXCEPT !.test = TRUE],
         tree' = tree \/ tree' = [tree EXCEPT !.tested = TRUE]
  PROVE  StageWorks
<1>1. files' \in FilesType /\ tree' \in TreeType
  BY Typed DEF JobInv, FilesType, TreeType
<1>2. late \in Nat /\ ~(late > 0)
  BY Typed DEF JobInv, Lateness
<1> QED
  BY <1>1, <1>2 DEF StageWorks

LEMMA TestFailsInv == ASSUME JobInv, TestFails PROVE JobInv'
<1>1. StageWorks
  BY TestWorks DEF TestFails
<1>2. "test" \in Error /\ "none" \in Verdict
  BY DEF Error, Verdict
<1> QED
  BY <1>1, <1>2, LikeState, FixOrFailInv DEF TestFails, JobInv

\* A structured audit has a reviewer after every stage of a serial job.
LEMMA StructuredReviews ==
  ASSUME JobInv, Serial, Structured, run.pc \in {"attempt", "execute", "test", "review"}
  PROVE  ctx.review /\ ~run.skip
BY DEF JobInv, Kinds, Serial, Structured

LEMMA TestPassesInv == ASSUME JobInv, TestPasses PROVE JobInv'
<1>1. /\ run.pc = "test" /\ ~marker /\ tree' = [tree EXCEPT !.tested = TRUE] /\ late' = late
      /\ UNCHANGED <<ctx, entry, marker, result, left>>
  BY DEF TestPasses
<1>2. StageWorks
  BY <1>1, TestWorks DEF TestPasses
<1>3. tree'.tested
  BY <1>1, Typed DEF JobInv, TreeType
<1>4. CASE run.skip \/ ~ctx.review
  <2>1. StagePasses(st, "none") /\ "none" \in Verdict
    BY <1>4 DEF TestPasses, Verdict
  <2>2. Serial => HasPassed'
    BY <1>1, <1>3, <1>4, StructuredReviews DEF HasPassed, Structured
  <2> QED
    BY <1>1, <1>2, <2>1, <2>2, LikeState, StagePassesInv DEF JobInv
<1>5. CASE ~(run.skip \/ ~ctx.review)
  <2>1. run' = [run EXCEPT !.pc = "review"] /\ UNCHANGED st
    BY <1>5 DEF TestPasses
  <2>2. /\ run' \in RunType /\ run'.pc = "review" /\ run'.stage = run.stage
        /\ run'.skip = run.skip /\ run'.last = run.last /\ run'.then = run.then
    BY <2>1, Typed DEF JobInv, RunType, Working
  <2>3. Rounds' /\ Kinds' /\ Budgets' /\ Outcomes'
    BY <1>1, <2>1, <2>2 DEF JobInv, Rounds, Kinds, Serial, Budgets, Outcomes
  <2> QED
    BY <1>1, <1>2, <1>3, <2>1, <2>2, <2>3, Typed, WorkInv
       DEF JobInv, StageWorks, AtWork, Working
<1> QED
  BY <1>4, <1>5

LEMMA ReviewFailsInv == ASSUME JobInv, ReviewFails PROVE JobInv'
<1>1. StageWorks
  BY WorksAfterInvoking, BeforeReviewType, Typed DEF ReviewFails, JobInv
<1>2. \/ FixOrFail(st, "review_failed", "reviewer", "none", TRUE)
      \/ FixOrFail(st, "review_failed", "audit", "FAIL", TRUE)
  BY DEF ReviewFails
<1>3. {"reviewer", "audit"} \subseteq Error /\ {"none", "FAIL"} \subseteq Verdict
  BY DEF Error, Verdict
<1> QED
  BY <1>1, <1>2, <1>3, LikeState, FixOrFailInv DEF JobInv

LEMMA ReviewerEditsInv == ASSUME JobInv, ReviewerEdits PROVE JobInv'
<1> DEFINE a == AfterDiff(st.audit, [patch |-> "stale"])
           s == [st EXCEPT !.audit = a]
<1>1. a \in Audit
  BY Typed, AfterDiffFacts DEF JobInv, StateType
<1>2. /\ run.pc = "review" /\ Invoked /\ tree' = Edited(tree) /\ files' = BeforeReview /\ st' = s
      /\ StageFails("review_failed", "other", "none", "other", "FAIL", TRUE)
      /\ UNCHANGED <<ctx, entry, marker, result, left>>
  BY DEF ReviewerEdits
<1> HIDE DEF a
<1>3. Like(s)
  BY <1>1, LikeAudit DEF JobInv
<1> HIDE DEF s
<1>4. StageWorks
  BY <1>2, WorksAfterInvoking, BeforeReviewType, Typed, EditedFacts DEF JobInv
<1>5. "other" \in Error /\ "FAIL" \in Verdict
  BY DEF Error, Verdict
<1> QED
  BY <1>2, <1>3, <1>4, <1>5, StageFailsInv

LEMMA ReviewsInv ==
  ASSUME JobInv, NEW md \in Review, NEW json \in BOOLEAN, NEW audit \in Audit,
         Reviews(md, json, audit)
  PROVE  JobInv'
<1> DEFINE text    == IF md = "none" THEN BeforeReview.review ELSE md
           verdict == IF json \/ text = "PASS" THEN "PASS" ELSE "FAIL"
           s       == IF Structured THEN [st EXCEPT !.audit = audit] ELSE st
           seen    == json \/ md = "PASS" \/ (tree.reviewed /\ md = "none")
<1>1. /\ run.pc = "review" /\ ~marker /\ Invoked
      /\ files' = [files EXCEPT !.review = text]
      /\ tree' = [tree EXCEPT !.reviewed = seen]
      /\ UNCHANGED <<ctx, entry, marker, result, left>>
      /\ \/ verdict = "PASS" /\ StagePasses(s, "PASS")
         \/ /\ StageFails("needs_fix", "awaiting_clarification", "semantic_conflict", "other",
                          "FAIL", TRUE)
            /\ st' = s
         \/ FixOrFail(s, "needs_fix", "review", "FAIL", TRUE)
  BY DEF Reviews
<1>2. text \in Review
  BY BeforeReviewType DEF JobInv, FilesType
<1>3. Like(s)
  BY LikeState, LikeAudit DEF JobInv
<1>4. seen \in BOOLEAN
  OBVIOUS
<1>5. Structured /\ verdict = "PASS" => seen
  <2>1. Structured => BeforeReview.review = "none"
    BY Typed DEF BeforeReview, JobInv, FilesType
  <2> QED
    BY <2>1
<1> HIDE DEF text, verdict, s, seen
<1>6. files' \in FilesType /\ tree' \in TreeType /\ tree'.reviewed = seen /\ tree'.tested = tree.tested
  BY <1>1, <1>2, <1>4, Typed DEF JobInv, FilesType, TreeType
<1>7. StageWorks
  BY <1>1, <1>6, WorksAfterInvoking
<1>8. {"review", "other"} \subseteq Error /\ {"PASS", "FAIL"} \subseteq Verdict
  BY DEF Error, Verdict
<1>9. CASE verdict = "PASS" /\ StagePasses(s, "PASS")
  <2>1. Serial => HasPassed'
    BY <1>1, <1>5, <1>6, <1>9 DEF JobInv, Passed, HasPassed, Structured
  <2> QED
    BY <1>1, <1>3, <1>7, <1>8, <1>9, <2>1, StagePassesInv
<1>10. CASE /\ StageFails("needs_fix", "awaiting_clarification", "semantic_conflict", "other",
                          "FAIL", TRUE)
            /\ st' = s
  BY <1>3, <1>7, <1>8, <1>10, StageFailsInv
<1>11. CASE FixOrFail(s, "needs_fix", "review", "FAIL", TRUE)
  BY <1>3, <1>7, <1>8, <1>11, FixOrFailInv
<1> QED
  BY <1>1, <1>9, <1>10, <1>11

-----------------------------------------------------------------------------
(* finish: the gates, one after the other. *)

LEMMA OutcomeType ==
  ASSUME NEW r \in RunType, NEW status \in Status, NEW phase \in Phase, NEW error \in Error
  PROVE  /\ [r EXCEPT !.status = status, !.phase = phase, !.error = error] \in RunType
         /\ [r EXCEPT !.status = status, !.phase = phase] \in RunType
BY DEF RunType

LEMMA AuditGateFacts ==
  ASSUME NEW r \in RunType
  PROVE  /\ AuditGate(r) \in RunType
         /\ \/ AuditGate(r) = r /\ (r.status = "done" /\ Structured => AuditAllows(st.audit))
            \/ /\ r.status = "done"
               /\ AuditGate(r).status = "needs_fix" /\ AuditGate(r).phase = "verification_gate"
               /\ AuditGate(r).error = "verification" /\ AuditGate(r).gate = r.gate
<1> DEFINE q == [r EXCEPT !.status = "needs_fix", !.phase = "verification_gate",
                          !.error = "verification"]
<1>1. /\ q \in RunType /\ q.status = "needs_fix" /\ q.phase = "verification_gate"
      /\ q.error = "verification" /\ q.gate = r.gate
  <2>1. "needs_fix" \in Status /\ "verification_gate" \in Phase /\ "verification" \in Error
    BY DEF Status, Phase, Error
  <2>2. q \in RunType
    BY <2>1, OutcomeType
  <2> QED
    BY <2>2 DEF RunType
<1>2. \/ AuditGate(r) = r /\ (r.status = "done" /\ Structured => AuditAllows(st.audit))
      \/ AuditGate(r) = q /\ r.status = "done"
  BY DEF AuditGate
<1> QED
  BY <1>1, <1>2

LEMMA ApprovalGateFacts ==
  ASSUME NEW r \in RunType
  PROVE  /\ ApprovalGate(r) \in RunType
         /\ \/ ApprovalGate(r) = r
            \/ /\ r.status = "done"
               /\ ApprovalGate(r).status = "awaiting_approval"
               /\ ApprovalGate(r).phase = "before_complete" /\ ApprovalGate(r).gate = "completion"
            \/ /\ r.status = "done"
               /\ ApprovalGate(r).status = "needs_fix"
               /\ ApprovalGate(r).phase = "verification_gate"
               /\ ApprovalGate(r).error = "stale" /\ ApprovalGate(r).gate = r.gate
<1> DEFINE a == [r EXCEPT !.status = "awaiting_approval", !.phase = "before_complete",
                          !.gate = "completion"]
           b == [r EXCEPT !.status = "needs_fix", !.phase = "verification_gate", !.error = "stale"]
<1>1. /\ a \in RunType /\ a.status = "awaiting_approval" /\ a.phase = "before_complete"
      /\ a.gate = "completion"
  BY DEF RunType, Status, Phase, Gate
<1>2. /\ b \in RunType /\ b.status = "needs_fix" /\ b.phase = "verification_gate"
      /\ b.error = "stale" /\ b.gate = r.gate
  <2>1. "needs_fix" \in Status /\ "verification_gate" \in Phase /\ "stale" \in Error
    BY DEF Status, Phase, Error
  <2>2. b \in RunType
    BY <2>1, OutcomeType
  <2> QED
    BY <2>2 DEF RunType
<1>3. \/ ApprovalGate(r) = r
      \/ r.status = "done" /\ (ApprovalGate(r) = a \/ ApprovalGate(r) = b)
  BY DEF ApprovalGate
<1> QED
  BY <1>1, <1>2, <1>3

LEMMA FailureGateFacts ==
  ASSUME NEW r \in RunType, NEW t \in StateType
  PROVE  /\ FailureGate(r, t) \in RunType
         /\ \/ FailureGate(r, t) = r /\ (Counts(r) => t.count < 3)
            \/ /\ FailureGate(r, t).status = "needs_fix" /\ FailureGate(r, t).phase = "other"
               /\ FailureGate(r, t).gate = "repeated_failure"
<1> DEFINE g == [r EXCEPT !.status = "needs_fix", !.phase = "other", !.gate = "repeated_failure"]
<1>1. /\ g \in RunType /\ g.status = "needs_fix" /\ g.phase = "other"
      /\ g.gate = "repeated_failure"
  BY DEF RunType, Status, Phase, Gate
<1>2. t.count \in Nat
  BY DEF StateType
<1>3. (FailureGate(r, t) = r /\ (Counts(r) => t.count < 3)) \/ FailureGate(r, t) = g
  BY <1>2 DEF FailureGate
<1> QED
  BY <1>1, <1>3

LEMMA TrackedFacts ==
  ASSUME NEW s \in StateType, NEW e \in Error
  PROVE  LET t == Tracked(s, e)
         IN  /\ t \in StateType /\ t.key = e /\ t.count <= s.count + 1 /\ t.count \in 1 .. s.count + 1
             /\ t.gate = s.gate /\ t.last = s.last /\ t.execution = s.execution
             /\ t.fix = s.fix /\ t.approved = s.approved /\ t.round = s.round
             /\ t.maxRounds = s.maxRounds
<1> DEFINE n == s.count + 1
           t == Tracked(s, e)
<1>1. s.count \in Nat /\ n \in Nat /\ n = s.count + 1
  BY DEF StateType
<1>2. CASE s.key = e
  <2>1. t = [s EXCEPT !.count = n]
    BY <1>2 DEF Tracked
  <2> HIDE DEF n, t
  <2>2. /\ t \in StateType /\ t.key = e /\ t.count = n
        /\ t.gate = s.gate /\ t.last = s.last /\ t.execution = s.execution
        /\ t.fix = s.fix /\ t.approved = s.approved /\ t.round = s.round
        /\ t.maxRounds = s.maxRounds
    BY <1>1, <1>2, <2>1 DEF StateType
  <2> QED
    BY <1>1, <2>2 DEF t
<1>3. CASE s.key # e
  <2>1. t = [s EXCEPT !.key = e, !.count = 1]
    BY <1>3 DEF Tracked
  <2> HIDE DEF n, t
  <2>2. /\ t \in StateType /\ t.key = e /\ t.count = 1
        /\ t.gate = s.gate /\ t.last = s.last /\ t.execution = s.execution
        /\ t.fix = s.fix /\ t.approved = s.approved /\ t.round = s.round
        /\ t.maxRounds = s.maxRounds
    BY <2>1 DEF StateType
  <2> QED
    BY <1>1, <2>2 DEF t
<1> QED
  BY <1>2, <1>3

\* What the verification and the approval make of an outcome.
LEMMA CompletionGates ==
  ASSUME JobInv, run.pc = "finish"
  PROVE  LET r == ApprovalGate(AuditGate(run))
         IN  /\ r \in RunType /\ r.status \in Terminal \cup {"awaiting_approval"}
             /\ r.phase # "before_run"
             /\ r.status = "awaiting_approval" =>
                  r.phase = "before_complete" /\ r.gate = "completion" /\ run.status = "done"
             /\ r.phase = "before_complete" => r.status = "awaiting_approval"
             /\ r.phase = "verification_gate" => Counts(r) /\ r.error \in Unverified
             /\ r.status = "done" => /\ run.status = "done" /\ r.gate = "none"
                                     /\ Structured => AuditAllows(st.audit)
<1> DEFINE q == AuditGate(run)
           r == ApprovalGate(q)
<1>1. /\ run \in RunType /\ run.status \in Terminal
      /\ run.status = "done" => run.gate = "none" /\ run.phase = "other" /\ run.error = "none"
      /\ run.phase \notin {"before_run", "before_complete", "verification_gate"}
  BY Typed DEF JobInv, Outcomes
<1>2. /\ q \in RunType
      /\ \/ q = run /\ (run.status = "done" /\ Structured => AuditAllows(st.audit))
         \/ /\ run.status = "done"
            /\ q.status = "needs_fix" /\ q.phase = "verification_gate" /\ q.error = "verification"
            /\ q.gate = run.gate
  BY <1>1, AuditGateFacts
<1> HIDE DEF q
<1>3. /\ r \in RunType
      /\ \/ r = q
         \/ /\ q.status = "done" /\ r.status = "awaiting_approval" /\ r.phase = "before_complete"
            /\ r.gate = "completion"
         \/ /\ q.status = "done" /\ r.status = "needs_fix" /\ r.phase = "verification_gate"
            /\ r.error = "stale" /\ r.gate = q.gate
  BY <1>2, ApprovalGateFacts
<1> HIDE DEF r
<1>4. r.status \in Terminal \cup {"awaiting_approval"}
  BY <1>1, <1>2, <1>3 DEF Terminal
<1>5. /\ r.phase # "before_run"
      /\ r.status = "awaiting_approval" =>
           r.phase = "before_complete" /\ r.gate = "completion" /\ run.status = "done"
      /\ r.phase = "before_complete" => r.status = "awaiting_approval"
  BY <1>1, <1>2, <1>3 DEF Terminal
<1>6. r.phase = "verification_gate" => Counts(r) /\ r.error \in Unverified
  BY <1>1, <1>2, <1>3 DEF Counts, Uncounted, Unverified
<1>7. r.status = "done" => /\ run.status = "done" /\ r.gate = "none"
                           /\ Structured => AuditAllows(st.audit)
  BY <1>1, <1>2, <1>3
<1> QED
  BY <1>3, <1>4, <1>5, <1>6, <1>7 DEF q, r

\* The state that finish records.
LEMMA FinishesFacts ==
  ASSUME JobInv, NEW committed \in BOOLEAN, Finishes(committed)
  PROVE  /\ run.pc = "finish" /\ st' \in StateType
         /\ st'.status = "awaiting_approval" =>
              st'.phase = "before_complete" /\ st'.gate = "completion" /\ run.status = "done"
         /\ st'.status = "done" => run.status = "done" /\ (Structured => AuditAllows(st.audit))
         /\ st'.phase = "verification_gate" => st'.gate = "none" /\ st'.key \in Unverified
         /\ st'.count <= 2 \/ (st'.count = 3 /\ st'.gate = "repeated_failure")
         /\ st'.last \in {st.last, run.last} /\ (Serial => st'.last = st.last)
         /\ st'.execution = st.execution /\ st'.fix = st.fix /\ st'.approved = st.approved
         /\ st'.round = st.round /\ st'.maxRounds = st.maxRounds
<1> DEFINE r     == ApprovalGate(AuditGate(run))
           t     == IF Counts(r) THEN Tracked(st, r.error) ELSE st
           g     == FailureGate(r, t)
           final == CommitGate(g, committed)
           last  == IF ctx.adaptive /\ run.phase = "adaptive_max_rounds" THEN run.last ELSE t.last
           ok    == IF run.status = "done" THEN run.testOk ELSE t.testOk
           vd    == IF run.status = "done" THEN run.verdict ELSE t.verdict
           gate  == IF final.gate = "none" THEN t.gate ELSE final.gate
<1>1. run.pc = "finish"
  BY DEF Finishes
<1>2. st.gate = "none" /\ st.count <= 2 /\ st \in StateType
  BY <1>1, NotWaiting, Typed DEF Quiet, JobInv, Failures
<1>3. /\ r \in RunType /\ r.error \in Error
      /\ r.status = "awaiting_approval" =>
           r.phase = "before_complete" /\ r.gate = "completion" /\ run.status = "done"
      /\ r.phase = "verification_gate" => Counts(r) /\ r.error \in Unverified
      /\ r.status = "done" => /\ run.status = "done" /\ r.gate = "none"
                              /\ Structured => AuditAllows(st.audit)
  BY <1>1, CompletionGates DEF RunType
<1>5. st' = [t EXCEPT !.status = final.status, !.phase = final.phase, !.gate = gate,
                      !.last = last, !.testOk = ok, !.verdict = vd]
  BY DEF Finishes
<1> HIDE DEF r
<1>6. /\ t \in StateType /\ t.gate = "none" /\ t.last = st.last /\ t.execution = st.execution
      /\ t.fix = st.fix /\ t.approved = st.approved /\ t.round = st.round
      /\ t.maxRounds = st.maxRounds
      /\ t.count <= 3 /\ (~Counts(r) => t.count <= 2) /\ (Counts(r) => t.key = r.error)
  <2>1. CASE ~Counts(r)
    BY <1>2, <2>1 DEF StateType
  <2>2. CASE Counts(r)
    <3>1. st.count \in Nat
      BY <1>2 DEF StateType
    <3> QED
      BY <1>2, <1>3, <2>2, <3>1, TrackedFacts
  <2> QED
    BY <2>1, <2>2
<1> HIDE DEF t
<1>7. /\ g \in RunType
      /\ \/ g = r /\ (Counts(r) => t.count < 3)
         \/ g.status = "needs_fix" /\ g.phase = "other" /\ g.gate = "repeated_failure"
  BY <1>3, <1>6, FailureGateFacts
<1> HIDE DEF g
<1>8. /\ final \in RunType /\ final.gate = g.gate
      /\ \/ final = g
         \/ final.status = "failed" /\ final.phase = "other"
  <2> DEFINE c == [g EXCEPT !.status = "failed", !.phase = "other"]
  <2>1. "failed" \in Status /\ "other" \in Phase /\ "none" \in Error
    BY DEF Status, Phase, Error
  <2>2. c \in RunType
    BY <1>7, <2>1, OutcomeType
  <2>3. c.status = "failed" /\ c.phase = "other" /\ c.gate = g.gate
    BY <1>7 DEF RunType
  <2>4. final = g \/ final = c
    BY DEF CommitGate
  <2> QED
    BY <1>7, <2>2, <2>3, <2>4
<1> HIDE DEF final
<1>9. gate = g.gate
  BY <1>6, <1>8
<1>10. last \in {st.last, run.last} /\ (Serial => last = st.last) /\ last \in Report
  BY <1>6, Typed DEF JobInv, Serial
<1>11. ok \in BOOLEAN /\ vd \in Verdict
  BY <1>6, Typed DEF JobInv, RunType, StateType
<1>12. final.status \in Status /\ final.phase \in Phase /\ gate \in Gate
  BY <1>7, <1>8, <1>9 DEF RunType
<1> HIDE DEF gate, last, ok, vd
<1>13. /\ st' \in StateType /\ st'.status = final.status /\ st'.phase = final.phase
       /\ st'.gate = gate /\ st'.last = last /\ st'.key = t.key /\ st'.count = t.count
       /\ st'.execution = st.execution /\ st'.fix = st.fix /\ st'.approved = st.approved
       /\ st'.round = st.round /\ st'.maxRounds = st.maxRounds
  BY <1>5, <1>6, <1>10, <1>11, <1>12 DEF StateType
<1>14. st'.status = "awaiting_approval" =>
         st'.phase = "before_complete" /\ st'.gate = "completion" /\ run.status = "done"
  BY <1>3, <1>7, <1>8, <1>9, <1>13
<1>15. st'.status = "done" => run.status = "done" /\ (Structured => AuditAllows(st.audit))
  BY <1>3, <1>7, <1>8, <1>13
<1>16. st'.phase = "verification_gate" => st'.gate = "none" /\ st'.key \in Unverified
  BY <1>3, <1>6, <1>7, <1>8, <1>9, <1>13 DEF Counts
<1>17. st'.count <= 2 \/ (st'.count = 3 /\ st'.gate = "repeated_failure")
  <2>1. t.count \in Nat
    BY <1>6 DEF StateType
  <2> QED
    BY <1>6, <1>7, <1>9, <1>13, <2>1
<1> QED
  BY <1>1, <1>10, <1>13, <1>14, <1>15, <1>16, <1>17

LEMMA FinishesInv ==
  ASSUME JobInv, NEW committed \in BOOLEAN, Finishes(committed)
  PROVE  JobInv'
<1>1. /\ run.pc = "finish" /\ st' \in StateType
      /\ st'.status = "awaiting_approval" =>
           st'.phase = "before_complete" /\ st'.gate = "completion" /\ run.status = "done"
      /\ st'.phase = "verification_gate" => st'.gate = "none" /\ st'.key \in Unverified
      /\ st'.count <= 2 \/ (st'.count = 3 /\ st'.gate = "repeated_failure")
      /\ st'.last \in {st.last, run.last} /\ (Serial => st'.last = st.last)
      /\ st'.execution = st.execution /\ st'.fix = st.fix /\ st'.approved = st.approved
      /\ st'.round = st.round /\ st'.maxRounds = st.maxRounds
  BY FinishesFacts
<1>2. UNCHANGED <<ctx, files, marker, result, left, late>> /\ run' = [run EXCEPT !.pc = "tidy"]
  BY DEF Finishes
<1>3. /\ run' \in RunType /\ run'.pc = "tidy" /\ run'.last = run.last /\ run'.stage = run.stage
      /\ run'.then = run.then
  BY <1>2, Typed DEF JobInv, RunType
<1>4. tree' \in TreeType /\ tree'.tested = tree.tested /\ tree'.reviewed = tree.reviewed
  <2>1. PICK snapshot \in BOOLEAN, drift \in {tree.drift, "commit"} :
          tree' = [tree EXCEPT !.snapshot = snapshot, !.drift = drift]
    BY Typed DEF Finishes, JobInv, TreeType
  <2> QED
    BY <2>1, Typed DEF JobInv, TreeType
<1>5. entry' \in {"done", "cancelled", "awaiting_approval", "failed"}
  BY DEF Finishes, EntryStatus
<1>6. TypeOK'
  BY <1>1, <1>2, <1>3, <1>4, <1>5 DEF JobInv, TypeOK, TreeType
<1>7. Rounds' /\ Kinds' /\ Budgets' /\ Failures'
  BY <1>1, <1>2, <1>3 DEF JobInv, Rounds, Kinds, Serial, Budgets, Failures
<1>8. Gates' /\ Outcomes'
  BY <1>1, <1>2, <1>3 DEF JobInv, Gates, Waits, Quiet, Outcomes
<1>9. Entries' /\ Lateness' /\ Results'
  BY <1>2, <1>3, <1>5 DEF JobInv, Entries, Lateness, Results, Quiet
<1>10. Passed'
  BY <1>1, <1>2, <1>3, <1>4
     DEF JobInv, Passed, WaitsForCompletion, HasPassed, Serial, Structured
<1> QED
  BY <1>6, <1>7, <1>8, <1>9, <1>10 DEF JobInv

-----------------------------------------------------------------------------
(* Commands of users and faults. *)

\* A step between runs.
LEMMA BetweenInv ==
  ASSUME JobInv, TypeOK', run.pc = "idle", UNCHANGED <<ctx, run>>,
         st'.round = st.round, st'.last = st.last,
         st.maxRounds <= st'.maxRounds, st'.maxRounds <= RoundLimit,
         Budgets', Failures', Waits', marker' => entry' # "open",
         late' > 0 => marker' /\ late' <= 1, Results',
         (Serial /\ WaitsForCompletion /\ tree.snapshot => HasPassed)'
  PROVE  JobInv'
<1>1. st'.round \in Nat /\ st'.maxRounds \in Nat /\ st.maxRounds \in Nat
  BY DEF JobInv, TypeOK, StateType
<1>2. Rounds' /\ Kinds'
  BY <1>1, RunAssumption DEF JobInv, Rounds, Kinds, Serial
<1>3. Gates' /\ Outcomes' /\ Entries' /\ Lateness' /\ Passed'
  BY DEF JobInv, Gates, Quiet, Outcomes, Entries, Lateness, Passed
<1> QED
  BY <1>2, <1>3 DEF JobInv

LEMMA ResolvedFacts ==
  ASSUME NEW s \in StateType
  PROVE  LET t == Resolved(s)
         IN  /\ t \in StateType /\ t.gate = "none" /\ t.count = 0 /\ t.key = "none"
             /\ t.status = s.status /\ t.phase = s.phase /\ t.last = s.last
             /\ t.approved = s.approved /\ t.round = s.round /\ t.maxRounds = s.maxRounds
             /\ \A i \in Index : t.execution[i] = 0 /\ t.fix[i] = 0
<1> DEFINE zero == [x \in Index |-> 0]
           t    == Resolved(s)
<1>1. zero \in [Index -> Nat] /\ \A i \in Index : zero[i] = 0
  OBVIOUS
<1>2. t = [s EXCEPT !.gate = "none", !.key = "none", !.count = 0, !.execution = zero, !.fix = zero]
  BY DEF Resolved
<1>3. "none" \in Gate /\ "none" \in Error
  BY DEF Gate, Error
<1> HIDE DEF zero, t
<1>4. /\ t \in StateType /\ t.gate = "none" /\ t.count = 0 /\ t.key = "none"
      /\ t.status = s.status /\ t.phase = s.phase /\ t.last = s.last
      /\ t.approved = s.approved /\ t.round = s.round /\ t.maxRounds = s.maxRounds
      /\ t.execution = zero /\ t.fix = zero
  BY <1>1, <1>2, <1>3 DEF StateType
<1> QED
  BY <1>1, <1>4 DEF t

LEMMA BlockedInv == ASSUME JobInv, Blocked PROVE JobInv'
<1>1. /\ run.pc = "idle" /\ entry' = "failed"
      /\ UNCHANGED <<ctx, st, tree, files, marker, run, result, left, late>>
  BY DEF Blocked
<1>2. TypeOK'
  BY <1>1 DEF JobInv, TypeOK
<1>3. Budgets' /\ Failures' /\ Waits' /\ Results'
  BY <1>1 DEF JobInv, Budgets, Failures, Gates, Waits, Results
<1>4. late' > 0 => marker' /\ late' <= 1
  BY <1>1 DEF JobInv, Lateness
<1>5. (Serial /\ WaitsForCompletion /\ tree.snapshot => HasPassed)'
  BY <1>1 DEF JobInv, Passed, Serial, WaitsForCompletion, HasPassed, Structured
<1>6. st.maxRounds \in Nat /\ st.maxRounds <= RoundLimit
  BY Typed DEF JobInv, Rounds, StateType
<1> QED
  BY <1>1, <1>2, <1>3, <1>4, <1>5, <1>6, BetweenInv

LEMMA ContinueInv ==
  ASSUME JobInv, NEW extra \in 0 .. 1, NEW refresh \in BOOLEAN, Continue(extra, refresh)
  PROVE  JobInv'
<1>1. /\ Command /\ run.pc = "idle" /\ st.gate \notin {"before_run", "completion"}
      /\ st.maxRounds + extra <= RoundLimit
      /\ entry' = "open" /\ marker' = FALSE /\ late' = 0 /\ UNCHANGED <<ctx, run, result>>
  BY DEF Continue
<1>2. st \in StateType /\ st.maxRounds \in Nat /\ st.maxRounds <= RoundLimit
  BY Typed DEF JobInv, Rounds, StateType
<1>3. /\ st' \in StateType /\ st'.round = st.round /\ st'.last = st.last
      /\ st.maxRounds <= st'.maxRounds /\ st'.maxRounds <= RoundLimit
      /\ st'.status = st.status /\ st'.phase = st.phase
      /\ Budgets' /\ Failures'
      /\ st' = st \/ st.gate # "none"
  <2>1. CASE st.gate = "none"
    <3>1. st' = st
      BY <2>1 DEF Continue
    <3> QED
      BY <1>2, <3>1 DEF JobInv, Budgets, Failures
  <2>2. CASE st.gate # "none"
    <3> DEFINE s == Resolved(st)
               m == s.maxRounds + extra
    <3>1. /\ s \in StateType /\ s.gate = "none" /\ s.count = 0
          /\ s.status = st.status /\ s.phase = st.phase /\ s.last = st.last
          /\ s.round = st.round /\ s.maxRounds = st.maxRounds
          /\ \A i \in Index : s.execution[i] = 0 /\ s.fix[i] = 0
      BY <1>2, ResolvedFacts
    <3>2. m \in Nat /\ st.maxRounds <= m /\ m <= RoundLimit
      BY <1>1, <1>2, <3>1, RunAssumption
    <3>3. st' = [s EXCEPT !.maxRounds = m]
      BY <2>2 DEF Continue
    <3> HIDE DEF s, m
    <3>4. /\ st' \in StateType /\ st'.maxRounds = m /\ st'.count = 0
          /\ st'.status = s.status /\ st'.phase = s.phase /\ st'.last = s.last
          /\ st'.round = s.round /\ st'.execution = s.execution /\ st'.fix = s.fix
      BY <3>1, <3>2, <3>3 DEF StateType
    <3>5. Budgets' /\ Failures'
      BY <3>1, <3>4, RunAssumption DEF Budgets, Failures
    <3> QED
      BY <2>2, <3>1, <3>2, <3>4, <3>5
  <2> QED
    BY <2>1, <2>2
<1>4. /\ tree' \in TreeType
      /\ tree'.snapshot = tree.snapshot /\ tree'.tested = tree.tested
      /\ tree'.reviewed = tree.reviewed
  BY Typed DEF Continue, JobInv, TreeType
<1>5. files' \in FilesType
  BY Typed DEF Continue, JobInv, FilesType
<1>6. left' \in [commands : Nat, faults : Nat] /\ left'.faults = left.faults
  BY <1>1, CommandType DEF JobInv
<1>7. TypeOK'
  BY <1>1, <1>3, <1>4, <1>5, <1>6 DEF JobInv, TypeOK, TreeType, FilesType
<1>8. Waits' /\ Results'
  BY <1>1, <1>3, <1>6 DEF JobInv, Gates, Waits, Results
<1>9. (Serial /\ WaitsForCompletion /\ tree.snapshot => HasPassed)'
  BY <1>1, <1>3, <1>4 DEF JobInv, Passed, Serial, WaitsForCompletion, HasPassed, Structured
<1> QED
  BY <1>1, <1>3, <1>7, <1>8, <1>9, BetweenInv

LEMMA RetryInv == ASSUME JobInv, Retry PROVE JobInv'
<1> DEFINE zero == [x \in Index |-> 0]
<1>1. /\ Command /\ run.pc = "idle"
      /\ st' = [st EXCEPT !.status = "queued", !.phase = "other", !.execution = zero, !.fix = zero]
      /\ entry' = "open" /\ marker' = FALSE /\ late' = 0
      /\ UNCHANGED <<ctx, tree, files, run, result>>
  BY DEF Retry
<1>2. zero \in [Index -> Nat] /\ \A i \in Index : zero[i] = 0
  OBVIOUS
<1> HIDE DEF zero
<1>3. "queued" \in Status /\ "other" \in Phase /\ st \in StateType
  BY Typed DEF JobInv, Status, Phase
<1>4. /\ st' \in StateType /\ st'.status = "queued" /\ st'.gate = st.gate
      /\ st'.count = st.count /\ st'.round = st.round /\ st'.maxRounds = st.maxRounds
      /\ st'.last = st.last /\ st'.execution = zero /\ st'.fix = zero
  BY <1>1, <1>2, <1>3 DEF StateType
<1>5. left' \in [commands : Nat, faults : Nat] /\ left'.faults = left.faults
  BY <1>1, CommandType DEF JobInv
<1>6. TypeOK'
  BY <1>1, <1>4, <1>5 DEF JobInv, TypeOK
<1>7. Budgets' /\ Failures'
  BY <1>2, <1>4, RunAssumption DEF JobInv, Budgets, Failures
<1>8. Waits' /\ Results' /\ ~WaitsForCompletion'
  BY <1>4, <1>5 DEF JobInv, Waits, Results, Terminal, WaitsForCompletion
<1>9. st.maxRounds \in Nat /\ st.maxRounds <= RoundLimit
  BY <1>3 DEF JobInv, Rounds, StateType
<1> QED
  BY <1>1, <1>4, <1>6, <1>7, <1>8, <1>9, BetweenInv

LEMMA ApproveRunInv == ASSUME JobInv, ApproveRun PROVE JobInv'
<1>1. /\ Command /\ run.pc = "idle" /\ st.status = "awaiting_approval" /\ st.phase = "before_run"
      /\ st' = [st EXCEPT !.status = "queued", !.phase = "other", !.gate = "none",
                          !.approved = TRUE]
      /\ entry' = "open" /\ marker' = FALSE /\ late' = 0
      /\ UNCHANGED <<ctx, tree, run, result>>
  BY DEF ApproveRun
<1>2. "queued" \in Status /\ "other" \in Phase /\ "none" \in Gate /\ st \in StateType
  BY Typed DEF JobInv, Status, Phase, Gate
<1>3. /\ st' \in StateType /\ st'.status = "queued" /\ st'.gate = "none"
      /\ st'.count = st.count /\ st'.round = st.round /\ st'.maxRounds = st.maxRounds
      /\ st'.last = st.last /\ st'.execution = st.execution /\ st'.fix = st.fix
  BY <1>1, <1>2 DEF StateType
<1>4. left' \in [commands : Nat, faults : Nat] /\ left'.faults = left.faults
  BY <1>1, CommandType DEF JobInv
<1>5. files' \in FilesType
  BY Typed DEF ApproveRun, JobInv, FilesType
<1>6. TypeOK'
  BY <1>1, <1>3, <1>4, <1>5 DEF JobInv, TypeOK, FilesType
<1>7. Budgets' /\ Failures'
  BY <1>1, <1>3 DEF JobInv, Budgets, Failures, Gates, Waits
<1>8. Waits' /\ Results' /\ ~WaitsForCompletion'
  BY <1>3, <1>4 DEF JobInv, Waits, Results, Terminal, WaitsForCompletion
<1>9. st.maxRounds \in Nat /\ st.maxRounds <= RoundLimit
  BY <1>2 DEF JobInv, Rounds, StateType
<1> QED
  BY <1>1, <1>3, <1>6, <1>7, <1>8, <1>9, BetweenInv

LEMMA ApproveCompletionInv ==
  ASSUME JobInv, NEW committed \in BOOLEAN, ApproveCompletion(committed)
  PROVE  JobInv'
<1> DEFINE status == IF ~CompletionHolds THEN "needs_fix"
                     ELSE IF ctx.commit /\ ~committed THEN "failed" ELSE "done"
           s == [st EXCEPT !.status = status, !.phase = "other", !.gate = "none"]
           t == [tree EXCEPT !.drift = IF status = "done" /\ ctx.commit /\ ~ctx.isolated
                                       THEN "commit" ELSE @]
<1>1. /\ Command /\ run.pc = "idle" /\ st.status = "awaiting_approval"
      /\ st.phase = "before_complete" /\ st' = s /\ result' = Written(s)
      /\ entry' = IF entry = "awaiting_approval" THEN EntryStatus(status) ELSE entry
      /\ tree' = IF status = "done" /\ ~ctx.keep THEN Cleaned(t) ELSE t
      /\ UNCHANGED <<ctx, files, marker, run, late>>
  BY DEF ApproveCompletion
<1>2. status \in {"needs_fix", "failed", "done"}
  OBVIOUS
<1>3. t \in TreeType
  BY Typed DEF JobInv, TreeType
<1> HIDE DEF status, t
<1>4. status \in Status /\ "other" \in Phase /\ "none" \in Gate /\ st \in StateType
  BY <1>2, Typed DEF JobInv, Status, Phase, Gate
<1>5. /\ s \in StateType /\ s.status = status /\ s.gate = "none"
      /\ s.count = st.count /\ s.round = st.round /\ s.maxRounds = st.maxRounds
      /\ s.last = st.last /\ s.execution = st.execution /\ s.fix = st.fix
  BY <1>4 DEF StateType
<1> HIDE DEF s
<1>6. result' \in ResultType /\ result'.status = status
  BY <1>1, <1>5, WrittenFacts DEF JobInv
<1>7. tree' \in TreeType
  BY <1>1, <1>3, CleanedFacts
<1>8. left' \in [commands : Nat, faults : Nat] /\ left'.faults = left.faults
  BY <1>1, CommandType DEF JobInv
<1>9. entry' = entry \/ entry' \in {"done", "failed"}
  BY <1>1, <1>2 DEF EntryStatus
<1>10. TypeOK'
  BY <1>1, <1>5, <1>6, <1>7, <1>8, <1>9 DEF JobInv, TypeOK, TreeType, ResultType
<1>11. Budgets' /\ Failures'
  BY <1>1, <1>5 DEF JobInv, Budgets, Failures, Gates, Waits
<1>12. Waits' /\ Results' /\ ~WaitsForCompletion'
  BY <1>1, <1>2, <1>5, <1>6, <1>8 DEF JobInv, Waits, Results, WaitsForCompletion
<1>13. (marker' => entry' # "open") /\ (late' > 0 => marker' /\ late' <= 1)
  BY <1>1, <1>9 DEF JobInv, Entries, Lateness
<1>14. st.maxRounds \in Nat /\ st.maxRounds <= RoundLimit
  BY <1>4 DEF JobInv, Rounds, StateType
<1> QED
  BY <1>1, <1>5, <1>10, <1>11, <1>12, <1>13, <1>14, BetweenInv

LEMMA CancelMarksInv == ASSUME JobInv, CancelMarks PROVE JobInv'
<1>1. /\ Command /\ ~marker /\ marker' = TRUE /\ entry' # "open"
      /\ entry' \in {entry, "cancelled"}
      /\ UNCHANGED <<ctx, st, tree, files, run, result, late>>
  BY DEF CancelMarks
<1>2. left' \in [commands : Nat, faults : Nat] /\ left'.faults = left.faults
  BY <1>1, CommandType DEF JobInv
<1>3. late = 0
  BY <1>1, Typed DEF JobInv, Lateness
<1>4. TypeOK'
  BY <1>1, <1>2 DEF JobInv, TypeOK
<1>5. Rounds' /\ Kinds' /\ Budgets' /\ Failures'
  BY <1>1 DEF JobInv, Rounds, Kinds, Serial, Budgets, Failures
<1>6. Gates' /\ Outcomes' /\ Passed'
  BY <1>1 DEF JobInv, Gates, Waits, Outcomes, Passed, WaitsForCompletion, HasPassed, Serial, Structured
<1>7. Entries' /\ Lateness' /\ Results'
  BY <1>1, <1>2, <1>3 DEF JobInv, Entries, Lateness, Results
<1> QED
  BY <1>4, <1>5, <1>6, <1>7 DEF JobInv

LEMMA CancelSettlesInv == ASSUME JobInv, CancelSettles PROVE JobInv'
<1>1. /\ marker /\ st' = [st EXCEPT !.status = "cancelled", !.phase = "other"]
      /\ entry' \in {entry, "cancelled"} /\ tree' = Cleaned(tree)
      /\ run' = Idle \/ (run.pc = "locked" /\ UNCHANGED run)
      /\ UNCHANGED <<ctx, marker, result, left, late>>
  BY DEF CancelSettles
<1>2. "cancelled" \in Status /\ "other" \in Phase /\ st \in StateType
  BY Typed DEF JobInv, Status, Phase
<1>3. Keeps(st') /\ st'.status = "cancelled" /\ st'.last = st.last
  BY <1>1, <1>2 DEF StateType, Keeps
<1>4. files' \in FilesType /\ tree' \in TreeType
  BY <1>1, Typed, StaleType, CleanedFacts DEF CancelSettles, JobInv
<1>5. TypeOK'
  BY <1>1, <1>3, <1>4, IdleType DEF JobInv, TypeOK, Keeps, TreeType, FilesType
<1>6. Results'
  BY <1>1, <1>3 DEF JobInv, Results, Terminal
<1>7. CASE run' = Idle
  <2>1. st'.last.n <= st.round
    BY <1>3 DEF JobInv, Rounds
  <2> QED
    BY <1>1, <1>3, <1>5, <1>6, <1>7, <2>1, EndsInv
<1>8. CASE run.pc = "locked" /\ UNCHANGED run
  <2>1. Rounds' /\ Kinds' /\ Budgets' /\ Failures'
    BY <1>1, <1>3, <1>8 DEF JobInv, Rounds, Kinds, Serial, Budgets, Failures, Keeps
  <2>2. Gates' /\ Outcomes' /\ Passed'
    BY <1>1, <1>3, <1>8 DEF JobInv, Gates, Waits, Outcomes, Passed, WaitsForCompletion, Keeps, Quiet
  <2>3. Entries' /\ Lateness'
    BY <1>1, <1>8 DEF JobInv, Entries, Lateness, Quiet
  <2> QED
    BY <1>5, <1>6, <2>1, <2>2, <2>3 DEF JobInv
<1> QED
  BY <1>1, <1>7, <1>8

LEMMA FaultResults ==
  ASSUME JobInv, Fault PROVE Results'
<1>1. left'.faults \in Nat /\ left'.faults < left.faults /\ left.faults \in Nat
  BY FaultType DEF JobInv, TypeOK
<1> QED
  BY <1>1, RunAssumption DEF JobInv, Results

LEMMA CrashInv == ASSUME JobInv, Crash PROVE JobInv'
<1>1. Fault /\ run' = Idle /\ UNCHANGED <<ctx, st, entry, marker, result, late>>
  BY DEF Crash, Ends
<1>2. tree' \in TreeType /\ files' \in FilesType
  BY ExecutorType, Typed DEF Crash, JobInv
<1>3. TypeOK'
  BY <1>1, <1>2, FaultType, IdleType DEF JobInv, TypeOK, TreeType, FilesType
<1>4. Results'
  BY <1>1, FaultResults
<1>5. st.status # "awaiting_approval" \/ tree' = tree
  BY NotWaiting DEF Crash, Quiet
<1>6. Keeps(st') /\ st'.last.n <= st.round
  BY <1>1, WithReports, Typed DEF JobInv, Rounds, Keeps
<1> QED
  BY <1>1, <1>3, <1>4, <1>5, <1>6, EndsInv

LEMMA EditedByOthersInv == ASSUME JobInv, EditedByOthers PROVE JobInv'
<1>1. Fault /\ run.pc = "idle" /\ Edit /\ UNCHANGED <<ctx, st, entry, marker, run, result, late>>
  BY DEF EditedByOthers
<1>2. tree' \in TreeType /\ files' \in FilesType /\ ~tree'.snapshot
  BY <1>1, EditType DEF JobInv
<1>3. TypeOK'
  BY <1>1, <1>2, FaultType DEF JobInv, TypeOK, TreeType, FilesType
<1>4. Results'
  BY <1>1, FaultResults
<1>5. Budgets' /\ Failures' /\ Waits'
  BY <1>1 DEF JobInv, Budgets, Failures, Gates, Waits
<1>6. (marker' => entry' # "open") /\ (late' > 0 => marker' /\ late' <= 1)
  BY <1>1 DEF JobInv, Entries, Lateness
<1>7. st.maxRounds \in Nat /\ st.maxRounds <= RoundLimit
  BY Typed DEF JobInv, Rounds, StateType
<1> QED
  BY <1>1, <1>2, <1>3, <1>4, <1>5, <1>6, <1>7, BetweenInv

-----------------------------------------------------------------------------
LEMMA WorkerInv == ASSUME JobInv, WorkerStep PROVE JobInv'
<1>1. CASE Skips \/ AsksApproval \/ Drifts \/ Prepares \/ Handshake
  BY <1>1, SkipsInv, AsksInv, DriftsInv, PreparesInv, HandshakeInv
<1>2. CASE Round \/ RoundCancelled \/ RoundsExhausted
  BY <1>2, RoundInv, CancelledInv, RoundsExhaustedInv DEF RoundCancelled
<1>3. CASE ManagerFails \/ ManagerAsks \/ ManagerDone \/ ManagerExecutes \/ ManagerCancelled \/ Again
  BY <1>3, ManagerFailsInv, ManagerAsksInv, ManagerDoneInv, ManagerExecutesInv,
     ManagerCancelledInv, AgainInv
<1>4. CASE Attempt \/ ExecutorThrows \/ ExecutorCancelled
  BY <1>4, AttemptInv, ThrowsInv, StageCancellations
<1>5. ASSUME NEW edited \in BOOLEAN, ExecutorReturns(edited) PROVE JobInv'
  BY <1>5, ReturnsInv
<1>6. CASE TestCancelled \/ TestFails \/ TestPasses
  BY <1>6, StageCancellations, TestFailsInv, TestPassesInv
<1>7. CASE ReviewFails \/ ReviewCancelled \/ ReviewerEdits
  BY <1>7, ReviewFailsInv, StageCancellations, ReviewerEditsInv
<1>8. CASE ReviewReturns
  BY <1>8, ReviewsInv DEF ReviewReturns
<1>9. ASSUME NEW committed \in BOOLEAN, Finishes(committed) PROVE JobInv'
  BY <1>9, FinishesInv
<1>10. CASE Tidies \/ Reports
  BY <1>10, TidiesInv, ReportsInv
<1> QED
  BY <1>1, <1>2, <1>3, <1>4, <1>5, <1>6, <1>7, <1>8, <1>9, <1>10 DEF WorkerStep

LEMMA NextInv == JobInv /\ [Next]_vars => JobInv'
<1> SUFFICES ASSUME JobInv, [Next]_vars PROVE JobInv'
  OBVIOUS
<1>1. CASE Starts \/ Blocked \/ WorkerStep
  BY <1>1, StartsInv, BlockedInv, WorkerInv
<1>2. ASSUME NEW extra \in 0 .. 1, NEW refresh \in BOOLEAN, Continue(extra, refresh) PROVE JobInv'
  BY <1>2, ContinueInv
<1>3. CASE Retry \/ ApproveRun
  BY <1>3, RetryInv, ApproveRunInv
<1>4. ASSUME NEW committed \in BOOLEAN, ApproveCompletion(committed) PROVE JobInv'
  BY <1>4, ApproveCompletionInv
<1>5. CASE CancelMarks \/ CancelSettles
  BY <1>5, CancelMarksInv, CancelSettlesInv
<1>6. CASE Crash \/ EditedByOthers
  BY <1>6, CrashInv, EditedByOthersInv
<1>7. CASE UNCHANGED vars
  BY <1>7 DEF vars, JobInv, TypeOK, Rounds, Kinds, Serial, Budgets, Failures, Gates, Waits,
              Outcomes, Entries, Lateness, Results, Passed, WaitsForCompletion, HasPassed, Structured
<1> QED
  BY <1>1, <1>2, <1>3, <1>4, <1>5, <1>6, <1>7 DEF Next

THEOREM Invariant == Spec => []JobInv
<1> QED
  BY InitInv, NextInv, PTL DEF Spec

-----------------------------------------------------------------------------
(* The invariants that the run checks. *)

\* Whatever crashes, cancels, retries and edits come in between, every part of a
\* job keeps its type: executeJob and what it calls.
THEOREM TypeCorrect == Spec => []TypeOK
<1>1. JobInv => TypeOK
  BY DEF JobInv
<1> QED
  BY <1>1, Invariant, PTL

\* No agent works on a job whose Human Gate waits, or that was to be approved
\* before its run and was not: prepareContinuation and executeJob.
THEOREM WorksOnlyWhenAllowed == Spec => []NoWorkBehindAGate
<1>1. JobInv => NoWorkBehindAGate
  BY DEF JobInv, Gates, NoWorkBehindAGate, Works, Working, Quiet
<1> QED
  BY <1>1, Invariant, PTL

\* After a cancel at most one more agent is started: the run looks at the marker
\* between any two of them.
THEOREM CancelEndsTheWork == Spec => []CancelStopsWork
<1>1. JobInv => CancelStopsWork
  BY Typed DEF JobInv, Lateness, CancelStopsWork
<1> QED
  BY <1>1, Invariant, PTL

\* Retries, fixes, rounds and counted failures stay within their limits, for any
\* limits: StageRetryBudget, extendRoundLimit and trackFailure.
THEOREM LimitsHold == Spec => []WithinLimits
<1>1. JobInv => WithinLimits
  <2> SUFFICES ASSUME JobInv PROVE WithinLimits
    OBVIOUS
  <2>1. st.count \in Nat
    BY Typed DEF JobInv, StateType
  <2> QED
    BY <2>1 DEF JobInv, Budgets, Rounds, Failures, WithinLimits
<1> QED
  BY <1>1, Invariant, PTL

\* A job at work has an open queue entry, or a cancel has closed it, or it is an
\* adaptive job that goes on after a failed verification.
THEOREM WorkIsQueued == Spec => []WorkHasAnEntry
<1>1. JobInv => WorkHasAnEntry
  BY DEF JobInv, Entries, WorkHasAnEntry, Works, Working, Quiet, Unverified
<1> QED
  BY <1>1, Invariant, PTL

\* Between runs, and as long as nothing has crashed, result.json says what the
\* state says: writeResult and finalizeState.
THEOREM ResultIsCurrent == Spec => []ResultAgrees
<1>1. JobInv => ResultAgrees
  BY DEF JobInv, Results, ResultAgrees
<1> QED
  BY <1>1, Invariant, PTL

-----------------------------------------------------------------------------
(* What a step may do to the state. *)

Grows == \A i \in Index : st'.execution[i] >= st.execution[i] /\ st'.fix[i] >= st.fix[i]

\* A step that neither completes the job nor lowers its budgets.
Proceeds == (st'.status = "done" => st.status = "done") /\ Grows

LEMMA GrowsWhenEqual ==
  ASSUME JobInv, st'.execution = st.execution, st'.fix = st.fix
  PROVE  Grows
<1>1. \A i \in Index : st.execution[i] \in Nat /\ st.fix[i] \in Nat
  BY Typed DEF JobInv, StateType
<1> QED
  BY <1>1 DEF Grows

LEMMA LikeProceeds ==
  ASSUME JobInv, Like(st')
  PROVE  Proceeds
BY GrowsWhenEqual DEF Like, Keeps, Proceeds

LEMMA SameProceeds ==
  ASSUME JobInv, st' = st
  PROVE  Proceeds
BY GrowsWhenEqual DEF Proceeds

LEMMA FinalProceeds ==
  ASSUME JobInv, NEW s \in StateType, Keeps(s),
         NEW status \in {"cancelled", "needs_fix"}, Finalizes(s, status)
  PROVE  Proceeds
<1> DEFINE t == [s EXCEPT !.status = status, !.phase = "other"]
<1>1. t.execution = s.execution /\ t.fix = s.fix /\ t.status = status
  BY DEF StateType
<1>2. st' = t
  BY DEF Finalizes
<1> HIDE DEF t
<1> QED
  BY <1>1, <1>2, GrowsWhenEqual DEF Proceeds, Keeps

LEMMA StageCancelledProceeds ==
  ASSUME JobInv, StageCancelled
  PROVE  Proceeds
<1>1. CASE ctx.adaptive
  <2> DEFINE report == Reported(run, "none", TRUE).last
             s == [st EXCEPT !.last = report]
  <2>1. report \in Report
    BY Typed, ReportedFacts DEF JobInv, Verdict
  <2>2. Finalizes(s, "cancelled")
    BY <1>1 DEF StageCancelled
  <2> HIDE DEF report
  <2>3. s \in StateType /\ Keeps(s)
    BY <2>1, WithReports DEF JobInv
  <2> HIDE DEF s
  <2> QED
    BY <2>2, <2>3, FinalProceeds
<1>2. CASE ~ctx.adaptive
  <2>1. Finalizes(st, "cancelled")
    BY <1>2 DEF StageCancelled
  <2> QED
    BY <2>1, Typed, WithReports, FinalProceeds DEF JobInv
<1> QED
  BY <1>1, <1>2

LEMMA RetriedProceeds ==
  ASSUME JobInv, NEW s, Like(s),
         (CanRetryExecution /\ RetriesExecution(s)) \/ (CanRetryFix /\ RetriesFix(s))
  PROVE  Proceeds
BY RetriedFacts DEF Proceeds, Grows

LEMMA FixOrFailProceeds ==
  ASSUME JobInv, NEW s, Like(s), NEW status, NEW error, NEW verdict, NEW ok,
         FixOrFail(s, status, error, verdict, ok)
  PROVE  Proceeds
<1>1. CASE CanRetryFix
  BY <1>1, RetriedProceeds DEF FixOrFail
<1>2. CASE ~CanRetryFix
  BY <1>2, LikeProceeds DEF FixOrFail
<1> QED
  BY <1>1, <1>2

LEMMA PassesProceeds ==
  ASSUME JobInv, NEW s, Like(s), NEW verdict \in Verdict, StagePasses(s, verdict)
  PROVE  Proceeds
<1> DEFINE last == Reported(run, verdict, TRUE).last
<1>1. st' = s \/ st' = [s EXCEPT !.last = last]
  BY DEF StagePasses
<1> HIDE DEF last
<1>2. /\ [s EXCEPT !.last = last].execution = s.execution
      /\ [s EXCEPT !.last = last].fix = s.fix
      /\ [s EXCEPT !.last = last].status = s.status
  BY DEF Like, Keeps, StateType
<1> QED
  BY <1>1, <1>2, GrowsWhenEqual DEF Proceeds, Like, Keeps

LEMMA SimpleProceeds ==
  ASSUME JobInv,
         \/ Skips \/ AsksApproval \/ Drifts \/ Prepares \/ Handshake \/ Round \/ RoundCancelled
         \/ RoundsExhausted \/ ManagerAsks \/ ManagerDone \/ ManagerExecutes \/ ManagerCancelled
         \/ Again \/ Attempt \/ ExecutorCancelled \/ TestCancelled \/ ReviewCancelled
         \/ Tidies \/ Reports
  PROVE  Proceeds
<1>1. st \in StateType /\ Keeps(st)
  BY Typed, WithReports DEF JobInv
<1>2. CASE Skips \/ Drifts \/ RoundCancelled \/ ManagerCancelled
  BY <1>1, <1>2, FinalProceeds DEF Skips, Drifts, RoundCancelled, Cancelled, ManagerCancelled
<1>3. CASE \/ Prepares \/ Handshake \/ RoundsExhausted \/ ManagerAsks \/ ManagerDone
          \/ ManagerExecutes \/ Tidies
  BY <1>3, SameProceeds
     DEF Prepares, Handshake, RoundsExhausted, ManagerAsks, ManagerDone, ManagerExecutes, Tidies
<1>4. CASE AsksApproval
  <2>1. st' = [st EXCEPT !.status = "awaiting_approval", !.phase = "before_run",
                         !.gate = "before_run"]
    BY <1>4 DEF AsksApproval
  <2>2. st'.execution = st.execution /\ st'.fix = st.fix /\ st'.status = "awaiting_approval"
    BY <1>1, <2>1 DEF StateType
  <2> QED
    BY <2>2, GrowsWhenEqual DEF Proceeds
<1>5. CASE Round
  <2>1. st' = [st EXCEPT !.status = "running", !.phase = "other", !.round = @ + 1]
    BY <1>5 DEF Round
  <2>2. st'.execution = st.execution /\ st'.fix = st.fix /\ st'.status = "running"
    BY <1>1, <2>1 DEF StateType
  <2> QED
    BY <2>2, GrowsWhenEqual DEF Proceeds
<1>6. CASE Again
  <2>1. st' = st \/ st' = [st EXCEPT !.streak = run.streak + 1]
    BY <1>6 DEF Again
  <2>2. st'.execution = st.execution /\ st'.fix = st.fix /\ st'.status = st.status
    BY <1>1, <2>1 DEF StateType
  <2> QED
    BY <2>2, GrowsWhenEqual DEF Proceeds
<1>7. CASE Attempt
  <2>1. CASE StageCancelled
    BY <2>1, StageCancelledProceeds
  <2>2. CASE st' = [st EXCEPT !.status = "running", !.phase = "other"]
    <3>1. st'.execution = st.execution /\ st'.fix = st.fix /\ st'.status = "running"
      BY <1>1, <2>2 DEF StateType
    <3> QED
      BY <3>1, GrowsWhenEqual DEF Proceeds
  <2> QED
    BY <1>7, <2>1, <2>2 DEF Attempt
<1>8. CASE ExecutorCancelled \/ TestCancelled \/ ReviewCancelled
  BY <1>8, StageCancelledProceeds DEF ExecutorCancelled, TestCancelled, ReviewCancelled
<1>9. CASE Reports
  <2>1. st' = st \/ st' = [st EXCEPT !.last = run.last]
    BY <1>9 DEF Reports
  <2>2. st'.execution = st.execution /\ st'.fix = st.fix /\ st'.status = st.status
    BY <1>1, <2>1 DEF StateType
  <2> QED
    BY <2>2, GrowsWhenEqual DEF Proceeds
<1> QED
  BY <1>2, <1>3, <1>4, <1>5, <1>6, <1>7, <1>8, <1>9

LEMMA StageProceeds ==
  ASSUME JobInv,
         \/ ManagerFails \/ ExecutorThrows \/ TestFails \/ TestPasses \/ ReviewFails \/ ReviewerEdits
  PROVE  Proceeds
<1>1. Like(st) /\ \A f : Like([st EXCEPT !.audit = AfterDiff(st.audit, f)])
  BY Typed, LikeState, LikeAudit, AfterDiffFacts DEF JobInv, StateType
<1>2. CASE ManagerFails \/ ReviewerEdits
  <2>1. st' = st \/ st' = [st EXCEPT !.audit = AfterDiff(st.audit, [patch |-> "stale"])]
    BY <1>2, Typed DEF ManagerFails, ReviewerEdits, JobInv
  <2> QED
    BY <1>1, <2>1, LikeProceeds
<1>3. CASE ExecutorThrows
  <2>1. CASE CanRetryExecution
    BY <1>1, <1>3, <2>1, RetriedProceeds DEF ExecutorThrows
  <2>2. CASE ~CanRetryExecution
    BY <1>3, <2>2, SameProceeds DEF ExecutorThrows
  <2> QED
    BY <2>1, <2>2
<1>4. CASE TestFails \/ ReviewFails
  <2>1. \/ FixOrFail(st, "needs_fix", "test", "none", FALSE)
        \/ FixOrFail(st, "review_failed", "reviewer", "none", TRUE)
        \/ FixOrFail(st, "review_failed", "audit", "FAIL", TRUE)
    BY <1>4 DEF TestFails, ReviewFails
  <2> QED
    BY <1>1, <2>1, FixOrFailProceeds
<1>5. CASE TestPasses
  <2>1. "none" \in Verdict
    BY DEF Verdict
  <2>2. StagePasses(st, "none") \/ st' = st
    BY <1>5 DEF TestPasses
  <2> QED
    BY <1>1, <2>1, <2>2, PassesProceeds, SameProceeds
<1> QED
  BY <1>2, <1>3, <1>4, <1>5

LEMMA ReturnsProceeds ==
  ASSUME JobInv, NEW edited \in BOOLEAN, ExecutorReturns(edited)
  PROVE  Proceeds
<1> DEFINE f == IF edited /\ files.patch = "fresh" THEN [files EXCEPT !.patch = "stale"] ELSE files
           a == AfterDiff(st.audit, f)
           s == [st EXCEPT !.audit = a]
<1>1. \/ FixOrFail(s, "needs_fix", "guard", "none", TRUE)
      \/ CanRetryExecution /\ RetriesExecution(s)
      \/ st' = s
  BY DEF ExecutorReturns
<1>2. a \in Audit
  BY Typed, AfterDiffFacts DEF JobInv, StateType
<1> HIDE DEF f, a
<1>3. Like(s)
  BY <1>2, LikeAudit DEF JobInv
<1> HIDE DEF s
<1> QED
  BY <1>1, <1>3, FixOrFailProceeds, RetriedProceeds, LikeProceeds

LEMMA ReviewsProceeds ==
  ASSUME JobInv, NEW md \in Review, NEW json \in BOOLEAN, NEW audit \in Audit,
         Reviews(md, json, audit)
  PROVE  Proceeds
<1> DEFINE s == IF Structured THEN [st EXCEPT !.audit = audit] ELSE st
<1>1. \/ StagePasses(s, "PASS") \/ st' = s
      \/ FixOrFail(s, "needs_fix", "review", "FAIL", TRUE)
  BY DEF Reviews
<1>2. Like(s) /\ "PASS" \in Verdict
  BY LikeState, LikeAudit DEF JobInv, Verdict
<1> HIDE DEF s
<1> QED
  BY <1>1, <1>2, PassesProceeds, LikeProceeds, FixOrFailProceeds

\* Only finish and an approval complete a job, and no step of a run gives
\* budgets back.
LEMMA WorkerProceeds ==
  ASSUME JobInv, WorkerStep
  PROVE  Proceeds \/ (Grows /\ \E committed \in BOOLEAN : Finishes(committed))
<1>1. ASSUME NEW committed \in BOOLEAN, Finishes(committed)
      PROVE  Grows
  BY <1>1, FinishesFacts, GrowsWhenEqual
<1>2. CASE \E committed \in BOOLEAN : Finishes(committed)
  BY <1>1, <1>2
<1>3. CASE \E edited \in BOOLEAN : ExecutorReturns(edited)
  BY <1>3, ReturnsProceeds
<1>4. CASE ReviewReturns
  BY <1>4, ReviewsProceeds DEF ReviewReturns
<1> QED
  BY <1>2, <1>3, <1>4, SimpleProceeds, StageProceeds DEF WorkerStep

LEMMA CommandCounts == ASSUME JobInv, Command PROVE left'.commands < left.commands
<1>1. left \in [commands : Nat, faults : Nat]
  BY DEF JobInv, TypeOK
<1> QED
  BY <1>1 DEF Command

\* The commands, faults and starts.
LEMMA OutsideProceeds ==
  ASSUME JobInv,
         \/ Starts \/ Blocked \/ Retry \/ ApproveRun \/ CancelMarks \/ CancelSettles \/ Crash
         \/ EditedByOthers
         \/ \E extra \in 0 .. 1, refresh \in BOOLEAN : Continue(extra, refresh)
  PROVE  /\ st'.status = "done" => st.status = "done"
         /\ \/ Grows \/ left'.commands < left.commands
            \/ run.pc = "idle" /\ st.gate # "none" /\ st'.gate = "none"
<1>1. st \in StateType
  BY Typed DEF JobInv
<1>2. CASE Blocked \/ CancelMarks \/ Crash \/ EditedByOthers
  BY <1>2, SameProceeds DEF Blocked, CancelMarks, Crash, EditedByOthers, Proceeds
<1>3. CASE Starts
  <2>1. CASE st.gate = "none"
    BY <1>3, <2>1, SameProceeds DEF Starts, Proceeds
  <2>2. CASE st.gate # "none"
    BY <1>1, <1>3, <2>2, ResolvedFacts DEF Starts
  <2> QED
    BY <2>1, <2>2
<1>4. CASE Retry
  <2>1. st'.status = "queued"
    BY <1>1, <1>4 DEF Retry, StateType
  <2> QED
    BY <1>4, <2>1, CommandCounts DEF Retry
<1>5. CASE ApproveRun
  <2>1. st'.status = "queued"
    BY <1>1, <1>5 DEF ApproveRun, StateType
  <2> QED
    BY <1>5, <2>1, CommandCounts DEF ApproveRun
<1>6. CASE CancelSettles
  <2>1. /\ st'.status = "cancelled" /\ st'.execution = st.execution /\ st'.fix = st.fix
    BY <1>1, <1>6 DEF CancelSettles, StateType
  <2> QED
    BY <2>1, GrowsWhenEqual
<1>7. ASSUME NEW extra \in 0 .. 1, NEW refresh \in BOOLEAN, Continue(extra, refresh)
      PROVE  st'.status = st.status /\ left'.commands < left.commands
  <2> DEFINE s == Resolved(st)
             m == s.maxRounds + extra
  <2>1. s \in StateType /\ s.status = st.status
    BY <1>1, ResolvedFacts
  <2>2. st' = st \/ st' = [s EXCEPT !.maxRounds = m]
    BY <1>7 DEF Continue
  <2> HIDE DEF s, m
  <2>3. st'.status = st.status
    BY <2>1, <2>2 DEF StateType
  <2> QED
    BY <1>7, <2>3, CommandCounts DEF Continue
<1> QED
  BY <1>2, <1>3, <1>4, <1>5, <1>6, <1>7

\* What an approval of the completion has found.
LEMMA ApprovalDelivers ==
  ASSUME JobInv, NEW committed \in BOOLEAN, ApproveCompletion(committed), st'.status = "done", Serial
  PROVE  tree.tested /\ (Structured => tree.reviewed /\ st.audit.complete)
<1> DEFINE status == IF ~CompletionHolds THEN "needs_fix"
                     ELSE IF ctx.commit /\ ~committed THEN "failed" ELSE "done"
<1>1. /\ WaitsForCompletion
      /\ st' = [st EXCEPT !.status = status, !.phase = "other", !.gate = "none"]
  BY DEF ApproveCompletion, WaitsForCompletion
<1>2. st'.status = status
  BY <1>1, Typed DEF JobInv, StateType
<1>3. CompletionHolds
  BY <1>2
<1> QED
  BY <1>1, <1>3 DEF JobInv, Passed, HasPassed, CompletionHolds, EvidenceValid, AuditAllows

LEMMA FinishDelivers ==
  ASSUME JobInv, NEW committed \in BOOLEAN, Finishes(committed), st'.status = "done", Serial
  PROVE  tree.tested /\ (Structured => tree.reviewed /\ st.audit.complete)
BY FinishesFacts DEF JobInv, Passed, HasPassed, AuditAllows

\* A serial job is completed, by its run or by an approval, only with the tree
\* that has passed its tests and, with structured audits, its review.
THEOREM DoneWasVerified == Spec => DeliversWhatWasVerified
<1>1. ASSUME JobInv, [Next]_vars
      PROVE  [st'.status = "done" /\ st.status # "done" /\ Serial
                => /\ tree.tested
                   /\ Structured => tree.reviewed /\ st.audit.complete]_vars
  <2> SUFFICES ASSUME Next, st'.status = "done", st.status # "done", Serial
               PROVE  tree.tested /\ (Structured => tree.reviewed /\ st.audit.complete)
    BY <1>1 DEF vars
  <2>1. CASE WorkerStep
    BY <1>1, <2>1, WorkerProceeds, FinishDelivers DEF Proceeds
  <2>2. CASE \E committed \in BOOLEAN : ApproveCompletion(committed)
    BY <1>1, <2>2, ApprovalDelivers
  <2> QED
    BY <1>1, <2>1, <2>2, OutsideProceeds DEF Next
<1> QED
  BY <1>1, Invariant, PTL DEF Spec, DeliversWhatWasVerified

\* Nothing but a command or a resolved gate gives budgets back, a crash least of
\* all: StageRetryBudget and prepareContinuation.
THEOREM BudgetsAreKept == Spec => BudgetsSurvive
<1>1. ASSUME JobInv, [Next]_vars
      PROVE  [ \/ \A i \in Index : st'.execution[i] >= st.execution[i] /\ st'.fix[i] >= st.fix[i]
               \/ left'.commands < left.commands
               \/ run.pc = "idle" /\ st.gate # "none" /\ st'.gate = "none"]_vars
  <2> SUFFICES ASSUME Next
               PROVE  \/ Grows \/ left'.commands < left.commands
                      \/ run.pc = "idle" /\ st.gate # "none" /\ st'.gate = "none"
    BY <1>1 DEF vars, Grows
  <2>1. CASE WorkerStep
    BY <1>1, <2>1, WorkerProceeds DEF Proceeds
  <2>2. CASE \E committed \in BOOLEAN : ApproveCompletion(committed)
    BY <1>1, <2>2, CommandCounts DEF ApproveCompletion
  <2> QED
    BY <1>1, <2>1, <2>2, OutsideProceeds DEF Next
<1> QED
  BY <1>1, Invariant, PTL DEF Spec, BudgetsSurvive

-----------------------------------------------------------------------------
(* Every run ends. *)

LEMMA Positions ==
  ASSUME NEW r
  PROVE  /\ r.pc = "locked" => Position(r) = 11
         /\ r.pc = "handshake" => Position(r) = 10
         /\ r.pc = "manager" => Position(r) = 9
         /\ r.pc = "attempt" => Position(r) = 8
         /\ r.pc = "execute" => Position(r) = 7
         /\ r.pc = "test" => Position(r) = 6
         /\ r.pc = "review" => Position(r) = 5
         /\ r.pc = "finish" => Position(r) = IF r.then = "again" THEN 6 ELSE 2
         /\ r.pc = "tidy" => Position(r) = IF r.then = "again" THEN 5 ELSE 1
         /\ r.pc = "again" => Position(r) = 4
         /\ r.pc = "round" => Position(r) = 3
         /\ r.pc = "report" => Position(r) = 0
BY DEF Position

\* The part of a step that RunsEnd is about, but for the budgets.
Descends == /\ Ahead >= Ahead'
            /\ UsesUp \/ Position(run') < Position(run)

\* A step that stays in its stage and round, and comes closer to the end of it.
LEMMA Closer ==
  ASSUME JobInv, ctx' = ctx, st'.round = st.round, st'.maxRounds = st.maxRounds,
         ctx.adaptive \/ run'.stage = run.stage,
         Position(run') < Position(run)
  PROVE  Descends
<1>1. st.round \in Nat /\ st.maxRounds \in Nat /\ run.stage \in Int /\ Stages \in Int
  BY Typed, RunAssumption DEF JobInv, StateType, RunType, Index
<1> QED
  BY <1>1 DEF Descends, Ahead

\* The parts of a run that finish and a report leave alone.
LEMMA ReportedStage ==
  ASSUME JobInv, NEW verdict \in Verdict, NEW ok \in BOOLEAN
  PROVE  /\ Reported(run, verdict, ok) \in RunType
         /\ Reported(run, verdict, ok).stage = run.stage
         /\ Reported(run, verdict, ok).then = run.then
<1>1. \A f \in {"pc", "stage", "skip", "cached", "streak", "status", "phase", "gate", "error",
                "then", "testOk", "verdict"} : Reported(run, verdict, ok)[f] = run[f]
  BY Typed, ReportedFacts DEF JobInv
<1> QED
  BY <1>1, Typed, ReportedFacts DEF JobInv

LEMMA FinishedRun ==
  ASSUME NEW r \in RunType, NEW status, NEW phase, NEW gate, NEW error, NEW then,
         run' = Finish(r, status, phase, gate, error, then)
  PROVE  run'.pc = "finish" /\ run'.then = then /\ run'.stage = r.stage
BY DEF Finish, RunType

\* What a run may do next inside its stage.
LEMMA RetriedDescends ==
  ASSUME JobInv, ctx' = ctx, NEW s, Like(s),
         (CanRetryExecution /\ RetriesExecution(s)) \/ (CanRetryFix /\ RetriesFix(s))
  PROVE  Descends
<1>1. /\ run.stage \in Index
      /\ st.execution \in [Index -> Nat] /\ st.fix \in [Index -> Nat]
  BY StageOf
<1>2. s \in StateType /\ s.execution = st.execution /\ s.fix = st.fix
  BY DEF Like, Keeps
<1>3. st'.execution[run.stage] > st.execution[run.stage] \/ st'.fix[run.stage] > st.fix[run.stage]
  <2> DEFINE i == run.stage
             e == [st.execution EXCEPT ![i] = @ + 1]
             x == [st.fix EXCEPT ![i] = @ + 1]
  <2>1. e[i] = st.execution[i] + 1 /\ x[i] = st.fix[i] + 1
    BY <1>1
  <2>2. st' = [s EXCEPT !.execution = e] \/ st' = [s EXCEPT !.fix = x]
    BY <1>2 DEF RetriesExecution, RetriesFix, StateType
  <2>3. st.execution[i] \in Nat /\ st.fix[i] \in Nat
    BY <1>1
  <2> HIDE DEF i, e, x
  <2>4. st'.execution = e \/ st'.fix = x
    BY <1>2, <2>2 DEF StateType
  <2> QED
    BY <2>1, <2>3, <2>4 DEF i
<1>4. UsesUp
  BY <1>1, <1>3 DEF UsesUp
<1>5. run'.stage = run.stage
  BY Typed DEF RetriesExecution, RetriesFix, JobInv, RunType
<1>6. st'.round = st.round /\ st'.maxRounds = st.maxRounds
  BY RetriedFacts
<1>7. st.round \in Nat /\ st.maxRounds \in Nat /\ run.stage \in Int /\ Stages \in Int
  BY Typed, RunAssumption DEF JobInv, StateType, RunType, Index
<1> QED
  BY <1>4, <1>5, <1>6, <1>7 DEF Descends, Ahead

InStage == run.pc \in {"execute", "test", "review"}

LEMMA StageFailsDescends ==
  ASSUME JobInv, InStage, ctx' = ctx, Like(st'), NEW status, NEW phase, NEW gate, NEW error,
         NEW verdict \in Verdict, NEW ok \in BOOLEAN,
         StageFails(status, phase, gate, error, verdict, ok)
  PROVE  Descends
<1>1. run'.pc = "finish" /\ run'.then = "report" /\ run'.stage = run.stage
  BY ReportedStage, FinishedRun DEF StageFails
<1>2. Position(run') = 2 /\ Position(run) \in 5 .. 7
  BY <1>1, Positions DEF InStage
<1> QED
  BY <1>1, <1>2, Closer DEF Like, Keeps

LEMMA FixOrFailDescends ==
  ASSUME JobInv, InStage, ctx' = ctx, NEW s, Like(s), NEW status, NEW error,
         NEW verdict \in Verdict, NEW ok \in BOOLEAN, FixOrFail(s, status, error, verdict, ok)
  PROVE  Descends
<1>1. CASE CanRetryFix
  BY <1>1, RetriedDescends DEF FixOrFail
<1>2. CASE ~CanRetryFix
  BY <1>2, StageFailsDescends DEF FixOrFail
<1> QED
  BY <1>1, <1>2

LEMMA PassesDescends ==
  ASSUME JobInv, InStage, ctx' = ctx, NEW s, Like(s), NEW verdict \in Verdict,
         StagePasses(s, verdict)
  PROVE  Descends
<1> DEFINE r == Reported(run, verdict, TRUE)
           last == r.last
<1>1. r \in RunType /\ r.stage = run.stage
  BY ReportedStage
<1>2. CASE ctx.adaptive
  <2>1. run' = [r EXCEPT !.pc = "round"] /\ st' = [s EXCEPT !.last = last]
    BY <1>2 DEF StagePasses
  <2> HIDE DEF r, last
  <2>2. run'.pc = "round" /\ st'.round = st.round /\ st'.maxRounds = st.maxRounds
    BY <1>1, <2>1 DEF RunType, Like, Keeps, StateType
  <2>3. Position(run') < Position(run)
    BY <1>2, <2>2, Positions DEF InStage
  <2> QED
    BY <1>2, <2>2, <2>3, Closer DEF InStage
<1>3. CASE ~ctx.adaptive /\ run.stage < Stages
  <2> DEFINE skip == run.stage + 1 \in ctx.skip
  <2>1. run' = [r EXCEPT !.pc = "attempt", !.stage = r.stage + 1, !.skip = skip]
    BY <1>3 DEF StagePasses
  <2> HIDE DEF r, skip
  <2>2. run'.stage = run.stage + 1
    BY <1>1, <2>1 DEF RunType
  <2>3. run.stage \in Int /\ Stages \in Int
    BY Typed, RunAssumption DEF JobInv, RunType, Index
  <2> QED
    BY <1>3, <2>2, <2>3 DEF Descends, UsesUp, Ahead
<1>4. CASE ~ctx.adaptive /\ ~(run.stage < Stages)
  <2> DEFINE q == [r EXCEPT !.testOk = TRUE, !.verdict = verdict]
  <2>1. run' = Finish(q, "done", "other", "none", "none", "end") /\ st' = s
    BY <1>4 DEF StagePasses
  <2> HIDE DEF r
  <2>2. q \in RunType /\ q.stage = run.stage
    BY <1>1 DEF RunType
  <2> HIDE DEF q
  <2>3. run'.pc = "finish" /\ run'.then = "end" /\ run'.stage = run.stage
    BY <2>1, <2>2, FinishedRun
  <2>4. Position(run') < Position(run)
    BY <2>1, <2>3, Positions DEF InStage
  <2> QED
    BY <2>1, <2>3, <2>4, Closer DEF InStage, Like, Keeps
<1> QED
  BY <1>2, <1>3, <1>4

\* The steps before the first stage, between the rounds, and after the last.
LEMMA PreparesDescends == ASSUME JobInv, Prepares PROVE Descends
<1> DEFINE pc   == IF ctx.contract /\ ~files.understanding THEN "handshake"
                   ELSE IF ctx.adaptive THEN "round" ELSE "attempt"
           last == IF ctx.adaptive THEN st.last ELSE NoReport
           skip == 1 \in ctx.skip
<1>1. run' = [run EXCEPT !.pc = pc, !.skip = skip, !.streak = st.streak, !.last = last]
  BY DEF Prepares
<1>2. pc \in {"handshake", "round", "attempt"}
  OBVIOUS
<1> HIDE DEF pc, last, skip
<1>3. run'.pc = pc /\ run'.stage = run.stage
  BY <1>1, Typed DEF JobInv, RunType
<1>4. run.pc = "locked" /\ UNCHANGED <<ctx, st>>
  BY DEF Prepares
<1>5. Position(run') < Position(run)
  BY <1>2, <1>3, <1>4, Positions
<1> QED
  BY <1>2, <1>3, <1>4, <1>5, Closer

LEMMA HandshakeDescends == ASSUME JobInv, Handshake PROVE Descends
<1>1. run.pc = "handshake" /\ UNCHANGED <<ctx, st>>
  BY DEF Handshake
<1>2. run \in RunType
  BY Typed DEF JobInv
<1>3. CASE run' = [run EXCEPT !.pc = IF ctx.adaptive THEN "round" ELSE "attempt"]
  <2>1. run'.pc \in {"round", "attempt"} /\ run'.stage = run.stage
    BY <1>2, <1>3 DEF RunType
  <2>2. Position(run') < Position(run)
    BY <1>1, <2>1, Positions
  <2> QED
    BY <1>1, <2>1, <2>2, Closer
<1>4. CASE \/ run' = Finish(run, "needs_fix", "other", "none", "handshake", "end")
           \/ run' = Finish(run, "needs_fix", "awaiting_clarification", "needs_input", "other", "end")
  <2>1. run'.pc = "finish" /\ run'.then = "end" /\ run'.stage = run.stage
    BY <1>2, <1>4, FinishedRun
  <2>2. Position(run') < Position(run)
    BY <1>1, <2>1, Positions
  <2> QED
    BY <1>1, <2>1, <2>2, Closer
<1> QED
  BY <1>3, <1>4 DEF Handshake

LEMMA RoundsDescend ==
  ASSUME JobInv, Round \/ RoundsExhausted \/ ManagerFails \/ ManagerAsks \/ ManagerDone
                 \/ ManagerExecutes \/ (Again /\ run'.pc # "idle")
  PROVE  Descends
<1>1. run \in RunType /\ st \in StateType /\ ctx' = ctx
  BY Typed DEF JobInv, Round, RoundsExhausted, ManagerFails, ManagerAsks, ManagerDone,
               ManagerExecutes, Again
<1>2. ctx.adaptive
  BY DEF JobInv, Kinds, Round, RoundsExhausted, ManagerFails, ManagerAsks, ManagerDone,
         ManagerExecutes, Again, Decides
<1>3. CASE Round
  <2>1. st' = [st EXCEPT !.status = "running", !.phase = "other", !.round = @ + 1]
    BY <1>3 DEF Round
  <2>2. st'.round = st.round + 1 /\ st'.maxRounds = st.maxRounds
    BY <1>1, <2>1 DEF StateType
  <2>3. st.round \in Nat /\ st.maxRounds \in Nat
    BY <1>1 DEF StateType
  <2> QED
    BY <1>1, <1>2, <2>2, <2>3 DEF Descends, UsesUp, Ahead
<1>4. CASE RoundsExhausted
  <2>1. run.pc = "round" /\ st' = st /\ run'.pc = "finish" /\ run'.then = "end"
    BY <1>1, <1>4, FinishedRun DEF RoundsExhausted
  <2>2. Position(run') < Position(run)
    BY <1>1, <1>2, <2>1, Positions
  <2> QED
    BY <1>1, <1>2, <2>1, <2>2, Closer
<1>5. CASE ManagerFails
  <2>1. run.pc = "manager" /\ run'.pc = "finish" /\ run'.then = "end"
    BY <1>1, <1>5, FinishedRun DEF ManagerFails
  <2>2. st' = st \/ st' = [st EXCEPT !.audit = AfterDiff(st.audit, [patch |-> "stale"])]
    BY <1>1, <1>5 DEF ManagerFails
  <2>3. st'.round = st.round /\ st'.maxRounds = st.maxRounds
    BY <1>1, <2>2 DEF StateType
  <2>4. Position(run') < Position(run)
    BY <1>1, <1>2, <2>1, <2>3, Positions
  <2> QED
    BY <1>1, <1>2, <2>1, <2>3, <2>4, Closer
<1>6. CASE ManagerAsks
  <2> DEFINE r == [run EXCEPT !.streak = 0]
  <2>1. /\ run.pc = "manager" /\ st' = st
        /\ \E phase \in {"adaptive_ask", "adaptive_blocked"} :
             run' = Finish(r, "needs_fix", phase, "needs_input", "other", "end")
    BY <1>6 DEF ManagerAsks, Decides
  <2>2. r \in RunType
    BY <1>1 DEF RunType
  <2> HIDE DEF r
  <2>3. run'.pc = "finish" /\ run'.then = "end"
    BY <2>1, <2>2, FinishedRun
  <2>4. Position(run') < Position(run)
    BY <1>1, <1>2, <2>1, <2>3, Positions
  <2> QED
    BY <1>1, <1>2, <2>1, <2>3, <2>4, Closer
<1>7. CASE ManagerDone
  <2> DEFINE r == [run EXCEPT !.testOk = run.last.testOk, !.verdict = run.last.verdict]
  <2>1. /\ run.pc = "manager" /\ st' = st
        /\ run' = Finish(r, "done", "other", "none", "none", "again")
    BY <1>7 DEF ManagerDone, Decides
  <2>2. r \in RunType
    BY <1>1, Typed DEF JobInv, RunType, Report
  <2> HIDE DEF r
  <2>3. run'.pc = "finish" /\ run'.then = "again"
    BY <2>1, <2>2, FinishedRun
  <2>4. Position(run') < Position(run)
    BY <1>1, <1>2, <2>1, <2>3, Positions
  <2> QED
    BY <1>1, <1>2, <2>1, <2>3, <2>4, Closer
<1>8. CASE ManagerExecutes
  <2>1. run.pc = "manager" /\ st' = st /\ run'.pc = "attempt"
    BY <1>1, <1>8 DEF ManagerExecutes, Decides, RunType
  <2>2. Position(run') < Position(run)
    BY <1>1, <1>2, <2>1, Positions
  <2> QED
    BY <1>1, <1>2, <2>1, <2>2, Closer
<1>9. CASE Again /\ run'.pc # "idle"
  <2>1. /\ run.pc = "again" /\ run' = [run EXCEPT !.pc = "round", !.streak = @ + 1]
        /\ st' = [st EXCEPT !.streak = run.streak + 1]
    BY <1>9 DEF Again, Ends, Idle
  <2>2. run'.pc = "round" /\ st'.round = st.round /\ st'.maxRounds = st.maxRounds
    BY <1>1, <2>1 DEF RunType, StateType
  <2>3. Position(run) = 4 /\ Position(run') = 3
    BY <2>1, <2>2, Positions
  <2> QED
    BY <1>1, <1>2, <2>2, <2>3, Closer
<1> QED
  BY <1>3, <1>4, <1>5, <1>6, <1>7, <1>8, <1>9

LEMMA FinishDescends ==
  ASSUME JobInv, Tidies \/ \E committed \in BOOLEAN : Finishes(committed), run'.pc # "idle"
  PROVE  Descends
<1>1. run \in RunType /\ ctx' = ctx
  BY Typed DEF JobInv, Tidies, Finishes
<1>2. CASE Tidies
  <2>1. run.pc = "tidy" /\ st' = st /\ run.then # "end" /\ run' = [run EXCEPT !.pc = run.then]
    BY <1>2 DEF Tidies, Ends, Idle
  <2>2. run.then \in {"again", "report"} /\ run'.pc = run.then /\ run'.stage = run.stage
    BY <1>1, <2>1 DEF RunType
  <2>3. Position(run') < Position(run)
    <3>1. CASE run.then = "again"
      <4>1. Position(run) = 5 /\ Position(run') = 4
        BY <2>1, <2>2, <3>1, Positions
      <4> QED
        BY <4>1
    <3>2. CASE run.then = "report"
      <4>1. Position(run) = 1 /\ Position(run') = 0
        BY <2>1, <2>2, <3>2, Positions
      <4> QED
        BY <4>1
    <3> QED
      BY <2>2, <3>1, <3>2
  <2> QED
    BY <1>1, <2>1, <2>2, <2>3, Closer
<1>3. CASE \E committed \in BOOLEAN : Finishes(committed)
  <2>1. run.pc = "finish" /\ st'.round = st.round /\ st'.maxRounds = st.maxRounds
    BY <1>3, FinishesFacts
  <2>2. run' = [run EXCEPT !.pc = "tidy"]
    BY <1>3 DEF Finishes
  <2>3. run'.pc = "tidy" /\ run'.then = run.then /\ run'.stage = run.stage
    BY <1>1, <2>2 DEF RunType
  <2>4. Position(run') < Position(run)
    BY <1>1, <2>1, <2>3, Positions
  <2> QED
    BY <1>1, <2>1, <2>3, <2>4, Closer
<1> QED
  BY <1>2, <1>3

\* A run that is given up is idle.
LEMMA CancelledIsIdle ==
  ASSUME Skips \/ AsksApproval \/ Drifts \/ RoundCancelled \/ ManagerCancelled \/ ExecutorCancelled
         \/ TestCancelled \/ ReviewCancelled \/ Reports \/ (Attempt /\ marker)
  PROVE  run'.pc = "idle"
<1>1. run' = Idle
  BY DEF Skips, AsksApproval, Drifts, RoundCancelled, Cancelled, ManagerCancelled,
         ExecutorCancelled, TestCancelled, ReviewCancelled, StageCancelled, Reports, Attempt,
         Finalizes, Ends
<1> QED
  BY <1>1 DEF Idle

\* The steps of a stage.
LEMMA StageDescends ==
  ASSUME JobInv, \/ Attempt /\ ~marker
                 \/ ExecutorThrows \/ TestFails \/ TestPasses \/ ReviewFails \/ ReviewerEdits
  PROVE  Descends
<1>1. /\ Like(st) /\ \A f : Like([st EXCEPT !.audit = AfterDiff(st.audit, f)])
      /\ run \in RunType /\ st \in StateType
  BY Typed, LikeState, LikeAudit, AfterDiffFacts DEF JobInv, StateType
<1>2. {"none", "FAIL"} \subseteq Verdict
  BY DEF Verdict
<1>3. CASE Attempt /\ ~marker
  <2>1. /\ run.pc = "attempt" /\ ctx' = ctx
        /\ st' = [st EXCEPT !.status = "running", !.phase = "other"]
        /\ run' = [run EXCEPT !.pc = "execute"]
    BY <1>3 DEF Attempt
  <2>2. /\ run'.pc = "execute" /\ run'.stage = run.stage
        /\ st'.round = st.round /\ st'.maxRounds = st.maxRounds
    BY <1>1, <2>1 DEF RunType, StateType
  <2>3. Position(run) = 8 /\ Position(run') = 7
    BY <2>1, <2>2, Positions
  <2> QED
    BY <2>1, <2>2, <2>3, Closer
<1>4. CASE ExecutorThrows
  <2>1. InStage /\ ctx' = ctx
    BY <1>4 DEF ExecutorThrows, InStage
  <2>2. CASE CanRetryExecution
    BY <1>1, <1>4, <2>1, <2>2, RetriedDescends DEF ExecutorThrows
  <2>3. CASE ~CanRetryExecution
    BY <1>1, <1>2, <1>4, <2>1, <2>3, StageFailsDescends DEF ExecutorThrows
  <2> QED
    BY <2>2, <2>3
<1>5. CASE TestFails \/ ReviewFails
  <2>1. InStage /\ ctx' = ctx
    BY <1>5 DEF TestFails, ReviewFails, InStage
  <2>2. \/ FixOrFail(st, "needs_fix", "test", "none", FALSE)
        \/ FixOrFail(st, "review_failed", "reviewer", "none", TRUE)
        \/ FixOrFail(st, "review_failed", "audit", "FAIL", TRUE)
    BY <1>5 DEF TestFails, ReviewFails
  <2> QED
    BY <1>1, <1>2, <2>1, <2>2, FixOrFailDescends
<1>6. CASE TestPasses
  <2>1. InStage /\ ctx' = ctx /\ run.pc = "test"
    BY <1>6 DEF TestPasses, InStage
  <2>2. CASE StagePasses(st, "none")
    BY <1>1, <1>2, <2>1, <2>2, PassesDescends
  <2>3. CASE run' = [run EXCEPT !.pc = "review"] /\ st' = st
    <3>1. run'.pc = "review" /\ run'.stage = run.stage
      BY <1>1, <2>3 DEF RunType
    <3>2. Position(run) = 6 /\ Position(run') = 5
      BY <2>1, <3>1, Positions
    <3> QED
      BY <2>1, <2>3, <3>1, <3>2, Closer
  <2> QED
    BY <1>6, <2>2, <2>3 DEF TestPasses
<1>7. CASE ReviewerEdits
  <2>1. InStage /\ ctx' = ctx
    BY <1>7 DEF ReviewerEdits, InStage
  <2>2. /\ st' = [st EXCEPT !.audit = AfterDiff(st.audit, [patch |-> "stale"])]
        /\ StageFails("review_failed", "other", "none", "other", "FAIL", TRUE)
    BY <1>1, <1>7 DEF ReviewerEdits
  <2>3. Like(st')
    BY <1>1, <2>2
  <2> QED
    BY <1>2, <2>1, <2>2, <2>3, StageFailsDescends
<1> QED
  BY <1>3, <1>4, <1>5, <1>6, <1>7

LEMMA ReturnsDescends ==
  ASSUME JobInv, NEW edited \in BOOLEAN, ExecutorReturns(edited)
  PROVE  Descends
<1> DEFINE f == IF edited /\ files.patch = "fresh" THEN [files EXCEPT !.patch = "stale"] ELSE files
           a == AfterDiff(st.audit, f)
           s == [st EXCEPT !.audit = a]
<1>1. \/ FixOrFail(s, "needs_fix", "guard", "none", TRUE)
      \/ CanRetryExecution /\ RetriesExecution(s)
      \/ st' = s /\ StageFails("failed", "other", "none", "executor", "none", TRUE)
      \/ st' = s /\ run' = [run EXCEPT !.pc = "test"]
  BY DEF ExecutorReturns
<1>2. a \in Audit
  BY Typed, AfterDiffFacts DEF JobInv, StateType
<1> HIDE DEF f, a
<1>3. Like(s) /\ "none" \in Verdict
  BY <1>2, LikeAudit DEF JobInv, Verdict
<1> HIDE DEF s
<1>4. InStage /\ run.pc = "execute" /\ ctx' = ctx
  BY DEF ExecutorReturns, InStage
<1>5. CASE st' = s /\ run' = [run EXCEPT !.pc = "test"]
  <2>1. run'.pc = "test" /\ run'.stage = run.stage
    BY <1>5, Typed DEF JobInv, RunType
  <2>2. Position(run) = 7 /\ Position(run') = 6
    BY <1>4, <2>1, Positions
  <2>3. st'.round = st.round /\ st'.maxRounds = st.maxRounds
    BY <1>3, <1>5 DEF Like, Keeps
  <2> QED
    BY <1>4, <2>1, <2>2, <2>3, Closer
<1> QED
  BY <1>1, <1>3, <1>4, <1>5, FixOrFailDescends, RetriedDescends, StageFailsDescends

LEMMA ReviewsDescends ==
  ASSUME JobInv, NEW md \in Review, NEW json \in BOOLEAN, NEW audit \in Audit,
         Reviews(md, json, audit)
  PROVE  Descends
<1> DEFINE s == IF Structured THEN [st EXCEPT !.audit = audit] ELSE st
<1>1. \/ StagePasses(s, "PASS")
      \/ /\ st' = s
         /\ StageFails("needs_fix", "awaiting_clarification", "semantic_conflict", "other",
                       "FAIL", TRUE)
      \/ FixOrFail(s, "needs_fix", "review", "FAIL", TRUE)
  BY DEF Reviews
<1>2. Like(s) /\ {"PASS", "FAIL"} \subseteq Verdict
  BY LikeState, LikeAudit DEF JobInv, Verdict
<1> HIDE DEF s
<1>3. InStage /\ ctx' = ctx
  BY DEF Reviews, InStage
<1> QED
  BY <1>1, <1>2, <1>3, PassesDescends, StageFailsDescends, FixOrFailDescends

LEMMA WorkerDescends ==
  ASSUME JobInv, WorkerStep, run'.pc # "idle"
  PROVE  Descends
<1>1. CASE \E edited \in BOOLEAN : ExecutorReturns(edited)
  BY <1>1, ReturnsDescends
<1>2. CASE ReviewReturns
  BY <1>2, ReviewsDescends DEF ReviewReturns
<1>3. CASE Attempt
  BY <1>3, CancelledIsIdle, StageDescends
<1> QED
  BY <1>1, <1>2, <1>3, CancelledIsIdle, PreparesDescends, HandshakeDescends, RoundsDescend,
     StageDescends, FinishDescends
     DEF WorkerStep

\* What is left of the stages, rounds and budgets is never negative.
LEMMA Bounded ==
  ASSUME JobInv, JobInv', Grows, Ahead >= Ahead'
  PROVE  GivesNothingBack
<1>1. Ahead' >= 0
  <2>1. st' \in StateType /\ run' \in RunType
    BY DEF JobInv, TypeOK
  <2>2. st'.round \in Nat /\ st'.maxRounds \in Nat /\ run'.stage \in Int /\ Stages \in Int
    BY <2>1, RunAssumption DEF StateType, RunType, Index
  <2>3. st'.round <= st'.maxRounds /\ (~ctx'.adaptive => run'.stage <= Stages)
    BY DEF JobInv, Rounds, Kinds, Serial
  <2> QED
    BY <2>2, <2>3 DEF Ahead
<1>2. ASSUME NEW i \in Index
      PROVE  /\ st'.execution[i] \in st.execution[i] .. ExecutionRetries
             /\ st'.fix[i] \in st.fix[i] .. FixRetries
  <2>1. /\ st.execution \in [Index -> Nat] /\ st.fix \in [Index -> Nat]
        /\ st'.execution \in [Index -> Nat] /\ st'.fix \in [Index -> Nat]
    BY DEF JobInv, TypeOK, StateType
  <2>2. /\ st'.execution[i] \in Nat /\ st'.fix[i] \in Nat
        /\ st.execution[i] \in Nat /\ st.fix[i] \in Nat
    BY <2>1
  <2>3. st'.execution[i] <= ExecutionRetries /\ st'.fix[i] <= FixRetries
    BY DEF JobInv, Budgets
  <2>4. st'.execution[i] >= st.execution[i] /\ st'.fix[i] >= st.fix[i]
    BY DEF Grows
  <2> QED
    BY <2>2, <2>3, <2>4, RunAssumption
<1> QED
  BY <1>1, <1>2 DEF GivesNothingBack

\* A run comes to an end whatever agents, tests, reviewers and the manager answer:
\* every step of executeJob, runStage and the adaptive loop that does not end the
\* run uses up a retry, a stage or a round, or comes closer to the end of the
\* attempt, and none gives back what has been used up.
THEOREM RunsComeToAnEnd == Spec => RunsEnd
<1>1. ASSUME JobInv, JobInv', [Next]_vars
      PROVE  [run.pc # "idle" /\ run'.pc # "idle" /\ run' # run
                => GivesNothingBack /\ (UsesUp \/ Position(run') < Position(run))]_vars
  <2> SUFFICES ASSUME Next, run.pc # "idle", run'.pc # "idle", run' # run
               PROVE  GivesNothingBack /\ (UsesUp \/ Position(run') < Position(run))
    BY <1>1 DEF vars
  <2>1. WorkerStep
    <3>1. CASE Starts \/ Retry \/ ApproveRun \/ Blocked \/ CancelMarks \/ EditedByOthers
      BY <3>1 DEF Starts, Retry, ApproveRun, Blocked, CancelMarks, EditedByOthers
    <3>2. CASE \/ \E extra \in 0 .. 1, refresh \in BOOLEAN : Continue(extra, refresh)
               \/ \E committed \in BOOLEAN : ApproveCompletion(committed)
      BY <3>2 DEF Continue, ApproveCompletion
    <3>3. CASE CancelSettles \/ Crash
      BY <3>3 DEF CancelSettles, Crash, Ends, Idle
    <3> QED
      BY <3>1, <3>2, <3>3 DEF Next
  <2>2. Grows
    BY <1>1, <2>1, WorkerProceeds DEF Proceeds
  <2>3. Descends
    BY <1>1, <2>1, WorkerDescends
  <2> QED
    BY <1>1, <2>2, <2>3, Bounded DEF Descends
<1> QED
  BY <1>1, Invariant, PTL DEF Spec, RunsEnd

=============================================================================
