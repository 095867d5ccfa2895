--------------------------------- MODULE Batch ---------------------------------
(***************************************************************************)
(* A batch of tasks (batch.ts): the tasks are split into waves of at most    *)
(* maxBatch, each wave is created and enqueued, and the next one follows     *)
(* when every job of the last has ended or waitTimeout has passed for it.    *)
(*                                                                          *)
(* A batch is [tasks, maxBatch, wait, timeout]; a task is [takes, status]:   *)
(* how long its job is under way once it is enqueued, and the terminal       *)
(* status it then has.  The time the creation of a job takes and the polling *)
(* interval of 500 ms are left out: a wait ends as soon as it can.           *)
(***************************************************************************)
EXTENDS Integers, FiniteSetsExt, SequencesExt

TerminalStatus == {"done", "failed", "review_failed", "cancelled", "needs_fix"}

-----------------------------------------------------------------------------
ChunkBatch(tasks, maxBatch) ==
  IF tasks = <<>> THEN <<>>
  ELSE IF maxBatch <= 0 \/ maxBatch >= Len(tasks) THEN <<tasks>>
  ELSE [w \in 1..((Len(tasks) + maxBatch - 1) \div maxBatch) |->
          SubSeq(tasks, (w - 1) * maxBatch + 1,
                 IF w * maxBatch < Len(tasks) THEN w * maxBatch ELSE Len(tasks))]

\* The waves of a batch, as sequences of the numbers of its tasks.
Waves(batch) == ChunkBatch([i \in 1..Len(batch.tasks) |-> i], batch.maxBatch)

\* The time a wait for some jobs takes: each until it has ended, or the timeout.
\* What is left of each job's time is given, and may be negative.
WaitForTerminal(left, timeout) ==
  Max({0} \cup {IF t < timeout THEN t ELSE timeout : t \in left})

\* When each wave begins; after the last one, when the waves are over.
Begins(batch) ==
  LET waves == Waves(batch)
      begin[w \in 1..Len(waves) + 1] ==
        IF w = 1 THEN 0
        ELSE begin[w - 1] +
               (IF Len(waves) > 1
                THEN WaitForTerminal({batch.tasks[i].takes : i \in Range(waves[w - 1])},
                                     batch.timeout)
                ELSE 0)
  IN begin

BeginOf(batch, i) ==
  Begins(batch)[CHOOSE w \in DOMAIN Waves(batch) : i \in Range(Waves(batch)[w])]

EndOf(batch, i) == BeginOf(batch, i) + batch.tasks[i].takes

\* The last look at job i, with --wait: at its end, or when the timeout is over.
SeenAt(batch, i) ==
  LET over == Begins(batch)[Len(Waves(batch)) + 1]
  IN over + WaitForTerminal({EndOf(batch, i) - over}, batch.timeout)

StatusSeen(batch, i) ==
  IF EndOf(batch, i) <= SeenAt(batch, i) THEN batch.tasks[i].status ELSE "running"

-----------------------------------------------------------------------------
SummarizeBatch(status) ==
  LET Those(P(_)) == {i \in DOMAIN status : P(status[i])}
  IN [total      |-> Cardinality(DOMAIN status),
      finished   |-> Cardinality(Those(LAMBDA s : s \in TerminalStatus)),
      succeeded  |-> Cardinality(Those(LAMBDA s : s = "done")),
      failed     |-> Cardinality(Those(LAMBDA s : s \in TerminalStatus \ {"done"})),
      unfinished |-> Those(LAMBDA s : s \notin TerminalStatus)]

RunBatch(batch) == SummarizeBatch([i \in DOMAIN batch.tasks |-> StatusSeen(batch, i)])

\* cbx batch: the exit code is 2 when it waited and something is missing.
ExitCode(batch) ==
  IF batch.wait /\ (RunBatch(batch).unfinished # {} \/ RunBatch(batch).failed > 0)
  THEN 2 ELSE 0

-----------------------------------------------------------------------------
\* What the waves are for: how many jobs of the batch are under way at once.
UnderWay(batch, time) ==
  {i \in DOMAIN batch.tasks : BeginOf(batch, i) <= time /\ time < EndOf(batch, i)}

AtMost(batch, n) ==
  \A w \in DOMAIN Waves(batch) : Cardinality(UnderWay(batch, Begins(batch)[w])) <= n
================================================================================
