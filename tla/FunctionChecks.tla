------------------------------ MODULE FunctionChecks ------------------------------
(***************************************************************************)
(* What the pure functions of Intake, Routing, Batch, Verdicts and           *)
(* ContextBudget compute, compared with what they are for, over all small    *)
(* inputs.  MCExecutorCall extends this module, so that TLC evaluates it.    *)
(***************************************************************************)
EXTENDS Intake, Sequences, TLC

Agents == INSTANCE Routing

-----------------------------------------------------------------------------
Unset == [s \in Setting |-> None]
Says(settings) == settings @@ Unset

Values(s) ==
  CASE s = "profile"    -> Profile
    [] s = "test"       -> {"npm test"}
    [] s = "trust"      -> {"trusted", "untrusted"}
    [] s = "retries"    -> {0, 2}
    [] s = "permission" -> {"auto", "dontAsk"}
    [] OTHER            -> BOOLEAN

\* All that can be said with at most one setting, and with at most two.
One == {Unset} \cup UNION {{Says(s :> v) : v \in Values(s)} : s \in Setting}
Two == UNION {{[one EXCEPT ![s] = v] : v \in Values(s)} : one \in One, s \in Setting}

\* The configurations start from a test command: without one only "fast" is accepted.
Configs == {[one EXCEPT !["test"] = "npm test"] : one \in One}

Asks(entry) ==
  {[entry |-> entry, given |-> given, unsafe |-> FALSE, dependsOn |-> FALSE] :
     given \in {g \in Two : \A s \in Setting \ Entry[entry].accepts : g[s] = None}}

\* Whatever the entry point, the overrides and the configuration, a job that
\* createJob accepts has what its profile promises.
ASSUME \A entry \in EntryPoint, config \in Configs, runner \in BOOLEAN :
         \A request \in Asks(entry) :
           Accepted(request, config, runner) => Governed(Context(request, config))

\* Every profile can be had from the command line, a batch and the Web UI, but
\* the profile "untrusted" not through MCP, which drops the trust mode
\* (mcp-server.ts:296; README.md:328 offers it there).
ASSUME \A profile \in Profile, entry \in EntryPoint :
         (\E request \in Asks(entry), config \in Configs :
            /\ Accepted(request, config, TRUE)
            /\ Context(request, config).profile = profile)
         <=> ~(profile = "untrusted" /\ entry = "mcp")

-----------------------------------------------------------------------------
Number == {None, 1, 2}
Count == {c \in [runs: 1..2, done: 0..2] : c.done <= c.runs}

\* The record of an agent whose jobs are of the category "fix" or of no category.
Part(c, entry) == c.runs <= entry.runs /\ c.done <= entry.done /\ c.runs - c.done <= entry.runs - entry.done
Entries ==
  {e \in [runs: 1..2, done: 0..2, avgTokens: Number, avgDuration: {None, 1},
          categories: {<<>>} \cup {"fix" :> c : c \in Count}] :
     e.done <= e.runs /\ \A c \in DOMAIN e.categories : Part(e.categories[c], e)}
StatsOf(names) == UNION {[known -> Entries] : known \in SUBSET names}

Probe(name, available, score) == [name |-> name, available |-> available, score |-> score]
Probes == {<<Probe("a", TRUE, s), Probe("b", v, t)>> : s, t \in 0..1, v \in BOOLEAN}

\* The choice is never beaten by another candidate, under every strategy.
ASSUME \A agents \in Probes, stats \in StatsOf({"a", "b"}), strategy \in Agents!Strategy,
          exclude \in {{}, {"a"}} :
         Agents!IsBestChoice(Agents!Decide(agents, exclude, stats, strategy, "fix"),
                             agents, exclude, stats, strategy, "fix")

\* An independent review is never the primary's own: it is another agent or none.
ASSUME \A agents \in Probes, stats \in StatsOf({"a", "b"}) :
         "a" # Agents!ReviewExecutorFor("a", agents, stats, "fix")

Results == [status: {"done", "failed", "cancelled"}, executor: {"a", "auto"},
            category: {None, "fix"}, tokens: {None, 2}, duration: {None}]

\* The record counts every job that has ended and whose agent is known, once:
\* overall and in its category.
ASSUME \A jobs \in [{"j1", "j2"} -> Results] :
         LET stats == Agents!CollectExecutorStats(jobs)
             counted == {j \in DOMAIN jobs : Agents!Counted(jobs[j])}
         IN counted # {} =>
              /\ DOMAIN stats = {"a"} /\ stats["a"].runs = Agents!Cardinality(counted)
              /\ \A c \in DOMAIN stats["a"].categories :
                   Part(stats["a"].categories[c], stats["a"])

Record(done, tokens, categories) ==
  [runs |-> done, done |-> done, avgTokens |-> tokens, avgDuration |-> None,
   categories |-> categories]

\* One more success can cost an agent the choice: its first job of a category
\* replaces the rate of all its jobs by the rate of that one.
ASSUME LET other == Record(2, 2, <<>>)
           Wins(record) == Agents!Precedes(("a" :> record) @@ ("b" :> other), "fix", "a", "b")
       IN /\ Wins(Record(2, 1, <<>>))
          /\ ~Wins(Record(3, 1, "fix" :> [runs |-> 1, done |-> 1]))

-----------------------------------------------------------------------------
Batches == INSTANCE Batch

\* Jobs of a batch: done or failed after 1 or 2, or never in the time looked at.
Tasks == [takes : {1, 2, 50}, status : {"done", "needs_fix"}]
SomeBatches == [tasks : UNION {[1..n -> Tasks] : n \in 1..4}, maxBatch : 0..3,
                wait : BOOLEAN, timeout : {2}]

\* Every task is in one wave, in the order they were given.
ASSUME \A n \in 0..7, m \in -1..8 :
         LET tasks == [i \in 1..n |-> i]
             waves == Batches!ChunkBatch(tasks, m)
         IN /\ Batches!FlattenSeq(waves) = tasks
            /\ m > 0 => \A w \in DOMAIN waves : Len(waves[w]) \in 1..m

\* With waves of at most maxBatch, as many jobs of the batch are under way at
\* once, as long as none takes longer than the wait for a wave.
ASSUME \A batch \in SomeBatches :
         (batch.maxBatch > 0 /\ \A i \in DOMAIN batch.tasks : batch.tasks[i].takes <= batch.timeout)
           => Batches!AtMost(batch, batch.maxBatch)

\* One job that takes longer lets the next wave start beside it (batch.ts:126
\* and README.md:379 say that a wave waits for the last to end).
ASSUME \E batch \in SomeBatches : batch.maxBatch > 0 /\ ~Batches!AtMost(batch, batch.maxBatch)

\* A batch that waited exits with 0 only if every task is done, and every job is
\* reported once: ended well, ended badly, or not ended.
ASSUME \A batch \in SomeBatches :
         LET sum == Batches!RunBatch(batch)
         IN /\ sum.total = Len(batch.tasks)
            /\ sum.succeeded + sum.failed = sum.finished
            /\ sum.finished + Batches!Cardinality(sum.unfinished) = sum.total
            /\ batch.wait => ((Batches!ExitCode(batch) = 0) <=> sum.succeeded = sum.total)
            /\ \A i \in DOMAIN batch.tasks : batch.tasks[i].takes <= batch.timeout => i \notin sum.unfinished

-----------------------------------------------------------------------------
Reads == INSTANCE Verdicts

\* What passes a stage is not blocked by the gate, and the gate blocks nothing but
\* an explicit FAIL.
ASSUME \A gate \in Reads!Gate :
         Reads!StopGateBlocks(gate) =>
           /\ gate.config = "on" /\ gate.changes /\ ~Reads!StagePasses(gate.turn)
           /\ "FAIL" \in {gate.turn.json, gate.turn.md, gate.turn.output}

\* A review that says nothing that can be read stops a stage and passes the gate.
ASSUME \A turn \in Reads!Turn :
         (turn.json \notin {"PASS", "FAIL"} /\ turn.md = "other") =>
           /\ ~Reads!StagePasses(turn)
           /\ ~Reads!StopGateBlocks([config |-> "on", changes |-> TRUE, turn |-> turn])

\* The two read one missing review.md differently: the gate takes the output for it.
ASSUME \E turn \in Reads!Turn :
         /\ turn.ended = "ok" /\ ~Reads!StagePasses(turn)
         /\ Reads!RunReviewGate([config |-> "on", changes |-> TRUE, turn |-> turn]) = "PASS"

\* The manager's decision is one it wrote in this turn, in a call that went well
\* and left the worktree alone: what an earlier turn left is never taken for it.
ASSUME \A turn \in Reads!ManagerTurn :
         Reads!RequestAdaptiveAction(turn) \in Reads!Action =>
           /\ Reads!RequestAdaptiveAction(turn) = turn.wrote
           /\ ~turn.edits /\ turn.ended = "ok"
           /\ Reads!CandidateLeft(turn) = "none"

-----------------------------------------------------------------------------
\* The default budget of an executor, 8 000 tokens, allows more ASCII characters
\* than a pack may have (24 000).
Packs == INSTANCE ContextBudget WITH Short <- 1, Limit <- 6
Budget == 8

Contracts == {[f \in Packs!Fields |-> IF f = "core" THEN core ELSE IF f \in has THEN 1 ELSE 0] :
                core \in {1, 3, 9}, has \in SUBSET (Packs!Fields \ {"core"})}
SomePacks == [contract : Contracts, reason : 0..2, instructions : 0..2, rest : 0..3]

\* A pack that fits is left alone, one that does not is marked; what is cut, is cut
\* in the order of DropOrder, and never the core.
ASSUME \A pack \in SomePacks, budget \in {4, Budget} :
         LET cut == Packs!ApplyBudget(pack, budget)
             Dropped(k) == pack.contract[Packs!DropOrder[k]] > cut.pack.contract[Packs!DropOrder[k]]
             Kept(k) == cut.pack.contract[Packs!DropOrder[k]] > 0
         IN /\ cut.truncated <=> Packs!PackSize(pack) > budget
            /\ ~cut.truncated => cut.pack = pack
            /\ cut.pack.contract["core"] = pack.contract["core"] /\ cut.pack.rest = pack.rest
            /\ \A i, j \in DOMAIN Packs!DropOrder : i < j /\ Dropped(j) => ~Kept(i)

\* A pack can stay above its budget with fields that could be dropped: the contract
\* is measured alone (README.md:460 says the pack is cut when it is above).
ASSUME \E pack \in SomePacks :
         LET cut == Packs!ApplyBudget(pack, Budget).pack
         IN /\ Packs!PackSize(cut) > Budget
            /\ Packs!ContractSize(cut.contract) > cut.contract["core"]

\* A pack within its budget can be refused for its characters, and one that cutting
\* would have saved.
ASSUME \E pack \in SomePacks :
         /\ Packs!PackSize(pack) <= Budget /\ ~Packs!CreatesContextPack(pack, Budget)
         /\ Packs!CreatesContextPack(pack, 4)
================================================================================
