----------------------------- MODULE ExecutorCall -----------------------------
(***************************************************************************)
(* How a worker runs a command (process-runner.ts, runner.ts): the process *)
(* group it spawns, the timeout that kills the group, the grace time after *)
(* which it no longer waits for the streams to close, active.pid, and the  *)
(* token usage it reads from the output line by line (log-filter.ts).      *)
(*                                                                         *)
(* The output of an agent is a sequence of characters; the line "u", "v"   *)
(* is a summary with a usage of one token, any other line has none.  What  *)
(* a chunk holds is up to the pipe.                                        *)
(***************************************************************************)
EXTENDS Integers, Sequences, FiniteSets

CONSTANTS
  Call,      \* the calls of one job: agents, plugins, tests
  Script,    \* what an agent prints, with "nl" for the end of a line
  Serial,    \* whether a call starts only when the one before has settled
  NoCall

ASSUME CallAssumption ==
  /\ NoCall \notin Call
  /\ Script \in Seq({"u", "v", "nl"})
  /\ Serial \in BOOLEAN

\* An agent prints a summary as a line of its own.
ASSUME ScriptAssumption ==
  \A i \in 1 .. Len(Script) - 1 : Script[i] = "u" /\ Script[i + 1] = "v" =>
    /\ i = 1 \/ Script[i - 1] = "nl"
    /\ i + 1 = Len(Script) \/ Script[i + 2] = "nl"

VARIABLES
  call,       \* the promise of each call
  child,      \* the process spawned for it
  helper,     \* another process, started by the child
  pipe,       \* how much of the script has come, and whether a line came on stderr
  acc,        \* the LineStreamAccumulator and the filter of the call
  billed,     \* the usage a call has added to the tokenUsage of the job
  pidFile,    \* the process active.pid names
  resultFile  \* the call whose plugin wrote plugin-result.json

vars == <<call, child, helper, pipe, acc, billed, pidFile, resultFile>>

\* A runner plugin runs the command itself, in a container: kind "runner" has
\* no process of ours.
CallType == [kind : {"none", "agent", "plugin", "runner"},
             phase : {"idle", "running", "settled", "rejected"},
             timer : {"off", "armed", "grace"}, timedOut : BOOLEAN, from : Call \cup {NoCall}]
PipeType == [out : 0 .. Len(Script), err : BOOLEAN]
AccType  == [line : Seq({"u", "v", "e"}), usage : Nat]

TypeOK ==
  /\ call \in [Call -> CallType]
  /\ child \in [Call -> {"none", "up", "gone"}]
  /\ helper \in [Call -> {"none", "member", "quiet", "escaped", "gone"}]
  /\ pipe \in [Call -> PipeType]
  /\ acc \in [Call -> AccType]
  /\ billed \in [Call -> Nat]
  /\ {pidFile, resultFile} \subseteq Call \cup {NoCall}

Init ==
  /\ call = [c \in Call |-> [kind |-> "none", phase |-> "idle", timer |-> "off",
                             timedOut |-> FALSE, from |-> NoCall]]
  /\ child = [c \in Call |-> "none"]
  /\ helper = [c \in Call |-> "none"]
  /\ pipe = [c \in Call |-> [out |-> 0, err |-> FALSE]]
  /\ acc = [c \in Call |-> [line |-> <<>>, usage |-> 0]]
  /\ billed = [c \in Call |-> 0]
  /\ pidFile = NoCall
  /\ resultFile = NoCall

Running(c) == call[c].phase = "running"

\* A helper in the group of the child dies with it; "quiet" ones have closed
\* the streams, "escaped" ones have left the group and hold them.
InGroup(c)   == helper[c] \in {"member", "quiet"}
HoldsPipe(c) == child[c] = "up" \/ helper[c] \in {"member", "escaped"}

-----------------------------------------------------------------------------
(* The stream of lines. *)

\* The positions in text where a line ends, and the line that ends there.
Ends(text)    == {i \in 1 .. Len(text) : text[i] = "nl"}
LineAt(text, i) ==
  LET before == {j \in Ends(text) : j < i}
      first  == IF before = {} THEN 1 ELSE 1 + CHOOSE j \in before : \A k \in before : k <= j
  IN  SubSeq(text, first, i - 1)

UsageOf(line)  == IF line = <<"u", "v">> THEN 1 ELSE 0
UsagesIn(text) == Cardinality({i \in Ends(text) : UsageOf(LineAt(text, i)) = 1})

FeedTail(a, chunk) ==
  LET text == a.line \o chunk
      line == LineAt(Append(text, "nl"), Len(text) + 1)
  IN  [line |-> line, usage |-> a.usage + UsagesIn(text) + UsageOf(line)]

\* The chunk completes lines, and what is left of it waits for the next one.
Feed(a, chunk) ==
  LET text == a.line \o chunk
  IN  [line |-> LineAt(Append(text, "nl"), Len(text) + 1), usage |-> a.usage + UsagesIn(text)]

\* The last line may have no end; then the filter tells its sum, once.
Flush(a) == [told |-> a.usage + UsageOf(a.line), acc |-> [line |-> <<>>, usage |-> 0]]

-----------------------------------------------------------------------------
(* The end of a call. *)

\* A plugin host that did not time out is answered for by its result file,
\* whoever wrote it.
Answer(c) ==
  IF call[c].kind = "plugin" /\ ~call[c].timedOut /\ resultFile # NoCall
    THEN resultFile ELSE c

\* bumpTokenUsage, when the process has ended.
Bill(c, tokens) == [billed EXCEPT ![c] = @ + tokens]

Settled(c) ==
  LET flush == Flush(acc[c])
  IN  /\ call' = [call EXCEPT ![c].phase = "settled", ![c].timer = "off", ![c].from = Answer(c)]
      /\ acc' = [acc EXCEPT ![c] = flush.acc]
      /\ billed' = Bill(c, flush.told)
      /\ pidFile' = NoCall
      /\ resultFile' = IF call[c].kind = "plugin" /\ ~call[c].timedOut THEN NoCall ELSE resultFile

SettleAgain(c) == Settled(c)

\* The second of two ends finds the call settled.
Settle(c) ==
  IF Running(c) THEN Settled(c) ELSE UNCHANGED <<call, acc, billed, pidFile, resultFile>>

-----------------------------------------------------------------------------
(* The worker. *)

MayStart(c) == call[c].phase = "idle" /\ (Serial => \A d \in Call : ~Running(d))

Started(c, kind) ==
  call' = [call EXCEPT ![c].kind = kind, ![c].phase = "running", ![c].timer = "armed"]

\* The worker writes active.pid in the turn of its loop that spawned the child.
Spawn(c) ==
  /\ MayStart(c)
  /\ \E kind \in {"agent", "plugin"} : Started(c, kind)
  /\ child' = [child EXCEPT ![c] = "up"]
  /\ pidFile' = c
  /\ UNCHANGED <<helper, pipe, acc, billed, resultFile>>

\* spawn emits "error", the promise is rejected, and the file is removed.
SpawnFails(c) ==
  /\ MayStart(c)
  /\ call' = [call EXCEPT ![c].kind = "agent", ![c].phase = "rejected"]
  /\ pidFile' = NoCall
  /\ UNCHANGED <<child, helper, pipe, acc, billed, resultFile>>

StartRunner(c) ==
  /\ MayStart(c)
  /\ Started(c, "runner")
  /\ UNCHANGED <<child, helper, pipe, acc, billed, pidFile, resultFile>>

\* runViaRunner races the answer of the plugin with the clock.
RunnerAnswers(c) ==
  /\ Running(c) /\ call[c].kind = "runner"
  /\ \E late \in BOOLEAN :
       call' = [call EXCEPT ![c].phase = "settled", ![c].timer = "off", ![c].timedOut = late,
                            ![c].from = c]
  /\ UNCHANGED <<child, helper, pipe, acc, billed, pidFile, resultFile>>

RunnerFails(c) ==
  /\ Running(c) /\ call[c].kind = "runner"
  /\ call' = [call EXCEPT ![c].phase = "rejected", ![c].timer = "off"]
  /\ UNCHANGED <<child, helper, pipe, acc, billed, pidFile, resultFile>>

\* The output is read as it comes, before the call has settled and after.
Read(c) ==
  /\ HoldsPipe(c) /\ call[c].kind = "agent"
  /\ \E n \in 1 .. Len(Script) - pipe[c].out :
       LET chunk == SubSeq(Script, pipe[c].out + 1, pipe[c].out + n)
       IN  /\ acc' = [acc EXCEPT ![c] = Feed(@, chunk)]
           /\ pipe' = [pipe EXCEPT ![c].out = @ + n]
  /\ UNCHANGED <<call, child, helper, billed, pidFile, resultFile>>

\* stderr has the same accumulator as stdout.
ReadError(c) ==
  /\ HoldsPipe(c) /\ call[c].kind = "agent" /\ ~pipe[c].err
  /\ acc' = [acc EXCEPT ![c] = Feed(@, <<"e", "nl">>)]
  /\ pipe' = [pipe EXCEPT ![c].err = TRUE]
  /\ UNCHANGED <<call, child, helper, billed, pidFile, resultFile>>

\* "close" comes when the child has exited and both streams have ended.
Close(c) ==
  /\ child[c] = "gone" /\ ~HoldsPipe(c)
  /\ Settle(c)
  /\ UNCHANGED <<child, helper, pipe>>

KillChild(c) ==
  /\ child' = [child EXCEPT ![c] = IF @ = "up" THEN "gone" ELSE @]
  /\ UNCHANGED helper

\* killTree signals the group of the child.
KillTree(c) ==
  /\ child' = [child EXCEPT ![c] = IF @ = "up" THEN "gone" ELSE @]
  /\ helper' = [helper EXCEPT ![c] = IF InGroup(c) THEN "gone" ELSE @]

TimeOutWithoutGrace(c) ==
  /\ call[c].timer = "armed" /\ call[c].kind # "runner"
  /\ call' = [call EXCEPT ![c].timedOut = TRUE, ![c].timer = "off"]
  /\ KillTree(c)
  /\ UNCHANGED <<pipe, acc, billed, pidFile, resultFile>>

TimeOut(c) ==
  /\ call[c].timer = "armed" /\ call[c].kind # "runner"
  /\ call' = [call EXCEPT ![c].timedOut = TRUE, ![c].timer = "grace"]
  /\ KillTree(c)
  /\ UNCHANGED <<pipe, acc, billed, pidFile, resultFile>>

\* The streams have not closed in FORCE_SETTLE_MS: settle all the same.
ForceSettle(c) ==
  /\ call[c].timer = "grace"
  /\ KillTree(c)
  /\ Settle(c)
  /\ UNCHANGED pipe

-----------------------------------------------------------------------------
(* The processes. *)

\* plugin-host.ts writes the result of the plugin, and ends when the plugin
\* has left nothing open.
WriteResult(c) ==
  /\ child[c] = "up" /\ call[c].kind = "plugin"
  /\ resultFile' = c
  /\ UNCHANGED <<call, child, helper, pipe, acc, billed, pidFile>>

StartHelper(c) ==
  /\ child[c] = "up" /\ helper[c] = "none"
  /\ \E kind \in {"member", "quiet", "escaped"} : helper' = [helper EXCEPT ![c] = kind]
  /\ UNCHANGED <<call, child, pipe, acc, billed, pidFile, resultFile>>

Exit(c) ==
  /\ child[c] = "up"
  /\ child' = [child EXCEPT ![c] = "gone"]
  /\ UNCHANGED <<call, helper, pipe, acc, billed, pidFile, resultFile>>

HelperEnds(c) ==
  /\ InGroup(c) \/ helper[c] = "escaped"
  /\ helper' = [helper EXCEPT ![c] = "gone"]
  /\ UNCHANGED <<call, child, pipe, acc, billed, pidFile, resultFile>>

Worker(c) ==
  \/ Read(c) \/ ReadError(c) \/ Close(c) \/ TimeOut(c) \/ ForceSettle(c)
  \/ RunnerAnswers(c) \/ RunnerFails(c)
Start(c)     == Spawn(c) \/ SpawnFails(c) \/ StartRunner(c)
Processes(c) == WriteResult(c) \/ StartHelper(c) \/ Exit(c) \/ HelperEnds(c)

Next == \E c \in Call : Start(c) \/ Worker(c) \/ Processes(c)

\* Timers fire and the runner's clock is one of them; the processes may do
\* nothing for ever.
Fairness == \A c \in Call : WF_vars(TimeOut(c)) /\ WF_vars(ForceSettle(c)) /\ WF_vars(RunnerFails(c))

Spec == Init /\ [][Next]_vars /\ Fairness

-----------------------------------------------------------------------------
(* What the calls promise. *)

\* While a call runs, active.pid names its process group, and when none runs
\* there is no such file: what a cancel, a reclaim or a retry finds there is
\* the process it has to kill (lifecycle.ts:46, queue.ts:118, queue.ts:374).
RunningChildIsRecorded ==
  \A c \in Call : pidFile = c <=> (Running(c) /\ call[c].kind # "runner")

\* When the worker gives up a call that has timed out, no process of its
\* group is left to write in the worktree (process-runner.ts:114-116).
TimeoutStopsGroup ==
  \A c \in Call : call[c].phase = "settled" /\ call[c].timedOut => child[c] # "up" /\ ~InGroup(c)

\* What is billed was printed: however the output was cut into chunks and
\* whatever came late or on stderr, no usage counts twice; and when the
\* streams have closed without a word on stderr, none is missing.
UsageIsHonest ==
  \A c \in Call :
    LET printed == UsagesIn(Append(SubSeq(Script, 1, pipe[c].out), "nl"))
    IN  /\ billed[c] <= printed
        /\ call[c].phase = "settled" /\ call[c].kind = "agent"
           /\ ~call[c].timedOut /\ ~pipe[c].err => billed[c] = printed

\* A call that runs ends, though its process hangs or has left processes
\* that hold its streams for ever (process-runner.ts:6-7).
CallsSettle == \A c \in Call : Running(c) ~> ~Running(c)

(* Properties that the code does not have. *)

\* The answer of a call is its own: does not hold, since a plugin that times
\* out after it has written its result leaves the file to the next call.
AnswerIsOwn == \A c \in Call : call[c].phase = "settled" => call[c].from = c

\* A runner that takes too long is a timeout (runner-plugin.ts:102-103): does
\* not hold, since runViaRunner rejects.
RunnerTimesOut == \A c \in Call : call[c].kind = "runner" => call[c].phase # "rejected"

=============================================================================
