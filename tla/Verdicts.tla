-------------------------------- MODULE Verdicts --------------------------------
(***************************************************************************)
(* What the orchestrator reads from the files an agent leaves: the verdict   *)
(* of a review, used by a stage of a job and by the stop gate of the main    *)
(* session (verdict.ts, review-gate.ts, stage-runner.ts), and the decision   *)
(* of the adaptive manager (adaptive-action.ts, adaptive-manager.ts).        *)
(***************************************************************************)
EXTENDS Naturals

-----------------------------------------------------------------------------
(* A review leaves review.json, of the right form with a verdict or not      *)
(* ("bad"), or leaves none; the first line of its text is a verdict or       *)
(* something else.                                                          *)

Json == {"none", "bad", "PASS", "FAIL"}
Line == {"PASS", "FAIL", "other"}

ParseReviewJson(json) == IF json \in {"PASS", "FAIL"} THEN json ELSE "undefined"

ParseReviewVerdict(line, json) ==
  IF ParseReviewJson(json) # "undefined" THEN json
  ELSE IF line = "other" THEN "UNKNOWN"
  ELSE line

\* One turn of a reviewer: how the call ended, what its output and the files say.
\* review.md may be missing; the gate then reads the output.
Turn == [ended: {"throws", "timeout", "exit", "ok"}, md: Line \cup {"none"}, output: Line, json: Json]

\* A stage lets only a PASS through, and reads the files alone.
StagePasses(turn) ==
  /\ turn.ended = "ok"
  /\ ParseReviewVerdict(IF turn.md = "none" THEN "other" ELSE turn.md, turn.json) = "PASS"

\* The gate of the main session, which lets everything through but a FAIL.
Gate == [config: {"on", "off", "invalid"}, changes: BOOLEAN, turn: Turn]

RunReviewGate(gate) ==
  IF ~gate.changes THEN "SKIP"
  ELSE IF gate.turn.ended = "timeout" THEN "TIMEOUT"
  ELSE IF gate.turn.ended # "ok" THEN "ERROR"
  ELSE ParseReviewVerdict(IF gate.turn.md = "none" THEN gate.turn.output ELSE gate.turn.md,
                          gate.turn.json)

StopGateBlocks(gate) == gate.config = "on" /\ RunReviewGate(gate) = "FAIL"

-----------------------------------------------------------------------------
(* A turn of the manager: the candidate file that was there before it, what  *)
(* it wrote, whether it changed the worktree and how its call ended.  A      *)
(* candidate is unreadable, not one of the actions, or an action.            *)

Action == {"execute", "ask", "blocked", "done"}
Candidate == Action \cup {"none", "unreadable", "malformed"}

ManagerTurn == [before: Candidate, wrote: Candidate, edits: BOOLEAN,
                ended: {"throws", "timeout", "exit", "ok"}]

ParseNextAction(candidate) == IF candidate \in Action THEN candidate ELSE "decisionError"

RequestAdaptiveAction(turn) ==
  LET candidate == turn.wrote   \* the old file is removed before the call
  IN IF turn.edits THEN "worktreeMutation"
     ELSE IF turn.ended # "ok" THEN "invocationError"
     ELSE ParseNextAction(candidate)

\* The candidate that is left for the next reader: one that was read is removed.
CandidateLeft(turn) ==
  IF turn.edits \/ turn.ended # "ok" THEN turn.wrote ELSE "none"

-----------------------------------------------------------------------------
\* adaptive.maxRounds: what is given, else the fallback; from 1 to 100.
NormalizeRounds(given, fallback) ==
  LET rounds == IF given = "undefined" THEN fallback ELSE given
  IN IF rounds \in 1..100 THEN rounds ELSE "error"
================================================================================
