---------------------------- MODULE MCExecutorCall ----------------------------
(***************************************************************************)
(* Two calls of one job; an agent prints a summary line and the beginning  *)
(* of another, or all of it without the end of the line.                   *)
(***************************************************************************)
EXTENDS ExecutorCall, FunctionChecks

Summaries == <<"u", "v", "nl", "u", "v">>

=============================================================================
