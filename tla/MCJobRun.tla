-------------------------------- MODULE MCJobRun --------------------------------
(***************************************************************************)
(* The job contexts TLC checks: every switch is on in some of them.        *)
(***************************************************************************)
EXTENDS JobRun

Plain == [adaptive |-> FALSE, contract |-> FALSE, review |-> TRUE, skip |-> {},
          beforeRun |-> FALSE, beforeComplete |-> FALSE, isolated |-> TRUE,
          keep |-> FALSE, commit |-> FALSE, guard |-> FALSE]

Contexts ==
  { [Plain EXCEPT !.beforeRun = TRUE, !.isolated = FALSE, !.commit = TRUE, !.skip = {2}],
    [Plain EXCEPT !.contract = TRUE, !.beforeComplete = TRUE, !.keep = TRUE],
    [Plain EXCEPT !.guard = TRUE],
    [Plain EXCEPT !.adaptive = TRUE, !.contract = TRUE] }

=============================================================================
