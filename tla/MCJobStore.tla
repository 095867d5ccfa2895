------------------------------- MODULE MCJobStore -------------------------------
(* An instance of JobStore for TLC.                                            *)
EXTENDS JobStore, TLC

Says(settings) == settings @@ [s \in Setting |-> None]

\* A workspace whose .cbx.json asks for a test command and configures no runner.
Configured == Says("test" :> "npm test")

Ask(entry, settings) ==
  [entry |-> entry, given |-> Says(settings), unsafe |-> FALSE, dependsOn |-> FALSE]

\* One that is accepted because autoCommit isolates it, and one that is refused.
Requests == {
  Ask("batch", "profile" :> "governed" @@ "isolated" :> FALSE @@ "autoCommit" :> TRUE),
  Ask("mcp", "profile" :> "governed" @@ "review" :> FALSE)}

================================================================================
