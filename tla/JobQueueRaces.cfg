SPECIFICATION Spec
CONSTANTS
  Job = {j1}
  Entry = {1, 2}
  Worker = {w1, w2}
  Dispatcher = {d1, d2}
  Client = {k1}
  Ops = {"start", "approve"}
  Faults = {"client", "dispatcher", "stillborn"}
  Outcomes = {"awaiting_approval"}
  ApproveFirst = {j1}
  Adaptive = {j1}
  Priority = {0}
  MaxConcurrent = 1
  MaxReclaims = 1
  KeepRows = 200
  None = None
SYMMETRY Processes
INVARIANTS PidIsOwnWorker OneEntryInProgress QueuedCanStart
PROPERTIES NoResurrection NoRunWhileAwaiting
