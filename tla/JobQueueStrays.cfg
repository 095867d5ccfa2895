SPECIFICATION Spec
CONSTANTS
  Job = {j1}
  Entry = {1, 2}
  Worker = {w1, w2}
  Dispatcher = {d1}
  Client = {k1}
  Ops = {"start"}
  Faults = {"crash"}
  Outcomes = {"needs_fix"}
  ApproveFirst = {}
  Adaptive = {j1}
  Priority = {0}
  MaxConcurrent = 1
  MaxReclaims = 1
  KeepRows = 200
  None = None
SYMMETRY Processes
INVARIANTS NoStrayBesideWorker
