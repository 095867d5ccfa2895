SPECIFICATION Spec
CONSTANTS
  Job = {j1, j2}
  Entry = {1, 2}
  Worker = {w1, w2, w3}
  Dispatcher = {d1, d2}
  Client = {k1}
  Ops = {"start"}
  Faults = {}
  Outcomes = {}
  ApproveFirst = {}
  Adaptive = {}
  Priority = {0, 1}
  MaxConcurrent = 1
  MaxReclaims = 1
  KeepRows = 200
  None = None
SYMMETRY ProcessesAndJobs
PROPERTIES OvershootIsBounded
