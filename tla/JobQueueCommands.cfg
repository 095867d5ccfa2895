SPECIFICATION Spec
CONSTANTS
  Job = {j1}
  Entry = {1, 2}
  Worker = {w1, w2}
  Dispatcher = {d1}
  Client = {k1}
  Ops = {"start", "cancel", "retry"}
  Faults = {"crash", "slow", "load", "spawn", "busy", "kill", "client"}
  Outcomes = {"done"}
  ApproveFirst = {}
  Adaptive = {j1}
  Priority = {0}
  MaxConcurrent = 1
  MaxReclaims = 0
  KeepRows = 1
  None = None
SYMMETRY Processes
INVARIANTS QueueInv OneEntryInProgress
PROPERTIES NoActiveRowLost
