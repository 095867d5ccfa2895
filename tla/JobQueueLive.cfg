SPECIFICATION FairSpec
CONSTANTS
  Job = {j1}
  Entry = {1, 2}
  Worker = {w1, w2, w3}
  Dispatcher = {d1}
  Client = {k1}
  Ops = {"start", "pause", "resume"}
  Faults = {"throw", "stillborn"}
  Outcomes = {"done", "needs_fix"}
  ApproveFirst = {}
  Adaptive = {j1}
  Priority = {0}
  MaxConcurrent = 1
  MaxReclaims = 1
  KeepRows = 2
  None = None
PROPERTIES EveryEntrySettles
