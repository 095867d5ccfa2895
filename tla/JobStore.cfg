SPECIFICATION FairSpec
CONSTANTS
  Job = {j1}
  User = {u1, u2}
  Config <- Configured
  Runner = FALSE
  Request <- Requests
  Legacy = {j1}
  MaxCreates = 2
  MaxRestarts = 1
  MaxFaults = 1
  None = None
INVARIANTS ProfileKept
PROPERTIES SweepSparesJobs ForgottenStays Forgotten
CHECK_DEADLOCK FALSE
