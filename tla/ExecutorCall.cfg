SPECIFICATION Spec
CONSTANTS
  Call = {c1, c2}
  Serial = TRUE
  NoCall = NoCall
  None = None
CONSTANT Script <- Summaries
INVARIANTS RunningChildIsRecorded TimeoutStopsGroup UsageIsHonest
PROPERTIES CallsSettle
CHECK_DEADLOCK FALSE
