SPECIFICATION Spec
CONSTANTS
  Stages = 2
  ExecutionRetries = 1
  FixRetries = 1
  MaxRounds = 2
  RoundLimit = 3
  MaxCommands = 1
  MaxFaults = 1
CONSTANT Context <- Contexts
INVARIANTS NoWorkBehindAGate CancelStopsWork WithinLimits WorkHasAnEntry ResultAgrees
PROPERTIES DeliversWhatWasVerified BudgetsSurvive RunsEnd
CHECK_DEADLOCK FALSE
