SPECIFICATION Spec
CONSTANTS
  Retries = 1
  MaxCommands = 1
  MaxFaults = 1
CONSTANT Stage <- ThreeStages
CONSTANT Deps <- OneThenThree
INVARIANTS SeesItsDependencies QuietWhenEnded DoneLeavesNoWorktree
PROPERTIES DoneHasAllWork
CHECK_DEADLOCK FALSE
