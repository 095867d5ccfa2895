SPECIFICATION SessionSpec
CONSTANTS
  Workspaces = 2
  Publisher = {p1, p2}
  Client = {c1}
  Polls <- MCPolls
  MaxReplay = 1
  MaxEvents = 4
  MaxFaults = 1
INVARIANTS
  CursorHasSeenAll
PROPERTY
  Delivered
\* Publishing may end.
CHECK_DEADLOCK FALSE
