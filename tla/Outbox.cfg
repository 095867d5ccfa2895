SPECIFICATION Spec
CONSTANTS
  Event = {1, 2}
  Subscribed = {1, 2}
  Process = {s, c}
  Service = {s}
  MaxRetries = 1
  Limit = 3
  MaxFaults = 1
  None = None
  Gone = Gone
INVARIANTS OneSender GivenUpLast
PROPERTIES Implements Settles
CHECK_DEADLOCK FALSE
