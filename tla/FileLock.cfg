SPECIFICATION FairSpec
CONSTANTS
  Proc = {p1, p2, p3}
  Inode = {1, 2, 3, 4}
  Retries = 1
  None = None
INVARIANTS ExclusiveUnlessRobbed
PROPERTIES CallsEnd
CHECK_DEADLOCK FALSE
