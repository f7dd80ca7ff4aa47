\* A response that arrives during a drain longer than its timer.
SPECIFICATION FairSpec
CONSTANTS
  Paths = {"a", "b"}
  Gated = {}
  Methods = {"GET"}
  MaxRequests = 2
  MaxEdits = 0
  MaxRefused = 0
PROPERTY EveryPageDrained
CHECK_DEADLOCK FALSE
