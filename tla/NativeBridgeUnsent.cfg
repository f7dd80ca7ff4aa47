\* Ports drop, but every connection attempt succeeds.
SPECIFICATION Spec
CONSTANTS
  MaxCalls = 2
  MaxDrops = 2
  MaxRefusals = 0
INVARIANT GivenUpWasSent
CHECK_DEADLOCK FALSE
