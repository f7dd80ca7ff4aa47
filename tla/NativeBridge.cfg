\* Two calls, three lost ports and a refused connection, under fairness.
SPECIFICATION FairSpec
CONSTANTS
  MaxCalls = 2
  MaxDrops = 3
  MaxRefusals = 1
INVARIANTS TypeOK NothingForgotten PendingInStep BoundedReplay AnswerIsOwn OneDropIsRecovered
PROPERTIES OutcomeFinal EverySettled ImplementsService
CHECK_DEADLOCK FALSE
