\* Two responses of two pages, fetched or posted, with everything the origin may
\* do: what the session and its file hold while drains overlap, and that drains and
\* saves come to an end under fairness.
SPECIFICATION FairSpec
CONSTANTS
  Paths = {"a", "b"}
  Gated = {"b"}
  Methods = {"GET", "POST"}
  MaxRequests = 2
  MaxEdits = 1
  MaxRefused = 1
INVARIANTS TypeOK FetchedOnce UnchangedBodyMatches SessionHoldsNewest
PROPERTIES FileNeverRegresses TimerSuffices FetchedIsSaved
CHECK_DEADLOCK FALSE
