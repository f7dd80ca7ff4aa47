\* Birth dates as values of extractors that do not normalise them.
SPECIFICATION Spec
CONSTANTS
  Alphabet = {}
  MaxLen = 0
  Window = 0
  Start <- Seconds32
  Eras = {0}
  Finals = {24854}
  Sampled = {}
  Births <- SomeBirths
INVARIANT AgeOfStatedDate
CHECK_DEADLOCK FALSE
