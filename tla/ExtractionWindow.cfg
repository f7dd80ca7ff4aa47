\* A window of three characters, so that a number may cross its end.
SPECIFICATION Spec
CONSTANTS
  Alphabet = {"1", ".", "a"}
  MaxLen = 6
  Window = 3
  Start <- YearZero
  Eras = {0}
  Finals <- FirstDayOnly
  Sampled = {}
  Births = {}
INVARIANT WholeNumber
CHECK_DEADLOCK FALSE
