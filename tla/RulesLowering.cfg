\* A number of another convention between the label and the number a pattern names.
SPECIFICATION RulesSpec
CONSTANTS
  Alphabet = {"1", ",", "a"}
  MaxLen = 6
  Window = 8
  Start <- YearZero
  Eras = {0}
  Finals <- FirstDayOnly
  Sampled = {}
  Births = {}
  Letters = {}
  MaxLiteral = 0
  Words = {}
  MaxPredicate = 0
  SaltLetters = {}
  MaxSalt = 0
  Salts <- SomeSalts
  Values <- SomeValues
  Rules <- SomeRules
  Bodies <- SomeBodies
  HexDigits = {"0", "f"}
  MinSalt = 4
  Tag <- TheTag
INVARIANT LoweringKeepsReading
CHECK_DEADLOCK FALSE
