\* Bodies of up to eight characters and the days of TwoSpans;
\* literals of up to four, predicates of up to five and salts of up to six characters.
SPECIFICATION RulesSpec
CONSTANTS
  Alphabet = {"1", ".", ",", "-", "a"}
  MaxLen = 8
  Window = 8
  Start <- YearZero
  Eras = {0, 4, 5}
  Finals <- TwoSpans
  Sampled <- Centuries
  Births <- SomeBirths
  Letters <- SomeLetters
  MaxLiteral = 4
  Words <- SomeWords
  MaxPredicate = 5
  SaltLetters = {"0", "f", "g"}
  MaxSalt = 6
  Salts <- SomeSalts
  Values <- SomeValues
  Rules <- SomeRules
  Bodies <- SomeBodies
  HexDigits = {"0", "f"}
  MinSalt = 4
  Tag <- TheTag
INVARIANTS
  NumbersConform NumbersRead DatesReadBack AgeCountsBirthdays
  LiteralsSurvive LoweringAgrees
  NoReadingGuessed CommitsToCompared ValueStaysHidden CommitmentsChecked SaltNeverDropped
CHECK_DEADLOCK FALSE
