SPECIFICATION Spec
CONSTANTS
  Letters <- MCLetters
  Digits <- MCDigits
  Newline <- MCNewline
  Blanks <- MCBlanks
  Texts <- MCTexts
  Garbage = Garbage
  MaxText = 4
  MaxDeepText = 5
  MaxEof = 2
INVARIANTS
  TokensTile
  PositionsTrue
  LongestWord
  LongestOperator
  MarkersTrue
PROPERTY
  ReachesEof
CHECK_DEADLOCK FALSE
