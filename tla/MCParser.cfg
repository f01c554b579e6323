SPECIFICATION Spec
CONSTANTS
  Texts <- MCTexts
  NULL = NULL
INVARIANTS
  OnlyGrammarAccepted
  OnlyListsRejected
  TreeIsDerivation
CHECK_DEADLOCK FALSE
