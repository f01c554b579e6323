SPECIFICATION Spec
CONSTANTS
  Types = {ident, INVALID}
  EOF = EOF
  INVALID = INVALID
  Garbage = Garbage
  Texts <- MCTexts
  MaxText = 2
  MaxHead = 4
  MaxLook = 2
  MaxMarks = 2
  MaxErrors = 2
INVARIANTS
  TypeOK
  BufferInStep
  HeadInBuffer
  LexErrorsOnce
PROPERTIES
  TokensStay
  ImplementsCursor
