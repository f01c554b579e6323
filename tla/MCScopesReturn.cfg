SPECIFICATION Spec
CONSTANTS
  Names = {a, b}
  NONE = NONE
  Capacity = 1
  MaxSymbols = 3
  MaxScopes = 3
INVARIANT
  ReturnsHaveFunction
SYMMETRY
  NamesAlike
CHECK_DEADLOCK FALSE
