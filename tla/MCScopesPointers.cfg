SPECIFICATION Spec
CONSTANTS
  Names = {a, b}
  NONE = NONE
  Capacity = 1
  MaxSymbols = 3
  MaxScopes = 2
INVARIANT
  PointersStay
SYMMETRY
  NamesAlike
CHECK_DEADLOCK FALSE
