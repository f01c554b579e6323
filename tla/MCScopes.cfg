SPECIFICATION Spec
CONSTANTS
  Names = {a, b, c}
  NONE = NONE
  Capacity = 1
  MaxSymbols = 4
  MaxScopes = 3
INVARIANTS
  NoShadowing
  OwnSymbols
PROPERTY
  ImplementsEnvironment
SYMMETRY
  NamesAlike
CHECK_DEADLOCK FALSE
