SPECIFICATION Spec
CONSTANTS
  Literals <- MCLiterals
  Compilations <- MCCompilations
  NULL = NULL
  UNDEFINED = UNDEFINED
  CRASH = CRASH
  UNSET = UNSET
  ILL = ILL
  Samples <- MCSamples
  IntBits = 6
  LongBits = 10
  Unwritten = {0, 1}
  Capacity = 6
  PrintDepth = 12
INVARIANTS
  SilentOnlyUndeclared
  
  TypesFreedOnce
  ConstantsTrue
  ValuesPreserved
  
  UnitsIndependent
CHECK_DEADLOCK FALSE
