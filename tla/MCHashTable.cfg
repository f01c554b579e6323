SPECIFICATION Spec
CONSTANTS
  Keys = {3, 4, 6, 7, 8, 11}
  Values = {v1}
  NULL = NULL
  InitialCapacity = 4
  MaxCapacity = 8
  Removes = TRUE
INVARIANTS
  LoadBounded
  CountsCoverSlots
  KeysFindable
  OnlyLastSlotLost
PROPERTY
  ImplementsMap
CHECK_DEADLOCK FALSE
