SPECIFICATION Spec
CONSTANTS
  Keys = {1, 2, 3, 4}
  Values = {v1}
  NULL = NULL
  InitialCapacity = 4
  MaxCapacity = 8
  Removes = FALSE
PROPERTY
  BindingsStay
CHECK_DEADLOCK FALSE
