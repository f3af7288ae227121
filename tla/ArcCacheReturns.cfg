\* A panic or an endless loop is the end.
CHECK_DEADLOCK FALSE
SPECIFICATION Spec
CONSTANTS
  Keys = {k1, k2, k3, k4, k5}
  Capacity = 3
INVARIANTS InsertReturns
