CHECK_DEADLOCK FALSE
SPECIFICATION Spec
CONSTANTS
  Counts = {1, 2, 3}
  MaxFbs = 2
  Faults <- MCFaults
INVARIANTS
  RefusedOnlyWhenFull
PROPERTIES
  Implements
