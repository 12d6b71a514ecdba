CHECK_DEADLOCK FALSE
SPECIFICATION Spec
CONSTANTS
  N = 3
  Hold = 1
  Faults <- MCFaults
INVARIANTS
  RingInStep
PROPERTIES
  Implements
