CHECK_DEADLOCK FALSE
SPECIFICATION Spec
CONSTANTS
  N = 3
  Hold = 1
  Faults <- MCFaults
INVARIANTS
  FlagIsBacked
  RefusedOnlyWhenFull
  OldestIsNext
  StopMeansStopped
  NothingLeftOpen
PROPERTIES
  Implements
