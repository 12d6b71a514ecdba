SPECIFICATION Spec
CONSTANTS
  MaxBufs = 2
  Enqueuers = {e1, e2}
  Faults <- MCFaults
INVARIANTS
  HeldIsMarked
  NothingLost
  PrivateIsOwn
SYMMETRY Symmetric
