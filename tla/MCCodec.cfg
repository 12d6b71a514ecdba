SPECIFICATION Spec
CONSTANTS
  MaxBufs = 2
  MaxSetups = 2
  Geometries <- MCGeometries
  Faults <- FaultKinds
INVARIANTS
  NothingLeaked
  FreesOnlyOwn
  MemoryAgrees
  DriverIsTold
