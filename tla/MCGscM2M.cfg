SPECIFICATION FairSpec
CONSTANTS
  Threads = {t1, t2}
  Caller = t1
  Geoms = {small, large}
  Loads = {0, 1}
  Faults <- MCFaults
INVARIANTS
  NeverRefused
  PlanesFitFormat
PROPERTIES
  ConvertReturns
