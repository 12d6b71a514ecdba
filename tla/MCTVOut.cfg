\* The cable comes and goes and the path changes while frames flow.  The service
\* really can stop (see the README on the two locks of ExynosHdmi).
SPECIFICATION Spec
CONSTANTS
  MaxFrames = 2
  Moves = TRUE
CHECK_DEADLOCK FALSE
INVARIANTS
  WokenHasMessage
  QuietWhenStopped
  MethodsExcludeFlushes
  CableMeansConnected
