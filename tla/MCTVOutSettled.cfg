\* The cable and the path are settled.
SPECIFICATION Spec
CONSTANTS
  MaxFrames = 2
  Moves = FALSE
PROPERTIES
  ServiceReturns
