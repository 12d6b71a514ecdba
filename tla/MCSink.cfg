SPECIFICATION Spec
CONSTANTS
  NVic = 2
  Default2D = 720960
  Default3D = 720960
  DefaultMode = "YCBCR"
  MaxRef = 2
  Sinks <- MCSinks
  AskedModes <- MCAskedModes
  Asked <- MCAsked
  Faults <- MCFaults
  Frames <- MCFrames
  CecFaults <- MCCecFaults
INVARIANTS
  LineGoesWithConnection
  ModeFitsSink
  ResolutionFitsSink
  SpeaksForSink
PROPERTIES
  FreshEdid
