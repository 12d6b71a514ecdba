\* No driver call fails, and every frame meets the path it was accepted for.
SPECIFICATION HdmiSpec
CONSTANTS
  Srcs <- MCSrcs
  Spots <- MCSpots
  Res = {"1080p", "480p"}
  SizeOf <- MCSizeOf
  DefaultRes = "1080p"
  Supported = {"1080p", "480p"}
  Fallback = "480p"
  HdmiFaults = {}
  Stale = FALSE
INVARIANTS
  RunAfterConfig
