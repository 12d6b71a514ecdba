\* Every driver call may fail.
SPECIFICATION HdmiSpec
CONSTANTS
  Srcs <- MCSrcs
  Spots <- MCSpots
  Res = {"1080p", "480p"}
  SizeOf <- MCSizeOf
  DefaultRes = "1080p"
  Supported = {"1080p", "480p"}
  Fallback = "480p"
  HdmiFaults = {"stop", "create", "config", "run", "mixer", "tvout", "hpd"}
  Stale = TRUE
INVARIANTS
  PathChangeIsPending
  TvShowsRequest
  DisconnectedIsQuiet
  UnresetFrameFits
