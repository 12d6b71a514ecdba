SPECIFICATION FairSpec
CONSTANTS
  Screen <- MCScreen
  Lists <- MCLists
  Handles = {1, 2}
  DefaultMode = "output"
  Thres = 2
  DelayFrames = 1
  HwcFaults <- AllFaults
INVARIANTS OverlaysAreBacked StreamFitsLayer OverlayIsTaken SkippedUiIsShown NoStreamWithoutOverlay
PROPERTY OverlayReturns
