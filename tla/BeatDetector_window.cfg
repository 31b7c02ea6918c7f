\* The window's time at its real size on a clock 2 ms apart; detections that clear the sizes.
CONSTANTS
  IntervalsSize = 1
  OnsetTimesSize = 5
  TemposSize = 1
  OiSaveSize = 1
  TdOnsetsSize = 1500
  ScratchSize = 0
  Ulp = 2
  MissLimit = 0
  OnsetCap = 11
  Gaps <- MCWindowGaps
  Volumes <- MCOneVolume
  ClusterTempos <- MCOneTempo
  AutoResults <- MCOneResult
SPECIFICATION PlayingSpec
INVARIANTS
  WindowHasRoom
  OffsetInBounds
PROPERTY
  WindowCloses
