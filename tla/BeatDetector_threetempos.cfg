\* A detection long enough for newDetection to clear past the struct's interval array.
CONSTANTS
  IntervalsSize = 2
  OnsetTimesSize = 4
  TemposSize = 2
  OiSaveSize = 1
  TdOnsetsSize = 1500
  ScratchSize = 0
  Ulp = 1
  MissLimit = 1
  OnsetCap = 13
  Gaps <- MCGaps
  Volumes <- MCVolumes
  ClusterTempos <- MCClusterTempos
  AutoResults <- MCAutoResults
SPECIFICATION Spec
INVARIANT
  ComparesAllTempos
