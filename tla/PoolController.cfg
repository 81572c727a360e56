CONSTANTS
  Jobs = {j1}
  NoJob = NoJob
  MinSize = 1
  MaxSize = 2
  UpTenths = 7
  DownTenths = 3
  ScaleUpStep = 1
  MaxPods = 3
  MaxLag = 1
  MaxFaults = 1
SPECIFICATION FairSpec
CHECK_DEADLOCK FALSE
PROPERTIES PassWithinMax PassKeepsMin EmptyPoolRefills
