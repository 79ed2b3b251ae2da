\* Three tips of a counter that saturates at two, with faults.
SPECIFICATION FairSpec
CONSTANTS
  Calibrate = 2
  Invert = 3
  Rearm = 2
  CountMax = 2
  TipMax = 3
  FaultMax = 4
INVARIANTS TypeOK CountsRealTips PublishedIsSaved
PROPERTIES BinFollowed
