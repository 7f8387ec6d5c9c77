SPECIFICATION Spec
CONSTANTS
  r1 = r1
  r2 = r2
  r3 = r3
  hand = hand
  slam = slam
  Recording = {r1, r2, r3}
  Feature = {hand}
  Sorted <- Sorted3
  Size <- Growing
  TargetSize = 2
  Commands <- WithoutClean
  MaxFaults = 2
  Absent = Absent
INVARIANTS ReportTruth BatchesFit BatchReady BatchesPartition MpsInv
CHECK_DEADLOCK FALSE
