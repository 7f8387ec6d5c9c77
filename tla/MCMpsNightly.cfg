SPECIFICATION FairSpec
CONSTANTS
  r1 = r1
  r2 = r2
  r3 = r3
  hand = hand
  slam = slam
  Recording = {r1, r2}
  Feature = {hand, slam}
  Sorted <- Sorted2
  Size <- Unit
  TargetSize = 1
  Commands <- NightlyOnly
  MaxFaults = 2
  Absent = Absent
INVARIANTS DiskBound
PROPERTIES CompleteStays Converges
CHECK_DEADLOCK FALSE
