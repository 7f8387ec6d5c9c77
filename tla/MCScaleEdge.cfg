SPECIFICATION Spec
CONSTANTS
  grasp = grasp
  place = place
  none = none
  NoGoal = none
  Frame <- MCFrames
  Active <- MCActive
  MaxFrames = 6
  MaxGap = 1
  Context = 3
  MinFrames = 2
  SubLength = 3
INVARIANTS UnrepairedAreDropped
CHECK_DEADLOCK FALSE
