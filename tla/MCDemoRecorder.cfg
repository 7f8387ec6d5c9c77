SPECIFICATION Spec
CONSTANTS
  Nothing = Nothing
  Arms = {"right"}
  Cameras = {"front_img_1"}
  Images = {1, 2}
  Samples <- MCSamples
  AutoStart = {1, Nothing}
  Lengths = {2, Nothing}
  Threshold = 1
  MaxRows = 3
  MaxTakes = 2
INVARIANTS CommandsOfThisTake FramesExplained
PROPERTIES SavedAsRecorded OnePressOneThing
CHECK_DEADLOCK FALSE
