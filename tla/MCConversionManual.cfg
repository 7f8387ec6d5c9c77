SPECIFICATION FairSpec
CONSTANTS
  aria = aria
  eva = eva
  e1 = e1
  e2 = e2
  Episode = {e1}
  Driver = {eva}
  Bundles <- OneDriver
  PreviewOptional = {eva}
  LaunchModes <- AllModes
  RayRetries = 1
  MaxLaunches = 3
  MaxEdits = 2
  NoEpisode = NoEpisode
INVARIANTS DanglingExplained DeletionSticks
PROPERTIES ErrorsAreSticky LaunchEnds
CHECK_DEADLOCK FALSE
