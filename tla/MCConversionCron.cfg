SPECIFICATION Spec
CONSTANTS
  aria = aria
  eva = eva
  e1 = e1
  e2 = e2
  Episode = {e1, e2}
  Driver = {aria, eva}
  Bundles <- TwoDrivers
  PreviewOptional = {eva}
  LaunchModes <- CronModes
  RayRetries = 0
  MaxLaunches = 2
  MaxEdits = 1
  NoEpisode = NoEpisode
INVARIANTS PublishInv PublishedComplete
PROPERTIES PublishedFrozen
CHECK_DEADLOCK FALSE
