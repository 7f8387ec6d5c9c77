SPECIFICATION Spec
CONSTANTS
  p1 = p1
  p2 = p2
  Process = {p1, p2}
  Episode <- TwoEpisodes
  Wanted <- TwoEpisodes
  HeldOut <- Seed42
  MaxStarts = 2
  MaxEdits = 0
  MaxFaults = 0
INVARIANTS IndexedAreWhole
CHECK_DEADLOCK FALSE
