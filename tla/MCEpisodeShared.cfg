SPECIFICATION Spec
CONSTANTS
  p1 = p1
  p2 = p2
  Process = {p1, p2}
  Episode <- TwoEpisodes
  Wanted <- TwoEpisodes
  HeldOut <- Seed42
  MaxStarts = 2
  MaxEdits = 1
  MaxFaults = 1
INVARIANTS SyncInv BrokenExplained LeakExplained
PROPERTIES SettledStays
SYMMETRY Alike
CHECK_DEADLOCK FALSE
