SPECIFICATION FairSpec
CONSTANTS
  t1 = t1
  t2 = t2
  Task = {t1, t2}
  Sources <- OtherGood
  Lists <- OneTwice
  Workers = 2
  MaxFolders = 7
  MaxFaults = 1
  MaxEdits = 1
  Edited = {t1}
INVARIANTS RegisteredWhole ShortExplained
PROPERTIES MarksStick Converges
