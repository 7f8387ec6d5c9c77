SPECIFICATION Spec
CONSTANTS
  motion = motion
  button = button
  r1 = r1
  Key = {motion, button}
  Reader = {r1}
  MaxK = 2
  Budget = 2
  Period = 1
  MaxPuts = 6
  MaxTime = 6
INVARIANTS ReadsWhole RateSustained
CHECK_DEADLOCK FALSE
