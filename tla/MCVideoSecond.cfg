SPECIFICATION Spec
CONSTANTS
  d = d  j1 = j1  j2 = j2
  Lanes = {d}
  Default = d
  Jobs = {j1, j2}
  Limit = 1
  None = None
  MaxRounds = 2
  Sources = {0, 1}
  MayCrash = FALSE
INVARIANT ReplacedRoundHasNoTask
CHECK_DEADLOCK FALSE
