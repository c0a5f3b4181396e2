SPECIFICATION FairSpec
CONSTANTS
  c1 = c1  w1 = w1  w2 = w2
  Clients = {c1}
  Workers = {w1}
  None = None
  MaxStops = 0
PROPERTY ReleasedJobEnds
CHECK_DEADLOCK FALSE
