SPECIFICATION FairSpec
CONSTANTS
  c1 = c1  w1 = w1  w2 = w2
  Clients = {c1}
  Workers = {w1, w2}
  None = None
  MaxStops = 2
INVARIANTS TypeOK AnswersHonest
PROPERTIES WorkedOnce ClientsLearn
CHECK_DEADLOCK FALSE
