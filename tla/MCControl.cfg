SPECIFICATION MCSpec
CONSTANTS
  r1 = r1  r2 = r2  k1 = k1  k2 = k2  km = km  kp = kp  ka = ka
  NoKey = NoKey
  Keys = {k1, k2, km, kp, ka}
  Runs = {r1, r2}
  Requests <- AllRequests
  MaxVersion = 8
  Scenarios = {"plan", "steer", "human", "writeback"}
INVARIANTS
  TypeOK
  CommandsCommitOnce
  AnsweredInFull
  OpenUntilDecided
  FinalHasProvenance
PROPERTIES
  EndedRunsRest
CHECK_DEADLOCK FALSE
