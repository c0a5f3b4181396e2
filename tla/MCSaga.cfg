SPECIFICATION FairSpec
CONSTANTS
  k1 = k1  k2 = k2  t1 = t1  t2 = t2
  Keys = {k1, k2}
  Tokens = {t1, t2}
  TokenMaps <- AllTokens
  None = None
  MaxShot = 2
  MaxCrashes = 2
INVARIANTS TypeOK ConfirmedIsRecorded VisibleIsRecorded
PROPERTIES SavedForLatestShots SavedIsNotFailed RequestsSettle
CHECK_DEADLOCK FALSE
