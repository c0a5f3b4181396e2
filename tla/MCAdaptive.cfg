CONSTANTS
  N = 5
  Kind <- Artifacts
  Starts <- StartLimits
  MaxPaid = 5
  MaxRuns = 4
SPECIFICATION Spec
INVARIANTS TypeOK SpendingBounded DeliveryAccounted
PROPERTIES NoCallInVain
CHECK_DEADLOCK FALSE
