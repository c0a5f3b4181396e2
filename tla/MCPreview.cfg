CONSTANTS
  r1 = r1
  r2 = r2
  t1 = t1
  t2 = t2
  Runs = {r1, r2}
  Threads = {t1, t2}
  Worker = w
  None = None
  MaxTerminal = 1
  MaxUnconfirmed = 1
  MaxRestarts = 1
SPECIFICATION Spec
INVARIANTS TypeOK ReceiptsKept
PROPERTIES Promised
SYMMETRY Symmetric
CHECK_DEADLOCK FALSE
