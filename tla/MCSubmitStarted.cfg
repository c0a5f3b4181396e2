SPECIFICATION Spec
CONSTANTS
  h1 = h1  h2 = h2  h3 = h3  p1 = p1  p2 = p2
  Handlers = {h1, h2, h3}
  Payloads = {p1, p2}
  None = None
  Prompt = TRUE
  MayCrash = TRUE
  MaxAttempts = 4
INVARIANT StartedNotReclaimed
CHECK_DEADLOCK FALSE
