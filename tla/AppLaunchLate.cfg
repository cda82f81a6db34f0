SPECIFICATION LaunchSpec
CONSTANTS
  Requests = {r1, r2}
  None = None
INVARIANTS
  PagesMatch
CHECK_DEADLOCK FALSE
