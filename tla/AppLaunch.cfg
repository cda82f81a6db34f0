SPECIFICATION LaunchFairSpec
CONSTANTS
  Requests = {r1, r2, r3}
  None = None
INVARIANTS
  LaunchTypeOK
  PromptPagesMatch
PROPERTIES
  EveryRequestAnswered
CHECK_DEADLOCK FALSE
