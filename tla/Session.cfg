SPECIFICATION Spec
CONSTANTS
  b1 = b1
  b2 = b2
  Browsers <- TwoBrowsers
  Speaks <- EveryKindMeetsV13
  None = None
  Polls = 1
INVARIANTS
  TypeOK
  WholeRequestsAccepted
  ClientIsLive
  AloneIsKept
PROPERTIES
  EventuallyServed
  EndsWithBrowser
CHECK_DEADLOCK FALSE
