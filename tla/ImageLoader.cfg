SPECIFICATION FairSpec
CONSTANTS
  Keys <- MCKeys
  Transparent <- MCTransparent
  MaxData = 2
  MaxMessages = 2
INVARIANTS
  TypeOK
  RequestServed
  AskerDrawsImage
PROPERTIES
  EveryMessageExecuted
CHECK_DEADLOCK FALSE
