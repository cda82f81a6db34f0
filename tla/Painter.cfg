SPECIFICATION FairPaintSpec
CONSTANTS
  MaxCommands = 3
  MaxPrimitives = 1
INVARIANTS
  TypeOK
  WholeDraws
  DrawnAsPainted
PROPERTIES
  ImplementsDisplayStream
  EventuallyDelivered
CHECK_DEADLOCK FALSE
