SPECIFICATION SocketFairSpec
CONSTANTS
  Events <- MCEvents
  Keys <- MCKeys
  Outputs <- MCOutputs
  MaxFrame = 126
  MaxSent = 2
  MaxCut = 6
  MaxWritten = 1
INVARIANTS
  SocketTypeOK
  ReceivedInOrder
  BrowserReadsMessages
  DisconnectedOnce
PROPERTIES
  EventuallyReceived
  EventuallyDisconnected
CHECK_DEADLOCK FALSE
