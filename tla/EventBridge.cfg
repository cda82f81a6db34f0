SPECIFICATION Spec
CONSTANTS
  win = win
  left = left
  right = right
  NoWidget = NoWidget
  Widgets <- MCWidgets
  Parent <- MCParent
  MaxInbox = 2
INVARIANTS
  TypeOK
  CrossingsMatch
  OneStaleEvent
