SPECIFICATION FairSpec
CONSTANTS
  Main = main
  Dialog = dialog
  Label = label
  Widgets = {main, dialog, label}
  NoWidget = NoWidget
  KindOf <- MCKindOf
  Modal = {dialog}
  MaxCalls = 3
  MaxClicks = 1
  MaxBehind = 1
  Drawn = {dialog}
INVARIANTS
  TypeOK
  ShowingMatches
  CurtainsMatch
  ShownIsKnown
  FirstMovesFollowed
PROPERTIES
  EchoesEnd
CHECK_DEADLOCK FALSE
