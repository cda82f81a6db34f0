SPECIFICATION Spec
CONSTANTS
  Main = main
  Dialog = dialog
  Label = label
  Widgets = {main, dialog, label}
  NoWidget = NoWidget
  KindOf <- MCKindOf
  Modal = {dialog}
  MaxCalls = 2
  MaxClicks = 0
  MaxBehind = 1
  Drawn = {dialog}
INVARIANTS
  MovesFollowed
CHECK_DEADLOCK FALSE
