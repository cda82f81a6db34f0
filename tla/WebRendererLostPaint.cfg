SPECIFICATION FairSpec
CONSTANTS
  a = a
  b = b
  c = c
  NoWidget = NoWidget
  Widgets <- MCWidgets
  Stable <- MCNone
  Masked <- MCNone
  Extent = 2
INVARIANTS
  EveryPaintKept
