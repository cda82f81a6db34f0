SPECIFICATION FairSpec
CONSTANTS
  a = a
  b = b
  NoWidget = NoWidget
  c = c
  Widgets <- MCWidgets
  Stable <- MCStable
  Masked <- MCMasked
  Extent = 2
INVARIANTS
  TypeOK
  RenderScheduled
  NoLostPaint
PROPERTIES
  EventuallyTaken
