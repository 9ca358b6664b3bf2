CONSTANTS
  dialog = dialog
  popover = popover
  panel = panel
  inner = inner
  Backdrop = Backdrop
  Content = Content
  Part = Part
  Other = Other
  NoOverlay = NoOverlay
  Shapes <- AllPages
  MaxCommits = 4
SPECIFICATION FairSpec
CHECK_DEADLOCK FALSE
INVARIANTS
  TypeOK
  QuietPage
PROPERTIES
  SlowerPartHolds
  ParentHolds
  ExitsEnd
