SPECIFICATION MCSpec
CONSTANTS
  NumSources = 4
  NumLanes = 3
  MaxPanics = 2
INVARIANTS
  TypeOK
  MergesWholeRecords
  WalksWhatWasResolved
  AllOrNothing
  BlamesTheDead
PROPERTIES
  Returns
CHECK_DEADLOCK FALSE
