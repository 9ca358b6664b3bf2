CONSTANTS
  Ids = {a, b}
  Times = {1}
  Never = Never
  Callbacks = {"quiet", "again", "throws"}
  Limits = {1, 2}
  MaxCalls = 4
SPECIFICATION FairSpec
CHECK_DEADLOCK FALSE
INVARIANTS
  TypeOK
  ScreenFollows
  ToldOnce
PROPERTIES
  OwnClock
  ToastsLeave
