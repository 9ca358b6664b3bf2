SPECIFICATION Spec
CONSTANTS
  cfg = cfg
  a = a
  Roots = {cfg, a}
  CfgRoot = cfg
  MaxEdits = 2
  MaxPokes = 1
  MaxErrors = 1
CHECK_DEADLOCK FALSE
INVARIANT
  ScopeFollowsUnlessFailed
