SPECIFICATION Spec
CONSTANTS
  p1 = p1
  p2 = p2
  Ghost = Ghost
  Junk = Junk
  None = None
  Procs <- TwoProcs
  Kinds = {"one-shot", "watch"}
  Breakers = {{}}
  LeftBehind = {"nothing"}
  UserSignals = {}
  MaxUserSignals = 0
  MaxCrashes = 0
  MaxAttempts = 4
  Prompt = TRUE
INVARIANT PokeNeverKills
