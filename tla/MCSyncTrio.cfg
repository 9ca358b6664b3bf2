SPECIFICATION Spec
CONSTANTS
  p1 = p1
  p2 = p2
  p3 = p3
  Ghost = Ghost
  Junk = Junk
  None = None
  Procs <- ThreeProcs
  Kinds = {"one-shot"}
  Breakers = {{}}
  LeftBehind = {"nothing"}
  UserSignals = {}
  MaxUserSignals = 0
  MaxCrashes = 0
  MaxAttempts = 4
  Prompt = TRUE
SYMMETRY Symmetric
INVARIANT OneHolder
