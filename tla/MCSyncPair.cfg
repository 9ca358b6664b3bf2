SPECIFICATION FairSpec
CONSTANTS
  p1 = p1
  p2 = p2
  Ghost = Ghost
  Junk = Junk
  None = None
  Procs <- TwoProcs
  Kinds <- AllKinds
  Breakers <- SomeBreak
  LeftBehind <- AllLeftBehind
  UserSignals = {"TERM", "INT", "HUP"}
  MaxUserSignals = 1
  MaxCrashes = 1
  MaxAttempts = 4
  Prompt = TRUE
INVARIANTS
  TypeOK
  HolderOwnsLock
  OneWriterButInterrupted
  NoLockLeftBehind
  ContentionSettles
  WatchYieldsOnlyToClean
PROPERTIES
  ImplementsFolderLock
  InvocationsSettle
