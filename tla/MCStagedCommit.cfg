SPECIFICATION Spec
CONSTANTS
  Paths <- MCPaths
  Contents <- MCContents
  Nothing = "nothing"
  Directory = "dir"
  Trees <- MCTrees
  Outputs <- MCOutputs
  Preserved <- MCPreserved
  Tasty <- MCTasty
  Tmps <- MCTmps
  Manifest = "manifest"
  Chunks <- MCChunks
  Built = "new"
  MaxSyncs = 2
  MaxCrashes = 1
CHECK_DEADLOCK FALSE
INVARIANTS
  TypeOK
  MirrorsOutput
  OldFilesStay
  TastyLands
