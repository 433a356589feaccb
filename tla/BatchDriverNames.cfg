\* The same assets and nothing that fails: only the file names collide.
SPECIFICATION Spec
CONSTANTS
  Paths <- FourPaths
  OutputName <- Names
  SizeMB <- Sizes
  Modes <- AllModes
  Failing = {}
INVARIANTS NoSilentOverwrite
