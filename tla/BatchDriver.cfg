\* Four assets, every mode, every failure.
SPECIFICATION Spec
CONSTANTS
  Paths <- FourPaths
  OutputName <- Names
  SizeMB <- Sizes
  Modes <- AllModes
  Failing <- AllFailing
INVARIANTS EveryAssetAccounted SkippedIsTail SuccessStands InProcessFailureKeepsDocument
PROPERTIES BatchEnds
