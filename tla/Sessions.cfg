INIT MCInit
NEXT MCNext
CONSTANTS
  Assets = {"a", "b"}
  Count = 3
  Names = {"f", "g", "h"}
  NameOf <- MCNameOf
  MaxRetries = 2
  NoCode = NoCode
  MaxEntries = 3
  MaxBytes = 4
  MaxSingle = 2
  MaxTotal = 3
  MaxWork = 1
  Sizes <- MCSizes
  MaxDropped = 1
  MaxStack = 2
  MaxCounted = 5
  Handlers = {"mesh", "any"}
  Classes = {"Mesh", "Curve", "Actor"}
  CanHandle <- MCCanHandle
  NoHandler = "none"
  NotCached = "unasked"
  MaxHandlers = 3
  Packages = {"p", "q"}
  MaxTime = 3
  Files <- MCLogs
  FamilyOf <- MCFamilyOf
  Mtime <- MCMtime
  Size <- MCSize
  Active = "own"
  Keeps <- MCKeeps
  Cutoffs <- MCCutoffs
  Totals <- MCTotals
  Off <- MCOff
INVARIANTS
  OwnBytecode
  RetriesBounded
  LimitsHold
  CachesAreCurrent
  CleanupIsSafe
CHECK_DEADLOCK FALSE
