\* Two exports, everything that can be raised.
SPECIFICATION Spec
CONSTANTS
  NExports = 2
  Entries = {"package", "linker", "preload_all"}
  Kinds = {"tagged", "opaque", "skip"}
  Extents = {"empty", "inside", "outside"}
  Raisable = {"version", "parse", "data", "memory", "other", "memory_limit"}
INVARIANTS ResourcesReleased HonestStatus
PROPERTIES ModeKept PreloadAddsNothing
