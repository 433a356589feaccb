\* Two threads, every kind of call, every failure of a configuration.
SPECIFICATION Spec
CONSTANTS
  Threads = {"t1", "t2"}
  Configs = {"off", "plain", "own"}
  Bodies = {"linker", "package", "batch", "off"}
  Failing = {"level", "directory", "open"}
  MaxCalls = 2
INVARIANTS HandlerIsConfigured LoggerRestored ScopeHeld
PROPERTIES ScopeProtectsLog ScopeFreed
