\* A healthy environment and every kind of option the batch API accepts.
SPECIFICATION WorkerSafety
CONSTANTS
  PipeCap = 1
  MaxLog = 1
  Options = {"plain", "policy", "config"}
  Faults = {}
INVARIANTS OptionsReachWorker
