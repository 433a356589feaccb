\* A worker that does not hang and a drain thread that runs; no deadline helps.
\* Not among the faults: "thread" and "drain", after which nobody reads the pipe.
SPECIFICATION DrainedSpec
CONSTANTS
  PipeCap = 1
  MaxLog = 3
  Options = {"plain"}
  Faults = {"protocol", "spawn", "interrupt", "rss", "unlink", "crash", "output", "result", "stubborn"}
PROPERTIES DrainKeepsWorkerMoving
