\* One call, every failure of the environment.
SPECIFICATION Spec
CONSTANTS
  PipeCap = 1
  MaxLog = 2
  Options = {"plain", "policy", "config"}
  Faults = {"protocol", "spawn", "thread", "interrupt", "rss", "unlink", "drain", "crash", "output", "result", "stubborn"}
INVARIANTS OutputWhole AnswerMatchesOutput NothingLeftBehind
PROPERTIES QuietAfterReturn Publishes Return
