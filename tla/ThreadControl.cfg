SPECIFICATION Spec
CONSTANTS
  Worker = worker
  Controller = controller
  Watcher = watcher
  Threads = {worker, controller, watcher}
  NoThread = nobody
  SdbModules = {"Thread", "Signals"}
  LmModules = {"lm"}
  Sent = {"SIGINT"}
  MaxCalls = 1
  MaxFailures = 1
CHECK_DEADLOCK FALSE
INVARIANTS
  ControlInv
PROPERTIES
  StopCompletes
