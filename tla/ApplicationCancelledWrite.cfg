SPECIFICATION MCSpec
CONSTANTS
  Runtimes = 1
  Workers <- MCWorkers
  Requests <- MCRequests
  Exports <- MCExports
  Ops <- MCOps
  Cancellable <- MCCancellable
  Statements = 2
  Migrations = 1
  Faults = {}
  Crashes = FALSE
CHECK_DEADLOCK FALSE
INVARIANT OthersGoOn
