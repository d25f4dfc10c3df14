SPECIFICATION MCSpec
CONSTANTS
  Runtimes = 2
  Workers <- MCWorkers
  Requests <- MCRequests
  Exports <- MCExports
  Ops <- MCOps
  Cancellable <- MCCancellable
  Statements = 2
  Migrations = 1
  Faults = {"begin", "operation", "migration"}
  Crashes = TRUE
CHECK_DEADLOCK FALSE
INVARIANT MigrationsAreWhole
INVARIANT EndedIsLast
PROPERTY ImplementsAtomicWrites
PROPERTY WritesReturn
PROPERTY StopEnds
