SPECIFICATION SupervisorSpec
CONSTANTS
    worker = worker
    request = request
    Stoppers = {worker, request}
    Cancellable = {worker}
    Lines <- MCLines
    Segments = 1
    PipeSize = 1
    Faults = {"log", "database", "list"}
INVARIANT ResultIsComplete
PROPERTY ExitIsFinalized
PROPERTY PipesAreRead
CHECK_DEADLOCK FALSE
