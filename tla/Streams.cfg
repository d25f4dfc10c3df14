SPECIFICATION Spec
CONSTANTS
    Calls = {c1, c2}
    Rooms = {a, b}
    MaxRedirects = 1
    MaxCached = 1
    MaxCandidates = 2
    QueueSize = 2
    MaxEvents = 3
    MaxCalls = 2
    NULL = NULL
CHECK_DEADLOCK FALSE
INVARIANT CacheIsTrusted
INVARIANT OneChrome
PROPERTY ResolveReturns
