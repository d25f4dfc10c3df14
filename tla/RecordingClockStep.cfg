SPECIFICATION MCSpec
CONSTANTS
  NULL = NULL
  c1 = c1
  c2 = c2
  s1 = s1
  ra = ra
  UserIds <- MCNone
  OpenIds <- MCNone
  MsgIds <- MCNone
  Payloads <- MCNone
  EnvelopeIds <- MCNone
  Times <- MCTimes
  Monos <- MCMonos
  Runtimes = {ra}
  BucketMs = 1
  SessionIds = {s1}
  Rooms = {room1}
  MaxIntervals = 1
  MaxEvents = 0
  MaxDuplicates = 0
  Callers <- MCOneCaller
  Abandonable = {}
  RaceFaults = {"clock"}
  RestartFaults = {}
CHECK_DEADLOCK FALSE
INVARIANT EveryPathClosesTheInterval
