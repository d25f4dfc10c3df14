SPECIFICATION MCSpec
CONSTANTS
  NULL = NULL
  c1 = c1
  c2 = c2
  s1 = s1
  ra = ra
  UserIds <- MCNone
  OpenIds <- MCNone
  MsgIds <- MCNone
  Payloads <- MCNone
  EnvelopeIds <- MCNone
  Times <- MCTimes
  Monos <- MCMonos
  Runtimes = {ra, rb}
  BucketMs = 1
  SessionIds = {s1, s2}
  Rooms = {room1}
  MaxIntervals = 1
  MaxEvents = 0
  MaxDuplicates = 0
  Callers <- MCCallers
  Abandonable = {c1, s1}
  RaceFaults = {}
  RestartFaults = {{"crash"}, {"cancel", "crash"}}
CHECK_DEADLOCK FALSE
INVARIANT Supervised
INVARIANT StatusTellsTheExit
INVARIANT EveryRecorderHasAnOwner
INVARIANT OnlyThisRuntimeRecords
PROPERTY ReportedOnce
PROPERTY ImplementsStore
PROPERTY FairStopEndsTheSession
PROPERTY FairRoomComesFree
