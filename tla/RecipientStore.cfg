SPECIFICATION Spec
CONSTANTS
  NULL = NULL
  u1 = u1
  m1 = m1
  ra = ra
  rb = rb
  s1 = s1
  UserIds <- MCUserIds
  OpenIds = {}
  MsgIds <- MCMsgIds
  Watched = s1
  Payloads <- MCPayloads
  EnvelopeIds <- MCEnvelopeIds
  Times <- MCTimes
  Monos <- MCMonos
  Runtimes <- MCRuntimes
  BucketMs = 2
  SessionIds = {s1}
  Rooms = {room1}
  MaxIntervals = 3
  MaxEvents = 2
  MaxDuplicates = 1
CHECK_DEADLOCK FALSE
INVARIANT ClocksRunForward
INVARIANT OpenIffActive
PROPERTY SettledHistory
PROPERTY ImplementsTimeline
