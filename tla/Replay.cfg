SPECIFICATION ReplaySpec
CONSTANTS
  NULL = NULL
  u1 = u1
  m1 = m1
  ra = ra
  rb = rb
  UserIds <- MCUserIds
  OpenIds <- MCOpenIds
  MsgIds <- MCMsgIds
  Payloads <- MCPayloads
  EnvelopeIds <- MCEnvelopeIds
  Times <- MCTimes
  Monos <- MCMonos
  Runtimes <- MCRuntimes
  BucketMs = 2
  SessionIds = {s1}
  Rooms = {room1}
  FixtureSession = s1
  FixtureRoom = room1
  ListLimit = 2
  MaxIntervals = 3
  MaxEvents = 2
  MaxDuplicates = 1
CHECK_DEADLOCK FALSE
INVARIANT ProjectionsAgree
PROPERTY ReducerImplementsTimeline
