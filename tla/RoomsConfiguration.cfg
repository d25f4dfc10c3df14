SPECIFICATION MCSpec
CONSTANTS
  NULL = NULL
  u1 = u1
  u2 = u2
  a1 = a1
  a2 = a2
  room1 = room1
  room2 = room2
  RoomKeys <- MCRooms
  Urls <- MCUrls
  Callers <- MCCallers
  Patches <- MCPatches
  MaxParallelChecks = 1
  OfflineConfirmations = 2
  MaxCached = 1
  MaxCalls = 1
  MaxBroadcasts = 0
  ManagerEnabled = TRUE
CHECK_DEADLOCK FALSE
INVARIANT RecordingFollowsTheRoom
