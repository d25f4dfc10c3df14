SPECIFICATION MCSpec
CONSTANTS
  NULL = NULL
  u1 = u1
  u2 = u2
  a1 = a1
  a2 = a2
  room1 = room1
  room2 = room2
  RoomKeys <- MCRooms
  Urls <- MCUrls
  Callers <- MCCallers
  Patches <- MCPatches
  MaxParallelChecks = 1
  OfflineConfirmations = 2
  MaxCached = 1
  MaxCalls = 2
  MaxBroadcasts = 1
  ManagerEnabled = TRUE
CHECK_DEADLOCK FALSE
INVARIANT Settled
INVARIANT OfflineIsConfirmed
PROPERTY CallsReturn
PROPERTY LiveIsRecorded
