SPECIFICATION MCSpec
CONSTANTS
  NULL = NULL
  Open = Open
  Jobs <- MCJobs
  NOutputs = 2
  MaxAttempts = 3
  Crashes = TRUE
CHECK_DEADLOCK FALSE
INVARIANT RunningHasTheWorker
INVARIANT RowsFollowTheJob
INVARIANT PlansExportTheirIntervals
PROPERTY NeverOverwritten
PROPERTY SuccessIsWhole
PROPERTY QuietCancelEndsTheJob
PROPERTY QuietQueuedIsServed
