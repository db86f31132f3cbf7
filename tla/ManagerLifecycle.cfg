SPECIFICATION ManagerSpec
CONSTANTS
  u1 = u1
  u2 = u2
  r1 = r1
  r2 = r2
  r3 = r3
  t1 = t1
  t2 = t2
  None = None
  Users <- TwoUsers
  Runs <- ThreeRuns
  Tasks <- OneTask
  UserOf <- TwoLanes
  MaxTokens = 4
  Reasons <- AbortReasons
  StoresSettleAtOnce = TRUE
  MaxInFlight = 2
  LeasesExpire = TRUE
INVARIANTS
  ManagerTypeOK
  QueuedIffWaiting
  StoppableIffRunning
PROPERTY TransitionsFollowTable
