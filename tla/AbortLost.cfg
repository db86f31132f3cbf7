SPECIFICATION Spec
CONSTANTS
  u1 = u1
  u2 = u2
  r1 = r1
  r2 = r2
  r3 = r3
  q1 = q1
  q2 = q2
  None = None
  Users <- OneUser
  Runs <- TwoRuns
  Requests <- OneSlot
  Tasks <- Callers
  UserOf <- SharedLane
  MaxTokens = 2
  Reasons <- AbortReasons
  ClientReasons <- PlainReason
  MaxCancels = 1
  StoresSettleAtOnce = TRUE
  MaxInFlight = 2
  LeasesExpire = FALSE
INVARIANT AbortReachesAgent
