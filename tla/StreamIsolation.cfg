SPECIFICATION Spec
CONSTANTS
  u1 = u1
  r1 = r1
  r2 = r2
  c1 = c1
  c2 = c2
  None = None
  Users <- OneUser
  Runs <- TwoRuns
  Clients <- TwoClients
  BufferSize = 2
  Starts <- Positions
  MaxSeq = 3
INVARIANT Isolation
