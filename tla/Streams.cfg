SPECIFICATION FairSpec
CONSTANTS
  u1 = u1
  r1 = r1
  r2 = r2
  c1 = c1
  c2 = c2
  None = None
  Users <- OneUser
  Runs <- OneRun
  Clients <- TwoClients
  BufferSize = 3
  Starts <- Positions
  MaxSeq = 5
INVARIANTS
  SubscribedWhileLive
  NoGapAfterReplay
  SeqIncreases
  EndIsTold
PROPERTY StreamsClose
