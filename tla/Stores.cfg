SPECIFICATION StoresSpec
CONSTANTS
  u1 = u1
  u2 = u2
  r1 = r1
  r2 = r2
  r3 = r3
  None = None
  Users <- MCUsers
  Runs <- MCRuns
  MaxTokens = 4
INVARIANTS
  IndexAgrees
  TokenIndexExact
PROPERTY NoOvertaking
