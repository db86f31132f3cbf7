SPECIFICATION Spec
CONSTANTS
  u1 = u1
  u2 = u2
  w1 = w1
  w2 = w2
  d1 = d1
  d2 = d2
  None = None
  Users <- MCUsers
  Sandboxes <- MCSandboxes
  Destroyers <- MCDestroyers
SYMMETRY Alike
CONSTRAINT TwoUnderWay
INVARIANTS
  OwnWorkspace
  NotDeadOnArrival
  NothingForgotten
  OneLivePerUser
PROPERTY CleanPerRun
