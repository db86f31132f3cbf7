---------------------------- MODULE MCEventStream ----------------------------
(* Two runs and two connections; the users do not matter here.               *)
EXTENDS EventStream

CONSTANTS u1, r1, r2, c1, c2

OneUser    == {u1}
OneRun     == {r1}
TwoRuns    == {r1, r2}
TwoClients == {c1, c2}
Positions  == {None, 2}
=============================================================================
