---------------------------- MODULE MCRunManager ----------------------------
(* Runs r1 and r2 share the lane of u1; r3 is the run of another user.      *)
EXTENDS RunManager

CONSTANTS u1, u2, r1, r2, r3, t1, t2

OneUser   == {u1}
TwoUsers  == {u1, u2}
TwoRuns   == {r1, r2}
ThreeRuns == {r1, r2, r3}
OneTask   == {t1}
TwoTasks  == {t1, t2}

SharedLane   == [r \in Runs |-> u1]
TwoLanes     == [r \in Runs |-> IF r = r3 THEN u2 ELSE u1]
OneReason    == {"timeout"}
AbortReasons == {"timeout", "user_cancelled"}
=============================================================================
