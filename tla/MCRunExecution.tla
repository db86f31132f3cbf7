--------------------------- MODULE MCRunExecution ---------------------------
(* Two users, of whom u1 has two runs in line; q1 and q2 are request slots.  *)
EXTENDS RunExecution

CONSTANTS u1, u2, r1, r2, r3, q1, q2

OneUser   == {u1}
TwoUsers  == {u1, u2}
TwoRuns   == {r1, r2}
ThreeRuns == {r1, r2, r3}
OneSlot   == {q1}
TwoSlots  == {q1, q2}

Callers      == Users \cup Requests
SharedLane   == [r \in Runs |-> u1]
TwoLanes     == [r \in Runs |-> IF r = r3 THEN u2 ELSE u1]
AbortReasons == {"timeout", "user_cancelled"}
PlainReason  == {"user_cancelled"}
=============================================================================
