---------------------------- MODULE MCWorkspaces ----------------------------
(* Two users and two sandboxes: each user has one, or one user gets a second  *)
(* after the first is gone.  Two destructions are under way at most, of one   *)
(* sandbox or of both.                                                       *)
EXTENDS Workspaces, TLC

CONSTANTS u1, u2, w1, w2, d1, d2

MCUsers == {u1, u2}
MCSandboxes == {w1, w2}
MCDestroyers == {d1, d2}

\* No user, sandbox or destroyer is told from another.
Alike ==
  Permutations(MCUsers) \cup Permutations(MCSandboxes) \cup Permutations(MCDestroyers)

\* Bound: destructions under way at once.
TwoUnderWay ==
  Cardinality({<<d, id>> \in Destroyers \X Sandboxes : destroying[d][id].at # "no"}) <= 2
=============================================================================
