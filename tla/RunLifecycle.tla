---------------------------- MODULE RunLifecycle ----------------------------
(***************************************************************************)
(* What the orchestrator promises its clients, with no queue index, lease,  *)
(* store or event loop in it: runs wait in their user's line, the head of   *)
(* the line is granted the lane when no other run of the user has it, a     *)
(* waiting run may be withdrawn, and a run that has ended stays ended.      *)
(* RunExecution implements it when the stores settle at once.               *)
(***************************************************************************)
EXTENDS Sequences, SequencesExt

CONSTANTS Users, Runs, UserOf

VARIABLES line,    \* [Users -> Seq(Runs)]: who waits, in order
          phase    \* [Runs -> {"new", "waiting", "active", "ended"}]

lifecycleVars == <<line, phase>>

Init ==
  /\ line = [u \in Users |-> << >>]
  /\ phase = [r \in Runs |-> "new"]

Submit(r) ==
  /\ phase[r] = "new"
  /\ phase' = [phase EXCEPT ![r] = "waiting"]
  /\ line' = [line EXCEPT ![UserOf[r]] = Append(@, r)]

Grant(u) ==
  /\ line[u] # << >>
  /\ \A r \in Runs : UserOf[r] = u => phase[r] # "active"
  /\ phase' = [phase EXCEPT ![Head(line[u])] = "active"]
  /\ line' = [line EXCEPT ![u] = Tail(@)]

Withdraw(r) ==
  /\ phase[r] = "waiting"
  /\ phase' = [phase EXCEPT ![r] = "ended"]
  /\ \E i \in DOMAIN line[UserOf[r]] :
       /\ line[UserOf[r]][i] = r
       /\ line' = [line EXCEPT ![UserOf[r]] = RemoveAt(@, i)]

Finish(r) ==
  /\ phase[r] = "active"
  /\ phase' = [phase EXCEPT ![r] = "ended"]
  /\ UNCHANGED line

Next ==
  \/ \E r \in Runs : Submit(r) \/ Withdraw(r) \/ Finish(r)
  \/ \E u \in Users : Grant(u)

Spec == Init /\ [][Next]_lifecycleVars

=============================================================================
