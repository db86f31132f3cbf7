------------------------------ MODULE MCStores ------------------------------
(* The queue and the lease manager side by side, each under any callers:     *)
(* three runs of two users, and enough leases that tokens outlive theirs.    *)
EXTENDS RunQueue, LeaseManager

CONSTANTS u1, u2, r1, r2, r3

MCUsers == {u1, u2}
MCRuns  == {r1, r2, r3}

StoresInit == QueueInit /\ LeaseInit

StoresNext ==
  \/ QueueNext /\ UNCHANGED leaseVars
  \/ LeaseNext /\ UNCHANGED queueVars

StoresSpec == StoresInit /\ [][StoresNext]_<<queueVars, leaseVars>>
=============================================================================
