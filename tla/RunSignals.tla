----------------------------- MODULE RunSignals -----------------------------
(***************************************************************************)
(* The two synchronous per-run registries a run is stopped through: the     *)
(* cancellation contexts of services/cancellation.ts and the timers of      *)
(* services/timeout.ts.  Neither awaits anything, so each operation is one  *)
(* step of the event loop together with the code that calls it.             *)
(***************************************************************************)
EXTENDS RunStates

CONSTANT Reasons   \* abort reasons: "timeout" and what cancel requests carry

ASSUME ReasonsAssumption ==
  "timeout" \in Reasons /\ Reasons \cap {"absent", "open"} = {}

VARIABLES contexts,   \* run -> "absent", "open", or the reason it was aborted
          timers      \* runs whose timeout is scheduled

signalVars == <<contexts, timers>>

\* create() discards an old context, aborted or not.
CreateContext(r) == contexts' = [contexts EXCEPT ![r] = "open"]

RemoveContext(r) == contexts' = [contexts EXCEPT ![r] = "absent"]

\* cancel() aborts only an open context: a missing one is ignored, and an
\* aborted one keeps its first reason.  The abort listeners run inside it.
Aborts(r) == contexts[r] = "open"

CancelContext(r, reason) ==
  contexts' = [contexts EXCEPT ![r] = IF Aborts(r) THEN reason ELSE @]

ScheduleTimeout(r) == timers' = timers \cup {r}

ClearTimeout(r) == timers' = timers \ {r}

\* setTimeout's callback: the entry is deleted before onTimeout is called.
TimeoutDue(r) == r \in timers /\ ClearTimeout(r)

SignalsInit ==
  /\ contexts = [r \in Runs |-> "absent"]
  /\ timers = {}

SignalsTypeOK ==
  /\ contexts \in [Runs -> {"absent", "open"} \cup Reasons]
  /\ timers \subseteq Runs

=============================================================================
