------------------------------ MODULE RunStates ------------------------------
(***************************************************************************)
(* The run state machine of types/run.ts, and the names every other module *)
(* shares.  A run is identified by its id (Runs) and belongs to one owner   *)
(* lane (Users, the ownerKey that Run.userId holds).                        *)
(***************************************************************************)
EXTENDS Naturals, FiniteSets

CONSTANTS Users,    \* owner lanes: the values of Run.userId
          Runs,     \* run ids, each generated once by createRun
          None      \* JavaScript's null / undefined / missing Map entry

\* A missing value is never mistaken for a user or a run.
ASSUME NoneAssumption == None \notin Users \cup Runs

RunState == {"QUEUED", "LEASED", "RUNNING",
             "COMPLETED", "FAILED", "CANCELLED", "TIMED_OUT"}

VALID_STATE_TRANSITIONS ==
  [QUEUED    |-> {"LEASED", "CANCELLED"},
   LEASED    |-> {"RUNNING", "FAILED", "CANCELLED"},
   RUNNING   |-> {"COMPLETED", "FAILED", "CANCELLED", "TIMED_OUT"},
   COMPLETED |-> {},
   FAILED    |-> {},
   CANCELLED |-> {},
   TIMED_OUT |-> {}]

isValidStateTransition(from, to) == to \in VALID_STATE_TRANSITIONS[from]

isTerminalState(s) == s \in {"COMPLETED", "FAILED", "CANCELLED", "TIMED_OUT"}

isActiveState(s) == s \in {"LEASED", "RUNNING"}

=============================================================================
