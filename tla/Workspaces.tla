----------------------------- MODULE Workspaces -----------------------------
(***************************************************************************)
(* The workspaces of sandbox/: the manager with its provisioning strategy,   *)
(* the adapter with its cache of sandbox handles, and Daytona, which is      *)
(* outside.  A lookup is asked, answered by Daytona and then read by the     *)
(* code, three moments between which other calls run.  A user's runs are     *)
(* served one after the other (processUserQueue), so a user has one call at  *)
(* a time; destroyWorkspace may be called for any workspace at any time, and  *)
(* again before the first call has ended.                                    *)
(***************************************************************************)
EXTENDS Naturals, FiniteSets

CONSTANTS Users,      \* owner keys
          Sandboxes,  \* bound: the sandboxes Daytona ever creates
          Destroyers, \* bound: the destructions of one sandbox under way at once
          None

ASSUME WorkspaceAssumption == None \notin Users \cup Sandboxes

VARIABLES
  strategy,   \* fixed at start: the configured strategy
  owner,      \* Daytona: MINERVA_USER_ID of each sandbox, None before it exists
  alive,      \* Daytona: the sandboxes that exist
  workspaces, \* the manager's Map: the userId of each workspace it knows
  reusable,   \* the Map of PerUserStrategy
  sandboxes,  \* the adapter's Map: ids it holds a handle for
  lane,       \* the call made by each user's run, and what Daytona answered
  destroying, \* destroyWorkspace of each id: where each call of it is, and
              \* whether the adapter or destroyAllWorkspaces made it
  handed,     \* history: workspaces given to a run so far, under per_run
  denied      \* history: existing sandboxes whose existence Daytona denied, in
              \* answer to their creation or to a lookup that decides on it

daytonaVars == <<owner, alive>>
mapVars     == <<workspaces, reusable, sandboxes>>
history     == <<handed, denied>>
vars        == <<strategy, daytonaVars, mapVars, lane, destroying, history>>

Strategies == {"per_run", "per_user"}
\* Pending calls of a lane, and the lane's states in between.
Asking == {"verifying", "creating", "caching", "fetching"}
NoCall == [at |-> "idle", id |-> None, answer |-> "none", dead |-> None]
NoDestroy == [at |-> "no", by |-> "nobody"]

-----------------------------------------------------------------------------
(* Daytona.                                                                  *)

\* A lookup answers null when there is no sandbox, and to any error.
getWorkspace(id, answer) == answer = "found" => id \in alive

\* The answer denies that a sandbox exists which does.
Denying(id, answer) ==
  denied' = IF answer = "missing" THEN denied \cup ({id} \cap alive) ELSE denied

Asks(u, at, id) ==
  lane' = [lane EXCEPT ![u] =
             [at |-> at, id |-> id, answer |-> "none", dead |-> @.dead]]

Answers(u, answer, id) ==
  lane' = [lane EXCEPT ![u] =
             [at |-> @.at, id |-> id, answer |-> answer, dead |-> @.dead]]

LookupAnswered(u) ==
  /\ lane[u].at \in Asking \ {"creating"} /\ lane[u].answer = "none"
  /\ \E answer \in {"found", "missing"} :
       /\ getWorkspace(lane[u].id, answer)
       /\ Answers(u, answer, lane[u].id)
       /\ IF lane[u].at = "verifying" THEN Denying(lane[u].id, answer)
                                      ELSE UNCHANGED denied
  /\ UNCHANGED <<strategy, daytonaVars, mapVars, destroying, handed>>

Makes(u, id) ==
  /\ owner[id] = None
  /\ owner' = [owner EXCEPT ![id] = u]
  /\ alive' = alive \cup {id}

\* The error fails the run with WorkspaceCreationError.
CreationFails(u) == lane' = [lane EXCEPT ![u] = NoCall]

\* createWorkspace: a new sandbox for the user; or an error, and no sandbox; or
\* an error after Daytona made it (a start that took too long, a lost answer).
CreateAnswered(u) ==
  /\ lane[u].at = "creating" /\ lane[u].answer = "none"
  /\ \/ \E id \in Sandboxes :
          Makes(u, id) /\ Answers(u, "found", id) /\ UNCHANGED denied
     \/ CreationFails(u) /\ UNCHANGED <<daytonaVars, denied>>
     \/ \E id \in Sandboxes :
          Makes(u, id) /\ CreationFails(u) /\ denied' = denied \cup {id}
  /\ UNCHANGED <<strategy, mapVars, destroying, handed>>

\* A sandbox stops being there: idle too long, or lost.
Vanish(id) ==
  /\ alive' = alive \ {id} /\ id \in alive
  /\ UNCHANGED <<strategy, owner, mapVars, lane, destroying, history>>

-----------------------------------------------------------------------------
(* A run asks for its workspace: adapter, manager and strategy.              *)

Answered(u, at, answer) == lane[u].at = at /\ lane[u].answer = answer

\* Mutant of Track: every strategy remembers.
TrackAlways(u, id) ==
  /\ workspaces' = [workspaces EXCEPT ![id] = u]
  /\ reusable' = [reusable EXCEPT ![u] = id]

\* workspaces.set and strategy.markUsed; per_run remembers nothing.
Track(u, id) ==
  /\ workspaces' = [workspaces EXCEPT ![id] = u]
  /\ reusable' = IF strategy = "per_user"
                   THEN [reusable EXCEPT ![u] = id] ELSE reusable

\* Mutant of shouldReuse: anybody's workspace is as good.
shouldReuseAny(u) ==
  IF \E v \in Users : reusable[v] # None
    THEN reusable[CHOOSE v \in Users : reusable[v] # None] ELSE None

shouldReuse(u) == reusable[u]

\* getOrCreateWorkspace up to its first lookup.  dead is history: the workspace
\* to reuse, if it was gone before the call.
getOrCreateWorkspace(u) ==
  LET id == shouldReuse(u) IN
  /\ lane[u].at = "idle"
  /\ lane' = [lane EXCEPT ![u] =
       [at     |-> IF id = None THEN "creating" ELSE "verifying",
        id     |-> id,
        answer |-> "none",
        dead   |-> IF id \in alive THEN None ELSE id]]
  /\ UNCHANGED <<strategy, daytonaVars, mapVars, destroying, history>>

\* Mutant of Verified: whatever the lookup said, the workspace is reused.
VerifiedTrusting(u) ==
  /\ lane[u].at = "verifying" /\ lane[u].answer # "none"
  /\ Track(u, lane[u].id)
  /\ Asks(u, "caching", lane[u].id)
  /\ UNCHANGED <<strategy, daytonaVars, sandboxes, destroying, history>>

\* The workspace to reuse is there, or it is replaced.
Verified(u) ==
  /\ \/ /\ Answered(u, "verifying", "found")
        /\ Track(u, lane[u].id)
        /\ Asks(u, "caching", lane[u].id)
     \/ /\ Answered(u, "verifying", "missing")
        /\ Asks(u, "creating", None)
        /\ UNCHANGED <<workspaces, reusable>>
  /\ UNCHANGED <<strategy, daytonaVars, sandboxes, destroying, history>>

\* Mutant of Created: the strategy is told, the manager's Map is not.
CreatedUntracked(u) ==
  /\ Answered(u, "creating", "found")
  /\ reusable' = IF strategy = "per_user"
                   THEN [reusable EXCEPT ![u] = lane[u].id] ELSE reusable
  /\ Asks(u, "caching", lane[u].id)
  /\ UNCHANGED <<strategy, daytonaVars, workspaces, sandboxes, destroying, history>>

\* A new workspace is tracked.
Created(u) ==
  /\ Answered(u, "creating", "found")
  /\ Track(u, lane[u].id)
  /\ Asks(u, "caching", lane[u].id)
  /\ UNCHANGED <<strategy, daytonaVars, sandboxes, destroying, history>>

KeepHandle(u) ==
  sandboxes' = IF lane[u].answer = "found" THEN sandboxes \cup {lane[u].id}
                                           ELSE sandboxes

\* The adapter keeps a handle if there is one, and the run has its workspace.
Cached(u) ==
  /\ lane[u].at = "caching" /\ lane[u].answer # "none"
  /\ KeepHandle(u)
  /\ handed' = IF strategy = "per_run" THEN handed \cup {lane[u].id} ELSE handed
  /\ lane' = [lane EXCEPT ![u] = [NoCall EXCEPT !.at = "using", !.id = lane[u].id]]
  /\ UNCHANGED <<strategy, daytonaVars, workspaces, reusable, destroying, denied>>

\* getSandbox of a tool call: a cached handle is used as it is, without a look
\* at Daytona; otherwise it is fetched.
getSandbox(u) ==
  /\ lane[u].at = "using"
  /\ lane[u].id \notin sandboxes
  /\ Asks(u, "fetching", lane[u].id)
  /\ UNCHANGED <<strategy, daytonaVars, mapVars, destroying, history>>

\* Found, or WorkspaceNotFoundError for this tool call.
Fetched(u) ==
  /\ lane[u].at = "fetching" /\ lane[u].answer # "none"
  /\ KeepHandle(u)
  /\ lane' = [lane EXCEPT ![u].at = "using", ![u].answer = "none"]
  /\ UNCHANGED <<strategy, daytonaVars, workspaces, reusable, destroying, history>>

\* The run is over.  Nothing in src/ destroys its workspace.
RunEnds(u) ==
  /\ lane[u].at = "using"
  /\ lane' = [lane EXCEPT ![u] = NoCall]
  /\ UNCHANGED <<strategy, daytonaVars, mapVars, destroying, history>>

-----------------------------------------------------------------------------
(* destroyWorkspace.                                                         *)

Goes(d, id, at) ==
  destroying' = [destroying EXCEPT ![d][id] = [at |-> at, by |-> @.by]]

\* An unknown id is refused with WorkspaceNotFoundError.
destroyWorkspace(d, id) ==
  /\ workspaces[id] # None /\ destroying[d][id].at = "no"
  /\ destroying' = [destroying EXCEPT ![d][id] = [at |-> "finding", by |-> "adapter"]]
  /\ UNCHANGED <<strategy, daytonaVars, mapVars, lane, history>>

\* All the manager knows of, at once, without the adapter.
destroyAllWorkspaces(d) ==
  LET known == {id \in Sandboxes : workspaces[id] # None} IN
  /\ known # {} /\ \A id \in known : destroying[d][id].at = "no"
  /\ destroying' = [destroying EXCEPT ![d] = [id \in Sandboxes |->
       IF id \in known THEN [at |-> "finding", by |-> "manager"] ELSE @[id]]]
  /\ UNCHANGED <<strategy, daytonaVars, mapVars, lane, history>>

\* The adapter drops its handle whether or not the manager succeeded.
DropHandle(d, id) ==
  /\ sandboxes' = IF destroying[d][id].by = "adapter" THEN sandboxes \ {id}
                                                      ELSE sandboxes
  /\ destroying' = [destroying EXCEPT ![d][id] = NoDestroy]

\* workspaces.delete and strategy.markDestroyed.
Forget(id) ==
  /\ workspaces' = [workspaces EXCEPT ![id] = None]
  /\ reusable' = [u \in Users |-> IF reusable[u] = id THEN None ELSE reusable[u]]

\* Mutant of Removal: Daytona's refusal is taken for success as well.
RemovalForgetting(d, id) ==
  /\ destroying[d][id].at = "removing"
  /\ \/ alive' = alive \ {id}
     \/ UNCHANGED alive
  /\ Goes(d, id, "removed")
  /\ UNCHANGED <<strategy, owner, mapVars, lane, history>>

\* DaytonaClient.destroyWorkspace: nothing is removed when the lookup says null,
\* and the manager takes that for success.
DestroyLooked(d, id) ==
  /\ destroying[d][id].at = "finding"
  /\ \/ /\ getWorkspace(id, "found")
        /\ Goes(d, id, "removing")
        /\ UNCHANGED <<mapVars, denied>>
     \/ Forget(id) /\ DropHandle(d, id) /\ Denying(id, "missing")
  /\ UNCHANGED <<strategy, daytonaVars, lane, handed>>

\* Daytona removes the sandbox, or refuses, which the manager swallows.
Removal(d, id) ==
  /\ destroying[d][id].at = "removing"
  /\ \/ /\ alive' = alive \ {id}
        /\ Goes(d, id, "removed")
        /\ UNCHANGED sandboxes
     \/ DropHandle(d, id) /\ UNCHANGED alive
  /\ UNCHANGED <<strategy, owner, workspaces, reusable, lane, history>>

Removed(d, id) ==
  /\ destroying[d][id].at = "removed"
  /\ Forget(id)
  /\ DropHandle(d, id)
  /\ UNCHANGED <<strategy, daytonaVars, lane, history>>

-----------------------------------------------------------------------------
\* One adapter and one manager per process, made on first use.
Init ==
  /\ strategy \in Strategies
  /\ owner = [id \in Sandboxes |-> None]
  /\ alive = {}
  /\ workspaces = [id \in Sandboxes |-> None]
  /\ reusable = [u \in Users |-> None]
  /\ sandboxes = {}
  /\ lane = [u \in Users |-> NoCall]
  /\ destroying = [d \in Destroyers |-> [id \in Sandboxes |-> NoDestroy]]
  /\ handed = {}
  /\ denied = {}

\* Daytona answers what a run asked.
DaytonaAnswers(u) == LookupAnswered(u) \/ CreateAnswered(u)

\* Continuations of a run's call.
Continues(u) == Verified(u) \/ Created(u) \/ Cached(u) \/ Fetched(u)

Destruction(d, id) == DestroyLooked(d, id) \/ Removal(d, id) \/ Removed(d, id)

Next ==
  \/ \E u \in Users :
       \/ getOrCreateWorkspace(u) \/ getSandbox(u) \/ RunEnds(u)
       \/ DaytonaAnswers(u) \/ Continues(u)
  \/ \E id \in Sandboxes : Vanish(id)
  \/ \E d \in Destroyers :
       \/ \E id \in Sandboxes : destroyWorkspace(d, id) \/ Destruction(d, id)
       \/ destroyAllWorkspaces(d)

Spec == Init /\ [][Next]_vars

-----------------------------------------------------------------------------
WorkspaceTypeOK ==
  /\ strategy \in Strategies
  /\ owner \in [Sandboxes -> Users \cup {None}]
  /\ alive \subseteq Sandboxes
  /\ workspaces \in [Sandboxes -> Users \cup {None}]
  /\ reusable \in [Users -> Sandboxes \cup {None}]
  /\ sandboxes \subseteq Sandboxes
  /\ handed \subseteq Sandboxes /\ denied \subseteq Sandboxes
  /\ lane \in [Users -> [at     : Asking \cup {"idle", "using"},
                         id     : Sandboxes \cup {None},
                         answer : {"none", "found", "missing"},
                         dead   : Sandboxes \cup {None}]]
  /\ \A u \in Users : lane[u].at \notin {"idle", "creating"} => lane[u].id # None
  /\ destroying \in [Destroyers -> [Sandboxes ->
                       [at : {"no", "finding", "removing", "removed"},
                        by : {"nobody", "adapter", "manager"}]]]

Holds(u) == lane[u].at \in {"caching", "fetching", "using"}

\* The three records of a workspace, Daytona's, the manager's and the
\* strategy's, name one user, and a run only ever works in a sandbox made for
\* its own user, whatever is created, lost or destroyed meanwhile.
OwnWorkspace ==
  /\ \A id \in Sandboxes : workspaces[id] \in {None, owner[id]}
  /\ \A u \in Users : reusable[u] # None => workspaces[reusable[u]] = u
  /\ \A u \in Users : Holds(u) => owner[lane[u].id] = u

\* A run is never given a workspace that was gone before it asked for one.
NotDeadOnArrival ==
  \A u \in Users :
    lane[u].at = "caching" /\ lane[u].dead # None => lane[u].id # lane[u].dead

\* Every sandbox that runs is known to the manager, or about to be, unless Daytona
\* denied it (a creation that failed although it made the sandbox, a lookup that
\* answered null for one that exists): the manager itself loses track of none,
\* whatever is created, reused and destroyed, singly or twice over or all at once,
\* and however Daytona refuses.
NothingForgotten ==
  \A id \in alive \ denied :
    \/ workspaces[id] # None
    \/ \E u \in Users : lane[u].at = "creating" /\ lane[u].id = id

\* Under per_user a user has one running sandbox at most, of those Daytona did
\* not deny.
OneLivePerUser ==
  strategy = "per_user" =>
    \A i, j \in alive \ denied : owner[i] = owner[j] => i = j

\* per_run gives every run a workspace no run was given before ("Clean workspace
\* for each run", docs/plans/orchestrator-v0/daytona-sandbox-adapter.md).
CleanPerRun ==
  [][\A u \in Users :
       strategy = "per_run" /\ lane[u].at = "caching" /\ lane'[u].at = "using"
         => lane[u].id \notin handed]_vars
=============================================================================
