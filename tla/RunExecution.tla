---------------------------- MODULE RunExecution ----------------------------
(***************************************************************************)
(* RunExecutionService of runtime/run-execution.service.ts on top of the    *)
(* manager: create and cancel requests, one queue processor per user, and   *)
(* what clients are told.  The processor of user u is thread u, a request   *)
(* slot q is thread q.  The provider, the sandbox, the pack files and the   *)
(* agent are outside: they answer, or fail, in callbacks of their own.      *)
(***************************************************************************)
EXTENDS RunManager

CONSTANTS Requests,      \* slots for the requests being served
          ClientReasons, \* what a cancel request may give as its reason
          MaxCancels     \* bound: cancel requests per run

ASSUME ExecutionAssumption ==
  /\ Tasks = Users \cup Requests
  /\ Users \cap Requests = {}
  /\ ClientReasons \subseteq Reasons
  /\ MaxCancels \in Nat

VARIABLES
  lane,            \* where processUserQueue / executeRun of each user is
  terminalEvents,  \* runs whose terminal event has been emitted
  events,          \* what was broadcast about each run, and "closed"
  agent,           \* the run's Agent: "none", "running", "aborted" but working
  listening,       \* runs whose abort listener is installed
  cancels          \* reasons given in the cancel requests so far, per run

clientVars == <<terminalEvents, events>>
execVars   == <<lane, clientVars, agent, listening, cancels>>
vars       == <<managerVars, execVars>>

TerminalKinds == {"run_completed", "run_failed", "run_cancelled",
                  "run_timed_out"}
EventKinds    == {"run_queued", "run_started", "closed"} \cup TerminalKinds
Stages == {"off", "acquiring", "provisioning", "starting", "loadingPack",
           "prompting", "checking", "completing", "catching", "failing",
           "crashed"}

\* The set of that name: users whose processUserQueue has not returned.
processingUsers == {u \in Users : lane[u].at # "off"}

-----------------------------------------------------------------------------
(* Events.                                                                   *)

Broadcast(r, kind) == events' = [events EXCEPT ![r] = Append(@, kind)]

\* Mutant of emitTerminalOnce: the set is filled and never consulted.
emitTerminalAgain(r, kind) ==
  Broadcast(r, kind) /\ terminalEvents' = terminalEvents \cup {r}

emitTerminalOnce(r, kind) ==
  IF r \in terminalEvents
    THEN UNCHANGED clientVars
    ELSE Broadcast(r, kind) /\ terminalEvents' = terminalEvents \cup {r}

\* emitTerminalOnce, closeRun and terminalEvents.delete in one segment.
Conclude(r, kind) ==
  /\ events' = [events EXCEPT
       ![r] = IF r \in terminalEvents THEN Append(@, "closed")
                                      ELSE @ \o <<kind, "closed">>]
  /\ terminalEvents' = terminalEvents \ {r}

-----------------------------------------------------------------------------
(* The processor's moves between its stages.                                 *)

AwaitOutside(u, stage) ==
  /\ lane' = [lane EXCEPT ![u].at = stage]
  /\ call' = [call EXCEPT ![u] = IdleFrame]

AwaitManager(u, stage, frame) ==
  /\ lane' = [lane EXCEPT ![u].at = stage]
  /\ call' = [call EXCEPT ![u] = frame]

\* Mutant of NextRun: a run is taken where the code loops over the queue.
NextRunStops(u) ==
  /\ lane' = [lane EXCEPT ![u] = [at |-> "off", run |-> None]]
  /\ call' = [call EXCEPT ![u] = IdleFrame]

\* executeRun returned: the loop asks for the next run in the same segment.
NextRun(u) ==
  /\ lane' = [lane EXCEPT ![u] = [at |-> "acquiring", run |-> None]]
  /\ call' = [call EXCEPT ![u] = AcquireFrame(u)]

\* executeRun's catch block up to its first await.
Catch(u) == AwaitManager(u, "catching", GetFrame(lane[u].run))

Resumes(u, stage, pc) == lane[u].at = stage /\ call[u].pc = pc

-----------------------------------------------------------------------------
(* Requests.                                                                 *)

RequestCreate(q, r) ==
  /\ MayBegin
  /\ BeginCreate(q, r)
  /\ UNCHANGED execVars

\* createRun, continued: run_queued, processUserQueue up to its first await,
\* and the answer to the client.
RunCreated(q) ==
  LET r == call[q].run
      u == UserOf[r] IN
  /\ call[q].op = "create" /\ call[q].pc = "done"
  /\ Broadcast(r, "run_queued")
  /\ IF u \in processingUsers
       THEN UNCHANGED lane /\ call' = [call EXCEPT ![q] = IdleFrame]
       ELSE /\ lane' = [lane EXCEPT ![u].at = "acquiring"]
            /\ call' = [call EXCEPT ![q] = IdleFrame, ![u] = AcquireFrame(u)]
  /\ UNCHANGED <<storeVars, runs, terminalEvents, agent, listening, cancels>>

\* A client can cancel a run once it was told the run's id.  The getRun before
\* it checks the owner, which never changes, and touches nothing.
RequestCancel(q, r, reason) ==
  /\ MayBegin
  /\ "run_queued" \in ToSet(events[r])
  /\ Len(cancels[r]) < MaxCancels
  /\ cancels' = [cancels EXCEPT ![r] = Append(@, reason)]
  /\ Begin(q, SettleFrame("cancel", r, reason))
  /\ UNCHANGED <<storeVars, runs, lane, clientVars, agent, listening>>

\* Mutant of CancelReturns: run_cancelled whatever state the run came back in.
CancelReturnsUnchecked(q) ==
  /\ call[q].op = "cancel" /\ call[q].pc \in {"done", "threw"}
  /\ emitTerminalOnce(call[q].run, "run_cancelled")
  /\ call' = [call EXCEPT ![q] = IdleFrame]
  /\ UNCHANGED <<storeVars, runs, lane, agent, listening, cancels>>

CancelReturns(q) ==
  /\ call[q].op = "cancel" /\ call[q].pc \in {"done", "threw"}
  /\ IF call[q].pc = "done" /\ call[q].seen.state = "CANCELLED"
       THEN emitTerminalOnce(call[q].run, "run_cancelled")
       ELSE UNCHANGED clientVars
  /\ call' = [call EXCEPT ![q] = IdleFrame]
  /\ UNCHANGED <<storeVars, runs, lane, agent, listening, cancels>>

-----------------------------------------------------------------------------
(* processUserQueue and executeRun.                                          *)

Acquired(u) ==
  LET r == call[u].run IN
  /\ Resumes(u, "acquiring", "done")
  /\ lane' = [lane EXCEPT ![u] =
                IF r = None THEN [at |-> "off", run |-> None]
                            ELSE [at |-> "provisioning", run |-> r]]
  /\ call' = [call EXCEPT ![u] = IdleFrame]
  /\ UNCHANGED <<storeVars, runs, clientVars, agent, listening, cancels>>

\* checkHealth, the import and getOrCreateWorkspace answer, or one fails.
Provisioned(u) ==
  /\ MayBegin
  /\ lane[u].at = "provisioning"
  /\ \/ AwaitManager(u, "starting", StartFrame(lane[u].run))
     \/ Catch(u)
  /\ UNCHANGED <<storeVars, runs, clientVars, agent, listening, cancels>>

Started(u) ==
  LET r == lane[u].run IN
  /\ \/ /\ Resumes(u, "starting", "done")
        /\ Broadcast(r, "run_started")
        /\ AwaitOutside(u, "loadingPack")
     \/ /\ Resumes(u, "starting", "threw")
        /\ Catch(u)
        /\ UNCHANGED events
  /\ UNCHANGED <<storeVars, runs, terminalEvents, agent, listening, cancels>>

\* packLoader.load answers, or it or the agent's construction fails.  The
\* listener is installed without a look at signal.aborted, and the agent runs.
PackLoaded(u) ==
  LET r == lane[u].run IN
  /\ MayBegin
  /\ lane[u].at = "loadingPack"
  /\ \/ /\ AwaitOutside(u, "prompting")
        /\ listening' = listening \cup {r}
        /\ agent' = [agent EXCEPT ![r] = "running"]
     \/ Catch(u) /\ UNCHANGED <<listening, agent>>
  /\ UNCHANGED <<storeVars, runs, clientVars, cancels>>

\* agent.prompt resolves, finished or aborted, or rejects.
AgentSettles(u) ==
  LET r == lane[u].run IN
  /\ MayBegin
  /\ lane[u].at = "prompting"
  /\ agent' = [agent EXCEPT ![r] = "none"]
  /\ AwaitManager(u, "checking", GetFrame(r)) \/ Catch(u)
  /\ UNCHANGED <<storeVars, runs, clientVars, listening, cancels>>

Checked(u) ==
  LET r == lane[u].run IN
  /\ Resumes(u, "checking", "done")
  /\ IF call[u].seen.state \in {"CANCELLED", "TIMED_OUT"}
       THEN /\ Broadcast(r, "closed")
            /\ terminalEvents' = terminalEvents \ {r}
            /\ NextRun(u)
       ELSE /\ AwaitManager(u, "completing", SettleFrame("complete", r, None))
            /\ UNCHANGED clientVars
  /\ UNCHANGED <<storeVars, runs, agent, listening, cancels>>

Completed(u) ==
  /\ \/ /\ Resumes(u, "completing", "done")
        /\ Conclude(lane[u].run, "run_completed")
        /\ NextRun(u)
     \/ /\ Resumes(u, "completing", "threw")
        /\ Catch(u)
        /\ UNCHANGED clientVars
  /\ UNCHANGED <<storeVars, runs, agent, listening, cancels>>

\* Mutants of Caught: the run is forgotten in any state, or failed in any.
CaughtForgets(u) ==
  /\ Resumes(u, "catching", "done")
  /\ terminalEvents' = terminalEvents \ {lane[u].run}
  /\ NextRun(u)
  /\ UNCHANGED <<storeVars, runs, events, agent, listening, cancels>>

CaughtAlwaysFails(u) ==
  /\ Resumes(u, "catching", "done")
  /\ AwaitManager(u, "failing", SettleFrame("fail", lane[u].run, None))
  /\ UNCHANGED <<storeVars, runs, clientVars, agent, listening, cancels>>

\* In the catch block: a cancelled or timed out run is only forgotten.
Caught(u) ==
  LET r == lane[u].run IN
  /\ Resumes(u, "catching", "done")
  /\ IF call[u].seen.state \in {"CANCELLED", "TIMED_OUT"}
       THEN /\ terminalEvents' = terminalEvents \ {r}
            /\ NextRun(u)
            /\ UNCHANGED events
       ELSE /\ AwaitManager(u, "failing", SettleFrame("fail", r, None))
            /\ UNCHANGED clientVars
  /\ UNCHANGED <<storeVars, runs, agent, listening, cancels>>

\* A failRun that throws escapes the catch block and, through the discarded
\* promise of processUserQueue, the service: the process exits.
Failed(u) ==
  /\ \/ /\ Resumes(u, "failing", "done")
        /\ Conclude(lane[u].run, "run_failed")
        /\ NextRun(u)
     \/ /\ Resumes(u, "failing", "threw")
        /\ AwaitOutside(u, "crashed")
        /\ UNCHANGED clientVars
  /\ UNCHANGED <<storeVars, runs, agent, listening, cancels>>

-----------------------------------------------------------------------------
(* Steps inside the manager.  An abort runs the installed listener.          *)

Signal(t) ==
  LET r == call[t].run IN
  /\ SignalStep(t)
  /\ IF call[t].op \in {"cancel", "timeout"} /\ Aborts(r) /\ r \in listening
       THEN /\ emitTerminalOnce(r, IF call[t].reason = "timeout"
                                     THEN "run_timed_out" ELSE "run_cancelled")
            /\ agent' = [agent EXCEPT ![r] =
                           IF @ = "running" THEN "aborted" ELSE @]
       ELSE UNCHANGED <<clientVars, agent>>
  /\ UNCHANGED <<lane, listening, cancels>>

ManagerStep(t) ==
  \/ Signal(t)
  \/ PlainStep(t) /\ UNCHANGED execVars

Timer(r) == (TimerFires(r) \/ TimerReturns(r)) /\ UNCHANGED execVars

Clock(u) == LeaseExpires(u) /\ UNCHANGED execVars

-----------------------------------------------------------------------------
Init ==
  /\ ManagerInit
  /\ lane = [u \in Users |-> [at |-> "off", run |-> None]]
  /\ terminalEvents = {}
  /\ events = [r \in Runs |-> << >>]
  /\ agent = [r \in Runs |-> "none"]
  /\ listening = {}
  /\ cancels = [r \in Runs |-> << >>]

RequestStep(q) == RunCreated(q) \/ CancelReturns(q)

LaneStep(u) ==
  \/ Acquired(u) \/ Started(u) \/ Checked(u)
  \/ Completed(u) \/ Caught(u) \/ Failed(u)

\* What is awaited from outside the process.
OutsideAnswers(u) == Provisioned(u) \/ PackLoaded(u) \/ AgentSettles(u)

\* All requests of the bounded workload have been served.
AllServed ==
  /\ Settled
  /\ processingUsers = {}
  /\ \A r \in Runs : isTerminalState(runs[r].state)
  /\ UNCHANGED vars

Next ==
  \/ \E q \in Requests, r \in Runs : RequestCreate(q, r)
  \/ \E q \in Requests, r \in Runs, reason \in ClientReasons :
       RequestCancel(q, r, reason)
  \/ \E q \in Requests : RequestStep(q)
  \/ \E u \in Users : LaneStep(u) \/ OutsideAnswers(u) \/ Clock(u)
  \/ \E t \in Threads : ManagerStep(t)
  \/ \E r \in Runs : Timer(r)
  \/ AllServed

Spec == Init /\ [][Next]_vars

\* The event loop runs every continuation that is ready, and whatever is
\* awaited from outside answers or fails at last.  Clients, timers and leases
\* owe nothing.
Fairness ==
  /\ \A t \in Threads : WF_vars(ManagerStep(t))
  /\ \A q \in Requests : WF_vars(RequestStep(q))
  /\ \A u \in Users : WF_vars(LaneStep(u)) /\ WF_vars(OutsideAnswers(u))
  /\ \A r \in Runs : WF_vars(TimerReturns(r) /\ UNCHANGED execVars)

FairSpec == Spec /\ Fairness

-----------------------------------------------------------------------------
\* Type invariant of the service's own state.
ExecutionTypeOK ==
  /\ ManagerTypeOK
  /\ lane \in [Users -> [at : Stages, run : Runs \cup {None}]]
  /\ terminalEvents \subseteq Runs
  /\ events \in [Runs -> Seq(EventKinds)]
  /\ agent \in [Runs -> {"none", "running", "aborted"}]
  /\ listening \subseteq Runs
  /\ cancels \in [Runs -> Seq(ClientReasons)]

Told(r, kind) == kind \in ToSet(events[r])

\* Between callbacks, a client that was told how a run ended was told the
\* truth: the terminal event names the state the run is in, although the
\* abort listener emits before the state is written.  The one exception is a
\* run cancelled by a client that gave "timeout" as its reason: the listener
\* takes its word, and run_timed_out is told of a CANCELLED run.
EndsAsAnnounced ==
  Settled => \A r \in Runs :
    /\ Told(r, "run_completed") => runs[r].state = "COMPLETED"
    /\ Told(r, "run_failed")    => runs[r].state = "FAILED"
    /\ Told(r, "run_cancelled") => runs[r].state = "CANCELLED"
    /\ Told(r, "run_timed_out") =>
         \/ runs[r].state = "TIMED_OUT"
         \/ runs[r].state = "CANCELLED" /\ "timeout" \in ToSet(cancels[r])

\* A client sees one story: run_queued comes first, run_started at most once
\* and only next to it, and one terminal event.  After another only
\* run_cancelled comes, for a run that was cancelled again: the second request
\* finds the run CANCELLED and, once its processor has forgotten it, no trace
\* of the event in terminalEvents.
EventsInOrder ==
  \A r \in Runs : \A i, j \in DOMAIN events[r] :
    /\ events[r][i] = "run_queued" <=> i = 1
    /\ events[r][i] = "run_started" => i = 2
    /\ i < j /\ events[r][i] \in TerminalKinds /\ events[r][j] \in TerminalKinds
         => events[r][j] = "run_cancelled" /\ Len(cancels[r]) > 1

\* Nothing the service starts without awaiting it ever rejects: not the timeout
\* callback, not processUserQueue out of executeRun's catch block.
NoUnhandledRejection ==
  /\ TimeoutsNeverReject
  /\ \A u \in Users : lane[u].at # "crashed"

\* No lost wake-up: between callbacks a user with a QUEUED run has a processor
\* at work, though createRun starts none while one is still winding down.
QueuedRunIsServed ==
  Settled => \A r \in Runs :
    runs[r].state = "QUEUED" => UserOf[r] \in processingUsers

\* No run is executed twice, however long the stores take.
StartedOnce ==
  \A r \in Runs : \A i, j \in DOMAIN events[r] :
    events[r][i] = "run_started" /\ events[r][j] = "run_started" => i = j

\* Every run that is accepted comes to an end, with cancel and timeout racing
\* its execution and its lane shared with others.
EveryRunEnds ==
  \A r \in Runs :
    runs[r].state = "QUEUED" ~> isTerminalState(runs[r].state)

(* The lifecycle the service implements: a run waits while it is in the      *)
(* queue, is active from its removal by acquireNextRun, and has ended from   *)
(* its removal by cancelRun or its terminal state on.                        *)

InHand(r, op, pcs) ==
  \E t \in Threads : call[t].run = r /\ call[t].op = op /\ call[t].pc \in pcs

Phase(r) ==
  CASE r \in ToSet(queues[UserOf[r]])             -> "waiting"
    [] isActiveState(runs[r].state)               -> "active"
    [] isTerminalState(runs[r].state)             -> "ended"
    [] runs[r].state = "QUEUED"
         /\ InHand(r, "acquire", {"markLeased"})  -> "active"
    [] runs[r].state = "QUEUED"
         /\ InHand(r, "cancel", {"signal", "write"}) -> "ended"
    [] OTHER                                      -> "new"

Lifecycle == INSTANCE RunLifecycle
               WITH line <- queues, phase <- [r \in Runs |-> Phase(r)]

\* The service with its lanes, leases, timers and retries of every kind does
\* nothing but serve each user's line in order, one run at a time, each once.
ImplementsLifecycle == Lifecycle!Spec

(* What the documents say, and the code does not do.                         *)

\* docs/specs/run-orchestration.md: cancelling or timing out a run aborts its
\* agent loop.
AbortReachesAgent ==
  Settled => \A r \in Runs :
    runs[r].state \in {"CANCELLED", "TIMED_OUT"} => agent[r] # "running"

\* docs/api/sse-schema.md: run_timed_out is emitted when a run exceeds
\* maxDurationMs, so a run of which it was told should be TIMED_OUT.  This does not
\* hold: a cancel request may give "timeout" as its reason.
TimeoutMeansTimeout ==
  Settled => \A r \in Runs :
    Told(r, "run_timed_out") => runs[r].state = "TIMED_OUT"

=============================================================================
