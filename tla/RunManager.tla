----------------------------- MODULE RunManager -----------------------------
(***************************************************************************)
(* RunManager of services/run-manager.ts over its repository, the queue, the *)
(* lease manager and the two signal registries.  Its methods are async: a    *)
(* method is a frame of the thread that called it, and a step runs from one  *)
(* await to the next, ending with the store call whose promise is awaited.   *)
(* Threads are the callers (Tasks) and one timeout callback per run, named   *)
(* by the run.                                                              *)
(***************************************************************************)
EXTENDS RunQueue, LeaseManager, RunSignals

CONSTANTS
  UserOf,               \* the owner lane a run is created for
  Tasks,                \* callers of the manager's methods
  StoresSettleAtOnce,   \* TRUE: store promises are already resolved, as the
                        \* in-memory stores' are, and a callback's chain of
                        \* awaits runs out before the event loop takes the
                        \* next callback; FALSE: any store latency
  MaxInFlight,          \* bound: chains of awaits under way at once, if FALSE
  LeasesExpire          \* FALSE: leaseTtlMs exceeds every run's duration

ASSUME ManagerAssumption ==
  /\ UserOf \in [Runs -> Users]
  /\ Tasks \cap Runs = {}
  /\ StoresSettleAtOnce \in BOOLEAN
  /\ MaxInFlight \in Nat
  /\ LeasesExpire \in BOOLEAN

VARIABLES runs,   \* the repository: what is stored of each run
          call    \* the frame of the method each thread is in

storeVars   == <<queueVars, leaseVars, signalVars>>
managerVars == <<storeVars, runs, call>>

Threads == Tasks \cup Runs

\* What the repository keeps of a run; "NONE" is a run not created yet.
RunRecord == [state         : RunState \cup {"NONE"},
              leaseToken    : Tokens \cup {NoToken},
              queuePosition : Nat \cup {None}]
NoRun == [state |-> "NONE", leaseToken |-> NoToken, queuePosition |-> None]

\* A frame: the method, the step it will resume at, the run it is about, the
\* copy of the run its last getById returned, the token acquire was granted,
\* and the reason cancel was given.
Frame == [op     : {"none", "create", "acquire", "start", "cancel", "timeout",
                    "complete", "fail", "get"},
          pc     : {"idle", "enqueue", "setPosition", "lease", "dequeue",
                    "markLeased", "remove", "release", "signal", "write",
                    "reread", "begin", "done", "threw"},
          run    : Runs \cup {None},
          seen   : RunRecord,
          token  : Tokens \cup {NoToken},
          reason : Reasons \cup {None}]

IdleFrame == [op |-> "none", pc |-> "idle", run |-> None, seen |-> NoRun,
              token |-> NoToken, reason |-> None]

Idle(t) == call[t] = IdleFrame

\* No chain of awaits is under way.
Settled == \A t \in Threads : Idle(t)

\* A callback of the event loop (request, timer, answer from outside) may run.
MayBegin ==
  IF StoresSettleAtOnce
    THEN Settled
    ELSE Cardinality({t \in Threads : ~Idle(t)}) < MaxInFlight

Goto(t, pc) == call' = [call EXCEPT ![t].pc = pc]

\* The same, when the method has no more use for the copy it read.
Forget(t, pc) == call' = [call EXCEPT ![t].pc = pc, ![t].seen = NoRun]

-----------------------------------------------------------------------------
(* First segments: what a method does before its first await.  All but      *)
(* createRun only read a store, so they are the frame the call starts in.   *)

\* getRun
GetFrame(r) ==
  [IdleFrame EXCEPT !.op = "get", !.pc = "done", !.run = r, !.seen = runs[r]]

\* acquireNextRun: peek, and null for an empty queue.
AcquireFrame(u) ==
  IF Peek(u) = None
    THEN [IdleFrame EXCEPT !.op = "acquire", !.pc = "done"]
    ELSE [IdleFrame EXCEPT !.op = "acquire", !.pc = "lease", !.run = Peek(u)]

\* startRun: transitionState's getById.
StartFrame(r) ==
  [IdleFrame EXCEPT !.op = "start", !.pc = "write", !.run = r, !.seen = runs[r]]

\* Mutant of AfterRemove: the lease is never released.
NeverReleases(run) == IF run = NoRun THEN "release" ELSE "signal"

AfterRemove(run) == IF run.leaseToken # NoToken THEN "release" ELSE "signal"

\* Mutant of AfterRead: a queued run is cancelled where it stands.
AfterReadKeepingQueue(op, run) ==
  IF op \in {"cancel", "timeout"} /\ isTerminalState(run.state)
    THEN "done"
    ELSE AfterRemove(run)

\* cancelRun, timeoutRun, completeRun and failRun read the run first; the
\* first two return at once when it is terminal.
AfterRead(op, run) ==
  IF op \in {"cancel", "timeout"} /\ isTerminalState(run.state) THEN "done"
  ELSE IF op = "cancel" /\ run.state = "QUEUED" THEN "remove"
  ELSE AfterRemove(run)

SettleFrame(op, r, reason) ==
  [IdleFrame EXCEPT !.op = op, !.pc = AfterRead(op, runs[r]), !.run = r,
                    !.seen = runs[r], !.reason = reason]

Begin(t, frame) ==
  /\ Idle(t)
  /\ call' = [call EXCEPT ![t] = frame]

\* Mutant of BeginCreate: an id that is generated twice.
BeginCreateAgain(t, r) ==
  /\ runs' = [runs EXCEPT ![r].state = "QUEUED"]
  /\ Begin(t, [IdleFrame EXCEPT !.op = "create", !.pc = "enqueue", !.run = r])
  /\ UNCHANGED storeVars

\* createRun generates the id and stores the run.
BeginCreate(t, r) ==
  /\ runs[r] = NoRun
  /\ runs' = [runs EXCEPT ![r].state = "QUEUED"]
  /\ Begin(t, [IdleFrame EXCEPT !.op = "create", !.pc = "enqueue", !.run = r])
  /\ UNCHANGED storeVars

-----------------------------------------------------------------------------
(* createRun, continued.                                                     *)

\* Mutant of EnqueueRun: the position is computed from the length before.
EnqueueRunOffByOne(t) ==
  LET r == call[t].run
      u == UserOf[r] IN
  /\ call[t].pc = "enqueue"
  /\ Enqueue(r, u)
  /\ call' = [call EXCEPT ![t].pc = "setPosition",
                          ![t].seen = [NoRun EXCEPT !.state = "QUEUED",
                                         !.queuePosition = Len(queues[u]) - 1]]
  /\ UNCHANGED <<leaseVars, signalVars, runs>>

EnqueueRun(t) ==
  LET r == call[t].run
      u == UserOf[r] IN
  /\ call[t].pc = "enqueue"
  /\ Enqueue(r, u)
  /\ call' = [call EXCEPT ![t].pc = "setPosition",
                          ![t].seen = [NoRun EXCEPT !.state = "QUEUED",
                                         !.queuePosition = Len(queues[u])]]
  /\ UNCHANGED <<leaseVars, signalVars, runs>>

SetQueuePosition(t) ==
  /\ call[t].pc = "setPosition"
  /\ runs' = [runs EXCEPT
                ![call[t].run].queuePosition = call[t].seen.queuePosition]
  /\ Goto(t, "done")
  /\ UNCHANGED storeVars

(* acquireNextRun, continued.                                                *)

LeaseNextRun(t) ==
  LET r == call[t].run
      u == UserOf[r] IN
  /\ call[t].pc = "lease"
  /\ Acquire(u, r)
  /\ call' = [call EXCEPT ![t] =
       IF CanAcquire(u) THEN [@ EXCEPT !.pc = "dequeue", !.token = NextToken]
                        ELSE [@ EXCEPT !.pc = "done", !.run = None]]
  /\ UNCHANGED <<queueVars, signalVars, runs>>

\* Whatever heads the queue by now is shifted out, be it the peeked run or not.
DequeueNext(t) ==
  /\ call[t].pc = "dequeue"
  /\ Dequeue(UserOf[call[t].run])
  /\ Goto(t, "markLeased")
  /\ UNCHANGED <<leaseVars, signalVars, runs>>

\* The update does not look at the state it overwrites.  The getById after it
\* only serves fields that never change.
MarkLeased(t) ==
  /\ call[t].pc = "markLeased"
  /\ runs' = [runs EXCEPT ![call[t].run] =
                [state |-> "LEASED", leaseToken |-> call[t].token,
                 queuePosition |-> None]]
  /\ Goto(t, "done")
  /\ UNCHANGED storeVars

-----------------------------------------------------------------------------
(* cancelRun, timeoutRun, completeRun and failRun, continued.                *)

RemoveQueued(t) ==
  /\ call[t].pc = "remove"
  /\ RemoveFromQueue(call[t].run)
  /\ Goto(t, AfterRemove(call[t].seen))
  /\ UNCHANGED <<leaseVars, signalVars, runs>>

\* Mutant of ReleaseLease: the user's lease is released, whoever holds it.
ReleaseUsersLease(t) ==
  LET u == UserOf[call[t].run] IN
  /\ call[t].pc = "release"
  /\ IF leases[u] # None THEN Drop(u) ELSE UNCHANGED leaseVars
  /\ Forget(t, "signal")
  /\ UNCHANGED <<queueVars, signalVars, runs>>

ReleaseLease(t) ==
  /\ call[t].pc = "release"
  /\ Release(call[t].seen.leaseToken)
  /\ Forget(t, "signal")
  /\ UNCHANGED <<queueVars, signalVars, runs>>

\* cancel and timeout abort the context, complete and fail discard it; the
\* same segment calls transitionState, whose first act is getById.
SignalStep(t) ==
  LET r == call[t].run IN
  /\ call[t].pc = "signal"
  /\ IF call[t].op \in {"cancel", "timeout"}
       THEN CancelContext(r, call[t].reason)
       ELSE RemoveContext(r)
  /\ call' = [call EXCEPT ![t].pc = "write", ![t].seen = runs[r],
                          ![t].reason = None]
  /\ UNCHANGED <<queueVars, leaseVars, timers, runs>>

(* transitionState, from its validity check on, for all five of its callers. *)

Target(op) ==
  CASE op = "start"    -> "RUNNING"
    [] op = "cancel"   -> "CANCELLED"
    [] op = "timeout"  -> "TIMED_OUT"
    [] op = "complete" -> "COMPLETED"
    [] op = "fail"     -> "FAILED"

\* Mutants of WriteTransition: no validity check; the timer is left running.
WriteUnchecked(t) ==
  LET r  == call[t].run
      to == Target(call[t].op) IN
  /\ call[t].pc = "write"
  /\ runs' = [runs EXCEPT ![r].state = to]
  /\ IF isTerminalState(to) THEN ClearTimeout(r) ELSE UNCHANGED timers
  /\ Forget(t, "reread")
  /\ UNCHANGED <<queueVars, leaseVars, contexts>>

WriteLeavingTimer(t) ==
  LET to == Target(call[t].op) IN
  /\ call[t].pc = "write"
  /\ IF ~isValidStateTransition(call[t].seen.state, to)
       THEN Forget(t, "threw") /\ UNCHANGED runs
       ELSE /\ runs' = [runs EXCEPT ![call[t].run].state = to]
            /\ Forget(t, "reread")
  /\ UNCHANGED <<queueVars, leaseVars, signalVars>>

\* The check is made on the copy read one await ago, the write on the store.
WriteTransition(t) ==
  LET r  == call[t].run
      to == Target(call[t].op) IN
  /\ call[t].pc = "write"
  /\ IF ~isValidStateTransition(call[t].seen.state, to)
       THEN Forget(t, "threw") /\ UNCHANGED <<runs, timers>>
       ELSE /\ runs' = [runs EXCEPT ![r] =
                 IF isTerminalState(to)
                   THEN [@ EXCEPT !.state = to, !.queuePosition = None]
                   ELSE [@ EXCEPT !.state = to]]
            /\ IF isTerminalState(to) THEN ClearTimeout(r) ELSE UNCHANGED timers
            /\ Forget(t, "reread")
  /\ UNCHANGED <<queueVars, leaseVars, contexts>>

RereadRun(t) ==
  /\ call[t].pc = "reread"
  /\ call' = [call EXCEPT
       ![t].seen = runs[call[t].run],
       ![t].pc = IF call[t].op = "start" THEN "begin" ELSE "done"]
  /\ UNCHANGED <<storeVars, runs>>

\* startRun, once the run is RUNNING: context and timer.
BeginRun(t) ==
  LET r == call[t].run IN
  /\ call[t].pc = "begin"
  /\ CreateContext(r)
  /\ ScheduleTimeout(r)
  /\ Goto(t, "done")
  /\ UNCHANGED <<queueVars, leaseVars, runs>>

\* One resumption of thread t inside the manager, other than SignalStep.
PlainStep(t) ==
  \/ EnqueueRun(t)      \/ SetQueuePosition(t)
  \/ LeaseNextRun(t)    \/ DequeueNext(t)     \/ MarkLeased(t)
  \/ RemoveQueued(t)    \/ ReleaseLease(t)
  \/ WriteTransition(t) \/ RereadRun(t)       \/ BeginRun(t)

-----------------------------------------------------------------------------
(* The timeout callback and the clock.                                       *)

TimerFires(r) ==
  /\ MayBegin
  /\ TimeoutDue(r)
  /\ Begin(r, SettleFrame("timeout", r, "timeout"))
  /\ UNCHANGED <<queueVars, leaseVars, contexts, runs>>

\* The callback's promise is discarded: a rejection stays unhandled, so a
\* timeout frame that threw has no next step (the process exits).
TimerReturns(r) ==
  /\ call[r].pc = "done"
  /\ call' = [call EXCEPT ![r] = IdleFrame]
  /\ UNCHANGED <<storeVars, runs>>

LeaseExpires(u) ==
  /\ LeasesExpire
  /\ Expire(u)
  /\ UNCHANGED <<queueVars, signalVars, runs, call>>

-----------------------------------------------------------------------------
(* The manager under any callers.  The one thing asked of them is what       *)
(* startRun's contract gives: a LEASED run is not completed before it was    *)
(* started.                                                                  *)

\* Bound: no acquireNextRun is called that could need a token beyond MaxTokens.
TokensLeft ==
  issued + Cardinality({t \in Tasks : call[t].pc = "lease"}) < MaxTokens

Calls(t) ==
  /\ MayBegin
  /\ \/ \E r \in Runs : BeginCreate(t, r)
     \/ /\ \/ TokensLeft /\ \E u \in Users : Begin(t, AcquireFrame(u))
           \/ \E r \in Runs :
                /\ runs[r] # NoRun
                /\ \/ Begin(t, StartFrame(r))
                   \/ \E reason \in Reasons :
                        Begin(t, SettleFrame("cancel", r, reason))
                   \/ /\ runs[r].state # "LEASED"
                      /\ Begin(t, SettleFrame("complete", r, None))
                   \/ Begin(t, SettleFrame("fail", r, None))
        /\ UNCHANGED <<storeVars, runs>>

Returns(t) ==
  /\ call[t].pc \in {"done", "threw"}
  /\ call' = [call EXCEPT ![t] = IdleFrame]
  /\ UNCHANGED <<storeVars, runs>>

ManagerInit ==
  /\ QueueInit /\ LeaseInit /\ SignalsInit
  /\ runs = [r \in Runs |-> NoRun]
  /\ call = [t \in Threads |-> IdleFrame]

ManagerNext ==
  \/ \E t \in Tasks : Calls(t) \/ Returns(t)
  \/ \E t \in Threads : PlainStep(t) \/ SignalStep(t)
  \/ \E r \in Runs : TimerFires(r) \/ TimerReturns(r)
  \/ \E u \in Users : LeaseExpires(u)

ManagerSpec == ManagerInit /\ [][ManagerNext]_managerVars

-----------------------------------------------------------------------------
(* What holds however long a store takes to answer.                          *)

\* Type invariant of the repository and the method frames.
ManagerTypeOK ==
  /\ QueueTypeOK /\ LeaseTypeOK /\ SignalsTypeOK
  /\ runs \in [Runs -> RunRecord]
  /\ call \in [Threads -> Frame]

\* A lease token stored with a run is that run's token: when it still names a
\* lease, the lease was granted to this run, in this run's lane.
TokensAreOwn ==
  \A r \in Runs, u \in Users :
    leases[u] # None /\ leases[u].token = runs[r].leaseToken
      => leases[u].runId = r /\ UserOf[r] = u

\* Cancelling, timing out, completing or failing a run gives up the lease of
\* that run only, though each releases a token it read an await earlier
\* (run-manager.ts:315, 338, 365, 384) and the lane may have moved on.
ReleasesOnlyOwnLease ==
  [][\A t \in Threads : call[t].pc = "release" /\ call'[t].pc = "signal" =>
       \A u \in Users : leases[u] # None /\ leases[u].runId # call[t].run
                          => leases'[u] = leases[u]]_managerVars

(* What holds when the stores settle at once, as the in-memory stores do.    *)

\* The lane: a user never has two runs that are LEASED or RUNNING.  Callers
\* that acquire while a run is active need leases that outlive the runs for
\* it (LeasesExpire = FALSE), since nobody extends one; the execution service,
\* which acquires only between runs, does not.
SingleActiveRun ==
  \A r, s \in Runs :
    /\ isActiveState(runs[r].state)
    /\ isActiveState(runs[s].state)
    /\ UserOf[r] = UserOf[s]
    => r = s

\* A lease is held exactly by the active run whose record carries its token,
\* whatever mixture of cancel, timeout, fail and complete ended the others.
LeaseFollowsRun ==
  Settled =>
    /\ \A u \in Users : leases[u] # None =>
         /\ isActiveState(runs[leases[u].runId].state)
         /\ runs[leases[u].runId].leaseToken = leases[u].token
    /\ \A r \in Runs : isActiveState(runs[r].state) =>
         /\ leases[UserOf[r]] # None
         /\ leases[UserOf[r]].runId = r

\* Every change of a stored state is one the transition table allows, the
\* unchecked LEASED update of acquireNextRun (run-manager.ts:262) included;
\* in particular a terminal state is final.
TransitionsFollowTable ==
  [][\A r \in Runs : runs'[r].state # runs[r].state =>
       \/ runs[r] = NoRun /\ runs'[r].state = "QUEUED"
       \/ isValidStateTransition(runs[r].state, runs'[r].state)]_managerVars

\* No run is lost or served twice: between callbacks the QUEUED runs are
\* exactly the ones in their user's queue.
QueuedIffWaiting ==
  Settled => \A r \in Runs :
    runs[r].state = "QUEUED" <=> r \in ToSet(queues[UserOf[r]])

\* Between callbacks exactly the RUNNING runs can be timed out and aborted.
StoppableIffRunning ==
  Settled => \A r \in Runs :
    /\ r \in timers <=> runs[r].state = "RUNNING"
    /\ runs[r].state = "RUNNING" => contexts[r] = "open"

\* timeoutRun, whose promise nobody awaits (timeout.ts:109), never rejects.
TimeoutsNeverReject == \A r \in Runs : call[r].pc # "threw"

=============================================================================
