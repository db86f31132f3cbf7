-------------------------- MODULE RunManagerProofs --------------------------
(***************************************************************************)
(* RunManager for every number of users, runs and callers and any lease     *)
(* expiry.  Under every latency of the stores the manager keeps its         *)
(* promises to the queue and the lease manager, and never gives up another  *)
(* run's lease; with stores that settle at once, the second part, states,   *)
(* queues, timers and leases agree between callbacks.                       *)
(***************************************************************************)
EXTENDS RunManager, StoresProofs

(***************************************************************************)
(* Own: the pairs of a token generated so far (or none) and a run for which *)
(* it can only ever name that run's lease.                                  *)
(***************************************************************************)
Own == {p \in (0..issued) \X Runs :
          \A u \in Users : leases[u] # None /\ leases[u].token = p[1]
                             => leases[u].runId = p[2]}

Settling == {"cancel", "timeout", "complete", "fail"}

\* What a frame needs for its next step to be one of its method's steps.
FrameShape(f) ==
  /\ f \in Frame
  /\ f.pc \notin {"idle", "done"} => f.run \in Runs
  /\ f.pc \in {"remove", "release", "signal"} =>
       /\ f.op \in Settling
       /\ f.op \in {"cancel", "timeout"} => f.reason \in Reasons
  /\ f.pc = "write" => f.op \in Settling \cup {"start"}

\* The tokens a frame carries are its run's own.
FrameTokens(f, own) ==
  f.run \in Runs =>
    <<f.token, f.run>> \in own /\ <<f.seen.leaseToken, f.run>> \in own

FramesOK == \A t \in Threads : FrameShape(call[t]) /\ FrameTokens(call[t], Own)

RunsOK ==
  /\ runs \in [Runs -> RunRecord]
  /\ \A r \in Runs : <<runs[r].leaseToken, r>> \in Own

Enqueuing(t) == call[t].pc = "enqueue"

\* createRun is the only one to enqueue a run, and does so once.
FreshRuns ==
  /\ \A t \in Threads : Enqueuing(t) =>
       /\ runs[call[t].run].state # "NONE"
       /\ \A u \in Users : call[t].run \notin ToSet(queues[u])
  /\ \A s, t \in Threads :
       Enqueuing(s) /\ Enqueuing(t) /\ call[s].run = call[t].run => s = t
  /\ \A r \in Runs : runs[r].state = "NONE" =>
       \A u \in Users : r \notin ToSet(queues[u])

\* A lease is granted in the lane of its run.
LeasesInLane ==
  \A u \in Users : leases[u] # None => UserOf[leases[u].runId] = u

ManagerInv ==
  /\ QueueInv /\ LeaseInv /\ SignalsTypeOK
  /\ call \in [Threads -> Frame]
  /\ FramesOK /\ RunsOK /\ FreshRuns /\ LeasesInLane
\* A step of the manager is a call, or none, of each store, and keeps ManagerInv.
Kept == ManagerInv' /\ [QueueNext]_queueVars /\ [LeaseNext]_leaseVars

-----------------------------------------------------------------------------
LEMMA NoRunIsRecord ==
  NoRun \in RunRecord /\ NoRun.leaseToken = NoToken /\ NoRun.state = "NONE"
BY DEF NoRun, RunRecord

LEMMA NoTokenIsOwn ==
  ASSUME LeaseInv, NEW r \in Runs
  PROVE  <<NoToken, r>> \in Own
<1>1. issued \in Nat
  BY DEF LeaseInv, LeaseTypeOK
<1>2. \A u \in Users : leases[u] # None => leases[u].token # NoToken
  BY TokenOfLease DEF Tokens, NoToken
<1>3. QED
  BY <1>1, <1>2 DEF Own, NoToken

\* Where a lease after a step comes from: it was there, or it is new and has
\* a token nobody has seen.
LEMMA LeaseOrigin ==
  ASSUME LeaseInv, [LeaseNext]_leaseVars, NEW u \in Users, leases'[u] # None
  PROVE  \/ /\ leases[u] # None
            /\ leases'[u].runId = leases[u].runId
            /\ leases'[u].token = leases[u].token
         \/ \E r \in Runs :
              /\ CanAcquire(u) /\ Acquire(u, r)
              /\ leases'[u].runId = r
              /\ leases'[u].token = NextToken
<1>1. leases \in [Users -> Lease \cup {None}]
  BY DEF LeaseInv, LeaseTypeOK
<1>2. CASE UNCHANGED leaseVars
  BY <1>2 DEF leaseVars
<1>3. ASSUME NEW v \in Users, NEW r \in Runs, Acquire(v, r)
      PROVE  \/ leases'[u] = leases[u]
             \/ v = u /\ CanAcquire(u) /\ leases'[u].runId = r
                      /\ leases'[u].token = NextToken
  BY <1>1, <1>3 DEF Acquire, leaseVars
<1>4. ASSUME NEW v \in Users, leases[v] # None, Drop(v)
      PROVE  leases'[u] = leases[u]
  BY <1>1, <1>4 DEF Drop
<1>5. ASSUME NEW v \in Users, NEW live \in BOOLEAN, leases[v] # None,
             leases' = [leases EXCEPT ![v].live = live]
      PROVE  /\ leases[u] # None
             /\ leases'[u].runId = leases[u].runId
             /\ leases'[u].token = leases[u].token
  <2>1. leases[v] \in Lease
    BY <1>1, <1>5
  <2>2. leases'[v].runId = leases[v].runId /\ leases'[v].token = leases[v].token
    BY <1>1, <1>5, <2>1 DEF Lease
  <2>3. u # v => leases'[u] = leases[u]
    BY <1>1, <1>5
  <2>4. QED
    BY <1>5, <2>2, <2>3
<1>6. ASSUME NEW t \in 1..issued, Release(t)
      PROVE  leases'[u] = leases[u]
  BY <1>4, <1>6 DEF Release, OwnsLease, leaseVars
<1>7. ASSUME NEW t \in 1..issued, Extend(t)
      PROVE  /\ leases[u] # None
             /\ leases'[u].runId = leases[u].runId
             /\ leases'[u].token = leases[u].token
  BY <1>5, <1>7 DEF Extend, OwnsLease, leaseVars
<1>8. ASSUME NEW v \in Users, IsActive(v)
      PROVE  leases'[u] = leases[u]
  BY <1>4, <1>8 DEF IsActive, leaseVars
<1>9. ASSUME CleanupExpired
      PROVE  leases'[u] = leases[u]
  BY <1>1, <1>9 DEF CleanupExpired
<1>10. ASSUME NEW v \in Users, Expire(v)
       PROVE  /\ leases[u] # None
              /\ leases'[u].runId = leases[u].runId
              /\ leases'[u].token = leases[u].token
  BY <1>5, <1>10 DEF Expire, HoldsLive
<1>11. QED
  BY <1>2, <1>3, <1>6, <1>7, <1>8, <1>9, <1>10 DEF LeaseNext

\* A pair in Own stays there: a later lease has a later token.
LEMMA OwnGrows ==
  ASSUME LeaseInv, [LeaseNext]_leaseVars
  PROVE  Own \subseteq Own'
<1>1. issued \in Nat /\ issued' \in Nat /\ issued <= issued'
  <2>1. LeaseInv'
    BY LeaseInvStep
  <2>2. issued \in Nat /\ issued' \in Nat
    BY <2>1 DEF LeaseInv, LeaseTypeOK
  <2>3. issued' = issued \/ issued' = issued + 1
    BY DEF LeaseNext, Acquire, Release, Extend, IsActive, CleanupExpired,
           Expire, Drop, NextToken, leaseVars
  <2>4. QED
    BY <2>2, <2>3
<1>2. SUFFICES ASSUME NEW k \in 0..issued, NEW r \in Runs, <<k, r>> \in Own,
                      NEW u \in Users, leases'[u] # None, leases'[u].token = k
               PROVE  leases'[u].runId = r
  BY <1>1 DEF Own
<1>3. leases[u] # None /\ leases[u].token = k => leases[u].runId = r
  BY <1>2 DEF Own
<1>4. k # NextToken
  BY <1>1, <1>2 DEF NextToken
<1>5. QED
  BY <1>2, <1>3, <1>4, LeaseOrigin

-----------------------------------------------------------------------------
(* What each conjunct of the invariant needs from a step of thread t that    *)
(* leaves t in the frame f.                                                  *)

LEMMA FramesKept ==
  ASSUME ManagerInv, Own \subseteq Own', NEW t \in Threads, NEW f,
         call' = [call EXCEPT ![t] = f], FrameShape(f), FrameTokens(f, Own')
  PROVE  call' \in [Threads -> Frame] /\ FramesOK'
<1>1. call \in [Threads -> Frame] /\ f \in Frame
  BY DEF ManagerInv, FrameShape
<1>2. call' \in [Threads -> Frame]
  BY <1>1
<1>3. ASSUME NEW s \in Threads
      PROVE  FrameShape(call'[s]) /\ FrameTokens(call'[s], Own')
  <2>1. CASE s = t
    BY <1>1, <2>1
  <2>2. CASE s # t
    <3>1. call'[s] = call[s]
      BY <1>1, <2>2
    <3>2. FrameShape(call[s]) /\ FrameTokens(call[s], Own)
      BY DEF ManagerInv, FramesOK
    <3>3. FrameTokens(call[s], Own')
      BY <3>2 DEF FrameTokens
    <3>4. QED
      BY <3>1, <3>2, <3>3
  <2>3. QED
    BY <2>1, <2>2
<1>4. QED
  BY <1>2, <1>3 DEF FramesOK

LEMMA FreshKept ==
  ASSUME ManagerInv, NEW t \in Threads, NEW f,
         call' = [call EXCEPT ![t] = f], f.pc # "enqueue",
         \A u \in Users, r \in Runs :
           r \in ToSet(queues'[u]) => r \in ToSet(queues[u]),
         \A r \in Runs : runs'[r].state = "NONE" => runs[r].state = "NONE"
  PROVE  FreshRuns'
<1>1. /\ call \in [Threads -> Frame]
      /\ \A s \in Threads : Enqueuing(s) => call[s].run \in Runs
  BY DEF ManagerInv, FramesOK, FrameShape, Enqueuing
<1>2. \A s \in Threads : call'[s].pc = "enqueue" =>
        Enqueuing(s) /\ call'[s] = call[s]
  BY <1>1 DEF Enqueuing
<1>3. QED
  BY <1>1, <1>2 DEF ManagerInv, FreshRuns, Enqueuing

LEMMA LanesKept ==
  ASSUME ManagerInv,
         \A u \in Users : leases'[u] # None =>
           leases[u] # None /\ leases'[u].runId = leases[u].runId
  PROVE  LeasesInLane'
BY DEF ManagerInv, LeasesInLane

LEMMA RunsKept ==
  ASSUME ManagerInv, Own \subseteq Own', UNCHANGED runs
  PROVE  /\ RunsOK'
         /\ \A r \in Runs : runs'[r].state = "NONE" => runs[r].state = "NONE"
BY DEF ManagerInv, RunsOK

\* A step that calls neither the queue nor the lease manager.
LEMMA QuietStep ==
  ASSUME ManagerInv, UNCHANGED queueVars, UNCHANGED leaseVars,
         NEW t \in Threads, NEW f,
         call' = [call EXCEPT ![t] = f], FrameShape(f), FrameTokens(f, Own),
         f.pc # "enqueue", SignalsTypeOK', RunsOK',
         \A r \in Runs : runs'[r].state = "NONE" => runs[r].state = "NONE"
  PROVE  Kept
<1>1. /\ queues' = queues /\ leases' = leases /\ issued' = issued
  BY DEF queueVars, leaseVars
<1>2. Own' = Own
  BY <1>1 DEF Own
<1>3. call' \in [Threads -> Frame] /\ FramesOK'
  BY <1>2, FramesKept
<1>4. FreshRuns'
  BY <1>1, FreshKept
<1>5. LeasesInLane'
  BY <1>1, LanesKept
<1>6. QueueInv' /\ LeaseInv'
  BY QueueInvStep, LeaseInvStep DEF ManagerInv
<1>7. QED
  BY <1>3, <1>4, <1>5, <1>6 DEF ManagerInv, Kept

\* What is known of the frame and the run of a thread that is in a method.
LEMMA InMethod ==
  ASSUME ManagerInv, NEW t \in Threads
  PROVE  /\ call \in [Threads -> Frame]
         /\ call[t] \in Frame
         /\ FrameShape(call[t])
         /\ FrameTokens(call[t], Own)
         /\ runs \in [Runs -> RunRecord]
         /\ \A r \in Runs :
              runs[r] \in RunRecord /\ <<runs[r].leaseToken, r>> \in Own
         /\ \A r \in Runs : <<NoToken, r>> \in Own
BY NoTokenIsOwn DEF ManagerInv, FramesOK, RunsOK

\* g is the frame f at another step, with another copy of the run.
Continues(f, g, pc, seen) ==
  /\ g \in Frame
  /\ g.op = f.op /\ g.run = f.run /\ g.token = f.token
  /\ g.pc = pc /\ g.seen = seen
  /\ pc # "write" => g.reason = f.reason

LEMMA Resuming ==
  ASSUME NEW f \in Frame, NEW pc, NEW seen \in RunRecord,
         pc \in {"setPosition", "signal", "write", "reread", "begin", "done",
                 "threw"}
  PROVE  /\ Continues(f, [f EXCEPT !.pc = pc, !.seen = seen], pc, seen)
         /\ Continues(f, [f EXCEPT !.seen = seen, !.pc = pc], pc, seen)
         /\ pc = "write" =>
              Continues(f, [f EXCEPT !.pc = pc, !.seen = seen, !.reason = None],
                      pc, seen)
<1> DEFINE ops == {"none", "create", "acquire", "start", "cancel", "timeout",
                   "complete", "fail", "get"}
           pcs == {"idle", "enqueue", "setPosition", "lease", "dequeue",
                   "markLeased", "remove", "release", "signal", "write",
                   "reread", "begin", "done", "threw"}
<1>1. Frame = [op : ops, pc : pcs, run : Runs \cup {None}, seen : RunRecord,
               token : Tokens \cup {NoToken}, reason : Reasons \cup {None}]
  BY DEF Frame
<1>2. pc \in pcs
  OBVIOUS
<1>3. QED
  <2> HIDE DEF ops, pcs
  <2>1. Continues(f, [f EXCEPT !.pc = pc, !.seen = seen], pc, seen)
    BY <1>1, <1>2 DEF Continues
  <2>2. Continues(f, [f EXCEPT !.seen = seen, !.pc = pc], pc, seen)
    BY <1>1, <1>2 DEF Continues
  <2>3. pc = "write" =>
          Continues(f, [f EXCEPT !.pc = pc, !.seen = seen, !.reason = None],
                  pc, seen)
    BY <1>1, <1>2 DEF Continues
  <2>4. QED
    BY <2>1, <2>2, <2>3

LEMMA Going ==
  ASSUME NEW f \in Frame, NEW pc,
         pc \in {"markLeased", "release", "signal", "done"}
  PROVE  Continues(f, [f EXCEPT !.pc = pc], pc, f.seen)
<1> DEFINE ops == {"none", "create", "acquire", "start", "cancel", "timeout",
                   "complete", "fail", "get"}
           pcs == {"idle", "enqueue", "setPosition", "lease", "dequeue",
                   "markLeased", "remove", "release", "signal", "write",
                   "reread", "begin", "done", "threw"}
<1>1. Frame = [op : ops, pc : pcs, run : Runs \cup {None}, seen : RunRecord,
               token : Tokens \cup {NoToken}, reason : Reasons \cup {None}]
  BY DEF Frame
<1>2. pc \in pcs
  OBVIOUS
<1>3. QED
  <2> HIDE DEF ops, pcs
  <2>1. QED
    BY <1>1, <1>2 DEF Continues

\* The method of such a frame is not between two of its own awaits.
Between(f) == f.pc \in {"idle", "done", "threw"}

\* A step inside a method is of one thread, which stays in that method.
LEMMA OfOneMethod ==
  ASSUME ManagerInv, NEW t \in Threads, PlainStep(t) \/ SignalStep(t)
  PROVE  /\ \A s \in Threads \ {t} : call'[s] = call[s]
         /\ ~Between(call[t]) /\ call'[t].pc \notin {"idle", "enqueue"}
         /\ call'[t].op = call[t].op
         /\ \/ call'[t].run = call[t].run
            \/ call[t].pc = "lease" /\ call'[t].pc = "done" /\ call'[t].run = None
<1>1. call \in [Threads -> Frame] /\ call[t] \in Frame
  BY InMethod
<1>2. \A s \in Threads \ {t} : call'[s] = call[s]
  BY <1>1 DEF PlainStep, EnqueueRun, SetQueuePosition, LeaseNextRun, DequeueNext,
              MarkLeased, RemoveQueued, ReleaseLease, SignalStep,
              WriteTransition, RereadRun, BeginRun, Goto, Forget
<1>3. ~Between(call[t])
  BY DEF Between, PlainStep, EnqueueRun, SetQueuePosition, LeaseNextRun,
         DequeueNext, MarkLeased, RemoveQueued, ReleaseLease, SignalStep,
         WriteTransition, RereadRun, BeginRun
<1>4. /\ call'[t].pc \notin {"idle", "enqueue"} /\ call'[t].op = call[t].op
      /\ \/ call'[t].run = call[t].run
         \/ call[t].pc = "lease" /\ call'[t].pc = "done" /\ call'[t].run = None
  <2>1. CASE EnqueueRun(t)
    BY <1>1, <2>1 DEF EnqueueRun, Frame
  <2>2. CASE SetQueuePosition(t)
    BY <1>1, <2>2 DEF SetQueuePosition, Goto, Frame
  <2>3. CASE LeaseNextRun(t)
    BY <1>1, <2>3 DEF LeaseNextRun, Frame
  <2>4. CASE DequeueNext(t)
    BY <1>1, <2>4 DEF DequeueNext, Goto, Frame
  <2>5. CASE MarkLeased(t)
    BY <1>1, <2>5 DEF MarkLeased, Goto, Frame
  <2>6. CASE RemoveQueued(t)
    BY <1>1, <2>6 DEF RemoveQueued, AfterRemove, Goto, Frame
  <2>7. CASE ReleaseLease(t)
    BY <1>1, <2>7 DEF ReleaseLease, Forget, Frame
  <2>8. CASE SignalStep(t)
    BY <1>1, <2>8 DEF SignalStep, Frame
  <2>9. CASE WriteTransition(t)
    BY <1>1, <2>9 DEF WriteTransition, Forget, Frame
  <2>10. CASE RereadRun(t)
    BY <1>1, <2>10 DEF RereadRun, Frame
  <2>11. CASE BeginRun(t)
    BY <1>1, <2>11 DEF BeginRun, Goto, Frame
  <2>12. QED
    BY <2>1, <2>2, <2>3, <2>4, <2>5, <2>6, <2>7, <2>8, <2>9, <2>10, <2>11
       DEF PlainStep
<1>5. QED
  BY <1>2, <1>3, <1>4

-----------------------------------------------------------------------------
(* The actions that leave the queue and the leases alone.                    *)

LEMMA SetQueuePositionKept ==
  ASSUME ManagerInv, NEW t \in Threads, SetQueuePosition(t)
  PROVE  Kept
<1> DEFINE f == [call[t] EXCEPT !.pc = "done"]
           r == call[t].run
<1>1. /\ call[t] \in Frame /\ r \in Runs
      /\ FrameTokens(call[t], Own)
      /\ runs \in [Runs -> RunRecord]
      /\ \A s \in Runs : <<runs[s].leaseToken, s>> \in Own
  BY InMethod DEF SetQueuePosition, FrameShape
<1>2. call' = [call EXCEPT ![t] = f] /\ UNCHANGED storeVars
  BY DEF SetQueuePosition, Goto
<1>3. FrameShape(f) /\ FrameTokens(f, Own) /\ f.pc # "enqueue"
  <2>1. Continues(call[t], f, "done", call[t].seen)
    BY <1>1, Going
  <2> HIDE DEF f
  <2>2. QED
    BY <1>1, <2>1 DEF FrameShape, FrameTokens, Continues
<1>4. /\ runs' = [runs EXCEPT ![r].queuePosition = call[t].seen.queuePosition]
      /\ call[t].seen.queuePosition \in Nat \cup {None}
  BY <1>1 DEF SetQueuePosition, Frame, RunRecord
<1>5. /\ runs' \in [Runs -> RunRecord]
      /\ \A s \in Runs : /\ runs'[s].state = runs[s].state
                         /\ runs'[s].leaseToken = runs[s].leaseToken
  BY <1>1, <1>4 DEF RunRecord
<1>6. QED
  <2> HIDE DEF f, r
  <2>1. UNCHANGED queueVars /\ UNCHANGED leaseVars /\ UNCHANGED signalVars
    BY <1>2 DEF storeVars
  <2>2. SignalsTypeOK'
    BY <2>1 DEF signalVars, SignalsTypeOK, ManagerInv
  <2>3. Own' = Own
    BY <2>1 DEF leaseVars, Own
  <2>4. RunsOK'
    BY <1>1, <1>5, <2>3 DEF RunsOK
  <2>5. QED
    BY <1>2, <1>3, <1>5, <2>1, <2>2, <2>4, QuietStep

LEMMA MarkLeasedKept ==
  ASSUME ManagerInv, NEW t \in Threads, MarkLeased(t)
  PROVE  Kept
<1> DEFINE f == [call[t] EXCEPT !.pc = "done"]
           r == call[t].run
           new == [state |-> "LEASED", leaseToken |-> call[t].token,
                   queuePosition |-> None]
<1>1. /\ call[t] \in Frame /\ r \in Runs
      /\ FrameTokens(call[t], Own)
      /\ runs \in [Runs -> RunRecord]
      /\ \A s \in Runs : <<runs[s].leaseToken, s>> \in Own
  BY InMethod DEF MarkLeased, FrameShape
<1>2. /\ call' = [call EXCEPT ![t] = f] /\ UNCHANGED storeVars
      /\ runs' = [runs EXCEPT ![r] = new]
  BY DEF MarkLeased, Goto
<1>3. FrameShape(f) /\ FrameTokens(f, Own) /\ f.pc # "enqueue"
  <2>1. Continues(call[t], f, "done", call[t].seen)
    BY <1>1, Going
  <2> HIDE DEF f
  <2>2. QED
    BY <1>1, <2>1 DEF FrameShape, FrameTokens, Continues
<1>4. /\ new \in RunRecord /\ <<new.leaseToken, r>> \in Own
      /\ new.state # "NONE"
  BY <1>1 DEF Frame, RunRecord, RunState, FrameTokens
<1>5. QED
  <2> HIDE DEF f, r, new
  <2>1. UNCHANGED queueVars /\ UNCHANGED leaseVars /\ UNCHANGED signalVars
    BY <1>2 DEF storeVars
  <2>2. SignalsTypeOK'
    BY <2>1 DEF signalVars, SignalsTypeOK, ManagerInv
  <2>3. Own' = Own
    BY <2>1 DEF leaseVars, Own
  <2>4. /\ RunsOK'
        /\ \A s \in Runs : runs'[s].state = "NONE" => runs[s].state = "NONE"
    BY <1>1, <1>2, <1>4, <2>3 DEF RunsOK
  <2>5. QED
    BY <1>2, <1>3, <2>1, <2>2, <2>4, QuietStep

\* Steps that change the frame alone.
LEMMA FrameOnly ==
  ASSUME ManagerInv, NEW t \in Threads, NEW f,
         call' = [call EXCEPT ![t] = f], FrameShape(f), FrameTokens(f, Own),
         f.pc # "enqueue", UNCHANGED <<queueVars, leaseVars, runs>>,
         SignalsTypeOK'
  PROVE  Kept
<1>1. Own' = Own
  BY DEF leaseVars, Own
<1>2. /\ RunsOK'
      /\ \A s \in Runs : runs'[s].state = "NONE" => runs[s].state = "NONE"
  BY <1>1, RunsKept
<1>3. QED
  BY <1>2, QuietStep

LEMMA SignalStepKept ==
  ASSUME ManagerInv, NEW t \in Threads, SignalStep(t)
  PROVE  Kept
<1> DEFINE r == call[t].run
           f == [call[t] EXCEPT !.pc = "write", !.seen = runs[r], !.reason = None]
<1>1. /\ call[t] \in Frame /\ r \in Runs
      /\ call[t].op \in Settling
      /\ call[t].op \in {"cancel", "timeout"} => call[t].reason \in Reasons
      /\ FrameTokens(call[t], Own)
      /\ runs[r] \in RunRecord /\ <<runs[r].leaseToken, r>> \in Own
  BY InMethod DEF SignalStep, FrameShape
<1>2. call' = [call EXCEPT ![t] = f]
  BY DEF SignalStep
<1>3. FrameShape(f) /\ FrameTokens(f, Own) /\ f.pc # "enqueue"
  <2>1. Continues(call[t], f, "write", runs[r])
    BY <1>1, Resuming
  <2> HIDE DEF f
  <2>2. QED
    BY <1>1, <2>1 DEF FrameShape, FrameTokens, Continues
<1>4. SignalsTypeOK'
  BY <1>1 DEF SignalStep, CancelContext, RemoveContext, SignalsTypeOK, ManagerInv
<1>5. QED
  <2> HIDE DEF f, r
  <2>1. QED
    BY <1>2, <1>3, <1>4, FrameOnly DEF SignalStep

LEMMA WriteTransitionKept ==
  ASSUME ManagerInv, NEW t \in Threads, WriteTransition(t)
  PROVE  Kept
<1> DEFINE r  == call[t].run
           to == Target(call[t].op)
           f(pc) == [call[t] EXCEPT !.pc = pc, !.seen = NoRun]
<1>1. /\ call[t] \in Frame /\ r \in Runs
      /\ call[t].op \in Settling \cup {"start"}
      /\ FrameTokens(call[t], Own)
      /\ <<NoToken, r>> \in Own
      /\ runs \in [Runs -> RunRecord]
      /\ \A s \in Runs : <<runs[s].leaseToken, s>> \in Own
  BY InMethod DEF WriteTransition, FrameShape
<1>2. to \in RunState
  BY <1>1 DEF Target, Settling, RunState
<1>3. ASSUME NEW pc \in {"threw", "reread"}
      PROVE  FrameShape(f(pc)) /\ FrameTokens(f(pc), Own) /\ f(pc).pc # "enqueue"
  <2>1. Continues(call[t], f(pc), pc, NoRun)
    BY <1>1, <1>3, NoRunIsRecord, Resuming
  <2> HIDE DEF f
  <2>2. QED
    BY <1>1, <1>3, <2>1, NoRunIsRecord DEF FrameShape, FrameTokens, Continues
<1>4. SignalsTypeOK'
  BY DEF WriteTransition, ClearTimeout, SignalsTypeOK, ManagerInv
<1>5. /\ UNCHANGED queueVars /\ UNCHANGED leaseVars
  BY DEF WriteTransition
<1>6. CASE ~isValidStateTransition(call[t].seen.state, to)
  <2>1. call' = [call EXCEPT ![t] = f("threw")] /\ UNCHANGED runs
    BY <1>6 DEF WriteTransition, Forget
  <2> HIDE DEF f
  <2>2. QED
    BY <1>3, <1>4, <1>5, <2>1, FrameOnly
<1>7. CASE isValidStateTransition(call[t].seen.state, to)
  <2> DEFINE new == IF isTerminalState(to)
                      THEN [runs[r] EXCEPT !.state = to, !.queuePosition = None]
                      ELSE [runs[r] EXCEPT !.state = to]
  <2>1. /\ call' = [call EXCEPT ![t] = f("reread")]
        /\ runs' = [runs EXCEPT ![r] = new]
    BY <1>7 DEF WriteTransition, Forget
  <2>2. /\ new \in RunRecord /\ new.state = to
        /\ new.leaseToken = runs[r].leaseToken
    <3> HIDE DEF r, to
    <3>1. runs[r] \in RunRecord
      BY <1>1
    <3>2. CASE isTerminalState(to)
      BY <1>2, <3>1, <3>2 DEF RunRecord
    <3>3. CASE ~isTerminalState(to)
      BY <1>2, <3>1, <3>3 DEF RunRecord
    <3>4. QED
      BY <3>2, <3>3
  <2>3. to # "NONE"
    BY <1>2 DEF RunState
  <2>4. Own' = Own
    BY <1>5 DEF leaseVars, Own
  <2> HIDE DEF f, new, r, to
  <2>5. /\ RunsOK'
        /\ \A s \in Runs : runs'[s].state = "NONE" => runs[s].state = "NONE"
    BY <1>1, <2>1, <2>2, <2>3, <2>4 DEF RunsOK
  <2>6. QED
    BY <1>3, <1>4, <1>5, <2>1, <2>5, QuietStep
<1>8. QED
  BY <1>6, <1>7

LEMMA RereadRunKept ==
  ASSUME ManagerInv, NEW t \in Threads, RereadRun(t)
  PROVE  Kept
<1> DEFINE r == call[t].run
           pc == IF call[t].op = "start" THEN "begin" ELSE "done"
           f == [call[t] EXCEPT !.seen = runs[r], !.pc = pc]
<1>1. /\ call[t] \in Frame /\ r \in Runs
      /\ FrameTokens(call[t], Own)
      /\ runs[r] \in RunRecord /\ <<runs[r].leaseToken, r>> \in Own
  BY InMethod DEF RereadRun, FrameShape
<1>2. call' = [call EXCEPT ![t] = f]
  BY DEF RereadRun
<1>3. FrameShape(f) /\ FrameTokens(f, Own) /\ f.pc # "enqueue"
  <2>1. pc \in {"begin", "done"}
    OBVIOUS
  <2> HIDE DEF pc
  <2>2. Continues(call[t], f, pc, runs[r])
    BY <1>1, <2>1, Resuming
  <2> HIDE DEF f
  <2>3. QED
    BY <1>1, <2>1, <2>2 DEF FrameShape, FrameTokens, Continues
<1>4. SignalsTypeOK'
  BY DEF RereadRun, storeVars, signalVars, SignalsTypeOK, ManagerInv
<1>5. QED
  <2> HIDE DEF f, r
  <2>1. QED
    BY <1>2, <1>3, <1>4, FrameOnly DEF RereadRun, storeVars

LEMMA BeginRunKept ==
  ASSUME ManagerInv, NEW t \in Threads, BeginRun(t)
  PROVE  Kept
<1> DEFINE r == call[t].run
           f == [call[t] EXCEPT !.pc = "done"]
<1>1. call[t] \in Frame /\ r \in Runs /\ FrameTokens(call[t], Own)
  BY InMethod DEF BeginRun, FrameShape
<1>2. call' = [call EXCEPT ![t] = f]
  BY DEF BeginRun, Goto
<1>3. FrameShape(f) /\ FrameTokens(f, Own) /\ f.pc # "enqueue"
  <2>1. Continues(call[t], f, "done", call[t].seen)
    BY <1>1, Going
  <2> HIDE DEF f
  <2>2. QED
    BY <1>1, <2>1 DEF FrameShape, FrameTokens, Continues
<1>4. SignalsTypeOK'
  BY <1>1 DEF BeginRun, CreateContext, ScheduleTimeout, SignalsTypeOK, ManagerInv
<1>5. QED
  <2> HIDE DEF f, r
  <2>1. QED
    BY <1>2, <1>3, <1>4, FrameOnly DEF BeginRun

-----------------------------------------------------------------------------
(* Calls begin and return.                                                   *)

\* The fields of the frames that methods begin with.
LEMMA FirstFields ==
  ASSUME NEW r
  PROVE  /\ StartFrame(r).op = "start" /\ StartFrame(r).pc = "write"
         /\ StartFrame(r).run = r /\ StartFrame(r).seen = runs[r]
         /\ GetFrame(r).op = "get" /\ GetFrame(r).pc = "done"
         /\ GetFrame(r).run = r /\ GetFrame(r).seen = runs[r]
BY DEF StartFrame, GetFrame, IdleFrame

LEMMA SettleFields ==
  ASSUME NEW r, NEW op, NEW reason
  PROVE  /\ SettleFrame(op, r, reason).op = op
         /\ SettleFrame(op, r, reason).pc = AfterRead(op, runs[r])
         /\ SettleFrame(op, r, reason).run = r
         /\ SettleFrame(op, r, reason).seen = runs[r]
         /\ SettleFrame(op, r, reason).reason = reason
BY DEF SettleFrame, IdleFrame

LEMMA FirstFrames ==
  ASSUME ManagerInv
  PROVE  /\ \A u \in Users : /\ FrameShape(AcquireFrame(u))
                             /\ FrameTokens(AcquireFrame(u), Own)
                             /\ AcquireFrame(u).pc # "enqueue"
         /\ \A r \in Runs : /\ FrameShape(StartFrame(r))
                            /\ FrameTokens(StartFrame(r), Own)
                            /\ StartFrame(r).pc # "enqueue"
<1>1. /\ NoRun \in RunRecord /\ NoRun.leaseToken = NoToken
      /\ \A r \in Runs : /\ runs[r] \in RunRecord
                         /\ <<runs[r].leaseToken, r>> \in Own
                         /\ <<NoToken, r>> \in Own
  BY NoTokenIsOwn DEF ManagerInv, RunsOK, NoRun, RunRecord
<1>2. \A u \in Users : Peek(u) \in Runs \cup {None}
  BY HeadTailProperties DEF Peek, ManagerInv, QueueInv, QueueTypeOK
<1>3. None \notin Runs
  BY NoneAssumption
<1>4. ASSUME NEW u \in Users
      PROVE  /\ FrameShape(AcquireFrame(u)) /\ FrameTokens(AcquireFrame(u), Own)
             /\ AcquireFrame(u).pc # "enqueue"
  <2>1. CASE Peek(u) = None
    BY <1>1, <1>3, <2>1
       DEF AcquireFrame, IdleFrame, FrameShape, FrameTokens, Frame
  <2>2. CASE Peek(u) # None
    BY <1>1, <1>2, <2>2
       DEF AcquireFrame, IdleFrame, FrameShape, FrameTokens, Frame
  <2>3. QED
    BY <2>1, <2>2
<1>5. ASSUME NEW r \in Runs
      PROVE  /\ FrameShape(StartFrame(r)) /\ FrameTokens(StartFrame(r), Own)
             /\ StartFrame(r).pc # "enqueue"
  BY <1>1 DEF StartFrame, IdleFrame, FrameShape, FrameTokens, Frame
<1>6. QED
  BY <1>4, <1>5

LEMMA SettleFrames ==
  ASSUME ManagerInv, NEW op \in Settling, NEW r \in Runs,
         NEW reason \in Reasons \cup {None},
         op \in {"cancel", "timeout"} => reason \in Reasons
  PROVE  /\ FrameShape(SettleFrame(op, r, reason))
         /\ FrameTokens(SettleFrame(op, r, reason), Own)
         /\ SettleFrame(op, r, reason).pc # "enqueue"
<1>1. /\ runs[r] \in RunRecord
      /\ <<runs[r].leaseToken, r>> \in Own /\ <<NoToken, r>> \in Own
  BY NoTokenIsOwn DEF ManagerInv, RunsOK
<1>2. AfterRead(op, runs[r]) \in {"done", "remove", "release", "signal"}
  BY DEF AfterRead, AfterRemove
<1>3. NoRun \in RunRecord /\ NoRun.leaseToken = NoToken
  BY DEF NoRun, RunRecord
<1>4. QED
  BY <1>1, <1>2, <1>3
     DEF SettleFrame, IdleFrame, FrameShape, FrameTokens, Frame, Settling

LEMMA BeginKept ==
  ASSUME ManagerInv, NEW t \in Threads, NEW f, Begin(t, f),
         FrameShape(f), FrameTokens(f, Own), f.pc # "enqueue",
         UNCHANGED <<queueVars, leaseVars, runs>>, SignalsTypeOK'
  PROVE  Kept
BY FrameOnly DEF Begin

LEMMA BeginCreateKept ==
  ASSUME ManagerInv, NEW t \in Threads, NEW r \in Runs, BeginCreate(t, r)
  PROVE  Kept
<1> DEFINE f == [IdleFrame EXCEPT !.op = "create", !.pc = "enqueue", !.run = r]
           new == [runs[r] EXCEPT !.state = "QUEUED"]
<1>1. /\ NoRun \in RunRecord /\ runs[r] = NoRun /\ runs[r].state = "NONE"
      /\ runs \in [Runs -> RunRecord] /\ call \in [Threads -> Frame]
      /\ <<NoToken, r>> \in Own
      /\ \A s \in Runs : <<runs[s].leaseToken, s>> \in Own
  BY InMethod DEF BeginCreate, NoRun, RunRecord
<1>2. /\ call' = [call EXCEPT ![t] = f]
      /\ runs' = [runs EXCEPT ![r] = new]
      /\ UNCHANGED queueVars /\ UNCHANGED leaseVars /\ UNCHANGED signalVars
  BY DEF BeginCreate, Begin, storeVars
<1>3. /\ new \in RunRecord /\ new.state # "NONE"
      /\ new.leaseToken = runs[r].leaseToken
  BY <1>1 DEF RunRecord, RunState
<1>4. /\ FrameShape(f) /\ FrameTokens(f, Own)
      /\ f.pc = "enqueue" /\ f.run = r
  BY <1>1, NoneAssumption DEF IdleFrame, FrameShape, FrameTokens, Frame, NoRun
<1> HIDE DEF f, new
<1>5. Own' = Own
  BY <1>2 DEF leaseVars, Own
<1>6. RunsOK'
  BY <1>1, <1>2, <1>3, <1>5 DEF RunsOK
<1>7. call' \in [Threads -> Frame] /\ FramesOK'
  BY <1>2, <1>4, <1>5, FramesKept
<1>8. FreshRuns'
  <2>1. \A s \in Threads \ {t} : call'[s] = call[s]
    BY <1>1, <1>2
  <2>2. call'[t] = f
    BY <1>1, <1>2
  <2>3. \A s \in Threads \ {t} : call'[s].pc = "enqueue" =>
          call'[s].run \in Runs /\ call'[s].run # r
    BY <1>1, <2>1 DEF ManagerInv, FramesOK, FrameShape, FreshRuns, Enqueuing
  <2>4. \A u \in Users : r \notin ToSet(queues[u])
    BY <1>1 DEF ManagerInv, FreshRuns
  <2>5. /\ \A s \in Runs \ {r} : runs'[s] = runs[s]
        /\ runs'[r].state # "NONE"
    BY <1>1, <1>2, <1>3
  <2>6. queues' = queues
    BY <1>2 DEF queueVars
  <2>7. \A s \in Threads : call'[s].pc = "enqueue" =>
          /\ runs'[call'[s].run].state # "NONE"
          /\ \A u \in Users : call'[s].run \notin ToSet(queues'[u])
    BY <1>4, <2>1, <2>2, <2>3, <2>4, <2>5, <2>6
       DEF ManagerInv, FreshRuns, Enqueuing
  <2>8. \A s, s2 \in Threads : call'[s].pc = "enqueue" /\ call'[s2].pc = "enqueue"
                               /\ call'[s].run = call'[s2].run => s = s2
    BY <1>4, <2>1, <2>2, <2>3 DEF ManagerInv, FreshRuns, Enqueuing
  <2>9. \A s \in Runs : runs'[s].state = "NONE" =>
          \A u \in Users : s \notin ToSet(queues'[u])
    BY <2>5, <2>6 DEF ManagerInv, FreshRuns
  <2>10. QED
    BY <2>7, <2>8, <2>9 DEF FreshRuns, Enqueuing
<1>9. LeasesInLane'
  BY <1>2, LanesKept DEF leaseVars
<1>10. QueueInv' /\ LeaseInv'
  BY <1>2, QueueInvStep, LeaseInvStep DEF ManagerInv
<1>11. SignalsTypeOK'
  BY <1>2 DEF signalVars, SignalsTypeOK, ManagerInv
<1>12. QED
  BY <1>2, <1>6, <1>7, <1>8, <1>9, <1>10, <1>11 DEF ManagerInv, Kept

LEMMA CallsKept ==
  ASSUME ManagerInv, NEW t \in Tasks, Calls(t)
  PROVE  Kept
<1>1. t \in Threads
  BY DEF Threads
<1>2. ASSUME NEW r \in Runs, BeginCreate(t, r)
      PROVE  Kept
  BY <1>1, <1>2, BeginCreateKept
<1>3. CASE UNCHANGED <<storeVars, runs>>
  <2>1. UNCHANGED <<queueVars, leaseVars, runs>> /\ SignalsTypeOK'
    BY <1>3 DEF storeVars, signalVars, SignalsTypeOK, ManagerInv
  <2>2. ASSUME NEW u \in Users, Begin(t, AcquireFrame(u))
        PROVE  Kept
    BY <1>1, <2>1, <2>2, FirstFrames, BeginKept
  <2>3. ASSUME NEW r \in Runs, Begin(t, StartFrame(r))
        PROVE  Kept
    BY <1>1, <2>1, <2>3, FirstFrames, BeginKept
  <2>4. ASSUME NEW op \in Settling, NEW r \in Runs,
               NEW reason \in Reasons \cup {None},
               op \in {"cancel", "timeout"} => reason \in Reasons,
               Begin(t, SettleFrame(op, r, reason))
        PROVE  Kept
    BY <1>1, <2>1, <2>4, SettleFrames, BeginKept
  <2>5. ASSUME NEW r \in Runs, NEW reason \in Reasons,
               Begin(t, SettleFrame("cancel", r, reason))
        PROVE  Kept
    BY <2>4, <2>5 DEF Settling
  <2>6. ASSUME NEW r \in Runs, NEW op \in {"complete", "fail"},
               Begin(t, SettleFrame(op, r, None))
        PROVE  Kept
    BY <2>4, <2>6 DEF Settling
  <2>7. QED
    BY <1>2, <2>2, <2>3, <2>5, <2>6 DEF Calls
<1>4. QED
  BY <1>2, <1>3 DEF Calls

LEMMA ReturnKept ==
  ASSUME ManagerInv, NEW t \in Threads, call' = [call EXCEPT ![t] = IdleFrame],
         UNCHANGED <<storeVars, runs>>
  PROVE  Kept
<1>1. /\ FrameShape(IdleFrame) /\ FrameTokens(IdleFrame, Own)
      /\ IdleFrame.pc # "enqueue"
  BY NoneAssumption DEF IdleFrame, FrameShape, FrameTokens, Frame, NoRun, RunRecord
<1>2. UNCHANGED <<queueVars, leaseVars, runs>> /\ SignalsTypeOK'
  BY DEF storeVars, signalVars, SignalsTypeOK, ManagerInv
<1>3. QED
  BY <1>1, <1>2, FrameOnly

LEMMA TimerFiresKept ==
  ASSUME ManagerInv, NEW r \in Runs, TimerFires(r)
  PROVE  Kept
<1> DEFINE f == SettleFrame("timeout", r, "timeout")
<1>1. FrameShape(f) /\ FrameTokens(f, Own) /\ f.pc # "enqueue"
  BY ReasonsAssumption, SettleFrames DEF Settling
<1>2. SignalsTypeOK'
  BY DEF TimerFires, TimeoutDue, ClearTimeout, SignalsTypeOK, ManagerInv
<1>3. QED
  <2> HIDE DEF f
  <2>1. Begin(r, f) /\ UNCHANGED <<queueVars, leaseVars, runs>>
    BY DEF TimerFires, f
  <2>2. QED
    BY <1>1, <1>2, <2>1, BeginKept DEF Threads

-----------------------------------------------------------------------------
(* The actions that call the queue.                                          *)

LEMMA QueueShrinks ==
  ASSUME QueueInv,
         \/ \E u \in Users : Dequeue(u)
         \/ \E r \in Runs : RemoveFromQueue(r)
  PROVE  \A u \in Users, r \in Runs :
           r \in ToSet(queues'[u]) => r \in ToSet(queues[u])
BY DequeueDropsHead, RemoveDropsRun

\* A step of the queue's that takes runs out, at most.
LEMMA QueueStep ==
  ASSUME ManagerInv, NEW t \in Threads, NEW f,
         call' = [call EXCEPT ![t] = f], FrameShape(f), FrameTokens(f, Own),
         f.pc # "enqueue", UNCHANGED <<leaseVars, signalVars, runs>>,
         \/ \E u \in Users : Dequeue(u)
         \/ \E r \in Runs : RemoveFromQueue(r)
  PROVE  Kept
<1>1. Own' = Own /\ LeasesInLane' /\ LeaseInv'
  BY LanesKept, LeaseInvStep DEF leaseVars, Own, ManagerInv
<1>2. /\ RunsOK'
      /\ \A s \in Runs : runs'[s].state = "NONE" => runs[s].state = "NONE"
  BY <1>1, RunsKept
<1>3. call' \in [Threads -> Frame] /\ FramesOK'
  BY <1>1, FramesKept
<1>4. QueueInv
  BY DEF ManagerInv
<1>5. FreshRuns'
  BY <1>2, <1>4, QueueShrinks, FreshKept
<1>6. [QueueNext]_queueVars /\ QueueInv'
  BY <1>4, QueueInvStep DEF QueueNext
<1>7. SignalsTypeOK'
  BY DEF signalVars, SignalsTypeOK, ManagerInv
<1>8. QED
  BY <1>1, <1>2, <1>3, <1>5, <1>6, <1>7 DEF ManagerInv, Kept

LEMMA DequeueNextKept ==
  ASSUME ManagerInv, NEW t \in Threads, DequeueNext(t)
  PROVE  Kept
<1> DEFINE f == [call[t] EXCEPT !.pc = "markLeased"]
<1>1. call[t] \in Frame /\ call[t].run \in Runs /\ FrameTokens(call[t], Own)
  BY InMethod DEF DequeueNext, FrameShape
<1>2. FrameShape(f) /\ FrameTokens(f, Own) /\ f.pc # "enqueue"
  <2>1. Continues(call[t], f, "markLeased", call[t].seen)
    BY <1>1, Going
  <2> HIDE DEF f
  <2>2. QED
    BY <1>1, <2>1 DEF FrameShape, FrameTokens, Continues
<1>3. /\ call' = [call EXCEPT ![t] = f]
      /\ UNCHANGED <<leaseVars, signalVars, runs>>
      /\ Dequeue(UserOf[call[t].run]) /\ UserOf[call[t].run] \in Users
  BY <1>1, ManagerAssumption DEF DequeueNext, Goto
<1>4. QED
  <2> HIDE DEF f
  <2>1. QED
    BY <1>2, <1>3, QueueStep

LEMMA RemoveQueuedKept ==
  ASSUME ManagerInv, NEW t \in Threads, RemoveQueued(t)
  PROVE  Kept
<1> DEFINE f == [call[t] EXCEPT !.pc = AfterRemove(call[t].seen)]
<1>1. /\ call[t] \in Frame /\ call[t].run \in Runs /\ FrameTokens(call[t], Own)
      /\ call[t].op \in Settling
      /\ call[t].op \in {"cancel", "timeout"} => call[t].reason \in Reasons
  BY InMethod DEF RemoveQueued, FrameShape
<1>2. AfterRemove(call[t].seen) \in {"release", "signal"}
  BY DEF AfterRemove
<1>3. FrameShape(f) /\ FrameTokens(f, Own) /\ f.pc # "enqueue"
  <2>1. Continues(call[t], f, AfterRemove(call[t].seen), call[t].seen)
    BY <1>1, <1>2, Going
  <2> HIDE DEF f
  <2>2. QED
    BY <1>1, <1>2, <2>1 DEF FrameShape, FrameTokens, Continues
<1>4. /\ call' = [call EXCEPT ![t] = f]
      /\ UNCHANGED <<leaseVars, signalVars, runs>>
      /\ RemoveFromQueue(call[t].run)
  BY DEF RemoveQueued, Goto
<1>5. QED
  <2> HIDE DEF f
  <2>1. QED
    BY <1>1, <1>3, <1>4, QueueStep

LEMMA EnqueueRunKept ==
  ASSUME ManagerInv, NEW t \in Threads, EnqueueRun(t)
  PROVE  Kept
<1> DEFINE r == call[t].run
           u == UserOf[r]
           seen == [NoRun EXCEPT !.state = "QUEUED",
                                 !.queuePosition = Len(queues[u])]
           f == [call[t] EXCEPT !.pc = "setPosition", !.seen = seen]
<1>1. /\ call \in [Threads -> Frame] /\ call[t] \in Frame /\ r \in Runs
      /\ FrameTokens(call[t], Own) /\ u \in Users /\ <<NoToken, r>> \in Own
      /\ Enqueuing(t)
  BY InMethod, ManagerAssumption DEF EnqueueRun, FrameShape, Enqueuing
<1>2. queues \in [Users -> Seq(Runs)] /\ Len(queues[u]) \in Nat
  BY <1>1, LenProperties DEF ManagerInv, QueueInv, QueueTypeOK
<1>3. seen \in RunRecord /\ seen.leaseToken = NoToken
  BY <1>2 DEF NoRun, RunRecord, RunState
<1>4. FrameShape(f) /\ FrameTokens(f, Own) /\ f.pc # "enqueue"
  <2> HIDE DEF seen
  <2>1. Continues(call[t], f, "setPosition", seen)
    BY <1>1, <1>3, Resuming
  <2> HIDE DEF f
  <2>2. QED
    BY <1>1, <1>3, <2>1 DEF FrameShape, FrameTokens, Continues
<1>5. /\ call' = [call EXCEPT ![t] = f] /\ Enqueue(r, u)
      /\ UNCHANGED <<leaseVars, signalVars, runs>>
  BY DEF EnqueueRun
<1> HIDE DEF f, seen
<1>6. EnqueueFresh(r, u)
  BY <1>1, <1>5 DEF EnqueueFresh, ManagerInv, FreshRuns
<1>7. [QueueNext]_queueVars /\ QueueInv'
  BY <1>1, <1>6, QueueInvStep DEF QueueNext, ManagerInv
<1>8. Own' = Own /\ LeasesInLane' /\ LeaseInv'
  BY <1>5, LanesKept, LeaseInvStep DEF leaseVars, Own, ManagerInv
<1>9. RunsOK'
  BY <1>5, <1>8, RunsKept
<1>10. call' \in [Threads -> Frame] /\ FramesOK'
  BY <1>4, <1>5, <1>8, FramesKept
<1>11. \A v \in Users, s \in Runs :
         s \in ToSet(queues'[v]) => s \in ToSet(queues[v]) \/ s = r
  BY <1>1, <1>5, EnqueueAdds DEF ManagerInv
<1>12. FreshRuns'
  <2>1. /\ \A s \in Threads \ {t} : call'[s] = call[s]
        /\ call'[t].pc # "enqueue" /\ runs' = runs
    BY <1>1, <1>4, <1>5
  <2>2. \A s \in Threads : call'[s].pc = "enqueue" =>
          Enqueuing(s) /\ call[s].run \in Runs /\ call[s].run # r
                       /\ call'[s] = call[s]
    BY <1>1, <2>1 DEF ManagerInv, FramesOK, FrameShape, FreshRuns, Enqueuing
  <2>3. runs[r].state # "NONE"
    BY <1>1 DEF ManagerInv, FreshRuns
  <2>4. QED
    BY <1>11, <2>1, <2>2, <2>3 DEF ManagerInv, FreshRuns, Enqueuing
<1>13. SignalsTypeOK'
  BY <1>5 DEF signalVars, SignalsTypeOK, ManagerInv
<1>14. [LeaseNext]_leaseVars
  BY <1>5
<1>15. QED
  BY <1>7, <1>8, <1>9, <1>10, <1>12, <1>13, <1>14 DEF ManagerInv, Kept

-----------------------------------------------------------------------------
(* The actions that call the lease manager, and the clock.                   *)

\* What a step of the lease manager's keeps, whatever it does to call.
LEMMA LeaseStep ==
  ASSUME ManagerInv, [LeaseNext]_leaseVars,
         UNCHANGED <<queueVars, signalVars, runs>>
  PROVE  /\ Own \subseteq Own' /\ LeaseInv' /\ QueueInv'
         /\ SignalsTypeOK' /\ RunsOK' /\ [QueueNext]_queueVars
<1>1. LeaseInv /\ QueueInv
  BY DEF ManagerInv
<1>2. Own \subseteq Own' /\ LeaseInv' /\ QueueInv'
  BY <1>1, OwnGrows, LeaseInvStep, QueueInvStep
<1>3. QED
  BY <1>2, RunsKept DEF signalVars, SignalsTypeOK, ManagerInv

LEMMA LeaseNextRunKept ==
  ASSUME ManagerInv, NEW t \in Threads, LeaseNextRun(t)
  PROVE  Kept
<1> DEFINE r == call[t].run
           u == UserOf[r]
           f == IF CanAcquire(u)
                  THEN [call[t] EXCEPT !.pc = "dequeue", !.token = NextToken]
                  ELSE [call[t] EXCEPT !.pc = "done", !.run = None]
<1>1. /\ call \in [Threads -> Frame] /\ call[t] \in Frame /\ r \in Runs
      /\ FrameTokens(call[t], Own) /\ u \in Users
  BY InMethod, ManagerAssumption DEF LeaseNextRun, FrameShape
<1>2. /\ call' = [call EXCEPT ![t] = f] /\ Acquire(u, r)
      /\ UNCHANGED <<queueVars, signalVars, runs>>
  <2>1. QED
    BY <1>1 DEF LeaseNextRun
<1>3. [LeaseNext]_leaseVars
  BY <1>1, <1>2 DEF LeaseNext
<1>4. /\ Own \subseteq Own' /\ LeaseInv' /\ QueueInv'
      /\ SignalsTypeOK' /\ RunsOK' /\ [QueueNext]_queueVars
  BY <1>2, <1>3, LeaseStep
<1>5. LeaseInv
  BY DEF ManagerInv
<1>6. \A v \in Users : leases'[v] # None =>
        \/ leases[v] # None /\ leases'[v].runId = leases[v].runId
                            /\ leases'[v].token = leases[v].token
        \/ CanAcquire(u) /\ v = u /\ leases'[v].runId = r
  BY <1>1, <1>2, <1>5 DEF Acquire, leaseVars, LeaseInv, LeaseTypeOK
<1>7. LeasesInLane'
  BY <1>6 DEF LeasesInLane, ManagerInv
<1>8. CanAcquire(u) => NextToken \in Tokens /\ <<NextToken, r>> \in Own'
  <2> SUFFICES ASSUME CanAcquire(u)
               PROVE  NextToken \in Tokens /\ <<NextToken, r>> \in Own'
    OBVIOUS
  <2>1. /\ issued \in Nat /\ issued' = NextToken /\ NextToken = issued + 1
        /\ NextToken \in Tokens /\ NextToken \in 0..issued'
    BY <1>2, <1>5, MaxTokensAssumption
       DEF Acquire, NextToken, Tokens, LeaseInv, LeaseTypeOK
  <2>2. \A v \in Users : leases[v] # None => leases[v].token # NextToken
    BY <1>5, <2>1, TokenOfLease DEF LeaseInv, TokensFromIssued, Tokens
  <2>3. \A v \in Users : leases'[v] # None /\ leases'[v].token = NextToken
                           => leases'[v].runId = r
    BY <1>6, <2>2
  <2>4. QED
    BY <1>1, <2>1, <2>3 DEF Own
<1>9. FrameShape(f) /\ FrameTokens(f, Own') /\ f.pc # "enqueue"
  <2>1. CASE CanAcquire(u)
    <3>1. f = [call[t] EXCEPT !.pc = "dequeue", !.token = NextToken]
      BY <2>1
    <3>2. <<call[t].seen.leaseToken, r>> \in Own'
      BY <1>1, <1>4 DEF FrameTokens
    <3> HIDE DEF f, u
    <3>3. QED
      BY <1>1, <1>8, <2>1, <3>1, <3>2 DEF FrameShape, FrameTokens, Frame
  <2>2. CASE ~CanAcquire(u)
    <3>1. f = [call[t] EXCEPT !.pc = "done", !.run = None]
      BY <2>2
    <3> HIDE DEF f, u
    <3>2. QED
      BY <1>1, <3>1, NoneAssumption DEF FrameShape, FrameTokens, Frame
  <2>3. QED
    BY <2>1, <2>2
<1> HIDE DEF f
<1>10. call' \in [Threads -> Frame] /\ FramesOK'
  BY <1>2, <1>4, <1>9, FramesKept
<1>11. FreshRuns'
  BY <1>2, <1>9, FreshKept DEF queueVars
<1>12. QED
  BY <1>3, <1>4, <1>7, <1>10, <1>11 DEF ManagerInv, Kept

\* What the release of a run's own token does.
LEMMA ReleaseOwn ==
  ASSUME ManagerInv, NEW k, NEW r \in Runs, <<k, r>> \in Own, Release(k)
  PROVE  /\ [LeaseNext]_leaseVars
         /\ \A u \in Users : leases'[u] # leases[u] =>
              leases[u] # None /\ leases[u].runId = r /\ leases'[u] = None
<1>1. LeaseInv /\ leases \in [Users -> Lease \cup {None}] /\ k \in 0..issued
      /\ issued \in Nat
  BY DEF ManagerInv, LeaseInv, LeaseTypeOK, Own
<1>2. CASE UNCHANGED leaseVars
  BY <1>2 DEF leaseVars
<1>3. ASSUME NEW v \in Users, OwnsLease(k, v), Drop(v)
      PROVE  /\ [LeaseNext]_leaseVars
             /\ \A u \in Users : leases'[u] # leases[u] =>
                  leases[u] # None /\ leases[u].runId = r /\ leases'[u] = None
  <2>1. k \in 1..issued
    BY <1>1, <1>3 DEF OwnsLease, Tokens
  <2>2. leases[v].runId = r /\ leases[v] # None
    BY <1>3 DEF Own, OwnsLease
  <2>3. QED
    BY <1>1, <1>3, <2>1, <2>2 DEF Drop, LeaseNext, Release
<1>4. QED
  BY <1>2, <1>3 DEF Release

LEMMA ReleaseLeaseKept ==
  ASSUME ManagerInv, NEW t \in Threads, ReleaseLease(t)
  PROVE  Kept
<1> DEFINE r == call[t].run
           f == [call[t] EXCEPT !.pc = "signal", !.seen = NoRun]
<1>1. /\ call[t] \in Frame /\ r \in Runs /\ call[t].op \in Settling
      /\ call[t].op \in {"cancel", "timeout"} => call[t].reason \in Reasons
      /\ FrameTokens(call[t], Own) /\ <<NoToken, r>> \in Own
  BY InMethod DEF ReleaseLease, FrameShape
<1>2. /\ call' = [call EXCEPT ![t] = f] /\ Release(call[t].seen.leaseToken)
      /\ UNCHANGED <<queueVars, signalVars, runs>>
  BY DEF ReleaseLease, Forget
<1>3. FrameShape(f) /\ FrameTokens(f, Own) /\ f.pc # "enqueue"
  <2>1. Continues(call[t], f, "signal", NoRun)
    BY <1>1, NoRunIsRecord, Resuming
  <2> HIDE DEF f
  <2>2. QED
    BY <1>1, NoRunIsRecord, <2>1 DEF FrameShape, FrameTokens, Continues
<1> HIDE DEF f
<1>4. /\ [LeaseNext]_leaseVars
      /\ \A u \in Users : leases'[u] # None => leases'[u] = leases[u]
  BY <1>1, <1>2, ReleaseOwn DEF FrameTokens
<1>5. /\ Own \subseteq Own' /\ LeaseInv' /\ QueueInv'
      /\ SignalsTypeOK' /\ RunsOK' /\ [QueueNext]_queueVars
  BY <1>2, <1>4, LeaseStep
<1>6. LeasesInLane'
  BY <1>4, LanesKept
<1>7. FrameTokens(f, Own')
  BY <1>3, <1>5 DEF FrameTokens
<1>8. call' \in [Threads -> Frame] /\ FramesOK'
  BY <1>2, <1>3, <1>5, <1>7, FramesKept
<1>9. FreshRuns'
  BY <1>2, <1>3, FreshKept DEF queueVars
<1>10. QED
  BY <1>4, <1>5, <1>6, <1>8, <1>9 DEF ManagerInv, Kept

LEMMA LeaseExpiresKept ==
  ASSUME ManagerInv, NEW u \in Users, LeaseExpires(u)
  PROVE  Kept
<1>1. Expire(u) /\ UNCHANGED <<queueVars, signalVars, runs, call>>
  BY DEF LeaseExpires
<1>2. [LeaseNext]_leaseVars
  BY <1>1 DEF LeaseNext
<1>3. /\ Own \subseteq Own' /\ LeaseInv' /\ QueueInv'
      /\ SignalsTypeOK' /\ RunsOK' /\ [QueueNext]_queueVars
  BY <1>1, <1>2, LeaseStep
<1>4. \A v \in Users, r \in Runs : ~(CanAcquire(v) /\ Acquire(v, r))
  BY <1>1, MaxTokensAssumption
     DEF Expire, Acquire, NextToken, ManagerInv, LeaseInv, LeaseTypeOK
<1>5. LeasesInLane'
  BY <1>2, <1>4, LeaseOrigin, LanesKept DEF ManagerInv
<1>6. call' \in [Threads -> Frame] /\ FramesOK'
  BY <1>1, <1>3 DEF ManagerInv, FramesOK, FrameTokens
<1>7. FreshRuns'
  BY <1>1 DEF ManagerInv, FreshRuns, Enqueuing, queueVars
<1>8. QED
  BY <1>2, <1>3, <1>5, <1>6, <1>7 DEF ManagerInv, Kept

-----------------------------------------------------------------------------
LEMMA ManagerNextKept ==
  ASSUME ManagerInv, [ManagerNext]_managerVars
  PROVE  Kept
<1>1. CASE UNCHANGED managerVars
  <2>1. /\ UNCHANGED <<queueVars, leaseVars, runs>>
        /\ UNCHANGED call /\ UNCHANGED signalVars
    BY <1>1 DEF managerVars, storeVars
  <2>2. /\ queues' = queues /\ leases' = leases /\ issued' = issued
        /\ Own' = Own
    BY <2>1 DEF queueVars, leaseVars, Own
  <2>3. QueueInv' /\ LeaseInv' /\ SignalsTypeOK'
    BY <2>1, QueueInvStep, LeaseInvStep
       DEF ManagerInv, signalVars, SignalsTypeOK
  <2>4. FramesOK' /\ RunsOK' /\ FreshRuns' /\ LeasesInLane'
    BY <2>1, <2>2
       DEF ManagerInv, FramesOK, RunsOK, FreshRuns, Enqueuing, LeasesInLane
  <2>5. QED
    BY <2>1, <2>3, <2>4 DEF ManagerInv, Kept
<1>2. ASSUME NEW t \in Tasks, Returns(t)
      PROVE  Kept
  BY <1>2, ReturnKept DEF Returns, Threads
<1>3. ASSUME NEW t \in Threads, PlainStep(t)
      PROVE  Kept
  BY <1>3, EnqueueRunKept, SetQueuePositionKept, LeaseNextRunKept,
     DequeueNextKept, MarkLeasedKept, RemoveQueuedKept, ReleaseLeaseKept,
     WriteTransitionKept, RereadRunKept, BeginRunKept DEF PlainStep
<1>4. ASSUME NEW r \in Runs, TimerReturns(r)
      PROVE  Kept
  BY <1>4, ReturnKept DEF TimerReturns, Threads
<1>5. QED
  BY <1>1, <1>2, <1>3, <1>4, CallsKept, SignalStepKept, TimerFiresKept,
     LeaseExpiresKept DEF ManagerNext

LEMMA ManagerInitInv == ManagerInit => ManagerInv
<1> SUFFICES ASSUME ManagerInit  PROVE ManagerInv
  OBVIOUS
<1>1. QueueInit /\ LeaseInit /\ SignalsInit
      /\ runs = [r \in Runs |-> NoRun] /\ call = [t \in Threads |-> IdleFrame]
  BY DEF ManagerInit
<1>2. QueueInv /\ LeaseInv
  BY <1>1, QueueInitInv, LeaseInitInv
<1>3. SignalsTypeOK
  BY <1>1 DEF SignalsInit, SignalsTypeOK
<1>4. FrameShape(IdleFrame) /\ FrameTokens(IdleFrame, Own) /\ IdleFrame.pc = "idle"
  BY NoneAssumption, NoRunIsRecord DEF IdleFrame, FrameShape, FrameTokens, Frame
<1>5. call \in [Threads -> Frame] /\ FramesOK
  BY <1>1, <1>4 DEF FramesOK, FrameShape
<1>6. RunsOK
  BY <1>1, <1>2, NoRunIsRecord, NoTokenIsOwn DEF RunsOK
<1>7. \A u \in Users : ToSet(queues[u]) = {}
  BY <1>1 DEF QueueInit, ToSet
<1>8. FreshRuns
  BY <1>1, <1>4, <1>7 DEF FreshRuns, Enqueuing
<1>9. LeasesInLane
  BY <1>1 DEF LeaseInit, LeasesInLane
<1>10. QED
  BY <1>2, <1>3, <1>5, <1>6, <1>8, <1>9 DEF ManagerInv

\* The invariant behind the theorems: the stores' own invariants; frames that
\* are in a step of their method, with tokens that are their run's own; no
\* run is enqueued twice; leases are in the lane of their run.
THEOREM ManagerInvariant == ManagerSpec => []ManagerInv
<1>1. ManagerInit => ManagerInv
  BY ManagerInitInv
<1>2. ManagerInv /\ [ManagerNext]_managerVars => ManagerInv'
  BY ManagerNextKept DEF Kept
<1>3. QED
  BY <1>1, <1>2, PTL DEF ManagerSpec

\* Type correctness of the repository, the method frames and every store.
THEOREM ManagerTypes == ManagerSpec => []ManagerTypeOK
<1>1. ManagerInv => ManagerTypeOK
  BY DEF ManagerInv, ManagerTypeOK, QueueInv, LeaseInv, RunsOK
<1>2. QED
  BY <1>1, ManagerInvariant, PTL

\* Whatever its callers do and however long the stores take, the manager
\* calls the queue and the lease manager as their contracts ask: what
\* run-manager.ts does to either is a behaviour of QueueSpec and LeaseSpec.
THEOREM StoresContracts == ManagerSpec => QueueSpec /\ LeaseSpec
<1>1. ManagerInit => QueueInit /\ LeaseInit
  BY DEF ManagerInit
<1>2. ManagerInv /\ [ManagerNext]_managerVars
        => [QueueNext]_queueVars /\ [LeaseNext]_leaseVars
  BY ManagerNextKept DEF Kept
<1>3. QED
  BY <1>1, <1>2, ManagerInvariant, PTL DEF ManagerSpec, QueueSpec, LeaseSpec

\* So a lane of the manager is served first come, first served, ...
THEOREM LanesAreFifo == ManagerSpec => NoOvertaking
BY StoresContracts, Fifo, PTL

\* ... and no live lease is taken from its run.
THEOREM LeasesAreKept == ManagerSpec => LiveLeaseNotStolen
BY StoresContracts, NoTheft, PTL

\* A token stored with a run names, at any later time, that run's lease in
\* that run's lane or none.
THEOREM OwnTokens == ManagerSpec => []TokensAreOwn
<1>1. ManagerInv => TokensAreOwn
  BY DEF ManagerInv, RunsOK, LeasesInLane, Own, TokensAreOwn
<1>2. QED
  BY <1>1, ManagerInvariant, PTL

\* The token that cancelRun, timeoutRun, completeRun and failRun release was
\* read an await earlier, and is never another run's lease by then.
THEOREM OwnLeases == ManagerSpec => ReleasesOnlyOwnLease
<1> DEFINE OthersKept == \A t \in Threads :
             call[t].pc = "release" /\ call'[t].pc = "signal" =>
               \A u \in Users : leases[u] # None /\ leases[u].runId # call[t].run
                                  => leases'[u] = leases[u]
<1>1. ManagerInv /\ [ManagerNext]_managerVars => [OthersKept]_managerVars
  <2> SUFFICES ASSUME ManagerInv, ManagerNext, NEW t \in Threads,
                      call[t].pc = "release", call'[t].pc = "signal",
                      NEW u \in Users, leases[u] # None,
                      leases[u].runId # call[t].run
               PROVE  leases'[u] = leases[u]
    OBVIOUS
  <2>1. /\ call \in [Threads -> Frame] /\ call[t] \in Frame
        /\ call[t].run \in Runs /\ FrameTokens(call[t], Own)
    BY InMethod DEF FrameShape
  <2>2. CASE ReleaseLease(t)
    BY <2>1, <2>2, ReleaseOwn DEF ReleaseLease, FrameTokens
  <2>3. ASSUME NEW s \in Threads,
               \A x \in Threads \ {s} : call'[x] = call[x]
        PROVE  s = t
    BY <2>3
  <2>4. ASSUME NEW s \in Threads, NEW f, Begin(s, f)
        PROVE  FALSE
    <3>1. call[s].pc = "idle" /\ \A x \in Threads \ {s} : call'[x] = call[x]
      BY <2>1, <2>4 DEF Begin, Idle, IdleFrame
    <3>2. QED
      BY <2>1, <2>3, <3>1
  <2>5. ASSUME NEW s \in Threads,
               call[s].pc \in {"done", "threw"},
               call' = [call EXCEPT ![s] = IdleFrame]
        PROVE  FALSE
    BY <2>1, <2>3, <2>5
  <2>6. ASSUME NEW s \in Threads, PlainStep(s) \/ SignalStep(s)
        PROVE  ReleaseLease(t)
    <3>1. \A x \in Threads \ {s} : call'[x] = call[x]
      BY <2>1, <2>6
         DEF PlainStep, EnqueueRun, SetQueuePosition, LeaseNextRun, DequeueNext,
             MarkLeased, RemoveQueued, ReleaseLease, SignalStep,
             WriteTransition, RereadRun, BeginRun, Goto, Forget
    <3>2. s = t
      BY <2>3, <3>1
    <3>3. QED
      BY <2>6, <3>2
         DEF PlainStep, EnqueueRun, SetQueuePosition, LeaseNextRun, DequeueNext,
             MarkLeased, RemoveQueued, SignalStep, WriteTransition, RereadRun,
             BeginRun
  <2>7. ASSUME NEW s \in Tasks, Calls(s)
        PROVE  FALSE
    BY <2>4, <2>7 DEF Calls, BeginCreate, Threads
  <2>8. ASSUME NEW r \in Runs, TimerFires(r)
        PROVE  FALSE
    BY <2>4, <2>8 DEF TimerFires, Threads
  <2>9. QED
    BY <2>2, <2>5, <2>6, <2>7, <2>8
       DEF ManagerNext, Returns, TimerReturns, LeaseExpires, Threads
<1>2. QED
  BY <1>1, ManagerInvariant, PTL DEF ManagerSpec, ReleasesOnlyOwnLease

-----------------------------------------------------------------------------
(***************************************************************************)
(* RunManager when the stores settle at once, as the in-memory stores do:   *)
(* a chain of awaits is the only one under way, so what a method has read   *)
(* is still so when it writes, and between callbacks the queue, the timers, *)
(* the contexts and the leases agree with the states of the runs.           *)
(***************************************************************************)

Waits(r) == r \in ToSet(queues[UserOf[r]])

\* How the queue and the signal registries see a run nobody is working on.
AtRest(r) ==
  /\ Waits(r) <=> runs[r].state = "QUEUED"
  /\ r \in timers <=> runs[r].state = "RUNNING"
  /\ runs[r].state = "RUNNING" => contexts[r] = "open"

\* Neither queued nor scheduled.
Out(r) == ~Waits(r) /\ r \notin timers

\* A run on its way to a terminal state: a timeout has lost its timer, a
\* cancelled run its place in the queue.
Stopping(f) ==
  LET r == f.run
      s == runs[r].state IN
  /\ f.op \in Settling /\ s # "NONE"
  /\ Waits(r) <=> s = "QUEUED" /\ f.op \in {"complete", "fail"}
  /\ r \in timers <=> s = "RUNNING" /\ f.op # "timeout"
  /\ f.op = "cancel" => s \in {"QUEUED", "LEASED", "RUNNING"}
  /\ f.op = "timeout" => s = "RUNNING"
  /\ f.pc # "write" /\ s = "RUNNING" => contexts[r] = "open"

\* The state a method leaves its run in when it resolves.
Outcome(f) ==
  LET s == runs[f.run].state IN
  CASE f.op = "create"              -> s = "QUEUED"
    [] f.op = "acquire"             -> s = "LEASED"
    [] f.op \in {"cancel", "timeout"} -> f.seen = runs[f.run] /\ isTerminalState(s)
    [] f.op = "get"                 -> f.seen = runs[f.run]
    [] OTHER                        -> f.seen = runs[f.run] /\ s = Target(f.op)

\* What a method knows of its run at each of its steps.
Hand(f) ==
  LET r == f.run
      s == runs[r].state IN
  /\ f.pc = "idle" => f = IdleFrame
  /\ f.pc # "idle" /\ r = None => f.op = "acquire" /\ f.pc = "done"
  /\ f.pc = "enqueue" => f.op = "create" /\ s = "QUEUED" /\ Out(r)
  /\ f.pc = "setPosition" => f.op = "create" /\ s = "QUEUED" /\ AtRest(r)
  /\ f.pc \in {"lease", "dequeue"} =>
       /\ f.op = "acquire" /\ s = "QUEUED" /\ AtRest(r)
       /\ queues[UserOf[r]] # << >> /\ Head(queues[UserOf[r]]) = r
  /\ f.pc = "markLeased" => f.op = "acquire" /\ s = "QUEUED" /\ Out(r)
  /\ f.pc = "remove" =>
       f.op = "cancel" /\ s = "QUEUED" /\ AtRest(r) /\ f.seen = runs[r]
  /\ f.pc = "release" => Stopping(f) /\ f.seen = runs[r] /\ s # "QUEUED"
  /\ f.pc = "signal" => Stopping(f)
  /\ f.pc = "write" =>
       /\ f.seen = runs[r] /\ s # "NONE"
       /\ Stopping(f) \/ (f.op = "start" /\ AtRest(r))
  /\ f.pc = "reread" =>
       f.op \in Settling \cup {"start"} /\ s = Target(f.op) /\ Out(r)
  /\ f.pc = "begin" =>
       f.op = "start" /\ s = "RUNNING" /\ f.seen = runs[r] /\ Out(r)
  /\ f.pc = "done" /\ r # None => f.op # "none" /\ AtRest(r) /\ Outcome(f)
  /\ f.pc = "threw" =>
       /\ f.op \in {"start", "complete", "fail"} /\ AtRest(r) /\ s # "NONE"
       /\ ~isValidStateTransition(s, Target(f.op))

\* One chain of awaits is under way, at most.
OneChain == \A s, t \in Threads : ~Idle(s) /\ ~Idle(t) => s = t

\* A run is given a token when it is leased, and waits in its own lane.
QueuedRuns ==
  /\ \A r \in Runs :
       /\ runs[r].state = "NONE" => runs[r] = NoRun
       /\ runs[r].state = "QUEUED" => runs[r].leaseToken = NoToken
  /\ \A u \in Users, r \in Runs : r \in ToSet(queues[u]) => UserOf[r] = u

SettledInv ==
  /\ OneChain /\ QueuedRuns
  /\ \A t \in Threads : Hand(call[t])
  /\ \A r \in Runs :
       AtRest(r) \/ \E t \in Threads : call[t].run = r /\ ~Between(call[t])

-----------------------------------------------------------------------------
LEMMA RestOfThem ==
  ASSUME SettledInv, NEW t \in Threads, call[t].pc # "idle"
  PROVE  /\ Hand(call[t])
         /\ \A s \in Threads \ {t} : call[s] = IdleFrame
         /\ \A r \in Runs : r # call[t].run \/ Between(call[t]) => AtRest(r)
<1>1. Hand(call[t]) /\ call[t] # IdleFrame
  BY DEF SettledInv, IdleFrame
<1>2. \A s \in Threads \ {t} : call[s] = IdleFrame
  BY <1>1 DEF SettledInv, OneChain, Idle
<1>3. ASSUME NEW r \in Runs, r # call[t].run \/ Between(call[t])
      PROVE  AtRest(r)
  <2>1. IdleFrame.pc = "idle"
    BY DEF IdleFrame
  <2>2. ~\E s \in Threads : call[s].run = r /\ ~Between(call[s])
    BY <1>2, <1>3, <2>1 DEF Between
  <2>3. QED
    BY <2>2 DEF SettledInv
<1>4. QED
  BY <1>1, <1>2, <1>3

LEMMA AllAtRest ==
  ASSUME SettledInv, \A t \in Threads : Between(call[t])
  PROVE  \A r \in Runs : AtRest(r)
BY DEF SettledInv

LEMMA NoHand == Hand(IdleFrame) /\ Between(IdleFrame)
BY DEF Hand, Between, IdleFrame

\* The invariant after a step that leaves t alone under way, in frame f.
LEMMA OneLeft ==
  ASSUME NEW t \in Threads, NEW f, call'[t] = f, Hand(f)',
         \A s \in Threads \ {t} : call'[s] = IdleFrame,
         \A r \in Runs : r # f.run \/ Between(f) => AtRest(r)',
         QueuedRuns'
  PROVE  SettledInv'
<1>1. \A s \in Threads : (s = t /\ call'[s] = f) \/ call'[s] = IdleFrame
  OBVIOUS
<1>2. OneChain'
  BY <1>1 DEF OneChain, Idle
<1>3. \A s \in Threads : Hand(call[s])'
  <2> SUFFICES ASSUME NEW s \in Threads  PROVE Hand(call[s])'
    OBVIOUS
  <2>1. Hand(IdleFrame)'
    BY DEF Hand, IdleFrame, NoRun
  <2>2. CASE call'[s] = IdleFrame
    BY <2>1, <2>2 DEF Hand
  <2>3. CASE s = t
    BY <2>3 DEF Hand
  <2>4. QED
    BY <1>1, <2>2, <2>3
<1>4. QED
  BY <1>2, <1>3 DEF SettledInv, Between

\* A step has nothing to do with run r.
Untouched(r) ==
  /\ runs'[r] = runs[r]
  /\ r \in timers' <=> r \in timers
  /\ contexts'[r] = contexts[r]
  /\ \A u \in Users : r \in ToSet(queues'[u]) <=> r \in ToSet(queues[u])

LEMMA UntouchedRests ==
  ASSUME NEW r \in Runs, AtRest(r), Untouched(r)
  PROVE  AtRest(r)'
BY ManagerAssumption DEF AtRest, Untouched, Waits

LEMMA QueuedRunsKept ==
  ASSUME QueuedRuns, NEW r \in Runs,
         \A s \in Runs \ {r} : Untouched(s),
         \A u \in Users : r \in ToSet(queues'[u]) => u = UserOf[r],
         runs'[r].state = "NONE" => runs'[r] = NoRun,
         runs'[r].state = "QUEUED" => runs'[r].leaseToken = NoToken
  PROVE  QueuedRuns'
<1>1. ASSUME NEW s \in Runs
      PROVE  /\ runs'[s].state = "NONE" => runs'[s] = NoRun
             /\ runs'[s].state = "QUEUED" => runs'[s].leaseToken = NoToken
             /\ \A u \in Users : s \in ToSet(queues'[u]) => UserOf[s] = u
  BY DEF Untouched, QueuedRuns
<1>2. QED
  BY <1>1 DEF QueuedRuns

\* A step inside a method.
LEMMA SegmentKept ==
  ASSUME SettledInv, call \in [Threads -> Frame], NEW t \in Threads,
         call[t].pc # "idle",
         NEW f, NEW r \in Runs, call[t].run = r, f.run = r,
         call' = [call EXCEPT ![t] = f], Hand(f)',
         \A s \in Runs \ {r} : Untouched(s),
         \A u \in Users : r \in ToSet(queues'[u]) => u = UserOf[r],
         runs'[r].state = "NONE" => runs'[r] = NoRun,
         runs'[r].state = "QUEUED" => runs'[r].leaseToken = NoToken
  PROVE  SettledInv'
<1>1. QueuedRuns'
  BY QueuedRunsKept DEF SettledInv
<1>2. call'[t] = f /\ \A s \in Threads \ {t} : call'[s] = IdleFrame
  BY RestOfThem
<1>3. \A s \in Runs \ {r} : AtRest(s)'
  BY RestOfThem, UntouchedRests
<1>4. Between(f) => AtRest(r)'
  BY NoneAssumption DEF Hand, Between, IdleFrame
<1>5. QED
  BY <1>1, <1>2, <1>3, <1>4, OneLeft

-----------------------------------------------------------------------------
(* The steps inside the methods.                                             *)

LEMMA EnqueueRunSettled ==
  ASSUME ManagerInv, SettledInv, NEW t \in Threads, EnqueueRun(t)
  PROVE  SettledInv'
<1> DEFINE u == UserOf[call[t].run]
           seen == [NoRun EXCEPT !.state = "QUEUED",
                                 !.queuePosition = Len(queues[u])]
<1>1. /\ call[t] \in Frame /\ call[t].run \in Runs /\ call[t].pc = "enqueue"
      /\ call \in [Threads -> Frame]
  BY InMethod DEF EnqueueRun, FrameShape
<1>2. seen \in RunRecord
  <2>1. queues \in [Users -> Seq(Runs)] /\ u \in Users
    BY <1>1, ManagerAssumption DEF ManagerInv, QueueInv, QueueTypeOK
  <2>2. Len(queues[u]) \in Nat
    BY <2>1, LenProperties
  <2>3. QED
    BY <2>2 DEF NoRun, RunRecord, RunState
<1>3. PICK r \in Runs : r = call[t].run
  BY <1>1
<1>4. PICK f \in Frame :
        /\ call' = [call EXCEPT ![t] = f]
        /\ f.pc = "setPosition" /\ f.op = call[t].op /\ f.run = r
  <2> DEFINE g == [call[t] EXCEPT !.pc = "setPosition", !.seen = seen]
  <2>1. call' = [call EXCEPT ![t] = g]
    BY DEF EnqueueRun
  <2>2. Continues(call[t], g, "setPosition", seen)
    <3> HIDE DEF seen
    <3> QED  BY <1>1, <1>2, Resuming
  <2> HIDE DEF g
  <2>3. QED
    BY <1>3, <2>1, <2>2 DEF Continues
<1>5. /\ call[t].op = "create" /\ runs[r].state = "QUEUED" /\ Out(r)
      /\ QueuedRuns
  BY <1>1, <1>3, NoneAssumption, RestOfThem DEF Hand, SettledInv
<1>6. /\ runs' = runs /\ timers' = timers /\ contexts' = contexts
      /\ Enqueue(r, UserOf[r]) /\ UserOf[r] \in Users
  BY <1>3, ManagerAssumption DEF EnqueueRun, signalVars
<1>7. \A v \in Users, s \in Runs : s \in ToSet(queues'[v])
        <=> s \in ToSet(queues[v]) \/ (v = UserOf[r] /\ s = r)
  BY <1>6, EnqueueAdds DEF ManagerInv
<1>8. AtRest(r)'
  BY <1>5, <1>6, <1>7 DEF AtRest, Out, Waits
<1>9. Hand(f)'
  BY <1>4, <1>5, <1>6, <1>8, NoneAssumption DEF Hand
<1>10. /\ \A s \in Runs \ {r} : Untouched(s)
       /\ \A v \in Users : r \in ToSet(queues'[v]) => v = UserOf[r]
  BY <1>5, <1>6, <1>7 DEF Untouched, QueuedRuns
<1>11. QED
  BY <1>1, <1>3, <1>4, <1>5, <1>6, <1>9, <1>10, SegmentKept DEF QueuedRuns

LEMMA SetQueuePositionSettled ==
  ASSUME ManagerInv, SettledInv, NEW t \in Threads, SetQueuePosition(t)
  PROVE  SettledInv'
<1>1. /\ call[t] \in Frame /\ call[t].run \in Runs /\ call[t].pc = "setPosition"
      /\ call \in [Threads -> Frame] /\ runs \in [Runs -> RunRecord]
  BY InMethod DEF SetQueuePosition, FrameShape
<1>2. PICK r \in Runs : r = call[t].run
  BY <1>1
<1>3. PICK f \in Frame : call' = [call EXCEPT ![t] = f]
                         /\ Continues(call[t], f, "done", call[t].seen)
  <2> DEFINE g == [call[t] EXCEPT !.pc = "done"]
  <2>1. call' = [call EXCEPT ![t] = g]
    BY DEF SetQueuePosition, Goto
  <2>2. Continues(call[t], g, "done", call[t].seen)
    BY <1>1, Going
  <2> HIDE DEF g
  <2>3. QED
    BY <2>1, <2>2 DEF Continues
<1>4. /\ call[t].op = "create" /\ runs[r].state = "QUEUED" /\ AtRest(r)
      /\ QueuedRuns
  BY <1>1, <1>2, NoneAssumption, RestOfThem DEF Hand, SettledInv
<1>5. /\ runs'[r].state = runs[r].state
      /\ runs'[r].leaseToken = runs[r].leaseToken
      /\ \A s \in Runs \ {r} : runs'[s] = runs[s]
  BY <1>1, <1>2 DEF SetQueuePosition, RunRecord
<1>6. timers' = timers /\ contexts' = contexts /\ queues' = queues
  BY DEF SetQueuePosition, storeVars, signalVars, queueVars
<1>7. AtRest(r)'
  BY <1>4, <1>5, <1>6 DEF AtRest, Waits
<1>8. Hand(f)'
  BY <1>2, <1>3, <1>4, <1>5, <1>7, NoneAssumption DEF Hand, Outcome, Continues
<1>9. \A s \in Runs \ {r} : Untouched(s)
  BY <1>5, <1>6 DEF Untouched
<1>10. QED
  BY <1>1, <1>2, <1>3, <1>4, <1>5, <1>6, <1>8, <1>9, SegmentKept
     DEF QueuedRuns, Continues

\* The lane is given to the head of its queue, or to nobody.
LEMMA LeaseNextRunSettled ==
  ASSUME ManagerInv, SettledInv, NEW t \in Threads, LeaseNextRun(t)
  PROVE  SettledInv'
<1>1. /\ call[t] \in Frame /\ call[t].run \in Runs /\ call[t].pc = "lease"
      /\ call \in [Threads -> Frame]
  BY InMethod DEF LeaseNextRun, FrameShape
<1>2. PICK r \in Runs : r = call[t].run
  BY <1>1
<1>3. /\ call[t].op = "acquire" /\ runs[r].state = "QUEUED" /\ AtRest(r)
      /\ queues[UserOf[r]] # << >> /\ Head(queues[UserOf[r]]) = r
      /\ QueuedRuns
  BY <1>1, <1>2, NoneAssumption, RestOfThem DEF Hand, SettledInv
<1>4. /\ timers' = timers /\ contexts' = contexts
      /\ queues' = queues /\ runs' = runs
  BY DEF LeaseNextRun, signalVars, queueVars
<1>5. AtRest(r)' /\ \A s \in Runs : Untouched(s)
  BY <1>3, <1>4 DEF AtRest, Waits, Untouched
<1>6. CASE CanAcquire(UserOf[r])
  <2>1. PICK f : /\ call' = [call EXCEPT ![t] = f]
                 /\ f.op = "acquire" /\ f.pc = "dequeue" /\ f.run = r
    <3> DEFINE g == [call[t] EXCEPT !.pc = "dequeue", !.token = NextToken]
    <3>1. call' = [call EXCEPT ![t] = g]
      BY <1>1, <1>2, <1>6 DEF LeaseNextRun
    <3>2. g.op = call[t].op /\ g.pc = "dequeue" /\ g.run = call[t].run
      BY <1>1 DEF Frame
    <3> HIDE DEF g
    <3>3. QED
      BY <1>2, <1>3, <3>1, <3>2
  <2>2. Hand(f)'
    BY <1>3, <1>4, <1>5, <2>1, NoneAssumption DEF Hand
  <2>3. QED
    BY <1>1, <1>2, <1>3, <1>4, <1>5, <2>1, <2>2, SegmentKept
       DEF QueuedRuns
<1>7. CASE ~CanAcquire(UserOf[r])
  <2>1. PICK f : /\ call' = [call EXCEPT ![t] = f]
                 /\ f.op = "acquire" /\ f.pc = "done" /\ f.run = None
    <3> DEFINE g == [call[t] EXCEPT !.pc = "done", !.run = None]
    <3>1. call' = [call EXCEPT ![t] = g]
      BY <1>1, <1>2, <1>7 DEF LeaseNextRun
    <3>2. g.op = call[t].op /\ g.pc = "done" /\ g.run = None
      BY <1>1 DEF Frame
    <3> HIDE DEF g
    <3>3. QED
      BY <1>3, <3>1, <3>2
  <2>2. Hand(f)'
    BY <2>1 DEF Hand
  <2>3. \A s \in Runs : AtRest(s)'
    BY <1>1, <1>2, <1>5, RestOfThem, UntouchedRests
  <2>4. QueuedRuns'
    BY <1>3, <1>4 DEF QueuedRuns
  <2>5. call'[t] = f /\ \A s \in Threads \ {t} : call'[s] = IdleFrame
    BY <1>1, <2>1, RestOfThem
  <2>6. QED
    BY <2>2, <2>3, <2>4, <2>5, OneLeft
<1>8. QED
  BY <1>6, <1>7

LEMMA DequeueNextSettled ==
  ASSUME ManagerInv, SettledInv, NEW t \in Threads, DequeueNext(t)
  PROVE  SettledInv'
<1>1. /\ call[t] \in Frame /\ call[t].run \in Runs /\ call[t].pc = "dequeue"
      /\ call \in [Threads -> Frame]
  BY InMethod DEF DequeueNext, FrameShape
<1>2. PICK r \in Runs : r = call[t].run
  BY <1>1
<1>3. PICK f \in Frame : call' = [call EXCEPT ![t] = f]
                         /\ Continues(call[t], f, "markLeased", call[t].seen)
  <2> DEFINE g == [call[t] EXCEPT !.pc = "markLeased"]
  <2>1. call' = [call EXCEPT ![t] = g]
    BY DEF DequeueNext, Goto
  <2>2. Continues(call[t], g, "markLeased", call[t].seen)
    BY <1>1, Going
  <2> HIDE DEF g
  <2>3. QED
    BY <2>1, <2>2 DEF Continues
<1>4. /\ call[t].op = "acquire" /\ runs[r].state = "QUEUED" /\ AtRest(r)
      /\ queues[UserOf[r]] # << >> /\ Head(queues[UserOf[r]]) = r
      /\ QueuedRuns
  BY <1>1, <1>2, NoneAssumption, RestOfThem DEF Hand, SettledInv
<1>5. /\ timers' = timers /\ contexts' = contexts /\ runs' = runs
      /\ Dequeue(UserOf[r]) /\ UserOf[r] \in Users
  BY <1>2, ManagerAssumption DEF DequeueNext, signalVars
<1>6. \A v \in Users, s \in Runs :
        s \in ToSet(queues'[v]) <=> s \in ToSet(queues[v]) /\ s # r
  BY <1>4, <1>5, DequeueDropsHead DEF ManagerInv
<1>7. Out(r)'
  BY <1>4, <1>5, <1>6 DEF AtRest, Waits, Out
<1>8. Hand(f)'
  BY <1>2, <1>3, <1>4, <1>5, <1>7, NoneAssumption DEF Hand, Continues
<1>9. \A s \in Runs \ {r} : Untouched(s)
  BY <1>5, <1>6 DEF Untouched
<1>10. QED
  BY <1>1, <1>2, <1>3, <1>4, <1>5, <1>6, <1>8, <1>9, SegmentKept
     DEF QueuedRuns, Continues

LEMMA MarkLeasedSettled ==
  ASSUME ManagerInv, SettledInv, NEW t \in Threads, MarkLeased(t)
  PROVE  SettledInv'
<1>1. /\ call[t] \in Frame /\ call[t].run \in Runs /\ call[t].pc = "markLeased"
      /\ call \in [Threads -> Frame] /\ runs \in [Runs -> RunRecord]
  BY InMethod DEF MarkLeased, FrameShape
<1>2. PICK r \in Runs : r = call[t].run
  BY <1>1
<1>3. PICK f \in Frame : call' = [call EXCEPT ![t] = f]
                         /\ Continues(call[t], f, "done", call[t].seen)
  <2> DEFINE g == [call[t] EXCEPT !.pc = "done"]
  <2>1. call' = [call EXCEPT ![t] = g]
    BY DEF MarkLeased, Goto
  <2>2. Continues(call[t], g, "done", call[t].seen)
    BY <1>1, Going
  <2> HIDE DEF g
  <2>3. QED
    BY <2>1, <2>2 DEF Continues
<1>4. /\ call[t].op = "acquire" /\ Out(r) /\ QueuedRuns
  BY <1>1, <1>2, NoneAssumption, RestOfThem DEF Hand, SettledInv
<1>5. /\ runs'[r].state = "LEASED"
      /\ \A s \in Runs \ {r} : runs'[s] = runs[s]
  BY <1>1, <1>2 DEF MarkLeased
<1>6. timers' = timers /\ contexts' = contexts /\ queues' = queues
  BY DEF MarkLeased, storeVars, signalVars, queueVars
<1>7. AtRest(r)'
  BY <1>4, <1>5, <1>6 DEF AtRest, Waits, Out
<1>8. Hand(f)'
  BY <1>2, <1>3, <1>4, <1>5, <1>7, NoneAssumption DEF Hand, Outcome, Continues
<1>9. \A s \in Runs \ {r} : Untouched(s)
  BY <1>5, <1>6 DEF Untouched
<1>10. QED
  BY <1>1, <1>2, <1>3, <1>4, <1>5, <1>6, <1>8, <1>9, SegmentKept
     DEF QueuedRuns, Continues

LEMMA RemoveQueuedSettled ==
  ASSUME ManagerInv, SettledInv, NEW t \in Threads, RemoveQueued(t)
  PROVE  SettledInv'
<1>1. /\ call[t] \in Frame /\ call[t].run \in Runs /\ call[t].pc = "remove"
      /\ call \in [Threads -> Frame]
  BY InMethod DEF RemoveQueued, FrameShape
<1>2. PICK r \in Runs : r = call[t].run
  BY <1>1
<1>3. /\ call[t].op = "cancel" /\ runs[r].state = "QUEUED" /\ AtRest(r)
      /\ call[t].seen = runs[r] /\ QueuedRuns
  BY <1>1, <1>2, NoneAssumption, RestOfThem DEF Hand, SettledInv
<1>4. AfterRemove(call[t].seen) = "signal"
  BY <1>3 DEF AfterRemove, QueuedRuns
<1>5. PICK f \in Frame : call' = [call EXCEPT ![t] = f]
                         /\ Continues(call[t], f, "signal", call[t].seen)
  <2> DEFINE g == [call[t] EXCEPT !.pc = "signal"]
  <2>1. call' = [call EXCEPT ![t] = g]
    BY <1>4 DEF RemoveQueued, Goto
  <2>2. Continues(call[t], g, "signal", call[t].seen)
    BY <1>1, Going
  <2> HIDE DEF g
  <2>3. QED
    BY <2>1, <2>2 DEF Continues
<1>6. /\ timers' = timers /\ contexts' = contexts /\ runs' = runs
      /\ RemoveFromQueue(r)
  BY <1>2 DEF RemoveQueued, signalVars
<1>7. \A v \in Users, s \in Runs :
        s \in ToSet(queues'[v]) <=> s \in ToSet(queues[v]) /\ s # r
  BY <1>6, RemoveDropsRun DEF ManagerInv
<1>8. ~Waits(r)' /\ r \notin timers'
  BY <1>3, <1>6, <1>7, ManagerAssumption DEF AtRest, Waits
<1>9. Stopping(f)'
  BY <1>2, <1>3, <1>5, <1>6, <1>8 DEF Stopping, Continues, Settling
<1>10. Hand(f)'
  BY <1>2, <1>5, <1>9, NoneAssumption DEF Hand, Continues
<1>11. \A s \in Runs \ {r} : Untouched(s)
  BY <1>6, <1>7 DEF Untouched
<1>12. QED
  BY <1>1, <1>2, <1>3, <1>5, <1>6, <1>7, <1>10, <1>11, SegmentKept
     DEF QueuedRuns, Continues

LEMMA ReleaseLeaseSettled ==
  ASSUME ManagerInv, SettledInv, NEW t \in Threads, ReleaseLease(t)
  PROVE  SettledInv'
<1>1. /\ call[t] \in Frame /\ call[t].run \in Runs /\ call[t].pc = "release"
      /\ call \in [Threads -> Frame]
  BY InMethod DEF ReleaseLease, FrameShape
<1>2. PICK r \in Runs : r = call[t].run
  BY <1>1
<1>3. Stopping(call[t]) /\ QueuedRuns
  BY <1>1, <1>2, NoneAssumption, RestOfThem DEF Hand, SettledInv
<1>4. PICK f \in Frame : call' = [call EXCEPT ![t] = f]
                         /\ Continues(call[t], f, "signal", NoRun)
  <2> DEFINE g == [call[t] EXCEPT !.pc = "signal", !.seen = NoRun]
  <2>1. call' = [call EXCEPT ![t] = g]
    BY DEF ReleaseLease, Forget
  <2>2. Continues(call[t], g, "signal", NoRun)
    BY <1>1, NoRunIsRecord, Resuming
  <2> HIDE DEF g
  <2>3. QED
    BY <2>1, <2>2 DEF Continues
<1>5. /\ timers' = timers /\ contexts' = contexts /\ runs' = runs
      /\ queues' = queues
  BY DEF ReleaseLease, signalVars, queueVars
<1>6. Stopping(f)'
  BY <1>1, <1>2, <1>3, <1>4, <1>5 DEF Stopping, Continues, Waits
<1>7. Hand(f)'
  BY <1>2, <1>4, <1>6, NoneAssumption DEF Hand, Continues
<1>8. \A s \in Runs \ {r} : Untouched(s)
  BY <1>5 DEF Untouched
<1>9. QED
  BY <1>1, <1>2, <1>3, <1>4, <1>5, <1>7, <1>8, SegmentKept
     DEF QueuedRuns, Continues

LEMMA SignalStepSettled ==
  ASSUME ManagerInv, SettledInv, NEW t \in Threads, SignalStep(t)
  PROVE  SettledInv'
<1>1. /\ call[t] \in Frame /\ call[t].run \in Runs /\ call[t].pc = "signal"
      /\ call \in [Threads -> Frame] /\ runs \in [Runs -> RunRecord]
  BY InMethod DEF SignalStep, FrameShape
<1>2. PICK r \in Runs : r = call[t].run
  BY <1>1
<1>3. Stopping(call[t]) /\ QueuedRuns
  BY <1>1, <1>2, NoneAssumption, RestOfThem DEF Hand, SettledInv
<1>4. PICK f \in Frame : call' = [call EXCEPT ![t] = f]
                         /\ Continues(call[t], f, "write", runs[r])
  <2> DEFINE g == [call[t] EXCEPT !.pc = "write", !.seen = runs[r],
                                  !.reason = None]
  <2>1. call' = [call EXCEPT ![t] = g]
    BY <1>2 DEF SignalStep
  <2>2. Continues(call[t], g, "write", runs[r])
    BY <1>1, Resuming
  <2> HIDE DEF g
  <2>3. QED
    BY <2>1, <2>2 DEF Continues
<1>5. /\ timers' = timers /\ queues' = queues /\ runs' = runs
      /\ \A s \in Runs \ {r} : contexts'[s] = contexts[s]
  BY <1>2 DEF SignalStep, queueVars, CancelContext, RemoveContext, ManagerInv,
              SignalsTypeOK
<1>6. Stopping(f)'
  BY <1>1, <1>2, <1>3, <1>4, <1>5 DEF Stopping, Continues, Waits
<1>7. runs'[r].state # "NONE" /\ f.seen = runs'[r]
  BY <1>2, <1>3, <1>4, <1>5 DEF Stopping, Continues
<1>8. Hand(f)'
  BY <1>2, <1>4, <1>6, <1>7, NoneAssumption DEF Hand, Continues
<1>9. \A s \in Runs \ {r} : Untouched(s)
  BY <1>5 DEF Untouched
<1>10. QED
  BY <1>1, <1>2, <1>3, <1>4, <1>5, <1>8, <1>9, SegmentKept
     DEF QueuedRuns, Continues

\* The one await between the check and the write changes nothing: the copy the
\* check is made on is what is stored.
LEMMA WriteTransitionSettled ==
  ASSUME ManagerInv, SettledInv, NEW t \in Threads, WriteTransition(t)
  PROVE  /\ SettledInv'
         /\ runs' # runs =>
              isValidStateTransition(runs[call[t].run].state,
                                     runs'[call[t].run].state)
         /\ \A s \in Runs \ {call[t].run} : runs'[s] = runs[s]
<1> DEFINE to == Target(call[t].op)
<1>1. /\ call[t] \in Frame /\ call[t].run \in Runs /\ call[t].pc = "write"
      /\ call[t].op \in Settling \cup {"start"}
      /\ call \in [Threads -> Frame] /\ runs \in [Runs -> RunRecord]
  BY InMethod DEF WriteTransition, FrameShape
<1>2. PICK r \in Runs : r = call[t].run
  BY <1>1
<1>3. /\ call[t].seen = runs[r] /\ runs[r].state \in RunState
      /\ Stopping(call[t]) \/ (call[t].op = "start" /\ AtRest(r))
      /\ QueuedRuns
  BY <1>1, <1>2, NoneAssumption, RestOfThem DEF Hand, SettledInv, RunRecord
<1>4. ASSUME NEW pc \in {"threw", "reread"},
             call' = [call EXCEPT ![t].pc = pc, ![t].seen = NoRun]
      PROVE  \E f \in Frame : call' = [call EXCEPT ![t] = f]
                              /\ Continues(call[t], f, pc, NoRun)
  <2> DEFINE g == [call[t] EXCEPT !.pc = pc, !.seen = NoRun]
  <2>1. call' = [call EXCEPT ![t] = g]
    BY <1>4
  <2>2. Continues(call[t], g, pc, NoRun)
    BY <1>1, <1>4, NoRunIsRecord, Resuming
  <2> HIDE DEF g
  <2>3. QED
    BY <2>1, <2>2 DEF Continues
<1>5. contexts' = contexts /\ queues' = queues
  BY DEF WriteTransition, queueVars
<1>6. CASE ~isValidStateTransition(runs[r].state, to)
  <2>1. /\ call' = [call EXCEPT ![t].pc = "threw", ![t].seen = NoRun]
        /\ runs' = runs /\ timers' = timers
    BY <1>2, <1>3, <1>6 DEF WriteTransition, Forget
  <2>2. PICK f \in Frame : call' = [call EXCEPT ![t] = f]
                           /\ Continues(call[t], f, "threw", NoRun)
    BY <1>4, <2>1
  <2>3. \A s \in Runs : Untouched(s)
    BY <1>5, <2>1 DEF Untouched
  <2>4. call[t].op \notin {"cancel", "timeout"} /\ AtRest(r)
    BY <1>1, <1>2, <1>3, <1>6
       DEF Stopping, AtRest, Target, isValidStateTransition,
           VALID_STATE_TRANSITIONS, Settling, RunState
  <2>5. AtRest(r)'
    BY <2>3, <2>4, UntouchedRests
  <2>6. /\ call[t].op \in {"start", "complete", "fail"}
        /\ runs[r].state # "NONE"
    BY <1>1, <1>3, <2>4 DEF Settling, RunState
  <2>7. Hand(f)'
    BY <1>2, <1>6, <2>1, <2>2, <2>5, <2>6, NoneAssumption DEF Hand, Continues
  <2>8. \A u \in Users : r \in ToSet(queues'[u]) => u = UserOf[r]
    BY <1>3, <1>5 DEF QueuedRuns
  <2>9. SettledInv'
    BY <1>1, <1>2, <1>3, <2>1, <2>2, <2>3, <2>7, <2>8, SegmentKept
       DEF QueuedRuns, Continues
  <2>10. QED
    BY <2>1, <2>9
<1>7. CASE isValidStateTransition(runs[r].state, to)
  <2>1. /\ call' = [call EXCEPT ![t].pc = "reread", ![t].seen = NoRun]
        /\ runs' = [runs EXCEPT ![r] =
             IF isTerminalState(to)
               THEN [@ EXCEPT !.state = to, !.queuePosition = None]
               ELSE [@ EXCEPT !.state = to]]
        /\ timers' = IF isTerminalState(to) THEN timers \ {r} ELSE timers
    BY <1>2, <1>3, <1>7 DEF WriteTransition, Forget, ClearTimeout
  <2>2. PICK f \in Frame : call' = [call EXCEPT ![t] = f]
                           /\ Continues(call[t], f, "reread", NoRun)
    BY <1>4, <2>1
  <2>3. /\ runs'[r].state = to
        /\ \A s \in Runs \ {r} : runs'[s] = runs[s]
    <3>1. runs[r] \in RunRecord
      BY <1>1
    <3>2. QED
      BY <1>1, <2>1, <3>1 DEF RunRecord
  <2>4. to \notin {"NONE", "QUEUED"}
    BY <1>1 DEF Target, Settling
  <2>5. ~Waits(r)
    BY <1>1, <1>2, <1>3, <1>7
       DEF Stopping, AtRest, Target, isValidStateTransition,
           VALID_STATE_TRANSITIONS, Settling, RunState
  <2>6. r \notin timers'
    <3>1. CASE isTerminalState(to)
      BY <2>1, <3>1
    <3>2. CASE ~isTerminalState(to)
      <4>1. call[t].op = "start"
        BY <1>1, <3>2 DEF isTerminalState, Target, Settling
      <4>2. runs[r].state = "LEASED"
        BY <1>3, <1>7, <4>1
           DEF Target, isValidStateTransition, VALID_STATE_TRANSITIONS, RunState
      <4>3. r \notin timers
        BY <1>2, <1>3, <4>1, <4>2 DEF AtRest, Stopping, Settling
      <4>4. QED
        BY <2>1, <3>2, <4>3
    <3>3. QED
      BY <3>1, <3>2
  <2>7. Out(r)'
    BY <1>5, <2>5, <2>6 DEF Out, Waits
  <2>8. f.op \in Settling \cup {"start"} /\ runs'[r].state = Target(f.op)
    BY <1>1, <2>2, <2>3 DEF Continues
  <2>9. Hand(f)'
    BY <1>2, <2>2, <2>7, <2>8, NoneAssumption DEF Hand, Continues
  <2>10. \A s \in Runs \ {r} : s \in timers' <=> s \in timers
    BY <2>1
  <2>11. \A s \in Runs \ {r} : Untouched(s)
    BY <1>5, <2>3, <2>10 DEF Untouched
  <2>12. \A u \in Users : r \in ToSet(queues'[u]) => u = UserOf[r]
    BY <1>3, <1>5 DEF QueuedRuns
  <2>13. SettledInv'
    BY <1>1, <1>2, <2>2, <2>3, <2>4, <2>9, <2>11, <2>12, SegmentKept
       DEF Continues
  <2>14. QED
    BY <1>2, <1>7, <2>3, <2>13
<1>8. QED
  BY <1>6, <1>7

LEMMA RereadRunSettled ==
  ASSUME ManagerInv, SettledInv, NEW t \in Threads, RereadRun(t)
  PROVE  SettledInv'
<1> DEFINE pc == IF call[t].op = "start" THEN "begin" ELSE "done"
<1>1. /\ call[t] \in Frame /\ call[t].run \in Runs /\ call[t].pc = "reread"
      /\ call \in [Threads -> Frame] /\ runs \in [Runs -> RunRecord]
  BY InMethod DEF RereadRun, FrameShape
<1>2. PICK r \in Runs : r = call[t].run
  BY <1>1
<1>3. /\ call[t].op \in Settling \cup {"start"}
      /\ runs[r].state = Target(call[t].op) /\ Out(r) /\ QueuedRuns
  BY <1>1, <1>2, NoneAssumption, RestOfThem DEF Hand, SettledInv
<1>4. PICK f \in Frame : call' = [call EXCEPT ![t] = f]
                         /\ Continues(call[t], f, pc, runs[r])
  <2> DEFINE g == [call[t] EXCEPT !.seen = runs[r], !.pc = pc]
  <2>1. call' = [call EXCEPT ![t] = g]
    BY <1>2 DEF RereadRun
  <2>2. pc \in {"begin", "done"}
    OBVIOUS
  <2> HIDE DEF pc
  <2>3. Continues(call[t], g, pc, runs[r])
    BY <1>1, <2>2, Resuming
  <2> HIDE DEF g
  <2>4. QED
    BY <2>1, <2>3 DEF Continues
<1>5. /\ timers' = timers /\ contexts' = contexts /\ runs' = runs
      /\ queues' = queues
  BY DEF RereadRun, storeVars, signalVars, queueVars
<1>6. Out(r)' /\ \A s \in Runs : Untouched(s)
  BY <1>3, <1>5 DEF Out, Waits, Untouched
<1>7. CASE call[t].op = "start"
  <2>1. f.op = "start" /\ f.pc = "begin" /\ f.seen = runs'[r] /\ f.run = r
        /\ runs'[r].state = "RUNNING"
    BY <1>2, <1>3, <1>4, <1>5, <1>7 DEF Continues, Target
  <2>2. Hand(f)'
    BY <1>6, <2>1, NoneAssumption DEF Hand
  <2>3. QED
    BY <1>1, <1>2, <1>3, <1>4, <1>5, <1>6, <2>2, SegmentKept
       DEF QueuedRuns, Continues
<1>8. CASE call[t].op # "start"
  <2>1. /\ f.op \in Settling /\ f.pc = "done" /\ f.seen = runs'[r] /\ f.run = r
        /\ runs'[r].state = Target(f.op)
    BY <1>2, <1>3, <1>4, <1>5, <1>8 DEF Continues
  <2>2. isTerminalState(runs'[r].state)
    BY <2>1 DEF Target, Settling, isTerminalState
  <2>3. AtRest(r)'
    BY <1>6, <2>2 DEF AtRest, Out, isTerminalState
  <2>4. Outcome(f)'
    BY <2>1, <2>2 DEF Outcome, Settling
  <2>5. Hand(f)'
    BY <2>1, <2>3, <2>4, NoneAssumption DEF Hand, Settling
  <2>6. QED
    BY <1>1, <1>2, <1>3, <1>4, <1>5, <1>6, <2>5, SegmentKept
       DEF QueuedRuns, Continues
<1>9. QED
  BY <1>7, <1>8

LEMMA BeginRunSettled ==
  ASSUME ManagerInv, SettledInv, NEW t \in Threads, BeginRun(t)
  PROVE  SettledInv'
<1>1. /\ call[t] \in Frame /\ call[t].run \in Runs /\ call[t].pc = "begin"
      /\ call \in [Threads -> Frame] /\ contexts \in [Runs -> {"absent", "open"} \cup Reasons]
  BY InMethod DEF BeginRun, FrameShape, ManagerInv, SignalsTypeOK
<1>2. PICK r \in Runs : r = call[t].run
  BY <1>1
<1>3. /\ call[t].op = "start" /\ runs[r].state = "RUNNING"
      /\ call[t].seen = runs[r] /\ Out(r) /\ QueuedRuns
  BY <1>1, <1>2, NoneAssumption, RestOfThem DEF Hand, SettledInv
<1>4. PICK f \in Frame : call' = [call EXCEPT ![t] = f]
                         /\ Continues(call[t], f, "done", call[t].seen)
  <2> DEFINE g == [call[t] EXCEPT !.pc = "done"]
  <2>1. call' = [call EXCEPT ![t] = g]
    BY DEF BeginRun, Goto
  <2>2. Continues(call[t], g, "done", call[t].seen)
    BY <1>1, Going
  <2> HIDE DEF g
  <2>3. QED
    BY <2>1, <2>2 DEF Continues
<1>5. /\ timers' = timers \cup {r} /\ contexts' = [contexts EXCEPT ![r] = "open"]
      /\ runs' = runs /\ queues' = queues
  BY <1>2 DEF BeginRun, ScheduleTimeout, CreateContext, queueVars
<1>6. AtRest(r)' /\ \A s \in Runs \ {r} : Untouched(s)
  BY <1>1, <1>3, <1>5 DEF AtRest, Out, Waits, Untouched
<1>7. Outcome(f)'
  BY <1>2, <1>3, <1>4, <1>5 DEF Outcome, Continues, Target
<1>8. Hand(f)'
  BY <1>2, <1>3, <1>4, <1>6, <1>7, NoneAssumption DEF Hand, Continues
<1>9. QED
  BY <1>1, <1>2, <1>3, <1>4, <1>5, <1>6, <1>8, SegmentKept
     DEF QueuedRuns, Continues

LEMMA PlainStepSettled ==
  ASSUME ManagerInv, SettledInv, NEW t \in Threads, PlainStep(t)
  PROVE  SettledInv'
BY EnqueueRunSettled, SetQueuePositionSettled, LeaseNextRunSettled,
   DequeueNextSettled, MarkLeasedSettled, RemoveQueuedSettled,
   ReleaseLeaseSettled, WriteTransitionSettled, RereadRunSettled,
   BeginRunSettled DEF PlainStep

-----------------------------------------------------------------------------
(* Calls begin and return: callers act when no method is in between.         *)

LEMMA FirstHands ==
  ASSUME ManagerInv, QueuedRuns, \A r \in Runs : AtRest(r)
  PROVE  /\ \A u \in Users : Hand(AcquireFrame(u))
         /\ \A r \in Runs : runs[r].state # "NONE" =>
              /\ Hand(StartFrame(r)) /\ Hand(GetFrame(r))
              /\ \A op \in {"cancel", "complete", "fail"},
                    reason \in Reasons \cup {None} :
                   Hand(SettleFrame(op, r, reason))
<1>1. ASSUME NEW u \in Users
      PROVE  Hand(AcquireFrame(u))
  <2>1. queues[u] \in Seq(Runs)
    BY DEF ManagerInv, QueueInv, QueueTypeOK
  <2>2. CASE queues[u] = << >>
    BY <2>2 DEF AcquireFrame, Peek, IdleFrame, Hand, Between
  <2>3. CASE queues[u] # << >>
    <3>1. PICK r \in Runs : r = Head(queues[u]) /\ r \in ToSet(queues[u])
      <4> DEFINE q == queues[u]
      <4> HIDE DEF q
      <4>1. q \in Seq(Runs) /\ q # << >>
        BY <2>1, <2>3 DEF q
      <4>2. 1 \in 1..Len(q) /\ Head(q) = q[1] /\ q[1] \in Runs
        BY <4>1
      <4>3. Head(q) \in ToSet(q)
        BY <4>2 DEF ToSet
      <4>4. QED
        BY <4>2, <4>3 DEF q
    <3>2. UserOf[r] = u /\ AtRest(r) /\ runs[r].state = "QUEUED"
      BY <3>1, ManagerAssumption DEF QueuedRuns, AtRest, Waits
    <3>3. AcquireFrame(u) = [IdleFrame EXCEPT !.op = "acquire", !.pc = "lease",
                                              !.run = r]
      BY <2>3, <3>1, NoneAssumption DEF AcquireFrame, Peek
    <3>4. PICK f : /\ f = AcquireFrame(u)
                   /\ f.op = "acquire" /\ f.pc = "lease" /\ f.run = r
      BY <3>3 DEF IdleFrame
    <3>5. Hand(f)
      BY <2>3, <3>1, <3>2, <3>4, NoneAssumption DEF Hand
    <3>6. QED
      BY <3>4, <3>5
  <2>4. QED
    BY <2>2, <2>3
<1>2. ASSUME NEW r \in Runs, runs[r].state # "NONE"
      PROVE  Hand(StartFrame(r)) /\ Hand(GetFrame(r))
  <2>1. PICK f : /\ f = StartFrame(r) /\ f.op = "start" /\ f.pc = "write"
                 /\ f.run = r /\ f.seen = runs[r]
    BY FirstFields
  <2>2. PICK g : /\ g = GetFrame(r) /\ g.op = "get" /\ g.pc = "done"
                 /\ g.run = r /\ g.seen = runs[r]
    BY FirstFields
  <2>3. Hand(f)
    BY <1>2, <2>1, NoneAssumption DEF Hand
  <2>4. Hand(g)
    BY <2>2, NoneAssumption DEF Hand, Outcome
  <2>5. QED
    BY <2>1, <2>2, <2>3, <2>4
<1>3. ASSUME NEW r \in Runs, runs[r].state # "NONE",
             NEW op \in {"cancel", "complete", "fail"},
             NEW reason \in Reasons \cup {None}
      PROVE  Hand(SettleFrame(op, r, reason))
  <2>1. PICK f : /\ f = SettleFrame(op, r, reason) /\ f.op = op
                 /\ f.pc = AfterRead(op, runs[r])
                 /\ f.run = r /\ f.seen = runs[r]
    BY SettleFields
  <2>2. /\ runs[r].state \in RunState
        /\ runs[r].state = "QUEUED" => runs[r].leaseToken = NoToken
        /\ AtRest(r)
    BY <1>3 DEF ManagerInv, RunsOK, RunRecord, QueuedRuns
  <2>3. CASE op = "cancel" /\ isTerminalState(runs[r].state)
    <3>1. f.pc = "done"
      BY <2>1, <2>3 DEF AfterRead
    <3>2. Outcome(f)
      BY <2>1, <2>3 DEF Outcome
    <3>3. QED
      BY <2>1, <2>2, <2>3, <3>1, <3>2, NoneAssumption DEF Hand
  <2>4. CASE op = "cancel" /\ runs[r].state = "QUEUED"
    <3>1. f.pc = "remove"
      BY <2>1, <2>4 DEF AfterRead, isTerminalState
    <3>2. QED
      BY <2>1, <2>2, <2>4, <3>1, NoneAssumption DEF Hand
  <2>5. CASE ~(op = "cancel" /\ (runs[r].state = "QUEUED"
                                 \/ isTerminalState(runs[r].state)))
    <3>1. f.pc = AfterRemove(runs[r])
      BY <2>1, <2>5 DEF AfterRead
    <3>2. f.pc \in {"release", "signal"}
      BY <3>1 DEF AfterRemove
    <3>3. Stopping(f)
      BY <2>1, <2>2, <2>5, <3>2
         DEF Stopping, AtRest, Settling, isTerminalState, RunState
    <3>4. f.pc = "release" => runs[r].state # "QUEUED"
      BY <2>2, <3>1 DEF AfterRemove
    <3>5. QED
      BY <2>1, <3>2, <3>3, <3>4, NoneAssumption DEF Hand
  <2>6. QED
    BY <2>3, <2>4, <2>5
<1>4. QED
  BY <1>1, <1>2, <1>3

LEMMA HandsStay ==
  ASSUME NEW f, Hand(f), UNCHANGED <<runs, queues, timers, contexts>>
  PROVE  Hand(f)'
BY DEF Hand, AtRest, Out, Waits, Stopping, Outcome

\* A callback begins with frame f of thread t, or ends there.
LEMMA CallerStep ==
  ASSUME SettledInv, \A s \in Threads : Between(call[s]),
         UNCHANGED <<runs, queues, timers, contexts>>,
         NEW t \in Threads, NEW f, Hand(f), call'[t] = f,
         \A s \in Threads \ {t} : call'[s] = IdleFrame
  PROVE  SettledInv'
<1>1. \A r \in Runs : AtRest(r)'
  BY AllAtRest DEF AtRest, Waits
<1>2. QueuedRuns'
  BY DEF SettledInv, QueuedRuns
<1>3. Hand(f)'
  BY HandsStay
<1>4. QED
  BY <1>1, <1>2, <1>3, OneLeft

LEMMA BeginCreateSettled ==
  ASSUME ManagerInv, SettledInv, Settled, NEW t \in Threads, NEW r \in Runs,
         BeginCreate(t, r)
  PROVE  SettledInv'
<1> DEFINE g == [IdleFrame EXCEPT !.op = "create", !.pc = "enqueue", !.run = r]
<1>1. /\ call \in [Threads -> Frame] /\ runs \in [Runs -> RunRecord]
      /\ runs[r] = NoRun /\ QueuedRuns
      /\ timers' = timers /\ contexts' = contexts /\ queues' = queues
  BY InMethod DEF BeginCreate, SettledInv, storeVars, signalVars, queueVars
<1>2. \A s \in Threads : call[s] = IdleFrame
  BY DEF Settled, Idle
<1>3. \A s \in Runs : AtRest(s)
  BY <1>2, NoHand, AllAtRest
<1>4. PICK f : call' = [call EXCEPT ![t] = f]
               /\ f.op = "create" /\ f.pc = "enqueue" /\ f.run = r
  <2>1. call' = [call EXCEPT ![t] = g]
    BY DEF BeginCreate, Begin
  <2>2. g.op = "create" /\ g.pc = "enqueue" /\ g.run = r
    BY DEF IdleFrame
  <2> HIDE DEF g
  <2>3. QED
    BY <2>1, <2>2
<1>5. /\ runs'[r].state = "QUEUED" /\ runs'[r].leaseToken = NoToken
      /\ \A s \in Runs \ {r} : runs'[s] = runs[s]
  BY <1>1 DEF BeginCreate, NoRun
<1>6. Out(r)'
  BY <1>1, <1>3, <1>5 DEF Out, AtRest, Waits, NoRun
<1>7. Hand(f)'
  BY <1>4, <1>5, <1>6, NoneAssumption DEF Hand
<1>8. \A s \in Runs \ {r} : Untouched(s)
  BY <1>1, <1>5 DEF Untouched
<1>9. QueuedRuns'
  BY <1>1, <1>5, <1>8, QueuedRunsKept DEF QueuedRuns
<1>10. \A s \in Runs : s # f.run \/ Between(f) => AtRest(s)'
  BY <1>3, <1>4, <1>8, UntouchedRests DEF Between
<1>11. QED
  BY <1>1, <1>2, <1>4, <1>7, <1>9, <1>10, OneLeft

\* Only a RUNNING run has a timer: the callback finds nothing to return early
\* for, and nothing to take out of the queue.
LEMMA TimerFiresSettled ==
  ASSUME ManagerInv, SettledInv, Settled, NEW r \in Runs, TimerFires(r)
  PROVE  SettledInv'
<1> DEFINE g == SettleFrame("timeout", r, "timeout")
<1>1. /\ call \in [Threads -> Frame] /\ runs \in [Runs -> RunRecord]
      /\ QueuedRuns /\ r \in timers /\ timers' = timers \ {r}
      /\ contexts' = contexts /\ queues' = queues /\ runs' = runs
      /\ r \in Threads
  BY InMethod DEF TimerFires, TimeoutDue, ClearTimeout, SettledInv, queueVars,
                  Threads
<1>2. \A s \in Threads : call[s] = IdleFrame
  BY DEF Settled, Idle
<1>3. \A s \in Runs : AtRest(s)
  BY <1>2, NoHand, AllAtRest
<1>4. runs[r].state = "RUNNING" /\ ~Waits(r) /\ contexts[r] = "open"
  BY <1>1, <1>3 DEF AtRest
<1>5. PICK f : /\ call' = [call EXCEPT ![r] = f]
               /\ f.op = "timeout" /\ f.run = r /\ f.seen = runs[r]
               /\ f.pc \in {"release", "signal"}
  <2>1. call' = [call EXCEPT ![r] = g]
    BY DEF TimerFires, Begin
  <2>2. AfterRead("timeout", runs[r]) \in {"release", "signal"}
    BY <1>4 DEF AfterRead, AfterRemove, isTerminalState
  <2>3. /\ g.op = "timeout" /\ g.run = r /\ g.seen = runs[r]
        /\ g.pc \in {"release", "signal"}
    BY <2>2 DEF SettleFrame, IdleFrame
  <2> HIDE DEF g
  <2>4. QED
    BY <2>1, <2>3
<1>6. Stopping(f)'
  BY <1>1, <1>4, <1>5 DEF Stopping, Settling, Waits
<1>7. Hand(f)'
  BY <1>1, <1>4, <1>5, <1>6, NoneAssumption DEF Hand
<1>8. \A s \in Runs \ {r} : Untouched(s)
  BY <1>1 DEF Untouched
<1>9. QueuedRuns'
  BY <1>1 DEF QueuedRuns
<1>10. \A s \in Runs : s # f.run \/ Between(f) => AtRest(s)'
  BY <1>3, <1>5, <1>8, UntouchedRests DEF Between
<1>11. QED
  BY <1>1, <1>2, <1>5, <1>7, <1>9, <1>10, OneLeft

LEMMA SettledNext ==
  ASSUME StoresSettleAtOnce, ManagerInv, SettledInv, [ManagerNext]_managerVars
  PROVE  SettledInv'
<1>1. MayBegin => Settled
  BY DEF MayBegin
<1>2. Settled => /\ \A s \in Threads : call[s] = IdleFrame /\ Between(call[s])
                 /\ \A r \in Runs : AtRest(r)
  BY NoHand, AllAtRest DEF Settled, Idle
<1>3. call \in [Threads -> Frame] /\ QueuedRuns
  BY DEF ManagerInv, SettledInv
<1>4. CASE UNCHANGED managerVars
  <2>1. UNCHANGED <<runs, queues, timers, contexts, call>>
    BY <1>4 DEF managerVars, storeVars, queueVars, signalVars
  <2>2. QED
    BY <2>1 DEF SettledInv, OneChain, Idle, QueuedRuns, Between, Hand, AtRest,
                Out, Waits, Stopping, Outcome
<1>5. ASSUME NEW t \in Threads, NEW f, Settled, Begin(t, f), Hand(f),
             UNCHANGED <<storeVars, runs>>
      PROVE  SettledInv'
  <2>1. /\ UNCHANGED <<runs, queues, timers, contexts>>
        /\ call'[t] = f /\ \A s \in Threads \ {t} : call'[s] = IdleFrame
    BY <1>2, <1>3, <1>5 DEF Begin, storeVars, queueVars, signalVars
  <2>2. QED
    BY <1>2, <1>5, <2>1, CallerStep
<1>6. ASSUME NEW t \in Tasks, Calls(t)
      PROVE  SettledInv'
  <2>1. t \in Threads /\ Settled
    BY <1>1, <1>6 DEF Calls, Threads
  <2>2. ASSUME NEW r \in Runs, runs[r] # NoRun
        PROVE  runs[r].state # "NONE"
    BY <1>3, <2>2 DEF QueuedRuns
  <2>3. ASSUME NEW r \in Runs, BeginCreate(t, r)
        PROVE  SettledInv'
    BY <2>1, <2>3, BeginCreateSettled
  <2>4. ASSUME UNCHANGED <<storeVars, runs>>, NEW u \in Users,
               Begin(t, AcquireFrame(u))
        PROVE  SettledInv'
    BY <1>2, <1>3, <1>5, <2>1, <2>4, FirstHands
  <2>5. ASSUME UNCHANGED <<storeVars, runs>>, NEW r \in Runs, runs[r] # NoRun,
               Begin(t, StartFrame(r))
        PROVE  SettledInv'
    BY <1>2, <1>3, <1>5, <2>1, <2>2, <2>5, FirstHands
  <2>6. ASSUME UNCHANGED <<storeVars, runs>>, NEW r \in Runs, runs[r] # NoRun,
               NEW op \in {"cancel", "complete", "fail"},
               NEW reason \in Reasons \cup {None},
               Begin(t, SettleFrame(op, r, reason))
        PROVE  SettledInv'
    BY <1>2, <1>3, <1>5, <2>1, <2>2, <2>6, FirstHands
  <2>7. QED
    BY <1>6, <2>3, <2>4, <2>5, <2>6 DEF Calls
<1>7. ASSUME NEW t \in Threads, call[t].pc \in {"done", "threw"},
             call' = [call EXCEPT ![t] = IdleFrame], UNCHANGED <<storeVars, runs>>
      PROVE  SettledInv'
  <2>1. /\ UNCHANGED <<runs, queues, timers, contexts>>
        /\ \A s \in Threads : call'[s] = IdleFrame
        /\ \A s \in Threads : Between(call[s])
    BY <1>3, <1>7, RestOfThem, NoHand
       DEF storeVars, queueVars, signalVars, Between
  <2>2. QED
    BY <2>1, NoHand, CallerStep
<1>8. ASSUME NEW u \in Users, LeaseExpires(u)
      PROVE  SettledInv'
  <2>1. UNCHANGED <<runs, queues, timers, contexts, call>>
    BY <1>8 DEF LeaseExpires, queueVars, signalVars
  <2>2. QED
    BY <2>1 DEF SettledInv, OneChain, Idle, QueuedRuns, Between, Hand, AtRest,
                Out, Waits, Stopping, Outcome
<1>9. ASSUME NEW r \in Runs, TimerFires(r)
      PROVE  SettledInv'
  BY <1>1, <1>9, TimerFiresSettled DEF TimerFires
<1>10. QED
  BY <1>4, <1>6, <1>7, <1>8, <1>9, PlainStepSettled, SignalStepSettled
     DEF ManagerNext, Returns, TimerReturns, Threads

LEMMA SettledInit ==
  ASSUME ManagerInit
  PROVE  SettledInv
<1>1. /\ queues = [u \in Users |-> << >>] /\ timers = {}
      /\ runs = [r \in Runs |-> NoRun] /\ call = [t \in Threads |-> IdleFrame]
  BY DEF ManagerInit, QueueInit, SignalsInit
<1>2. \A u \in Users : ToSet(queues[u]) = {}
  BY <1>1 DEF ToSet
<1>3. \A r \in Runs : AtRest(r)
  BY <1>1, <1>2, ManagerAssumption, NoRunIsRecord DEF AtRest, Waits
<1>4. QueuedRuns
  BY <1>1, <1>2, NoRunIsRecord DEF QueuedRuns
<1>5. \A t \in Threads : Hand(call[t]) /\ Idle(t)
  BY <1>1, NoHand DEF Idle
<1>6. OneChain
  BY <1>5 DEF OneChain
<1>7. QED
  BY <1>3, <1>4, <1>5, <1>6 DEF SettledInv

\* With stores that settle at once, the chain under way is the only one and
\* knows its run; every other run is where its state says.
THEOREM SettledInvariant ==
  ASSUME StoresSettleAtOnce
  PROVE  ManagerSpec => [](ManagerInv /\ SettledInv)
<1>1. ManagerInit => SettledInv
  BY SettledInit
<1>2. ManagerInv /\ SettledInv /\ [ManagerNext]_managerVars => SettledInv'
  BY SettledNext
<1>3. QED
  BY <1>1, <1>2, ManagerInvariant, PTL DEF ManagerSpec

\* No run is lost or served twice: between callbacks the QUEUED runs are
\* exactly the ones in their user's queue (run-manager.ts keeps the two in
\* different stores and updates them an await apart).
THEOREM WaitingRuns ==
  ASSUME StoresSettleAtOnce
  PROVE  ManagerSpec => []QueuedIffWaiting
<1>1. SettledInv => QueuedIffWaiting
  BY NoHand, AllAtRest DEF QueuedIffWaiting, Settled, Idle, AtRest, Waits
<1>2. QED
  BY <1>1, SettledInvariant, PTL

\* Between callbacks exactly the RUNNING runs can time out and be aborted:
\* startRun, cancelRun, timeoutRun, completeRun and failRun keep the timers
\* and the contexts in step with the states.
THEOREM StoppableRuns ==
  ASSUME StoresSettleAtOnce
  PROVE  ManagerSpec => []StoppableIffRunning
<1>1. SettledInv => StoppableIffRunning
  BY NoHand, AllAtRest DEF StoppableIffRunning, Settled, Idle, AtRest
<1>2. QED
  BY <1>1, SettledInvariant, PTL

\* The threads named by runs are timeout callbacks.
TimerThreads == \A r \in Runs : call[r].op \in {"none", "timeout"}

\* The promise of a timeout callback, which nobody awaits (timeout.ts), never
\* rejects: the run it finds is RUNNING until it has written TIMED_OUT.
THEOREM TimeoutsSucceed ==
  ASSUME StoresSettleAtOnce
  PROVE  ManagerSpec => []TimeoutsNeverReject
<1>1. SettledInv /\ TimerThreads => TimeoutsNeverReject
  BY DEF SettledInv, Hand, TimerThreads, TimeoutsNeverReject, Threads
<1>2. ManagerInit => TimerThreads
  BY DEF ManagerInit, TimerThreads, IdleFrame, Threads
<1>3. ManagerInv /\ TimerThreads /\ [ManagerNext]_managerVars => TimerThreads'
  <2> SUFFICES ASSUME ManagerInv, TimerThreads, [ManagerNext]_managerVars,
                      NEW r \in Runs
               PROVE  call'[r].op \in {"none", "timeout"}
    BY DEF TimerThreads
  <2>1. /\ call \in [Threads -> Frame] /\ r \in Threads /\ r \notin Tasks
        /\ call[r].op \in {"none", "timeout"}
    BY InMethod, ManagerAssumption DEF Threads, TimerThreads
  <2>2. ASSUME NEW t \in Threads, PlainStep(t) \/ SignalStep(t)
        PROVE  call'[r].op = call[r].op
    BY <2>1, <2>2, OfOneMethod
  <2>3. ASSUME NEW t \in Tasks, Calls(t) \/ Returns(t)
        PROVE  call'[r] = call[r]
    BY <2>1, <2>3 DEF Calls, Returns, Begin, BeginCreate, Threads
  <2>4. ASSUME NEW s \in Runs, TimerFires(s)
        PROVE  call'[r] = call[r] \/ call'[r].op = "timeout"
    BY <2>1, <2>4, SettleFields DEF TimerFires, Begin, Threads
  <2>5. ASSUME NEW s \in Runs, TimerReturns(s)
        PROVE  call'[r] = call[r] \/ call'[r].op = "none"
    BY <2>1, <2>5 DEF TimerReturns, IdleFrame, Threads
  <2>6. CASE UNCHANGED call
    BY <2>1, <2>6
  <2>7. QED
    BY <2>1, <2>2, <2>3, <2>4, <2>5, <2>6
       DEF ManagerNext, LeaseExpires, managerVars
<1>4. QED
  BY <1>1, <1>2, <1>3, ManagerInvariant, SettledInvariant, PTL DEF ManagerSpec

\* No stored state changes but along the transition table, though acquireNextRun
\* does not look at the state it overwrites.
LEMMA TableFollowed ==
  ASSUME ManagerInv, SettledInv, NEW r \in Runs, runs'[r].state # runs[r].state,
         \/ \E t \in Threads : PlainStep(t) \/ SignalStep(t)
         \/ \E t \in Threads, s \in Runs : BeginCreate(t, s)
  PROVE  \/ runs[r] = NoRun /\ runs'[r].state = "QUEUED"
         \/ isValidStateTransition(runs[r].state, runs'[r].state)
<1>1. runs \in [Runs -> RunRecord] /\ call \in [Threads -> Frame]
  BY InMethod DEF ManagerInv, RunsOK
<1>2. ASSUME NEW t \in Threads, NEW s \in Runs, BeginCreate(t, s)
      PROVE  runs[r] = NoRun /\ runs'[r].state = "QUEUED"
  BY <1>1, <1>2 DEF BeginCreate, NoRun
<1>3. ASSUME NEW t \in Threads, SetQueuePosition(t)
      PROVE  FALSE
  BY <1>1, <1>3 DEF SetQueuePosition, RunRecord
<1>4. ASSUME NEW t \in Threads, MarkLeased(t)
      PROVE  isValidStateTransition(runs[r].state, runs'[r].state)
  <2>1. call[t].run = r /\ runs'[r].state = "LEASED"
    BY <1>1, <1>4 DEF MarkLeased
  <2>2. runs[r].state = "QUEUED"
    BY <1>4, <2>1, NoneAssumption, RestOfThem DEF MarkLeased, Hand
  <2>3. QED
    BY <2>1, <2>2 DEF isValidStateTransition, VALID_STATE_TRANSITIONS
<1>5. ASSUME NEW t \in Threads, WriteTransition(t)
      PROVE  isValidStateTransition(runs[r].state, runs'[r].state)
  <2>1. /\ runs' # runs => isValidStateTransition(runs[call[t].run].state,
                                                  runs'[call[t].run].state)
        /\ \A s \in Runs \ {call[t].run} : runs'[s] = runs[s]
    BY <1>5, WriteTransitionSettled
  <2>2. QED
    BY <2>1
<1>6. ASSUME NEW t \in Threads,
             \/ EnqueueRun(t) \/ LeaseNextRun(t) \/ DequeueNext(t)
             \/ RemoveQueued(t) \/ ReleaseLease(t) \/ RereadRun(t)
             \/ BeginRun(t) \/ SignalStep(t)
      PROVE  FALSE
  BY <1>6 DEF EnqueueRun, LeaseNextRun, DequeueNext, RemoveQueued, ReleaseLease,
              RereadRun, BeginRun, SignalStep
<1>7. QED
  BY <1>2, <1>3, <1>4, <1>5, <1>6 DEF PlainStep

\* Every change of a stored state is one the table of types/run.ts allows; in
\* particular a terminal state is final.
THEOREM StatesFollowTable ==
  ASSUME StoresSettleAtOnce
  PROVE  ManagerSpec => TransitionsFollowTable
<1> DEFINE Follows == \A r \in Runs : runs'[r].state # runs[r].state =>
             \/ runs[r] = NoRun /\ runs'[r].state = "QUEUED"
             \/ isValidStateTransition(runs[r].state, runs'[r].state)
<1>1. ManagerInv /\ SettledInv /\ [ManagerNext]_managerVars
        => [Follows]_managerVars
  <2> SUFFICES ASSUME ManagerInv, SettledInv, ManagerNext, NEW r \in Runs,
                      runs'[r].state # runs[r].state
               PROVE  \/ runs[r] = NoRun /\ runs'[r].state = "QUEUED"
                      \/ isValidStateTransition(runs[r].state, runs'[r].state)
    OBVIOUS
  <2>1. \/ \E t \in Threads : PlainStep(t) \/ SignalStep(t)
        \/ \E t \in Threads, s \in Runs : BeginCreate(t, s)
    BY DEF ManagerNext, Calls, Returns, TimerFires, TimerReturns, LeaseExpires,
           Threads
  <2>2. QED
    BY <2>1, TableFollowed
<1>2. QED
  BY <1>1, SettledInvariant, PTL DEF ManagerSpec, TransitionsFollowTable

-----------------------------------------------------------------------------
(* The leases.                                                               *)

HoldsLease(r) == leases[UserOf[r]] # None /\ leases[UserOf[r]].runId = r

\* A run has the lease of its lane, under the token of its record, exactly
\* while it is active.
LeaseTrue(r) ==
  /\ isActiveState(runs[r].state) <=> HoldsLease(r)
  /\ HoldsLease(r) => leases[UserOf[r]].token = runs[r].leaseToken

LeaseHand(f) ==
  LET r == f.run
      s == runs[r].state IN
  IF f.pc \in {"dequeue", "markLeased"}
    THEN HoldsLease(r) /\ leases[UserOf[r]].token = f.token
  ELSE IF f.pc \in {"signal", "write"} /\ f.op \in Settling
    THEN /\ ~HoldsLease(r)
         /\ isActiveState(s) => leases[UserOf[r]] = None
         /\ f.op = "complete" => s # "LEASED"
  ELSE f.pc # "idle" /\ r # None =>
         LeaseTrue(r) /\ (f.pc = "release" /\ f.op = "complete" => s # "LEASED")

LeasesTrue ==
  /\ \A t \in Threads : LeaseHand(call[t])
  /\ \A r \in Runs :
       LeaseTrue(r) \/ \E t \in Threads : call[t].run = r /\ ~Between(call[t])

LEMMA LeasesOfTheRest ==
  ASSUME SettledInv, LeasesTrue, NEW t \in Threads, call[t].pc # "idle"
  PROVE  /\ LeaseHand(call[t])
         /\ \A r \in Runs : r # call[t].run \/ Between(call[t]) => LeaseTrue(r)
<1>1. ASSUME NEW r \in Runs, r # call[t].run \/ Between(call[t])
      PROVE  LeaseTrue(r)
  <2>1. \A s \in Threads \ {t} : Between(call[s])
    BY RestOfThem, NoHand
  <2>2. ~\E s \in Threads : call[s].run = r /\ ~Between(call[s])
    BY <1>1, <2>1
  <2>3. QED
    BY <2>2 DEF LeasesTrue
<1>2. QED
  BY <1>1 DEF LeasesTrue

LEMMA LeaseOneLeft ==
  ASSUME NEW t \in Threads, NEW f, call'[t] = f, LeaseHand(f)',
         \A s \in Threads \ {t} : call'[s] = IdleFrame,
         \A r \in Runs : r # f.run \/ Between(f) => LeaseTrue(r)'
  PROVE  LeasesTrue'
<1>1. \A s \in Threads : LeaseHand(call[s])'
  <2> SUFFICES ASSUME NEW s \in Threads  PROVE LeaseHand(call[s])'
    OBVIOUS
  <2>1. CASE call'[s] = IdleFrame
    BY <2>1 DEF LeaseHand, IdleFrame
  <2>2. CASE s = t
    BY <2>2 DEF LeaseHand
  <2>3. QED
    BY <2>1, <2>2
<1>2. QED
  BY <1>1 DEF LeasesTrue, Between

\* A step changes neither the lease of a run nor what its record says of it.
LeaseUntouched(r) ==
  /\ isActiveState(runs'[r].state) <=> isActiveState(runs[r].state)
  /\ runs'[r].leaseToken = runs[r].leaseToken
  /\ HoldsLease(r)' <=> HoldsLease(r)
  /\ HoldsLease(r) => leases'[UserOf[r]].token = leases[UserOf[r]].token

LEMMA LeaseStaysTrue ==
  ASSUME NEW r \in Runs, LeaseTrue(r), LeaseUntouched(r)
  PROVE  LeaseTrue(r)'
BY DEF LeaseTrue, LeaseUntouched

LEMMA LeaseSegmentKept ==
  ASSUME SettledInv, LeasesTrue, call \in [Threads -> Frame],
         NEW t \in Threads, call[t].pc # "idle",
         NEW f, NEW r \in Runs, call[t].run = r, f.run = r, f.pc # "idle",
         call' = [call EXCEPT ![t] = f], LeaseHand(f)',
         \A s \in Runs \ {r} : LeaseUntouched(s)
  PROVE  LeasesTrue'
<1>1. call'[t] = f /\ \A s \in Threads \ {t} : call'[s] = IdleFrame
  BY RestOfThem
<1>2. \A s \in Runs \ {r} : LeaseTrue(s)'
  BY LeasesOfTheRest, LeaseStaysTrue
<1>3. Between(f) => LeaseTrue(r)'
  BY NoneAssumption DEF LeaseHand, Between
<1>4. QED
  BY <1>1, <1>2, <1>3, LeaseOneLeft

\* The steps that leave the leases alone, and the states.
LEMMA QuietLease ==
  ASSUME ManagerInv, SettledInv, LeasesTrue, NEW t \in Threads,
         \/ EnqueueRun(t) \/ SetQueuePosition(t) \/ DequeueNext(t)
         \/ RemoveQueued(t) \/ SignalStep(t) \/ RereadRun(t) \/ BeginRun(t)
  PROVE  LeasesTrue'
<1>1. /\ call[t] \in Frame /\ call[t].run \in Runs /\ ~Between(call[t])
      /\ call \in [Threads -> Frame] /\ runs \in [Runs -> RunRecord]
      /\ UserOf[call[t].run] \in Users
  BY InMethod, OfOneMethod, ManagerAssumption
     DEF PlainStep, FrameShape, Between
<1>2. PICK r \in Runs : r = call[t].run
  BY <1>1
<1>3. /\ leases' = leases
      /\ \A s \in Runs : /\ runs'[s].state = runs[s].state
                         /\ runs'[s].leaseToken = runs[s].leaseToken
  <2>1. CASE SetQueuePosition(t)
    BY <1>1, <2>1 DEF SetQueuePosition, storeVars, leaseVars, RunRecord
  <2>2. CASE ~SetQueuePosition(t)
    BY <2>2 DEF EnqueueRun, DequeueNext, RemoveQueued, SignalStep, RereadRun,
                BeginRun, storeVars, leaseVars
  <2>3. QED
    BY <2>1, <2>2
<1>4. \A s \in Runs : LeaseUntouched(s)
  BY <1>3 DEF LeaseUntouched, HoldsLease
<1>5. PICK f : /\ call' = [call EXCEPT ![t] = f] /\ f = call'[t]
               /\ f.op = call[t].op /\ f.run = r /\ f.pc # "idle"
  <2>1. call' = [call EXCEPT ![t] = call'[t]]
    <3>1. \E f : call' = [call EXCEPT ![t] = f]
      BY <1>1 DEF EnqueueRun, SetQueuePosition, DequeueNext, RemoveQueued,
                  SignalStep, RereadRun, BeginRun, Goto
    <3>2. QED
      BY <1>1, <3>1
  <2>2. /\ call'[t].op = call[t].op /\ call'[t].pc # "idle"
        /\ call'[t].run = call[t].run
    BY <1>1, OfOneMethod
       DEF PlainStep, EnqueueRun, SetQueuePosition, DequeueNext, RemoveQueued,
           SignalStep, RereadRun, BeginRun
  <2>3. QED
    BY <1>2, <2>1, <2>2
<1>6. LeaseHand(call[t]) /\ Hand(call[t])
  BY <1>1, RestOfThem, LeasesOfTheRest DEF Between
<1>7. LeaseHand(f)'
  <2>1. CASE DequeueNext(t)
    <3>1. f.pc = "markLeased" /\ f.token = call[t].token
          /\ call[t].pc = "dequeue"
      BY <1>1, <1>5, <2>1 DEF DequeueNext, Goto, Frame
    <3>2. QED
      BY <1>2, <1>3, <1>5, <1>6, <3>1 DEF LeaseHand, HoldsLease
  <2>2. CASE RemoveQueued(t)
    <3>1. /\ runs[r].state = "QUEUED" /\ LeaseTrue(r)
          /\ AfterRemove(call[t].seen) \in {"signal", "release"}
          /\ call[t].op = "cancel"
      BY <1>2, <1>6, <2>2, NoneAssumption
         DEF LeaseHand, Hand, RemoveQueued, AfterRemove
    <3>2. f.pc \in {"signal", "release"} /\ f.op = "cancel"
      BY <1>1, <1>5, <2>2, <3>1 DEF RemoveQueued, Goto, Frame
    <3>3. ~HoldsLease(r)' /\ ~isActiveState(runs'[r].state) /\ LeaseTrue(r)'
      BY <1>3, <1>4, <3>1, LeaseStaysTrue
         DEF LeaseTrue, isActiveState, HoldsLease
    <3>4. QED
      BY <1>5, <3>2, <3>3 DEF LeaseHand
  <2>3. CASE SignalStep(t)
    <3>1. /\ call[t].pc = "signal" /\ call[t].op \in Settling
          /\ f.pc = "write"
      BY <1>1, <1>2, <1>5, <1>6, <2>3, NoneAssumption
         DEF SignalStep, Frame, Hand, Stopping
    <3>2. /\ ~HoldsLease(r)
          /\ isActiveState(runs[r].state) => leases[UserOf[r]] = None
          /\ f.op = "complete" => runs[r].state # "LEASED"
      BY <1>2, <1>5, <1>6, <3>1 DEF LeaseHand
    <3>3. /\ ~HoldsLease(r)'
          /\ isActiveState(runs'[r].state) => leases'[UserOf[r]] = None
          /\ f.op = "complete" => runs'[r].state # "LEASED"
      BY <1>3, <3>2 DEF HoldsLease
    <3>4. f.pc = "write" /\ f.op \in Settling /\ f.run = r
      BY <1>5, <3>1
    <3>5. QED
      BY <3>3, <3>4 DEF LeaseHand, HoldsLease
  <2>4. CASE EnqueueRun(t) \/ SetQueuePosition(t) \/ RereadRun(t) \/ BeginRun(t)
    <3>1. call[t].pc \in {"enqueue", "setPosition", "reread", "begin"}
      BY <2>4 DEF EnqueueRun, SetQueuePosition, RereadRun, BeginRun
    <3>2. f.pc \in {"setPosition", "begin", "done"}
      <4>1. CASE EnqueueRun(t)
        BY <1>1, <1>5, <4>1 DEF EnqueueRun, Frame
      <4>2. CASE SetQueuePosition(t)
        BY <1>1, <1>5, <4>2 DEF SetQueuePosition, Goto, Frame
      <4>3. CASE RereadRun(t)
        BY <1>1, <1>5, <4>3 DEF RereadRun, Frame
      <4>4. CASE BeginRun(t)
        BY <1>1, <1>5, <4>4 DEF BeginRun, Goto, Frame
      <4>5. QED
        BY <2>4, <4>1, <4>2, <4>3, <4>4
    <3>3. LeaseTrue(r)'
      BY <1>2, <1>4, <1>6, <3>1, NoneAssumption, LeaseStaysTrue DEF LeaseHand
    <3>4. QED
      BY <1>5, <3>2, <3>3 DEF LeaseHand
  <2>5. QED
    BY <2>1, <2>2, <2>3, <2>4
<1>8. QED
  BY <1>1, <1>2, <1>4, <1>5, <1>7, LeaseSegmentKept DEF Between

\* A lease is granted for the lane's next run where no run is active.
LEMMA LeaseGranted ==
  ASSUME ManagerInv, SettledInv, LeasesTrue, NEW t \in Threads,
         LeaseNextRun(t),
         CanAcquire(UserOf[call[t].run]) => leases[UserOf[call[t].run]] = None
  PROVE  LeasesTrue'
<1>1. /\ call[t] \in Frame /\ call[t].run \in Runs /\ call[t].pc = "lease"
      /\ call \in [Threads -> Frame] /\ UserOf[call[t].run] \in Users
      /\ leases \in [Users -> Lease \cup {None}] /\ LeaseInv
  BY InMethod, ManagerAssumption
     DEF LeaseNextRun, FrameShape, ManagerInv, LeaseInv, LeaseTypeOK
<1>2. PICK r \in Runs : r = call[t].run
  BY <1>1
<1>3. PICK u \in Users : u = UserOf[r]
  BY <1>1, <1>2
<1>4. runs' = runs /\ LeaseTrue(r)
  BY <1>1, <1>2, NoneAssumption, LeasesOfTheRest DEF LeaseNextRun, LeaseHand
<1>5. CASE CanAcquire(u)
  <2>1. PICK f : /\ call' = [call EXCEPT ![t] = f] /\ f.token = NextToken
                 /\ f.pc = "dequeue" /\ f.run = r
    <3> DEFINE g == [call[t] EXCEPT !.pc = "dequeue", !.token = NextToken]
    <3>1. call' = [call EXCEPT ![t] = g]
      BY <1>1, <1>2, <1>3, <1>5 DEF LeaseNextRun
    <3>2. g.pc = "dequeue" /\ g.run = call[t].run /\ g.token = NextToken
      BY <1>1 DEF Frame
    <3> HIDE DEF g
    <3>3. QED
      BY <1>2, <3>1, <3>2
  <2>2. /\ leases' = [leases EXCEPT ![u] =
               [runId |-> r, token |-> NextToken, live |-> TRUE]]
        /\ leases[u] = None
    BY <1>2, <1>3, <1>5 DEF LeaseNextRun, Acquire
  <2>3. /\ leases'[u] # None /\ leases'[u].runId = r
        /\ leases'[u].token = NextToken
        /\ \A v \in Users \ {u} : leases'[v] = leases[v]
    <3>1. leases'[u] = [runId |-> r, token |-> NextToken, live |-> TRUE]
      BY <1>1, <1>3, <2>2
    <3>2. NextToken \in Tokens
      BY <1>1, <1>2, <1>3, <1>5, MaxTokensAssumption
         DEF LeaseNextRun, Acquire, NextToken, Tokens, LeaseInv, LeaseTypeOK
    <3>3. leases'[u] \in Lease
      BY <3>1, <3>2 DEF Lease
    <3>4. QED
      BY <1>1, <2>2, <3>1, <3>3, NoLeaseAssumption
  <2>4. LeaseHand(f)'
    BY <1>3, <2>1, <2>3 DEF LeaseHand, HoldsLease
  <2>5. ASSUME NEW s \in Runs \ {r}
        PROVE  LeaseUntouched(s)
    BY <1>3, <1>4, <2>2, <2>3, ManagerAssumption DEF LeaseUntouched, HoldsLease
  <2>6. QED
    BY <1>1, <1>2, <2>1, <2>4, <2>5, LeaseSegmentKept
<1>6. CASE ~CanAcquire(u)
  <2>1. PICK f : /\ call' = [call EXCEPT ![t] = f]
                 /\ f.pc = "done" /\ f.run = None
    <3> DEFINE g == [call[t] EXCEPT !.pc = "done", !.run = None]
    <3>1. call' = [call EXCEPT ![t] = g]
      BY <1>1, <1>2, <1>3, <1>6 DEF LeaseNextRun
    <3>2. g.pc = "done" /\ g.run = None
      BY <1>1 DEF Frame
    <3> HIDE DEF g
    <3>3. QED
      BY <3>1, <3>2
  <2>2. leases' = leases
    BY <1>2, <1>3, <1>6 DEF LeaseNextRun, Acquire, leaseVars
  <2>3. \A s \in Runs : LeaseTrue(s)'
    BY <1>1, <1>2, <1>4, <2>2, LeasesOfTheRest DEF LeaseTrue, HoldsLease
  <2>4. call'[t] = f /\ \A s \in Threads \ {t} : call'[s] = IdleFrame
    BY <1>1, <2>1, RestOfThem
  <2>5. LeaseHand(f)'
    BY <2>1 DEF LeaseHand
  <2>6. QED
    BY <2>3, <2>4, <2>5, LeaseOneLeft
<1>7. QED
  BY <1>5, <1>6


\* The steps of acquireNextRun, cancelRun and the others that change the lease
\* or the state.
LEMMA LeaseMarked ==
  ASSUME ManagerInv, SettledInv, LeasesTrue, NEW t \in Threads, MarkLeased(t)
  PROVE  LeasesTrue'
<1>1. /\ call[t] \in Frame /\ call[t].run \in Runs /\ call[t].pc = "markLeased"
      /\ call \in [Threads -> Frame] /\ runs \in [Runs -> RunRecord]
  BY InMethod DEF MarkLeased, FrameShape
<1>2. PICK r \in Runs : r = call[t].run
  BY <1>1
<1>3. PICK f : call' = [call EXCEPT ![t] = f] /\ f.pc = "done" /\ f.run = r
  <2> DEFINE g == [call[t] EXCEPT !.pc = "done"]
  <2>1. call' = [call EXCEPT ![t] = g]
    BY DEF MarkLeased, Goto
  <2>2. Continues(call[t], g, "done", call[t].seen)
    BY <1>1, Going
  <2> HIDE DEF g
  <2>3. QED
    BY <1>2, <2>1, <2>2 DEF Continues
<1>4. HoldsLease(r) /\ leases[UserOf[r]].token = call[t].token
  BY <1>1, <1>2, LeasesOfTheRest DEF LeaseHand
<1>5. /\ runs'[r].state = "LEASED" /\ runs'[r].leaseToken = call[t].token
      /\ \A s \in Runs \ {r} : runs'[s] = runs[s]
      /\ leases' = leases
  BY <1>1, <1>2 DEF MarkLeased, storeVars, leaseVars
<1>6. LeaseTrue(r)'
  BY <1>4, <1>5 DEF LeaseTrue, HoldsLease, isActiveState
<1>7. LeaseHand(f)'
  BY <1>3, <1>6 DEF LeaseHand
<1>8. \A s \in Runs \ {r} : LeaseUntouched(s)
  BY <1>5 DEF LeaseUntouched, HoldsLease
<1>9. QED
  BY <1>1, <1>2, <1>3, <1>7, <1>8, LeaseSegmentKept

LEMMA LeaseReleased ==
  ASSUME ManagerInv, SettledInv, LeasesTrue, NEW t \in Threads, ReleaseLease(t)
  PROVE  LeasesTrue'
<1>1. /\ call[t] \in Frame /\ call[t].run \in Runs /\ call[t].pc = "release"
      /\ call \in [Threads -> Frame] /\ LeaseInv
      /\ FrameTokens(call[t], Own)
  BY InMethod DEF ReleaseLease, FrameShape, ManagerInv
<1>2. PICK r \in Runs : r = call[t].run
  BY <1>1
<1>3. PICK u \in Users : u = UserOf[r]
  BY ManagerAssumption
<1>4. /\ call[t].seen = runs[r] /\ call[t].op \in Settling
  BY <1>1, <1>2, NoneAssumption, RestOfThem DEF Hand, Stopping
<1>5. PICK f : /\ call' = [call EXCEPT ![t] = f] /\ f.pc = "signal"
               /\ f.op = call[t].op /\ f.run = r
  <2> DEFINE g == [call[t] EXCEPT !.pc = "signal", !.seen = NoRun]
  <2>1. call' = [call EXCEPT ![t] = g]
    BY DEF ReleaseLease, Forget
  <2>2. Continues(call[t], g, "signal", NoRun)
    BY <1>1, NoRunIsRecord, Resuming
  <2> HIDE DEF g
  <2>3. QED
    BY <1>2, <2>1, <2>2 DEF Continues
<1>6. /\ LeaseTrue(r)
      /\ call[t].op = "complete" => runs[r].state # "LEASED"
  BY <1>1, <1>2, NoneAssumption, LeasesOfTheRest DEF LeaseHand
<1>7. runs' = runs /\ Release(runs[r].leaseToken)
  BY <1>4 DEF ReleaseLease
<1>8. <<runs[r].leaseToken, r>> \in Own
  BY <1>1, <1>2, <1>4 DEF FrameTokens
<1>9. \A v \in Users : leases'[v] # leases[v] =>
        leases[v] # None /\ leases[v].runId = r /\ leases'[v] = None
  BY <1>7, <1>8, ReleaseOwn
<1>10. HoldsLease(r) => leases'[u] = None
  <2> SUFFICES ASSUME HoldsLease(r)  PROVE leases'[u] = None
    OBVIOUS
  <2>1. leases[u] # None /\ leases[u].token = runs[r].leaseToken
    BY <1>3, <1>6 DEF HoldsLease, LeaseTrue
  <2>2. OwnsLease(runs[r].leaseToken, u)
    BY <1>1, <2>1, TokenOfLease
  <2>3. \A v \in Users : OwnsLease(runs[r].leaseToken, v) => v = u
    BY <1>1, <2>1, OwnerIsUnique
  <2>4. Drop(u)
    BY <1>7, <2>2, <2>3 DEF Release
  <2>5. leases \in [Users -> Lease \cup {None}]
    BY <1>1 DEF LeaseInv, LeaseTypeOK
  <2>6. QED
    BY <2>4, <2>5 DEF Drop
<1>11. /\ ~HoldsLease(r)'
       /\ isActiveState(runs'[r].state) => leases'[u] = None
  BY <1>3, <1>6, <1>7, <1>9, <1>10 DEF LeaseTrue, HoldsLease
<1>12. LeaseHand(f)'
  BY <1>3, <1>4, <1>5, <1>6, <1>7, <1>11 DEF LeaseHand, HoldsLease
<1>13. ASSUME NEW s \in Runs \ {r}
       PROVE  LeaseUntouched(s)
  <2>1. UserOf[s] \in Users
    BY ManagerAssumption
  <2>2. QED
    BY <1>7, <1>9, <2>1 DEF LeaseUntouched, HoldsLease
<1>14. QED
  BY <1>1, <1>2, <1>5, <1>12, <1>13, LeaseSegmentKept

LEMMA LeaseWritten ==
  ASSUME ManagerInv, SettledInv, LeasesTrue, NEW t \in Threads,
         WriteTransition(t)
  PROVE  LeasesTrue'
<1> DEFINE to == Target(call[t].op)
<1>1. /\ call[t] \in Frame /\ call[t].run \in Runs /\ call[t].pc = "write"
      /\ call[t].op \in Settling \cup {"start"}
      /\ call \in [Threads -> Frame] /\ runs \in [Runs -> RunRecord]
  BY InMethod DEF WriteTransition, FrameShape
<1>2. PICK r \in Runs : r = call[t].run
  BY <1>1
<1>3. /\ call[t].seen = runs[r] /\ runs[r].state \in RunState
      /\ Stopping(call[t]) \/ call[t].op = "start"
  BY <1>1, <1>2, NoneAssumption, RestOfThem DEF Hand, RunRecord
<1>4. leases' = leases
  BY DEF WriteTransition, leaseVars
<1>5. /\ runs'[r].leaseToken = runs[r].leaseToken
      /\ runs'[r].state = IF isValidStateTransition(runs[r].state, to)
                            THEN to ELSE runs[r].state
      /\ \A s \in Runs \ {r} : runs'[s] = runs[s]
  <2>1. runs[r] \in RunRecord
    BY <1>1
  <2>2. CASE isValidStateTransition(runs[r].state, to)
    <3>1. runs' = [runs EXCEPT ![r] =
             IF isTerminalState(to)
               THEN [@ EXCEPT !.state = to, !.queuePosition = None]
               ELSE [@ EXCEPT !.state = to]]
      BY <1>2, <1>3, <2>2 DEF WriteTransition
    <3>2. QED
      BY <1>1, <2>1, <2>2, <3>1 DEF RunRecord
  <2>3. CASE ~isValidStateTransition(runs[r].state, to)
    <3>1. runs' = runs
      BY <1>2, <1>3, <2>3 DEF WriteTransition
    <3>2. QED
      BY <2>3, <3>1
  <2>4. QED
    BY <2>2, <2>3
<1>6. PICK f : /\ call' = [call EXCEPT ![t] = f] /\ f.run = r
               /\ f.pc \in {"threw", "reread"}
  <2>1. ASSUME NEW pc \in {"threw", "reread"},
               call' = [call EXCEPT ![t].pc = pc, ![t].seen = NoRun]
        PROVE  \E f : /\ call' = [call EXCEPT ![t] = f] /\ f.run = r
                      /\ f.pc \in {"threw", "reread"}
    <3> DEFINE g == [call[t] EXCEPT !.pc = pc, !.seen = NoRun]
    <3>1. call' = [call EXCEPT ![t] = g]
      BY <2>1
    <3>2. Continues(call[t], g, pc, NoRun)
      BY <1>1, <2>1, NoRunIsRecord, Resuming
    <3> HIDE DEF g
    <3>3. QED
      BY <1>2, <3>1, <3>2 DEF Continues
  <2>2. QED
    BY <2>1 DEF WriteTransition, Forget
<1>7. LeaseTrue(r)'
  <2>1. CASE call[t].op = "start"
    <3>1. LeaseTrue(r)
      BY <1>1, <1>2, <2>1, NoneAssumption, LeasesOfTheRest
         DEF LeaseHand, Settling
    <3>2. isActiveState(runs'[r].state) <=> isActiveState(runs[r].state)
      BY <1>3, <1>5, <2>1
         DEF Target, isActiveState, isValidStateTransition,
             VALID_STATE_TRANSITIONS, RunState
    <3>3. QED
      BY <1>4, <1>5, <3>1, <3>2, LeaseStaysTrue DEF LeaseUntouched, HoldsLease
  <2>2. CASE call[t].op \in Settling
    <3>1. /\ ~HoldsLease(r) /\ Stopping(call[t])
          /\ call[t].op = "complete" => runs[r].state # "LEASED"
      BY <1>1, <1>2, <1>3, <2>2, LeasesOfTheRest DEF LeaseHand, Settling
    <3>2. ~isActiveState(runs'[r].state)
      BY <1>2, <1>3, <1>5, <2>2, <3>1
         DEF Settling, Stopping, Target, isActiveState, isValidStateTransition,
             VALID_STATE_TRANSITIONS, RunState
    <3>3. QED
      BY <1>4, <3>1, <3>2 DEF LeaseTrue, HoldsLease
  <2>3. QED
    BY <1>1, <2>1, <2>2
<1>8. LeaseHand(f)'
  BY <1>6, <1>7 DEF LeaseHand
<1>9. \A s \in Runs \ {r} : LeaseUntouched(s)
  BY <1>4, <1>5 DEF LeaseUntouched, HoldsLease
<1>10. QED
  BY <1>1, <1>2, <1>6, <1>8, <1>9, LeaseSegmentKept

\* The first steps: a run without a lease token has no lease to release.
LEMMA FirstLeases ==
  ASSUME ManagerInv, QueuedRuns, \A r \in Runs : LeaseTrue(r)
  PROVE  /\ \A u \in Users : LeaseHand(AcquireFrame(u))
         /\ \A r \in Runs : LeaseHand(StartFrame(r)) /\ LeaseHand(GetFrame(r))
         /\ \A r \in Runs, op \in Settling, reason \in Reasons \cup {None} :
              (op = "complete" => runs[r].state # "LEASED")
                => LeaseHand(SettleFrame(op, r, reason))
<1>1. ASSUME NEW u \in Users
      PROVE  LeaseHand(AcquireFrame(u))
  <2>1. AcquireFrame(u).pc = "done" \/ AcquireFrame(u).pc = "lease"
    BY DEF AcquireFrame, IdleFrame
  <2>2. AcquireFrame(u).run \in Runs \cup {None}
    <3>1. Peek(u) \in Runs \cup {None}
      BY DEF Peek, ManagerInv, QueueInv, QueueTypeOK
    <3>2. AcquireFrame(u).run \in {Peek(u), None}
      BY DEF AcquireFrame, IdleFrame
    <3>3. QED
      BY <3>1, <3>2
  <2>3. PICK f : /\ f = AcquireFrame(u)
                 /\ f.pc \in {"done", "lease"} /\ f.run \in Runs \cup {None}
    BY <2>1, <2>2
  <2>4. LeaseHand(f)
    BY <2>3 DEF LeaseHand
  <2>5. QED
    BY <2>3, <2>4
<1>2. ASSUME NEW r \in Runs
      PROVE  LeaseHand(StartFrame(r)) /\ LeaseHand(GetFrame(r))
  <2>1. PICK f : f = StartFrame(r) /\ f.op = "start" /\ f.pc = "write"
                 /\ f.run = r
    BY FirstFields
  <2>2. PICK g : g = GetFrame(r) /\ g.pc = "done" /\ g.run = r
    BY FirstFields
  <2>3. LeaseTrue(f.run) /\ LeaseTrue(g.run)
    BY <2>1, <2>2
  <2>4. f.pc = "write" /\ f.op \notin Settling /\ g.pc = "done"
    BY <2>1, <2>2 DEF Settling
  <2>5. LeaseHand(f) /\ LeaseHand(g)
    BY <2>3, <2>4 DEF LeaseHand
  <2>6. QED
    BY <2>1, <2>2, <2>5
<1>3. ASSUME NEW r \in Runs, NEW op \in Settling,
             NEW reason \in Reasons \cup {None},
             op = "complete" => runs[r].state # "LEASED"
      PROVE  LeaseHand(SettleFrame(op, r, reason))
  <2>1. PICK f : /\ f = SettleFrame(op, r, reason) /\ f.op = op
                 /\ f.pc = AfterRead(op, runs[r]) /\ f.run = r
    BY SettleFields
  <2>2. f.pc \in {"done", "remove", "release", "signal"}
    BY <2>1 DEF AfterRead, AfterRemove
  <2>3. f.pc = "signal" => ~HoldsLease(r) /\ ~isActiveState(runs[r].state)
    <3>1. LeaseInv /\ UserOf[r] \in Users
      BY ManagerAssumption DEF ManagerInv
    <3>2. f.pc = "signal" => runs[r].leaseToken = NoToken
      BY <2>1 DEF AfterRead, AfterRemove
    <3>3. HoldsLease(r) => leases[UserOf[r]].token # NoToken
      BY <3>1, TokenOfLease DEF HoldsLease, Tokens, NoToken
    <3>4. QED
      BY <3>2, <3>3 DEF LeaseTrue
  <2>4. LeaseHand(f)
    BY <1>3, <2>1, <2>2, <2>3 DEF LeaseHand
  <2>5. QED
    BY <2>1, <2>4
<1>4. QED
  BY <1>1, <1>2, <1>3

\* A callback begins with frame f of thread t, or ends there.
LEMMA LeaseCallerStep ==
  ASSUME LeasesTrue, \A s \in Threads : Between(call[s]),
         UNCHANGED <<runs, leases>>,
         NEW t \in Threads, NEW f, LeaseHand(f), call'[t] = f,
         \A s \in Threads \ {t} : call'[s] = IdleFrame
  PROVE  LeasesTrue'
<1>1. \A r \in Runs : LeaseTrue(r)'
  BY DEF LeasesTrue, LeaseTrue, HoldsLease
<1>2. LeaseHand(f)'
  BY DEF LeaseHand, LeaseTrue, HoldsLease
<1>3. QED
  BY <1>1, <1>2, LeaseOneLeft

LEMMA BeginCreateLeases ==
  ASSUME ManagerInv, LeasesTrue, Settled, NEW t \in Threads, NEW r \in Runs,
         BeginCreate(t, r)
  PROVE  LeasesTrue'
<1> DEFINE g == [IdleFrame EXCEPT !.op = "create", !.pc = "enqueue", !.run = r]
<1>1. /\ call \in [Threads -> Frame] /\ runs \in [Runs -> RunRecord]
      /\ runs[r] = NoRun /\ leases' = leases
  BY InMethod DEF BeginCreate, storeVars, leaseVars
<1>2. \A s \in Threads : call[s] = IdleFrame
  BY DEF Settled, Idle
<1>3. PICK f : /\ call' = [call EXCEPT ![t] = f]
               /\ f.pc = "enqueue" /\ f.run = r
  <2>1. call' = [call EXCEPT ![t] = g]
    BY DEF BeginCreate, Begin
  <2>2. g.pc = "enqueue" /\ g.run = r
    BY DEF IdleFrame
  <2> HIDE DEF g
  <2>3. QED
    BY <2>1, <2>2
<1>4. /\ runs'[r].state = "QUEUED" /\ runs'[r].leaseToken = runs[r].leaseToken
      /\ \A s \in Runs \ {r} : runs'[s] = runs[s]
  BY <1>1 DEF BeginCreate, NoRun
<1>5. \A s \in Runs : LeaseTrue(s)
  BY <1>2, NoHand DEF LeasesTrue
<1>6. \A s \in Runs : LeaseUntouched(s)
  <2>1. LeaseUntouched(r)
    BY <1>1, <1>4 DEF LeaseUntouched, HoldsLease, isActiveState, NoRun
  <2>2. QED
    BY <1>1, <1>4, <2>1 DEF LeaseUntouched, HoldsLease
<1>7. \A s \in Runs : LeaseTrue(s)'
  BY <1>5, <1>6, LeaseStaysTrue
<1>8. LeaseHand(f)'
  BY <1>3, <1>7 DEF LeaseHand
<1>9. QED
  BY <1>1, <1>2, <1>3, <1>7, <1>8, LeaseOneLeft

LEMMA LeasesNext ==
  ASSUME StoresSettleAtOnce, ManagerInv, SettledInv, LeasesTrue,
         \A t \in Threads : call[t].pc = "lease" /\ CanAcquire(UserOf[call[t].run])
           => leases[UserOf[call[t].run]] = None,
         [ManagerNext]_managerVars
  PROVE  LeasesTrue'
<1>1. MayBegin => Settled
  BY DEF MayBegin
<1>2. Settled => /\ \A s \in Threads : call[s] = IdleFrame /\ Between(call[s])
                 /\ \A r \in Runs : LeaseTrue(r)
  BY NoHand DEF Settled, Idle, LeasesTrue
<1>3. call \in [Threads -> Frame] /\ QueuedRuns
  BY DEF ManagerInv, SettledInv
<1>4. CASE UNCHANGED managerVars
  <2>1. UNCHANGED <<runs, leases, call>>
    BY <1>4 DEF managerVars, storeVars, leaseVars
  <2>2. QED
    BY <2>1 DEF LeasesTrue, LeaseHand, LeaseTrue, HoldsLease, Between
<1>5. ASSUME NEW t \in Threads, NEW f, Settled, Begin(t, f), LeaseHand(f),
             UNCHANGED <<runs, leases>>
      PROVE  LeasesTrue'
  <2>1. call'[t] = f /\ \A s \in Threads \ {t} : call'[s] = IdleFrame
    BY <1>2, <1>3, <1>5 DEF Begin
  <2>2. QED
    BY <1>2, <1>5, <2>1, LeaseCallerStep
<1>6. ASSUME NEW t \in Tasks, Calls(t)
      PROVE  LeasesTrue'
  <2>1. t \in Threads /\ Settled
    BY <1>1, <1>6 DEF Calls, Threads
  <2>2. ASSUME NEW r \in Runs, BeginCreate(t, r)
        PROVE  LeasesTrue'
    BY <2>1, <2>2, BeginCreateLeases
  <2>3. CASE \A r \in Runs : ~BeginCreate(t, r)
    <3>1. UNCHANGED <<runs, leases>>
      BY <1>6, <2>3 DEF Calls, storeVars, leaseVars
    <3>2. ASSUME NEW u \in Users, Begin(t, AcquireFrame(u))
          PROVE  LeasesTrue'
      BY <1>2, <1>3, <1>5, <2>1, <3>1, <3>2, FirstLeases
    <3>3. ASSUME NEW r \in Runs, Begin(t, StartFrame(r))
          PROVE  LeasesTrue'
      BY <1>2, <1>3, <1>5, <2>1, <3>1, <3>3, FirstLeases
    <3>4. ASSUME NEW r \in Runs, NEW op \in Settling,
                 NEW reason \in Reasons \cup {None},
                 op = "complete" => runs[r].state # "LEASED",
                 Begin(t, SettleFrame(op, r, reason))
          PROVE  LeasesTrue'
      BY <1>2, <1>3, <1>5, <2>1, <3>1, <3>4, FirstLeases
    <3>5. QED
      BY <1>6, <2>3, <3>2, <3>3, <3>4 DEF Calls, Settling
  <2>4. QED
    BY <2>2, <2>3
<1>7. ASSUME NEW t \in Threads, call[t].pc \in {"done", "threw"},
             call' = [call EXCEPT ![t] = IdleFrame], UNCHANGED <<storeVars, runs>>
      PROVE  LeasesTrue'
  <2>1. /\ UNCHANGED <<runs, leases>>
        /\ \A s \in Threads : call'[s] = IdleFrame
        /\ \A s \in Threads : Between(call[s])
    BY <1>3, <1>7, RestOfThem, NoHand DEF storeVars, leaseVars, Between
  <2>2. LeaseHand(IdleFrame)
    BY DEF LeaseHand, IdleFrame
  <2>3. QED
    BY <2>1, <2>2, LeaseCallerStep
<1>8. ASSUME NEW r \in Runs, TimerFires(r)
      PROVE  LeasesTrue'
  <2>1. /\ r \in Threads /\ Settled /\ "timeout" \in Settling
        /\ "timeout" \in Reasons
        /\ UNCHANGED <<runs, leases>>
        /\ Begin(r, SettleFrame("timeout", r, "timeout"))
    BY <1>1, <1>8, ReasonsAssumption
       DEF TimerFires, Threads, Settling, leaseVars
  <2>2. QED
    BY <1>2, <1>3, <1>5, <2>1, FirstLeases
<1>9. ASSUME NEW t \in Threads, LeaseNextRun(t)
      PROVE  LeasesTrue'
  BY <1>9, LeaseGranted DEF LeaseNextRun
<1>10. ASSUME NEW u \in Users, LeaseExpires(u)
       PROVE  LeasesTrue'
  <2>1. /\ leases \in [Users -> Lease \cup {None}] /\ leases[u] # None
        /\ leases' = [leases EXCEPT ![u].live = FALSE]
        /\ UNCHANGED <<runs, call>>
    BY <1>10 DEF LeaseExpires, Expire, HoldsLive, ManagerInv, LeaseInv, LeaseTypeOK
  <2>2. \A v \in Users :
          /\ leases'[v] = None <=> leases[v] = None
          /\ leases[v] # None =>
               /\ leases'[v].runId = leases[v].runId
               /\ leases'[v].token = leases[v].token
    <3>1. leases[u] \in Lease
      BY <2>1
    <3>2. leases'[u] \in Lease /\ leases'[u].runId = leases[u].runId
                               /\ leases'[u].token = leases[u].token
      BY <2>1, <3>1 DEF Lease
    <3>3. QED
      BY <2>1, <3>2, NoLeaseAssumption
  <2>3. ASSUME NEW r \in Runs
        PROVE  /\ HoldsLease(r)' <=> HoldsLease(r)
               /\ HoldsLease(r) => leases'[UserOf[r]].token = leases[UserOf[r]].token
               /\ leases'[UserOf[r]] = None <=> leases[UserOf[r]] = None
    <3>1. PICK v \in Users : v = UserOf[r]
      BY ManagerAssumption
    <3>2. /\ leases'[v] = None <=> leases[v] = None
          /\ leases[v] # None =>
               /\ leases'[v].runId = leases[v].runId
               /\ leases'[v].token = leases[v].token
      BY <2>2
    <3>3. QED
      BY <3>1, <3>2 DEF HoldsLease
  <2>4. ASSUME NEW r \in Runs
        PROVE  LeaseTrue(r)' <=> LeaseTrue(r)
    BY <2>1, <2>3 DEF LeaseTrue
  <2>5. ASSUME NEW t \in Threads
        PROVE  LeaseHand(call[t])'
    <3>1. call[t] \in Frame /\ FrameShape(call[t]) /\ LeaseHand(call[t])
      BY InMethod DEF LeasesTrue
    <3>2. PICK f : f = call[t] /\ call'[t] = f
      BY <2>1
    <3>3. CASE f.run \in Runs
      <4>1. /\ HoldsLease(f.run)' <=> HoldsLease(f.run)
            /\ HoldsLease(f.run) =>
                 leases'[UserOf[f.run]].token = leases[UserOf[f.run]].token
            /\ leases'[UserOf[f.run]] = None <=> leases[UserOf[f.run]] = None
            /\ LeaseTrue(f.run)' <=> LeaseTrue(f.run)
        BY <2>3, <2>4, <3>3
      <4>2. LeaseHand(f)
        BY <3>1, <3>2
      <4>3. LeaseHand(f)'
        BY <2>1, <4>1, <4>2 DEF LeaseHand
      <4>4. QED
        BY <3>2, <4>3 DEF LeaseHand
    <3>4. CASE f.run = None
      BY <2>1, <3>1, <3>2, <3>4, NoneAssumption DEF LeaseHand, FrameShape
    <3>5. QED
      BY <3>1, <3>2, <3>3, <3>4 DEF Frame
  <2>6. QED
    <3>1. \A r \in Runs : LeaseTrue(r) \/ \E t \in Threads : call[t].run = r /\ ~Between(call[t])
      BY DEF LeasesTrue
    <3>2. \A r \in Runs : LeaseTrue(r)' \/ \E t \in Threads : call[t].run = r /\ ~Between(call[t])
      BY <2>4, <3>1
    <3>3. QED
      BY <2>1, <2>5, <3>2 DEF LeasesTrue, Between
<1>11. QED
  BY <1>4, <1>6, <1>7, <1>8, <1>9, <1>10, QuietLease, LeaseMarked, LeaseReleased,
     LeaseWritten
     DEF ManagerNext, PlainStep, Returns, TimerReturns, Threads

LEMMA LeasesInit == ManagerInit => LeasesTrue
<1> SUFFICES ASSUME ManagerInit  PROVE LeasesTrue
  OBVIOUS
<1>1. /\ leases = [u \in Users |-> None]
      /\ runs = [r \in Runs |-> NoRun] /\ call = [t \in Threads |-> IdleFrame]
  BY DEF ManagerInit, LeaseInit
<1>2. \A r \in Runs : LeaseTrue(r)
  BY <1>1, ManagerAssumption, NoRunIsRecord
     DEF LeaseTrue, HoldsLease, isActiveState
<1>3. LeaseHand(IdleFrame)
  BY DEF LeaseHand, IdleFrame
<1>4. QED
  BY <1>1, <1>2, <1>3 DEF LeasesTrue

LEMMA HeldLeases ==
  ASSUME ManagerInv, LeasesTrue
  PROVE  LeaseFollowsRun
<1> SUFFICES ASSUME Settled
             PROVE  LeaseFollowsRun
  BY DEF LeaseFollowsRun
<1>1. \A r \in Runs : LeaseTrue(r)
  BY NoHand DEF Settled, Idle, LeasesTrue
<1>2. \A u \in Users : leases[u] # None =>
        leases[u].runId \in Runs /\ UserOf[leases[u].runId] = u
  BY DEF ManagerInv, LeasesInLane, LeaseInv, LeaseTypeOK, Lease
<1>3. QED
  BY <1>1, <1>2 DEF LeaseFollowsRun, LeaseTrue, HoldsLease

LEMMA OneHolder ==
  ASSUME SettledInv, LeasesTrue
  PROVE  SingleActiveRun
<1> SUFFICES ASSUME NEW r \in Runs, NEW s \in Runs,
                    isActiveState(runs[r].state), isActiveState(runs[s].state),
                    UserOf[r] = UserOf[s], r # s
             PROVE  FALSE
  BY DEF SingleActiveRun
<1>1. ~(HoldsLease(r) /\ HoldsLease(s))
  BY DEF HoldsLease
<1>2. CASE \A t \in Threads : Between(call[t])
  BY <1>1, <1>2 DEF LeasesTrue, LeaseTrue
<1>3. ASSUME NEW t \in Threads, ~Between(call[t]),
             NEW x \in Runs, NEW y \in Runs, x = call[t].run, x # y,
             isActiveState(runs[x].state), isActiveState(runs[y].state),
             UserOf[x] = UserOf[y]
      PROVE  HoldsLease(x) /\ HoldsLease(y)
  <2>1. call[t].pc # "idle" /\ LeaseHand(call[t]) /\ Hand(call[t])
    BY <1>3, RestOfThem, LeasesOfTheRest DEF Between
  <2>2. HoldsLease(y)
    BY <1>3, <2>1, LeasesOfTheRest DEF LeaseTrue
  <2>3. leases[UserOf[x]] # None
    BY <1>3, <2>2 DEF HoldsLease
  <2>4. LeaseTrue(x) \/ HoldsLease(x)
    BY <1>3, <2>1, <2>3, NoneAssumption DEF LeaseHand
  <2>5. QED
    BY <1>3, <2>2, <2>4 DEF LeaseTrue
<1>4. ASSUME NEW t \in Threads, ~Between(call[t])
      PROVE  FALSE
  <2>1. CASE r = call[t].run
    BY <1>1, <1>3, <1>4, <2>1
  <2>2. CASE s = call[t].run
    BY <1>1, <1>3, <1>4, <2>2
  <2>3. CASE r # call[t].run /\ s # call[t].run
    BY <1>1, <1>4, <2>3, LeasesOfTheRest DEF LeaseTrue, Between
  <2>4. QED
    BY <2>1, <2>2, <2>3
<1>5. QED
  BY <1>2, <1>4

=============================================================================
