----------------------- MODULE SettledExecutionProofs -----------------------
(***************************************************************************)
(* RunExecution when the stores settle at once, as the in-memory stores do, *)
(* for every number of users, runs and requests and leases that expire at   *)
(* any time: each lane has one run at a time, no wake-up is lost, nothing   *)
(* rejects unseen, clients are told the truth and in order, and the whole   *)
(* implements RunLifecycle.                                                 *)
(***************************************************************************)
EXTENDS RunExecutionProofs

\* The states a run may be in at each stage of its processor.  Nobody crashes.
Allowed(at) ==
  CASE at = "provisioning" -> {"LEASED", "CANCELLED"}
    [] at = "starting"     -> {"LEASED", "RUNNING", "CANCELLED"}
    [] at \in {"loadingPack", "prompting", "checking"}
                           -> {"RUNNING", "CANCELLED", "TIMED_OUT"}
    [] at = "completing"   -> {"RUNNING", "COMPLETED"}
    [] at = "catching"     -> {"LEASED", "RUNNING", "CANCELLED", "TIMED_OUT"}
    [] at = "failing"      -> {"LEASED", "RUNNING", "FAILED"}
    [] OTHER               -> {}

\* The run of a processor is in a state of its stage, and the transition it is
\* about to write is a valid one, but for a run cancelled before it started.
LaneOK(u) ==
  \A r \in Runs : lane[u].run = r =>
    /\ runs[r].state \in Allowed(lane[u].at)
    /\ lane[u].at = "starting" /\ call[u].pc \in {"write", "threw"} =>
         runs[r].state \in {"LEASED", "CANCELLED"}
    /\ lane[u].at \in {"completing", "failing"} =>
         /\ call[u].pc # "threw"
         /\ call[u].pc \in {"release", "signal", "write"} =>
              runs[r].state \in {"LEASED", "RUNNING"}

\* An active run is its processor's, or has just been acquired by it.
ActiveInLane ==
  \A r \in Runs : isActiveState(runs[r].state) =>
    LET u == UserOf[r] IN
    \/ lane[u].run = r
    \/ call[u].op = "acquire" /\ call[u].pc = "done" /\ call[u].run = r

Creating(r) == \E t \in Threads : call[t].op = "create" /\ call[t].run = r

\* No lost wake-up: a queued run has a processor, or the createRun that will
\* wake one; and a processor leaves only when none of its runs is queued.
QueuedServed ==
  /\ \A r \in Runs : runs[r].state = "QUEUED" =>
       lane[UserOf[r]].at # "off" \/ Creating(r)
  /\ \A u \in Users : call[u].op = "acquire" /\ call[u].run = None =>
       \A r \in Runs : UserOf[r] = u => runs[r].state # "QUEUED"

\* A client knows the id of a run only when the run is stored.
KnownRuns ==
  \A r \in Runs : Told(r, "run_queued") => runs[r].state # "NONE"

LanesInv ==
  /\ \A u \in Users : LaneOK(u)
  /\ ActiveInLane /\ QueuedServed /\ KnownRuns

-----------------------------------------------------------------------------
(* Steps inside the manager.                                                 *)

\* The run in the hands of a processor's call is the processor's.
LEMMA OwnCall ==
  ASSUME ServiceInv, NEW t \in Threads, NEW r \in Runs, call[t].run = r,
         call[t].op \notin {"none", "create", "cancel", "timeout"}
  PROVE  /\ t \in Users /\ UserOf[r] = t
         /\ call[t].op # "acquire" => lane[t].run = r
<1>1. t \in Users
  BY Names DEF ServiceInv, CallersOK
<1>2. call[t].op # "acquire" => lane[t].run = r
  BY <1>1 DEF ServiceInv, CallersOK
<1>3. UserOf[r] = t
  BY <1>1, <1>2 DEF ServiceInv, Served
<1>4. QED
  BY <1>1, <1>2, <1>3

\* A processor outside the manager is at a stage that awaits the outside.
LEMMA IdleLane ==
  ASSUME ServiceInv, LanesInv, NEW u \in Users, call[u] = IdleFrame,
         NEW r \in Runs, lane[u].run = r
  PROVE  /\ lane[u].at \in {"provisioning", "loadingPack", "prompting"}
         /\ runs[r].state \in Allowed(lane[u].at)
<1>1. IdleFrame.op = "none"
  BY DEF IdleFrame
<1>2. StageOp(lane[u].at) = "none" /\ lane[u].at \in Stages
  BY <1>1 DEF ServiceInv, CallersOK, Lane
<1>3. lane[u].at # "off" /\ runs[r].state \in Allowed(lane[u].at)
  BY NoneAssumption DEF ServiceInv, CallersOK, LanesInv, LaneOK
<1>4. Allowed("crashed") = {}
  BY DEF Allowed
<1>5. QED
  BY <1>2, <1>3, <1>4 DEF StageOp, Stages

\* What a step inside the manager does to the states of the runs.
LEMMA StateStep ==
  ASSUME ManagerInv, SettledInv, NEW t \in Threads, PlainStep(t) \/ SignalStep(t),
         NEW r \in Runs, runs'[r].state # runs[r].state
  PROVE  /\ r = call[t].run
         /\ \/ /\ call[t].op = "acquire" /\ call[t].pc = "markLeased"
               /\ runs[r].state = "QUEUED" /\ runs'[r].state = "LEASED"
               /\ call'[t].pc = "done" /\ call'[t].run = r
            \/ /\ call[t].op \in Settling \cup {"start"} /\ call[t].pc = "write"
               /\ isValidStateTransition(runs[r].state, Target(call[t].op))
               /\ runs'[r].state = Target(call[t].op)
               /\ call'[t].pc = "reread"
<1>1. /\ call \in [Threads -> Frame] /\ call[t] \in Frame
      /\ runs \in [Runs -> RunRecord] /\ FrameShape(call[t])
      /\ Hand(call[t])
  BY InMethod DEF SettledInv
<1>2. CASE MarkLeased(t)
  <2>1. /\ call[t].pc = "markLeased" /\ call[t].run \in Runs
        /\ runs' = [runs EXCEPT ![call[t].run] =
                [state |-> "LEASED", leaseToken |-> call[t].token,
                 queuePosition |-> None]]
        /\ call'[t].pc = "done" /\ call'[t].run = call[t].run
    BY <1>1, <1>2 DEF MarkLeased, Goto, FrameShape, Frame
  <2>2. r = call[t].run /\ runs'[r].state = "LEASED"
    BY <1>1, <2>1
  <2>3. call[t].op = "acquire" /\ runs[call[t].run].state = "QUEUED"
    BY <1>1, <2>1, NoneAssumption DEF Hand
  <2>4. QED
    BY <2>1, <2>2, <2>3
<1>3. CASE WriteTransition(t)
  <2> DEFINE to == Target(call[t].op)
  <2>1. /\ call[t].pc = "write" /\ call[t].run \in Runs
        /\ call[t].op \in Settling \cup {"start"}
        /\ call[t].seen = runs[call[t].run]
    BY <1>1, <1>3, NoneAssumption DEF WriteTransition, FrameShape, Hand
  <2>2. /\ isValidStateTransition(runs[call[t].run].state, to)
        /\ runs' = [runs EXCEPT ![call[t].run] =
                 IF isTerminalState(to)
                   THEN [@ EXCEPT !.state = to, !.queuePosition = None]
                   ELSE [@ EXCEPT !.state = to]]
        /\ call'[t].pc = "reread"
    BY <1>1, <1>3, <2>1 DEF WriteTransition, Forget, Frame
  <2>3. runs[call[t].run] \in RunRecord
    BY <1>1, <2>1
  <2> HIDE DEF to
  <2>4. runs'[call[t].run].state = to /\ r = call[t].run
    BY <1>1, <2>1, <2>2, <2>3 DEF RunRecord
  <2>5. QED
    BY <2>1, <2>2, <2>4 DEF to
<1>4. CASE SetQueuePosition(t)
  BY <1>1, <1>4 DEF SetQueuePosition, RunRecord
<1>5. CASE ~SetQueuePosition(t) /\ ~MarkLeased(t) /\ ~WriteTransition(t)
  BY <1>5 DEF PlainStep, EnqueueRun, LeaseNextRun, DequeueNext, RemoveQueued,
              ReleaseLease, SignalStep, RereadRun, BeginRun
<1>6. QED
  BY <1>2, <1>3, <1>4, <1>5

\* The order of the steps of the methods that change a run's state.
LEMMA PcStep ==
  ASSUME ManagerInv, SettledInv, NEW t \in Threads, PlainStep(t) \/ SignalStep(t),
         call[t].op \in Settling \cup {"start"}
  PROVE  \/ call[t].pc = "remove" /\ RemoveQueued(t)
         \/ call[t].pc = "release" /\ call'[t].pc = "signal" /\ ReleaseLease(t)
         \/ call[t].pc = "signal" /\ call'[t].pc = "write" /\ SignalStep(t)
         \/ /\ call[t].pc = "write" /\ WriteTransition(t)
            /\ IF isValidStateTransition(runs[call[t].run].state,
                                         Target(call[t].op))
                 THEN /\ call'[t].pc = "reread"
                      /\ runs'[call[t].run].state = Target(call[t].op)
                 ELSE call'[t].pc = "threw" /\ UNCHANGED runs
         \/ /\ call[t].pc = "reread" /\ RereadRun(t) /\ UNCHANGED runs
            /\ call'[t].pc = IF call[t].op = "start" THEN "begin" ELSE "done"
         \/ /\ call[t].pc = "begin" /\ BeginRun(t) /\ UNCHANGED runs
            /\ call'[t].pc = "done" /\ call[t].op = "start"
<1>1. /\ call \in [Threads -> Frame] /\ call[t] \in Frame /\ Hand(call[t])
      /\ runs \in [Runs -> RunRecord] /\ FrameShape(call[t])
      /\ call[t].op \notin {"create", "acquire"}
  BY InMethod DEF SettledInv, Settling
<1>2. CASE ReleaseLease(t)
  BY <1>1, <1>2 DEF ReleaseLease, Forget, Frame
<1>3. CASE SignalStep(t)
  BY <1>1, <1>3 DEF SignalStep, Frame
<1>4. CASE WriteTransition(t)
  <2> DEFINE to == Target(call[t].op)
             r == call[t].run
  <2>1. /\ call[t].pc = "write" /\ r \in Runs /\ call[t].seen = runs[r]
        /\ runs[r] \in RunRecord
    BY <1>1, <1>4, NoneAssumption DEF WriteTransition, FrameShape, Hand
  <2>2. CASE ~isValidStateTransition(runs[r].state, to)
    BY <1>1, <1>4, <2>1, <2>2 DEF WriteTransition, Forget, Frame
  <2>3. CASE isValidStateTransition(runs[r].state, to)
    <3>1. /\ call'[t].pc = "reread"
          /\ runs' = [runs EXCEPT ![r] =
                 IF isTerminalState(to)
                   THEN [@ EXCEPT !.state = to, !.queuePosition = None]
                   ELSE [@ EXCEPT !.state = to]]
      BY <1>1, <1>4, <2>1, <2>3 DEF WriteTransition, Forget, Frame
    <3>2. runs'[r].state = to
      <4> HIDE DEF to, r
      <4> QED  BY <1>1, <2>1, <3>1 DEF RunRecord
    <3>3. QED
      BY <1>4, <2>1, <2>3, <3>1, <3>2
  <2>4. QED
    BY <2>2, <2>3
<1>5. CASE RereadRun(t)
  BY <1>1, <1>5 DEF RereadRun, Frame
<1>6. CASE BeginRun(t)
  <2>1. call[t].op = "start"
    BY <1>1, <1>6, NoneAssumption DEF BeginRun, FrameShape, Hand
  <2>2. QED
    BY <1>1, <1>6, <2>1 DEF BeginRun, Goto, Frame
<1>7. CASE RemoveQueued(t)
  BY <1>7 DEF RemoveQueued
<1>8. ~EnqueueRun(t) /\ ~SetQueuePosition(t) /\ ~LeaseNextRun(t)
      /\ ~DequeueNext(t) /\ ~MarkLeased(t)
  <2>1. call[t].pc \in {"enqueue", "setPosition", "lease", "dequeue", "markLeased"}
          => call[t].op \in {"create", "acquire"}
    BY <1>1, NoneAssumption DEF Hand, FrameShape
  <2>2. QED
    BY <1>1, <2>1 DEF EnqueueRun, SetQueuePosition, LeaseNextRun, DequeueNext,
                      MarkLeased
<1>9. QED
  BY <1>2, <1>3, <1>4, <1>5, <1>6, <1>7, <1>8 DEF PlainStep

\* A step inside the manager keeps the lanes.
LEMMA StepLaneOK ==
  ASSUME ServiceInv, SettledInv, LanesInv, UNCHANGED lane,
         NEW t \in Threads, PlainStep(t) \/ SignalStep(t), NEW u \in Users
  PROVE  LaneOK(u)'
<1> SUFFICES ASSUME NEW r \in Runs, lane[u].run = r
             PROVE  /\ runs'[r].state \in Allowed(lane[u].at)
                    /\ lane[u].at = "starting" /\ call'[u].pc \in {"write", "threw"} =>
                         runs'[r].state \in {"LEASED", "CANCELLED"}
                    /\ lane[u].at \in {"completing", "failing"} =>
                         /\ call'[u].pc # "threw"
                         /\ call'[u].pc \in {"release", "signal", "write"} =>
                              runs'[r].state \in {"LEASED", "RUNNING"}
  BY DEF LaneOK, Allowed
<1>1. /\ call \in [Threads -> Frame] /\ call[t].pc # "idle"
      /\ ManagerInv /\ CallersOK /\ ~Between(call[t]) /\ u \in Threads
  BY OfOneMethod, InMethod, Names DEF ServiceInv, Between
<1>2. /\ runs[r].state \in Allowed(lane[u].at)
      /\ lane[u].at = "starting" /\ call[u].pc \in {"write", "threw"} =>
           runs[r].state \in {"LEASED", "CANCELLED"}
      /\ lane[u].at \in {"completing", "failing"} =>
           /\ call[u].pc # "threw"
           /\ call[u].pc \in {"release", "signal", "write"} =>
                runs[r].state \in {"LEASED", "RUNNING"}
  BY DEF LanesInv, LaneOK
<1>3. UserOf[r] = u
  BY DEF ServiceInv, Served
<1>4. CASE t # u
  <2>1. call[u] = IdleFrame /\ call'[u] = IdleFrame
    BY <1>1, <1>4, OfOneMethod, RestOfThem
  <2>2. lane[u].at \in {"provisioning", "loadingPack", "prompting"}
    BY <2>1, IdleLane
  <2>3. CASE runs'[r].state = runs[r].state
    BY <1>2, <2>2, <2>3
  <2>4. CASE runs'[r].state # runs[r].state
    <3>1. /\ r = call[t].run /\ call[t].op \in Settling \cup {"start", "acquire"}
          /\ call[t].op # "acquire" =>
               /\ isValidStateTransition(runs[r].state, Target(call[t].op))
               /\ runs'[r].state = Target(call[t].op)
      BY <1>1, <2>4, StateStep
    <3>2. call[t].op \in {"cancel", "timeout"}
      BY <1>3, <1>4, <3>1, OwnCall DEF Settling
    <3>3. /\ runs[r].state \in {"LEASED", "RUNNING", "CANCELLED", "TIMED_OUT"}
          /\ lane[u].at = "provisioning" => runs[r].state \in {"LEASED", "CANCELLED"}
      BY <1>2, <2>2 DEF Allowed
    <3>4. CASE call[t].op = "cancel"
      BY <2>2, <3>1, <3>4 DEF Target, Allowed
    <3>5. CASE call[t].op = "timeout"
      <4>1. runs'[r].state = "TIMED_OUT" /\ lane[u].at # "provisioning"
        BY <3>1, <3>3, <3>5
           DEF Target, isValidStateTransition, VALID_STATE_TRANSITIONS
      <4>2. QED
        BY <2>2, <4>1 DEF Allowed
    <3>6. QED
      BY <3>2, <3>4, <3>5
  <2>5. QED
    BY <2>3, <2>4
<1>5. CASE t = u
  <2>1. /\ call[u].op = StageOp(lane[u].at) /\ call[u].pc \in Pcs(call[u].op)
        /\ call[u].op # "none" /\ lane[u].at \notin {"off", "acquiring"}
        /\ lane[u].at \in Stages
    <3>1. call[u].pc # "idle"
      BY <1>1, <1>5
    <3>2. QED
      BY <1>1, <3>1, NoneAssumption DEF CallersOK, Pcs, Lane
  <2>2. /\ call[u].op \notin {"none", "acquire"} /\ call[u].run = r
        /\ call[u].op \notin {"get"}
        /\ lane[u].at \in {"starting", "completing", "failing"}
    BY <1>1, <1>5, <2>1 DEF StageOp, Pcs, Between, CallersOK, Stages
  <2>3. call[u].op \in Settling \cup {"start"} /\ Hand(call[u])
    BY <1>1, <2>1, <2>2 DEF StageOp, Settling, SettledInv
  <2>4. call[u].pc # "remove"
    BY <2>1, <2>2, <2>3, NoneAssumption DEF Hand, StageOp
  <2>5. CASE UNCHANGED runs
    <3>1. \/ call'[u].pc \notin {"release", "signal", "write", "threw"}
          \/ call'[u].pc \in {"signal", "write"} /\ call[u].pc \in {"release", "signal"}
          \/ call'[u].pc = "threw" /\ call[u].pc = "write"
               /\ ~isValidStateTransition(runs[r].state, Target(call[u].op))
      BY <1>1, <1>5, <2>2, <2>3, <2>4, PcStep
    <3>2. CASE lane[u].at = "starting"
      <4>1. call'[u].pc = "write" => call[u].pc \notin {"release", "signal"}
        BY <1>5, <2>1, <2>3, <3>2, NoneAssumption DEF Hand, Stopping, StageOp, Settling
      <4>2. QED
        BY <1>2, <2>5, <3>1, <3>2, <4>1
    <3>3. CASE lane[u].at \in {"completing", "failing"}
      <4>1. call'[u].pc # "threw"
        BY <1>2, <2>1, <3>1, <3>3
           DEF StageOp, Target, isValidStateTransition, VALID_STATE_TRANSITIONS,
               Allowed
      <4>2. QED
        BY <1>2, <2>5, <3>1, <3>3, <4>1
    <3>4. QED
      BY <2>2, <3>2, <3>3
  <2>6. CASE ~UNCHANGED runs
    <3>1. /\ call[u].pc = "write" /\ call'[u].pc = "reread"
          /\ runs'[r].state = Target(call[u].op)
      <4>1. ReleaseLease(u) \/ SignalStep(u) => UNCHANGED runs
        BY DEF ReleaseLease, SignalStep
      <4>2. QED
        BY <1>1, <1>5, <2>2, <2>3, <2>4, <2>6, <4>1, PcStep
    <3>2. QED
      BY <2>1, <2>2, <3>1 DEF StageOp, Target, Allowed
  <2>7. QED
    BY <2>5, <2>6
<1>6. QED
  BY <1>4, <1>5

\* The method a thread is in, and the run it is about, outlast the step.
LEMMA SameMethod ==
  ASSUME ManagerInv, NEW t \in Threads, PlainStep(t) \/ SignalStep(t)
  PROVE  \A s \in Threads :
           /\ call'[s].op = call[s].op
           /\ \/ call'[s].run = call[s].run
              \/ s = t /\ call[t].pc = "lease" /\ call'[t].run = None
<1> SUFFICES ASSUME NEW s \in Threads
             PROVE  /\ call'[s].op = call[s].op
                    /\ \/ call'[s].run = call[s].run
                       \/ s = t /\ call[t].pc = "lease" /\ call'[t].run = None
  OBVIOUS
<1>1. CASE s = t
  BY <1>1, OfOneMethod
<1>2. CASE s # t
  BY <1>2, OfOneMethod
<1>3. QED
  BY <1>1, <1>2

\* A processor never finds the lease of its user taken: the holder would be an
\* active run, so the processor's own.
LEMMA LaneIsFree ==
  ASSUME ServiceInv, SettledInv, LanesInv, LeasesTrue, NEW t \in Threads,
         call[t].pc = "lease"
  PROVE  leases[UserOf[call[t].run]] = None
<1>1. Hand(call[t]) /\ FrameShape(call[t]) /\ ManagerInv
  BY InMethod DEF SettledInv, ServiceInv
<1>2. PICK r \in Runs : r = call[t].run
  BY <1>1 DEF FrameShape
<1>3. call[t].op = "acquire" /\ runs[r].state = "QUEUED"
  BY <1>1, <1>2, NoneAssumption DEF Hand
<1>4. t \in Users /\ UserOf[r] = t
  BY <1>2, <1>3, OwnCall
<1>5. lane[t].run = None
  BY <1>3, <1>4 DEF ServiceInv, CallersOK, StageOp
<1> SUFFICES ASSUME leases[t] # None  PROVE FALSE
  BY <1>2, <1>4
<1>6. PICK s \in Runs : s = leases[t].runId /\ UserOf[s] = t
  BY <1>1, <1>4 DEF ManagerInv, LeasesInLane, LeaseInv, LeaseTypeOK, Lease
<1>7. HoldsLease(s)
  BY <1>6 DEF HoldsLease
<1>8. LeaseTrue(r)
  BY <1>2, LeasesOfTheRest, NoneAssumption DEF LeaseHand
<1>9. s # r
  BY <1>3, <1>7, <1>8 DEF LeaseTrue, isActiveState
<1>10. LeaseTrue(s)
  BY <1>2, <1>9, LeasesOfTheRest
<1>11. isActiveState(runs[s].state)
  BY <1>7, <1>10 DEF LeaseTrue
<1>12. lane[t].run = s \/ call[t].pc = "done"
  BY <1>6, <1>11 DEF LanesInv, ActiveInLane
<1>13. QED
  BY <1>5, <1>12, NoneAssumption

LEMMA StepActive ==
  ASSUME ServiceInv, SettledInv, LanesInv, UNCHANGED lane,
         NEW t \in Threads, PlainStep(t) \/ SignalStep(t)
  PROVE  ActiveInLane'
<1> SUFFICES ASSUME NEW r \in Runs, isActiveState(runs'[r].state),
                    NEW u \in Users, u = UserOf[r]
             PROVE  \/ lane[u].run = r
                    \/ /\ call'[u].op = "acquire" /\ call'[u].pc = "done"
                       /\ call'[u].run = r
  BY ManagerAssumption DEF ActiveInLane
<1>1. ManagerInv /\ u \in Threads /\ ~Between(call[t])
  BY OfOneMethod, Names DEF ServiceInv
<1>2. CASE runs'[r].state = runs[r].state
  <2>1. \/ lane[u].run = r
        \/ call[u].op = "acquire" /\ call[u].pc = "done" /\ call[u].run = r
    BY <1>2 DEF LanesInv, ActiveInLane
  <2>2. call[u].pc = "done" => call'[u] = call[u]
    BY <1>1, OfOneMethod DEF Between
  <2>3. QED
    BY <2>1, <2>2
<1>3. CASE runs'[r].state # runs[r].state
  <2>1. /\ r = call[t].run
        /\ \/ /\ call[t].op = "acquire" /\ call'[t].pc = "done" /\ call'[t].run = r
           \/ /\ call[t].op \in Settling \cup {"start"}
              /\ runs'[r].state = Target(call[t].op)
    BY <1>1, <1>3, StateStep
  <2>2. CASE call[t].op = "acquire"
    <3>1. t = u /\ call'[t].op = "acquire"
      BY <1>1, <2>1, <2>2, OwnCall, SameMethod
    <3>2. QED
      BY <2>1, <2>2, <3>1 DEF Settling
  <2>3. CASE call[t].op # "acquire"
    <3>1. call[t].op = "start"
      BY <2>1, <2>3 DEF isActiveState, Target, Settling
    <3>2. QED
      BY <2>1, <3>1, OwnCall
  <2>4. QED
    BY <2>2, <2>3
<1>4. QED
  BY <1>2, <1>3

LEMMA StepQueued ==
  ASSUME ServiceInv, SettledInv, LanesInv, LeasesTrue, UNCHANGED lane,
         NEW t \in Threads, PlainStep(t) \/ SignalStep(t)
  PROVE  QueuedServed'
<1>1. ManagerInv /\ \A u \in Users : u \in Threads
  BY Names DEF ServiceInv
<1>2. ASSUME NEW r \in Runs
      PROVE  /\ runs'[r].state = "QUEUED" => runs[r].state = "QUEUED"
             /\ runs'[r].state = "NONE" => runs[r].state = "NONE"
  <2>1. \A op \in Settling \cup {"start"} : Target(op) \notin {"QUEUED", "NONE"}
    BY DEF Settling, Target
  <2>2. QED
    BY <1>1, <2>1, StateStep
<1>3. ASSUME NEW r \in Runs, Creating(r)
      PROVE  Creating(r)'
  <2>1. PICK s \in Threads : call[s].op = "create" /\ call[s].run = r
    BY <1>3 DEF Creating
  <2>2. call[s].pc # "lease"
    BY <2>1, NoneAssumption DEF SettledInv, Hand
  <2>3. call'[s].op = "create" /\ call'[s].run = r
    BY <1>1, <2>1, <2>2, SameMethod
  <2>4. QED
    BY <2>3 DEF Creating
<1>4. \A r \in Runs : runs'[r].state = "QUEUED" =>
        lane'[UserOf[r]].at # "off" \/ Creating(r)'
  BY <1>2, <1>3 DEF LanesInv, QueuedServed
<1>5. ASSUME NEW u \in Users, call'[u].op = "acquire", call'[u].run = None
      PROVE  call[u].op = "acquire" /\ call[u].run = None
  <2>1. call[u].op = "acquire"
    BY <1>1, <1>5, SameMethod
  <2>2. CASE call[u].pc = "lease" /\ u = t
    <3>1. LeaseNextRun(u) /\ call[u].run \in Runs /\ UserOf[call[u].run] \in Users
      BY <1>1, <2>2, InMethod, ManagerAssumption
         DEF PlainStep, EnqueueRun, SetQueuePosition, LeaseNextRun,
             DequeueNext, MarkLeased, RemoveQueued, ReleaseLease, SignalStep,
             WriteTransition, RereadRun, BeginRun, FrameShape
    <3>2. CanAcquire(UserOf[call[u].run])
      BY <1>1, <2>2, LaneIsFree DEF CanAcquire, HoldsLive
    <3>3. call'[u] = [call[u] EXCEPT !.pc = "dequeue", !.token = NextToken]
      BY <1>1, <3>1, <3>2, InMethod DEF LeaseNextRun
    <3>4. call'[u].run = call[u].run
      BY <1>1, <3>3, InMethod DEF Frame
    <3>5. QED
      BY <1>5, <3>1, <3>4, NoneAssumption
  <2>3. CASE ~(call[u].pc = "lease" /\ u = t)
    BY <1>1, <1>5, <2>1, <2>3, SameMethod
  <2>4. QED
    BY <2>2, <2>3
<1>6. QED
  BY <1>2, <1>4, <1>5 DEF LanesInv, QueuedServed

-----------------------------------------------------------------------------
(* What is told, and by whom.                                                *)

\* A processor tells clients about the run it serves.
LaneTells(u, r) ==
  \/ Started(u) /\ call[u].pc = "done" /\ Broadcast(r, "run_started")
  \/ /\ Checked(u) /\ call[u].seen.state \in {"CANCELLED", "TIMED_OUT"}
     /\ Broadcast(r, "closed")
  \/ Completed(u) /\ call[u].pc = "done" /\ Conclude(r, "run_completed")
  \/ Failed(u) /\ call[u].pc = "done" /\ Conclude(r, "run_failed")

\* A cancel or a timeout tells clients how a run ends, if nobody did before.
StopTells(t, r) ==
  \/ /\ CancelReturns(t) /\ call[t].pc = "done" /\ call[t].seen.state = "CANCELLED"
     /\ emitTerminalOnce(r, "run_cancelled")
  \/ /\ Signal(t) /\ call[t].op \in {"cancel", "timeout"} /\ Aborts(r)
     /\ r \in listening
     /\ emitTerminalOnce(r, IF call[t].reason = "timeout"
                              THEN "run_timed_out" ELSE "run_cancelled")

Forgets(u, r) ==
  /\ Caught(u) /\ call[u].seen.state \in {"CANCELLED", "TIMED_OUT"}
  /\ terminalEvents' = terminalEvents \ {r} /\ UNCHANGED events

LEMMA Tellings ==
  ASSUME CallersOK, [Next]_vars
  PROVE  \/ UNCHANGED clientVars
         \/ \E q \in Requests, r \in Runs :
              /\ RunCreated(q) /\ call[q].run = r /\ Broadcast(r, "run_queued")
              /\ UNCHANGED terminalEvents
         \/ \E u \in Users, r \in Runs :
              lane[u].run = r /\ (LaneTells(u, r) \/ Forgets(u, r))
         \/ \E t \in Threads, r \in Runs : call[t].run = r /\ StopTells(t, r)
<1>1. ASSUME NEW u \in Users, lane[u].at \notin {"off", "acquiring"}
      PROVE  lane[u].run \in Runs
  BY <1>1 DEF CallersOK, Lane
<1>2. ASSUME NEW u \in Users, LaneStep(u)
      PROVE  \/ UNCHANGED clientVars
             \/ lane[u].run \in Runs
                /\ (LaneTells(u, lane[u].run) \/ Forgets(u, lane[u].run))
  <2>1. CASE Acquired(u)
    BY <2>1 DEF Acquired
  <2>2. CASE Started(u)
    BY <1>1, <2>2 DEF Started, Resumes, LaneTells, clientVars
  <2>3. CASE Checked(u)
    BY <1>1, <2>3 DEF Checked, Resumes, LaneTells, Broadcast
  <2>4. CASE Completed(u)
    BY <1>1, <2>4 DEF Completed, Resumes, LaneTells
  <2>5. CASE Caught(u)
    <3>1. lane[u].run \in Runs
      BY <1>1, <2>5 DEF Caught, Resumes
    <3>2. CASE call[u].seen.state \in {"CANCELLED", "TIMED_OUT"}
      BY <2>5, <3>1, <3>2 DEF Caught, Forgets
    <3>3. CASE call[u].seen.state \notin {"CANCELLED", "TIMED_OUT"}
      BY <2>5, <3>3 DEF Caught
    <3>4. QED
      BY <3>2, <3>3
  <2>6. CASE Failed(u)
    BY <1>1, <2>6 DEF Failed, Resumes, LaneTells
  <2>7. QED
    BY <1>2, <2>1, <2>2, <2>3, <2>4, <2>5, <2>6 DEF LaneStep
<1>3. ASSUME NEW u \in Users, OutsideAnswers(u)
      PROVE  UNCHANGED clientVars
  BY <1>3 DEF OutsideAnswers, Provisioned, PackLoaded, AgentSettles
<1>4. ASSUME NEW q \in Requests, RunCreated(q)
      PROVE  /\ call[q].run \in Runs /\ Broadcast(call[q].run, "run_queued")
             /\ UNCHANGED terminalEvents
  BY <1>4, Names DEF RunCreated, CallersOK
<1>5. ASSUME NEW q \in Requests, CancelReturns(q)
      PROVE  \/ UNCHANGED clientVars
             \/ /\ q \in Threads /\ call[q].run \in Runs
                /\ StopTells(q, call[q].run)
  BY <1>5, Names DEF CancelReturns, CallersOK, StopTells
<1>6. ASSUME NEW t \in Threads, ManagerStep(t)
      PROVE  \/ UNCHANGED clientVars
             \/ call[t].run \in Runs /\ StopTells(t, call[t].run)
  <2>1. CASE Signal(t)
    <3>1. call[t].op \in {"cancel", "timeout"} => call[t].run \in Runs
      BY DEF CallersOK
    <3>2. QED
      BY <2>1, <3>1 DEF Signal, StopTells
  <2>2. CASE UNCHANGED execVars
    BY <2>2 DEF execVars
  <2>3. QED
    BY <1>6, <2>1, <2>2 DEF ManagerStep
<1>7. /\ \A q \in Requests, r \in Runs : RequestCreate(q, r) => UNCHANGED clientVars
      /\ \A q \in Requests, r \in Runs, reason \in ClientReasons :
           RequestCancel(q, r, reason) => UNCHANGED clientVars
      /\ \A r \in Runs : Timer(r) => UNCHANGED clientVars
      /\ \A u \in Users : Clock(u) => UNCHANGED clientVars
      /\ AllServed => UNCHANGED clientVars
      /\ UNCHANGED vars => UNCHANGED clientVars
  BY DEF RequestCreate, RequestCancel, Timer, Clock, AllServed, vars, execVars
<1>8. \/ UNCHANGED clientVars
      \/ \E q \in Requests : RunCreated(q) \/ CancelReturns(q)
      \/ \E u \in Users : LaneStep(u)
      \/ \E t \in Threads : ManagerStep(t)
  <2>1. CASE Next
    BY <1>3, <1>7, <2>1 DEF Next, RequestStep
  <2>2. CASE UNCHANGED vars
    BY <1>7, <2>2
  <2>3. QED
    BY <2>1, <2>2
<1>9. ASSUME NEW u \in Users, LaneStep(u), ~UNCHANGED clientVars
      PROVE  \E r \in Runs : lane[u].run = r /\ (LaneTells(u, r) \/ Forgets(u, r))
  BY <1>2, <1>9
<1>10. ASSUME NEW q \in Requests, RunCreated(q)
       PROVE  \E r \in Runs :
                /\ RunCreated(q) /\ call[q].run = r /\ Broadcast(r, "run_queued")
                /\ UNCHANGED terminalEvents
  BY <1>4, <1>10
<1>11. ASSUME NEW t \in Threads, ManagerStep(t) \/ (t \in Requests /\ CancelReturns(t)),
              ~UNCHANGED clientVars
       PROVE  \E r \in Runs : call[t].run = r /\ StopTells(t, r)
  BY <1>5, <1>6, <1>11
<1>12. QED
  BY <1>8, <1>9, <1>10, <1>11, Names

\* emitTerminalOnce and Conclude, told one event at a time.
LEMMA Telling ==
  ASSUME events \in [Runs -> Seq(EventKinds)], NEW r \in Runs,
         NEW k \in TerminalKinds
  PROVE  /\ emitTerminalOnce(r, k) =>
              \/ r \in terminalEvents /\ UNCHANGED clientVars
              \/ /\ r \notin terminalEvents /\ Broadcast(r, k)
                 /\ terminalEvents' = terminalEvents \cup {r}
         /\ Conclude(r, k) =>
              /\ terminalEvents' = terminalEvents \ {r}
              /\ \/ r \in terminalEvents /\ Broadcast(r, "closed")
                 \/ r \notin terminalEvents /\ Ends(r, k)
<1>1. events[r] \in Seq(EventKinds) /\ k \in EventKinds /\ "closed" \in EventKinds
  BY DEF EventKinds
<1>2. events[r] \o <<k, "closed">> = Append(Append(events[r], k), "closed")
  BY <1>1, SaysTwo
<1>3. QED
  BY <1>2 DEF emitTerminalOnce, Conclude, Broadcast, Ends

\* What has been told by a step.
LEMMA NowTold ==
  ASSUME events \in [Runs -> Seq(EventKinds)], NEW r \in Runs, NEW k \in EventKinds
  PROVE  /\ Broadcast(r, k) => \A s \in Runs, j \in EventKinds :
              Told(s, j)' <=> Told(s, j) \/ (s = r /\ j = k)
         /\ Ends(r, k) => \A s \in Runs, j \in EventKinds :
              Told(s, j)' <=> Told(s, j) \/ (s = r /\ j \in {k, "closed"})
<1> DEFINE a == Append(events[r], k)
<1>1. a \in Seq(EventKinds) /\ ToSet(a) = ToSet(events[r]) \cup {k}
  BY SaysNext
<1>2. ToSet(Append(a, "closed")) = ToSet(a) \cup {"closed"}
  <2> HIDE DEF a
  <2>1. "closed" \in EventKinds
    BY DEF EventKinds
  <2>2. QED
    BY <1>1, <2>1, SaysNext
<1> HIDE DEF a
<1>3. ASSUME NEW s, events' = [events EXCEPT ![r] = s], NEW x \in Runs, NEW j
      PROVE  Told(x, j)' <=> IF x = r THEN j \in ToSet(s) ELSE Told(x, j)
  <2>1. events'[x] = IF x = r THEN s ELSE events[x]
    BY <1>3
  <2>2. QED
    BY <2>1 DEF Told
<1>4. ASSUME Broadcast(r, k), NEW x \in Runs, NEW j
      PROVE  Told(x, j)' <=> Told(x, j) \/ (x = r /\ j = k)
  <2>1. events' = [events EXCEPT ![r] = a]
    BY <1>4 DEF Broadcast, a
  <2>2. QED
    BY <1>1, <1>3, <2>1 DEF Told
<1>5. ASSUME Ends(r, k), NEW x \in Runs, NEW j
      PROVE  Told(x, j)' <=> Told(x, j) \/ (x = r /\ j \in {k, "closed"})
  <2>1. events' = [events EXCEPT ![r] = Append(a, "closed")]
    BY <1>5 DEF Ends, a
  <2>2. QED
    BY <1>1, <1>2, <1>3, <2>1 DEF Told
<1>6. QED
  BY <1>4, <1>5

-----------------------------------------------------------------------------
(* The processors' moves.                                                    *)

\* Before any move of a processor no method is under way.
LEMMA MoveAlone ==
  ASSUME StoresSettleAtOnce, SettledInv, CallersOK, NEW u \in Users,
         LaneStep(u) \/ OutsideAnswers(u)
  PROVE  /\ Between(call[u]) /\ Hand(call[u])
         /\ \A s \in Threads \ {u} : call[s] = IdleFrame
         /\ \A s \in Threads : Between(call[s])
<1>1. u \in Threads /\ call[u].pc \in {"idle", "done", "threw"}
  BY LaneBetween, Names
<1>2. CASE OutsideAnswers(u)
  <2>1. Settled
    BY <1>2 DEF OutsideAnswers, Provisioned, PackLoaded, AgentSettles, MayBegin
  <2>2. QED
    BY <1>1, <2>1, NoHand DEF Settled, Idle, SettledInv
<1>3. CASE LaneStep(u)
  <2>1. call[u].pc # "idle"
    BY <1>3 DEF LaneStep, Acquired, Started, Checked, Completed, Caught, Failed,
                Resumes
  <2>2. QED
    BY <1>1, <2>1, RestOfThem, NoHand DEF Between
<1>4. QED
  BY <1>2, <1>3

\* The stage a processor moves to suits its run, and it moves on from a run
\* only when that has ended.
Suits(l) ==
  LET s == runs[l.run].state IN
  /\ s \in Allowed(l.at)
  /\ l.at = "starting" => s \in {"LEASED", "CANCELLED"}
  /\ l.at = "completing" => s = "RUNNING"
  /\ l.at = "failing" => s \in {"LEASED", "RUNNING"}

LEMMA LaneSuits ==
  ASSUME ServiceInv, SettledInv, LanesInv, NEW u \in Users, Hand(call[u]),
         LaneStep(u) \/ OutsideAnswers(u),
         NEW l \in Lane, lane' = [lane EXCEPT ![u] = l],
         NEW r \in Runs, r = l.run \/ r = lane[u].run
  PROVE  IF l.run = r THEN Suits(l) ELSE ~isActiveState(runs[r].state)
<1>1. /\ CallersOK /\ lane \in [Users -> Lane] /\ lane[u] \in Lane
      /\ lane'[u] = l /\ r # None
  BY NoneAssumption DEF ServiceInv, CallersOK
<1>2. /\ lane[u].run = None <=> lane[u].at \in {"off", "acquiring"}
      /\ call[u].op = StageOp(lane[u].at)
      /\ call[u].op \notin {"none", "acquire"} => call[u].run = lane[u].run
  BY <1>1 DEF CallersOK
<1>3. lane[u].run = r =>
        /\ runs[r].state \in Allowed(lane[u].at)
        /\ lane[u].at = "starting" /\ call[u].pc = "threw" =>
             runs[r].state \in {"LEASED", "CANCELLED"}
        /\ lane[u].at \in {"completing", "failing"} => call[u].pc # "threw"
  BY DEF LanesInv, LaneOK
<1>4. call[u].pc = "done" /\ call[u].run = r => Outcome(call[u])
  BY <1>1 DEF Hand
<1>5. CASE Acquired(u)
  <2>1. lane[u].at = "acquiring" /\ call[u].pc = "done" /\ lane[u].run = None
    BY <1>2, <1>5 DEF Acquired, Resumes
  <2>2. l = IF call[u].run = None THEN [at |-> "off", run |-> None]
                         ELSE [at |-> "provisioning", run |-> call[u].run]
    BY <1>1, <1>5 DEF Acquired
  <2>3. l.run = r /\ l.at = "provisioning" /\ call[u].run = r
    BY <1>1, <2>1, <2>2
  <2>4. runs[r].state = "LEASED"
    BY <1>2, <1>4, <2>1, <2>3 DEF Outcome, StageOp
  <2>5. QED
    BY <2>3, <2>4 DEF Suits, Allowed
<1>6. ASSUME NEW at, lane' = [lane EXCEPT ![u].at = at]
      PROVE  l.at = at /\ l.run = lane[u].run
  BY <1>1, <1>6 DEF Lane
<1>7. CASE Provisioned(u)
  <2>1. lane[u].at = "provisioning"
    BY <1>7 DEF Provisioned
  <2>2. l.run = lane[u].run /\ l.at \in {"starting", "catching"}
    BY <1>6, <1>7 DEF Provisioned, Catch, AwaitManager
  <2>3. QED
    BY <1>3, <2>1, <2>2 DEF Suits, Allowed
<1>8. CASE Started(u)
  <2>1. lane[u].at = "starting" /\ call[u].op = "start"
    BY <1>2, <1>8 DEF Started, Resumes, StageOp
  <2>2. /\ l.run = lane[u].run
        /\ \/ call[u].pc = "done" /\ l.at = "loadingPack"
           \/ call[u].pc = "threw" /\ l.at = "catching"
    BY <1>6, <1>8 DEF Started, Resumes, Catch, AwaitManager, AwaitOutside
  <2>3. call[u].pc = "done" => runs[r].state = "RUNNING"
    BY <1>2, <1>4, <2>1, <2>2 DEF Outcome, Target
  <2>4. QED
    BY <1>3, <2>1, <2>2, <2>3 DEF Suits, Allowed
<1>9. CASE PackLoaded(u)
  <2>1. lane[u].at = "loadingPack"
    BY <1>9 DEF PackLoaded
  <2>2. l.run = lane[u].run /\ l.at \in {"prompting", "catching"}
    BY <1>6, <1>9 DEF PackLoaded, Catch, AwaitManager, AwaitOutside
  <2>3. QED
    BY <1>3, <2>1, <2>2 DEF Suits, Allowed
<1>10. CASE AgentSettles(u)
  <2>1. lane[u].at = "prompting"
    BY <1>10 DEF AgentSettles
  <2>2. l.run = lane[u].run /\ l.at \in {"checking", "catching"}
    BY <1>6, <1>10 DEF AgentSettles, Catch, AwaitManager
  <2>3. QED
    BY <1>3, <2>1, <2>2 DEF Suits, Allowed
<1>11. CASE Checked(u)
  <2>1. lane[u].at = "checking" /\ call[u].op = "get" /\ call[u].pc = "done"
    BY <1>2, <1>11 DEF Checked, Resumes, StageOp
  <2>2. \/ /\ call[u].seen.state \in {"CANCELLED", "TIMED_OUT"}
           /\ l = [at |-> "acquiring", run |-> None]
        \/ /\ call[u].seen.state \notin {"CANCELLED", "TIMED_OUT"}
           /\ l.at = "completing" /\ l.run = lane[u].run
    BY <1>1, <1>6, <1>11 DEF Checked, NextRun, AwaitManager
  <2>3. lane[u].run = r /\ call[u].run = r
    BY <1>1, <1>2, <2>1, <2>2
  <2>4. call[u].seen = runs[r]
    BY <1>4, <2>1, <2>3 DEF Outcome
  <2>5. QED
    BY <1>1, <1>3, <2>1, <2>2, <2>3, <2>4 DEF Suits, Allowed, isActiveState
<1>12. CASE Completed(u)
  <2>1. lane[u].at = "completing" /\ call[u].op = "complete"
    BY <1>2, <1>12 DEF Completed, Resumes, StageOp
  <2>2. \/ call[u].pc = "done" /\ l = [at |-> "acquiring", run |-> None]
        \/ call[u].pc = "threw" /\ l.run = lane[u].run
    BY <1>1, <1>6, <1>12 DEF Completed, Resumes, NextRun, Catch, AwaitManager
  <2>3. lane[u].run = r /\ call[u].run = r /\ call[u].pc = "done"
    BY <1>1, <1>2, <1>3, <2>1, <2>2
  <2>4. runs[r].state = "COMPLETED"
    BY <1>4, <2>1, <2>3 DEF Outcome, Target
  <2>5. QED
    BY <1>1, <2>2, <2>3, <2>4 DEF isActiveState
<1>13. CASE Caught(u)
  <2>1. lane[u].at = "catching" /\ call[u].op = "get" /\ call[u].pc = "done"
    BY <1>2, <1>13 DEF Caught, Resumes, StageOp
  <2>2. \/ /\ call[u].seen.state \in {"CANCELLED", "TIMED_OUT"}
           /\ l = [at |-> "acquiring", run |-> None]
        \/ /\ call[u].seen.state \notin {"CANCELLED", "TIMED_OUT"}
           /\ l.at = "failing" /\ l.run = lane[u].run
    BY <1>1, <1>6, <1>13 DEF Caught, NextRun, AwaitManager
  <2>3. lane[u].run = r /\ call[u].run = r
    BY <1>1, <1>2, <2>1, <2>2
  <2>4. call[u].seen = runs[r]
    BY <1>4, <2>1, <2>3 DEF Outcome
  <2>5. QED
    BY <1>1, <1>3, <2>1, <2>2, <2>3, <2>4 DEF Suits, Allowed, isActiveState
<1>14. CASE Failed(u)
  <2>1. lane[u].at = "failing" /\ call[u].op = "fail"
    BY <1>2, <1>14 DEF Failed, Resumes, StageOp
  <2>2. \/ call[u].pc = "done" /\ l = [at |-> "acquiring", run |-> None]
        \/ call[u].pc = "threw" /\ l.run = lane[u].run
    BY <1>1, <1>6, <1>14 DEF Failed, Resumes, NextRun, AwaitOutside
  <2>3. lane[u].run = r /\ call[u].run = r /\ call[u].pc = "done"
    BY <1>1, <1>2, <1>3, <2>1, <2>2
  <2>4. runs[r].state = "FAILED"
    BY <1>4, <2>1, <2>3 DEF Outcome, Target
  <2>5. QED
    BY <1>1, <2>2, <2>3, <2>4 DEF isActiveState
<1>15. QED
  BY <1>5, <1>7, <1>8, <1>9, <1>10, <1>11, <1>12, <1>13, <1>14
     DEF LaneStep, OutsideAnswers

LEMMA NeverNone ==
  ASSUME NEW at, NEW s, s \in Allowed(at)
  PROVE  s # "NONE" /\ at \notin {"off", "acquiring", "crashed"}
BY DEF Allowed

LEMMA AllLeasesTrue ==
  ASSUME LeasesTrue, \A t \in Threads : Between(call[t])
  PROVE  \A r \in Runs : LeaseTrue(r)
BY DEF LeasesTrue

\* The method a processor calls next finds its run as it expects.
LEMMA FirstIsHand ==
  ASSUME ManagerInv, QueuedRuns, \A r \in Runs : AtRest(r),
         \A r \in Runs : LeaseTrue(r), NEW u \in Users, NEW l \in Lane,
         l.run = None <=> l.at \in {"off", "acquiring"},
         l.run # None => Suits(l)
  PROVE  Hand(First(u, l)) /\ LeaseHand(First(u, l))
<1>1. l.run \in Runs \cup {None}
  BY DEF Lane
<1>2. CASE l.at = "acquiring"
  BY <1>2, FirstHands, FirstLeases DEF First
<1>3. ASSUME l.at \notin {"off", "acquiring"}
      PROVE  l.run \in Runs /\ runs[l.run].state # "NONE" /\ Suits(l)
  BY <1>1, <1>3, NeverNone DEF Suits
<1>4. CASE l.at = "starting"
  BY <1>3, <1>4, FirstHands, FirstLeases DEF First
<1>5. CASE l.at \in {"checking", "catching"}
  BY <1>3, <1>5, FirstHands, FirstLeases DEF First
<1>6. CASE l.at = "completing"
  <2>1. runs[l.run].state # "LEASED"
    BY <1>3, <1>6 DEF Suits
  <2>2. First(u, l) = SettleFrame("complete", l.run, None)
    BY <1>6 DEF First
  <2>3. Hand(SettleFrame("complete", l.run, None))
    BY <1>3, <1>6, FirstHands
  <2>4. LeaseHand(SettleFrame("complete", l.run, None))
    BY <1>3, <1>6, <2>1, FirstLeases DEF Settling
  <2>5. QED
    BY <2>2, <2>3, <2>4
<1>7. CASE l.at = "failing"
  <2>1. First(u, l) = SettleFrame("fail", l.run, None)
    BY <1>7 DEF First
  <2>2. Hand(SettleFrame("fail", l.run, None))
    BY <1>3, <1>7, FirstHands
  <2>3. LeaseHand(SettleFrame("fail", l.run, None))
    BY <1>3, <1>7, FirstLeases DEF Settling
  <2>4. QED
    BY <2>1, <2>2, <2>3
<1>8. CASE l.at \notin {"acquiring", "starting", "checking", "catching",
                        "completing", "failing"}
  <2>1. First(u, l) = IdleFrame
    BY <1>8 DEF First
  <2>2. LeaseHand(IdleFrame)
    BY DEF LeaseHand, IdleFrame
  <2>3. QED
    BY <2>1, <2>2, NoHand
<1>9. QED
  BY <1>2, <1>4, <1>5, <1>6, <1>7, <1>8

\* A processor that starts to acquire finds a run, or none of its user's waits.
LEMMA NothingMissed ==
  ASSUME ManagerInv, \A r \in Runs : AtRest(r), NEW u \in Users,
         AcquireFrame(u).run = None, NEW r \in Runs, UserOf[r] = u
  PROVE  runs[r].state # "QUEUED"
<1>1. queues[u] \in Seq(Runs)
  BY DEF ManagerInv, QueueInv, QueueTypeOK
<1>2. queues[u] = << >>
  <2>1. Peek(u) = None
    BY DEF AcquireFrame, IdleFrame
  <2>2. queues[u] # << >> => Head(queues[u]) \in Runs
    BY <1>1
  <2>3. QED
    BY <2>1, <2>2, NoneAssumption DEF Peek
<1>3. r \notin ToSet(queues[u])
  BY <1>2 DEF ToSet
<1>4. QED
  BY <1>3 DEF AtRest, Waits

LEMMA LaneMoved ==
  ASSUME StoresSettleAtOnce, ServiceInv, SettledInv, LanesInv, LeasesTrue,
         NEW u \in Users, LaneStep(u) \/ OutsideAnswers(u)
  PROVE  /\ SettledInv' /\ LeasesTrue'
         /\ \A v \in Users : LaneOK(v)'
         /\ ActiveInLane' /\ QueuedServed'
<1>1. /\ ManagerInv /\ CallersOK /\ call \in [Threads -> Frame]
      /\ u \in Threads /\ lane \in [Users -> Lane]
  BY InMethod, Names DEF ServiceInv, CallersOK
<1>2. UNCHANGED <<storeVars, runs>>
  BY <1>1, LaneMoves
<1>3. PICK l \in Lane : /\ lane' = [lane EXCEPT ![u] = l]
                        /\ call' = [call EXCEPT ![u] = First(u, l)]
                        /\ Moves(u, l)
  BY <1>1, LaneMoves
<1>4. /\ Between(call[u]) /\ Hand(call[u])
      /\ \A s \in Threads \ {u} : call[s] = IdleFrame
      /\ \A s \in Threads : Between(call[s])
  BY <1>1, MoveAlone
<1>5. l.run = None <=> l.at \in {"off", "acquiring"}
  BY <1>1, <1>3, MovesShape
<1>6. \A r \in Runs : r = l.run \/ r = lane[u].run =>
        IF l.run = r THEN Suits(l) ELSE ~isActiveState(runs[r].state)
  BY <1>3, <1>4, LaneSuits
<1>7. (\A r \in Runs : AtRest(r)) /\ (\A r \in Runs : LeaseTrue(r)) /\ QueuedRuns
  BY <1>4, AllAtRest, AllLeasesTrue DEF SettledInv
<1>8. l.run # None => Suits(l)
  BY <1>6 DEF Lane
<1>9. PICK f : f = First(u, l) /\ Hand(f) /\ LeaseHand(f)
  BY <1>1, <1>5, <1>7, <1>8, FirstIsHand
<1>10. call'[u] = f /\ \A s \in Threads \ {u} : call'[s] = IdleFrame
  BY <1>1, <1>3, <1>4, <1>9
<1>11. /\ UNCHANGED <<runs, queues, timers, contexts>>
       /\ UNCHANGED <<runs, leases>>
  BY <1>2 DEF storeVars, queueVars, leaseVars, signalVars
<1>12. SettledInv' /\ LeasesTrue'
  BY <1>1, <1>4, <1>9, <1>10, <1>11, CallerStep, LeaseCallerStep
<1>13. /\ lane'[u] = l /\ runs' = runs
       /\ \A v \in Users \ {u} : lane'[v] = lane[v] /\ call'[v] = call[v]
  BY <1>1, <1>2, <1>3, Names
<1>14. LaneOK(u)'
  <2> SUFFICES ASSUME NEW r \in Runs, l.run = r
               PROVE  /\ runs[r].state \in Allowed(l.at)
                      /\ l.at = "starting" /\ f.pc \in {"write", "threw"} =>
                           runs[r].state \in {"LEASED", "CANCELLED"}
                      /\ l.at \in {"completing", "failing"} =>
                           /\ f.pc # "threw"
                           /\ f.pc \in {"release", "signal", "write"} =>
                                runs[r].state \in {"LEASED", "RUNNING"}
    BY <1>10, <1>13 DEF LaneOK, Allowed
  <2>1. Suits(l)
    BY <1>8, NoneAssumption
  <2>2. l.at \in {"completing", "failing"} => f.pc # "threw"
    <3>1. \A op : SettleFrame(op, r, None).pc # "threw"
      BY SettleFields DEF AfterRead, AfterRemove
    <3>2. QED
      BY <1>9, <3>1 DEF First
  <2>3. QED
    BY <2>1, <2>2 DEF Suits
<1>15. ASSUME NEW v \in Users, v # u
       PROVE  LaneOK(v)'
  BY <1>13, <1>15 DEF LanesInv, LaneOK, Allowed
<1>16. ActiveInLane'
  <2> SUFFICES ASSUME NEW r \in Runs, isActiveState(runs[r].state),
                      NEW v \in Users, v = UserOf[r]
               PROVE  \/ lane'[v].run = r
                      \/ /\ call'[v].op = "acquire" /\ call'[v].pc = "done"
                         /\ call'[v].run = r
    BY <1>13, ManagerAssumption DEF ActiveInLane
  <2>1. \/ lane[v].run = r
        \/ call[v].op = "acquire" /\ call[v].pc = "done" /\ call[v].run = r
    BY DEF LanesInv, ActiveInLane
  <2>2. CASE v # u
    BY <1>13, <2>1, <2>2
  <2>3. CASE v = u
    <3>1. CASE lane[u].run = r
      BY <1>6, <1>13, <2>3, <3>1
    <3>2. CASE call[u].op = "acquire" /\ call[u].run = r
      <4>1. lane[u].at = "acquiring"
        BY <1>1, <3>2 DEF CallersOK, StageOp
      <4>2. l.run = r
        BY <1>3, <3>2, <4>1, NoneAssumption DEF Moves
      <4>3. QED
        BY <1>13, <2>3, <4>2
    <3>3. QED
      BY <2>1, <2>3, <3>1, <3>2
  <2>4. QED
    BY <2>2, <2>3
<1>17. QueuedServed'
  <2>1. ASSUME NEW r \in Runs, runs[r].state = "QUEUED"
        PROVE  lane'[UserOf[r]].at # "off" \/ Creating(r)'
    <3>1. CASE Creating(r)
      <4>1. PICK s \in Threads : call[s].op = "create" /\ call[s].run = r
        BY <3>1 DEF Creating
      <4>2. s # u
        BY <1>1, <4>1 DEF CallersOK, StageOp
      <4>3. call'[s] = call[s]
        BY <1>4, <1>10, <4>2
      <4>4. QED
        BY <4>1, <4>3 DEF Creating
    <3>2. CASE lane[UserOf[r]].at # "off" /\ UserOf[r] # u
      BY <1>13, <3>2, ManagerAssumption
    <3>3. CASE lane[u].at # "off" /\ UserOf[r] = u
      <4>1. ASSUME l.at = "off"
            PROVE  FALSE
        <5>1. lane[u].at = "acquiring" /\ call[u].run = None
          BY <1>3, <1>5, <4>1, <3>3 DEF Moves
        <5>2. call[u].op = "acquire"
          BY <1>1, <5>1 DEF CallersOK, StageOp
        <5>3. QED
          BY <2>1, <3>3, <5>1, <5>2 DEF LanesInv, QueuedServed
      <4>2. QED
        BY <1>13, <3>3, <4>1
    <3>4. QED
      BY <2>1, <3>1, <3>2, <3>3 DEF LanesInv, QueuedServed
  <2>2. ASSUME NEW v \in Users, call'[v].op = "acquire", call'[v].run = None,
               NEW r \in Runs, UserOf[r] = v
        PROVE  runs[r].state # "QUEUED"
    <3>1. CASE v # u
      BY <1>13, <2>2, <3>1 DEF LanesInv, QueuedServed
    <3>2. CASE v = u
      <4>1. l.at = "acquiring"
        <5>1. First(u, l).op = StageOp(l.at)
          BY <1>1, <1>5, FirstHanded
        <5>2. QED
          BY <1>9, <1>10, <2>2, <3>2, <5>1 DEF StageOp
      <4>2. f = AcquireFrame(u)
        BY <1>9, <4>1 DEF First
      <4>3. QED
        BY <1>1, <1>7, <1>10, <2>2, <3>2, <4>2, NothingMissed
    <3>3. QED
      BY <3>1, <3>2
  <2>3. QED
    BY <1>13, <2>1, <2>2 DEF QueuedServed
<1>18. QED
  BY <1>12, <1>14, <1>15, <1>16, <1>17

-----------------------------------------------------------------------------
(* Requests, timers and the clock.                                           *)

\* A step that is nothing to the processors.
LEMMA LanesQuiet ==
  ASSUME LanesInv, UNCHANGED <<runs, lane>>,
         \A u \in Users : call'[u] = call[u],
         \A r \in Runs : Creating(r) => Creating(r)' \/ lane[UserOf[r]].at # "off"
  PROVE  (\A u \in Users : LaneOK(u)') /\ ActiveInLane' /\ QueuedServed'
<1>1. \A u \in Users : LaneOK(u)'
  BY DEF LanesInv, LaneOK, Allowed
<1>2. ActiveInLane'
  BY ManagerAssumption DEF LanesInv, ActiveInLane
<1>3. QueuedServed'
  BY DEF LanesInv, QueuedServed
<1>4. QED
  BY <1>1, <1>2, <1>3

LEMMA CreatingStays ==
  ASSUME NEW t \in Threads, \A s \in Threads \ {t} : call'[s] = call[s],
         call[t].op # "create", call'[t].op # "create"
  PROVE  \A r \in Runs : Creating(r)' <=> Creating(r)
BY DEF Creating

LEMMA RunCreatedMoved ==
  ASSUME ServiceInv, SettledInv, LanesInv, LeasesTrue, NEW q \in Requests,
         RunCreated(q)
  PROVE  /\ SettledInv' /\ LeasesTrue'
         /\ \A v \in Users : LaneOK(v)'
         /\ ActiveInLane' /\ QueuedServed'
<1>1. /\ ManagerInv /\ CallersOK /\ call \in [Threads -> Frame]
      /\ q \in Threads /\ lane \in [Users -> Lane]
      /\ call[q].op = "create" /\ call[q].pc = "done"
      /\ UNCHANGED <<storeVars, runs>>
  BY InMethod, Names DEF ServiceInv, CallersOK, RunCreated
<1>2. /\ \A s \in Threads \ {q} : call[s] = IdleFrame
      /\ \A s \in Threads : Between(call[s])
      /\ \A r \in Runs : AtRest(r) /\ LeaseTrue(r)
      /\ QueuedRuns
  <2>1. \A s \in Threads \ {q} : call[s] = IdleFrame
    BY <1>1, RestOfThem
  <2>2. \A s \in Threads : Between(call[s])
    BY <1>1, <2>1, NoHand DEF Between
  <2>3. QED
    BY <2>1, <2>2, AllAtRest, AllLeasesTrue DEF SettledInv
<1>3. /\ UNCHANGED <<runs, queues, timers, contexts>>
      /\ UNCHANGED <<runs, leases>>
  BY <1>1 DEF storeVars, queueVars, leaseVars, signalVars
<1>4. PICK r \in Runs : r = call[q].run
  BY <1>1 DEF CallersOK
<1>5. PICK u \in Users : u = UserOf[r]
  BY ManagerAssumption
<1>6. ASSUME NEW s \in Runs, Creating(s)
      PROVE  s = r
  <2>1. IdleFrame.op # "create"
    BY DEF IdleFrame
  <2>2. QED
    BY <1>2, <1>4, <1>6, <2>1 DEF Creating
<1>7. CASE lane[u].at # "off"
  <2>1. UNCHANGED lane /\ call' = [call EXCEPT ![q] = IdleFrame]
    BY <1>4, <1>5, <1>7 DEF RunCreated, processingUsers
  <2>2. call'[q] = IdleFrame /\ \A s \in Threads \ {q} : call'[s] = call[s]
    BY <1>1, <2>1
  <2>3. LeaseHand(IdleFrame)
    BY DEF LeaseHand, IdleFrame
  <2>4. SettledInv' /\ LeasesTrue'
    BY <1>1, <1>2, <1>3, <2>2, <2>3, NoHand, CallerStep, LeaseCallerStep
  <2>5. \A v \in Users : call'[v] = call[v]
    BY <2>2, Names
  <2>6. \A s \in Runs : Creating(s) => lane[UserOf[s]].at # "off"
    BY <1>5, <1>6, <1>7
  <2>7. QED
    BY <1>3, <2>1, <2>4, <2>5, <2>6, LanesQuiet
<1>8. CASE lane[u].at = "off"
  <2>1. /\ lane' = [lane EXCEPT ![u].at = "acquiring"]
        /\ call' = [call EXCEPT ![q] = IdleFrame, ![u] = AcquireFrame(u)]
    BY <1>4, <1>5, <1>8 DEF RunCreated, processingUsers
  <2>2. PICK f : f = AcquireFrame(u) /\ Hand(f) /\ LeaseHand(f)
    BY <1>1, <1>2, FirstHands, FirstLeases
  <2>3. /\ u # q /\ u \in Threads
        /\ call'[u] = f /\ call'[q] = IdleFrame
        /\ \A s \in Threads \ {u, q} : call'[s] = call[s]
    BY <1>1, <2>1, <2>2, Names
  <2>4. \A s \in Threads \ {u} : call'[s] = IdleFrame
    BY <1>2, <2>3
  <2>5. SettledInv' /\ LeasesTrue'
    BY <1>2, <1>3, <2>2, <2>3, <2>4, CallerStep, LeaseCallerStep
  <2>6. /\ \A v \in Users \ {u} : lane'[v] = lane[v] /\ call'[v] = call[v]
        /\ lane'[u].at = "acquiring" /\ lane'[u].run = lane[u].run
        /\ lane[u].run = None /\ runs' = runs
    BY <1>1, <1>8, <2>1, <2>3, Names DEF CallersOK, Lane
  <2>7. \A v \in Users : LaneOK(v)'
    <3>1. LaneOK(u)'
      BY <2>6, NoneAssumption DEF LaneOK
    <3>2. ASSUME NEW v \in Users, v # u  PROVE LaneOK(v)'
      BY <2>6, <3>2 DEF LanesInv, LaneOK, Allowed
    <3>3. QED
      BY <3>1, <3>2
  <2>8. ActiveInLane'
    <3> SUFFICES ASSUME NEW s \in Runs, isActiveState(runs[s].state),
                        NEW v \in Users, v = UserOf[s]
                 PROVE  \/ lane'[v].run = s
                        \/ /\ call'[v].op = "acquire" /\ call'[v].pc = "done"
                           /\ call'[v].run = s
      BY <2>6, ManagerAssumption DEF ActiveInLane
    <3>1. \/ lane[v].run = s
          \/ call[v].op = "acquire" /\ call[v].pc = "done" /\ call[v].run = s
      BY DEF LanesInv, ActiveInLane
    <3>2. v # u
      <4>1. call[u].op = "none"
        BY <1>2, <2>3 DEF IdleFrame
      <4>2. QED
        BY <2>6, <3>1, <4>1, NoneAssumption
    <3>3. QED
      BY <2>6, <3>1, <3>2
  <2>9. QueuedServed'
    <3>1. ASSUME NEW s \in Runs, runs[s].state = "QUEUED"
          PROVE  lane'[UserOf[s]].at # "off"
      <4>1. CASE UserOf[s] = u
        BY <2>6, <4>1
      <4>2. CASE UserOf[s] # u
        <5>1. lane[UserOf[s]].at # "off"
          BY <1>5, <1>6, <3>1, <4>2 DEF LanesInv, QueuedServed
        <5>2. QED
          BY <2>6, <4>2, <5>1, ManagerAssumption
      <4>3. QED
        BY <4>1, <4>2
    <3>2. ASSUME NEW v \in Users, call'[v].op = "acquire", call'[v].run = None,
                 NEW s \in Runs, UserOf[s] = v
          PROVE  runs[s].state # "QUEUED"
      <4>1. CASE v # u
        BY <2>6, <3>2, <4>1 DEF LanesInv, QueuedServed
      <4>2. CASE v = u
        BY <1>1, <1>2, <2>2, <2>3, <3>2, <4>2, NothingMissed
      <4>3. QED
        BY <4>1, <4>2
    <3>3. QED
      BY <2>6, <3>1, <3>2 DEF QueuedServed
  <2>10. QED
    BY <2>5, <2>7, <2>8, <2>9
<1>9. QED
  BY <1>7, <1>8

\* Every other step of the service is one of the manager's, by callers who keep
\* its contract.
LEMMA AsManager ==
  ASSUME ServiceInv, LanesInv, [Next]_vars,
         \A u \in Users : ~LaneStep(u) /\ ~OutsideAnswers(u),
         \A q \in Requests : ~RunCreated(q)
  PROVE  /\ [ManagerNext]_managerVars /\ UNCHANGED lane
         /\ \/ \E t \in Threads : PlainStep(t) \/ SignalStep(t)
            \/ \E t \in Requests, r \in Runs : MayBegin /\ BeginCreate(t, r)
            \/ /\ UNCHANGED runs
               /\ \A u \in Users : call'[u] = call[u]
               /\ \A r \in Runs : Creating(r)' <=> Creating(r)
<1>1. /\ Requests \subseteq Tasks /\ Requests \cap Users = {}
      /\ Requests \subseteq Threads /\ Runs \subseteq Threads /\ Runs \cap Users = {}
      /\ Users \subseteq Threads
      /\ call \in [Threads -> Frame] /\ CallersOK
      /\ \A t \in Threads : call[t] = IdleFrame => call[t].op # "create"
  BY Names, InMethod, ExecutionAssumption DEF ServiceInv, ManagerInv, IdleFrame
<1> DEFINE Shape == /\ [ManagerNext]_managerVars /\ UNCHANGED lane
                    /\ \/ \E t \in Threads : PlainStep(t) \/ SignalStep(t)
                       \/ \E t \in Requests, r \in Runs :
                            MayBegin /\ BeginCreate(t, r)
                       \/ /\ UNCHANGED runs
                          /\ \A u \in Users : call'[u] = call[u]
                          /\ \A r \in Runs : Creating(r)' <=> Creating(r)
<1>2. ASSUME NEW t \in Threads \ Users, \A s \in Threads \ {t} : call'[s] = call[s],
             call[t].op # "create", call'[t].op # "create"
      PROVE  /\ \A u \in Users : call'[u] = call[u]
             /\ \A r \in Runs : Creating(r)' <=> Creating(r)
  BY <1>1, <1>2, CreatingStays
<1>3. ASSUME NEW q \in Requests, NEW r \in Runs, RequestCreate(q, r)
      PROVE  Shape
  <2>1. MayBegin /\ BeginCreate(q, r) /\ UNCHANGED lane
    BY <1>3 DEF RequestCreate, execVars
  <2>2. ManagerNext
    BY <1>1, <2>1 DEF ManagerNext, Calls
  <2>3. QED
    BY <2>1, <2>2
<1>4. ASSUME NEW q \in Requests, NEW r \in Runs, NEW reason \in ClientReasons,
             RequestCancel(q, r, reason)
      PROVE  Shape
  <2>1. /\ runs[r].state # "NONE" /\ reason \in Reasons /\ MayBegin
        /\ Begin(q, SettleFrame("cancel", r, reason))
        /\ UNCHANGED <<storeVars, runs, lane>>
    BY <1>4, ExecutionAssumption DEF RequestCancel, LanesInv, KnownRuns, Told
  <2>2. runs[r] # NoRun
    BY <2>1 DEF NoRun
  <2>3. ManagerNext
    BY <1>1, <2>1, <2>2 DEF ManagerNext, Calls
  <2>4. /\ call[q].op # "create" /\ call'[q].op # "create"
        /\ \A s \in Threads \ {q} : call'[s] = call[s]
    BY <1>1, <2>1 DEF Begin, Idle, SettleFrame, IdleFrame
  <2>5. QED
    BY <1>1, <1>2, <2>1, <2>3, <2>4
<1>5. ASSUME NEW q \in Requests, CancelReturns(q)
      PROVE  Shape
  <2>1. /\ call[q].op = "cancel" /\ call[q].pc \in {"done", "threw"}
        /\ call' = [call EXCEPT ![q] = IdleFrame]
        /\ UNCHANGED <<storeVars, runs, lane>>
    BY <1>5 DEF CancelReturns
  <2>2. ManagerNext
    BY <1>1, <2>1 DEF ManagerNext, Returns
  <2>3. /\ call[q].op # "create" /\ call'[q].op # "create"
        /\ \A s \in Threads \ {q} : call'[s] = call[s]
    BY <1>1, <2>1 DEF IdleFrame
  <2>4. QED
    BY <1>1, <1>2, <2>1, <2>2, <2>3
<1>6. ASSUME NEW t \in Threads, ManagerStep(t)
      PROVE  Shape
  <2>1. (PlainStep(t) \/ SignalStep(t)) /\ UNCHANGED lane
    BY <1>6 DEF ManagerStep, Signal, execVars
  <2>2. ManagerNext
    BY <2>1 DEF ManagerNext
  <2>3. QED
    BY <2>1, <2>2
<1>7. ASSUME NEW r \in Runs, Timer(r)
      PROVE  Shape
  <2>1. (TimerFires(r) \/ TimerReturns(r)) /\ UNCHANGED lane
    BY <1>7 DEF Timer, execVars
  <2>2. ManagerNext
    BY <2>1 DEF ManagerNext
  <2>3. call[r].op # "create" /\ UNCHANGED runs
    BY <1>1, <2>1 DEF CallersOK, TimerFires, TimerReturns
  <2>4. /\ call'[r].op # "create"
        /\ \A s \in Threads \ {r} : call'[s] = call[s]
    <3>1. PICK f : /\ call' = [call EXCEPT ![r] = f]
                   /\ f = IdleFrame \/ f = SettleFrame("timeout", r, "timeout")
      BY <2>1 DEF TimerFires, TimerReturns, Begin
    <3>2. f.op # "create"
      BY <3>1, SettleFields DEF IdleFrame
    <3>3. QED
      BY <1>1, <3>1, <3>2
  <2>5. QED
    BY <1>1, <1>2, <2>1, <2>2, <2>3, <2>4
<1>8. ASSUME NEW u \in Users, Clock(u)
      PROVE  Shape
  <2>1. LeaseExpires(u) /\ UNCHANGED lane
    BY <1>8 DEF Clock, execVars
  <2>2. ManagerNext /\ UNCHANGED runs /\ UNCHANGED call
    BY <2>1 DEF ManagerNext, LeaseExpires
  <2>3. QED
    BY <2>1, <2>2 DEF Creating
<1>9. ASSUME UNCHANGED vars
      PROVE  Shape
  <2>1. UNCHANGED managerVars /\ UNCHANGED lane /\ UNCHANGED runs /\ UNCHANGED call
    BY <1>9 DEF vars, execVars, managerVars
  <2>2. QED
    BY <2>1 DEF Creating
<1>10. Shape
  <2> HIDE DEF Shape
  <2>1. CASE Next
    BY <1>3, <1>4, <1>5, <1>6, <1>7, <1>8, <1>9, <2>1
       DEF Next, RequestStep, AllServed
  <2>2. QED
    BY <1>9, <2>1
<1>11. QED
  BY <1>10

LEMMA KnownStep ==
  ASSUME ServiceInv, SettledInv, LanesInv, [Next]_vars
  PROVE  KnownRuns'
<1>1. CallersOK /\ ManagerInv /\ Forward /\ events \in [Runs -> Seq(EventKinds)]
  BY ServiceKept DEF ServiceInv
<1> SUFFICES ASSUME NEW r \in Runs, Told(r, "run_queued")', ~Told(r, "run_queued")
             PROVE  runs[r].state # "NONE"
  BY <1>1 DEF LanesInv, KnownRuns, Forward
<1>2. ~UNCHANGED clientVars /\ "run_queued" \in EventKinds
  BY DEF clientVars, Told, EventKinds
<1>3. ASSUME NEW s \in Runs, NEW k \in EventKinds, Broadcast(s, k)
      PROVE  s = r
  BY <1>1, <1>2, <1>3, NowTold
<1>4. ASSUME NEW s \in Runs, NEW k \in TerminalKinds,
             emitTerminalOnce(s, k) \/ Conclude(s, k)
      PROVE  s = r
  <2>1. k \in EventKinds /\ "closed" \in EventKinds
    BY DEF EventKinds
  <2>2. Ends(s, k) => s = r
    BY <1>1, <1>2, <2>1, NowTold
  <2>3. QED
    BY <1>1, <1>2, <1>3, <1>4, <2>1, <2>2, Telling
<1>5. {"run_completed", "run_failed", "run_cancelled", "run_timed_out"}
        \subseteq TerminalKinds /\ {"run_started", "closed"} \subseteq EventKinds
  BY DEF TerminalKinds, EventKinds
<1>6. ASSUME NEW u \in Users, NEW s \in Runs, lane[u].run = s, LaneTells(u, s)
      PROVE  s = r /\ runs[s].state # "NONE"
  <2>1. runs[s].state # "NONE"
    BY <1>6 DEF ServiceInv, Served, Gone, Past
  <2>2. s = r
    BY <1>3, <1>4, <1>5, <1>6 DEF LaneTells
  <2>3. QED
    BY <2>1, <2>2
<1>7. ASSUME NEW u \in Users, NEW s \in Runs, Forgets(u, s)
      PROVE  FALSE
  BY <1>7 DEF Forgets, Told
<1>8. ASSUME NEW t \in Threads, NEW s \in Runs, call[t].run = s, StopTells(t, s)
      PROVE  s = r /\ runs[s].state # "NONE"
  <2>1. s = r
    BY <1>4, <1>5, <1>8 DEF StopTells
  <2>2. Hand(call[t]) /\ s # None
    BY <1>8, NoneAssumption DEF SettledInv
  <2>3. CASE CancelReturns(t) /\ call[t].pc = "done"
    <3>1. call[t].op = "cancel" /\ Outcome(call[t])
      BY <1>8, <2>2, <2>3 DEF CancelReturns, Hand
    <3>2. QED
      BY <1>8, <2>1, <3>1 DEF Outcome, isTerminalState
  <2>4. CASE Signal(t)
    <3>1. Stopping(call[t])
      BY <2>2, <2>4 DEF Signal, SignalStep, Hand
    <3>2. QED
      BY <1>8, <2>1, <3>1 DEF Stopping
  <2>5. QED
    BY <1>8, <2>3, <2>4 DEF StopTells
<1>9. ASSUME NEW q \in Requests, NEW s \in Runs, call[q].run = s, RunCreated(q),
             Broadcast(s, "run_queued")
      PROVE  s = r /\ runs[s].state # "NONE"
  <2>1. s = r
    BY <1>2, <1>3, <1>9
  <2>2. Hand(call[q]) /\ s # None /\ call[q].op = "create" /\ call[q].pc = "done"
    BY <1>9, NoneAssumption, Names DEF SettledInv, RunCreated
  <2>3. QED
    BY <1>9, <2>1, <2>2 DEF Hand, Outcome
<1>10. QED
  BY <1>1, <1>2, <1>6, <1>7, <1>8, <1>9, Tellings

\* A new run is no processor's yet.
LEMMA CreateMoved ==
  ASSUME ServiceInv, LanesInv, Settled, UNCHANGED lane,
         NEW t \in Requests, NEW r \in Runs, BeginCreate(t, r)
  PROVE  (\A u \in Users : LaneOK(u)') /\ ActiveInLane' /\ QueuedServed'
<1> DEFINE g == [IdleFrame EXCEPT !.op = "create", !.pc = "enqueue", !.run = r]
<1>1. /\ call \in [Threads -> Frame] /\ runs \in [Runs -> RunRecord]
      /\ runs[r] = NoRun /\ t \in Threads
      /\ \A u \in Users : u \in Threads /\ u # t
  BY InMethod, Names DEF BeginCreate, ServiceInv
<1>2. \A s \in Threads : call[s] = IdleFrame
  BY DEF Settled, Idle
<1>3. PICK f : call' = [call EXCEPT ![t] = f] /\ f.op = "create" /\ f.run = r
  <2>1. call' = [call EXCEPT ![t] = g]
    BY DEF BeginCreate, Begin
  <2>2. g.op = "create" /\ g.run = r
    BY DEF IdleFrame
  <2> HIDE DEF g
  <2>3. QED
    BY <2>1, <2>2
<1>4. /\ runs'[r].state = "QUEUED"
      /\ \A s \in Runs \ {r} : runs'[s] = runs[s]
  BY <1>1 DEF BeginCreate, NoRun
<1>5. /\ Creating(r)'
      /\ \A u \in Users : call'[u] = call[u]
      /\ \A s \in Runs : ~Creating(s)
  BY <1>1, <1>2, <1>3 DEF Creating, IdleFrame
<1>6. \A u \in Users : lane[u].run # r
  BY <1>1 DEF ServiceInv, Served, Gone, Past, NoRun
<1>7. ASSUME NEW u \in Users
      PROVE  LaneOK(u)'
  BY <1>4, <1>5, <1>6 DEF LanesInv, LaneOK, Allowed
<1>8. ActiveInLane'
  BY <1>4, <1>5, ManagerAssumption DEF LanesInv, ActiveInLane, isActiveState
<1>9. QueuedServed'
  <2>1. \A u \in Users : call'[u].op # "acquire"
    BY <1>2, <1>5, <1>1 DEF IdleFrame
  <2>2. QED
    BY <1>4, <1>5, <2>1 DEF LanesInv, QueuedServed
<1>10. QED
  BY <1>7, <1>8, <1>9

SettledServiceInv == ServiceInv /\ SettledInv /\ LanesInv /\ LeasesTrue

LEMMA SettledServiceStep ==
  ASSUME StoresSettleAtOnce, SettledServiceInv, [Next]_vars
  PROVE  SettledServiceInv'
<1>1. ServiceInv /\ SettledInv /\ LanesInv /\ LeasesTrue /\ ManagerInv
  BY DEF SettledServiceInv, ServiceInv
<1>2. ServiceInv' /\ KnownRuns'
  BY <1>1, ServiceStep, KnownStep
<1>3. CASE \E u \in Users : LaneStep(u) \/ OutsideAnswers(u)
  BY <1>1, <1>2, <1>3, LaneMoved DEF SettledServiceInv, LanesInv
<1>4. CASE \E q \in Requests : RunCreated(q)
  BY <1>1, <1>2, <1>4, RunCreatedMoved DEF SettledServiceInv, LanesInv
<1>5. CASE /\ \A u \in Users : ~LaneStep(u) /\ ~OutsideAnswers(u)
           /\ \A q \in Requests : ~RunCreated(q)
  <2>1. [ManagerNext]_managerVars /\ UNCHANGED lane
    BY <1>1, <1>5, AsManager
  <2>2. SettledInv' /\ LeasesTrue'
    BY <1>1, <2>1, SettledNext, LeasesNext, LaneIsFree
  <2>3. (\A u \in Users : LaneOK(u)') /\ ActiveInLane' /\ QueuedServed'
    <3>1. CASE \E t \in Threads : PlainStep(t) \/ SignalStep(t)
      BY <1>1, <2>1, <3>1, StepLaneOK, StepActive, StepQueued
    <3>2. CASE \E t \in Requests, r \in Runs : MayBegin /\ BeginCreate(t, r)
      BY <1>1, <2>1, <3>2, CreateMoved DEF MayBegin
    <3>3. CASE /\ UNCHANGED runs
               /\ \A u \in Users : call'[u] = call[u]
               /\ \A r \in Runs : Creating(r)' <=> Creating(r)
      BY <1>1, <2>1, <3>3, LanesQuiet
    <3>4. QED
      BY <1>1, <1>5, <3>1, <3>2, <3>3, AsManager
  <2>4. QED
    BY <1>2, <2>2, <2>3 DEF SettledServiceInv, LanesInv
<1>6. QED
  BY <1>3, <1>4, <1>5

\* With stores that settle at once, every run that is queued, leased or running
\* is where its lane expects it, and its lease is its own.
THEOREM SettledService ==
  ASSUME StoresSettleAtOnce
  PROVE  Spec => []SettledServiceInv
<1>1. Init => SettledServiceInv
  <2> SUFFICES ASSUME Init  PROVE SettledServiceInv
    OBVIOUS
  <2>1. ServiceInv /\ SettledInv /\ LeasesTrue
    BY ServiceInitInv, SettledInit, LeasesInit DEF Init
  <2>2. /\ runs = [r \in Runs |-> NoRun] /\ call = [t \in Threads |-> IdleFrame]
        /\ lane = [u \in Users |-> [at |-> "off", run |-> None]]
        /\ events = [r \in Runs |-> << >>]
    BY DEF Init, ManagerInit
  <2>3. \A u \in Users : LaneOK(u)
    BY <2>2, NoneAssumption DEF LaneOK
  <2>4. \A r \in Runs : runs[r].state = "NONE"
    BY <2>2 DEF NoRun
  <2>5. ActiveInLane
    BY <2>4 DEF ActiveInLane, isActiveState
  <2>6. QueuedServed
    BY <2>2, <2>4, Names DEF QueuedServed, IdleFrame
  <2>7. KnownRuns
    <3>1. \A r \in Runs : ToSet(events[r]) = {}
      BY <2>2 DEF ToSet
    <3>2. QED
      BY <3>1 DEF KnownRuns, Told
  <2>8. QED
    BY <2>1, <2>3, <2>5, <2>6, <2>7 DEF SettledServiceInv, LanesInv
<1>2. SettledServiceInv /\ [Next]_vars => SettledServiceInv'
  BY SettledServiceStep
<1>3. QED
  BY <1>1, <1>2, PTL DEF Spec

\* A user never has two active runs, though leases may expire under a run and
\* an expired lease is simply replaced (lease.ts:78): the processor, which asks
\* for a run only between runs (run-execution.service.ts:131), keeps them apart.
THEOREM OneRunPerLane ==
  ASSUME StoresSettleAtOnce
  PROVE  Spec => []SingleActiveRun
<1>1. SettledServiceInv => SingleActiveRun
  BY OneHolder DEF SettledServiceInv
<1>2. QED
  BY <1>1, SettledService, PTL

\* Between callbacks an active run holds its user's lease, expired or not.
THEOREM LanesHoldLeases ==
  ASSUME StoresSettleAtOnce
  PROVE  Spec => []LeaseFollowsRun
<1>1. SettledServiceInv => LeaseFollowsRun
  BY HeldLeases DEF SettledServiceInv, ServiceInv
<1>2. QED
  BY <1>1, SettledService, PTL

\* No lost wake-up: between callbacks a QUEUED run has a processor at work
\* (run-execution.service.ts:123).
THEOREM NoLostWakeUp ==
  ASSUME StoresSettleAtOnce
  PROVE  Spec => []QueuedRunIsServed
<1>1. SettledServiceInv => QueuedRunIsServed
  <2> SUFFICES ASSUME SettledServiceInv, Settled, NEW r \in Runs,
                      runs[r].state = "QUEUED"
               PROVE  lane[UserOf[r]].at # "off"
    BY ManagerAssumption DEF QueuedRunIsServed, processingUsers
  <2>1. ~Creating(r)
    BY DEF Settled, Idle, Creating, IdleFrame
  <2>2. QED
    BY <2>1 DEF SettledServiceInv, LanesInv, QueuedServed
<1>2. QED
  BY <1>1, SettledService, PTL

\* Neither the timeout callback nor a processor out of its catch block ever
\* rejects unseen (timeout.ts:109, run-execution.service.ts:81, 262).
THEOREM NothingRejects ==
  ASSUME StoresSettleAtOnce
  PROVE  Spec => []NoUnhandledRejection
<1>1. SettledServiceInv => NoUnhandledRejection
  <2> SUFFICES ASSUME SettledServiceInv  PROVE NoUnhandledRejection
    OBVIOUS
  <2>1. ASSUME NEW r \in Runs
        PROVE  call[r].pc # "threw"
    <3>1. call[r].op \in {"none", "timeout"} /\ Hand(call[r])
      BY Names DEF SettledServiceInv, ServiceInv, CallersOK, SettledInv
    <3>2. call[r].pc = "threw" => call[r].op \in {"start", "complete", "fail"}
      <4>1. call[r].pc = "threw" => call[r].run \in Runs
        BY Names, InMethod DEF SettledServiceInv, ServiceInv, FrameShape
      <4>2. QED
        BY <3>1, <4>1, NoneAssumption DEF Hand
    <3>3. QED
      BY <3>1, <3>2
  <2>2. ASSUME NEW u \in Users, lane[u].at = "crashed"
        PROVE  FALSE
    <3>1. lane[u].run \in Runs
      BY <2>2 DEF SettledServiceInv, ServiceInv, CallersOK, Lane
    <3>2. runs[lane[u].run].state \in Allowed("crashed")
      BY <2>2, <3>1 DEF SettledServiceInv, LanesInv, LaneOK
    <3>3. QED
      BY <3>2, NeverNone
  <2>3. QED
    BY <2>1, <2>2 DEF NoUnhandledRejection, TimeoutsNeverReject
<1>2. QED
  BY <1>1, SettledService, PTL

\* The service keeps the queue, the timers and the contexts in step with the
\* states of the runs, lanes or not: between callbacks the QUEUED runs are those
\* in the queue, and the RUNNING runs those that can be timed out and aborted.
THEOREM ServiceAtRest ==
  ASSUME StoresSettleAtOnce
  PROVE  Spec => [](QueuedIffWaiting /\ StoppableIffRunning)
<1>1. SettledServiceInv => QueuedIffWaiting
  BY NoHand, AllAtRest
     DEF SettledServiceInv, QueuedIffWaiting, Settled, Idle, AtRest, Waits
<1>2. SettledServiceInv => StoppableIffRunning
  BY NoHand, AllAtRest
     DEF SettledServiceInv, StoppableIffRunning, Settled, Idle, AtRest
<1>3. QED
  BY <1>1, <1>2, SettledService, PTL

\* How a step of the service changes the state of a run.
LEMMA StateFollows ==
  ASSUME SettledServiceInv, [Next]_vars, NEW r \in Runs,
         runs'[r].state # runs[r].state
  PROVE  \/ runs[r] = NoRun /\ runs'[r].state = "QUEUED"
         \/ isValidStateTransition(runs[r].state, runs'[r].state)
<1>1. ServiceInv /\ SettledInv /\ LanesInv /\ CallersOK /\ ManagerInv
      /\ call \in [Threads -> Frame] /\ Requests \subseteq Threads
  BY Names DEF SettledServiceInv, ServiceInv, ManagerInv
<1>2. \A u \in Users : ~LaneStep(u) /\ ~OutsideAnswers(u)
  BY <1>1, LaneMoves
<1>3. \A q \in Requests : ~RunCreated(q)
  BY DEF RunCreated
<1>4. \/ \E t \in Threads : PlainStep(t) \/ SignalStep(t)
      \/ \E t \in Requests, s \in Runs : MayBegin /\ BeginCreate(t, s)
  BY <1>1, <1>2, <1>3, AsManager
<1>5. QED
  BY <1>1, <1>4, TableFollowed

\* Every state the service stores is one the transition table allows: with
\* cancel and timeout racing a run's processor a terminal state is final.
THEOREM ServiceFollowsTable ==
  ASSUME StoresSettleAtOnce
  PROVE  Spec => TransitionsFollowTable
<1> DEFINE Follows == \A r \in Runs : runs'[r].state # runs[r].state =>
             \/ runs[r] = NoRun /\ runs'[r].state = "QUEUED"
             \/ isValidStateTransition(runs[r].state, runs'[r].state)
<1>1. SettledServiceInv /\ [Next]_vars => [Follows]_managerVars
  BY StateFollows
<1>2. QED
  BY <1>1, SettledService, PTL DEF Spec, TransitionsFollowTable

-----------------------------------------------------------------------------
(* What clients are told.                                                    *)

\* While a method is under way nothing happens but its own steps and the clock.
LEMMA UnderWay ==
  ASSUME StoresSettleAtOnce, ServiceInv, SettledInv, [Next]_vars,
         NEW t \in Threads, ~Between(call[t])
  PROVE  UNCHANGED <<call, runs, execVars>> \/ ManagerStep(t)
<1>1. CallersOK /\ call[t].pc # "idle"
  BY DEF ServiceInv, Between
<1>2. \A s \in Threads \ {t} : call[s] = IdleFrame
  BY <1>1, RestOfThem
<1>3. ~Settled
  BY NoHand DEF Settled, Idle
<1>4. ~MayBegin
  BY <1>3 DEF MayBegin
<1>5. \A s \in Threads : call[s].pc \in {"done", "threw"} => FALSE
  BY <1>2 DEF Between, IdleFrame
<1>6. ASSUME NEW u \in Users, LaneStep(u) \/ OutsideAnswers(u)
      PROVE  FALSE
  BY <1>1, <1>6, MoveAlone
<1>7. ASSUME NEW s \in Threads, ManagerStep(s)
      PROVE  s = t
  <2>1. call[s].pc # "idle"
    BY <1>7 DEF ManagerStep, Signal, SignalStep, PlainStep, EnqueueRun,
                SetQueuePosition, LeaseNextRun, DequeueNext, MarkLeased,
                RemoveQueued, ReleaseLease, WriteTransition, RereadRun, BeginRun
  <2>2. QED
    BY <1>2, <2>1 DEF IdleFrame
<1>8. ASSUME NEW q \in Requests
      PROVE  /\ ~RequestStep(q)
             /\ \A r \in Runs : ~RequestCreate(q, r)
             /\ \A r \in Runs, reason \in ClientReasons : ~RequestCancel(q, r, reason)
  BY <1>4, <1>5, Names
     DEF RequestStep, RunCreated, CancelReturns, RequestCreate, RequestCancel
<1>9. \A r \in Runs : ~Timer(r)
  BY <1>4, <1>5 DEF Timer, TimerFires, TimerReturns, Threads
<1>10. ASSUME \E u \in Users : Clock(u)
       PROVE  UNCHANGED <<call, runs, execVars>>
  BY <1>10 DEF Clock, LeaseExpires
<1>11. UNCHANGED vars => UNCHANGED <<call, runs, execVars>>
  BY DEF vars, managerVars
<1>12. ~AllServed
  BY <1>3 DEF AllServed
<1>13. QED
  BY <1>6, <1>7, <1>8, <1>9, <1>10, <1>11, <1>12 DEF Next

\* Runs that some client cancelled with the timer's own reason.
Given == {r \in Runs : "timeout" \in ToSet(cancels[r])}

\* Requests to cancel are counted and kept, not forgotten.
LEMMA CancelsKept ==
  ASSUME ServiceTypes, [Next]_vars
  PROVE  /\ Given \subseteq Given'
         /\ \A r \in Runs : Len(cancels[r]) \in Nat /\ Len(cancels'[r]) \in Nat
                              /\ Len(cancels'[r]) >= Len(cancels[r])
<1>1. cancels \in [Runs -> Seq(ClientReasons)]
  BY DEF ServiceTypes
<1>2. CASE UNCHANGED cancels
  BY <1>1, <1>2 DEF Given
<1>3. \/ UNCHANGED cancels
      \/ \E r \in Runs, reason \in ClientReasons :
           cancels' = [cancels EXCEPT ![r] = Append(@, reason)]
  BY DEF Next, RequestCreate, RequestCancel, RequestStep, RunCreated,
         CancelReturns, LaneStep, Acquired, Started, Checked, Completed, Caught,
         Failed, OutsideAnswers, Provisioned, PackLoaded, AgentSettles, Clock,
         ManagerStep, Signal, Timer, AllServed, execVars, vars
<1>4. ASSUME NEW s \in Runs, NEW reason \in ClientReasons,
             cancels' = [cancels EXCEPT ![s] = Append(@, reason)]
      PROVE  \A r \in Runs : /\ Len(cancels[r]) \in Nat
                             /\ \/ cancels'[r] = cancels[r]
                                \/ /\ Len(cancels'[r]) = Len(cancels[r]) + 1
                                   /\ ToSet(cancels[r]) \subseteq ToSet(cancels'[r])
  <2>1. ASSUME NEW r \in Runs
        PROVE  /\ Len(cancels[r]) \in Nat
               /\ \/ cancels'[r] = cancels[r]
                  \/ cancels'[r] = Append(cancels[r], reason)
    BY <1>1, <1>4
  <2>2. ASSUME NEW c \in Seq(ClientReasons)
        PROVE  /\ Len(Append(c, reason)) = Len(c) + 1
               /\ ToSet(c) \subseteq ToSet(Append(c, reason))
    BY DEF ToSet
  <2>3. QED
    BY <1>1, <2>1, <2>2
<1>5. ASSUME NEW s \in Runs, NEW reason \in ClientReasons,
             cancels' = [cancels EXCEPT ![s] = Append(@, reason)]
      PROVE  /\ Given \subseteq Given'
             /\ \A r \in Runs : Len(cancels[r]) \in Nat /\ Len(cancels'[r]) \in Nat
                                  /\ Len(cancels'[r]) >= Len(cancels[r])
  <2> DEFINE n(r) == Len(cancels[r])
             m(r) == Len(cancels'[r])
  <2>1. \A r \in Runs : /\ n(r) \in Nat
                        /\ m(r) = n(r) \/ m(r) = n(r) + 1
                        /\ ToSet(cancels[r]) \subseteq ToSet(cancels'[r])
    BY <1>5, <1>4
  <2>2. Given \subseteq Given'
    BY <2>1 DEF Given
  <2> HIDE DEF n, m
  <2>3. \A r \in Runs : n(r) \in Nat /\ m(r) \in Nat /\ m(r) >= n(r)
    BY <2>1
  <2>4. QED
    BY <2>2, <2>3 DEF n, m
<1>6. QED
  BY <1>2, <1>3, <1>5

\* The reason on its way to the abort listener says who gave it, unless a
\* client gave the timer's.
Reasoned(f, given) ==
  f.pc \in {"remove", "release", "signal"} =>
    /\ f.op = "timeout" => f.reason = "timeout"
    /\ f.op = "cancel" /\ f.reason = "timeout" => f.run \in given
ReasonsTold == \A t \in Threads : Reasoned(call[t], Given)

\* A frame of op is about to write the state of r.
Writing(r, op) ==
  \E t \in Threads : call[t].op = op /\ call[t].run = r /\ call[t].pc = "write"

\* The end that op gives a run has been written, or will be by the same chain.
Sealed(r, op) ==
  \/ runs[r].state = Target(op)
  \/ op \in {"cancel", "timeout"} /\ Writing(r, op)

\* How that end is announced.
Word(op) ==
  CASE op = "complete" -> "run_completed"
    [] op = "fail"     -> "run_failed"
    [] op = "cancel"   -> "run_cancelled"
    [] op = "timeout"  -> "run_timed_out"

\* A client that gives the timer's reason is answered with the timer's word.
Justified(r, op) ==
  \/ Sealed(r, op)
  \/ op = "timeout" /\ r \in Given /\ Sealed(r, "cancel")

TruthInv ==
  /\ ReasonsTold
  /\ \A r \in Runs, op \in Settling : Told(r, Word(op)) => Justified(r, op)

LEMMA SealHolds ==
  ASSUME StoresSettleAtOnce, SettledServiceInv, [Next]_vars, NEW r \in Runs,
         NEW op \in Settling, Sealed(r, op)
  PROVE  Sealed(r, op)'
<1>1. CASE runs[r].state = Target(op)
  <2>1. ~isValidStateTransition(runs[r].state, runs'[r].state) /\ runs[r] # NoRun
    BY <1>1 DEF isValidStateTransition, VALID_STATE_TRANSITIONS, Target, Settling,
                NoRun
  <2>2. runs'[r].state = runs[r].state
    BY <2>1, StateFollows
  <2>3. QED
    BY <1>1, <2>2 DEF Sealed
<1>2. ASSUME op \in {"cancel", "timeout"}, NEW t \in Threads,
             call[t].op = op, call[t].run = r, call[t].pc = "write"
      PROVE  Sealed(r, op)'
  <2>1. ServiceInv /\ SettledInv /\ ManagerInv /\ ~Between(call[t]) /\ r # None
        /\ Hand(call[t])
    BY <1>2, NoneAssumption
       DEF SettledServiceInv, ServiceInv, SettledInv, Between
  <2>2. CASE UNCHANGED call
    BY <1>2, <2>2 DEF Sealed, Writing
  <2>3. CASE ManagerStep(t)
    <3>1. PlainStep(t)
      BY <1>2, <2>3 DEF ManagerStep, Signal, SignalStep
    <3>2. isValidStateTransition(runs[r].state, Target(op))
      <4>1. Stopping(call[t])
        BY <1>2, <2>1 DEF Hand
      <4>2. QED
        BY <1>2, <4>1 DEF Stopping, isValidStateTransition,
                          VALID_STATE_TRANSITIONS, Target
    <3>3. runs'[r].state = Target(op)
      BY <1>2, <2>1, <3>1, <3>2, PcStep DEF Settling
    <3>4. QED
      BY <3>3 DEF Sealed
  <2>4. QED
    BY <2>1, <2>2, <2>3, UnderWay
<1>3. QED
  BY <1>1, <1>2 DEF Sealed, Writing

LEMMA JustHolds ==
  ASSUME StoresSettleAtOnce, SettledServiceInv, ServiceTypes, [Next]_vars,
         NEW r \in Runs, NEW op \in Settling, Justified(r, op)
  PROVE  Justified(r, op)'
<1>1. "cancel" \in Settling
  BY DEF Settling
<1>2. CASE Sealed(r, op)
  BY <1>2, SealHolds DEF Justified
<1>3. CASE op = "timeout" /\ r \in Given /\ Sealed(r, "cancel")
  BY <1>1, <1>3, SealHolds, CancelsKept DEF Justified
<1>4. QED
  BY <1>2, <1>3 DEF Justified

LEMMA ReasonsKept ==
  ASSUME StoresSettleAtOnce, SettledServiceInv, ServiceTypes, ReasonsTold,
         [Next]_vars
  PROVE  ReasonsTold'
<1>1. /\ ServiceInv /\ SettledInv /\ CallersOK /\ ManagerInv
      /\ call \in [Threads -> Frame]
  BY DEF SettledServiceInv, ServiceInv, ManagerInv
<1>0. \A f : Reasoned(f, Given) => Reasoned(f, Given')
  BY CancelsKept DEF Reasoned
<1>2. \A f : f.op \notin {"cancel", "timeout"} => Reasoned(f, Given')
  BY DEF Reasoned
<1>3. /\ Reasoned(IdleFrame, Given')
      /\ \A u \in Users : Reasoned(AcquireFrame(u), Given')
  BY DEF Reasoned, IdleFrame, AcquireFrame
<1>4. ASSUME NEW t \in Threads, NEW f, Reasoned(f, Given'),
             call' = [call EXCEPT ![t] = f]
      PROVE  ReasonsTold'
  <2>1. \A s \in Threads : call'[s] = IF s = t THEN f ELSE call[s]
    BY <1>1, <1>4
  <2>2. QED
    BY <1>0, <1>4, <2>1 DEF ReasonsTold
<1>5. ASSUME NEW u \in Users, LaneStep(u) \/ OutsideAnswers(u)
      PROVE  ReasonsTold'
  <2>1. PICK l \in Lane : /\ call' = [call EXCEPT ![u] = First(u, l)]
                          /\ Moves(u, l)
    BY <1>1, <1>5, LaneMoves
  <2>2. First(u, l).op = StageOp(l.at)
    BY <1>1, <2>1, FirstHanded, MovesShape
  <2>3. Reasoned(First(u, l), Given')
    BY <1>2, <2>2 DEF StageOp
  <2>4. QED
    BY <1>4, <2>1, <2>3, Names
<1>6. ASSUME NEW q \in Requests, RunCreated(q)
      PROVE  ReasonsTold'
  <2>1. \E u \in Users :
          \/ call' = [call EXCEPT ![q] = IdleFrame]
          \/ call' = [call EXCEPT ![q] = IdleFrame, ![u] = AcquireFrame(u)]
    <3>1. call[q].run \in Runs
      BY <1>1, <1>6, Names DEF RunCreated, CallersOK
    <3>2. UserOf[call[q].run] \in Users
      BY <3>1, ManagerAssumption
    <3>3. QED
      BY <1>6, <3>2 DEF RunCreated
  <2>2. PICK u \in Users : \A t \in Threads :
          call'[t] = call[t] \/ call'[t] = IdleFrame \/ call'[t] = AcquireFrame(u)
    BY <1>1, <2>1
  <2>3. QED
    BY <1>0, <1>3, <2>2 DEF ReasonsTold
<1>7. ASSUME NEW q \in Requests, CancelReturns(q)
      PROVE  ReasonsTold'
  BY <1>3, <1>4, <1>7, Names DEF CancelReturns
<1>8. ASSUME NEW q \in Requests, NEW r \in Runs, RequestCreate(q, r)
      PROVE  ReasonsTold'
  <2> DEFINE g == [IdleFrame EXCEPT !.op = "create", !.pc = "enqueue", !.run = r]
  <2>1. call' = [call EXCEPT ![q] = g] /\ g.op = "create"
    BY <1>8 DEF RequestCreate, BeginCreate, Begin, IdleFrame
  <2> HIDE DEF g
  <2>2. QED
    BY <1>2, <1>4, <2>1, Names
<1>9. ASSUME NEW q \in Requests, NEW r \in Runs, NEW reason \in ClientReasons,
             RequestCancel(q, r, reason)
      PROVE  ReasonsTold'
  <2>1. call' = [call EXCEPT ![q] = SettleFrame("cancel", r, reason)]
    BY <1>9 DEF RequestCancel, Begin
  <2>2. reason = "timeout" => r \in Given'
    <3>1. cancels'[r] = Append(cancels[r], reason) /\ cancels[r] \in Seq(ClientReasons)
      BY <1>9 DEF RequestCancel, ServiceTypes
    <3>2. \A c \in Seq(ClientReasons) : reason \in ToSet(Append(c, reason))
      BY DEF ToSet
    <3>3. QED
      BY <3>1, <3>2 DEF Given
  <2>4. Reasoned(SettleFrame("cancel", r, reason), Given')
    BY <2>2 DEF Reasoned, SettleFrame, IdleFrame
  <2>3. QED
    BY <1>4, <2>1, <2>4, Names
<1>10. ASSUME NEW r \in Runs, Timer(r)
       PROVE  ReasonsTold'
  <2>1. PICK f : /\ call' = [call EXCEPT ![r] = f]
                 /\ f = IdleFrame \/ f = SettleFrame("timeout", r, "timeout")
    BY <1>10 DEF Timer, TimerFires, TimerReturns, Begin
  <2>2. Reasoned(SettleFrame("timeout", r, "timeout"), Given')
    BY DEF Reasoned, SettleFrame, IdleFrame
  <2>3. QED
    BY <1>3, <1>4, <2>1, <2>2, Names
<1>11. ASSUME NEW t \in Threads, ManagerStep(t)
       PROVE  ReasonsTold'
  <2>1. PlainStep(t) \/ SignalStep(t)
    BY <1>11 DEF ManagerStep, Signal
  <2>2. call'[t].op = call[t].op /\ \A s \in Threads \ {t} : call'[s] = call[s]
    BY <1>1, <2>1, OfOneMethod
  <2>3. Reasoned(call'[t], Given')
    <3>1. CASE call[t].op \notin {"cancel", "timeout"}
      BY <1>2, <2>2, <3>1
    <3>2. CASE call[t].op \in {"cancel", "timeout"} /\ call[t].pc = "remove"
      <4>1. call[t] \in Frame /\ Reasoned(call[t], Given')
        BY <1>0, <1>1 DEF ReasonsTold
      <4>2. RemoveQueued(t)
        BY <1>1, <2>1, <3>2, PcStep DEF Settling
      <4>3. call'[t].reason = call[t].reason /\ call'[t].run = call[t].run
        BY <1>1, <4>1, <4>2 DEF RemoveQueued, Goto, Frame
      <4>4. QED
        BY <2>2, <3>2, <4>1, <4>3 DEF Reasoned
    <3>3. CASE call[t].op \in {"cancel", "timeout"} /\ call[t].pc = "release"
      <4>1. call[t] \in Frame /\ Reasoned(call[t], Given')
        BY <1>0, <1>1 DEF ReasonsTold
      <4>2. ReleaseLease(t)
        BY <1>1, <2>1, <3>3, PcStep DEF Settling
      <4>3. call'[t].reason = call[t].reason /\ call'[t].run = call[t].run
        BY <1>1, <4>1, <4>2 DEF ReleaseLease, Forget, Frame
      <4>4. QED
        BY <2>2, <3>3, <4>1, <4>3 DEF Reasoned
    <3>4. CASE /\ call[t].op \in {"cancel", "timeout"}
               /\ call[t].pc \notin {"remove", "release"}
      <4>1. call'[t].pc \notin {"remove", "release", "signal"}
        BY <1>1, <2>1, <3>4, PcStep DEF Settling
      <4>2. QED
        BY <4>1 DEF Reasoned
    <3>5. QED
      BY <3>1, <3>2, <3>3, <3>4
  <2>4. QED
    BY <1>0, <2>2, <2>3 DEF ReasonsTold
<1>12. ASSUME UNCHANGED call
       PROVE  ReasonsTold'
  BY <1>0, <1>12 DEF ReasonsTold
<1>13. (\E u \in Users : Clock(u)) \/ AllServed \/ UNCHANGED vars => UNCHANGED call
  BY DEF Clock, LeaseExpires, AllServed, vars, managerVars
<1>14. QED
  BY <1>5, <1>6, <1>7, <1>8, <1>9, <1>10, <1>11, <1>12, <1>13 DEF Next, RequestStep

\* Whatever end is announced has been written, or will be by the same chain; a
\* processor that announces one leaves the run, a cancel remembers it did.
LEMMA NewsIsTrue ==
  ASSUME StoresSettleAtOnce, SettledServiceInv, ServiceTypes, ReasonsTold,
         [Next]_vars, NEW r \in Runs, NEW op \in Settling,
         Told(r, Word(op))', ~Told(r, Word(op))
  PROVE  /\ Justified(r, op)'
         /\ op \in {"complete", "fail"} =>
              \E u \in Users : lane[u].run = r /\ lane'[u].run = None
         /\ op \in {"cancel", "timeout"} =>
              /\ r \in terminalEvents'
              /\ \/ op = "timeout" /\ Sealed(r, "timeout")'
                 \/ \E t \in Threads : call[t].op = "cancel" /\ call[t].run = r
<1> DEFINE Left == op \in {"complete", "fail"} /\
                    \E u \in Users : lane[u].run = r /\ lane'[u].run = None
           Remembered == op \in {"cancel", "timeout"} =>
              /\ r \in terminalEvents'
              /\ \/ op = "timeout" /\ Sealed(r, "timeout")'
                 \/ \E t \in Threads : call[t].op = "cancel" /\ call[t].run = r
<1>1. /\ ServiceInv /\ SettledInv /\ CallersOK /\ ManagerInv /\ r # None
      /\ call \in [Threads -> Frame] /\ events \in [Runs -> Seq(EventKinds)]
  BY NoneAssumption DEF SettledServiceInv, ServiceInv, ManagerInv
<1>2. Word(op) \in TerminalKinds /\ Word(op) \in EventKinds /\ ~UNCHANGED clientVars
      /\ Word(op) \notin {"run_queued", "run_started", "closed"}
  BY DEF Word, Settling, TerminalKinds, EventKinds, clientVars, Told
<1>3. ASSUME NEW s \in Runs, NEW k \in EventKinds, Broadcast(s, k) \/ Ends(s, k)
      PROVE  s = r /\ k = Word(op)
  BY <1>1, <1>2, <1>3, NowTold
<1>4. ASSUME NEW s \in Runs, NEW k \in TerminalKinds,
             emitTerminalOnce(s, k) \/ Conclude(s, k)
      PROVE  s = r /\ k = Word(op)
  <2>1. k \in EventKinds /\ "closed" \in EventKinds
    BY DEF EventKinds
  <2>2. ~Broadcast(s, "closed")
    BY <1>2, <1>3, <2>1
  <2>3. QED
    BY <1>1, <1>2, <1>3, <1>4, <2>1, <2>2, Telling
<1>5. {"run_completed", "run_failed", "run_cancelled", "run_timed_out"}
        \subseteq TerminalKinds /\ {"run_queued", "run_started", "closed"} \subseteq EventKinds
  BY DEF TerminalKinds, EventKinds
<1>6. \A o \in Settling : Word(o) = Word(op) => o = op
  BY DEF Settling, Word
<1>7. ASSUME NEW u \in Users, NEW s \in Runs, lane[u].run = s, LaneTells(u, s)
      PROVE  Justified(r, op)' /\ Left
  <2>1. /\ lane[u].run = s => call[u].op \in {"none", "acquire"} \/ call[u].run = s
        /\ call[u].op = StageOp(lane[u].at) /\ u \in Threads
    BY <1>1, <1>7, Names DEF CallersOK
  <2>2. Hand(call[u]) /\ UNCHANGED runs
    <3>1. LaneStep(u)
      BY <1>7 DEF LaneTells, LaneStep
    <3>2. QED
      BY <1>1, <2>1, <3>1, LaneMoves DEF SettledInv
  <2> /\ Completed(u) /\ call[u].pc = "done" => lane'[u].run = None
      /\ Failed(u) /\ call[u].pc = "done" => lane'[u].run = None
    <3>1. lane \in [Users -> Lane]
      BY <1>1 DEF CallersOK
    <3>2. QED
      BY <3>1 DEF Completed, Failed, Resumes, NextRun
  <2>3. CASE Completed(u) /\ call[u].pc = "done" /\ Conclude(s, "run_completed")
    <3>1. s = r /\ op = "complete"
      BY <1>4, <1>5, <1>6, <2>3 DEF Word, Settling
    <3>2. call[u].op = "complete" /\ call[u].run = r
      BY <1>7, <2>1, <2>3, <3>1 DEF Completed, Resumes, StageOp
    <3>3. Outcome(call[u])
      BY <1>1, <2>2, <2>3, <3>2 DEF Hand
    <3>4. QED
      BY <1>7, <2>2, <3>1, <3>2, <3>3, <2>3 DEF Outcome, Sealed, Justified
  <2>4. CASE Failed(u) /\ call[u].pc = "done" /\ Conclude(s, "run_failed")
    <3>1. s = r /\ op = "fail"
      BY <1>4, <1>5, <1>6, <2>4 DEF Word, Settling
    <3>2. call[u].op = "fail" /\ call[u].run = r
      BY <1>7, <2>1, <2>4, <3>1 DEF Failed, Resumes, StageOp
    <3>3. Outcome(call[u])
      BY <1>1, <2>2, <2>4, <3>2 DEF Hand
    <3>4. QED
      BY <1>7, <2>2, <3>1, <3>2, <3>3, <2>4 DEF Outcome, Sealed, Justified
  <2>5. ~Broadcast(s, "run_started") /\ ~Broadcast(s, "closed")
    BY <1>2, <1>3, <1>5
  <2>6. QED
    BY <1>7, <2>3, <2>4, <2>5 DEF LaneTells
<1>8. ASSUME NEW u \in Users, NEW s \in Runs, Forgets(u, s)
      PROVE  FALSE
  BY <1>8 DEF Forgets, Told
<1>9. ASSUME NEW t \in Threads, NEW s \in Runs, call[t].run = s, StopTells(t, s)
      PROVE  Justified(r, op)' /\ op \notin {"complete", "fail"} /\ Remembered
  <2>1. s = r /\ Hand(call[t])
    BY <1>1, <1>4, <1>5, <1>9 DEF StopTells, SettledInv
  <2>0. ASSUME NEW k \in TerminalKinds, emitTerminalOnce(s, k)
        PROVE  s \in terminalEvents'
    BY <2>0 DEF emitTerminalOnce, clientVars
  <2>2. CASE /\ CancelReturns(t) /\ call[t].pc = "done"
             /\ call[t].seen.state = "CANCELLED"
             /\ emitTerminalOnce(s, "run_cancelled")
    <3>1. op = "cancel"
      BY <1>4, <1>5, <1>6, <2>2 DEF Word, Settling
    <3>2. call[t].op = "cancel" /\ UNCHANGED runs
      BY <2>2 DEF CancelReturns
    <3>3. Outcome(call[t])
      BY <1>1, <1>9, <2>1, <2>2, <3>2 DEF Hand
    <3>4. QED
      BY <1>9, <2>1, <2>2, <3>1, <3>2, <3>3, <1>5, <2>0
         DEF Outcome, Sealed, Justified, Target
  <2>3. ASSUME Signal(t), NEW o \in {"cancel", "timeout"}, call[t].op = o,
               emitTerminalOnce(s, IF call[t].reason = "timeout"
                                     THEN "run_timed_out" ELSE "run_cancelled")
        PROVE  Justified(r, op)' /\ op \notin {"complete", "fail"} /\ Remembered
    <3>1. call[t].pc = "signal" /\ SignalStep(t)
      BY <2>3 DEF Signal, SignalStep
    <3>2. \/ o = "timeout" /\ call[t].reason = "timeout"
          \/ o = "cancel" /\ call[t].reason # "timeout"
          \/ o = "cancel" /\ call[t].reason = "timeout" /\ r \in Given'
      <4>1. Reasoned(call[t], Given) /\ Given \subseteq Given'
        BY CancelsKept DEF ReasonsTold
      <4>2. QED
        BY <1>9, <2>1, <2>3, <3>1, <4>1 DEF Reasoned
    <3>3. \/ o \in Settling /\ emitTerminalOnce(s, Word(o))
          \/ o = "cancel" /\ r \in Given' /\ emitTerminalOnce(s, Word("timeout"))
      BY <2>3, <3>2 DEF Word, Settling
    <3>4. \/ o = op
          \/ o = "cancel" /\ op = "timeout" /\ r \in Given'
      BY <1>4, <1>5, <1>6, <2>3, <3>3 DEF Word, Settling
    <3>5. call'[t].op = o /\ call'[t].run = r /\ call'[t].pc = "write"
      <4> DEFINE f == [call[t] EXCEPT !.pc = "write", !.seen = runs[r],
                                      !.reason = None]
      <4>1. call'[t] = f
        BY <1>1, <1>9, <2>1, <3>1 DEF SignalStep
      <4>2. call[t] \in Frame /\ runs[r] \in RunRecord
        BY <1>1, InMethod
      <4>3. Continues(call[t], f, "write", runs[r])
        BY <4>2, Resuming
      <4> HIDE DEF f
      <4>4. QED
        BY <1>9, <2>1, <2>3, <4>1, <4>3 DEF Continues
    <3>6. r \in terminalEvents'
      BY <2>0, <2>1, <2>3, <1>5
    <3>7. QED
      <4>1. Sealed(r, o)'
        BY <1>9, <2>3, <3>5 DEF Sealed, Writing
      <4>2. QED
        BY <1>9, <2>1, <2>3, <3>4, <3>6, <4>1 DEF Justified
  <2>4. QED
    BY <1>9, <2>2, <2>3 DEF StopTells
<1>10. ASSUME NEW s \in Runs, Broadcast(s, "run_queued")
       PROVE  FALSE
  BY <1>2, <1>3, <1>5, <1>10
<1>11. QED
  BY <1>1, <1>2, <1>7, <1>8, <1>9, <1>10, Tellings

LEMMA TruthStep ==
  ASSUME StoresSettleAtOnce, SettledServiceInv, ServiceTypes, TruthInv,
         [Next]_vars
  PROVE  TruthInv'
<1>1. ReasonsTold'
  BY ReasonsKept DEF TruthInv
<1>2. ASSUME NEW r \in Runs, NEW op \in Settling, Told(r, Word(op))'
      PROVE  Justified(r, op)'
  <2>1. CASE Told(r, Word(op))
    BY <2>1, JustHolds DEF TruthInv
  <2>2. CASE ~Told(r, Word(op))
    BY <1>2, <2>2, NewsIsTrue DEF TruthInv
  <2>3. QED
    BY <2>1, <2>2
<1>3. QED
  BY <1>1, <1>2 DEF TruthInv

LEMMA TruthAlways ==
  ASSUME StoresSettleAtOnce
  PROVE  Spec => []TruthInv
<1>1. Init => TruthInv
  <2> SUFFICES ASSUME Init  PROVE TruthInv
    OBVIOUS
  <2>1. /\ call = [t \in Threads |-> IdleFrame] /\ events = [r \in Runs |-> << >>]
    BY DEF Init, ManagerInit
  <2>2. ReasonsTold
    BY <2>1 DEF ReasonsTold, Reasoned, IdleFrame
  <2>3. \A r \in Runs : ToSet(events[r]) = {}
    BY <2>1 DEF ToSet
  <2>4. QED
    BY <2>2, <2>3 DEF TruthInv, Told
<1>2. /\ SettledServiceInv /\ ServiceInv /\ ServiceTypes /\ TruthInv
      /\ [Next]_vars
      => TruthInv'
  BY TruthStep
<1>3. QED
  BY <1>1, <1>2, ServiceInvariant, SettledService, PTL DEF Spec

\* Between callbacks the end a client was told of is the state the run is in,
\* although the abort listener speaks an await before the state is written
\* (run-execution.service.ts:216): only a client that gives "timeout" as its
\* reason is told of a timeout where there was none.
THEOREM AnnouncedEnds ==
  ASSUME StoresSettleAtOnce
  PROVE  Spec => []EndsAsAnnounced
<1>1. TruthInv => EndsAsAnnounced
  <2> SUFFICES ASSUME TruthInv, Settled, NEW r \in Runs
               PROVE  /\ Told(r, "run_completed") => runs[r].state = "COMPLETED"
                      /\ Told(r, "run_failed")    => runs[r].state = "FAILED"
                      /\ Told(r, "run_cancelled") => runs[r].state = "CANCELLED"
                      /\ Told(r, "run_timed_out") =>
                           \/ runs[r].state = "TIMED_OUT"
                           \/ /\ runs[r].state = "CANCELLED"
                              /\ "timeout" \in ToSet(cancels[r])
    BY DEF EndsAsAnnounced
  <2>1. ~Writing(r, "cancel") /\ ~Writing(r, "timeout")
    BY DEF Settled, Idle, Writing, IdleFrame
  <2>2. \A op \in Settling : Sealed(r, op) => runs[r].state = Target(op)
    BY <2>1 DEF Sealed
  <2>3. {"complete", "fail", "cancel", "timeout"} \subseteq Settling
    BY DEF Settling
  <2>4. \A op \in Settling : Told(r, Word(op)) => Justified(r, op)
    BY DEF TruthInv
  <2>5. /\ Told(r, "run_completed") => Justified(r, "complete")
        /\ Told(r, "run_failed")    => Justified(r, "fail")
        /\ Told(r, "run_cancelled") => Justified(r, "cancel")
        /\ Told(r, "run_timed_out") => Justified(r, "timeout")
    BY <2>3, <2>4 DEF Word
  <2>6. QED
    BY <2>2, <2>3, <2>5 DEF Justified, Target, Given
<1>2. QED
  BY <1>1, TruthAlways, PTL

-----------------------------------------------------------------------------
(* The story of a run, as its clients hear it.                               *)

\* Nothing has been told of a run whose createRun has not returned.
Fresh(r) == runs[r].state = "NONE" \/ Creating(r)

\* No processor has announced that it started the run.
Early(r) ==
  \/ runs[r].state \in {"QUEUED", "LEASED"}
  \/ /\ lane[UserOf[r]].at = "starting" /\ lane[UserOf[r]].run = r
     /\ runs[r].state = "RUNNING"

\* A story s of a run that was cancelled n times.
Story(s, n) ==
  \A i, j \in DOMAIN s :
    /\ s[i] = "run_queued" <=> i = 1
    /\ s[i] = "run_started" => i = 2
    /\ i < j /\ s[i] \in TerminalKinds /\ s[j] \in TerminalKinds
         => s[j] = "run_cancelled" /\ n > 1

\* How far the story of a run has got.
Begun(r) ==
  /\ Fresh(r) <=> events[r] = << >>
  /\ Early(r) => Len(events[r]) <= 1

\* No abort listener before the run is RUNNING.
ListenersLate ==
  \A r \in listening : runs[r].state \notin {"NONE", "QUEUED", "LEASED"}

\* A cancel request has had the end of r announced.
ByCancel(r) ==
  \/ Told(r, "run_cancelled")
  \/ Told(r, "run_timed_out") /\ ~Sealed(r, "timeout")

\* A processor concludes the run it serves only once, and the only cancel
\* request there has been finds remembered what it had announced.
Unconcluded ==
  /\ \A u \in Users, r \in Runs : lane[u].run = r =>
       ~Told(r, "run_completed") /\ ~Told(r, "run_failed")
  /\ \A r \in Runs : ByCancel(r) => Len(cancels[r]) >= 1
  /\ \A t \in Threads, r \in Runs : call[t].op = "cancel" /\ call[t].run = r =>
       /\ Len(cancels[r]) >= 1
       /\ Len(cancels[r]) = 1 /\ ByCancel(r) => r \in terminalEvents

StoryInv ==
  /\ ListenersLate /\ Unconcluded
  /\ \A r \in Runs : Begun(r) /\ Story(events[r], Len(cancels[r]))

\* What may be said next of a run that was cancelled n times.
Fits(s, k, n) ==
  /\ k = "run_queued" <=> s = << >>
  /\ k = "run_started" => Len(s) = 1
  /\ k \in TerminalKinds =>
       \/ ToSet(s) \cap TerminalKinds = {}
       \/ k = "run_cancelled" /\ n > 1

LEMMA StoryGoesOn ==
  ASSUME NEW s \in Seq(EventKinds), NEW c \in Nat, Story(s, c),
         NEW k \in EventKinds, Fits(s, k, c)
  PROVE  Story(Append(s, k), c)
<1> DEFINE a == Append(s, k)
           n == Len(s)
<1>1. /\ n \in Nat /\ DOMAIN s = 1..n /\ DOMAIN a = 1..(n + 1)
      /\ a[n + 1] = k /\ \A i \in 1..n : a[i] = s[i]
  BY SaysNext
<1>2. s = << >> <=> n = 0
  OBVIOUS
<1>3. \A i \in 1..n : s[i] \in ToSet(s)
  BY <1>1 DEF ToSet
<1> HIDE DEF a, n
<1>4. ASSUME NEW i \in 1..(n + 1)
      PROVE  /\ a[i] = "run_queued" <=> i = 1
             /\ a[i] = "run_started" => i = 2
  <2>1. CASE i \in 1..n
    BY <1>1, <2>1 DEF Story
  <2>2. CASE i = n + 1
    <3>1. (k = "run_queued" <=> n = 0) /\ (k = "run_started" => n = 1)
      BY <1>2 DEF Fits, n
    <3>2. QED
      BY <1>1, <2>2, <3>1
  <2>3. QED
    BY <1>1, <2>1, <2>2
<1>5. ASSUME NEW i \in 1..(n + 1), NEW j \in 1..(n + 1), i < j,
             a[i] \in TerminalKinds, a[j] \in TerminalKinds
      PROVE  a[j] = "run_cancelled" /\ c > 1
  <2>1. i \in 1..n /\ a[i] = s[i] /\ (j \in 1..n \/ j = n + 1)
    BY <1>1, <1>5
  <2>2. CASE j \in 1..n
    BY <1>1, <1>5, <2>1, <2>2 DEF Story
  <2>3. CASE j = n + 1
    <3>1. k \in TerminalKinds /\ s[i] \in ToSet(s) /\ s[i] \in TerminalKinds
      BY <1>1, <1>3, <1>5, <2>1, <2>3
    <3>2. k = "run_cancelled" /\ c > 1
      BY <3>1 DEF Fits
    <3>3. QED
      BY <1>1, <2>3, <3>2
  <2>4. QED
    BY <2>1, <2>2, <2>3
<1>6. Story(a, c)
  BY <1>1, <1>4, <1>5 DEF Story
<1>7. QED
  BY <1>6 DEF a

\* A story allows for more requests.
LEMMA StoryAges ==
  ASSUME NEW s \in Seq(EventKinds), NEW c \in Nat, NEW d \in Nat, d >= c,
         Story(s, c)
  PROVE  Story(s, d)
BY DEF Story

\* "closed" comes after anything but silence.
LEMMA ClosedFits ==
  ASSUME NEW s \in Seq(EventKinds), NEW k \in EventKinds, NEW c
  PROVE  Fits(Append(s, k), "closed", c)
<1>1. Len(Append(s, k)) = Len(s) + 1 /\ Len(s) \in Nat
  BY SaysNext
<1>2. Append(s, k) # << >>
  BY <1>1
<1>3. QED
  BY <1>2 DEF Fits, TerminalKinds

LEMMA OnlyCreating ==
  ASSUME SettledInv, CallersOK, NEW t \in Threads, call[t].pc # "idle",
         call[t].op # "create"
  PROVE  \A r \in Runs : ~Creating(r)
<1>1. \A s \in Threads \ {t} : call[s] = IdleFrame
  BY RestOfThem
<1>2. QED
  BY <1>1 DEF Creating, IdleFrame

\* What a processor says fits the story of its run.
LEMMA LaneFits ==
  ASSUME StoresSettleAtOnce, SettledServiceInv, TruthInv, StoryInv,
         NEW u \in Users, NEW r \in Runs, lane[u].run = r, LaneTells(u, r)
  PROVE  /\ ~Fresh(r)' /\ ~Early(r)'
         /\ Started(u) => Fits(events[r], "run_started", Len(cancels[r]))
         /\ ~Started(u) => Fits(events[r], "closed", Len(cancels[r]))
         /\ Completed(u) /\ r \notin terminalEvents =>
              Fits(events[r], "run_completed", Len(cancels[r]))
         /\ Failed(u) /\ r \notin terminalEvents =>
              Fits(events[r], "run_failed", Len(cancels[r]))
<1>1. /\ ServiceInv /\ SettledInv /\ LanesInv /\ CallersOK /\ ManagerInv
      /\ call \in [Threads -> Frame] /\ lane \in [Users -> Lane]
      /\ events[r] \in Seq(EventKinds) /\ u \in Threads /\ r # None
  BY Names, NoneAssumption DEF SettledServiceInv, ServiceInv, ManagerInv, CallersOK
<1>2. LaneStep(u) /\ UserOf[r] = u /\ runs[r].state \in Allowed(lane[u].at)
  BY <1>1 DEF LaneTells, LaneStep, ServiceInv, Served, LanesInv, LaneOK
<1>3. PICK l \in Lane : /\ lane' = [lane EXCEPT ![u] = l]
                        /\ call' = [call EXCEPT ![u] = First(u, l)]
                        /\ Moves(u, l)
  BY <1>1, <1>2, LaneMoves
<1>4. UNCHANGED runs /\ lane'[u] = l
  BY <1>1, <1>2, <1>3, LaneMoves
<1>5. /\ Hand(call[u]) /\ \A s \in Threads \ {u} : call[s] = IdleFrame
      /\ lane[u].at \notin {"off", "acquiring"} /\ call[u].op = StageOp(lane[u].at)
      /\ call[u].op \notin {"none", "acquire"} => call[u].run = r
  BY <1>1, <1>2, MoveAlone DEF CallersOK
<1>6. call[u].pc = "done"
  BY DEF LaneTells, Checked, Resumes
<1>7. call[u].run = r => Outcome(call[u])
  BY <1>1, <1>5, <1>6 DEF Hand
<1>8. ~Fresh(r) /\ ~Fresh(r)'
  <2>1. runs[r].state # "NONE"
    BY <1>2, NeverNone
  <2>2. First(u, l).op = StageOp(l.at)
    BY <1>1, <1>3, FirstHanded, MovesShape
  <2>3. ~Creating(r)
    <3>1. call[u].op # "create"
      BY <1>5 DEF StageOp
    <3>2. QED
      BY <1>1, <1>6, <3>1, OnlyCreating
  <2>4. ASSUME NEW s \in Threads
        PROVE  call'[s].op # "create"
    <3>1. call'[s] = IF s = u THEN First(u, l) ELSE IdleFrame
      BY <1>1, <1>3, <1>5
    <3>2. QED
      BY <2>2, <3>1 DEF StageOp, IdleFrame
  <2>5. QED
    BY <1>4, <2>1, <2>3, <2>4 DEF Fresh, Creating
<1>9. events[r] # << >>
  BY <1>8 DEF StoryInv, Begun
<1>10. CASE Started(u)
  <2>1. lane[u].at = "starting" /\ l.at = "loadingPack"
    <3>1. lane[u].at = "starting" /\ lane' = [lane EXCEPT ![u].at = "loadingPack"]
      BY <1>6, <1>10 DEF Started, Resumes, AwaitOutside
    <3>2. lane[u] \in Lane
      BY <1>1
    <3>3. l = [lane[u] EXCEPT !.at = "loadingPack"]
      BY <1>1, <1>4, <3>1
    <3>4. QED
      BY <3>1, <3>2, <3>3 DEF Lane
  <2>2. runs[r].state = "RUNNING"
    BY <1>5, <1>7, <2>1 DEF StageOp, Outcome, Target
  <2>3. ~Early(r)'
    BY <1>2, <1>4, <2>1, <2>2 DEF Early
  <2>4. Early(r)
    BY <1>2, <2>1, <2>2 DEF Early
  <2>5. Len(events[r]) = 1
    <3> DEFINE n == Len(events[r])
    <3>1. n \in Nat /\ n <= 1
      BY <1>1, <2>4 DEF StoryInv, Begun
    <3>2. \A s \in Seq(EventKinds) : Len(s) = 0 => s = << >>
      OBVIOUS
    <3>3. n # 0
      BY <1>1, <1>9, <3>2
    <3> HIDE DEF n
    <3>4. n = 1
      BY <3>1, <3>3
    <3>5. QED
      BY <3>4 DEF n
  <2>6. Fits(events[r], "run_started", Len(cancels[r]))
    BY <1>9, <2>5 DEF Fits, TerminalKinds
  <2>7. ~Completed(u) /\ ~Failed(u)
    BY <2>1 DEF Completed, Failed, Resumes
  <2>8. QED
    BY <1>8, <1>10, <2>3, <2>6, <2>7
<1>11. CASE ~Started(u)
  <2>1. Fits(events[r], "closed", Len(cancels[r]))
    BY <1>9 DEF Fits, TerminalKinds
  <2>2. isTerminalState(runs[r].state)
    <3>1. CASE Checked(u) /\ call[u].seen.state \in {"CANCELLED", "TIMED_OUT"}
      <4>1. call[u].op = "get"
        BY <1>5, <3>1 DEF Checked, Resumes, StageOp
      <4>2. QED
        BY <1>5, <1>7, <3>1, <4>1 DEF Outcome, isTerminalState
    <3>2. CASE Completed(u)
      <4>1. call[u].op = "complete"
        BY <1>5, <3>2 DEF Completed, Resumes, StageOp
      <4>2. QED
        BY <1>5, <1>7, <4>1 DEF Outcome, Target, isTerminalState
    <3>3. CASE Failed(u)
      <4>1. call[u].op = "fail"
        BY <1>5, <3>3 DEF Failed, Resumes, StageOp
      <4>2. QED
        BY <1>5, <1>7, <4>1 DEF Outcome, Target, isTerminalState
    <3>4. QED
      BY <1>11, <3>1, <3>2, <3>3 DEF LaneTells
  <2>3. ~Early(r)'
    BY <1>4, <2>2 DEF Early, isTerminalState
  <2>4. ASSUME Completed(u) \/ Failed(u)
        PROVE  ToSet(events[r]) \cap TerminalKinds = {}
    <3>1. runs[r].state \in {"COMPLETED", "FAILED"}
      <4>1. call[u].op \in {"complete", "fail"}
        BY <1>5, <2>4 DEF Completed, Failed, Resumes, StageOp
      <4>2. QED
        BY <1>5, <1>7, <4>1 DEF Outcome, Target
    <3>2. ~Told(r, "run_completed") /\ ~Told(r, "run_failed")
      BY DEF StoryInv, Unconcluded
    <3>3. ~Writing(r, "cancel") /\ ~Writing(r, "timeout")
      BY <1>5, <1>6 DEF Writing, IdleFrame
    <3>4. \A op \in {"cancel", "timeout"} : ~Told(r, Word(op))
      BY <3>1, <3>3 DEF TruthInv, Justified, Sealed, Target, Settling
    <3>5. ~Told(r, "run_cancelled") /\ ~Told(r, "run_timed_out")
      BY <3>4 DEF Word
    <3>6. QED
      BY <3>2, <3>5 DEF Told, TerminalKinds
  <2>5. QED
    BY <1>8, <1>9, <1>11, <2>1, <2>3, <2>4 DEF Fits
<1>12. QED
  BY <1>10, <1>11

\* What a cancel request or an abort listener says does as well.
LEMMA StopFits ==
  ASSUME StoresSettleAtOnce, SettledServiceInv, ServiceTypes, TruthInv, StoryInv,
         NEW t \in Threads, NEW r \in Runs, call[t].run = r, StopTells(t, r)
  PROVE  /\ ~Fresh(r)' /\ ~Early(r)'
         /\ r \notin terminalEvents =>
              \A k \in TerminalKinds :
                (CancelReturns(t) => k = "run_cancelled")
                  => Fits(events[r], k, Len(cancels[r]))
<1>1. /\ ServiceInv /\ SettledInv /\ CallersOK /\ ManagerInv
      /\ call \in [Threads -> Frame] /\ r # None
      /\ Hand(call[t])
  BY NoneAssumption
     DEF SettledServiceInv, ServiceInv, ManagerInv, SettledInv
<1>2. /\ call[t].op \in {"cancel", "timeout"} /\ call[t].pc \in {"done", "signal"}
      /\ UNCHANGED <<runs, lane>>
  BY DEF StopTells, CancelReturns, Signal, SignalStep
<1>3. \A s \in Threads \ {t} : call[s] = IdleFrame
  BY <1>1, <1>2, RestOfThem
<1>4. \/ CancelReturns(t) /\ call[t].op = "cancel" /\ runs[r].state = "CANCELLED"
      \/ Signal(t) /\ runs[r].state = "RUNNING"
  <2>1. CASE CancelReturns(t) /\ call[t].pc = "done" /\ call[t].seen.state = "CANCELLED"
    <3>1. call[t].op = "cancel"
      BY <2>1 DEF CancelReturns
    <3>2. Outcome(call[t])
      BY <1>1, <2>1, <3>1 DEF Hand
    <3>3. QED
      BY <2>1, <3>1, <3>2 DEF Outcome
  <2>2. CASE Signal(t) /\ r \in listening
    <3>1. Stopping(call[t])
      BY <1>1, <2>2 DEF Signal, SignalStep, Hand
    <3>2. runs[r].state \notin {"NONE", "QUEUED", "LEASED"}
      BY <2>2 DEF StoryInv, ListenersLate
    <3>3. QED
      BY <1>2, <2>2, <3>1, <3>2 DEF Stopping
  <2>3. QED
    BY <2>1, <2>2 DEF StopTells
<1>5. ~Fresh(r) /\ ~Fresh(r)'
  <2>1. ~Creating(r)
    BY <1>1, <1>2, OnlyCreating
  <2>2. ASSUME NEW s \in Threads
        PROVE  call'[s].op # "create"
    <3>1. call'[s] = call[s] \/ call'[s] = IdleFrame \/ call'[s].op = call[s].op
      <4>1. CASE CancelReturns(t)
        BY <1>1, <4>1 DEF CancelReturns
      <4>2. CASE Signal(t)
        BY <1>1, <4>2, OfOneMethod DEF Signal
      <4>3. QED
        BY <1>4, <4>1, <4>2
    <3>2. call[s].op # "create"
      BY <1>2, <1>3 DEF IdleFrame
    <3>3. QED
      BY <3>1, <3>2 DEF IdleFrame
  <2>3. QED
    BY <1>2, <1>4, <2>1, <2>2 DEF Fresh, Creating
<1>6. ~Early(r)'
  <2>1. PICK u \in Users : u = UserOf[r]
    BY ManagerAssumption
  <2>2. lane[u].at # "starting"
    <3>1. call[u].op = StageOp(lane[u].at) /\ u \in Threads
      BY <1>1, Names DEF CallersOK
    <3>2. call[u].op # "start"
      BY <1>2, <1>3, <3>1 DEF IdleFrame
    <3>3. QED
      BY <3>1, <3>2 DEF StageOp
  <2>3. QED
    BY <1>2, <1>4, <2>1, <2>2 DEF Early
<1>7. ASSUME r \notin terminalEvents
      PROVE  \/ ToSet(events[r]) \cap TerminalKinds = {}
             \/ CancelReturns(t) /\ ~Signal(t) /\ Len(cancels[r]) > 1
  <2>1. ~Writing(r, "cancel") /\ ~Writing(r, "timeout")
    BY <1>2, <1>3 DEF Writing, IdleFrame
  <2>2. \A op \in Settling : Sealed(r, op) => runs[r].state = Target(op)
    BY <2>1 DEF Sealed
  <2>3. {"complete", "fail", "cancel", "timeout"} \subseteq Settling
    BY DEF Settling
  <2>4. /\ Told(r, "run_completed") => Justified(r, "complete")
        /\ Told(r, "run_failed")    => Justified(r, "fail")
        /\ Told(r, "run_cancelled") => Justified(r, "cancel")
        /\ Told(r, "run_timed_out") => Justified(r, "timeout")
    BY <2>3 DEF TruthInv, Word
  <2>5. /\ Told(r, "run_completed") => runs[r].state = "COMPLETED"
        /\ Told(r, "run_failed")    => runs[r].state = "FAILED"
        /\ Told(r, "run_cancelled") => runs[r].state = "CANCELLED"
        /\ Told(r, "run_timed_out") => runs[r].state \in {"TIMED_OUT", "CANCELLED"}
    BY <2>2, <2>3, <2>4 DEF Justified, Target
  <2>6. CASE Signal(t) /\ runs[r].state = "RUNNING"
    BY <2>5, <2>6 DEF Told, TerminalKinds
  <2>7. CASE CancelReturns(t) /\ call[t].op = "cancel" /\ runs[r].state = "CANCELLED"
    <3>1. ~Signal(t)
      BY <2>7 DEF CancelReturns, Signal, SignalStep
    <3>2. ~Sealed(r, "timeout")
      BY <2>2, <2>3, <2>7 DEF Target
    <3>3. /\ Len(cancels[r]) >= 1
          /\ ~(Len(cancels[r]) = 1 /\ ByCancel(r))
      BY <1>7, <2>7 DEF StoryInv, Unconcluded
    <3>4. CASE ByCancel(r)
      <4>1. Len(cancels[r]) \in Nat
        BY DEF ServiceTypes
      <4>2. \A n \in Nat : n >= 1 /\ n # 1 => n > 1
        OBVIOUS
      <4>3. Len(cancels[r]) > 1
        BY <3>3, <3>4, <4>1, <4>2
      <4>4. QED
        BY <2>7, <3>1, <4>3
    <3>5. CASE ~ByCancel(r)
      BY <2>5, <2>7, <3>2, <3>5 DEF ByCancel, Told, TerminalKinds
    <3>6. QED
      BY <3>4, <3>5
  <2>8. QED
    BY <1>4, <2>6, <2>7
<1>8. events[r] # << >>
  BY <1>5 DEF StoryInv, Begun
<1>9. QED
  BY <1>5, <1>6, <1>7, <1>8 DEF Fits, TerminalKinds

\* A word spoken of r is the next of its story, and r is no longer fresh.
Apt(r, k) ==
  /\ Fits(events[r], k, Len(cancels[r]))
  /\ ~Fresh(r)' /\ (Early(r)' => k = "run_queued")

LEMMA NextWord ==
  ASSUME StoresSettleAtOnce, SettledServiceInv, ServiceTypes, TruthInv,
         StoryInv, [Next]_vars
  PROVE  \/ UNCHANGED events
         \/ \E r \in Runs, k \in EventKinds : Broadcast(r, k) /\ Apt(r, k)
         \/ \E r \in Runs, k \in TerminalKinds : Ends(r, k) /\ Apt(r, k)
<1>1. /\ ServiceInv /\ SettledInv /\ CallersOK /\ ManagerInv
      /\ call \in [Threads -> Frame] /\ events \in [Runs -> Seq(EventKinds)]
  BY DEF SettledServiceInv, ServiceInv, ManagerInv
<1>2. /\ {"run_completed", "run_failed", "run_cancelled", "run_timed_out"}
           \subseteq TerminalKinds
      /\ TerminalKinds \subseteq EventKinds
      /\ {"run_queued", "run_started", "closed"} \subseteq EventKinds
  BY DEF TerminalKinds, EventKinds
<1>3. \A r \in Runs, k \in EventKinds :
        ~Fresh(r)' /\ ~Early(r)' /\ Fits(events[r], k, Len(cancels[r]))
          => Apt(r, k)
  BY DEF Apt
<1>4. ASSUME NEW u \in Users, NEW r \in Runs, lane[u].run = r, LaneTells(u, r)
      PROVE  \/ \E k \in EventKinds : Broadcast(r, k) /\ Apt(r, k)
             \/ \E k \in TerminalKinds : Ends(r, k) /\ Apt(r, k)
  <2>1. CASE Started(u) /\ Broadcast(r, "run_started")
    BY <1>2, <1>3, <1>4, <2>1, LaneFits
  <2>2. ASSUME ~Started(u)
        PROVE  Apt(r, "closed")
    BY <1>2, <1>3, <1>4, <2>2, LaneFits
  <2>3. CASE Checked(u) /\ Broadcast(r, "closed")
    <3>1. ~Started(u)
      BY <2>3 DEF Checked, Started, Resumes
    <3>2. QED
      BY <1>2, <2>2, <2>3, <3>1
  <2>4. CASE Completed(u) /\ Conclude(r, "run_completed")
    <3>1. ~Started(u)
      BY <2>4 DEF Completed, Started, Resumes
    <3>2. \/ Broadcast(r, "closed")
          \/ r \notin terminalEvents /\ Ends(r, "run_completed")
      BY <1>1, <1>2, <2>4, Telling
    <3>3. r \notin terminalEvents => Apt(r, "run_completed")
      BY <1>2, <1>3, <1>4, <2>4, LaneFits
    <3>4. QED
      BY <1>2, <2>2, <3>1, <3>2, <3>3
  <2>5. CASE Failed(u) /\ Conclude(r, "run_failed")
    <3>1. ~Started(u)
      BY <2>5 DEF Failed, Started, Resumes
    <3>2. \/ Broadcast(r, "closed")
          \/ r \notin terminalEvents /\ Ends(r, "run_failed")
      BY <1>1, <1>2, <2>5, Telling
    <3>3. r \notin terminalEvents => Apt(r, "run_failed")
      BY <1>2, <1>3, <1>4, <2>5, LaneFits
    <3>4. QED
      BY <1>2, <2>2, <3>1, <3>2, <3>3
  <2>6. QED
    BY <1>4, <2>1, <2>3, <2>4, <2>5 DEF LaneTells
<1>5. ASSUME NEW t \in Threads, NEW r \in Runs, call[t].run = r, StopTells(t, r)
      PROVE  \/ UNCHANGED events
             \/ \E k \in EventKinds : Broadcast(r, k) /\ Apt(r, k)
  <2>1. PICK k \in TerminalKinds :
          emitTerminalOnce(r, k) /\ (CancelReturns(t) => k = "run_cancelled")
    <3>1. Signal(t) => ~CancelReturns(t)
      BY DEF Signal, SignalStep, CancelReturns
    <3>2. QED
      BY <1>2, <1>5, <3>1 DEF StopTells
  <2>2. \/ UNCHANGED events
        \/ r \notin terminalEvents /\ Broadcast(r, k)
    BY <1>1, <2>1, Telling DEF clientVars
  <2>3. r \notin terminalEvents => Apt(r, k)
    <3>1. /\ ~Fresh(r)' /\ ~Early(r)'
          /\ r \notin terminalEvents => Fits(events[r], k, Len(cancels[r]))
      BY <1>5, <2>1, StopFits
    <3>2. QED
      BY <1>2, <1>3, <3>1
  <2>4. QED
    BY <1>2, <2>2, <2>3
<1>6. ASSUME NEW q \in Requests, NEW r \in Runs, RunCreated(q), call[q].run = r
      PROVE  Apt(r, "run_queued")
  <2>1. q \in Threads /\ call[q].op = "create" /\ call[q].pc = "done" /\ r # None
        /\ UNCHANGED runs
    BY <1>6, Names, NoneAssumption DEF RunCreated
  <2>2. events[r] = << >>
    BY <1>6, <2>1 DEF StoryInv, Begun, Fresh, Creating
  <2>3. runs[r].state = "QUEUED"
    <3>1. Hand(call[q])
      BY <1>1, <2>1 DEF SettledInv
    <3>2. QED
      BY <1>6, <2>1, <3>1 DEF Hand, Outcome
  <2>4. \A s \in Threads \ {q} : call[s] = IdleFrame
    BY <1>1, <2>1, RestOfThem
  <2>5. PICK u \in Users : u = UserOf[r]
    BY ManagerAssumption
  <2>6. \A s \in Threads : call'[s] = IdleFrame \/ call'[s] = AcquireFrame(u)
    BY <1>1, <1>6, <2>4, <2>5 DEF RunCreated
  <2>7. IdleFrame.op # "create" /\ AcquireFrame(u).op # "create"
    BY DEF IdleFrame, AcquireFrame
  <2>8. ~Creating(r)'
    BY <2>6, <2>7 DEF Creating
  <2>9. QED
    BY <2>1, <2>2, <2>3, <2>8 DEF Apt, Fits, Fresh, TerminalKinds
<1>7. CASE UNCHANGED clientVars
  BY <1>7 DEF clientVars
<1>8. CASE \E q \in Requests, r \in Runs :
             RunCreated(q) /\ call[q].run = r /\ Broadcast(r, "run_queued")
  BY <1>2, <1>6, <1>8
<1>9. ASSUME NEW u \in Users, NEW r \in Runs, Forgets(u, r)
      PROVE  UNCHANGED events
  BY <1>9 DEF Forgets
<1>10. QED
  BY <1>1, <1>4, <1>5, <1>7, <1>8, <1>9, Tellings

\* So every story goes on as it should.
LEMMA StoriesGoOn ==
  ASSUME StoresSettleAtOnce, SettledServiceInv, ServiceTypes, TruthInv,
         StoryInv, [Next]_vars, NEW r \in Runs
  PROVE  /\ Story(events'[r], Len(cancels[r]))
         /\ events'[r] # events[r] =>
              /\ ~Fresh(r)' /\ events'[r] # << >>
              /\ Early(r)' => Len(events'[r]) <= 1
<1>1. /\ events \in [Runs -> Seq(EventKinds)] /\ events[r] \in Seq(EventKinds)
      /\ Story(events[r], Len(cancels[r])) /\ Len(cancels[r]) \in Nat
  BY DEF SettledServiceInv, ServiceInv, StoryInv, ServiceTypes
<1>2. "closed" \in EventKinds /\ TerminalKinds \subseteq EventKinds
  BY DEF EventKinds
<1>3. ASSUME NEW k \in EventKinds
      PROVE  /\ Append(events[r], k) \in Seq(EventKinds)
             /\ Append(events[r], k) # << >>
             /\ Append(Append(events[r], k), "closed") # << >>
             /\ Len(events[r]) = 0 => Len(Append(events[r], k)) = 1
  <2>1. ASSUME NEW s \in Seq(EventKinds), NEW j \in EventKinds
        PROVE  /\ Append(s, j) \in Seq(EventKinds) /\ Append(s, j) # << >>
               /\ Len(Append(s, j)) = Len(s) + 1
    <3>1. /\ Append(s, j) \in Seq(EventKinds)
          /\ Len(Append(s, j)) = Len(s) + 1 /\ Len(s) \in Nat
      BY SaysNext
    <3>2. Append(s, j) # << >>
      BY <3>1
    <3>3. QED
      BY <3>1, <3>2
  <2>2. QED
    BY <1>1, <1>2, <2>1
<1>4. CASE events'[r] = events[r]
  BY <1>1, <1>4
<1>5. ASSUME NEW x \in Runs, NEW k \in EventKinds, Broadcast(x, k), Apt(x, k),
             events'[r] # events[r]
      PROVE  /\ Story(events'[r], Len(cancels[r])) /\ ~Fresh(r)' /\ events'[r] # << >>
             /\ Early(r)' => Len(events'[r]) <= 1
  <2>1. x = r /\ events'[r] = Append(events[r], k)
    BY <1>1, <1>5 DEF Broadcast
  <2>2. Story(Append(events[r], k), Len(cancels[r]))
    BY <1>1, <1>5, <2>1, StoryGoesOn DEF Apt
  <2>3. Early(r)' => Len(Append(events[r], k)) = 1
    <3>1. Early(r)' => events[r] = << >>
      BY <1>5, <2>1 DEF Apt, Fits
    <3>2. QED
      BY <1>3, <3>1
  <2>4. QED
    BY <1>3, <1>5, <2>1, <2>2, <2>3 DEF Apt
<1>6. ASSUME NEW x \in Runs, NEW k \in TerminalKinds, Ends(x, k), Apt(x, k),
             events'[r] # events[r]
      PROVE  /\ Story(events'[r], Len(cancels[r])) /\ ~Fresh(r)' /\ events'[r] # << >>
             /\ ~Early(r)'
  <2>1. x = r /\ events'[r] = Append(Append(events[r], k), "closed")
    BY <1>1, <1>6 DEF Ends
  <2>2. k \in EventKinds /\ k # "run_queued"
    BY <1>2 DEF TerminalKinds
  <2>3. Story(Append(events[r], k), Len(cancels[r])) /\ Append(events[r], k) \in Seq(EventKinds)
    BY <1>1, <1>3, <1>6, <2>1, <2>2, StoryGoesOn DEF Apt
  <2>4. Story(Append(Append(events[r], k), "closed"), Len(cancels[r]))
    <3>1. Fits(Append(events[r], k), "closed", Len(cancels[r]))
      BY <1>1, <2>2, ClosedFits
    <3>2. QED
      BY <1>1, <1>2, <2>3, <3>1, StoryGoesOn
  <2>5. QED
    BY <1>3, <1>6, <2>1, <2>2, <2>4 DEF Apt
<1>7. QED
  BY <1>4, <1>5, <1>6, NextWord

-----------------------------------------------------------------------------
(* How far a story has got.                                                  *)

\* A run leaves its createRun only when it is announced.
LEMMA FreshStep ==
  ASSUME SettledServiceInv, [Next]_vars, NEW r \in Runs
  PROVE  \/ Fresh(r)' <=> Fresh(r)
         \/ \E q \in Requests : RunCreated(q) /\ call[q].run = r
<1>1. /\ ServiceInv /\ LanesInv /\ CallersOK /\ ManagerInv /\ Forward
      /\ call \in [Threads -> Frame]
  BY ServiceKept DEF SettledServiceInv, ServiceInv, ManagerInv
<1> SUFFICES ASSUME \A q \in Requests : RunCreated(q) => call[q].run # r
             PROVE  Fresh(r)' <=> Fresh(r)
  OBVIOUS
<1>2. CASE \E u \in Users : LaneStep(u) \/ OutsideAnswers(u)
  <2>1. PICK u \in Users : LaneStep(u) \/ OutsideAnswers(u)
    BY <1>2
  <2>2. PICK l \in Lane : /\ call' = [call EXCEPT ![u] = First(u, l)]
                          /\ Moves(u, l)
    BY <1>1, <2>1, LaneMoves
  <2>3. First(u, l).op = StageOp(l.at) /\ UNCHANGED runs
    BY <1>1, <2>1, <2>2, FirstHanded, MovesShape, LaneMoves
  <2>4. call[u].op # "create" /\ call'[u].op # "create" /\ u \in Threads
    BY <1>1, <2>2, <2>3, Names DEF CallersOK, StageOp
  <2>5. \A s \in Threads \ {u} : call'[s] = call[s]
    BY <1>1, <2>2
  <2>6. QED
    BY <2>3, <2>4, <2>5 DEF Fresh, Creating
<1>3. CASE \E q \in Requests : RunCreated(q)
  <2>1. PICK q \in Requests : RunCreated(q)
    BY <1>3
  <2>2. call[q].run \in Runs /\ call[q].run # r /\ UNCHANGED runs /\ q \in Threads
    BY <1>1, <2>1, Names DEF RunCreated, CallersOK
  <2>3. PICK u \in Users : u = UserOf[call[q].run]
    BY <2>2, ManagerAssumption
  <2>4. ASSUME NEW s \in Threads
        PROVE  call'[s].op = "create" /\ call'[s].run = r <=>
                 call[s].op = "create" /\ call[s].run = r
    <3>1. \/ call'[s] = call[s]
          \/ s = q /\ call'[s] = IdleFrame
          \/ s = u /\ call'[s] = AcquireFrame(u)
      BY <1>1, <2>1, <2>3 DEF RunCreated
    <3>2. IdleFrame.op # "create" /\ AcquireFrame(u).op # "create"
      BY DEF IdleFrame, AcquireFrame
    <3>3. call[u].op # "create"
      BY <1>1 DEF CallersOK, StageOp
    <3>4. QED
      BY <2>2, <3>1, <3>2, <3>3
  <2>5. QED
    BY <2>2, <2>4 DEF Fresh, Creating
<1>4. CASE /\ \A u \in Users : ~LaneStep(u) /\ ~OutsideAnswers(u)
           /\ \A q \in Requests : ~RunCreated(q)
  <2>1. CASE \E t \in Threads : PlainStep(t) \/ SignalStep(t)
    <3>1. PICK t \in Threads : PlainStep(t) \/ SignalStep(t)
      BY <2>1
    <3>2. ASSUME NEW s \in Threads
          PROVE  call'[s].op = "create" /\ call'[s].run = r <=>
                   call[s].op = "create" /\ call[s].run = r
      <4>1. /\ call'[s].op = call[s].op
            /\ \/ call'[s].run = call[s].run
               \/ s = t /\ call[t].pc = "lease"
        BY <1>1, <3>1, SameMethod
      <4>2. call[s].pc = "lease" => call[s].op # "create"
        BY <1>1 DEF CallersOK, Pcs
      <4>3. QED
        BY <4>1, <4>2
    <3>3. runs'[r].state = "NONE" <=> runs[r].state = "NONE"
      <4>1. runs[r].state = "NONE" => runs'[r].state = runs[r].state
        <5>1. SettledInv
          BY DEF SettledServiceInv
        <5>2. ASSUME runs'[r].state # runs[r].state
              PROVE  runs[r].state # "NONE"
          <6>1. \/ runs[r].state = "QUEUED"
                \/ /\ call[t].run = r /\ call[t].pc = "write" /\ Hand(call[t])
            BY <1>1, <3>1, <5>1, <5>2, StateStep DEF SettledInv
          <6>2. QED
            BY <6>1, NoneAssumption DEF Hand
        <5>3. QED
          BY <5>2
      <4>2. QED
        BY <1>1, <4>1 DEF Forward
    <3>4. QED
      BY <3>2, <3>3 DEF Fresh, Creating
  <2>2. CASE \E t \in Requests, s \in Runs : MayBegin /\ BeginCreate(t, s)
    <3>1. PICK t \in Requests, s \in Runs : BeginCreate(t, s)
      BY <2>2
    <3>2. /\ runs[s] = NoRun /\ \A x \in Runs \ {s} : runs'[x] = runs[x]
          /\ call[t] = IdleFrame /\ t \in Threads
      BY <1>1, <3>1, Names, InMethod DEF BeginCreate, Begin, Idle
    <3> DEFINE g == [IdleFrame EXCEPT !.op = "create", !.pc = "enqueue", !.run = s]
    <3>3. call' = [call EXCEPT ![t] = g]
      BY <3>1 DEF BeginCreate, Begin
    <3>4. g.op = "create" /\ g.run = s /\ IdleFrame.op # "create"
      BY DEF IdleFrame
    <3> HIDE DEF g
    <3>5. call'[t] = g /\ \A x \in Threads \ {t} : call'[x] = call[x]
      BY <1>1, <3>2, <3>3
    <3>6. CASE s = r
      <4>1. Creating(r)'
        BY <3>2, <3>4, <3>5, <3>6 DEF Creating
      <4>2. runs[r].state = "NONE"
        BY <3>2, <3>6 DEF NoRun
      <4>3. QED
        BY <4>1, <4>2 DEF Fresh
    <3>7. CASE s # r
      <4>1. Creating(r)' <=> Creating(r)
        BY <3>2, <3>4, <3>5, <3>7 DEF Creating
      <4>2. QED
        BY <3>2, <3>7, <4>1 DEF Fresh
    <3>8. QED
      BY <3>6, <3>7
  <2>3. CASE UNCHANGED runs /\ (Creating(r)' <=> Creating(r))
    BY <2>3 DEF Fresh
  <2>4. QED
    BY <1>1, <1>4, <2>1, <2>2, <2>3, AsManager
<1>5. QED
  BY <1>2, <1>3, <1>4

\* A run that is about to be started was so before, or is new.
LEMMA EarlyStep ==
  ASSUME StoresSettleAtOnce, SettledServiceInv, [Next]_vars, NEW r \in Runs,
         Early(r)'
  PROVE  Early(r) \/ Fresh(r)
<1>1. /\ ServiceInv /\ SettledInv /\ LanesInv /\ CallersOK /\ ManagerInv
      /\ lane \in [Users -> Lane] /\ r # None
  BY NoneAssumption DEF SettledServiceInv, ServiceInv, ManagerInv, CallersOK
<1>2. PICK v \in Users : v = UserOf[r]
  BY ManagerAssumption
<1>3. CASE \E u \in Users : LaneStep(u) \/ OutsideAnswers(u)
  <2>1. PICK u \in Users : LaneStep(u) \/ OutsideAnswers(u)
    BY <1>3
  <2>2. PICK l \in Lane : lane' = [lane EXCEPT ![u] = l]
    BY <1>1, <2>1, LaneMoves DEF ServiceInv, ManagerInv
  <2>3. UNCHANGED runs
    BY <1>1, <2>1, LaneMoves DEF ServiceInv, ManagerInv
  <2>4. ASSUME l.at = "starting", l.run = r
        PROVE  runs[r].state # "RUNNING"
    <3>1. Hand(call[u])
      BY <1>1, <2>1, MoveAlone
    <3>2. Suits(l)
      BY <1>1, <2>1, <2>2, <2>4, <3>1, LaneSuits
    <3>3. QED
      BY <2>4, <3>2 DEF Suits
  <2>5. lane'[v] = IF v = u THEN l ELSE lane[v]
    BY <1>1, <2>2
  <2>6. QED
    BY <1>2, <2>3, <2>4, <2>5 DEF Early
<1>4. CASE \E q \in Requests : RunCreated(q)
  <2>1. UNCHANGED runs
    BY <1>4 DEF RunCreated
  <2>2. lane'[v] = lane[v] \/ lane'[v].at = "acquiring"
    <3>1. PICK q \in Requests : RunCreated(q)
      BY <1>4
    <3>2. \A u \in Users : lane'[u] = lane[u] \/ lane'[u].at = "acquiring"
      BY <1>1, <3>1 DEF RunCreated, Lane
    <3>3. QED
      BY <3>2
  <2>3. QED
    BY <1>2, <2>1, <2>2 DEF Early
<1>5. CASE /\ \A u \in Users : ~LaneStep(u) /\ ~OutsideAnswers(u)
           /\ \A q \in Requests : ~RunCreated(q)
  <2>1. UNCHANGED lane
    BY <1>1, <1>5, AsManager
  <2>2. CASE runs'[r].state = runs[r].state
    BY <2>1, <2>2 DEF Early
  <2>3. CASE runs'[r].state # runs[r].state
    <3>1. \/ runs[r] = NoRun
          \/ isValidStateTransition(runs[r].state, runs'[r].state)
      BY <2>3, StateFollows
    <3>2. runs'[r].state \in {"QUEUED", "LEASED", "RUNNING"}
      BY DEF Early
    <3>3. runs[r].state \in RunState \cup {"NONE"}
      BY <1>1, InMethod DEF RunRecord, ManagerInv, RunsOK
    <3>4. runs[r].state \in {"NONE", "QUEUED", "LEASED"}
      BY <3>1, <3>2, <3>3
         DEF isValidStateTransition, VALID_STATE_TRANSITIONS, NoRun, RunState
    <3>5. QED
      BY <3>4 DEF Early, Fresh
  <2>4. QED
    BY <2>2, <2>3
<1>6. QED
  BY <1>3, <1>4, <1>5

\* A state that has been left does not come back.
LEMMA NoReturn ==
  ASSUME SettledServiceInv, [Next]_vars, NEW r \in Runs,
         runs[r].state \notin {"NONE", "QUEUED", "LEASED"}
  PROVE  runs'[r].state \notin {"NONE", "QUEUED", "LEASED"}
<1>1. runs[r].state \in RunState
  BY InMethod DEF RunRecord, SettledServiceInv, ServiceInv, ManagerInv, RunsOK
<1>2. runs'[r].state # runs[r].state =>
        isValidStateTransition(runs[r].state, runs'[r].state)
  BY StateFollows DEF NoRun
<1>3. QED
  BY <1>1, <1>2 DEF isValidStateTransition, VALID_STATE_TRANSITIONS, RunState

\* An abort listener comes after the run is RUNNING.
LEMMA ListenersStep ==
  ASSUME SettledServiceInv, ServiceTypes, ListenersLate, [Next]_vars
  PROVE  ListenersLate'
<1>1. /\ ServiceInv /\ LanesInv /\ CallersOK /\ ManagerInv
      /\ lane \in [Users -> Lane] /\ listening \subseteq Runs
  BY DEF SettledServiceInv, ServiceInv, CallersOK, ServiceTypes
<1>2. \A r \in listening : runs'[r].state \notin {"NONE", "QUEUED", "LEASED"}
  BY <1>1, NoReturn DEF ListenersLate
<1>3. UNCHANGED listening \/ \E u \in Users : PackLoaded(u)
  BY DEF Next, RequestCreate, RequestCancel, RequestStep, RunCreated,
         CancelReturns, LaneStep, Acquired, Started, Checked, Completed, Caught,
         Failed, OutsideAnswers, Provisioned, AgentSettles, Clock, ManagerStep,
         Signal, Timer, AllServed, execVars, vars
<1>4. ASSUME NEW u \in Users, PackLoaded(u), NEW r \in listening', r \notin listening
      PROVE  runs'[r].state \notin {"NONE", "QUEUED", "LEASED"}
  <2>1. r = lane[u].run /\ lane[u].at = "loadingPack" /\ UNCHANGED runs
    BY <1>4 DEF PackLoaded
  <2>2. r \in Runs
    BY <1>1, <2>1 DEF CallersOK, Lane
  <2>3. runs[r].state \in Allowed("loadingPack")
    BY <1>1, <2>1, <2>2 DEF LanesInv, LaneOK
  <2>4. QED
    BY <2>1, <2>3 DEF Allowed
<1>5. QED
  BY <1>2, <1>3, <1>4 DEF ListenersLate

\* Whose request a cancelRun under way is.
LEMMA CancelCalls ==
  ASSUME SettledServiceInv, [Next]_vars, NEW t \in Threads, NEW r \in Runs,
         call'[t].op = "cancel", call'[t].run = r
  PROVE  \/ call[t].op = "cancel" /\ call[t].run = r
         \/ t \in Requests /\ \E reason \in ClientReasons : RequestCancel(t, r, reason)
<1>1. /\ CallersOK /\ ManagerInv /\ call \in [Threads -> Frame]
  BY DEF SettledServiceInv, ServiceInv, ManagerInv
<1> DEFINE Old == call[t].op = "cancel" /\ call[t].run = r
<1>2. IdleFrame.op # "cancel" /\ \A u \in Users : AcquireFrame(u).op # "cancel"
  BY DEF IdleFrame, AcquireFrame
<1>3. call'[t] = call[t] => Old
  OBVIOUS
<1>4. ASSUME NEW s \in Threads, NEW f, f.op # "cancel",
             call' = [call EXCEPT ![s] = f]
      PROVE  Old
  BY <1>1, <1>4
<1>5. ASSUME NEW u \in Users, LaneStep(u) \/ OutsideAnswers(u)
      PROVE  Old
  <2>1. PICK l \in Lane : /\ call' = [call EXCEPT ![u] = First(u, l)]
                          /\ Moves(u, l)
    BY <1>1, <1>5, LaneMoves
  <2>2. First(u, l).op # "cancel"
    BY <1>1, <2>1, FirstHanded, MovesShape DEF StageOp
  <2>3. QED
    BY <1>4, <2>1, <2>2, Names
<1>6. ASSUME NEW q \in Requests, RunCreated(q)
      PROVE  Old
  <2>1. call[q].run \in Runs
    BY <1>1, <1>6, Names DEF RunCreated, CallersOK
  <2>2. PICK u \in Users : u = UserOf[call[q].run]
    BY <2>1, ManagerAssumption
  <2>3. call'[t] = call[t] \/ call'[t] = IdleFrame \/ call'[t] = AcquireFrame(u)
    BY <1>1, <1>6, <2>2 DEF RunCreated
  <2>4. QED
    BY <1>2, <1>3, <2>3
<1>7. ASSUME NEW q \in Requests, CancelReturns(q)
      PROVE  Old
  BY <1>2, <1>4, <1>7, Names DEF CancelReturns
<1>8. ASSUME NEW q \in Requests, NEW s \in Runs, RequestCreate(q, s)
      PROVE  Old
  <2> DEFINE g == [IdleFrame EXCEPT !.op = "create", !.pc = "enqueue", !.run = s]
  <2>1. call' = [call EXCEPT ![q] = g] /\ g.op # "cancel"
    BY <1>8 DEF RequestCreate, BeginCreate, Begin, IdleFrame
  <2> HIDE DEF g
  <2>2. QED
    BY <1>4, <2>1, Names
<1>9. ASSUME NEW q \in Requests, NEW s \in Runs, NEW reason \in ClientReasons,
             RequestCancel(q, s, reason)
      PROVE  Old \/ (t = q /\ s = r)
  <2>1. call' = [call EXCEPT ![q] = SettleFrame("cancel", s, reason)]
    BY <1>9 DEF RequestCancel, Begin
  <2>2. SettleFrame("cancel", s, reason).run = s
    BY SettleFields
  <2>3. QED
    BY <1>1, <2>1, <2>2
<1>10. ASSUME NEW s \in Runs, Timer(s)
       PROVE  Old
  <2>1. PICK f : /\ call' = [call EXCEPT ![s] = f]
                 /\ f = IdleFrame \/ f = SettleFrame("timeout", s, "timeout")
    BY <1>10 DEF Timer, TimerFires, TimerReturns, Begin
  <2>2. f.op # "cancel"
    BY <1>2, <2>1, SettleFields
  <2>3. QED
    BY <1>4, <2>1, <2>2, Names
<1>11. ASSUME NEW s \in Threads, ManagerStep(s)
       PROVE  Old
  <2>1. PlainStep(s) \/ SignalStep(s)
    BY <1>11 DEF ManagerStep, Signal
  <2>2. /\ call'[t].op = call[t].op
        /\ \/ call'[t].run = call[t].run
           \/ t = s /\ call[t].pc = "lease"
    BY <1>1, <2>1, SameMethod
  <2>3. call[t].pc = "lease" => call[t].op # "cancel"
    BY <1>1 DEF CallersOK, Pcs
  <2>4. QED
    BY <2>2, <2>3
<1>12. (\E u \in Users : Clock(u)) \/ AllServed \/ UNCHANGED vars => UNCHANGED call
  BY DEF Clock, LeaseExpires, AllServed, vars, managerVars
<1>13. QED
  BY <1>3, <1>5, <1>6, <1>7, <1>8, <1>9, <1>10, <1>11, <1>12
     DEF Next, RequestStep

\* Only a processor forgets that the end of a run was announced.
LEMMA Remembering ==
  ASSUME [Next]_vars, \A u \in Users : ~LaneStep(u)
  PROVE  terminalEvents \subseteq terminalEvents'
<1>0. ASSUME NEW r, NEW k, emitTerminalOnce(r, k)
      PROVE  terminalEvents \subseteq terminalEvents'
  BY <1>0 DEF emitTerminalOnce, clientVars
<1>1. ASSUME NEW q \in Requests, RequestStep(q)
      PROVE  terminalEvents \subseteq terminalEvents'
  BY <1>0, <1>1 DEF RequestStep, RunCreated, CancelReturns, clientVars
<1>2. ASSUME NEW t \in Threads, ManagerStep(t)
      PROVE  terminalEvents \subseteq terminalEvents'
  BY <1>0, <1>2 DEF ManagerStep, Signal, clientVars, execVars
<1>3. ASSUME NEW u \in Users, OutsideAnswers(u) \/ Clock(u)
      PROVE  terminalEvents \subseteq terminalEvents'
  BY <1>3 DEF OutsideAnswers, Provisioned, PackLoaded, AgentSettles, Clock,
              clientVars, execVars
<1>4. ASSUME \/ \E q \in Requests, r \in Runs : RequestCreate(q, r)
             \/ \E q \in Requests, r \in Runs, reason \in ClientReasons :
                  RequestCancel(q, r, reason)
             \/ \E r \in Runs : Timer(r)
             \/ AllServed \/ UNCHANGED vars
      PROVE  terminalEvents \subseteq terminalEvents'
  BY <1>4 DEF RequestCreate, RequestCancel, Timer, AllServed, clientVars,
              execVars, vars
<1>5. QED
  BY <1>1, <1>2, <1>3, <1>4 DEF Next

LEMMA UnconcludedStep ==
  ASSUME StoresSettleAtOnce, SettledServiceInv, ServiceTypes, TruthInv,
         Unconcluded, [Next]_vars
  PROVE  Unconcluded'
<1>1. /\ ServiceInv /\ SettledInv /\ LanesInv /\ CallersOK /\ ManagerInv
      /\ SettledServiceInv' /\ CallersOK' /\ ServiceInv'
      /\ call \in [Threads -> Frame] /\ lane \in [Users -> Lane]
      /\ {"complete", "fail", "cancel", "timeout"} \subseteq Settling
  BY SettledServiceStep
     DEF SettledServiceInv, ServiceInv, ManagerInv, CallersOK, Settling
<1>2. /\ Word("complete") = "run_completed" /\ Word("fail") = "run_failed"
      /\ Word("cancel") = "run_cancelled" /\ Word("timeout") = "run_timed_out"
  BY DEF Word
<1>3. ReasonsTold
  BY DEF TruthInv
<1>4. \A r \in Runs : Len(cancels[r]) \in Nat /\ Len(cancels'[r]) \in Nat
                        /\ Len(cancels'[r]) >= Len(cancels[r])
  BY CancelsKept
<1>5. ASSUME NEW r \in Runs, ByCancel(r)', ~ByCancel(r)
      PROVE  /\ r \in terminalEvents'
             /\ \E t \in Threads : call[t].op = "cancel" /\ call[t].run = r
  <2>1. Sealed(r, "timeout") => Sealed(r, "timeout")'
    BY <1>1, SealHolds
  <2>2. \/ Told(r, "run_cancelled")' /\ ~Told(r, "run_cancelled")
        \/ /\ Told(r, "run_timed_out")' /\ ~Told(r, "run_timed_out")
           /\ ~Sealed(r, "timeout")'
    BY <1>5, <2>1 DEF ByCancel
  <2>3. PICK op \in {"cancel", "timeout"} :
          /\ Told(r, Word(op))' /\ ~Told(r, Word(op))
          /\ op = "timeout" => ~Sealed(r, "timeout")'
    BY <1>2, <2>2
  <2>4. QED
    BY <1>1, <1>3, <2>3, NewsIsTrue
<1>6. ASSUME NEW u \in Users, NEW r \in Runs, lane'[u].run = r,
             NEW op \in {"complete", "fail"}, Told(r, Word(op))'
      PROVE  FALSE
  <2>1. CASE ~Told(r, Word(op))
    <3>1. PICK v \in Users : lane[v].run = r /\ lane'[v].run = None
      BY <1>1, <1>3, <1>6, <2>1, NewsIsTrue
    <3>2. UserOf[r] = u /\ UserOf[r] = v
      BY <1>1, <1>6, <3>1 DEF ServiceInv, Served
    <3>3. QED
      BY <1>6, <3>1, <3>2, NoneAssumption
  <2>2. CASE Told(r, Word(op))
    <3>1. lane[u].run # r
      BY <1>2, <2>2 DEF Unconcluded
    <3>2. runs[r].state \in {"COMPLETED", "FAILED"}
      BY <1>1, <2>2 DEF TruthInv, Justified, Sealed, Target
    <3>3. LaneStep(u) \/ OutsideAnswers(u)
      <4>1. ASSUME NEW v \in Users, LaneStep(v) \/ OutsideAnswers(v)
            PROVE  v = u
        <5>1. PICK l \in Lane : lane' = [lane EXCEPT ![v] = l]
          BY <1>1, <4>1, LaneMoves
        <5>2. QED
          BY <1>1, <1>6, <3>1, <5>1
      <4>2. ASSUME NEW q \in Requests, RunCreated(q)
            PROVE  lane'[u].run = lane[u].run
        BY <1>1, <4>2 DEF RunCreated, Lane
      <4>3. ASSUME UNCHANGED lane
            PROVE  FALSE
        BY <1>6, <3>1, <4>3
      <4>4. QED
        BY <1>1, <1>6, <3>1, <4>1, <4>2, <4>3, AsManager
    <3>4. PICK l \in Lane : lane' = [lane EXCEPT ![u] = l] /\ Moves(u, l)
      BY <1>1, <3>3, LaneMoves
    <3>5. l.run = r /\ r # None
      BY <1>1, <1>6, <3>4, NoneAssumption
    <3>6. Suits(l) /\ Hand(call[u])
      BY <1>1, <3>3, <3>4, <3>5, LaneSuits, MoveAlone
    <3>7. l.at = "provisioning"
      BY <3>1, <3>4, <3>5 DEF Moves
    <3>8. QED
      BY <3>2, <3>5, <3>6, <3>7 DEF Suits, Allowed
  <2>3. QED
    BY <2>1, <2>2
<1>7. ASSUME NEW r \in Runs, ByCancel(r)'
      PROVE  Len(cancels'[r]) >= 1
  <2>1. Len(cancels[r]) >= 1
    <3>1. CASE ByCancel(r)
      BY <3>1 DEF Unconcluded
    <3>2. CASE ~ByCancel(r)
      BY <1>5, <1>7, <3>2 DEF Unconcluded
    <3>3. QED
      BY <3>1, <3>2
  <2>2. QED
    BY <1>4, <2>1
<1>8. ASSUME NEW t \in Threads, NEW r \in Runs, call'[t].op = "cancel",
             call'[t].run = r
      PROVE  /\ Len(cancels'[r]) >= 1
             /\ Len(cancels'[r]) = 1 /\ ByCancel(r)' => r \in terminalEvents'
  <2>1. CASE t \in Requests /\ \E reason \in ClientReasons : RequestCancel(t, r, reason)
    <3>1. Len(cancels'[r]) = Len(cancels[r]) + 1
      <4>1. PICK reason \in ClientReasons : RequestCancel(t, r, reason)
        BY <2>1
      <4>2. cancels'[r] = Append(cancels[r], reason) /\ cancels[r] \in Seq(ClientReasons)
        BY <4>1 DEF RequestCancel, ServiceTypes
      <4>3. \A c \in Seq(ClientReasons) : Len(Append(c, reason)) = Len(c) + 1
        OBVIOUS
      <4>4. QED
        BY <4>2, <4>3
    <3>2. Len(cancels'[r]) = 1 => Len(cancels[r]) = 0
      <4>1. \A n \in Nat : n + 1 = 1 => n = 0
        OBVIOUS
      <4>2. QED
        BY <1>4, <3>1, <4>1
    <3>3. Len(cancels[r]) = 0 => ~ByCancel(r)
      BY DEF Unconcluded
    <3>4. Len(cancels'[r]) >= 1
      BY <1>4, <3>1
    <3>5. QED
      BY <1>5, <3>2, <3>3, <3>4
  <2>2. CASE call[t].op = "cancel" /\ call[t].run = r
    <3>1. /\ Len(cancels[r]) >= 1
          /\ Len(cancels[r]) = 1 /\ ByCancel(r) => r \in terminalEvents
      BY <2>2 DEF Unconcluded
    <3>2. \A u \in Users : ~LaneStep(u)
      <4>1. ASSUME NEW u \in Users, LaneStep(u)
            PROVE  FALSE
        <5>1. t # u
          BY <1>1, <2>2 DEF CallersOK, StageOp
        <5>2. call[t] = IdleFrame
          BY <1>1, <4>1, <5>1, MoveAlone
        <5>3. QED
          BY <2>2, <5>2 DEF IdleFrame
      <4>2. QED
        BY <4>1
    <3>3. terminalEvents \subseteq terminalEvents'
      BY <3>2, Remembering
    <3>4. /\ Len(cancels'[r]) >= 1
          /\ Len(cancels'[r]) = 1 => Len(cancels[r]) = 1
      <4>1. \A m, n \in Nat : n >= m /\ m >= 1 => n >= 1 /\ (n = 1 => m = 1)
        OBVIOUS
      <4>2. QED
        BY <1>4, <3>1, <4>1
    <3>5. QED
      BY <1>5, <3>1, <3>3, <3>4
  <2>3. QED
    BY <1>8, <2>1, <2>2, CancelCalls
<1>9. QED
  BY <1>2, <1>6, <1>7, <1>8 DEF Unconcluded

\* A run that has just been announced as queued has been told of.
LEMMA QueuedIsNews ==
  ASSUME SettledServiceInv, NEW q \in Requests, NEW r \in Runs, RunCreated(q),
         call[q].run = r
  PROVE  events'[r] # events[r]
<1>1. events \in [Runs -> Seq(EventKinds)] /\ events[r] \in Seq(EventKinds)
  BY DEF SettledServiceInv, ServiceInv
<1>2. events'[r] = Append(events[r], "run_queued") /\ "run_queued" \in EventKinds
  BY <1>1 DEF RunCreated, Broadcast, EventKinds
<1>3. Len(events'[r]) = Len(events[r]) + 1 /\ Len(events[r]) \in Nat
  BY <1>1, <1>2, SaysNext
<1>4. Len(events'[r]) # Len(events[r])
  BY <1>3
<1>5. QED
  BY <1>4

LEMMA StoryStep ==
  ASSUME StoresSettleAtOnce, SettledServiceInv, ServiceTypes, TruthInv,
         StoryInv, [Next]_vars
  PROVE  StoryInv'
<1>1. ListenersLate' /\ Unconcluded'
  BY ListenersStep, UnconcludedStep DEF StoryInv
<1>2. ASSUME NEW r \in Runs
      PROVE  Story(events[r], Len(cancels[r]))' /\ Begun(r)'
  <2>1. /\ Story(events'[r], Len(cancels[r]))
        /\ events'[r] # events[r] =>
             /\ ~Fresh(r)' /\ events'[r] # << >>
             /\ Early(r)' => Len(events'[r]) <= 1
    BY StoriesGoOn
  <2>0. Story(events'[r], Len(cancels'[r]))
    <3>1. events' \in [Runs -> Seq(EventKinds)]
      BY SettledServiceStep DEF SettledServiceInv, ServiceInv
    <3>2. QED
      BY <2>1, <3>1, CancelsKept, StoryAges
  <2>2. CASE events'[r] # events[r]
    BY <2>0, <2>1, <2>2 DEF Begun
  <2>3. CASE events'[r] = events[r]
    <3>1. Fresh(r)' <=> Fresh(r)
      BY <2>3, FreshStep, QueuedIsNews
    <3>2. Early(r)' => Early(r) \/ Fresh(r)
      BY EarlyStep
    <3>3. /\ Fresh(r) <=> events[r] = << >>
          /\ Early(r) => Len(events[r]) <= 1
      BY DEF StoryInv, Begun
    <3>4. Fresh(r) => Len(events[r]) <= 1
      <4>1. Len(<< >>) <= 1
        OBVIOUS
      <4>2. QED
        BY <3>3, <4>1
    <3>5. Fresh(r)' <=> events'[r] = << >>
      BY <2>3, <3>1, <3>3
    <3>6. Early(r)' => Len(events'[r]) <= 1
      BY <2>3, <3>2, <3>3, <3>4
    <3>7. QED
      BY <2>0, <3>5, <3>6 DEF Begun
  <2>4. QED
    BY <2>1, <2>2, <2>3
<1>3. QED
  BY <1>1, <1>2 DEF StoryInv

\* A client sees one story of a run: run_queued, then perhaps run_started, then
\* one terminal event, although the route, the processor and the abort listener
\* each speak of it and the processor forgets between runs that it has spoken
\* (run-execution.service.ts:216, :269).  After a terminal event only
\* run_cancelled comes, and only of a run cancelled more than once.
THEOREM StoriesInOrder ==
  ASSUME StoresSettleAtOnce
  PROVE  Spec => []EventsInOrder
<1>1. Init => StoryInv
  <2> SUFFICES ASSUME Init  PROVE StoryInv
    OBVIOUS
  <2>1. /\ runs = [r \in Runs |-> NoRun] /\ call = [t \in Threads |-> IdleFrame]
        /\ lane = [u \in Users |-> [at |-> "off", run |-> None]]
        /\ events = [r \in Runs |-> << >>] /\ listening = {}
    BY DEF Init, ManagerInit
  <2>2. \A r \in Runs : events[r] = << >> /\ ToSet(events[r]) = {} /\ UserOf[r] \in Users
    BY <2>1, ManagerAssumption DEF ToSet
  <2>3. \A t \in Threads : call[t].op # "cancel"
    BY <2>1 DEF IdleFrame
  <2>4. ListenersLate /\ Unconcluded
    BY <2>1, <2>2, <2>3 DEF ListenersLate, Unconcluded, ByCancel, Told
  <2>5. ASSUME NEW r \in Runs
        PROVE  Begun(r) /\ Story(events[r], Len(cancels[r]))
    <3>1. runs[r].state = "NONE" /\ Len(events[r]) = 0 /\ DOMAIN events[r] = {}
      BY <2>1, <2>2 DEF NoRun
    <3>2. Fresh(r)
      BY <3>1 DEF Fresh
    <3>3. Len(events[r]) <= 1
      BY <3>1
    <3>4. QED
      BY <2>2, <3>1, <3>2, <3>3 DEF Begun, Story
  <2>6. QED
    BY <2>4, <2>5 DEF StoryInv
<1>2. /\ SettledServiceInv /\ ServiceInv /\ ServiceTypes /\ TruthInv /\ StoryInv
      /\ [Next]_vars
      => StoryInv'
  BY StoryStep
<1>3. StoryInv => EventsInOrder
  BY DEF StoryInv, Story, EventsInOrder
<1>4. QED
  BY <1>1, <1>2, <1>3, ServiceInvariant, SettledService, TruthAlways, PTL DEF Spec

-----------------------------------------------------------------------------
(* The service implements the lifecycle.                                     *)

\* A run taken from the queue whose record does not say so yet.
Granted(r) ==
  runs[r].state = "QUEUED" /\ InHand(r, "acquire", {"markLeased"})
Withdrawn(r) ==
  runs[r].state = "QUEUED" /\ InHand(r, "cancel", {"signal", "write"})

Phased(r) ==
  /\ Waits(r) /\ runs[r].state = "QUEUED" /\ ~Granted(r) /\ ~Withdrawn(r)
       => Phase(r) = "waiting"
  /\ ~Waits(r) /\ isActiveState(runs[r].state) => Phase(r) = "active"
  /\ ~Waits(r) /\ isTerminalState(runs[r].state) => Phase(r) = "ended"
  /\ ~Waits(r) /\ Granted(r) /\ ~Withdrawn(r) => Phase(r) = "active"
  /\ ~Waits(r) /\ Withdrawn(r) /\ ~Granted(r) => Phase(r) = "ended"
  /\ ~Waits(r) /\ runs[r].state \in {"NONE", "QUEUED"} /\ ~Granted(r)
       /\ ~Withdrawn(r) => Phase(r) = "new"
  /\ Phase(r) = "active" => isActiveState(runs[r].state) \/ Granted(r)

LEMMA PhaseOf ==
  ASSUME NEW r \in Runs
  PROVE  Phased(r) /\ Phased(r)'
<1>1. Phased(r)
  BY DEF Phased, Phase, Waits, Granted, Withdrawn, isActiveState, isTerminalState
<1>2. Phased(r)'
  BY DEF Phased, Phase, Waits, Granted, Withdrawn, isActiveState, isTerminalState
<1>3. QED
  BY <1>1, <1>2

LEMMA SamePhase ==
  ASSUME NEW r \in Runs, Waits(r)' <=> Waits(r), runs'[r].state = runs[r].state,
         Granted(r)' <=> Granted(r), Withdrawn(r)' <=> Withdrawn(r)
  PROVE  Phase(r)' = Phase(r)
BY DEF Phase, Waits, Granted, Withdrawn

\* A frame that makes its run Granted or Withdrawn.
InPlay(f) ==
  /\ runs[f.run].state = "QUEUED"
  /\ \/ f.op = "acquire" /\ f.pc = "markLeased"
     \/ f.op = "cancel" /\ f.pc \in {"signal", "write"}

LEMMA QuietPhases ==
  ASSUME UNCHANGED <<runs, queues>>,
         \A t \in Threads :
           \/ ~InPlay(call[t]) /\ ~InPlay(call'[t])
           \/ /\ call'[t].op = call[t].op /\ call'[t].run = call[t].run
              /\ InPlay(call[t]) /\ InPlay(call'[t])
           \/ call'[t] = call[t]
  PROVE  UNCHANGED Lifecycle!lifecycleVars
<1>1. ASSUME NEW r \in Runs
      PROVE  Phase(r)' = Phase(r)
  <2>1. Granted(r)' <=> Granted(r)
    BY DEF Granted, InHand, InPlay
  <2>2. Withdrawn(r)' <=> Withdrawn(r)
    BY DEF Withdrawn, InHand, InPlay
  <2>3. QED
    BY <2>1, <2>2, SamePhase DEF Waits
<1>2. QED
  BY <1>1 DEF Lifecycle!lifecycleVars

\* The one method under way tells which runs are Granted or Withdrawn.
LEMMA OneInHand ==
  ASSUME NEW t \in Threads, \A s \in Threads \ {t} : call[s] = IdleFrame,
         NEW r \in Runs
  PROVE  /\ Granted(r) <=> /\ runs[r].state = "QUEUED" /\ call[t].run = r
                           /\ call[t].op = "acquire" /\ call[t].pc = "markLeased"
         /\ Withdrawn(r) <=> /\ runs[r].state = "QUEUED" /\ call[t].run = r
                             /\ call[t].op = "cancel"
                             /\ call[t].pc \in {"signal", "write"}
BY DEF Granted, Withdrawn, InHand, IdleFrame

LEMMA OtherPhases ==
  ASSUME NEW t \in Threads, \A s \in Threads \ {t} : call'[s] = call[s],
         NEW r \in Runs, call[t].run # r, call'[t].run # r,
         runs'[r].state = runs[r].state, Waits(r)' <=> Waits(r)
  PROVE  Phase(r)' = Phase(r)
<1>1. Granted(r)' <=> Granted(r)
  BY DEF Granted, InHand
<1>2. Withdrawn(r)' <=> Withdrawn(r)
  BY DEF Withdrawn, InHand
<1>3. QED
  BY <1>1, <1>2, SamePhase

\* createRun puts the run it has stored in its line.
LEMMA Submits ==
  ASSUME SettledServiceInv, NEW t \in Threads, EnqueueRun(t)
  PROVE  \E r \in Runs : Lifecycle!Submit(r)
<1>1. /\ ManagerInv /\ SettledInv /\ QueueInv /\ call \in [Threads -> Frame]
      /\ call[t].run \in Runs
  BY InMethod DEF SettledServiceInv, ServiceInv, ManagerInv, EnqueueRun, FrameShape
<1> PICK r \in Runs : r = call[t].run
  BY <1>1
<1>2. call[t].pc = "enqueue" /\ Enqueue(r, UserOf[r]) /\ UNCHANGED runs
  BY DEF EnqueueRun
<1>3. /\ call[t].op = "create" /\ runs[r].state = "QUEUED" /\ ~Waits(r)
      /\ \A s \in Threads \ {t} : call[s] = IdleFrame
  BY <1>1, <1>2, RestOfThem DEF Hand, Out
<1>4. /\ \A s \in Threads \ {t} : call'[s] = call[s]
      /\ call'[t].run = r /\ call'[t].op = "create"
  <2>1. PlainStep(t)
    BY DEF PlainStep
  <2>2. QED
    BY <1>1, <1>2, <1>3, <2>1, OfOneMethod
<1>5. \A s \in Runs : Waits(s)' <=> Waits(s) \/ s = r
  BY <1>1, <1>2, EnqueueAdds, ManagerAssumption DEF Waits
<1>6. Phase(r) = "new"
  BY <1>1, <1>2, <1>3, OneInHand, PhaseOf DEF Phased
<1>7. Phase(r)' = "waiting"
  <2>1. ~Granted(r)' /\ ~Withdrawn(r)'
    BY <1>3, <1>4 DEF Granted, Withdrawn, InHand, IdleFrame
  <2>2. Waits(r)' /\ runs'[r].state = "QUEUED"
    BY <1>1, <1>2, <1>3, <1>5
  <2>3. QED
    BY <1>1, <2>1, <2>2, PhaseOf DEF Phased
<1>8. \A s \in Runs \ {r} : Phase(s)' = Phase(s)
  BY <1>1, <1>2, <1>4, <1>5, OtherPhases
<1>9. queues' = [queues EXCEPT ![UserOf[r]] = Append(@, r)]
  BY <1>2 DEF Enqueue
<1>10. Lifecycle!Submit(r)
  BY <1>1, <1>6, <1>7, <1>8, <1>9 DEF Lifecycle!Submit
<1>11. QED
  BY <1>1, <1>10

\* acquireNextRun takes the head of the line, and no other run is active.
LEMMA Grants ==
  ASSUME SettledServiceInv, NEW t \in Threads, DequeueNext(t)
  PROVE  \E u \in Users : Lifecycle!Grant(u)
<1>1. /\ ManagerInv /\ SettledInv /\ LeasesTrue /\ QueueInv /\ CallersOK
      /\ call \in [Threads -> Frame] /\ call[t].run \in Runs
      /\ queues \in [Users -> Seq(Runs)]
  BY InMethod DEF SettledServiceInv, ServiceInv, ManagerInv, DequeueNext,
     FrameShape, QueueInv, QueueTypeOK
<1> PICK r \in Runs : r = call[t].run
  BY <1>1
<1> PICK u \in Users : u = UserOf[r]
  BY ManagerAssumption
<1>2. call[t].pc = "dequeue" /\ Dequeue(u) /\ UNCHANGED runs
  BY DEF DequeueNext
<1>3. /\ call[t].op = "acquire" /\ runs[r].state = "QUEUED" /\ Waits(r)
      /\ queues[u] # << >> /\ Head(queues[u]) = r
      /\ \A s \in Threads \ {t} : call[s] = IdleFrame
      /\ \A s \in Runs : s # r => AtRest(s)
      /\ LeaseHand(call[t]) /\ \A s \in Runs : s # r => LeaseTrue(s)
  BY <1>1, <1>2, RestOfThem, LeasesOfTheRest DEF Hand, AtRest
<1>4. /\ \A s \in Threads \ {t} : call'[s] = call[s]
      /\ call'[t].run = r /\ call'[t].op = "acquire" /\ call'[t].pc = "markLeased"
  BY <1>1, <1>3 DEF DequeueNext, Goto, Frame
<1>5. \A s \in Runs : Waits(s)' <=> Waits(s) /\ s # r
  <2>1. \A v \in Users, s \in Runs :
          s \in ToSet(queues'[v]) <=> s \in ToSet(queues[v]) /\ s # r
    BY <1>1, <1>2, <1>3, DequeueDropsHead
  <2>2. QED
    BY <2>1, ManagerAssumption DEF Waits
<1>6. \A s \in Runs : UserOf[s] = u => Phase(s) # "active"
  <2> SUFFICES ASSUME NEW s \in Runs, UserOf[s] = u, Phase(s) = "active"
               PROVE  FALSE
    OBVIOUS
  <2>1. ~Granted(s)
    BY <1>2, <1>3, OneInHand
  <2>2. isActiveState(runs[s].state)
    BY <2>1, PhaseOf DEF Phased
  <2>3. s # r
    BY <1>3, <2>2 DEF isActiveState
  <2>4. HoldsLease(s)
    BY <1>3, <2>2, <2>3 DEF LeaseTrue
  <2>5. HoldsLease(r)
    BY <1>2, <1>3 DEF LeaseHand
  <2>6. QED
    BY <2>3, <2>4, <2>5 DEF HoldsLease
<1>7. Phase(r)' = "active"
  <2>1. Granted(r)' /\ ~Withdrawn(r)'
    BY <1>2, <1>3, <1>4 DEF Granted, Withdrawn, InHand, IdleFrame
  <2>2. ~Waits(r)'
    BY <1>5
  <2>3. QED
    BY <2>1, <2>2, PhaseOf DEF Phased
<1>8. \A s \in Runs \ {r} : Phase(s)' = Phase(s)
  BY <1>2, <1>4, <1>5, OtherPhases
<1>9. queues' = [queues EXCEPT ![u] = Tail(@)]
  BY <1>2, <1>3 DEF Dequeue
<1>10. Lifecycle!Grant(u)
  BY <1>3, <1>6, <1>7, <1>8, <1>9 DEF Lifecycle!Grant
<1>11. QED
  BY <1>10

\* cancelRun takes a waiting run out of the line, wherever it stands.
LEMMA Withdraws ==
  ASSUME SettledServiceInv, NEW t \in Threads, RemoveQueued(t)
  PROVE  \E r \in Runs : Lifecycle!Withdraw(r)
<1>1. /\ ManagerInv /\ SettledInv /\ QueueInv /\ QueuedRuns
      /\ call \in [Threads -> Frame] /\ call[t].run \in Runs
      /\ queues \in [Users -> Seq(Runs)]
  BY InMethod DEF SettledServiceInv, ServiceInv, ManagerInv, SettledInv,
     RemoveQueued, FrameShape, QueueInv, QueueTypeOK
<1> PICK r \in Runs : r = call[t].run
  BY <1>1
<1>2. call[t].pc = "remove" /\ RemoveFromQueue(r) /\ UNCHANGED runs
  BY DEF RemoveQueued
<1>3. /\ call[t].op = "cancel" /\ runs[r].state = "QUEUED" /\ Waits(r)
      /\ call[t].seen = runs[r]
      /\ \A s \in Threads \ {t} : call[s] = IdleFrame
  BY <1>1, <1>2, RestOfThem DEF Hand, AtRest
<1>4. /\ \A s \in Threads \ {t} : call'[s] = call[s]
      /\ call'[t].run = r /\ call'[t].op = "cancel" /\ call'[t].pc = "signal"
  <2>1. AfterRemove(call[t].seen) = "signal"
    BY <1>1, <1>3 DEF QueuedRuns, AfterRemove
  <2>2. QED
    BY <1>1, <1>3, <2>1 DEF RemoveQueued, Goto, Frame
<1>5. \A s \in Runs : Waits(s)' <=> Waits(s) /\ s # r
  BY <1>1, <1>2, RemoveDropsRun, ManagerAssumption DEF Waits
<1>6. Phase(r) = "waiting"
  BY <1>2, <1>3, OneInHand, PhaseOf DEF Phased
<1>7. Phase(r)' = "ended"
  <2>1. Withdrawn(r)' /\ ~Granted(r)'
    BY <1>2, <1>3, <1>4 DEF Granted, Withdrawn, InHand, IdleFrame
  <2>2. ~Waits(r)'
    BY <1>5
  <2>3. QED
    BY <2>1, <2>2, PhaseOf DEF Phased
<1>8. \A s \in Runs \ {r} : Phase(s)' = Phase(s)
  BY <1>2, <1>4, <1>5, OtherPhases
<1>9. \E i \in DOMAIN queues[UserOf[r]] :
        /\ queues[UserOf[r]][i] = r
        /\ queues' = [queues EXCEPT ![UserOf[r]] = RemoveAt(@, i)]
  <2>1. ~(\A u \in Users : r \notin ToSet(queues[u]))
    BY <1>3, ManagerAssumption DEF Waits
  <2>2. PICK u \in Users : \E i \in 1..Len(queues[u]) :
          queues[u][i] = r /\ TakesOut(u, i)
    BY <1>1, <1>2, <2>1, RemoveTakesOut
  <2>3. PICK i \in 1..Len(queues[u]) : queues[u][i] = r /\ TakesOut(u, i)
    BY <2>2
  <2>4. queues[u] \in Seq(Runs) /\ i \in DOMAIN queues[u]
    BY <1>1
  <2>5. u = UserOf[r]
    BY <1>1, <2>3, <2>4 DEF QueuedRuns, ToSet
  <2>6. QED
    BY <2>3, <2>4, <2>5 DEF TakesOut
<1>10. Lifecycle!Withdraw(r)
  <2>1. [s \in Runs |-> Phase(s)][r] = "waiting"
    BY <1>6
  <2>2. [s \in Runs |-> Phase(s)]'
          = [[s \in Runs |-> Phase(s)] EXCEPT ![r] = "ended"]
    BY <1>7, <1>8
  <2>3. QED
    BY <1>9, <2>1, <2>2 DEF Lifecycle!Withdraw, Lifecycle!RemoveAt, RemoveAt
<1>11. QED
  BY <1>10

\* A run's record comes to say that it is LEASED, or gets its position.
LEMMA Marks ==
  ASSUME SettledServiceInv, NEW t \in Threads, MarkLeased(t) \/ SetQueuePosition(t)
  PROVE  UNCHANGED Lifecycle!lifecycleVars
<1>1. /\ ManagerInv /\ SettledInv /\ call \in [Threads -> Frame]
      /\ call[t].run \in Runs /\ runs \in [Runs -> RunRecord]
  BY InMethod DEF SettledServiceInv, ServiceInv, ManagerInv, MarkLeased,
     SetQueuePosition, FrameShape
<1> PICK r \in Runs : r = call[t].run
  BY <1>1
<1>2. /\ \A s \in Threads \ {t} : call[s] = IdleFrame /\ call'[s] = call[s]
      /\ call'[t].run = r /\ call'[t].op = call[t].op /\ call'[t].pc = "done"
      /\ UNCHANGED queues /\ \A s \in Runs \ {r} : runs'[s] = runs[s]
      /\ Hand(call[t])
  <2>1. call[t].pc # "idle" /\ call' = [call EXCEPT ![t].pc = "done"]
    BY DEF MarkLeased, SetQueuePosition, Goto
  <2>2. /\ \A s \in Threads \ {t} : call[s] = IdleFrame /\ call'[s] = call[s]
        /\ Hand(call[t])
    BY <1>1, <2>1, RestOfThem
  <2>3. /\ call'[t].run = r /\ call'[t].op = call[t].op /\ call'[t].pc = "done"
    BY <1>1, <2>1 DEF Frame
  <2>4. UNCHANGED queues /\ \A s \in Runs \ {r} : runs'[s] = runs[s]
    BY <1>1 DEF MarkLeased, SetQueuePosition, storeVars, queueVars
  <2>5. QED
    BY <2>2, <2>3, <2>4
<1>3. ~Granted(r)' /\ ~Withdrawn(r)'
  BY <1>2 DEF Granted, Withdrawn, InHand, IdleFrame
<1>4. Phase(r)' = Phase(r)
  <2>1. CASE MarkLeased(t)
    <3>1. call[t].pc = "markLeased" /\ runs'[r].state = "LEASED"
      BY <1>1, <2>1 DEF MarkLeased
    <3>2. Granted(r) /\ ~Withdrawn(r) /\ ~Waits(r) /\ ~Waits(r)'
      BY <1>2, <3>1, OneInHand DEF Hand, Out, Waits
    <3>3. QED
      BY <3>1, <3>2, PhaseOf DEF Phased, isActiveState
  <2>2. CASE SetQueuePosition(t)
    <3>1. call[t].pc = "setPosition" /\ runs'[r].state = runs[r].state
      BY <1>1, <2>2 DEF SetQueuePosition, RunRecord
    <3>2. ~Granted(r) /\ ~Withdrawn(r) /\ (Waits(r)' <=> Waits(r))
      BY <1>2, <3>1, OneInHand DEF Waits
    <3>3. QED
      BY <1>3, <3>1, <3>2, SamePhase
  <2>3. QED
    BY <2>1, <2>2
<1>5. \A s \in Runs \ {r} : Phase(s)' = Phase(s)
  BY <1>2, OtherPhases DEF Waits
<1>6. QED
  BY <1>2, <1>4, <1>5 DEF Lifecycle!lifecycleVars

\* transitionState finishes an active run; a run withdrawn has ended already.
LEMMA Finishes ==
  ASSUME SettledServiceInv, NEW t \in Threads, WriteTransition(t)
  PROVE  \/ UNCHANGED Lifecycle!lifecycleVars
         \/ \E r \in Runs : Lifecycle!Finish(r)
<1>1. /\ ManagerInv /\ SettledInv /\ call \in [Threads -> Frame]
      /\ call[t].run \in Runs /\ runs \in [Runs -> RunRecord]
      /\ call[t].op \in Settling \cup {"start"} /\ call[t].pc = "write"
      /\ UNCHANGED queues
  BY InMethod DEF SettledServiceInv, ServiceInv, ManagerInv, WriteTransition,
     FrameShape, queueVars
<1> PICK r \in Runs : r = call[t].run
  BY <1>1
<1> DEFINE s == runs[r].state
           to == Target(call[t].op)
<1>2. /\ \A x \in Threads \ {t} : call[x] = IdleFrame
      /\ call[t].seen = runs[r] /\ s \in RunState
      /\ Waits(r) => s = "QUEUED"
      /\ call[t].op = "cancel" => ~Waits(r)
  <2>1. Hand(call[t]) /\ \A x \in Threads \ {t} : call[x] = IdleFrame
    BY <1>1, RestOfThem
  <2>2. call[t].seen = runs[r] /\ s # "NONE"
    BY <1>1, <2>1 DEF Hand
  <2>3. Stopping(call[t]) \/ (call[t].op = "start" /\ AtRest(r))
    BY <1>1, <2>1 DEF Hand
  <2>4. (Waits(r) => s = "QUEUED") /\ (call[t].op = "cancel" => ~Waits(r))
    BY <2>3 DEF Stopping, AtRest
  <2>5. s \in RunState
    BY <1>1, <2>2 DEF RunRecord
  <2>6. QED
    BY <2>1, <2>2, <2>4, <2>5
<1>3. /\ \A x \in Threads \ {t} : call'[x] = call[x]
      /\ call'[t].run = r /\ call'[t].op = call[t].op
      /\ call'[t].pc \in {"threw", "reread"}
  BY <1>1 DEF WriteTransition, Forget, Frame
<1>4. ~Granted(r)' /\ ~Withdrawn(r)' /\ ~Granted(r)
      /\ (Withdrawn(r) <=> s = "QUEUED" /\ call[t].op = "cancel")
  <2>1. ~Granted(r)' /\ ~Withdrawn(r)'
    BY <1>2, <1>3 DEF Granted, Withdrawn, InHand, IdleFrame
  <2>2. QED
    BY <1>1, <1>2, <2>1, OneInHand
<1>5. CASE ~isValidStateTransition(s, to)
  <2>1. UNCHANGED runs
    BY <1>2, <1>5 DEF WriteTransition
  <2>2. ~Withdrawn(r)
    BY <1>4, <1>5 DEF isValidStateTransition, VALID_STATE_TRANSITIONS, Target
  <2>3. Phase(r)' = Phase(r)
    BY <1>1, <1>4, <2>1, <2>2, SamePhase DEF Waits
  <2>4. \A x \in Runs \ {r} : Phase(x)' = Phase(x)
    BY <1>1, <1>3, <2>1, OtherPhases DEF Waits
  <2>5. QED
    BY <1>1, <2>3, <2>4 DEF Lifecycle!lifecycleVars
<1>6. CASE isValidStateTransition(s, to)
  <2>1. runs'[r].state = to /\ \A x \in Runs \ {r} : runs'[x] = runs[x]
    <3>1. runs' = [runs EXCEPT ![r] =
            IF isTerminalState(to)
              THEN [@ EXCEPT !.state = to, !.queuePosition = None]
              ELSE [@ EXCEPT !.state = to]]
      BY <1>2, <1>6 DEF WriteTransition
    <3>2. runs[r] \in RunRecord
      BY <1>1
    <3> HIDE DEF to
    <3>3. QED
      BY <1>1, <3>1, <3>2 DEF RunRecord
  <2>2. \A x \in Runs \ {r} : Phase(x)' = Phase(x)
    BY <1>1, <1>3, <2>1, OtherPhases DEF Waits
  <2>3. to \in {"RUNNING", "CANCELLED", "TIMED_OUT", "COMPLETED", "FAILED"}
        /\ (to = "CANCELLED" => call[t].op = "cancel")
    BY <1>1 DEF Target, Settling
  <2>4. \/ s = "QUEUED" /\ call[t].op = "cancel" /\ to = "CANCELLED"
        \/ isActiveState(s)
    BY <1>2, <1>6, <2>3
       DEF isValidStateTransition, VALID_STATE_TRANSITIONS, RunState, isActiveState
  <2>5. ~Waits(r) /\ ~Waits(r)'
    BY <1>1, <1>2, <2>4 DEF Waits, isActiveState
  <2>6. isTerminalState(to) => Phase(r)' = "ended"
    BY <2>1, <2>5, PhaseOf DEF Phased
  <2>7. isActiveState(to) => Phase(r)' = "active"
    BY <2>1, <2>5, PhaseOf DEF Phased
  <2>8. isActiveState(to) \/ isTerminalState(to)
    BY <2>3 DEF isActiveState, isTerminalState
  <2>9. CASE s = "QUEUED"
    <3>1. Phase(r) = "ended"
      BY <1>4, <2>4, <2>5, <2>9, PhaseOf DEF Phased, isActiveState
    <3>2. isTerminalState(to)
      BY <2>4, <2>9 DEF isActiveState, isTerminalState
    <3>3. QED
      BY <1>1, <2>2, <2>6, <3>1, <3>2 DEF Lifecycle!lifecycleVars
  <2>10. CASE isActiveState(s)
    <3>1. Phase(r) = "active"
      BY <2>5, <2>10, PhaseOf DEF Phased
    <3>2. CASE isActiveState(to)
      BY <1>1, <2>2, <2>7, <3>1, <3>2 DEF Lifecycle!lifecycleVars
    <3>3. CASE isTerminalState(to)
      <4>1. Phase(r)' = "ended"
        BY <2>6, <3>3
      <4>2. Lifecycle!Finish(r)
        BY <1>1, <2>2, <3>1, <4>1 DEF Lifecycle!Finish
      <4>3. QED
        BY <4>2
    <3>4. QED
      BY <2>8, <3>2, <3>3
  <2>11. QED
    BY <2>4, <2>9, <2>10
<1>7. QED
  BY <1>5, <1>6

\* The other steps inside the manager move no run from one phase to another.
LEMMA Aside ==
  ASSUME SettledServiceInv, NEW t \in Threads,
         \/ LeaseNextRun(t) \/ ReleaseLease(t) \/ SignalStep(t)
         \/ RereadRun(t) \/ BeginRun(t)
  PROVE  UNCHANGED Lifecycle!lifecycleVars
<1>1. /\ ManagerInv /\ SettledInv /\ CallersOK /\ call \in [Threads -> Frame]
  BY DEF SettledServiceInv, ServiceInv, ManagerInv
<1>2. PlainStep(t) \/ SignalStep(t)
  BY DEF PlainStep
<1>3. UNCHANGED <<runs, queues>>
  BY DEF LeaseNextRun, ReleaseLease, SignalStep, RereadRun, BeginRun, queueVars,
         storeVars
<1>4. \A s \in Threads \ {t} : call'[s] = call[s]
  BY <1>1, <1>2, OfOneMethod
<1>5. Hand(call[t]) /\ call[t].pc \in Pcs(call[t].op)
  BY <1>1 DEF SettledInv, CallersOK
<1>6. CASE SignalStep(t)
  <2>1. /\ call[t].pc = "signal" /\ call'[t].pc = "write"
        /\ call'[t].op = call[t].op /\ call'[t].run = call[t].run
    BY <1>1, <1>6 DEF SignalStep, Frame
  <2>2. InPlay(call[t]) <=> InPlay(call'[t])
    BY <2>1 DEF InPlay
  <2>3. QED
    BY <1>3, <1>4, <2>1, <2>2, QuietPhases
<1>7. CASE LeaseNextRun(t) \/ ReleaseLease(t) \/ RereadRun(t) \/ BeginRun(t)
  <2>1. call[t].pc \in {"lease", "release", "reread", "begin"} /\ ~InPlay(call[t])
    BY <1>7 DEF LeaseNextRun, ReleaseLease, RereadRun, BeginRun, InPlay
  <2>2. call'[t].pc \in {"dequeue", "done", "begin"} \/ ReleaseLease(t)
    <3>1. ASSUME NEW pc, call' = [call EXCEPT ![t].pc = pc]
          PROVE  call'[t].pc = pc
      BY <1>1, <3>1 DEF Frame
    <3>2. CASE LeaseNextRun(t)
      <4>1. PICK f : /\ f = [call[t] EXCEPT !.pc = "dequeue", !.token = NextToken]
                        \/ f = [call[t] EXCEPT !.pc = "done", !.run = None]
                     /\ call' = [call EXCEPT ![t] = f]
        BY <3>2 DEF LeaseNextRun
      <4>2. call[t] \in Frame /\ call'[t] = f
        BY <1>1, <4>1
      <4>3. QED
        BY <4>1, <4>2 DEF Frame
    <3>3. CASE RereadRun(t)
      BY <1>1, <3>3 DEF RereadRun, Frame
    <3>4. CASE BeginRun(t)
      BY <3>1, <3>4 DEF BeginRun, Goto
    <3>5. QED
      BY <1>7, <3>2, <3>3, <3>4
  <2>3. ASSUME ReleaseLease(t)
        PROVE  ~InPlay(call'[t])
    <3>1. call[t].pc = "release" /\ call'[t].pc = "signal"
          /\ call'[t].run = call[t].run
      BY <1>1, <2>3 DEF ReleaseLease, Forget, Frame
    <3>2. runs[call[t].run].state # "QUEUED"
      BY <1>5, <3>1 DEF Hand
    <3>3. QED
      BY <3>1, <3>2 DEF InPlay
  <2>4. ~InPlay(call'[t])
    BY <2>2, <2>3 DEF InPlay
  <2>5. QED
    BY <1>3, <1>4, <2>1, <2>4, QuietPhases
<1>8. QED
  BY <1>6, <1>7

\* A run that is stored is not yet in its line.
LEMMA Stores ==
  ASSUME SettledServiceInv, Settled, NEW t \in Threads, NEW r \in Runs,
         BeginCreate(t, r)
  PROVE  UNCHANGED Lifecycle!lifecycleVars
<1>1. /\ ManagerInv /\ SettledInv /\ call \in [Threads -> Frame]
      /\ runs \in [Runs -> RunRecord] /\ IdleFrame.run = None
      /\ \A s \in Threads : call[s] = IdleFrame
  BY InMethod DEF SettledServiceInv, ServiceInv, ManagerInv, RunsOK, IdleFrame,
     Settled, Idle
<1> DEFINE g == [IdleFrame EXCEPT !.op = "create", !.pc = "enqueue", !.run = r]
<1>2. /\ runs[r] = NoRun /\ runs'[r].state = "QUEUED" /\ UNCHANGED queues
      /\ \A s \in Runs \ {r} : runs'[s] = runs[s]
      /\ call' = [call EXCEPT ![t] = g]
  BY <1>1 DEF BeginCreate, Begin, storeVars, queueVars, RunRecord
<1>3. g.op = "create" /\ g.run = r
  BY DEF IdleFrame
<1> HIDE DEF g
<1>4. \A s \in Threads : call'[s] = IF s = t THEN g ELSE IdleFrame
  BY <1>1, <1>2
<1>5. \A s \in Runs : /\ ~InHand(s, "acquire", {"markLeased"})
                      /\ ~InHand(s, "cancel", {"signal", "write"})
                      /\ ~InHand(s, "acquire", {"markLeased"})'
                      /\ ~InHand(s, "cancel", {"signal", "write"})'
  BY <1>1, <1>3, <1>4 DEF InHand, IdleFrame
<1>6. \A s \in Runs : ~Granted(s) /\ ~Withdrawn(s) /\ ~Granted(s)' /\ ~Withdrawn(s)'
  BY <1>5 DEF Granted, Withdrawn
<1>7. Phase(r)' = Phase(r)
  <2>1. ~Waits(r)
    BY <1>1, <1>2, ManagerAssumption DEF ManagerInv, FreshRuns, NoRun, Waits
  <2>2. ~Waits(r)'
    BY <1>2, <2>1 DEF Waits
  <2>3. Phase(r) = "new"
    BY <1>2, <1>6, <2>1, PhaseOf DEF Phased, NoRun
  <2>4. Phase(r)' = "new"
    BY <1>2, <1>6, <2>2, PhaseOf DEF Phased
  <2>5. QED
    BY <2>3, <2>4
<1>8. \A s \in Runs \ {r} : Phase(s)' = Phase(s)
  BY <1>2, <1>6, SamePhase DEF Waits
<1>9. QED
  BY <1>2, <1>7, <1>8 DEF Lifecycle!lifecycleVars

\* Callers that begin a method, or go on after one, touch no run.
LEMMA Calling ==
  ASSUME SettledServiceInv, [Next]_vars, \A t \in Threads : ~ManagerStep(t),
         \A q \in Requests, r \in Runs : ~RequestCreate(q, r)
  PROVE  UNCHANGED Lifecycle!lifecycleVars
<1>1. /\ CallersOK /\ call \in [Threads -> Frame] /\ runs \in [Runs -> RunRecord]
      /\ \A t \in Threads : call[t].pc \in {"done", "threw", "idle"} => ~InPlay(call[t])
  BY DEF SettledServiceInv, ServiceInv, ManagerInv, RunsOK, InPlay
<1>2. /\ ~InPlay(IdleFrame)
      /\ \A u \in Users : ~InPlay(AcquireFrame(u))
      /\ IdleFrame.pc = "idle"
  BY DEF IdleFrame, AcquireFrame, InPlay
<1>3. ASSUME NEW t \in Threads, NEW f, call' = [call EXCEPT ![t] = f],
             ~InPlay(call[t]), ~InPlay(f), UNCHANGED <<runs, queues>>
      PROVE  UNCHANGED Lifecycle!lifecycleVars
  <2>1. \A s \in Threads : IF s = t THEN call'[s] = f ELSE call'[s] = call[s]
    BY <1>1, <1>3
  <2>2. InPlay(f)' <=> InPlay(f)
    BY <1>3 DEF InPlay
  <2>3. QED
    BY <1>3, <2>1, <2>2, QuietPhases
<1>4. ASSUME NEW u \in Users, LaneStep(u) \/ OutsideAnswers(u)
      PROVE  UNCHANGED Lifecycle!lifecycleVars
  <2>1. PICK l \in Lane : /\ call' = [call EXCEPT ![u] = First(u, l)]
                          /\ Moves(u, l)
    BY <1>1, <1>4, LaneMoves
  <2>2. UNCHANGED <<runs, queues>>
    BY <1>1, <1>4, LaneMoves DEF storeVars, queueVars
  <2>3. ~InPlay(First(u, l))
    <3>1. First(u, l).op = StageOp(l.at)
      BY <1>1, <2>1, FirstHanded, MovesShape DEF SettledServiceInv, ServiceInv
    <3>2. CASE l.at = "acquiring"
      BY <1>2, <3>2 DEF First
    <3>3. CASE l.at # "acquiring"
      BY <3>1, <3>3 DEF StageOp, InPlay
    <3>4. QED
      BY <3>2, <3>3
  <2>4. ~InPlay(call[u])
    <3>1. call[u].pc \in {"idle", "done", "threw"}
      BY <1>1, <1>4, LaneBetween
    <3>2. QED
      BY <1>1, <3>1, Names
  <2>5. QED
    BY <1>3, <2>1, <2>2, <2>3, <2>4, Names
<1>5. ASSUME NEW q \in Requests, RunCreated(q)
      PROVE  UNCHANGED Lifecycle!lifecycleVars
  <2>1. call[q].run \in Runs /\ call[q].pc = "done" /\ q \in Threads
    BY <1>1, <1>5, Names DEF RunCreated, CallersOK
  <2>2. PICK u \in Users : u = UserOf[call[q].run]
    BY <2>1, ManagerAssumption
  <2>3. UNCHANGED <<runs, queues>>
    BY <1>5 DEF RunCreated, storeVars, queueVars
  <2>4. u \in processingUsers \/ call[u].pc = "idle"
    BY <1>1, Names DEF processingUsers, CallersOK, StageOp, Pcs
  <2>5. ASSUME NEW t \in Threads, call'[t] # call[t]
        PROVE  ~InPlay(call[t]) /\ ~InPlay(call'[t])
    <3>1. \/ t = q /\ call'[t] = IdleFrame
          \/ t = u /\ call'[t] = AcquireFrame(u) /\ u \notin processingUsers
          \/ t = q /\ call'[t] = AcquireFrame(u)
      BY <1>1, <1>5, <2>1, <2>2, <2>5 DEF RunCreated
    <3>2. ~InPlay(call[t])
      BY <1>1, <2>1, <2>4, <3>1
    <3>3. QED
      BY <1>2, <2>3, <3>1, <3>2 DEF InPlay
  <2>6. QED
    BY <2>3, <2>5, QuietPhases
<1>6. ASSUME NEW q \in Requests, CancelReturns(q)
      PROVE  UNCHANGED Lifecycle!lifecycleVars
  <2>1. /\ call' = [call EXCEPT ![q] = IdleFrame] /\ UNCHANGED <<runs, queues>>
        /\ call[q].pc \in {"done", "threw"} /\ q \in Threads
    BY <1>6, Names DEF CancelReturns, storeVars, queueVars
  <2>2. QED
    BY <1>1, <1>2, <1>3, <2>1
<1>7. ASSUME NEW q \in Threads, NEW r \in Runs, NEW op, NEW reason,
             Begin(q, SettleFrame(op, r, reason)), UNCHANGED <<runs, queues>>
      PROVE  UNCHANGED Lifecycle!lifecycleVars
  <2>1. ~InPlay(SettleFrame(op, r, reason))
    <3>1. op = "cancel" /\ runs[r].state = "QUEUED" => AfterRead(op, runs[r]) = "remove"
      BY DEF AfterRead, isTerminalState
    <3>2. AfterRead(op, runs[r]) # "markLeased"
      BY DEF AfterRead, AfterRemove
    <3>3. QED
      BY <3>1, <3>2, SettleFields DEF InPlay
  <2>2. call[q] = IdleFrame
    BY <1>7 DEF Begin, Idle
  <2>3. QED
    BY <1>2, <1>3, <1>7, <2>1, <2>2 DEF Begin
<1>8. ASSUME NEW q \in Requests, NEW r \in Runs, NEW reason \in ClientReasons,
             RequestCancel(q, r, reason)
      PROVE  UNCHANGED Lifecycle!lifecycleVars
  <2>1. Begin(q, SettleFrame("cancel", r, reason)) /\ UNCHANGED <<runs, queues>>
        /\ q \in Threads
    BY <1>8, Names DEF RequestCancel, storeVars, queueVars
  <2>2. QED
    BY <1>7, <2>1
<1>9. ASSUME NEW r \in Runs, Timer(r)
      PROVE  UNCHANGED Lifecycle!lifecycleVars
  <2>1. CASE TimerFires(r)
    <3>1. Begin(r, SettleFrame("timeout", r, "timeout")) /\ UNCHANGED <<runs, queues>>
          /\ r \in Threads
      BY <2>1, Names DEF TimerFires, queueVars
    <3>2. QED
      BY <1>7, <3>1
  <2>2. CASE TimerReturns(r)
    <3>1. /\ call' = [call EXCEPT ![r] = IdleFrame] /\ UNCHANGED <<runs, queues>>
          /\ call[r].pc = "done" /\ r \in Threads
      BY <2>2, Names DEF TimerReturns, storeVars, queueVars
    <3>2. QED
      BY <1>1, <1>2, <1>3, <3>1
  <2>3. QED
    BY <1>9, <2>1, <2>2 DEF Timer
<1>10. ASSUME (\E u \in Users : Clock(u)) \/ AllServed \/ UNCHANGED vars
       PROVE  UNCHANGED Lifecycle!lifecycleVars
  <2>1. UNCHANGED <<runs, queues, call>>
    BY <1>10 DEF Clock, LeaseExpires, AllServed, vars, managerVars, storeVars, queueVars
  <2>2. QED
    BY <2>1, QuietPhases
<1>11. QED
  BY <1>4, <1>5, <1>6, <1>8, <1>9, <1>10 DEF Next, RequestStep

LEMMA LifecycleStep ==
  ASSUME StoresSettleAtOnce, SettledServiceInv, [Next]_vars
  PROVE  [Lifecycle!Next]_(Lifecycle!lifecycleVars)
<1>1. ASSUME NEW t \in Threads, ManagerStep(t)
      PROVE  [Lifecycle!Next]_(Lifecycle!lifecycleVars)
  <2>1. SignalStep(t) \/ PlainStep(t)
    BY <1>1 DEF ManagerStep, Signal
  <2>2. CASE EnqueueRun(t)
    BY <2>2, Submits DEF Lifecycle!Next
  <2>3. CASE DequeueNext(t)
    BY <2>3, Grants DEF Lifecycle!Next
  <2>4. CASE RemoveQueued(t)
    BY <2>4, Withdraws DEF Lifecycle!Next
  <2>5. CASE WriteTransition(t)
    BY <2>5, Finishes DEF Lifecycle!Next
  <2>6. CASE MarkLeased(t) \/ SetQueuePosition(t)
    BY <2>6, Marks
  <2>7. CASE \/ LeaseNextRun(t) \/ ReleaseLease(t) \/ SignalStep(t)
             \/ RereadRun(t) \/ BeginRun(t)
    BY <2>7, Aside
  <2>8. QED
    BY <2>1, <2>2, <2>3, <2>4, <2>5, <2>6, <2>7 DEF PlainStep
<1>2. ASSUME NEW q \in Requests, NEW r \in Runs, RequestCreate(q, r)
      PROVE  UNCHANGED Lifecycle!lifecycleVars
  <2>1. Settled /\ BeginCreate(q, r) /\ q \in Threads
    BY <1>2, Names DEF RequestCreate, MayBegin
  <2>2. QED
    BY <2>1, Stores
<1>3. QED
  BY <1>1, <1>2, Calling

\* With lanes, leases that expire, timers and cancels, the service serves each
\* user's line in order, one run at a time, and each run at most once: it
\* implements RunLifecycle (run-manager.ts and run-execution.service.ts).
THEOREM ServesLines ==
  ASSUME StoresSettleAtOnce
  PROVE  Spec => ImplementsLifecycle
<1>1. Init => Lifecycle!Init
  <2> SUFFICES ASSUME Init  PROVE Lifecycle!Init
    OBVIOUS
  <2>1. /\ runs = [r \in Runs |-> NoRun] /\ call = [t \in Threads |-> IdleFrame]
        /\ queues = [u \in Users |-> << >>]
    BY DEF Init, ManagerInit, QueueInit
  <2>2. ASSUME NEW r \in Runs
        PROVE  Phase(r) = "new"
    <3>1. ~Waits(r)
      BY <2>1, ManagerAssumption DEF Waits, ToSet
    <3>2. runs[r].state = "NONE" /\ ~Granted(r) /\ ~Withdrawn(r)
      BY <2>1 DEF NoRun, Granted, Withdrawn
    <3>3. QED
      BY <3>1, <3>2, PhaseOf DEF Phased
  <2>3. QED
    BY <2>1, <2>2 DEF Lifecycle!Init
<1>2. SettledServiceInv /\ [Next]_vars => [Lifecycle!Next]_(Lifecycle!lifecycleVars)
  BY LifecycleStep
<1>3. QED
  BY <1>1, <1>2, SettledService, PTL DEF Spec, ImplementsLifecycle, Lifecycle!Spec

=============================================================================
