------------------------- MODULE RunExecutionProofs -------------------------
(***************************************************************************)
(* RunExecution for every number of users, runs and requests, every latency *)
(* of the stores and any lease expiry: it uses the manager as RunManager    *)
(* expects, so the manager's invariant holds of the service, and no run is  *)
(* started twice.                                                           *)
(***************************************************************************)
EXTENDS RunExecution, RunManagerProofs

Lane == [at : Stages, run : Runs \cup {None}]

\* The steps of each method.
Pcs(op) ==
  CASE op = "none"    -> {"idle"}
    [] op = "create"  -> {"enqueue", "setPosition", "done"}
    [] op = "acquire" -> {"lease", "dequeue", "markLeased", "done"}
    [] op = "get"     -> {"done"}
    [] OTHER          -> {"remove", "release", "signal", "write", "reread",
                          "begin", "done", "threw"}

\* The method a processor is in at each of its stages ...
StageOp(at) ==
  CASE at = "acquiring"                -> "acquire"
    [] at = "starting"                 -> "start"
    [] at \in {"checking", "catching"} -> "get"
    [] at = "completing"               -> "complete"
    [] at = "failing"                  -> "fail"
    [] OTHER                           -> "none"

\* ... and the frame it enters it with.
First(u, l) ==
  CASE l.at = "acquiring"                -> AcquireFrame(u)
    [] l.at = "starting"                 -> StartFrame(l.run)
    [] l.at \in {"checking", "catching"} -> GetFrame(l.run)
    [] l.at = "completing"               -> SettleFrame("complete", l.run, None)
    [] l.at = "failing"                  -> SettleFrame("fail", l.run, None)
    [] OTHER                             -> IdleFrame

\* Who calls what: processors are in the method of their stage and about their
\* run, requests create and cancel, and timers time out.
CallersOK ==
  /\ \A t \in Threads :
       /\ call[t].pc \in Pcs(call[t].op)
       /\ call[t].op \notin {"none", "acquire"} => call[t].run \in Runs
  /\ \A q \in Requests : call[q].op \in {"none", "create", "cancel"}
  /\ \A r \in Runs : call[r].op \in {"none", "timeout"}
  /\ lane \in [Users -> Lane]
  /\ \A u \in Users :
       /\ lane[u].run = None <=> lane[u].at \in {"off", "acquiring"}
       /\ call[u].op = StageOp(lane[u].at)
       /\ call[u].op \notin {"none", "acquire"} => call[u].run = lane[u].run

-----------------------------------------------------------------------------
\* A processor leaves stage lane[u] for l: with the run it acquired or the one
\* it has, or with none.
Moves(u, l) ==
  \/ /\ lane[u].at = "acquiring" /\ call[u].pc = "done"
     /\ \/ call[u].run = None /\ l = [at |-> "off", run |-> None]
        \/ call[u].run # None /\ l = [at |-> "provisioning", run |-> call[u].run]
  \/ /\ lane[u].at \notin {"off", "acquiring"}
     /\ \/ l = [at |-> "acquiring", run |-> None]
        \/ /\ l.run = lane[u].run
           /\ l.at \notin {"off", "acquiring", "provisioning"}
           /\ l.at = "starting" => lane[u].at = "provisioning"

\* Every step of a processor is a move, into the method of the new stage.
LEMMA LaneMoves ==
  ASSUME CallersOK, call \in [Threads -> Frame], NEW u \in Users,
         LaneStep(u) \/ OutsideAnswers(u)
  PROVE  /\ UNCHANGED <<storeVars, runs, cancels>>
         /\ \E l \in Lane :
              /\ lane' = [lane EXCEPT ![u] = l]
              /\ call' = [call EXCEPT ![u] = First(u, l)]
              /\ Moves(u, l)
<1>1. /\ lane \in [Users -> Lane] /\ lane[u] \in Lane /\ u \in Threads
      /\ call[u] \in Frame
      /\ lane[u].run = None <=> lane[u].at \in {"off", "acquiring"}
  BY ExecutionAssumption DEF CallersOK, Threads
<1> DEFINE r == lane[u].run
           L(at) == [at |-> at, run |-> r]
           Into(l) == /\ lane' = [lane EXCEPT ![u] = l]
                      /\ call' = [call EXCEPT ![u] = First(u, l)]
           Inside == lane[u].at \notin {"off", "acquiring"}
<1>2. \A at : [lane EXCEPT ![u].at = at] = [lane EXCEPT ![u] = L(at)]
  <2> TAKE at
  <2>1. [lane[u] EXCEPT !.at = at] = L(at)
    BY <1>1 DEF Lane
  <2>2. [lane EXCEPT ![u].at = at] = [lane EXCEPT ![u] = [lane[u] EXCEPT !.at = at]]
    OBVIOUS
  <2>3. QED
    BY <2>1, <2>2
<1>3. ASSUME NEW stage \in Stages, AwaitOutside(u, stage), StageOp(stage) = "none"
      PROVE  Into(L(stage))
  <2>1. First(u, L(stage)) = IdleFrame
    BY <1>3 DEF First, StageOp
  <2>2. QED
    BY <1>2, <1>3, <2>1 DEF AwaitOutside
<1>4. ASSUME NEW stage \in Stages, NEW f, AwaitManager(u, stage, f),
             f = First(u, L(stage))
      PROVE  Into(L(stage))
  BY <1>2, <1>4 DEF AwaitManager
<1>5. Catch(u) => Into(L("catching"))
  <2>1. First(u, L("catching")) = GetFrame(r)
    BY DEF First
  <2>2. QED
    BY <1>4, <2>1 DEF Catch, Stages
<1>6. NextRun(u) => Into([at |-> "acquiring", run |-> None])
  BY DEF NextRun, First
<1>7. ASSUME NEW stage \in Stages \ {"off", "acquiring", "provisioning"},
             Into(L(stage)), Inside,
             stage = "starting" => lane[u].at = "provisioning"
      PROVE  \E l \in Lane : Into(l) /\ Moves(u, l)
  <2>1. L(stage) \in Lane
    BY <1>1 DEF Lane
  <2>2. Moves(u, L(stage))
    BY <1>7 DEF Moves
  <2>3. QED
    BY <1>7, <2>1, <2>2
<1>8. ASSUME NextRun(u), Inside
      PROVE  \E l \in Lane : Into(l) /\ Moves(u, l)
  BY <1>6, <1>8 DEF Moves, Lane, Stages
<1>9. ASSUME Catch(u), Inside
      PROVE  \E l \in Lane : Into(l) /\ Moves(u, l)
  BY <1>5, <1>7, <1>9 DEF Stages
<1>10. CASE Acquired(u)
  <2> DEFINE l == IF call[u].run = None
                    THEN [at |-> "off", run |-> None]
                    ELSE [at |-> "provisioning", run |-> call[u].run]
  <2>1. l \in Lane
    BY <1>1, <1>10 DEF Lane, Frame, Stages
  <2>2. First(u, l) = IdleFrame
    BY DEF First
  <2>3. Into(l)
    BY <1>10, <2>2 DEF Acquired
  <2>4. Moves(u, l)
    BY <1>10 DEF Acquired, Resumes, Moves
  <2> HIDE DEF l
  <2>5. QED
    BY <1>10, <2>1, <2>3, <2>4 DEF Acquired
<1>11. CASE Provisioned(u)
  <2>1. First(u, L("starting")) = StartFrame(r)
    BY DEF First
  <2>2. lane[u].at = "provisioning" /\ Inside
    BY <1>11 DEF Provisioned
  <2>3. CASE AwaitManager(u, "starting", StartFrame(r))
    BY <1>4, <1>7, <1>11, <2>1, <2>2, <2>3 DEF Provisioned, Stages
  <2>4. QED
    BY <1>9, <1>11, <2>2, <2>3 DEF Provisioned
<1>12. CASE Started(u)
  <2>1. Inside
    BY <1>12 DEF Started, Resumes
  <2>2. StageOp("loadingPack") = "none"
    BY DEF StageOp
  <2>3. CASE AwaitOutside(u, "loadingPack")
    BY <1>3, <1>7, <1>12, <2>1, <2>2, <2>3 DEF Started, Stages
  <2>4. QED
    BY <1>9, <1>12, <2>1, <2>3 DEF Started
<1>13. CASE PackLoaded(u)
  <2>1. Inside
    BY <1>13 DEF PackLoaded
  <2>2. StageOp("prompting") = "none"
    BY DEF StageOp
  <2>3. CASE AwaitOutside(u, "prompting")
    BY <1>3, <1>7, <1>13, <2>1, <2>2, <2>3 DEF PackLoaded, Stages
  <2>4. QED
    BY <1>9, <1>13, <2>1, <2>3 DEF PackLoaded
<1>14. CASE AgentSettles(u)
  <2>1. Inside
    BY <1>14 DEF AgentSettles
  <2>2. First(u, L("checking")) = GetFrame(r)
    BY DEF First
  <2>3. CASE AwaitManager(u, "checking", GetFrame(r))
    BY <1>4, <1>7, <1>14, <2>1, <2>2, <2>3 DEF AgentSettles, Stages
  <2>4. QED
    BY <1>9, <1>14, <2>1, <2>3 DEF AgentSettles
<1>15. CASE Checked(u)
  <2>1. Inside
    BY <1>15 DEF Checked, Resumes
  <2>2. First(u, L("completing")) = SettleFrame("complete", r, None)
    BY DEF First
  <2>3. CASE AwaitManager(u, "completing", SettleFrame("complete", r, None))
    BY <1>4, <1>7, <1>15, <2>1, <2>2, <2>3 DEF Checked, Stages
  <2>4. QED
    BY <1>8, <1>15, <2>1, <2>3 DEF Checked
<1>16. CASE Completed(u)
  <2>1. Inside
    BY <1>16 DEF Completed, Resumes
  <2>2. QED
    BY <1>8, <1>9, <1>16, <2>1 DEF Completed
<1>17. CASE Caught(u)
  <2>1. Inside
    BY <1>17 DEF Caught, Resumes
  <2>2. First(u, L("failing")) = SettleFrame("fail", r, None)
    BY DEF First
  <2>3. CASE AwaitManager(u, "failing", SettleFrame("fail", r, None))
    BY <1>4, <1>7, <1>17, <2>1, <2>2, <2>3 DEF Caught, Stages
  <2>4. QED
    BY <1>8, <1>17, <2>1, <2>3 DEF Caught
<1>18. CASE Failed(u)
  <2>1. Inside
    BY <1>18 DEF Failed, Resumes
  <2>2. StageOp("crashed") = "none"
    BY DEF StageOp
  <2>3. CASE AwaitOutside(u, "crashed")
    BY <1>3, <1>7, <1>18, <2>1, <2>2, <2>3 DEF Failed, Stages
  <2>4. QED
    BY <1>8, <1>18, <2>1, <2>3 DEF Failed
<1>19. QED
  BY <1>10, <1>11, <1>12, <1>13, <1>14, <1>15, <1>16, <1>17, <1>18
     DEF LaneStep, OutsideAnswers

-----------------------------------------------------------------------------
(* What no step undoes.                                                      *)

\* A run that was created stays created, is enqueued by the createRun that
\* made it and by no other, and into its user's queue.
Forward ==
  /\ \A r \in Runs : runs'[r].state = "NONE" => runs[r].state = "NONE"
  /\ \A t \in Threads : call'[t].pc = "enqueue" =>
       \/ call[t].pc = "enqueue" /\ call'[t].run = call[t].run
       \/ runs[call'[t].run].state = "NONE"
  /\ \A u \in Users, r \in Runs : r \in ToSet(queues'[u]) =>
       \/ r \in ToSet(queues[u])
       \/ UserOf[r] = u /\ \E t \in Threads : Enqueuing(t) /\ call[t].run = r

LEMMA QuietForward ==
  ASSUME runs' = runs, queues' = queues,
         \A s \in Threads : call'[s] = call[s] \/ call'[s].pc # "enqueue"
  PROVE  Forward
BY DEF Forward

LEMMA StepForward ==
  ASSUME ManagerInv, NEW t \in Threads, PlainStep(t) \/ SignalStep(t)
  PROVE  Forward
<1>1. /\ call[t].run \in Runs /\ UserOf[call[t].run] \in Users
      /\ runs \in [Runs -> RunRecord] /\ QueueInv
  BY InMethod, OfOneMethod, ManagerAssumption
     DEF FrameShape, Between, ManagerInv
<1>2. PICK r \in Runs : r = call[t].run
  BY <1>1
<1>3. \A s \in Threads : call'[s] = call[s] \/ call'[s].pc # "enqueue"
  BY OfOneMethod
<1>4. \A s \in Runs : runs'[s].state = "NONE" => runs[s].state = "NONE"
  <2>1. CASE SetQueuePosition(t)
    BY <1>1, <2>1 DEF SetQueuePosition, RunRecord
  <2>2. CASE MarkLeased(t)
    BY <1>1, <2>2 DEF MarkLeased
  <2>3. CASE WriteTransition(t)
    <3>1. Target(call[t].op) # "NONE"
      BY <2>3, InMethod DEF WriteTransition, FrameShape, Settling, Target
    <3>2. runs[r] \in RunRecord
      BY <1>1
    <3> DEFINE to == Target(call[t].op)
    <3>3. CASE runs' = [runs EXCEPT ![r] =
                 IF isTerminalState(to)
                   THEN [@ EXCEPT !.state = to, !.queuePosition = None]
                   ELSE [@ EXCEPT !.state = to]]
      BY <1>1, <3>1, <3>2, <3>3 DEF RunRecord
    <3>4. QED
      BY <1>2, <2>3, <3>3 DEF WriteTransition
  <2>4. CASE ~SetQueuePosition(t) /\ ~MarkLeased(t) /\ ~WriteTransition(t)
    BY <2>4 DEF PlainStep, EnqueueRun, LeaseNextRun, DequeueNext, RemoveQueued,
                ReleaseLease, SignalStep, RereadRun, BeginRun
  <2>5. QED
    BY <2>1, <2>2, <2>3, <2>4
<1>5. ASSUME NEW u \in Users, NEW s \in Runs, s \in ToSet(queues'[u])
      PROVE  \/ s \in ToSet(queues[u])
             \/ UserOf[s] = u /\ \E q \in Threads : Enqueuing(q) /\ call[q].run = s
  <2>1. CASE EnqueueRun(t)
    <3>1. /\ Enqueue(call[t].run, UserOf[call[t].run]) /\ Enqueuing(t)
          /\ UserOf[call[t].run] \in Users /\ QueueInv /\ call[t].run \in Runs
      BY <1>1, <2>1 DEF EnqueueRun, Enqueuing
    <3>2. \/ s \in ToSet(queues[u])
          \/ u = UserOf[call[t].run] /\ s = call[t].run
      BY <1>5, <3>1, EnqueueAdds
    <3>3. QED
      BY <1>2, <3>1, <3>2
  <2>2. CASE DequeueNext(t) \/ RemoveQueued(t)
    <3>1. (\E v \in Users : Dequeue(v)) \/ \E x \in Runs : RemoveFromQueue(x)
      <4>1. DequeueNext(t) => Dequeue(UserOf[call[t].run])
        BY DEF DequeueNext
      <4>2. RemoveQueued(t) => RemoveFromQueue(call[t].run)
        BY DEF RemoveQueued
      <4>3. QED
        BY <1>1, <2>2, <4>1, <4>2
    <3>2. QED
      BY <1>1, <1>5, <3>1, QueueShrinks
  <2>3. CASE ~EnqueueRun(t) /\ ~DequeueNext(t) /\ ~RemoveQueued(t)
    <3>1. queues' = queues
      BY <2>3 DEF PlainStep, SetQueuePosition, LeaseNextRun, MarkLeased,
                  ReleaseLease, SignalStep, WriteTransition, RereadRun, BeginRun,
                  storeVars, queueVars
    <3>2. QED
      BY <1>5, <3>1
  <2>4. QED
    BY <2>1, <2>2, <2>3
<1>6. QED
  BY <1>3, <1>4, <1>5 DEF Forward

LEMMA CreateForward ==
  ASSUME ManagerInv, NEW t \in Threads, NEW r \in Runs, BeginCreate(t, r)
  PROVE  Forward
<1> DEFINE f == [IdleFrame EXCEPT !.op = "create", !.pc = "enqueue", !.run = r]
<1>1. f.run = r
  BY DEF IdleFrame
<1> HIDE DEF f
<1>2. /\ call \in [Threads -> Frame] /\ runs \in [Runs -> RunRecord]
      /\ runs[r].state = "NONE" /\ queues' = queues
      /\ call' = [call EXCEPT ![t] = f]
      /\ runs' = [runs EXCEPT ![r].state = "QUEUED"]
  BY InMethod, NoRunIsRecord DEF BeginCreate, Begin, storeVars, queueVars, f
<1>3. /\ call'[t].run = r
      /\ \A s \in Threads \ {t} : call'[s] = call[s]
      /\ \A s \in Runs \ {r} : runs'[s] = runs[s]
      /\ \A s \in Runs : runs'[s].state = "NONE" => runs[s].state = "NONE"
  BY <1>1, <1>2 DEF RunRecord
<1>4. \A s \in Threads : call'[s].pc = "enqueue" =>
        \/ call[s].pc = "enqueue" /\ call'[s].run = call[s].run
        \/ runs[call'[s].run].state = "NONE"
  BY <1>2, <1>3
<1>5. QED
  BY <1>2, <1>3, <1>4 DEF Forward

-----------------------------------------------------------------------------
(* The service calls the manager as RunManager expects.                      *)

\* A frame a thread may be handed without a call of the stores.
Handed(f) == FrameShape(f) /\ FrameTokens(f, Own) /\ f.pc # "enqueue"

LEMMA HandedIdle == ManagerInv => Handed(IdleFrame)
BY NoneAssumption, NoRunIsRecord
   DEF Handed, IdleFrame, FrameShape, FrameTokens, Frame

LEMMA FramesOnly ==
  ASSUME ManagerInv, call' \in [Threads -> Frame],
         \A s \in Threads : call'[s] = call[s] \/ Handed(call'[s]),
         UNCHANGED <<storeVars, runs>>
  PROVE  Kept /\ Forward
<1>1. /\ UNCHANGED queueVars /\ UNCHANGED leaseVars /\ UNCHANGED signalVars
      /\ queues' = queues /\ leases' = leases /\ issued' = issued
  BY DEF storeVars, queueVars, leaseVars
<1>2. Own' = Own
  BY <1>1 DEF Own
<1>3. QueueInv' /\ LeaseInv' /\ SignalsTypeOK'
  BY <1>1, QueueInvStep, LeaseInvStep DEF ManagerInv, signalVars, SignalsTypeOK
<1>4. ASSUME NEW s \in Threads
      PROVE  /\ FrameShape(call'[s]) /\ FrameTokens(call'[s], Own)
             /\ call'[s].pc = "enqueue" => call'[s] = call[s]
  BY <1>4, InMethod DEF Handed
<1>5. FramesOK'
  BY <1>2, <1>4 DEF FramesOK
<1>6. FreshRuns'
  BY <1>1, <1>4 DEF ManagerInv, FreshRuns, Enqueuing
<1>7. RunsOK' /\ LeasesInLane'
  BY <1>1, <1>2 DEF ManagerInv, RunsOK, LeasesInLane
<1>8. Forward
  BY <1>1, QuietForward DEF Handed
<1>9. QED
  BY <1>1, <1>3, <1>5, <1>6, <1>7, <1>8 DEF ManagerInv, Kept

LEMMA FirstHanded ==
  ASSUME ManagerInv, NEW u \in Users, NEW l \in Lane,
         l.run = None <=> l.at \in {"off", "acquiring"}
  PROVE  /\ Handed(First(u, l))
         /\ First(u, l).pc \in Pcs(First(u, l).op)
         /\ First(u, l).op = StageOp(l.at)
         /\ First(u, l).op \notin {"none", "acquire"} => First(u, l).run = l.run
<1> DEFINE Good(f) == /\ Handed(f) /\ f.pc \in Pcs(f.op) /\ f.op = StageOp(l.at)
                      /\ f.op \notin {"none", "acquire"} => f.run = l.run
<1>1. CASE l.at = "acquiring"
  <2>1. Handed(AcquireFrame(u))
    BY FirstFrames DEF Handed
  <2>2. AcquireFrame(u).op = "acquire" /\ AcquireFrame(u).pc \in {"lease", "done"}
    BY DEF AcquireFrame, IdleFrame
  <2>3. Good(AcquireFrame(u))
    BY <1>1, <2>1, <2>2 DEF Pcs, StageOp
  <2>4. QED
    BY <1>1, <2>3 DEF First
<1>2. CASE l.at = "starting"
  <2>1. Handed(StartFrame(l.run))
    BY <1>2, FirstFrames DEF Handed, Lane
  <2>2. Good(StartFrame(l.run))
    BY <1>2, <2>1, FirstFields DEF Pcs, StageOp
  <2>3. QED
    BY <1>2, <2>2 DEF First
<1>3. CASE l.at \in {"checking", "catching"}
  <2>1. Handed(GetFrame(l.run))
    <3>1. l.run \in Runs
      BY <1>3 DEF Lane
    <3>2. /\ runs[l.run] \in RunRecord
          /\ <<runs[l.run].leaseToken, l.run>> \in Own
          /\ <<NoToken, l.run>> \in Own
      BY <3>1, NoTokenIsOwn DEF ManagerInv, RunsOK
    <3>3. QED
      BY <3>1, <3>2
         DEF GetFrame, IdleFrame, Handed, FrameShape, FrameTokens, Frame
  <2>2. Good(GetFrame(l.run))
    BY <1>3, <2>1, FirstFields DEF Pcs, StageOp
  <2>3. QED
    BY <1>3, <2>2 DEF First
<1>4. ASSUME NEW op \in {"complete", "fail"},
             First(u, l) = SettleFrame(op, l.run, None), StageOp(l.at) = op,
             l.run \in Runs
      PROVE  Good(First(u, l))
  <2>1. Handed(SettleFrame(op, l.run, None))
    BY <1>4, SettleFrames DEF Handed, Settling
  <2>2. /\ SettleFrame(op, l.run, None).op = op
        /\ SettleFrame(op, l.run, None).run = l.run
        /\ SettleFrame(op, l.run, None).pc \in {"done", "remove", "release", "signal"}
    BY SettleFields DEF AfterRead, AfterRemove
  <2>3. Good(SettleFrame(op, l.run, None))
    BY <1>4, <2>1, <2>2 DEF Pcs
  <2>4. QED
    BY <1>4, <2>3
<1>5. CASE l.at = "completing"
  BY <1>4, <1>5 DEF First, StageOp, Lane
<1>6. CASE l.at = "failing"
  BY <1>4, <1>6 DEF First, StageOp, Lane
<1>7. CASE l.at \notin {"acquiring", "starting", "checking", "catching",
                        "completing", "failing"}
  <2>1. Good(IdleFrame)
    BY <1>7, HandedIdle DEF IdleFrame, Pcs, StageOp
  <2>2. QED
    BY <1>7, <2>1 DEF First
<1>8. QED
  BY <1>1, <1>2, <1>3, <1>5, <1>6, <1>7

\* What a step inside the manager does to its frame.
LEMMA StepInPcs ==
  ASSUME ManagerInv, NEW t \in Threads, PlainStep(t) \/ SignalStep(t),
         call[t].pc \in Pcs(call[t].op)
  PROVE  /\ call'[t].pc \in Pcs(call[t].op)
         /\ call[t].op = "acquire" =>
              \/ LeaseNextRun(t) /\ call'[t].pc \in {"dequeue", "done"}
              \/ DequeueNext(t) /\ call'[t].pc = "markLeased"
              \/ MarkLeased(t) /\ call'[t].pc = "done"
<1>1. call \in [Threads -> Frame] /\ call[t] \in Frame
  BY InMethod
<1>2. CASE EnqueueRun(t)
  BY <1>1, <1>2 DEF EnqueueRun, Frame, Pcs
<1>3. CASE SetQueuePosition(t)
  BY <1>1, <1>3 DEF SetQueuePosition, Goto, Frame, Pcs
<1>4. CASE LeaseNextRun(t)
  BY <1>1, <1>4 DEF LeaseNextRun, Frame, Pcs
<1>5. CASE DequeueNext(t)
  BY <1>1, <1>5 DEF DequeueNext, Goto, Frame, Pcs
<1>6. CASE MarkLeased(t)
  BY <1>1, <1>6 DEF MarkLeased, Goto, Frame, Pcs
<1>7. CASE RemoveQueued(t)
  BY <1>1, <1>7 DEF RemoveQueued, AfterRemove, Goto, Frame, Pcs
<1>8. CASE ReleaseLease(t)
  BY <1>1, <1>8 DEF ReleaseLease, Forget, Frame, Pcs
<1>9. CASE SignalStep(t)
  BY <1>1, <1>9 DEF SignalStep, Frame, Pcs
<1>10. CASE WriteTransition(t)
  BY <1>1, <1>10 DEF WriteTransition, Forget, Frame, Pcs
<1>11. CASE RereadRun(t)
  BY <1>1, <1>11 DEF RereadRun, Frame, Pcs
<1>12. CASE BeginRun(t)
  BY <1>1, <1>12 DEF BeginRun, Goto, Frame, Pcs
<1>13. QED
  BY <1>2, <1>3, <1>4, <1>5, <1>6, <1>7, <1>8, <1>9, <1>10, <1>11, <1>12
     DEF PlainStep

LEMMA Names ==
  /\ Threads = Users \cup Requests \cup Runs
  /\ Users \cap Requests = {} /\ Users \cap Runs = {} /\ Requests \cap Runs = {}
BY ExecutionAssumption, ManagerAssumption DEF Threads

LEMMA MovesShape ==
  ASSUME CallersOK, call \in [Threads -> Frame],
         NEW u \in Users, NEW l \in Lane, Moves(u, l)
  PROVE  l.run = None <=> l.at \in {"off", "acquiring"}
BY DEF Moves, CallersOK

\* A processor moves.
LEMMA LaneKept ==
  ASSUME ManagerInv, CallersOK, NEW u \in Users, LaneStep(u) \/ OutsideAnswers(u)
  PROVE  Kept /\ Forward /\ CallersOK'
<1>1. call \in [Threads -> Frame] /\ u \in Threads
  BY InMethod, Names
<1>2. UNCHANGED <<storeVars, runs>>
  BY <1>1, LaneMoves
<1>3. PICK l \in Lane : /\ lane' = [lane EXCEPT ![u] = l]
                        /\ call' = [call EXCEPT ![u] = First(u, l)]
                        /\ l.run = None <=> l.at \in {"off", "acquiring"}
  BY <1>1, LaneMoves, MovesShape
<1>4. PICK f : /\ f = First(u, l) /\ Handed(f) /\ f.pc \in Pcs(f.op)
               /\ f.op = StageOp(l.at)
               /\ f.op \notin {"none", "acquire"} => f.run = l.run
  BY <1>3, FirstHanded
<1>5. /\ call' \in [Threads -> Frame] /\ call'[u] = f
      /\ \A s \in Threads \ {u} : call'[s] = call[s]
  BY <1>1, <1>3, <1>4 DEF Handed, FrameShape
<1>6. Kept /\ Forward
  BY <1>2, <1>4, <1>5, FramesOnly
<1>7. CallersOK'
  <2>1. /\ lane \in [Users -> Lane] /\ lane' \in [Users -> Lane] /\ lane'[u] = l
        /\ \A v \in Users \ {u} : lane'[v] = lane[v]
    BY <1>3 DEF CallersOK
  <2>2. f.op \notin {"none", "acquire"} => l.run \in Runs
    BY <1>3, <1>4 DEF Lane, StageOp
  <2>3. QED
    BY <1>3, <1>4, <1>5, <2>1, <2>2, Names DEF CallersOK
<1>8. QED
  BY <1>6, <1>7

\* createRun returns, and may wake the processor of its user.
LEMMA RunCreatedKept ==
  ASSUME ManagerInv, CallersOK, NEW q \in Requests, RunCreated(q)
  PROVE  Kept /\ Forward /\ CallersOK'
<1>1. /\ call \in [Threads -> Frame] /\ q \in Threads /\ lane \in [Users -> Lane]
      /\ call[q].pc \in Pcs(call[q].op) /\ call[q].op = "create"
      /\ UNCHANGED <<storeVars, runs>>
  BY InMethod, Names DEF CallersOK, RunCreated
<1>2. /\ Handed(IdleFrame) /\ IdleFrame.op = "none" /\ IdleFrame.pc \in Pcs("none")
      /\ IdleFrame \in Frame
  BY HandedIdle DEF IdleFrame, Pcs, Handed, FrameShape
<1>3. CASE UNCHANGED lane /\ call' = [call EXCEPT ![q] = IdleFrame]
  <2>1. /\ call' \in [Threads -> Frame] /\ call'[q] = IdleFrame
        /\ \A s \in Threads \ {q} : call'[s] = call[s]
    BY <1>1, <1>2, <1>3
  <2>2. Kept /\ Forward
    BY <1>1, <1>2, <2>1, FramesOnly
  <2>3. CallersOK'
    BY <1>2, <1>3, <2>1, Names DEF CallersOK
  <2>4. QED
    BY <2>2, <2>3
<1>4. ASSUME NEW u \in Users, lane[u].at = "off",
             lane' = [lane EXCEPT ![u].at = "acquiring"],
             call' = [call EXCEPT ![q] = IdleFrame, ![u] = AcquireFrame(u)]
      PROVE  Kept /\ Forward /\ CallersOK'
  <2> DEFINE l == [at |-> "acquiring", run |-> None]
  <2>1. /\ lane' \in [Users -> Lane] /\ lane'[u] = l
        /\ \A v \in Users \ {u} : lane'[v] = lane[v]
    BY <1>1, <1>4 DEF Lane, Stages, CallersOK
  <2>2. First(u, l) = AcquireFrame(u) /\ l \in Lane
    BY DEF First, Lane, Stages
  <2>3. PICK f : /\ f = AcquireFrame(u) /\ Handed(f) /\ f.pc \in Pcs(f.op)
                 /\ f.op = "acquire"
    <3>1. /\ Handed(First(u, l)) /\ First(u, l).pc \in Pcs(First(u, l).op)
          /\ First(u, l).op = StageOp("acquiring")
      BY <2>2, FirstHanded
    <3>2. QED
      BY <2>2, <3>1 DEF StageOp
  <2>4. /\ call' \in [Threads -> Frame] /\ call'[q] = IdleFrame /\ call'[u] = f
        /\ \A s \in Threads \ {q, u} : call'[s] = call[s]
    BY <1>1, <1>2, <1>4, <2>3, Names DEF Handed, FrameShape
  <2>5. Kept /\ Forward
    BY <1>1, <1>2, <2>3, <2>4, FramesOnly
  <2>6. CallersOK'
    <3> HIDE DEF l
    <3>1. l.at = "acquiring" /\ l.run = None
      BY DEF l
    <3>2. QED
      BY <1>2, <2>1, <2>3, <2>4, <3>1, Names DEF CallersOK, StageOp
  <2>7. QED
    BY <2>5, <2>6
<1>5. UserOf[call[q].run] \in Users
  <2>1. call[q].run \in Runs
    BY <1>1 DEF CallersOK
  <2>2. QED
    BY <2>1, ManagerAssumption
<1>6. QED
  BY <1>3, <1>4, <1>5 DEF RunCreated, processingUsers


\* A request ends.
LEMMA CancelReturnsKept ==
  ASSUME ManagerInv, CallersOK, NEW q \in Requests, CancelReturns(q)
  PROVE  Kept /\ Forward /\ CallersOK'
<1>1. /\ call \in [Threads -> Frame] /\ q \in Threads
      /\ call' = [call EXCEPT ![q] = IdleFrame]
      /\ UNCHANGED <<storeVars, runs, lane>>
  BY InMethod, Names DEF CancelReturns
<1>2. /\ Handed(IdleFrame) /\ IdleFrame.op = "none" /\ IdleFrame.pc \in Pcs("none")
      /\ IdleFrame \in Frame
  BY HandedIdle DEF IdleFrame, Pcs, Handed, FrameShape
<1>3. /\ call' \in [Threads -> Frame] /\ call'[q] = IdleFrame
      /\ \A s \in Threads \ {q} : call'[s] = call[s]
  BY <1>1, <1>2
<1>4. Kept /\ Forward
  BY <1>1, <1>2, <1>3, FramesOnly
<1>5. QED
  BY <1>1, <1>2, <1>3, <1>4, Names DEF CallersOK

\* What keeps CallersOK in a step of one thread that is no processor's move.
LEMMA CallersKept ==
  ASSUME CallersOK, call \in [Threads -> Frame], UNCHANGED lane,
         NEW t \in Threads, \A s \in Threads \ {t} : call'[s] = call[s],
         call'[t].pc \in Pcs(call'[t].op),
         call'[t].op \notin {"none", "acquire"} => call'[t].run \in Runs,
         \/ /\ call'[t].op = call[t].op
            /\ call'[t].run = call[t].run \/ call[t].op = "acquire"
         \/ t \in Requests /\ call'[t].op \in {"none", "create", "cancel"}
         \/ t \in Runs /\ call'[t].op \in {"none", "timeout"}
  PROVE  CallersOK'
<1>1. /\ \A s \in Threads : /\ call'[s].pc \in Pcs(call'[s].op)
                            /\ call'[s].op \notin {"none", "acquire"} =>
                                 call'[s].run \in Runs
  BY DEF CallersOK
<1>2. \A q \in Requests : call'[q].op \in {"none", "create", "cancel"}
  BY Names DEF CallersOK
<1>3. \A r \in Runs : call'[r].op \in {"none", "timeout"}
  BY Names DEF CallersOK
<1>4. \A u \in Users : call'[u].op = call[u].op
  BY Names
<1>5. \A u \in Users : call'[u].op \notin {"none", "acquire"} =>
        call'[u].run = call[u].run
  BY <1>4, Names
<1>6. QED
  BY <1>1, <1>2, <1>3, <1>4, <1>5 DEF CallersOK

LEMMA ManagerStepKept ==
  ASSUME ManagerInv, CallersOK, NEW t \in Threads, ManagerStep(t)
  PROVE  Kept /\ Forward /\ CallersOK'
<1>1. PlainStep(t) \/ SignalStep(t)
  BY DEF ManagerStep, Signal
<1>2. Kept /\ Forward
  BY <1>1, ManagerNextKept, StepForward DEF ManagerNext
<1>3. UNCHANGED lane
  BY DEF ManagerStep, Signal, execVars
<1>4. /\ \A s \in Threads \ {t} : call'[s] = call[s]
      /\ call'[t].op = call[t].op /\ call'[t].pc \in Pcs(call'[t].op)
  BY <1>1, OfOneMethod, StepInPcs DEF CallersOK
<1>5. call'[t].run = call[t].run \/ call[t].op = "acquire"
  BY <1>1, OfOneMethod DEF CallersOK, Pcs
<1>6. call'[t].op \notin {"none", "acquire"} => call'[t].run \in Runs
  BY <1>4, <1>5 DEF CallersOK
<1>7. QED
  BY <1>2, <1>3, <1>4, <1>5, <1>6, InMethod, CallersKept

LEMMA RequestsKept ==
  ASSUME ManagerInv, CallersOK, NEW q \in Requests, NEW r \in Runs,
         \/ RequestCreate(q, r)
         \/ \E reason \in ClientReasons : RequestCancel(q, r, reason)
  PROVE  Kept /\ Forward /\ CallersOK'
<1>1. q \in Threads /\ q \in Tasks /\ call \in [Threads -> Frame]
  BY InMethod, Names, ExecutionAssumption
<1>2. CASE RequestCreate(q, r)
  <2> DEFINE f == [IdleFrame EXCEPT !.op = "create", !.pc = "enqueue", !.run = r]
  <2>1. Kept /\ Forward
    BY <1>1, <1>2, BeginCreateKept, CreateForward DEF RequestCreate
  <2>2. call' = [call EXCEPT ![q] = f] /\ UNCHANGED lane
    BY <1>2 DEF RequestCreate, BeginCreate, Begin, execVars
  <2>3. f.op = "create" /\ f.pc = "enqueue" /\ f.run = r
    BY DEF IdleFrame
  <2> HIDE DEF f
  <2>4. call'[q] = f /\ \A s \in Threads \ {q} : call'[s] = call[s]
    BY <1>1, <2>2
  <2>5. "enqueue" \in Pcs("create")
    BY DEF Pcs
  <2>6. CallersOK'
    BY <1>1, <2>2, <2>3, <2>4, <2>5, CallersKept
  <2>7. QED
    BY <2>1, <2>6
<1>3. ASSUME NEW reason \in ClientReasons, RequestCancel(q, r, reason)
      PROVE  Kept /\ Forward /\ CallersOK'
  <2>1. reason \in Reasons /\ "cancel" \in Settling
    BY ExecutionAssumption DEF Settling
  <2>2. PICK f : /\ f = SettleFrame("cancel", r, reason) /\ Handed(f)
                 /\ f.op = "cancel" /\ f.run = r
                 /\ f.pc \in {"done", "remove", "release", "signal"}
    BY <2>1, SettleFrames, SettleFields DEF Handed, AfterRead, AfterRemove
  <2>3. /\ call' = [call EXCEPT ![q] = f] /\ UNCHANGED lane
        /\ UNCHANGED <<storeVars, runs>>
    BY <1>3, <2>2 DEF RequestCancel, Begin
  <2>4. /\ call'[q] = f /\ \A s \in Threads \ {q} : call'[s] = call[s]
        /\ call' \in [Threads -> Frame]
    BY <1>1, <2>2, <2>3 DEF Handed, FrameShape
  <2>5. Kept /\ Forward
    BY <2>2, <2>3, <2>4, FramesOnly
  <2>6. f.pc \in Pcs(f.op)
    BY <2>2 DEF Pcs
  <2>7. CallersOK'
    BY <1>1, <2>2, <2>3, <2>4, <2>6, CallersKept
  <2>8. QED
    BY <2>5, <2>7
<1>4. QED
  BY <1>2, <1>3

LEMMA TimerKept ==
  ASSUME ManagerInv, CallersOK, NEW r \in Runs, Timer(r)
  PROVE  Kept /\ Forward /\ CallersOK'
<1>1. /\ Kept /\ UNCHANGED lane
      /\ UNCHANGED <<queues, runs>>
  BY ManagerNextKept
     DEF Timer, TimerFires, TimerReturns, ManagerNext, execVars, storeVars,
         queueVars
<1>2. r \in Threads /\ call \in [Threads -> Frame]
  BY InMethod, Names
<1>3. CASE TimerFires(r)
  <2>1. PICK f : /\ f = SettleFrame("timeout", r, "timeout")
                 /\ f.op = "timeout" /\ f.run = r
                 /\ f.pc \in {"done", "remove", "release", "signal"}
    BY SettleFields DEF AfterRead, AfterRemove
  <2>2. call' = [call EXCEPT ![r] = f]
    BY <1>3, <2>1 DEF TimerFires, Begin
  <2>3. call'[r] = f /\ \A s \in Threads \ {r} : call'[s] = call[s]
    BY <1>2, <2>2
  <2>4. f.pc \in Pcs(f.op)
    BY <2>1 DEF Pcs
  <2>5. QED
    BY <1>1, <1>2, <2>1, <2>3, <2>4, CallersKept, QuietForward
<1>4. CASE TimerReturns(r)
  <2>1. call'[r] = IdleFrame /\ \A s \in Threads \ {r} : call'[s] = call[s]
    BY <1>2, <1>4 DEF TimerReturns
  <2>2. /\ IdleFrame.op = "none" /\ IdleFrame.pc \in Pcs("none")
        /\ IdleFrame.pc # "enqueue"
    BY DEF IdleFrame, Pcs
  <2>3. QED
    BY <1>1, <1>2, <2>1, <2>2, CallersKept, QuietForward
<1>5. QED
  BY <1>3, <1>4 DEF Timer

LEMMA ServiceKept ==
  ASSUME ManagerInv, CallersOK, [Next]_vars
  PROVE  Kept /\ Forward /\ CallersOK'
<1>1. CASE UNCHANGED vars
  <2>1. UNCHANGED managerVars /\ UNCHANGED <<call, lane, runs, queues>>
    BY <1>1 DEF vars, execVars, managerVars, storeVars, queueVars
  <2>2. Kept /\ Forward
    BY <2>1, ManagerNextKept, QuietForward
  <2>3. QED
    BY <2>1, <2>2 DEF CallersOK
<1>2. ASSUME NEW u \in Users, Clock(u)
      PROVE  Kept /\ Forward /\ CallersOK'
  <2>1. UNCHANGED <<call, lane, runs, queues>>
    BY <1>2 DEF Clock, LeaseExpires, execVars, queueVars
  <2>2. Kept /\ Forward
    BY <1>2, <2>1, ManagerNextKept, QuietForward DEF Clock, ManagerNext
  <2>3. QED
    BY <2>1, <2>2 DEF CallersOK
<1>3. QED
  BY <1>1, <1>2, LaneKept, RunCreatedKept, CancelReturnsKept, ManagerStepKept,
     RequestsKept, TimerKept DEF Next, RequestStep, AllServed

-----------------------------------------------------------------------------
(* No run is started twice.                                                  *)

\* A run that has been through createRun's call of the queue ...
Past(r) ==
  /\ runs[r].state # "NONE"
  /\ \A t \in Threads : Enqueuing(t) => call[t].run # r

\* ... and one that has left the queue as well.
Gone(r) == Past(r) /\ \A u \in Users : r \notin ToSet(queues[u])

QueuesInLane ==
  \A u \in Users, r \in Runs : r \in ToSet(queues[u]) => UserOf[r] = u

AtHead(u, r) ==
  r \in ToSet(queues[u]) => queues[u] # << >> /\ Head(queues[u]) = r

\* The run a processor acquires or serves is its user's, and is not started
\* before the processor says so; it has left the queue once acquireNextRun has
\* called dequeue, which shifts out the head, or finds the run gone already.
Served(u) ==
  \A r \in Runs :
    /\ call[u].op = "acquire" /\ call[u].run = r =>
         /\ UserOf[r] = u /\ ~Told(r, "run_started") /\ Past(r)
         /\ IF call[u].pc \in {"lease", "dequeue"} THEN AtHead(u, r) ELSE Gone(r)
    /\ lane[u].run = r =>
         /\ UserOf[r] = u /\ Gone(r)
         /\ lane[u].at \in {"provisioning", "starting"} =>
              ~Told(r, "run_started")

StartedGone == \A r \in Runs : Told(r, "run_started") => Gone(r)

\* The inductive invariant of the service under any schedule.
ServiceInv ==
  /\ ManagerInv /\ CallersOK /\ QueuesInLane
  /\ events \in [Runs -> Seq(EventKinds)]
  /\ \A u \in Users : Served(u)
  /\ StartedGone /\ StartedOnce

\* What an event after the others is.
LEMMA SaysNext ==
  ASSUME NEW s \in Seq(EventKinds), NEW k \in EventKinds
  PROVE  /\ Append(s, k) \in Seq(EventKinds)
         /\ Len(s) \in Nat /\ Len(Append(s, k)) = Len(s) + 1
         /\ DOMAIN s = 1..Len(s) /\ DOMAIN Append(s, k) = 1..(Len(s) + 1)
         /\ Append(s, k)[Len(s) + 1] = k
         /\ \A i \in 1..Len(s) : Append(s, k)[i] = s[i]
         /\ ToSet(Append(s, k)) = ToSet(s) \cup {k}
<1>1. /\ Append(s, k) \in Seq(EventKinds)
      /\ Len(s) \in Nat /\ Len(Append(s, k)) = Len(s) + 1
      /\ DOMAIN s = 1..Len(s) /\ DOMAIN Append(s, k) = 1..(Len(s) + 1)
      /\ Append(s, k)[Len(s) + 1] = k
      /\ \A i \in 1..Len(s) : Append(s, k)[i] = s[i]
  OBVIOUS
<1> DEFINE a == Append(s, k)
<1> HIDE DEF a
<1>2. \A i \in 1..(Len(s) + 1) : i \in 1..Len(s) \/ i = Len(s) + 1
  BY <1>1
<1>3. \A e : e \in ToSet(a) <=> \E i \in 1..(Len(s) + 1) : a[i] = e
  BY <1>1 DEF ToSet, a
<1>4. \A e : e \in ToSet(s) <=> \E i \in 1..Len(s) : s[i] = e
  BY <1>1 DEF ToSet
<1>5. Len(s) + 1 \in 1..(Len(s) + 1) /\ \A i \in 1..Len(s) : i \in 1..(Len(s) + 1)
  BY <1>1
<1>6. ASSUME NEW e
      PROVE  e \in ToSet(a) <=> e \in ToSet(s) \/ e = k
  BY <1>1, <1>2, <1>3, <1>4, <1>5 DEF a
<1>7. QED
  BY <1>1, <1>6 DEF a

\* emitTerminalOnce followed by closeRun.
LEMMA SaysTwo ==
  ASSUME NEW s \in Seq(EventKinds), NEW k \in EventKinds, NEW j \in EventKinds
  PROVE  s \o <<k, j>> = Append(Append(s, k), j)
OBVIOUS

\* The kinds of a step's events: at most one, or a terminal one and "closed".
Ends(r, k) == events' = [events EXCEPT ![r] = Append(Append(@, k), "closed")]
Starting(u) == lane[u].at = "starting" /\ lane'[u].at = "loadingPack"

LEMMA NewsOf ==
  ASSUME CallersOK, events \in [Runs -> Seq(EventKinds)],
         call \in [Threads -> Frame], [Next]_vars
  PROVE  \/ UNCHANGED events
         \/ \E r \in Runs, k \in EventKinds :
              /\ Broadcast(r, k)
              /\ k = "run_started" =>
                   \E u \in Users : Starting(u) /\ lane[u].run = r
         \/ \E r \in Runs, k \in TerminalKinds : Ends(r, k)
<1> DEFINE News(kinds) == \/ UNCHANGED events
                          \/ \E r \in Runs, k \in kinds : Broadcast(r, k)
                          \/ \E r \in Runs, k \in TerminalKinds : Ends(r, k)
           Quiet == EventKinds \ {"run_started"}
<1>1. TerminalKinds \subseteq Quiet /\ {"run_queued", "closed"} \subseteq Quiet
  BY DEF TerminalKinds, EventKinds
<1>2. ASSUME NEW r \in Runs, NEW k \in TerminalKinds, emitTerminalOnce(r, k)
      PROVE  News(Quiet)
  BY <1>1, <1>2 DEF emitTerminalOnce, clientVars
<1>3. ASSUME NEW r \in Runs, NEW k \in TerminalKinds, Conclude(r, k)
      PROVE  News(Quiet)
  <2>1. /\ events[r] \in Seq(EventKinds) /\ k \in EventKinds
        /\ "closed" \in EventKinds
    BY <1>1 DEF EventKinds
  <2>2. events[r] \o <<k, "closed">> = Append(Append(events[r], k), "closed")
    BY <2>1, SaysTwo
  <2>3. CASE r \in terminalEvents
    BY <1>1, <1>3, <2>3 DEF Conclude, Broadcast
  <2>4. CASE r \notin terminalEvents
    BY <1>3, <2>2, <2>4 DEF Conclude, Ends
  <2>5. QED
    BY <2>3, <2>4
<1>4. ASSUME NEW u \in Users, lane[u].at \notin {"off", "acquiring"}
      PROVE  lane[u].run \in Runs
  BY <1>4 DEF CallersOK, Lane
<1>5. ASSUME NEW u \in Users, LaneStep(u), ~Started(u)
      PROVE  News(Quiet)
  <2>1. CASE Acquired(u)
    BY <2>1 DEF Acquired, clientVars
  <2>2. CASE Checked(u)
    <3>1. lane[u].run \in Runs
      BY <1>4, <2>2 DEF Checked, Resumes
    <3>2. QED
      BY <1>1, <2>2, <3>1 DEF Checked, clientVars
  <2>3. CASE Completed(u)
    <3>1. lane[u].run \in Runs /\ "run_completed" \in TerminalKinds
      BY <1>4, <2>3 DEF Completed, Resumes, TerminalKinds
    <3>2. QED
      BY <1>3, <2>3, <3>1 DEF Completed, clientVars
  <2>4. CASE Caught(u)
    BY <2>4 DEF Caught, clientVars
  <2>5. CASE Failed(u)
    <3>1. lane[u].run \in Runs /\ "run_failed" \in TerminalKinds
      BY <1>4, <2>5 DEF Failed, Resumes, TerminalKinds
    <3>2. QED
      BY <1>3, <2>5, <3>1 DEF Failed, clientVars
  <2>6. QED
    BY <1>5, <2>1, <2>2, <2>3, <2>4, <2>5 DEF LaneStep
<1>6. ASSUME NEW u \in Users, Started(u)
      PROVE  \/ UNCHANGED events
             \/ /\ Broadcast(lane[u].run, "run_started") /\ Starting(u)
                /\ lane[u].run \in Runs
  <2>1. lane[u].at = "starting" /\ lane[u].run \in Runs
    BY <1>4, <1>6 DEF Started, Resumes
  <2>2. lane \in [Users -> Lane] /\ lane[u] \in Lane
    BY DEF CallersOK
  <2>3. AwaitOutside(u, "loadingPack") => lane'[u].at = "loadingPack"
    BY <2>2 DEF AwaitOutside, Lane
  <2>4. QED
    BY <1>6, <2>1, <2>3 DEF Started, Starting
<1>7. ASSUME NEW u \in Users, OutsideAnswers(u)
      PROVE  News(Quiet)
  BY <1>7 DEF OutsideAnswers, Provisioned, PackLoaded, AgentSettles, clientVars
<1>8. ASSUME NEW q \in Requests, RequestStep(q)
      PROVE  News(Quiet)
  <2>1. q \in Threads
    BY Names
  <2>2. CASE RunCreated(q)
    <3>1. call[q].run \in Runs
      BY <2>1, <2>2 DEF RunCreated, CallersOK
    <3>2. QED
      BY <1>1, <2>2, <3>1 DEF RunCreated
  <2>3. CASE CancelReturns(q)
    <3>1. call[q].run \in Runs /\ "run_cancelled" \in TerminalKinds
      BY <2>1, <2>3 DEF CancelReturns, CallersOK, TerminalKinds
    <3>2. QED
      BY <1>2, <2>3, <3>1 DEF CancelReturns, clientVars
  <2>4. QED
    BY <1>8, <2>2, <2>3 DEF RequestStep
<1>9. ASSUME NEW t \in Threads, ManagerStep(t)
      PROVE  News(Quiet)
  <2>1. CASE Signal(t)
    <3>1. CASE call[t].op \in {"cancel", "timeout"}
      <4>1. call[t].run \in Runs
        BY <3>1 DEF CallersOK
      <4>2. {"run_timed_out", "run_cancelled"} \subseteq TerminalKinds
        BY DEF TerminalKinds
      <4>3. QED
        BY <1>2, <2>1, <4>1, <4>2 DEF Signal, clientVars
    <3>2. QED
      BY <2>1, <3>1 DEF Signal, clientVars
  <2>2. CASE UNCHANGED execVars
    BY <2>2 DEF execVars, clientVars
  <2>3. QED
    BY <1>9, <2>1, <2>2 DEF ManagerStep
<1>10. ASSUME \/ \E q \in Requests, r \in Runs :
                  \/ RequestCreate(q, r)
                  \/ \E reason \in ClientReasons : RequestCancel(q, r, reason)
              \/ \E r \in Runs : Timer(r)
              \/ \E u \in Users : Clock(u)
              \/ AllServed \/ UNCHANGED vars
       PROVE  News(Quiet)
  BY <1>10 DEF RequestCreate, RequestCancel, Timer, Clock, AllServed, vars,
               execVars, clientVars
<1>11. News(Quiet) \/ \E u \in Users : Started(u)
  BY <1>5, <1>7, <1>8, <1>9, <1>10 DEF Next
<1>12. CASE News(Quiet)
  BY <1>12
<1>13. ASSUME NEW u \in Users, Started(u)
       PROVE  \/ UNCHANGED events
              \/ \E r \in Runs, k \in EventKinds :
                   /\ Broadcast(r, k)
                   /\ k = "run_started" =>
                        \E v \in Users : Starting(v) /\ lane[v].run = r
  BY <1>6, <1>13 DEF EventKinds
<1>14. QED
  BY <1>11, <1>12, <1>13

\* One more event of a run: run_started was told before, or is what is told.
LEMMA OneMore ==
  ASSUME NEW s \in Seq(EventKinds), NEW k \in EventKinds,
         \A i, j \in DOMAIN s : s[i] = "run_started" /\ s[j] = "run_started" => i = j,
         k = "run_started" => k \notin ToSet(s)
  PROVE  \A i, j \in DOMAIN Append(s, k) :
           Append(s, k)[i] = "run_started" /\ Append(s, k)[j] = "run_started" => i = j
<1> DEFINE a == Append(s, k)
<1>1. /\ Len(s) \in Nat /\ DOMAIN s = 1..Len(s) /\ DOMAIN a = 1..(Len(s) + 1)
      /\ a[Len(s) + 1] = k /\ \A i \in 1..Len(s) : a[i] = s[i]
  BY SaysNext
<1>2. \A i \in 1..Len(s) : k = "run_started" => s[i] # k
  BY <1>1 DEF ToSet
<1> HIDE DEF a
<1>3. \A i \in DOMAIN a : i \in 1..Len(s) \/ i = Len(s) + 1
  BY <1>1
<1>4. \A i, j \in DOMAIN a : a[i] = "run_started" /\ a[j] = "run_started" => i = j
  BY <1>1, <1>2, <1>3
<1>5. QED
  BY <1>4 DEF a

LEMMA StartNews ==
  ASSUME ServiceInv, [Next]_vars
  PROVE  /\ events' \in [Runs -> Seq(EventKinds)]
         /\ StartedOnce'
         /\ \A r \in Runs : Told(r, "run_started")' =>
              \/ Told(r, "run_started")
              \/ \E u \in Users : Starting(u) /\ lane[u].run = r
<1> DEFINE Once(s) == \A i, j \in DOMAIN s :
                        s[i] = "run_started" /\ s[j] = "run_started" => i = j
           Begun(r) == \E u \in Users : Starting(u) /\ lane[u].run = r
<1>1. /\ events \in [Runs -> Seq(EventKinds)]
      /\ \A r \in Runs : Once(events[r])
      /\ \A r \in Runs : Begun(r) => "run_started" \notin ToSet(events[r])
  BY DEF ServiceInv, StartedOnce, Served, Told, Starting, CallersOK
<1>2. CASE UNCHANGED events
  BY <1>1, <1>2 DEF StartedOnce, Told
<1>3. ASSUME NEW r \in Runs, NEW s, events' = [events EXCEPT ![r] = s],
             s \in Seq(EventKinds), Once(s),
             "run_started" \in ToSet(s) =>
               "run_started" \in ToSet(events[r]) \/ Begun(r)
      PROVE  /\ events' \in [Runs -> Seq(EventKinds)]
             /\ StartedOnce'
             /\ \A x \in Runs : Told(x, "run_started")' =>
                  Told(x, "run_started") \/ Begun(x)
  <2>1. events'[r] = s /\ \A x \in Runs \ {r} : events'[x] = events[x]
    BY <1>1, <1>3
  <2>2. events' \in [Runs -> Seq(EventKinds)]
    BY <1>1, <1>3
  <2>3. \A x \in Runs : Once(events'[x])
    BY <1>1, <1>3, <2>1
  <2> HIDE DEF Begun
  <2>4. \A x \in Runs : Told(x, "run_started")' => Told(x, "run_started") \/ Begun(x)
    BY <1>3, <2>1 DEF Told
  <2>5. QED
    BY <2>2, <2>3, <2>4 DEF StartedOnce
<1>4. ASSUME NEW r \in Runs, NEW k \in EventKinds, Broadcast(r, k),
             k = "run_started" => Begun(r)
      PROVE  /\ events' \in [Runs -> Seq(EventKinds)]
             /\ StartedOnce'
             /\ \A x \in Runs : Told(x, "run_started")' =>
                  Told(x, "run_started") \/ Begun(x)
  <2>1. /\ Append(events[r], k) \in Seq(EventKinds)
        /\ ToSet(Append(events[r], k)) = ToSet(events[r]) \cup {k}
    BY <1>1, SaysNext
  <2>2. Once(Append(events[r], k))
    BY <1>1, <1>4, OneMore
  <2>3. QED
    BY <1>3, <1>4, <2>1, <2>2 DEF Broadcast
<1>5. ASSUME NEW r \in Runs, NEW k \in TerminalKinds, Ends(r, k)
      PROVE  /\ events' \in [Runs -> Seq(EventKinds)]
             /\ StartedOnce'
             /\ \A x \in Runs : Told(x, "run_started")' =>
                  Told(x, "run_started") \/ Begun(x)
  <2> DEFINE a == Append(events[r], k)
  <2>1. /\ k \in EventKinds /\ k # "run_started"
        /\ "closed" \in EventKinds /\ "closed" # "run_started"
    BY DEF TerminalKinds, EventKinds
  <2>2. /\ a \in Seq(EventKinds) /\ ToSet(a) = ToSet(events[r]) \cup {k}
    BY <1>1, <2>1, SaysNext
  <2>3. Once(a)
    BY <1>1, <2>1, OneMore
  <2> HIDE DEF a
  <2>4. /\ Append(a, "closed") \in Seq(EventKinds)
        /\ ToSet(Append(a, "closed")) = ToSet(a) \cup {"closed"}
    BY <2>1, <2>2, SaysNext
  <2>5. Once(Append(a, "closed"))
    BY <2>1, <2>2, <2>3, OneMore
  <2>6. events' = [events EXCEPT ![r] = Append(a, "closed")]
    BY <1>5 DEF Ends, a
  <2>7. QED
    BY <1>3, <2>1, <2>2, <2>4, <2>5, <2>6
<1>6. CallersOK /\ call \in [Threads -> Frame]
  BY DEF ServiceInv, ManagerInv
<1>7. QED
  BY <1>1, <1>2, <1>4, <1>5, <1>6, NewsOf

LEMMA PastStays ==
  ASSUME Forward, NEW r \in Runs, Past(r)
  PROVE  /\ Past(r)'
         /\ \A u \in Users : r \in ToSet(queues'[u]) => r \in ToSet(queues[u])
         /\ Gone(r) => Gone(r)'
<1>1. /\ runs[r].state # "NONE"
      /\ \A t \in Threads : Enqueuing(t) => call[t].run # r
  BY DEF Past
<1>2. runs'[r].state # "NONE"
  BY <1>1 DEF Forward
<1>3. \A t \in Threads : Enqueuing(t)' => call'[t].run # r
  BY <1>1 DEF Forward, Enqueuing
<1>4. \A u \in Users : r \in ToSet(queues'[u]) => r \in ToSet(queues[u])
  BY <1>1 DEF Forward
<1>5. QED
  BY <1>2, <1>3, <1>4 DEF Past, Gone

LEMMA WaitingIsPast ==
  ASSUME FreshRuns, NEW u \in Users, NEW r \in Runs, r \in ToSet(queues[u])
  PROVE  Past(r)
BY DEF FreshRuns, Past

\* A processor no step of which is taken, and whose run nobody starts.
LEMMA OthersServed ==
  ASSUME ServiceInv, Forward, HeadsStay, NEW u \in Users,
         UNCHANGED <<call[u], lane[u]>>,
         \A r \in Runs : UserOf[r] = u /\ Told(r, "run_started")' =>
           Told(r, "run_started")
  PROVE  Served(u)'
<1>1. Served(u) /\ call'[u] = call[u] /\ lane'[u] = lane[u]
  BY DEF ServiceInv
<1>2. ASSUME NEW r \in Runs, Past(r), AtHead(u, r)
      PROVE  AtHead(u, r)'
  BY <1>2, PastStays DEF AtHead, HeadsStay
<1>3. ASSUME NEW r \in Runs, call[u].op = "acquire", call[u].run = r
      PROVE  /\ UserOf[r] = u /\ ~Told(r, "run_started")' /\ Past(r)'
             /\ IF call[u].pc \in {"lease", "dequeue"}
                  THEN AtHead(u, r)' ELSE Gone(r)'
  BY <1>1, <1>2, <1>3, PastStays DEF Served
<1>4. ASSUME NEW r \in Runs, lane[u].run = r
      PROVE  /\ UserOf[r] = u /\ Gone(r)'
             /\ lane[u].at \in {"provisioning", "starting"} =>
                  ~Told(r, "run_started")'
  <2>1. UserOf[r] = u /\ Gone(r) /\ Past(r)
    BY <1>1, <1>4 DEF Served, Gone
  <2>2. QED
    BY <1>1, <1>4, <2>1, PastStays DEF Served
<1>5. QED
  BY <1>1, <1>3, <1>4 DEF Served


\* Only its own processor starts a run.
LEMMA OwnStart ==
  ASSUME ServiceInv, [Next]_vars, NEW u \in Users, NEW r \in Runs, UserOf[r] = u,
         Told(r, "run_started")', ~Starting(u)
  PROVE  Told(r, "run_started")
<1>1. ASSUME NEW v \in Users, Starting(v), lane[v].run = r
      PROVE  FALSE
  <2>1. UserOf[r] = v
    BY <1>1 DEF ServiceInv, Served
  <2>2. QED
    BY <1>1, <2>1
<1>2. QED
  BY <1>1, StartNews

\* A processor that begins to acquire.
LEMMA AcquiringServed ==
  ASSUME ServiceInv, [Next]_vars, Forward, NEW u \in Users,
         call'[u] = AcquireFrame(u), lane'[u] = [at |-> "acquiring", run |-> None],
         UNCHANGED queues
  PROVE  Served(u)'
<1>1. lane'[u].run = None /\ ~Starting(u)
  BY DEF Starting
<1>2. SUFFICES ASSUME NEW r \in Runs, AcquireFrame(u).run = r
               PROVE  /\ UserOf[r] = u /\ ~Told(r, "run_started")' /\ Past(r)'
                      /\ call'[u].pc = "lease" /\ AtHead(u, r)'
  BY <1>1, NoneAssumption DEF Served
<1>3. /\ queues[u] # << >> /\ r = Head(queues[u])
      /\ AcquireFrame(u).pc = "lease"
  BY <1>2, NoneAssumption DEF AcquireFrame, Peek, IdleFrame
<1>4. r \in ToSet(queues[u])
  <2>1. queues[u] \in Seq(Runs)
    BY DEF ServiceInv, ManagerInv, QueueInv, QueueTypeOK
  <2>2. 1 \in DOMAIN queues[u] /\ Head(queues[u]) = queues[u][1]
    BY <1>3, <2>1
  <2>3. QED
    BY <1>3, <2>2 DEF ToSet
<1>5. UserOf[r] = u /\ Past(r)
  BY <1>4, WaitingIsPast DEF ServiceInv, ManagerInv, QueuesInLane
<1>6. ~Told(r, "run_started")
  BY <1>4 DEF ServiceInv, StartedGone, Gone
<1>7. ~Told(r, "run_started")'
  BY <1>1, <1>5, <1>6, OwnStart
<1>8. QED
  BY <1>3, <1>5, <1>7, PastStays DEF AtHead

LEMMA LaneServed ==
  ASSUME ServiceInv, [Next]_vars, Forward, NEW u \in Users,
         LaneStep(u) \/ OutsideAnswers(u)
  PROVE  Served(u)'
<1>1. /\ CallersOK /\ call \in [Threads -> Frame] /\ u \in Threads
      /\ lane \in [Users -> Lane] /\ lane[u] \in Lane /\ call[u] \in Frame
      /\ Served(u)
  BY Names, InMethod DEF ServiceInv, CallersOK
<1>2. PICK l \in Lane : /\ lane'[u] = l /\ call'[u] = First(u, l) /\ Moves(u, l)
  BY <1>1, LaneMoves
<1>3. UNCHANGED queues
  BY <1>1, LaneMoves DEF storeVars, queueVars
<1>4. CASE l = [at |-> "acquiring", run |-> None]
  BY <1>2, <1>3, <1>4, AcquiringServed DEF First
<1>5. CASE l # [at |-> "acquiring", run |-> None]
  <2>1. First(u, l).op = "acquire" => l.at = "acquiring"
    BY DEF First, IdleFrame, StartFrame, GetFrame, SettleFrame
  <2>2. l.at # "acquiring"
    BY <1>2, <1>5 DEF Moves
  <2>3. ASSUME NEW r \in Runs, l.run = r
        PROVE  /\ UserOf[r] = u /\ Gone(r)'
               /\ l.at \in {"provisioning", "starting"} => ~Told(r, "run_started")'
    <3>1. CASE /\ lane[u].at = "acquiring" /\ call[u].pc = "done"
               /\ call[u].run = r
      <4>1. call[u].op = "acquire"
        BY <1>1, <3>1 DEF CallersOK, StageOp
      <4>2. UserOf[r] = u /\ ~Told(r, "run_started") /\ Gone(r) /\ Past(r)
        BY <1>1, <3>1, <4>1 DEF Served
      <4>3. ~Starting(u)
        BY <3>1 DEF Starting
      <4>4. QED
        BY <4>2, <4>3, OwnStart, PastStays
    <3>2. CASE /\ lane[u].run = r
               /\ l.at # "provisioning"
               /\ l.at = "starting" => lane[u].at = "provisioning"
      <4>1. UserOf[r] = u /\ Gone(r) /\ Past(r)
        BY <1>1, <3>2 DEF Served, Gone
      <4>2. ASSUME l.at = "starting"
            PROVE  ~Told(r, "run_started")'
        <5>1. ~Told(r, "run_started") /\ ~Starting(u)
          BY <1>1, <3>2, <4>2 DEF Served, Starting
        <5>2. QED
          BY <4>1, <5>1, OwnStart
      <4>3. QED
        BY <3>2, <4>1, <4>2, PastStays
    <3>3. QED
      BY <1>2, <1>5, <2>3, <3>1, <3>2, NoneAssumption DEF Moves
  <2>4. QED
    BY <1>2, <2>1, <2>2, <2>3 DEF Served
<1>6. QED
  BY <1>4, <1>5

\* A processor inside acquireNextRun, or another method of the manager.
LEMMA ManagerServed ==
  ASSUME ServiceInv, [Next]_vars, Forward, HeadsStay, NEW u \in Users,
         ManagerStep(u)
  PROVE  Served(u)'
<1>1. /\ CallersOK /\ call \in [Threads -> Frame] /\ u \in Threads
      /\ call[u].pc \in Pcs(call[u].op) /\ call[u] \in Frame
      /\ Served(u) /\ ManagerInv
  BY Names, InMethod DEF ServiceInv, CallersOK
<1>2. PlainStep(u) \/ SignalStep(u)
  BY DEF ManagerStep, Signal
<1>3. lane'[u] = lane[u] /\ ~Starting(u)
  BY DEF ManagerStep, Signal, execVars, Starting
<1>4. call'[u].op = call[u].op
  BY <1>1, <1>2, OfOneMethod
<1>5. ASSUME NEW r \in Runs, lane[u].run = r
      PROVE  /\ UserOf[r] = u /\ Gone(r)'
             /\ lane[u].at \in {"provisioning", "starting"} =>
                  ~Told(r, "run_started")'
  <2>1. UserOf[r] = u /\ Gone(r) /\ Past(r)
    BY <1>1, <1>5 DEF Served, Gone
  <2>2. QED
    BY <1>1, <1>3, <1>5, <2>1, OwnStart, PastStays DEF Served
<1>6. ASSUME call[u].op = "acquire", NEW r \in Runs, call'[u].run = r
      PROVE  /\ UserOf[r] = u /\ ~Told(r, "run_started")' /\ Past(r)'
             /\ IF call'[u].pc \in {"lease", "dequeue"}
                  THEN AtHead(u, r)' ELSE Gone(r)'
  <2>1. call[u].run = r
    BY <1>1, <1>2, <1>6, OfOneMethod, NoneAssumption
  <2>2. UserOf[r] = u /\ ~Told(r, "run_started") /\ Past(r)
    BY <1>1, <1>6, <2>1 DEF Served
  <2>3. ~Told(r, "run_started")' /\ Past(r)'
    BY <1>3, <2>2, OwnStart, PastStays
  <2>4. CASE LeaseNextRun(u) /\ call'[u].pc \in {"dequeue", "done"}
    <3>1. call[u].pc = "lease" /\ call'[u].pc = "dequeue"
      BY <1>1, <1>6, <2>4, NoneAssumption DEF LeaseNextRun, Frame
    <3>2. AtHead(u, r)
      BY <1>1, <1>6, <2>1, <3>1 DEF Served
    <3>3. AtHead(u, r)'
      BY <2>2, <3>2, PastStays DEF AtHead, HeadsStay
    <3>4. QED
      BY <2>2, <2>3, <3>1, <3>3
  <2>5. CASE DequeueNext(u) /\ call'[u].pc = "markLeased"
    <3>1. call[u].pc = "dequeue" /\ Dequeue(UserOf[call[u].run])
      BY <2>5 DEF DequeueNext
    <3>2. Dequeue(u)
      BY <2>1, <2>2, <3>1
    <3>3. AtHead(u, r)
      BY <1>1, <1>6, <2>1, <3>1 DEF Served
    <3>4. ASSUME NEW v \in Users
          PROVE  r \notin ToSet(queues'[v])
      <4>1. r \in ToSet(queues[v]) => v = u
        BY <2>2 DEF ServiceInv, QueuesInLane
      <4>2. QED
        BY <1>1, <3>2, <3>3, <4>1, DequeueDropsHead DEF AtHead, ManagerInv
    <3>5. Gone(r)'
      BY <2>3, <3>4 DEF Gone
    <3>6. QED
      BY <2>2, <2>3, <2>5, <3>5
  <2>6. CASE MarkLeased(u) /\ call'[u].pc = "done"
    <3>1. Gone(r)
      BY <1>1, <1>6, <2>1, <2>6 DEF Served, MarkLeased
    <3>2. QED
      BY <2>2, <2>3, <2>6, <3>1, PastStays
  <2>7. QED
    BY <1>1, <1>2, <1>6, <2>4, <2>5, <2>6, StepInPcs
<1>7. QED
  BY <1>3, <1>4, <1>5, <1>6 DEF Served

\* createRun returns, and wakes the processor of the run's user or none.
LEMMA WokenServed ==
  ASSUME ServiceInv, [Next]_vars, Forward, HeadsStay, NEW q \in Requests,
         RunCreated(q)
  PROVE  \A u \in Users : Served(u)'
<1>1. /\ CallersOK /\ call \in [Threads -> Frame] /\ q \in Threads
      /\ lane \in [Users -> Lane] /\ call[q].run \in Runs
      /\ UserOf[call[q].run] \in Users /\ UNCHANGED queues
  BY Names, ManagerAssumption
     DEF ServiceInv, ManagerInv, CallersOK, RunCreated, storeVars, queueVars
<1>2. PICK v \in Users : v = UserOf[call[q].run]
  BY <1>1
<1>3. ASSUME NEW u \in Users, UNCHANGED <<call[u], lane[u]>>
      PROVE  Served(u)'
  <2>1. ~Starting(u)
    BY <1>3 DEF Starting
  <2>2. QED
    BY <1>3, <2>1, OwnStart, OthersServed
<1>4. CASE UNCHANGED lane /\ call' = [call EXCEPT ![q] = IdleFrame]
  BY <1>1, <1>3, <1>4, Names
<1>5. CASE /\ lane[v].at = "off"
           /\ lane' = [lane EXCEPT ![v].at = "acquiring"]
           /\ call' = [call EXCEPT ![q] = IdleFrame, ![v] = AcquireFrame(v)]
  <2>1. /\ lane[v] \in Lane /\ lane[v].run = None
        /\ \A u \in Users \ {v} : lane'[u] = lane[u] /\ call'[u] = call[u]
        /\ call'[v] = AcquireFrame(v)
    BY <1>1, <1>5, Names DEF CallersOK
  <2>2. lane'[v] = [at |-> "acquiring", run |-> None]
    BY <1>1, <1>5, <2>1 DEF Lane
  <2>3. Served(v)'
    BY <1>1, <2>1, <2>2, AcquiringServed
  <2>4. QED
    BY <1>3, <2>1, <2>3
<1>6. QED
  BY <1>2, <1>4, <1>5 DEF RunCreated, processingUsers

LEMMA ServedStep ==
  ASSUME ServiceInv, [Next]_vars, Forward, HeadsStay, NEW u \in Users
  PROVE  Served(u)'
<1>1. call \in [Threads -> Frame] /\ lane \in [Users -> Lane]
  BY DEF ServiceInv, ManagerInv, CallersOK
<1>2. CASE UNCHANGED <<call[u], lane[u]>>
  <2>1. ~Starting(u)
    BY <1>2 DEF Starting
  <2>2. QED
    BY <1>2, <2>1, OwnStart, OthersServed
<1>3. ASSUME NEW v \in Users, LaneStep(v) \/ OutsideAnswers(v)
      PROVE  Served(u)'
  <2>1. v # u => UNCHANGED <<call[u], lane[u]>>
    BY <1>1, <1>3, LaneMoves, Names DEF ServiceInv
  <2>2. QED
    BY <1>2, <1>3, <2>1, LaneServed
<1>4. ASSUME NEW t \in Threads, ManagerStep(t)
      PROVE  Served(u)'
  <2>1. PlainStep(t) \/ SignalStep(t)
    BY <1>4 DEF ManagerStep, Signal
  <2>2. UNCHANGED lane
    BY <1>4 DEF ManagerStep, Signal, execVars
  <2>3. t # u => call'[u] = call[u]
    BY <2>1, OfOneMethod, Names DEF ServiceInv
  <2>4. t = u => Served(u)'
    BY <1>4, ManagerServed
  <2>5. QED
    BY <1>2, <2>2, <2>3, <2>4
<1>5. ASSUME NEW q \in Requests, RequestStep(q)
      PROVE  Served(u)'
  <2>1. CancelReturns(q) => UNCHANGED <<call[u], lane[u]>>
    BY <1>1, Names DEF CancelReturns
  <2>2. QED
    BY <1>2, <1>5, <2>1, WokenServed DEF RequestStep
<1>6. ASSUME \/ \E q \in Requests, r \in Runs :
                  \/ RequestCreate(q, r)
                  \/ \E reason \in ClientReasons : RequestCancel(q, r, reason)
             \/ \E r \in Runs : Timer(r)
             \/ \E v \in Users : Clock(v)
             \/ AllServed \/ UNCHANGED vars
      PROVE  Served(u)'
  <2>1. UNCHANGED <<call[u], lane[u]>>
    BY <1>1, <1>6, Names
       DEF RequestCreate, BeginCreate, RequestCancel, Begin, Timer, TimerFires,
           TimerReturns, Clock, LeaseExpires, AllServed, vars, execVars,
           managerVars
  <2>2. QED
    BY <1>2, <2>1
<1>7. QED
  BY <1>2, <1>3, <1>4, <1>5, <1>6 DEF Next

LEMMA ServiceStep ==
  ASSUME ServiceInv, [Next]_vars
  PROVE  ServiceInv'
<1>1. ManagerInv' /\ CallersOK' /\ Forward /\ [QueueNext]_queueVars
  BY ServiceKept DEF ServiceInv, Kept
<1>2. HeadsStay
  BY <1>1, HeadStays DEF ServiceInv, ManagerInv
<1>3. events' \in [Runs -> Seq(EventKinds)] /\ StartedOnce'
  BY StartNews
<1>4. \A u \in Users : Served(u)'
  BY <1>1, <1>2, ServedStep
<1>5. StartedGone'
  <2>1. ASSUME NEW r \in Runs, Told(r, "run_started")'
        PROVE  Gone(r)'
    <3>1. Gone(r)
      <4>1. CASE Told(r, "run_started")
        BY <4>1 DEF ServiceInv, StartedGone
      <4>2. ASSUME NEW u \in Users, Starting(u), lane[u].run = r
            PROVE  Gone(r)
        BY <4>2 DEF ServiceInv, Served
      <4>3. QED
        BY <2>1, <4>1, <4>2, StartNews
    <3>2. QED
      BY <1>1, <3>1, PastStays DEF Gone
  <2>2. QED
    BY <2>1 DEF StartedGone
<1>6. QueuesInLane'
  BY <1>1 DEF ServiceInv, QueuesInLane, Forward
<1>7. QED
  BY <1>1, <1>3, <1>4, <1>5, <1>6 DEF ServiceInv

-----------------------------------------------------------------------------
\* A processor moves, or is woken, between two calls of the manager.
LEMMA LaneBetween ==
  ASSUME CallersOK, NEW u \in Users,
         LaneStep(u) \/ OutsideAnswers(u) \/ lane[u].at = "off"
  PROVE  call[u].pc \in {"idle", "done", "threw"}
<1>1. call[u].op = StageOp(lane[u].at) /\ call[u].pc \in Pcs(call[u].op)
  BY Names DEF CallersOK
<1>2. LaneStep(u) => call[u].pc \in {"done", "threw"}
  BY DEF LaneStep, Acquired, Started, Checked, Completed, Caught, Failed, Resumes
<1>3. OutsideAnswers(u) => lane[u].at \in {"provisioning", "loadingPack", "prompting"}
  BY DEF OutsideAnswers, Provisioned, PackLoaded, AgentSettles
<1>4. lane[u].at \in {"off", "provisioning", "loadingPack", "prompting"} =>
        call[u].pc = "idle"
  BY <1>1 DEF StageOp, Pcs
<1>5. QED
  BY <1>2, <1>3, <1>4

\* Only releaseLease goes from "release" to "signal".
LEMMA WhoReleases ==
  ASSUME ServiceInv, [Next]_vars, NEW t \in Threads,
         call[t].pc = "release", call'[t].pc = "signal"
  PROVE  ReleaseLease(t)
<1>1. call \in [Threads -> Frame] /\ CallersOK /\ ManagerInv
  BY DEF ServiceInv, ManagerInv
<1>2. ASSUME NEW s \in Threads, \A x \in Threads \ {s} : call'[x] = call[x],
             call[s].pc \in {"idle", "done", "threw"}
      PROVE  FALSE
  BY <1>2
<1>3. ASSUME NEW s \in Threads, NEW f, Begin(s, f)
      PROVE  FALSE
  <2>1. call[s].pc = "idle" /\ \A x \in Threads \ {s} : call'[x] = call[x]
    BY <1>1, <1>3 DEF Begin, Idle, IdleFrame
  <2>2. QED
    BY <1>2, <2>1
<1>4. ASSUME NEW u \in Users, LaneStep(u) \/ OutsideAnswers(u)
      PROVE  FALSE
  <2>1. \A x \in Threads \ {u} : call'[x] = call[x]
    BY <1>1, <1>4, LaneMoves
  <2>2. QED
    BY <1>1, <1>2, <1>4, <2>1, LaneBetween, Names
<1>5. ASSUME NEW q \in Requests, RequestStep(q)
      PROVE  FALSE
  <2>1. q \in Threads /\ call[q].pc \in {"done", "threw"}
    BY <1>5, Names DEF RequestStep, RunCreated, CancelReturns
  <2>2. CASE call' = [call EXCEPT ![q] = IdleFrame]
    BY <1>1, <1>2, <2>1, <2>2
  <2>3. ASSUME NEW u \in Users, NEW f, lane[u].at = "off",
               call' = [call EXCEPT ![q] = IdleFrame, ![u] = f]
        PROVE  FALSE
    <3>1. call[u].pc \in {"idle", "done", "threw"}
      BY <1>1, <2>3, LaneBetween
    <3>2. \A x \in Threads \ {q, u} : call'[x] = call[x]
      BY <1>1, <2>3
    <3>3. QED
      BY <2>1, <3>1, <3>2
  <2>4. UserOf[call[q].run] \in Users \/ CancelReturns(q)
    BY <1>1, <1>5, <2>1, ManagerAssumption DEF RequestStep, RunCreated, CallersOK
  <2>5. QED
    BY <1>5, <2>2, <2>3, <2>4
       DEF RequestStep, RunCreated, CancelReturns, processingUsers
<1>6. ASSUME NEW r \in Runs, TimerReturns(r)
      PROVE  FALSE
  <2>1. r \in Threads /\ call[r].pc = "done"
        /\ \A x \in Threads \ {r} : call'[x] = call[x]
    BY <1>1, <1>6, Names DEF TimerReturns
  <2>2. QED
    BY <1>2, <2>1
<1>7. ASSUME NEW s \in Threads, ManagerStep(s)
      PROVE  ReleaseLease(t)
  <2>1. PlainStep(s) \/ SignalStep(s)
    BY <1>7 DEF ManagerStep, Signal
  <2>2. s = t
    BY <1>1, <2>1, OfOneMethod
  <2>3. QED
    BY <2>1, <2>2
       DEF PlainStep, EnqueueRun, SetQueuePosition, LeaseNextRun, DequeueNext,
           MarkLeased, RemoveQueued, SignalStep, WriteTransition, RereadRun,
           BeginRun
<1>8. ~UNCHANGED call
  OBVIOUS
<1>9. QED
  BY <1>3, <1>4, <1>5, <1>6, <1>7, <1>8, Names
     DEF Next, RequestCreate, BeginCreate, RequestCancel, Timer, TimerFires,
         Clock, LeaseExpires, AllServed, vars, managerVars

\* The service's own maps and sets.
ServiceTypes ==
  /\ terminalEvents \subseteq Runs
  /\ agent \in [Runs -> {"none", "running", "aborted"}]
  /\ listening \subseteq Runs
  /\ cancels \in [Runs -> Seq(ClientReasons)]

LEMMA ServiceTypesStep ==
  ASSUME ServiceInv, ServiceTypes, [Next]_vars
  PROVE  ServiceTypes'
<1>1. /\ CallersOK /\ call \in [Threads -> Frame]
      /\ \A t \in Threads : call[t].op \notin {"none", "acquire"} =>
           call[t].run \in Runs
      /\ \A u \in Users : lane[u].at \notin {"off", "acquiring"} =>
           lane[u].run \in Runs
  BY DEF ServiceInv, ManagerInv, CallersOK, Lane
<1>2. ASSUME NEW u \in Users, LaneStep(u)
      PROVE  ServiceTypes'
  <2>1. UNCHANGED <<agent, listening, cancels>>
    BY <1>2 DEF LaneStep, Acquired, Started, Checked, Completed, Caught, Failed
  <2>2. terminalEvents' \subseteq terminalEvents
    BY <1>1, <1>2
       DEF LaneStep, Acquired, Started, Checked, Completed, Caught, Failed,
           Conclude, clientVars
  <2>3. QED
    BY <2>1, <2>2 DEF ServiceTypes
<1>3. ASSUME NEW u \in Users, OutsideAnswers(u)
      PROVE  ServiceTypes'
  BY <1>1, <1>3
     DEF OutsideAnswers, Provisioned, PackLoaded, AgentSettles, ServiceTypes,
         clientVars
<1>4. ASSUME NEW t \in Threads, ManagerStep(t)
      PROVE  ServiceTypes'
  <2>1. CASE Signal(t)
    BY <1>1, <2>1 DEF Signal, emitTerminalOnce, ServiceTypes, clientVars
  <2>2. CASE UNCHANGED execVars
    BY <2>2 DEF execVars, clientVars, ServiceTypes
  <2>3. QED
    BY <1>4, <2>1, <2>2 DEF ManagerStep
<1>5. ASSUME NEW q \in Requests, RequestStep(q)
      PROVE  ServiceTypes'
  <2>1. CancelReturns(q) => call[q].run \in Runs
    BY <1>1, Names DEF CancelReturns
  <2>2. QED
    BY <1>5, <2>1
       DEF RequestStep, RunCreated, CancelReturns, emitTerminalOnce,
           clientVars, ServiceTypes
<1>6. ASSUME NEW r \in Runs, NEW reason \in ClientReasons,
             cancels' = [cancels EXCEPT ![r] = Append(@, reason)]
      PROVE  cancels' \in [Runs -> Seq(ClientReasons)] \/ ~ServiceTypes
  BY <1>6 DEF ServiceTypes
<1>7. ASSUME NEW q \in Requests, NEW r \in Runs, NEW reason \in ClientReasons,
             RequestCancel(q, r, reason)
      PROVE  ServiceTypes'
  BY <1>6, <1>7 DEF RequestCancel, clientVars, ServiceTypes
<1>8. ASSUME \/ \E q \in Requests, r \in Runs : RequestCreate(q, r)
             \/ \E r \in Runs : Timer(r)
             \/ \E u \in Users : Clock(u)
             \/ AllServed \/ UNCHANGED vars
      PROVE  ServiceTypes'
  BY <1>8 DEF RequestCreate, Timer, Clock, AllServed, vars, execVars, clientVars,
              ServiceTypes
<1>9. QED
  BY <1>2, <1>3, <1>4, <1>5, <1>7, <1>8 DEF Next

-----------------------------------------------------------------------------
LEMMA ServiceInitInv == Init => ServiceInv /\ ServiceTypes
<1> SUFFICES ASSUME Init  PROVE ServiceInv /\ ServiceTypes
  OBVIOUS
<1>1. ManagerInv
  BY ManagerInitInv DEF Init
<1>2. /\ call = [t \in Threads |-> IdleFrame]
      /\ IdleFrame.op = "none" /\ IdleFrame.pc = "idle"
      /\ lane = [u \in Users |-> [at |-> "off", run |-> None]]
      /\ \A u \in Users : ToSet(queues[u]) = {}
  BY DEF Init, ManagerInit, IdleFrame, QueueInit, ToSet
<1>3. \A t \in Threads : call[t].op = "none" /\ call[t].pc = "idle"
  BY <1>2
<1>4. CallersOK
  BY <1>2, <1>3, Names DEF CallersOK, Pcs, StageOp, Lane, Stages
<1>5. /\ events = [r \in Runs |-> << >>]
      /\ \A r \in Runs : ToSet(events[r]) = {} /\ DOMAIN events[r] = {}
  BY DEF Init, ToSet
<1>6. events \in [Runs -> Seq(EventKinds)] /\ StartedOnce
  BY <1>5 DEF StartedOnce
<1>7. StartedGone /\ QueuesInLane
  BY <1>2, <1>5 DEF StartedGone, Told, QueuesInLane
<1>8. \A u \in Users : Served(u)
  BY <1>2, <1>3, Names, NoneAssumption DEF Served
<1>9. ServiceTypes
  BY DEF Init, ServiceTypes
<1>10. QED
  BY <1>1, <1>4, <1>6, <1>7, <1>8, <1>9 DEF ServiceInv

\* The invariant behind the theorems: the manager's own; each processor is in
\* the method of its stage and serves a run of its user that has left the
\* queue; a run that was started has left it too.
THEOREM ServiceInvariant == Spec => [](ServiceInv /\ ServiceTypes)
<1>1. ServiceInv /\ ServiceTypes /\ [Next]_vars => (ServiceInv /\ ServiceTypes)'
  BY ServiceStep, ServiceTypesStep
<1>2. QED
  BY <1>1, ServiceInitInv, PTL DEF Spec

\* Type correctness of the service and of everything under it.
THEOREM ServiceTyped == Spec => []ExecutionTypeOK
<1>1. ServiceInv /\ ServiceTypes => ExecutionTypeOK
  BY DEF ServiceInv, ServiceTypes, ExecutionTypeOK, ManagerInv, ManagerTypeOK,
         QueueInv, LeaseInv, RunsOK, CallersOK, Lane
<1>2. QED
  BY <1>1, ServiceInvariant, PTL

\* No run is executed twice, whatever the latency of the stores: processors
\* are woken while others wind down, leases expire under them, and dequeue
\* shifts out whatever heads the queue by then.
THEOREM NeverStartedTwice == Spec => []StartedOnce
<1>1. ServiceInv => StartedOnce
  BY DEF ServiceInv
<1>2. QED
  BY <1>1, ServiceInvariant, PTL

\* Whatever ends a run releases that run's lease and no other, in the service
\* as in the manager.
THEOREM ServiceOwnLeases == Spec => ReleasesOnlyOwnLease
<1> DEFINE OthersKept == \A t \in Threads :
             call[t].pc = "release" /\ call'[t].pc = "signal" =>
               \A u \in Users : leases[u] # None /\ leases[u].runId # call[t].run
                                  => leases'[u] = leases[u]
<1>1. ServiceInv /\ [Next]_vars => [OthersKept]_managerVars
  <2> SUFFICES ASSUME ServiceInv, [Next]_vars, NEW t \in Threads,
                      call[t].pc = "release", call'[t].pc = "signal",
                      NEW u \in Users, leases[u] # None,
                      leases[u].runId # call[t].run
               PROVE  leases'[u] = leases[u]
    OBVIOUS
  <2>1. /\ ManagerInv /\ call[t].run \in Runs /\ FrameTokens(call[t], Own)
    BY InMethod DEF ServiceInv, FrameShape
  <2>2. ReleaseLease(t)
    BY WhoReleases
  <2>3. QED
    BY <2>1, <2>2, ReleaseOwn DEF ReleaseLease, FrameTokens
<1>2. ServiceInv /\ ServiceTypes => ServiceInv
  OBVIOUS
<1>3. QED
  BY <1>1, <1>2, ServiceInvariant, PTL DEF Spec, ReleasesOnlyOwnLease

\* The service, too, uses queue and leases as their contracts ask, so lanes are
\* first come, first served, and no live lease is taken from its run.
THEOREM ServiceContracts ==
  Spec => QueueSpec /\ LeaseSpec /\ NoOvertaking /\ LiveLeaseNotStolen
<1>1. Init => QueueInit /\ LeaseInit
  BY DEF Init, ManagerInit
<1>2. ServiceInv /\ [Next]_vars => [QueueNext]_queueVars /\ [LeaseNext]_leaseVars
  BY ServiceKept DEF ServiceInv, Kept
<1>3. ServiceInv /\ ServiceTypes => ServiceInv
  OBVIOUS
<1>4. Spec => QueueSpec /\ LeaseSpec
  BY <1>1, <1>2, <1>3, ServiceInvariant, PTL DEF Spec, QueueSpec, LeaseSpec
<1>5. QED
  BY <1>4, Fifo, NoTheft, PTL

=============================================================================
