----------------------------- MODULE EventStream -----------------------------
(***************************************************************************)
(* The event stream of sse/: the sequence counters, the bounded replay       *)
(* buffers, the registry of open connections, and the HTTP endpoint that     *)
(* subscribes a client to a run.  Nothing here awaits anything but getRun,   *)
(* which the in-memory repository answers at once, so a request, an interval *)
(* tick, a close event and a broadcast are one step each.  What the execution *)
(* service broadcasts, and when it closes a run, is the environment: the     *)
(* callbacks of RunExecution, reduced to what the stream can tell apart.     *)
(***************************************************************************)
EXTENDS RunStates, SequencesExt

CONSTANTS Clients,     \* connections that are ever made, one request each
          BufferSize,  \* events kept per run for replay
          Starts,      \* replay positions clients ask for; None asks for none
          MaxSeq       \* bound: an agent falls silent at this number

ASSUME StreamAssumption ==
  /\ None \notin Clients
  /\ BufferSize \in Nat \ {0}
  /\ Starts \subseteq Nat \cup {None}
  /\ MaxSeq \in Nat

VARIABLES
  state,      \* the repository: state of each run, "NONE" before it exists
  exec,       \* where the service is with the run; "over" when done with it
  announced,  \* terminalEvents of the service
  counters,   \* the sequencer: last number given out per run
  buffers,    \* run -> its last BufferSize events
  streams,    \* run -> the Set of its connections, named by the connection
              \* it was made for, or None
  members,    \* the contents of each Set
  conn,       \* each connection: at, the run and its state in the answer, the
              \* Set its cleanup closure holds, and its polling interval
  sent,       \* history: everything broadcast about each run
  received    \* what was written to each connection

serviceVars  == <<state, exec, announced>>
registryVars == <<streams, members, conn>>
vars         == <<serviceVars, counters, buffers, registryVars, sent, received>>

TerminalTypes == {"run_completed", "run_failed", "run_cancelled",
                  "run_timed_out"}
EventTypes == {"run_queued", "run_started", "agent_event", "stream_connected"}
                \cup TerminalTypes
SSEEventEnvelope == [type : EventTypes, run_id : Runs, seq : Nat]

NoConnection == [at |-> "new", run |-> None, run_state |-> "NONE",
                 set |-> None, polling |-> FALSE]

isOpen(c) == conn[c].at = "open"

-----------------------------------------------------------------------------
(* The sequencer, the buffer and the registry.                               *)

\* createEnvelope, mapOrchestratorEvent, map: the next number of the run.
Envelope(r, type) == [type |-> type, run_id |-> r, seq |-> counters[r] + 1]

\* Mutant of Push: the newest event is evicted.
PushUnlessFull(buffer, event) ==
  IF Len(buffer) < BufferSize THEN Append(buffer, event) ELSE buffer

Push(buffer, event) ==
  IF Len(buffer) < BufferSize THEN Append(buffer, event)
                              ELSE Append(Tail(buffer), event)

\* getFrom: the events of all runs from a number on, sorted by number.  The
\* order of equal numbers is that of the Map; here it is either.
Replays(from) ==
  {replay \in SetToSeqs({e \in UNION {ToSet(buffers[r]) : r \in Runs} :
                           e.seq >= from}) :
     \A i, j \in DOMAIN replay : i < j => replay[i].seq <= replay[j].seq}

Registered(r) == IF streams[r] = None THEN {} ELSE members[streams[r]]

Listeners(r) == {c \in Registered(r) : isOpen(c)}

WriteTo(clients, event) ==
  received' = [c \in Clients |-> IF c \in clients THEN Append(received[c], event)
                                                  ELSE received[c]]

\* A broadcast leaves only the open connections in the run's Set.
KeepOpenStreams(r) ==
  members' = IF streams[r] = None
               THEN members
               ELSE [members EXCEPT ![streams[r]] = Listeners(r)]

\* SSEService.broadcast: number, buffer, write, drop dead connections.
Broadcast(r, type) ==
  LET event == Envelope(r, type) IN
  /\ counters' = [counters EXCEPT ![r] = event.seq]
  /\ buffers' = [buffers EXCEPT ![r] = Push(@, event)]
  /\ sent' = [sent EXCEPT ![r] = Append(@, event)]
  /\ WriteTo(Listeners(r), event)
  /\ KeepOpenStreams(r)
  /\ streams' = [streams EXCEPT ![r] = IF Listeners(r) = {} THEN None ELSE @]
  /\ UNCHANGED conn

EndStreams(r) ==
  conn' = [c \in Clients |-> IF c \in Listeners(r)
                               THEN [conn[c] EXCEPT !.at = "ended"]
                               ELSE conn[c]]

\* Mutant of CloseRun: the connections are left open.
CloseRunKeepingStreams(r) ==
  /\ buffers' = [buffers EXCEPT ![r] = << >>]
  /\ counters' = [counters EXCEPT ![r] = 0]
  /\ UNCHANGED <<conn, streams>>

\* SSEService.closeRun: connections, buffer and counter.
CloseRun(r) ==
  /\ EndStreams(r)
  /\ streams' = [streams EXCEPT ![r] = None]
  /\ buffers' = [buffers EXCEPT ![r] = << >>]
  /\ counters' = [counters EXCEPT ![r] = 0]

\* Mutant of BroadcastAndClose: the run is closed first.
CloseAndBroadcast(r, type) ==
  /\ CloseRun(r)
  /\ sent' = [sent EXCEPT ![r] = Append(@, Envelope(r, type))]
  /\ UNCHANGED <<members, received>>

\* A broadcast and closeRun in one segment.
BroadcastAndClose(r, type) ==
  LET event == Envelope(r, type) IN
  /\ WriteTo(Listeners(r), event)
  /\ sent' = [sent EXCEPT ![r] = Append(@, event)]
  /\ KeepOpenStreams(r)
  /\ CloseRun(r)

-----------------------------------------------------------------------------
(* The endpoint.                                                             *)

\* What a new connection is written: the replay, then stream_connected.
Opening(replay, connected) == Append(replay, connected)

\* getRun, register, replay, and stream_connected, which takes a number of the
\* run but is neither buffered nor broadcast.
Connect(c, r, from) ==
  LET set == IF streams[r] = None THEN c ELSE streams[r]
      connected == Envelope(r, "stream_connected") IN
  /\ conn[c] = NoConnection
  /\ state[r] # "NONE"
  /\ conn' = [conn EXCEPT ![c] = [at |-> "open", run |-> r,
                                  run_state |-> state[r], set |-> set,
                                  polling |-> TRUE]]
  /\ streams' = [streams EXCEPT ![r] = set]
  /\ members' = [members EXCEPT ![set] = @ \cup {c}]
  /\ \E replay \in IF from = None THEN {<< >>} ELSE Replays(from) :
       received' = [received EXCEPT ![c] = Opening(replay, connected)]
  /\ counters' = [counters EXCEPT ![r] = connected.seq]
  /\ UNCHANGED <<serviceVars, buffers, sent>>

\* Mutant of Cleanup: the Set is not looked at.
CleanupAll(c) ==
  /\ members' = [members EXCEPT ![conn[c].set] = @ \ {c}]
  /\ streams' = [streams EXCEPT ![conn[c].run] = None]

\* The function register returns.  It holds on to the Set it was made for, and
\* when that Set is empty deletes whatever entry the run has by then.
Cleanup(c) ==
  LET rest == members[conn[c].set] \ {c} IN
  /\ members' = [members EXCEPT ![conn[c].set] = rest]
  /\ streams' = [streams EXCEPT ![conn[c].run] = IF rest = {} THEN None ELSE @]

\* Mutant of Poll: an entry of isTerminalState is forgotten.
PollForgetting(c) ==
  /\ conn[c].polling
  /\ state[conn[c].run] \in {"COMPLETED", "FAILED", "TIMED_OUT"}
  /\ Cleanup(c)
  /\ conn' = [conn EXCEPT ![c].at = "ended", ![c].polling = FALSE]
  /\ UNCHANGED <<serviceVars, counters, buffers, sent, received>>

\* The interval checkRunState finds the run in a terminal state.
Poll(c) ==
  /\ conn[c].polling
  /\ isTerminalState(state[conn[c].run])
  /\ Cleanup(c)
  /\ conn' = [conn EXCEPT ![c].at = "ended", ![c].polling = FALSE]
  /\ UNCHANGED <<serviceVars, counters, buffers, sent, received>>

\* The request's close event: the client left, or was let go by the server.
Disconnect(c) ==
  /\ conn[c].at \in {"open", "ended"}
  /\ Cleanup(c)
  /\ conn' = [conn EXCEPT ![c].at = "gone", ![c].polling = FALSE]
  /\ UNCHANGED <<serviceVars, counters, buffers, sent, received>>

-----------------------------------------------------------------------------
(* The service.                                                              *)

Service(r, s, e) == state' = [state EXCEPT ![r] = s] /\ exec' = [exec EXCEPT ![r] = e]

\* emitTerminalOnce
Announce(r, type) ==
  /\ r \notin announced
  /\ announced' = announced \cup {r}
  /\ Broadcast(r, type)

RunCreated(r) ==
  /\ state[r] = "NONE"
  /\ Service(r, "QUEUED", "waiting")
  /\ Broadcast(r, "run_queued")
  /\ UNCHANGED announced

\* LEASED is not told from QUEUED here.
RunStarted(r) ==
  /\ state[r] = "QUEUED"
  /\ Service(r, "RUNNING", "running")
  /\ Broadcast(r, "run_started")
  /\ UNCHANGED announced

\* The agent may go on emitting after its run was stopped.
AgentEmits(r) ==
  /\ exec[r] = "running" /\ counters[r] < MaxSeq
  /\ Broadcast(r, "agent_event")
  /\ UNCHANGED serviceVars

\* An agent event of a type the mapper does not know takes a number.
AgentEventSkipped(r) ==
  /\ exec[r] = "running" /\ counters[r] < MaxSeq
  /\ counters' = [counters EXCEPT ![r] = @ + 1]
  /\ UNCHANGED <<serviceVars, buffers, registryVars, sent, received>>

RunCancelled(r) ==
  /\ state[r] \in {"QUEUED", "RUNNING"}
  /\ Service(r, "CANCELLED", exec[r])
  /\ Announce(r, "run_cancelled")

\* A timeout before the abort listener is installed is not announced.
RunTimedOut(r) ==
  /\ state[r] = "RUNNING"
  /\ Service(r, "TIMED_OUT", exec[r])
  /\ \/ Announce(r, "run_timed_out")
     \/ UNCHANGED <<announced, counters, buffers, registryVars, sent, received>>

\* completeRun or failRun, the terminal event and closeRun.
RunConcluded(r) ==
  /\ \/ /\ state[r] = "RUNNING"
        /\ Service(r, "COMPLETED", "over")
        /\ BroadcastAndClose(r, "run_completed")
     \/ /\ state[r] \in {"QUEUED", "RUNNING"}
        /\ Service(r, "FAILED", "over")
        /\ BroadcastAndClose(r, "run_failed")
  /\ UNCHANGED announced

\* executeRun finds the run stopped: it closes a run whose agent finished, and
\* only forgets one whose agent, or whose start, failed.
WindsDown(r) ==
  /\ exec[r] \in {"waiting", "running"}
  /\ state[r] \in {"CANCELLED", "TIMED_OUT"}
  /\ Service(r, state[r], "over")
  /\ announced' = announced \ {r}
  /\ \/ exec[r] = "running" /\ CloseRun(r)
     \/ UNCHANGED <<counters, buffers, streams, conn>>
  /\ UNCHANGED <<members, sent, received>>

\* A further cancel request, after the run was forgotten.
CancelledAgain(r) ==
  /\ state[r] = "CANCELLED"
  /\ Announce(r, "run_cancelled")
  /\ UNCHANGED <<state, exec>>

-----------------------------------------------------------------------------
Init ==
  /\ state = [r \in Runs |-> "NONE"]
  /\ exec = [r \in Runs |-> "none"]
  /\ announced = {}
  /\ counters = [r \in Runs |-> 0]
  /\ buffers = [r \in Runs |-> << >>]
  /\ streams = [r \in Runs |-> None]
  /\ members = [c \in Clients |-> {}]
  /\ conn = [c \in Clients |-> NoConnection]
  /\ sent = [r \in Runs |-> << >>]
  /\ received = [c \in Clients |-> << >>]

ServiceStep(r) ==
  \/ RunCreated(r) \/ RunStarted(r) \/ AgentEmits(r) \/ AgentEventSkipped(r)
  \/ RunCancelled(r) \/ RunTimedOut(r) \/ RunConcluded(r)
  \/ WindsDown(r) \/ CancelledAgain(r)

\* Every client came and went, and every run is over.
Quiet ==
  /\ \A c \in Clients : conn[c].at = "gone"
  /\ \A r \in Runs : exec[r] = "over"
  /\ UNCHANGED vars

Next ==
  \/ \E r \in Runs : ServiceStep(r)
  \/ \E c \in Clients, r \in Runs, from \in Starts : Connect(c, r, from)
  \/ \E c \in Clients : Poll(c) \/ Disconnect(c)
  \/ Quiet

Spec == Init /\ [][Next]_vars

\* setInterval ticks as long as the interval is not cleared.
FairSpec == Spec /\ \A c \in Clients : WF_vars(Poll(c))

-----------------------------------------------------------------------------
\* Type invariant; the buffers keep to their size.
StreamTypeOK ==
  /\ state \in [Runs -> RunState \cup {"NONE"}]
  /\ exec \in [Runs -> {"none", "waiting", "running", "over"}]
  /\ announced \subseteq Runs
  /\ counters \in [Runs -> Nat]
  /\ buffers \in [Runs -> Seq(SSEEventEnvelope)]
  /\ \A r \in Runs : Len(buffers[r]) <= BufferSize
  /\ streams \in [Runs -> Clients \cup {None}]
  /\ members \in [Clients -> SUBSET Clients]
  /\ conn \in [Clients -> [at : {"new", "open", "ended", "gone"},
                           run : Runs \cup {None},
                           run_state : RunState \cup {"NONE"},
                           set : Clients \cup {None}, polling : BOOLEAN]]
  /\ sent \in [Runs -> Seq(SSEEventEnvelope)]
  /\ received \in [Clients -> Seq(SSEEventEnvelope)]

\* While a run is under way every connection to it is in the run's Set, and a
\* Set that broadcasts reach holds open connections of its run only, although
\* Sets are made, dropped and held on to by the cleanups of earlier ones.
SubscribedWhileLive ==
  /\ \A r \in Runs : streams[r] # None =>
       /\ Registered(r) # {}
       /\ \A c \in Registered(r) : isOpen(c) /\ conn[c].run = r
  /\ \A c \in Clients :
       isOpen(c) /\ ~isTerminalState(state[conn[c].run])
         => c \in Registered(conn[c].run)

\* Where among the events a client got the broadcasts of its run are.
OwnBroadcasts(c) ==
  {i \in DOMAIN received[c] : /\ received[c][i].run_id = conn[c].run
                              /\ received[c][i].type # "stream_connected"}

\* Replay and live events of the run join without a gap or a repetition: what a
\* client saw is a run of consecutive broadcasts, up to the last one as long as
\* it is registered.
NoGapAfterReplay ==
  \A c \in Clients : conn[c] # NoConnection =>
    LET all == sent[conn[c].run]
        own == OwnBroadcasts(c) IN
    \E missed \in 0..(Len(all) - Cardinality(own)) :
      /\ \A i \in own :
           received[c][i] = all[missed + Cardinality({j \in own : j <= i})]
      /\ c \in Registered(conn[c].run) => missed + Cardinality(own) = Len(all)

\* docs/specs/event-streaming.md: each event of the run that a client gets has
\* a greater number than the one before, although closeRun restarts the count.
\* By how much greater, and what comes first, is SeqHasNoGaps and GreetedFirst.
SeqIncreases ==
  \A c \in Clients : \A i, j \in DOMAIN received[c] :
    LET d == received[c][i]
        e == received[c][j] IN
    i < j /\ d.run_id = conn[c].run /\ e.run_id = conn[c].run => d.seq < e.seq

\* Nobody is told of a timeout before the abort listener is installed.
EndAnnounced(r) ==
  state[r] = "TIMED_OUT" => \E e \in ToSet(sent[r]) : e.type = "run_timed_out"

\* A client that subscribed to a run under way and was let go by the server
\* has been told how the run ended, unless it timed out unannounced.
EndIsTold ==
  \A c \in Clients :
    /\ conn[c].at = "ended"
    /\ ~isTerminalState(conn[c].run_state)
    /\ EndAnnounced(conn[c].run)
    => \E e \in ToSet(received[c]) :
         e.run_id = conn[c].run /\ e.type \in TerminalTypes

\* docs/specs/event-streaming.md: the server closes the connections of a run
\* that has ended, also one that closeRun is never called for.
StreamsClose ==
  \A c \in Clients :
    (isOpen(c) /\ isTerminalState(state[conn[c].run])) ~> ~isOpen(c)

(* What the documents say, and the code does not do.                         *)

\* docs/api/sse-schema.md, per-run isolation: a stream carries its run's events.
Isolation ==
  \A c \in Clients : \A e \in ToSet(received[c]) : e.run_id = conn[c].run

\* docs/api/sse-schema.md: "seq always increases by 1 (no gaps, no duplicates)".
\* stream_connected of another connection takes a number, and so does an agent
\* event the mapper does not know, so this does not hold.
SeqHasNoGaps ==
  \A c \in Clients : \A i \in 2..Len(received[c]) :
    received[c][i].seq = received[c][i - 1].seq + 1

\* docs/api/sse-schema.md, connection lifecycle and replay: a connection's first
\* event is stream_connected.  The code writes the replay first, so this does not hold.
GreetedFirst ==
  \A c \in Clients :
    received[c] # << >> => received[c][1].type = "stream_connected"
=============================================================================
