-------------------------- MODULE EventStreamProofs --------------------------
(***************************************************************************)
(* EventStream for every number of runs and connections and every size of   *)
(* the buffers: connections stay subscribed, what they are sent is numbered  *)
(* upwards, and they are told how their run ended.                           *)
(***************************************************************************)
EXTENDS EventStream, FiniteSetTheorems, FunctionTheorems, WellFoundedInduction, TLAPS

-----------------------------------------------------------------------------
(* The registry.                                                             *)

RegistryTypes ==
  /\ state \in [Runs -> RunState \cup {"NONE"}]
  /\ streams \in [Runs -> Clients \cup {None}]
  /\ members \in [Clients -> SUBSET Clients]
  /\ conn \in [Clients -> [at : {"new", "open", "ended", "gone"},
                           run : Runs \cup {None},
                           run_state : RunState \cup {"NONE"},
                           set : Clients \cup {None}, polling : BOOLEAN]]

\* A connection was made to a run that exists, and the server ends it only when
\* the run has ended.
ConnectionsOK ==
  \A c \in Clients :
    /\ conn[c].at = "new" => conn[c] = NoConnection
    /\ conn[c].at # "new" =>
         conn[c].run \in Runs /\ conn[c].set \in Clients
           /\ state[conn[c].run] # "NONE"
    /\ conn[c].polling => conn[c].at \in {"open", "ended"}
    /\ conn[c].at = "ended" => isTerminalState(state[conn[c].run])

\* A Set is new until its first connection is made, serves one run, and holds
\* connections that were made for it.
SetsOK ==
  \A c \in Clients :
    /\ conn[c].at = "new" =>
         /\ members[c] = {}
         /\ \A d \in Clients : conn[d].set # c
         /\ \A r \in Runs : streams[r] # c
    /\ \A d \in members[c] : conn[d].set = c /\ conn[d].at \in {"open", "ended"}
    /\ \A d \in Clients : conn[c].set = conn[d].set => conn[c].run = conn[d].run

\* The two halves of SubscribedWhileLive.
SetsListen ==
  \A r \in Runs : streams[r] # None =>
    /\ Registered(r) # {}
    /\ \A c \in Registered(r) : isOpen(c) /\ conn[c].run = r

LiveAreHeard ==
  \A c \in Clients, r \in Runs :
    isOpen(c) /\ conn[c].run = r /\ ~isTerminalState(state[r]) => c \in Registered(r)

RegistryInv ==
  /\ RegistryTypes /\ ConnectionsOK /\ SetsOK /\ SetsListen /\ LiveAreHeard

\* While a Set is registered all of it listens, so a broadcast drops nobody.
LEMMA AllListen ==
  ASSUME RegistryInv, NEW r \in Runs
  PROVE  /\ Listeners(r) = Registered(r)
         /\ Listeners(r) = {} <=> streams[r] = None
         /\ \A c \in Listeners(r) :
              c \in Clients /\ isOpen(c) /\ conn[c].run = r /\ conn[c].set = streams[r]
         /\ KeepOpenStreams(r) => UNCHANGED members
         /\ streams' = [streams EXCEPT ![r] = IF Listeners(r) = {} THEN None ELSE @]
              => UNCHANGED streams
<1>1. Listeners(r) = Registered(r)
  BY DEF RegistryInv, SetsListen, Listeners, Registered
<1>2. Listeners(r) = {} <=> streams[r] = None
  BY <1>1 DEF RegistryInv, SetsListen, Registered
<1>3. ASSUME NEW c \in Listeners(r)
      PROVE  c \in Clients /\ isOpen(c) /\ conn[c].run = r /\ conn[c].set = streams[r]
  <2>1. streams[r] \in Clients /\ c \in members[streams[r]]
    BY <1>1, <1>2, <1>3 DEF Registered, RegistryInv, RegistryTypes
  <2>2. c \in Clients
    BY <2>1 DEF RegistryInv, RegistryTypes
  <2>3. isOpen(c) /\ conn[c].run = r
    BY <1>1, <1>3, <2>1, StreamAssumption DEF RegistryInv, SetsListen
  <2>4. conn[c].set = streams[r]
    BY <2>1 DEF RegistryInv, SetsOK
  <2>5. QED
    BY <2>2, <2>3, <2>4
<1>4. KeepOpenStreams(r) => UNCHANGED members
  BY <1>1 DEF KeepOpenStreams, Registered, RegistryInv, RegistryTypes
<1>5. streams' = [streams EXCEPT ![r] = IF Listeners(r) = {} THEN None ELSE @]
        => UNCHANGED streams
  BY <1>2 DEF RegistryInv, RegistryTypes
<1>6. QED
  BY <1>1, <1>2, <1>3, <1>4, <1>5

\* What the service does to the registry: nothing, or it ends a run's streams.
Ended(r) ==
  /\ EndStreams(r) /\ UNCHANGED members
  /\ streams' = [streams EXCEPT ![r] = None]

\* What it does to the states.
Onward(r) ==
  /\ \A s \in Runs \ {r} : state'[s] = state[s]
  /\ state'[r] \in RunState
  /\ isTerminalState(state[r]) => state'[r] = state[r]
  /\ state' \in [Runs -> RunState \cup {"NONE"}]

LEMMA ServiceMoves ==
  ASSUME RegistryInv, NEW r \in Runs, ServiceStep(r)
  PROVE  /\ UNCHANGED registryVars \/ (Ended(r) /\ isTerminalState(state'[r]))
         /\ Onward(r) \/ UNCHANGED state
<1>1. \A type : Broadcast(r, type) => UNCHANGED registryVars
  BY AllListen DEF Broadcast, registryVars
<1>2. \A type : BroadcastAndClose(r, type) => Ended(r)
  BY AllListen DEF BroadcastAndClose, CloseRun, Ended
<1>3. CloseRun(r) /\ UNCHANGED members => Ended(r)
  BY DEF CloseRun, Ended
<1>4. ASSUME NEW s \in RunState, NEW e, Service(r, s, e),
             state[r] = s \/ ~isTerminalState(state[r])
      PROVE  Onward(r) /\ state'[r] = s
  BY <1>4 DEF Service, Onward, RegistryInv, RegistryTypes
<1>5. /\ {"QUEUED", "RUNNING", "CANCELLED", "TIMED_OUT", "COMPLETED", "FAILED"}
           \subseteq RunState
      /\ \A s \in {"CANCELLED", "TIMED_OUT", "COMPLETED", "FAILED"} : isTerminalState(s)
      /\ \A s \in {"NONE", "QUEUED", "RUNNING"} : ~isTerminalState(s)
  BY DEF RunState, isTerminalState
<1>6. CASE RunCreated(r) \/ RunStarted(r) \/ RunCancelled(r)
  BY <1>1, <1>4, <1>5, <1>6 DEF RunCreated, RunStarted, RunCancelled, Announce
<1>7. CASE RunTimedOut(r)
  BY <1>1, <1>4, <1>5, <1>7 DEF RunTimedOut, Announce
<1>8. CASE AgentEmits(r) \/ AgentEventSkipped(r) \/ CancelledAgain(r)
  BY <1>1, <1>8 DEF AgentEmits, AgentEventSkipped, CancelledAgain, Announce,
                    serviceVars
<1>9. CASE RunConcluded(r)
  <2>1. PICK s \in {"COMPLETED", "FAILED"}, type \in {"run_completed", "run_failed"} :
          /\ Service(r, s, "over") /\ BroadcastAndClose(r, type)
          /\ state[r] \in {"QUEUED", "RUNNING"}
    BY <1>9 DEF RunConcluded
  <2>2. QED
    BY <1>2, <1>4, <1>5, <2>1
<1>10. CASE WindsDown(r)
  <2>1. Onward(r) /\ state'[r] = state[r] /\ isTerminalState(state[r])
    BY <1>4, <1>5, <1>10 DEF WindsDown
  <2>2. Ended(r) \/ UNCHANGED registryVars
    BY <1>3, <1>10 DEF WindsDown, registryVars
  <2>3. QED
    BY <2>1, <2>2
<1>11. QED
  BY <1>6, <1>7, <1>8, <1>9, <1>10 DEF ServiceStep

\* Onward states suit the connections there are.
LEMMA ConnectionsMove ==
  ASSUME RegistryInv, NEW r \in Runs, Onward(r) \/ UNCHANGED state
  PROVE  /\ state' \in [Runs -> RunState \cup {"NONE"}]
         /\ \A s \in Runs : state[s] # "NONE" => state'[s] # "NONE"
         /\ \A s \in Runs : isTerminalState(state[s]) => state'[s] = state[s]
BY DEF Onward, RegistryInv, RegistryTypes, RunState

LEMMA RegistryRests ==
  ASSUME RegistryInv, NEW r \in Runs, Onward(r) \/ UNCHANGED state,
         UNCHANGED registryVars
  PROVE  RegistryInv'
<1>1. /\ state' \in [Runs -> RunState \cup {"NONE"}]
      /\ \A s \in Runs : state[s] # "NONE" => state'[s] # "NONE"
      /\ \A s \in Runs : isTerminalState(state[s]) => state'[s] = state[s]
  BY ConnectionsMove
<1>2. RegistryTypes'
  BY <1>1 DEF RegistryInv, RegistryTypes, registryVars
<1>3. ConnectionsOK'
  BY <1>1 DEF RegistryInv, ConnectionsOK, registryVars
<1>4. SetsOK'
  BY DEF RegistryInv, SetsOK, registryVars
<1>5. SetsListen'
  BY DEF RegistryInv, SetsListen, Registered, isOpen, registryVars
<1>6. LiveAreHeard'
  BY <1>1 DEF RegistryInv, LiveAreHeard, Registered, isOpen, registryVars
<1>7. QED
  BY <1>2, <1>3, <1>4, <1>5, <1>6 DEF RegistryInv

\* closeRun: nobody who listened to the run is open any more.
LEMMA RegistryEnds ==
  ASSUME RegistryInv, NEW r \in Runs, Onward(r) \/ UNCHANGED state, Ended(r),
         isTerminalState(state'[r])
  PROVE  RegistryInv'
<1>1. /\ state' \in [Runs -> RunState \cup {"NONE"}]
      /\ \A s \in Runs : state[s] # "NONE" => state'[s] # "NONE"
      /\ \A s \in Runs : isTerminalState(state[s]) => state'[s] = state[s]
  BY ConnectionsMove
<1>2. \A c \in Listeners(r) :
        c \in Clients /\ isOpen(c) /\ conn[c].run = r /\ conn[c].set = streams[r]
  BY AllListen
<1>3. /\ \A c \in Clients :
           /\ conn'[c].run = conn[c].run /\ conn'[c].set = conn[c].set
           /\ conn'[c].polling = conn[c].polling
           /\ conn'[c].run_state = conn[c].run_state
           /\ conn'[c].at = IF c \in Listeners(r) THEN "ended" ELSE conn[c].at
           /\ c \notin Listeners(r) => conn'[c] = conn[c]
      /\ UNCHANGED members
      /\ \A s \in Runs : streams'[s] = IF s = r THEN None ELSE streams[s]
  BY DEF Ended, EndStreams, RegistryInv, RegistryTypes
<1>4. RegistryTypes'
  <2>1. conn' \in [Clients -> [at : {"new", "open", "ended", "gone"},
                               run : Runs \cup {None},
                               run_state : RunState \cup {"NONE"},
                               set : Clients \cup {None}, polling : BOOLEAN]]
    BY DEF Ended, EndStreams, RegistryInv, RegistryTypes
  <2>2. QED
    BY <1>1, <2>1 DEF Ended, RegistryInv, RegistryTypes
<1>5. ConnectionsOK'
  BY <1>1, <1>2, <1>3 DEF RegistryInv, ConnectionsOK, isOpen
<1>6. SetsOK'
  <2>1. \A c \in Clients : members[c] \subseteq Clients
    BY DEF RegistryInv, RegistryTypes
  <2>2. \A c \in Clients : conn'[c].at = "new" => conn[c].at = "new"
    BY <1>3
  <2>3. \A d \in Clients : conn[d].at \in {"open", "ended"}
                             => conn'[d].at \in {"open", "ended"}
    BY <1>3
  <2>4. QED
    BY <1>3, <2>1, <2>2, <2>3, StreamAssumption DEF RegistryInv, SetsOK
<1>7. SetsListen'
  <2>1. ASSUME NEW s \in Runs, streams'[s] # None
        PROVE  /\ Registered(s)' # {}
               /\ \A c \in Registered(s)' : isOpen(c)' /\ conn'[c].run = s
    <3>1. s # r /\ Registered(s)' = Registered(s) /\ streams[s] # None
      BY <1>3, <2>1 DEF Registered
    <3>2. \A c \in Registered(s) : c \in Clients /\ c \notin Listeners(r)
      <4>1. \A c \in Listeners(s) : c \in Clients /\ conn[c].run = s
        BY AllListen
      <4>2. Listeners(s) = Registered(s)
        BY AllListen
      <4>3. QED
        BY <1>2, <3>1, <4>1, <4>2
    <3>3. QED
      BY <1>3, <3>1, <3>2 DEF RegistryInv, SetsListen, isOpen
  <2>2. QED
    BY <2>1 DEF SetsListen
<1>8. LiveAreHeard'
  <2>1. ASSUME NEW c \in Clients, NEW s \in Runs, isOpen(c)', conn'[c].run = s,
               ~isTerminalState(state'[s])
        PROVE  c \in Registered(s)'
    <3>1. conn[c].run = s /\ isOpen(c) /\ s # r /\ ~isTerminalState(state[s])
      BY <1>1, <1>3, <2>1 DEF isOpen
    <3>2. c \in Registered(s)
      BY <3>1 DEF RegistryInv, LiveAreHeard
    <3>3. QED
      BY <1>3, <3>1, <3>2 DEF Registered
  <2>2. QED
    BY <2>1 DEF LiveAreHeard
<1>9. QED
  BY <1>4, <1>5, <1>6, <1>7, <1>8 DEF RegistryInv

\* register: into the run's Set, or a Set of its own.
LEMMA RegistryJoins ==
  ASSUME RegistryInv, NEW c \in Clients, NEW r \in Runs, NEW from, Connect(c, r, from)
  PROVE  RegistryInv'
<1> DEFINE set == IF streams[r] = None THEN c ELSE streams[r]
           new == [at |-> "open", run |-> r, run_state |-> state[r], set |-> set,
                   polling |-> TRUE]
<1>1. /\ conn[c] = NoConnection /\ state[r] # "NONE" /\ UNCHANGED state
      /\ conn' = [conn EXCEPT ![c] = new]
      /\ streams' = [streams EXCEPT ![r] = set]
      /\ members' = [members EXCEPT ![set] = @ \cup {c}]
  BY DEF Connect, serviceVars
<1>2. conn[c].at = "new" /\ set \in Clients /\ None \notin Clients
      /\ conn[c].set = None /\ conn[c].run = None
  BY <1>1, StreamAssumption DEF RegistryInv, RegistryTypes, NoConnection
<1>3. /\ members[c] = {} /\ \A d \in Clients : conn[d].set # c
      /\ \A s \in Runs : streams[s] # c
  BY <1>2 DEF RegistryInv, SetsOK
<1>4. streams[r] # None => members[set] = Listeners(r) /\ Listeners(r) # {}
  BY AllListen DEF Registered
<1>5. /\ \A d \in members[set] : isOpen(d) /\ conn[d].run = r /\ conn[d].set = set
      /\ \A d \in Clients : conn[d].set = set => conn[d].run = r
  <2>1. CASE streams[r] = None
    BY <1>3, <2>1
  <2>2. CASE streams[r] # None
    <3>1. \A d \in Listeners(r) :
            d \in Clients /\ isOpen(d) /\ conn[d].run = r /\ conn[d].set = set
      BY <2>2, AllListen
    <3>2. PICK e \in Listeners(r) : TRUE
      BY <1>4, <2>2
    <3>3. \A d \in Clients : conn[d].set = conn[e].set => conn[d].run = conn[e].run
      BY <3>1, <3>2 DEF RegistryInv, SetsOK
    <3>4. QED
      BY <1>4, <2>2, <3>1, <3>2, <3>3
  <2>3. QED
    BY <2>1, <2>2
<1>6. /\ new.at = "open" /\ new.run = r /\ new.set = set /\ new.polling = TRUE
      /\ new.run_state = state[r] /\ new # NoConnection
  BY DEF NoConnection
<1>7. RegistryTypes'
  <2>1. new \in [at : {"new", "open", "ended", "gone"}, run : Runs \cup {None},
                 run_state : RunState \cup {"NONE"}, set : Clients \cup {None},
                 polling : BOOLEAN]
    BY <1>2 DEF RegistryInv, RegistryTypes
  <2> HIDE DEF new, set
  <2>2. QED
    BY <1>1, <1>2, <2>1 DEF RegistryInv, RegistryTypes
<1> HIDE DEF new
<1>8. \A d \in Clients : conn'[d] = IF d = c THEN new ELSE conn[d]
  BY <1>1 DEF RegistryInv, RegistryTypes
<1>9. /\ \A s \in Runs : streams'[s] = IF s = r THEN set ELSE streams[s]
      /\ \A d \in Clients : members'[d] = IF d = set THEN members[d] \cup {c}
                                                    ELSE members[d]
  BY <1>1 DEF RegistryInv, RegistryTypes
<1>10. set = c \/ conn[set].at # "new"
  BY <1>1, <1>2 DEF RegistryInv, SetsOK
<1> HIDE DEF set
<1>11. ConnectionsOK'
  BY <1>1, <1>2, <1>6, <1>8 DEF RegistryInv, ConnectionsOK
<1>12. SetsOK'
  <2>1. ASSUME NEW d \in Clients, conn'[d].at = "new"
        PROVE  /\ members'[d] = {} /\ \A e \in Clients : conn'[e].set # d
               /\ \A s \in Runs : streams'[s] # d
    <3>1. d # c /\ d # set /\ conn[d].at = "new"
      BY <1>2, <1>6, <1>8, <1>10, <2>1
    <3>2. /\ members[d] = {} /\ \A e \in Clients : conn[e].set # d
          /\ \A s \in Runs : streams[s] # d
      BY <3>1 DEF RegistryInv, SetsOK
    <3>3. QED
      BY <1>6, <1>8, <1>9, <3>1, <3>2
  <2>2. ASSUME NEW d \in Clients, NEW e \in members'[d]
        PROVE  conn'[e].set = d /\ conn'[e].at \in {"open", "ended"}
    <3>1. CASE e = c
      <4>1. d = set
        BY <1>2, <1>3, <1>9, <2>2, <3>1 DEF RegistryInv, SetsOK
      <4>2. QED
        BY <1>6, <1>8, <3>1, <4>1
    <3>2. CASE e # c
      <4>1. e \in members[d] /\ e \in Clients
        BY <1>9, <2>2, <3>2 DEF RegistryInv, RegistryTypes
      <4>2. QED
        BY <1>8, <3>2, <4>1 DEF RegistryInv, SetsOK
    <3>3. QED
      BY <3>1, <3>2
  <2>3. ASSUME NEW d \in Clients, NEW e \in Clients, conn'[d].set = conn'[e].set
        PROVE  conn'[d].run = conn'[e].run
    BY <1>5, <1>6, <1>8, <2>3 DEF RegistryInv, SetsOK
  <2>4. QED
    BY <2>1, <2>2, <2>3 DEF SetsOK
<1>13. SetsListen'
  <2>1. ASSUME NEW s \in Runs, streams'[s] # None
        PROVE  /\ Registered(s)' # {}
               /\ \A d \in Registered(s)' : isOpen(d)' /\ conn'[d].run = s
    <3>1. CASE s = r
      <4>1. Registered(s)' = members[set] \cup {c}
        BY <1>2, <1>9, <3>1, <2>1 DEF Registered
      <4>2. members[set] \subseteq Clients
        BY <1>2 DEF RegistryInv, RegistryTypes
      <4>3. QED
        BY <1>5, <1>6, <1>8, <3>1, <4>1, <4>2 DEF isOpen
    <3>2. CASE s # r
      <4>1. streams[s] # None /\ streams'[s] = streams[s]
        BY <1>9, <2>1, <3>2
      <4>2. Listeners(s) # {} /\ Listeners(s) = Registered(s)
            /\ \A d \in Listeners(s) : d \in Clients /\ isOpen(d) /\ conn[d].run = s
                                       /\ conn[d].set = streams[s]
        BY <4>1, AllListen
      <4>3. streams[s] # set
        BY <1>5, <3>2, <4>2
      <4>4. Registered(s)' = Registered(s)
        BY <1>9, <4>1, <4>3 DEF Registered, RegistryInv, RegistryTypes
      <4>5. c \notin Registered(s)
        BY <1>2, <4>2 DEF isOpen
      <4>6. QED
        BY <1>8, <4>2, <4>4, <4>5 DEF isOpen
    <3>3. QED
      BY <3>1, <3>2
  <2>2. QED
    BY <2>1 DEF SetsListen
<1>14. LiveAreHeard'
  <2>1. ASSUME NEW d \in Clients, NEW s \in Runs, isOpen(d)', conn'[d].run = s,
               ~isTerminalState(state'[s])
        PROVE  d \in Registered(s)'
    <3>1. CASE d = c
      <4>1. s = r /\ streams'[r] = set /\ c \in members'[set] /\ set # None
        BY <1>2, <1>6, <1>8, <1>9, <2>1, <3>1
      <4>2. QED
        BY <3>1, <4>1 DEF Registered
    <3>2. CASE d # c
      <4>1. conn[d].run = s /\ isOpen(d)
        BY <1>8, <2>1, <3>2 DEF isOpen
      <4>2. d \in Registered(s)
        BY <1>1, <2>1, <4>1 DEF RegistryInv, LiveAreHeard
      <4>3. streams[s] \in Clients /\ d \in members[streams[s]] /\ streams[s] # None
        BY <1>2, <4>2 DEF Registered, RegistryInv, RegistryTypes
      <4>4. streams'[s] = streams[s]
        BY <1>9, <4>3 DEF set
      <4>5. d \in members'[streams[s]]
        BY <1>9, <4>3
      <4>6. QED
        BY <4>3, <4>4, <4>5 DEF Registered
    <3>3. QED
      BY <3>1, <3>2
  <2>2. QED
    BY <2>1 DEF LiveAreHeard
<1>15. QED
  BY <1>7, <1>11, <1>12, <1>13, <1>14 DEF RegistryInv

\* A connection that ends takes itself out of its Set, and the entry of its run
\* with it when it was the last.
LEMMA RegistryLeaves ==
  ASSUME RegistryInv, NEW c \in Clients, conn[c].at \in {"open", "ended"},
         Cleanup(c), UNCHANGED state, NEW at \in {"ended", "gone"},
         conn' = [conn EXCEPT ![c].at = at, ![c].polling = FALSE],
         at = "ended" => isTerminalState(state[conn[c].run])
  PROVE  RegistryInv'
<1> DEFINE set  == conn[c].set
           run  == conn[c].run
           rest == members[set] \ {c}
<1>1. /\ run \in Runs /\ set \in Clients /\ None \notin Clients
      /\ members[set] \subseteq Clients
  BY StreamAssumption DEF RegistryInv, RegistryTypes, ConnectionsOK
<1>2. /\ conn'[c] = [conn[c] EXCEPT !.at = at, !.polling = FALSE]
      /\ \A d \in Clients : d # c => conn'[d] = conn[d]
      /\ conn' \in [Clients -> [at : {"new", "open", "ended", "gone"},
                               run : Runs \cup {None},
                               run_state : RunState \cup {"NONE"},
                               set : Clients \cup {None}, polling : BOOLEAN]]
  BY DEF RegistryInv, RegistryTypes
<1>3. /\ conn'[c].at = at /\ conn'[c].polling = FALSE
      /\ \A d \in Clients : conn'[d].run = conn[d].run /\ conn'[d].set = conn[d].set
  BY <1>2 DEF RegistryInv, RegistryTypes
<1>4. /\ members' = [members EXCEPT ![set] = rest]
      /\ streams' = [streams EXCEPT ![run] = IF rest = {} THEN None ELSE @]
  BY DEF Cleanup
<1>5. /\ \A d \in Clients : members'[d] = IF d = set THEN rest ELSE members[d]
      /\ \A s \in Runs : streams'[s] = IF s = run /\ rest = {} THEN None
                                                           ELSE streams[s]
  BY <1>1, <1>4 DEF RegistryInv, RegistryTypes
<1>6. \A s \in Runs : streams[s] = set => s = run
  <2>1. ASSUME NEW s \in Runs, streams[s] = set
        PROVE  s = run
    <3>1. PICK e \in Listeners(s) : TRUE
      BY <1>1, <2>1, AllListen
    <3>2. e \in Clients /\ conn[e].run = s /\ conn[e].set = set
      BY <2>1, <3>1, AllListen
    <3>3. QED
      BY <3>2 DEF RegistryInv, SetsOK
  <2>2. QED
    BY <2>1
<1> HIDE DEF rest, set, run
<1>7. RegistryTypes'
  <2>1. members' \in [Clients -> SUBSET Clients]
    BY <1>1, <1>4 DEF RegistryInv, RegistryTypes, rest
  <2>2. streams' \in [Runs -> Clients \cup {None}]
    BY <1>1, <1>4 DEF RegistryInv, RegistryTypes
  <2>3. QED
    BY <1>2, <2>1, <2>2 DEF RegistryInv, RegistryTypes
<1>8. ConnectionsOK'
  BY <1>1, <1>2, <1>3 DEF RegistryInv, ConnectionsOK, run
<1>9. SetsOK'
  <2>1. ASSUME NEW d \in Clients, conn'[d].at = "new"
        PROVE  /\ members'[d] = {} /\ \A e \in Clients : conn'[e].set # d
               /\ \A s \in Runs : streams'[s] # d
    <3>1. conn[d].at = "new" /\ d # c
      BY <1>2, <1>3, <2>1
    <3>2. /\ members[d] = {} /\ \A e \in Clients : conn[e].set # d
          /\ \A s \in Runs : streams[s] # d
      BY <3>1 DEF RegistryInv, SetsOK
    <3>3. d # set /\ \A e \in Clients : conn'[e].set # d
      BY <1>3, <3>2 DEF set
    <3>4. members'[d] = {} /\ \A s \in Runs : streams'[s] # d
      BY <1>1, <1>5, <3>2, <3>3
    <3>5. QED
      BY <3>3, <3>4
  <2>2. ASSUME NEW d \in Clients, NEW e \in members'[d]
        PROVE  conn'[e].set = d /\ conn'[e].at \in {"open", "ended"}
    <3>1. e \in members[d] /\ e \in Clients
      BY <1>5, <2>2 DEF rest, RegistryInv, RegistryTypes
    <3>2. conn[e].set = d /\ conn[e].at \in {"open", "ended"}
      BY <3>1 DEF RegistryInv, SetsOK
    <3>3. e # c
      BY <1>5, <2>2, <3>2 DEF rest, set
    <3>4. QED
      BY <1>2, <3>1, <3>2, <3>3
  <2>3. ASSUME NEW d \in Clients, NEW e \in Clients, conn'[d].set = conn'[e].set
        PROVE  conn'[d].run = conn'[e].run
    <3>1. conn[d].set = conn[e].set
      BY <1>3, <2>3
    <3>2. conn[d].run = conn[e].run
      BY <3>1 DEF RegistryInv, SetsOK
    <3>3. QED
      BY <1>3, <3>2
  <2>4. QED
    BY <2>1, <2>2, <2>3 DEF SetsOK
<1>10. SetsListen'
  <2>1. ASSUME NEW s \in Runs, streams'[s] # None
        PROVE  /\ Registered(s)' # {}
               /\ \A d \in Registered(s)' : isOpen(d)' /\ conn'[d].run = s
    <3>1. streams'[s] = streams[s] /\ streams[s] # None
      BY <1>5, <2>1
    <3>2. Registered(s)' = members'[streams[s]] /\ Registered(s) = members[streams[s]]
      BY <3>1 DEF Registered
    <3>3. /\ Registered(s) # {}
          /\ \A d \in Registered(s) : d \in Clients /\ isOpen(d) /\ conn[d].run = s
                                         /\ conn[d].set = streams[s]
      BY <3>1, AllListen
    <3>4. streams[s] \in Clients
      BY <3>1 DEF RegistryInv, RegistryTypes
    <3>5. CASE streams[s] = set
      <4>1. s = run /\ rest # {}
        BY <1>5, <1>6, <2>1, <3>5
      <4>2. Registered(s)' = rest /\ rest = Registered(s) \ {c}
        BY <1>5, <3>2, <3>4, <3>5 DEF rest
      <4>3. QED
        BY <1>2, <3>3, <4>1, <4>2 DEF isOpen
    <3>6. CASE streams[s] # set
      <4>1. Registered(s)' = Registered(s) /\ c \notin Registered(s)
        BY <1>5, <3>2, <3>3, <3>4, <3>6 DEF set
      <4>2. QED
        BY <1>2, <3>3, <4>1 DEF isOpen
    <3>7. QED
      BY <3>5, <3>6
  <2>2. QED
    BY <2>1 DEF SetsListen
<1>11. LiveAreHeard'
  <2>1. ASSUME NEW d \in Clients, NEW s \in Runs, isOpen(d)', conn'[d].run = s,
               ~isTerminalState(state'[s])
        PROVE  d \in Registered(s)'
    <3>1. d # c /\ isOpen(d) /\ conn[d].run = s /\ ~isTerminalState(state[s])
      BY <1>2, <1>3, <2>1 DEF isOpen
    <3>2. d \in Registered(s)
      BY <3>1 DEF RegistryInv, LiveAreHeard
    <3>3. streams[s] \in Clients /\ streams[s] # None /\ d \in members[streams[s]]
      BY <1>1, <3>2 DEF Registered, RegistryInv, RegistryTypes
    <3>4. s = run => isOpen(c)
      BY <3>1 DEF RegistryInv, ConnectionsOK, isOpen, run
    <3>5. s = run => c \in Registered(s)
      BY <3>1, <3>4 DEF RegistryInv, LiveAreHeard, run
    <3>6. s = run => streams[s] = set
      BY <3>3, <3>5 DEF Registered, RegistryInv, SetsOK, set
    <3>7. streams'[s] = streams[s]
      BY <1>5, <3>1, <3>3, <3>6 DEF rest
    <3>8. d \in members'[streams[s]]
      BY <1>5, <3>1, <3>3 DEF rest
    <3>9. QED
      BY <3>3, <3>7, <3>8 DEF Registered
  <2>2. QED
    BY <2>1 DEF LiveAreHeard
<1>12. QED
  BY <1>7, <1>8, <1>9, <1>10, <1>11 DEF RegistryInv

LEMMA RegistryStarts ==
  ASSUME Init
  PROVE  RegistryInv
<1>1. RegistryTypes
  BY DEF Init, RegistryTypes, NoConnection
<1>2. ConnectionsOK
  BY DEF Init, ConnectionsOK, NoConnection
<1>3. SetsOK
  BY StreamAssumption DEF Init, SetsOK, NoConnection
<1>4. SetsListen /\ LiveAreHeard
  BY DEF Init, SetsListen, LiveAreHeard, NoConnection, isOpen
<1>5. QED
  BY <1>1, <1>2, <1>3, <1>4 DEF RegistryInv

LEMMA RegistryStep ==
  ASSUME RegistryInv, [Next]_vars
  PROVE  RegistryInv'
<1>1. ASSUME NEW r \in Runs, ServiceStep(r)
      PROVE  RegistryInv'
  BY <1>1, ServiceMoves, RegistryRests, RegistryEnds
<1>2. ASSUME NEW c \in Clients, Poll(c)
      PROVE  RegistryInv'
  <2>1. conn[c].at \in {"open", "ended"}
    BY <1>2 DEF Poll, RegistryInv, ConnectionsOK
  <2>2. QED
    BY <1>2, <2>1, RegistryLeaves DEF Poll, serviceVars
<1>3. ASSUME NEW c \in Clients, Disconnect(c)
      PROVE  RegistryInv'
  BY <1>3, RegistryLeaves DEF Disconnect, serviceVars
<1>4. CASE UNCHANGED vars
  BY <1>4 DEF vars, serviceVars, registryVars, RegistryInv, RegistryTypes,
              ConnectionsOK, SetsOK, SetsListen, LiveAreHeard, Registered, isOpen
<1>5. QED
  BY <1>1, <1>2, <1>3, <1>4, RegistryJoins DEF Next, Quiet

LEMMA Always == Spec => []RegistryInv
<1>1. Init => RegistryInv
  BY RegistryStarts
<1>2. RegistryInv /\ [Next]_vars => RegistryInv'
  BY RegistryStep
<1>3. QED
  BY <1>1, <1>2, PTL DEF Spec

\* However Sets are made, dropped and held on to by the cleanups of earlier
\* connections, every connection to a run under way is in the Set that
\* SSEService.broadcast writes to, and such a Set has open connections only.
THEOREM Subscribed == Spec => []SubscribedWhileLive
<1>1. RegistryInv => SubscribedWhileLive
  <2> SUFFICES ASSUME RegistryInv PROVE SubscribedWhileLive
    OBVIOUS
  <2>1. \A c \in Clients : isOpen(c) => conn[c].run \in Runs
    BY DEF RegistryInv, ConnectionsOK, isOpen
  <2>2. QED
    BY <2>1 DEF RegistryInv, SetsListen, LiveAreHeard, SubscribedWhileLive
<1>2. QED
  BY <1>1, Always, PTL

-----------------------------------------------------------------------------
(* Numbers.  Sequences of events, and what holds of those of one run.        *)

\* The events of a run are numbered upwards.
Upwards(s, r) ==
  \A i, j \in 1..Len(s) :
    i < j /\ s[i].run_id = r /\ s[j].run_id = r => s[i].seq < s[j].seq

\* None of a run's events is beyond a number.
Within(s, r, n) == \A i \in 1..Len(s) : s[i].run_id = r => s[i].seq <= n

LEMMA NextIsAbove ==
  ASSUME NEW s \in Seq(SSEEventEnvelope), NEW r \in Runs, NEW n \in Nat,
         Upwards(s, r), Within(s, r, n), NEW type \in EventTypes
  PROVE  LET event == [type |-> type, run_id |-> r, seq |-> n + 1] IN
         /\ event \in SSEEventEnvelope
         /\ Append(s, event) \in Seq(SSEEventEnvelope)
         /\ Upwards(Append(s, event), r)
         /\ Within(Append(s, event), r, n + 1)
<1> DEFINE event == [type |-> type, run_id |-> r, seq |-> n + 1]
<1>1. event \in SSEEventEnvelope /\ event.seq = n + 1
  BY DEF SSEEventEnvelope
<1> HIDE DEF event
<1>2. /\ Append(s, event) \in Seq(SSEEventEnvelope)
      /\ Len(Append(s, event)) = Len(s) + 1
      /\ Append(s, event)[Len(s) + 1] = event
      /\ \A i \in 1..Len(s) : Append(s, event)[i] = s[i] /\ s[i] \in SSEEventEnvelope
  BY <1>1
<1>3. \A i \in 1..Len(s) : s[i].seq \in Nat
  BY <1>2 DEF SSEEventEnvelope
<1>4. Upwards(Append(s, event), r)
  <2>1. ASSUME NEW i \in 1..Len(s) + 1, NEW j \in 1..Len(s) + 1, i < j,
               Append(s, event)[i].run_id = r, Append(s, event)[j].run_id = r
        PROVE  Append(s, event)[i].seq < Append(s, event)[j].seq
    <3>1. i \in 1..Len(s)
      BY <2>1
    <3>2. CASE j \in 1..Len(s)
      BY <1>2, <2>1, <3>1, <3>2 DEF Upwards
    <3>3. CASE j = Len(s) + 1
      <4>1. s[i].seq <= n
        BY <1>2, <2>1, <3>1 DEF Within
      <4>2. QED
        BY <1>1, <1>2, <1>3, <3>1, <3>3, <4>1
    <3>4. QED
      BY <3>2, <3>3
  <2>2. QED
    BY <1>2, <2>1 DEF Upwards
<1>5. Within(Append(s, event), r, n + 1)
  BY <1>1, <1>2, <1>3 DEF Within
<1>6. QED
  BY <1>1, <1>2, <1>4, <1>5 DEF event

\* A later number is beyond nothing, and numbers of one run are nothing to others.
LEMMA StaysWithin ==
  ASSUME NEW s \in Seq(SSEEventEnvelope), NEW r \in Runs, NEW m \in Nat, NEW n \in Nat,
         m <= n, Within(s, r, m)
  PROVE  Within(s, r, n)
<1>1. \A i \in 1..Len(s) : s[i] \in SSEEventEnvelope
  OBVIOUS
<1>2. \A i \in 1..Len(s) : s[i].seq \in Nat
  BY <1>1 DEF SSEEventEnvelope
<1>3. QED
  BY <1>2 DEF Within

LEMMA OthersEvent ==
  ASSUME NEW s \in Seq(SSEEventEnvelope), NEW r \in Runs, NEW n,
         Upwards(s, r), NEW event \in SSEEventEnvelope, event.run_id # r
  PROVE  /\ Upwards(Append(s, event), r)
         /\ Within(s, r, n) => Within(Append(s, event), r, n)
<1>1. /\ Len(Append(s, event)) = Len(s) + 1
      /\ Append(s, event)[Len(s) + 1] = event
      /\ \A i \in 1..Len(s) : Append(s, event)[i] = s[i]
  OBVIOUS
<1>2. QED
  BY <1>1 DEF Upwards, Within

\* The buffer forgets from its old end.
LEMMA PushKeepsOrder ==
  ASSUME NEW s \in Seq(SSEEventEnvelope), NEW r \in Runs, NEW n \in Nat,
         Upwards(s, r), Within(s, r, n), NEW type \in EventTypes,
         Len(s) <= BufferSize, \A i \in 1..Len(s) : s[i].run_id = r
  PROVE  LET event == [type |-> type, run_id |-> r, seq |-> n + 1] IN
         /\ Push(s, event) \in Seq(SSEEventEnvelope)
         /\ Len(Push(s, event)) <= BufferSize
         /\ Upwards(Push(s, event), r)
         /\ Within(Push(s, event), r, n + 1)
         /\ \A i \in 1..Len(Push(s, event)) : Push(s, event)[i].run_id = r
<1> DEFINE event == [type |-> type, run_id |-> r, seq |-> n + 1]
<1>1. /\ event \in SSEEventEnvelope
      /\ \A t \in Seq(SSEEventEnvelope) : Upwards(t, r) /\ Within(t, r, n) =>
           /\ Append(t, event) \in Seq(SSEEventEnvelope)
           /\ Upwards(Append(t, event), r) /\ Within(Append(t, event), r, n + 1)
  BY NextIsAbove
<1>2. event.run_id = r
  OBVIOUS
<1> HIDE DEF event
<1>3. BufferSize \in Nat /\ BufferSize >= 1 /\ Len(s) \in Nat
  BY StreamAssumption
<1>4. ASSUME NEW t \in Seq(SSEEventEnvelope), Upwards(t, r), Within(t, r, n),
             \A i \in 1..Len(t) : t[i].run_id = r, Len(t) < BufferSize
      PROVE  /\ Append(t, event) \in Seq(SSEEventEnvelope)
             /\ Len(Append(t, event)) <= BufferSize
             /\ Upwards(Append(t, event), r)
             /\ Within(Append(t, event), r, n + 1)
             /\ \A i \in 1..Len(Append(t, event)) : Append(t, event)[i].run_id = r
  <2>1. /\ Len(Append(t, event)) = Len(t) + 1
        /\ Append(t, event)[Len(t) + 1] = event
        /\ \A i \in 1..Len(t) : Append(t, event)[i] = t[i]
    BY <1>1
  <2>2. \A i \in 1..Len(Append(t, event)) : Append(t, event)[i].run_id = r
    BY <1>2, <1>4, <2>1
  <2>3. QED
    BY <1>1, <1>3, <1>4, <2>1, <2>2
<1>5. CASE Len(s) < BufferSize
  BY <1>4, <1>5 DEF Push, event
<1>6. CASE ~(Len(s) < BufferSize)
  <2>1. s # << >>
    BY <1>3, <1>6
  <2>2. /\ Tail(s) \in Seq(SSEEventEnvelope) /\ Len(Tail(s)) = Len(s) - 1
        /\ \A i \in 1..Len(Tail(s)) : i + 1 \in 1..Len(s) /\ Tail(s)[i] = s[i + 1]
    BY <1>3, <1>6, <2>1
  <2>3. Upwards(Tail(s), r) /\ Within(Tail(s), r, n)
    BY <2>2 DEF Upwards, Within
  <2>4. Len(Tail(s)) < BufferSize /\ \A i \in 1..Len(Tail(s)) : Tail(s)[i].run_id = r
    BY <1>3, <2>2
  <2>5. QED
    BY <1>4, <1>6, <2>2, <2>3, <2>4 DEF Push, event
<1>7. QED
  BY <1>5, <1>6

\* The numbers: what is buffered and what a listener has got is of the past, and
\* nobody has got the events of a run out of order.
NumberTypes ==
  /\ exec \in [Runs -> {"none", "waiting", "running", "over"}]
  /\ announced \subseteq Runs
  /\ counters \in [Runs -> Nat]
  /\ buffers \in [Runs -> Seq(SSEEventEnvelope)]
  /\ \A r \in Runs : Len(buffers[r]) <= BufferSize
  /\ sent \in [Runs -> Seq(SSEEventEnvelope)]
  /\ received \in [Clients -> Seq(SSEEventEnvelope)]

BuffersOK ==
  \A r \in Runs :
    /\ Upwards(buffers[r], r) /\ Within(buffers[r], r, counters[r])
    /\ \A i \in 1..Len(buffers[r]) : buffers[r][i].run_id = r

ReceivedOK ==
  /\ \A c \in Clients : conn[c].at = "new" => received[c] = << >>
  /\ \A c \in Clients, r \in Runs : conn[c].run = r =>
       /\ Upwards(received[c], r)
       /\ c \in Registered(r) => Within(received[c], r, counters[r])

NumbersInv == NumberTypes /\ BuffersOK /\ ReceivedOK

\* What the service does to the numbers.
Skip(r) ==
  /\ counters' = [counters EXCEPT ![r] = @ + 1]
  /\ UNCHANGED <<buffers, registryVars, sent, received>>

\* stream_connected is not broadcast.
BroadcastTypes == EventTypes \ {"stream_connected"}

LEMMA ServiceSpeaks ==
  ASSUME NumberTypes, NEW r \in Runs, ServiceStep(r)
  PROVE  /\ exec' \in [Runs -> {"none", "waiting", "running", "over"}]
         /\ announced' \subseteq Runs
         /\ \/ \E type \in BroadcastTypes : Broadcast(r, type) \/ BroadcastAndClose(r, type)
            \/ CloseRun(r) /\ UNCHANGED <<members, sent, received>>
            \/ Skip(r)
            \/ UNCHANGED <<counters, buffers, registryVars, sent, received>>
<1>1. /\ {"run_queued", "run_started", "agent_event", "run_completed", "run_failed",
           "run_cancelled", "run_timed_out"} \subseteq BroadcastTypes
  BY DEF BroadcastTypes, EventTypes, TerminalTypes
<1>2. exec[r] \in {"none", "waiting", "running", "over"}
  BY DEF NumberTypes
<1>3. \A s : \A e \in {"none", "waiting", "running", "over"} :
        Service(r, s, e) => exec' \in [Runs -> {"none", "waiting", "running", "over"}]
  BY DEF Service, NumberTypes
<1>4. CASE RunCreated(r) \/ RunStarted(r)
  BY <1>1, <1>3, <1>4 DEF RunCreated, RunStarted, NumberTypes
<1>5. CASE RunCancelled(r) \/ CancelledAgain(r)
  BY <1>1, <1>2, <1>3, <1>5 DEF RunCancelled, CancelledAgain, Announce, NumberTypes
<1>6. CASE RunTimedOut(r)
  BY <1>1, <1>2, <1>3, <1>6 DEF RunTimedOut, Announce, NumberTypes
<1>7. CASE AgentEmits(r) \/ AgentEventSkipped(r)
  BY <1>1, <1>7 DEF AgentEmits, AgentEventSkipped, Skip, serviceVars, NumberTypes
<1>8. CASE RunConcluded(r)
  BY <1>1, <1>3, <1>8 DEF RunConcluded, NumberTypes
<1>9. CASE WindsDown(r)
  <2>1. exec' \in [Runs -> {"none", "waiting", "running", "over"}]
    BY <1>3, <1>9 DEF WindsDown
  <2>2. announced' \subseteq Runs
    BY <1>9 DEF WindsDown, NumberTypes
  <2>3. \/ CloseRun(r) /\ UNCHANGED <<members, sent, received>>
        \/ UNCHANGED <<counters, buffers, registryVars, sent, received>>
    BY <1>9 DEF WindsDown, registryVars
  <2>4. QED
    BY <2>1, <2>2, <2>3
<1>10. QED
  BY <1>4, <1>5, <1>6, <1>7, <1>8, <1>9 DEF ServiceStep

LEMMA BroadcastNumbers ==
  ASSUME RegistryInv, NumbersInv, NEW r \in Runs, NEW type \in EventTypes,
         Broadcast(r, type),
         exec' \in [Runs -> {"none", "waiting", "running", "over"}], announced' \subseteq Runs
  PROVE  NumbersInv'
<1> DEFINE n == counters[r]
           event == [type |-> type, run_id |-> r, seq |-> n + 1]
<1>1. /\ counters' = [counters EXCEPT ![r] = event.seq]
      /\ buffers' = [buffers EXCEPT ![r] = Push(@, event)]
      /\ sent' = [sent EXCEPT ![r] = Append(@, event)]
      /\ received' = [c \in Clients |-> IF c \in Listeners(r)
                        THEN Append(received[c], event) ELSE received[c]]
  BY DEF Broadcast, Envelope, WriteTo
<1>2. UNCHANGED registryVars /\ Listeners(r) = Registered(r)
  BY AllListen DEF Broadcast, registryVars
<1>3. \A c \in Listeners(r) : c \in Clients /\ isOpen(c) /\ conn[c].run = r
  BY AllListen
<1>4. n \in Nat /\ event \in SSEEventEnvelope /\ event.seq = n + 1 /\ event.run_id = r
  BY DEF NumbersInv, NumberTypes, SSEEventEnvelope
<1>5. \A s \in Seq(SSEEventEnvelope) : Upwards(s, r) /\ Within(s, r, n) =>
        Upwards(Append(s, event), r) /\ Within(Append(s, event), r, n + 1)
  BY <1>4, NextIsAbove
<1>6. LET s == Push(buffers[r], event) IN
      /\ s \in Seq(SSEEventEnvelope) /\ Len(s) <= BufferSize
      /\ Upwards(s, r) /\ Within(s, r, n + 1)
      /\ \A i \in 1..Len(s) : s[i].run_id = r
  BY <1>4, PushKeepsOrder DEF NumbersInv, NumberTypes, BuffersOK
<1> HIDE DEF n, event
<1>7. \A s \in Runs : counters'[s] = IF s = r THEN n + 1 ELSE counters[s]
  BY <1>1, <1>4 DEF NumbersInv, NumberTypes
<1>8. \A s \in Runs : buffers'[s] = IF s = r THEN Push(buffers[r], event) ELSE buffers[s]
  BY <1>1 DEF NumbersInv, NumberTypes
<1>9. NumberTypes'
  <2>1. counters' \in [Runs -> Nat]
    BY <1>1, <1>4 DEF NumbersInv, NumberTypes
  <2>2. buffers' \in [Runs -> Seq(SSEEventEnvelope)]
    BY <1>1, <1>6 DEF NumbersInv, NumberTypes
  <2>3. \A s \in Runs : Len(buffers'[s]) <= BufferSize
    BY <1>6, <1>8 DEF NumbersInv, NumberTypes
  <2>4. sent' \in [Runs -> Seq(SSEEventEnvelope)]
    BY <1>1, <1>4 DEF NumbersInv, NumberTypes
  <2>5. received' \in [Clients -> Seq(SSEEventEnvelope)]
    BY <1>1, <1>4 DEF NumbersInv, NumberTypes
  <2>6. QED
    BY <2>1, <2>2, <2>3, <2>4, <2>5 DEF NumberTypes
<1>10. BuffersOK'
  BY <1>6, <1>7, <1>8 DEF NumbersInv, BuffersOK
<1>11. ReceivedOK'
  <2>1. \A c \in Clients : conn'[c].at = "new" => received'[c] = << >>
    BY <1>1, <1>2, <1>3 DEF NumbersInv, ReceivedOK, registryVars, isOpen
  <2>2. ASSUME NEW c \in Clients, NEW s \in Runs, conn'[c].run = s
        PROVE  /\ Upwards(received'[c], s)
               /\ c \in Registered(s)' => Within(received'[c], s, counters'[s])
    <3>1. /\ conn[c].run = s /\ Registered(s)' = Registered(s)
          /\ received[c] \in Seq(SSEEventEnvelope) /\ Upwards(received[c], s)
          /\ c \in Registered(s) => Within(received[c], s, counters[s])
      BY <1>2, <2>2 DEF registryVars, Registered, NumbersInv, NumberTypes, ReceivedOK
    <3>2. CASE c \in Listeners(r)
      <4>1. s = r /\ received'[c] = Append(received[c], event) /\ Within(received[c], r, n)
        BY <1>1, <1>2, <1>3, <3>1, <3>2 DEF n
      <4>2. QED
        BY <1>5, <1>7, <3>1, <4>1
    <3>3. CASE c \notin Listeners(r)
      <4>1. received'[c] = received[c] /\ (s = r => c \notin Registered(s))
        BY <1>1, <1>2, <3>3
      <4>2. QED
        BY <1>7, <3>1, <4>1
    <3>4. QED
      BY <3>2, <3>3
  <2>3. QED
    BY <2>1, <2>2 DEF ReceivedOK
<1>12. QED
  BY <1>9, <1>10, <1>11 DEF NumbersInv

\* closeRun restarts the count, of a run nobody is registered for any more.
LEMMA CloseNumbers ==
  ASSUME RegistryInv, NumbersInv, NEW r \in Runs,
         \/ \E type \in EventTypes : BroadcastAndClose(r, type)
         \/ CloseRun(r) /\ UNCHANGED <<members, sent, received>>,
         exec' \in [Runs -> {"none", "waiting", "running", "over"}], announced' \subseteq Runs
  PROVE  NumbersInv'
<1>1. CloseRun(r) /\ Ended(r)
  BY AllListen DEF BroadcastAndClose, CloseRun, Ended
<1>2. /\ \A s \in Runs : counters'[s] = IF s = r THEN 0 ELSE counters[s]
      /\ \A s \in Runs : buffers'[s] = IF s = r THEN << >> ELSE buffers[s]
      /\ counters' \in [Runs -> Nat]
      /\ buffers' \in [Runs -> Seq(SSEEventEnvelope)]
  BY <1>1 DEF CloseRun, NumbersInv, NumberTypes
<1>3. BuffersOK'
  <2>1. ASSUME NEW s \in Runs
        PROVE  /\ Upwards(buffers'[s], s) /\ Within(buffers'[s], s, counters'[s])
               /\ \A i \in 1..Len(buffers'[s]) : buffers'[s][i].run_id = s
    <3>1. CASE s = r
      BY <1>2, <3>1 DEF Upwards, Within
    <3>2. CASE s # r
      BY <1>2, <3>2 DEF NumbersInv, BuffersOK
    <3>3. QED
      BY <3>1, <3>2
  <2>2. QED
    BY <2>1 DEF BuffersOK
<1>4. /\ \A c \in Clients : conn'[c].run = conn[c].run
      /\ \A c \in Clients : conn'[c].at = IF c \in Listeners(r) THEN "ended" ELSE conn[c].at
      /\ \A s \in Runs : Registered(s)' = IF s = r THEN {} ELSE Registered(s)
  BY <1>1 DEF Ended, EndStreams, Registered, RegistryInv, RegistryTypes
<1>5. \A c \in Listeners(r) : c \in Clients /\ isOpen(c) /\ conn[c].run = r
  BY AllListen
<1>6. \A c \in Listeners(r) : c \in Registered(r)
  BY DEF Listeners
<1>7. Len(<< >>) <= BufferSize
  BY StreamAssumption
<1>8. CASE received' = received /\ sent' = sent
  <2>1. NumberTypes'
    BY <1>2, <1>7, <1>8 DEF NumbersInv, NumberTypes
  <2>2. ReceivedOK'
    BY <1>2, <1>4, <1>8 DEF NumbersInv, ReceivedOK
  <2>3. QED
    BY <1>3, <2>1, <2>2 DEF NumbersInv
<1>9. ASSUME NEW type \in EventTypes, BroadcastAndClose(r, type)
      PROVE  NumbersInv'
  <2> DEFINE n == counters[r]
             event == [type |-> type, run_id |-> r, seq |-> n + 1]
  <2>1. /\ sent' = [sent EXCEPT ![r] = Append(@, event)]
        /\ received' = [c \in Clients |-> IF c \in Listeners(r)
                          THEN Append(received[c], event) ELSE received[c]]
    BY <1>9 DEF BroadcastAndClose, Envelope, WriteTo
  <2>2. n \in Nat /\ event \in SSEEventEnvelope
    BY DEF NumbersInv, NumberTypes, SSEEventEnvelope
  <2>3. \A s \in Seq(SSEEventEnvelope) : Upwards(s, r) /\ Within(s, r, n) =>
          Upwards(Append(s, event), r)
    BY <2>2, NextIsAbove
  <2> HIDE DEF n, event
  <2>4. NumberTypes'
    <3>1. sent' \in [Runs -> Seq(SSEEventEnvelope)]
      BY <2>1, <2>2 DEF NumbersInv, NumberTypes
    <3>2. received' \in [Clients -> Seq(SSEEventEnvelope)]
      BY <2>1, <2>2 DEF NumbersInv, NumberTypes
    <3>3. \A s \in Runs : Len(buffers'[s]) <= BufferSize
      BY <1>2, <1>7 DEF NumbersInv, NumberTypes
    <3>4. QED
      BY <1>2, <3>1, <3>2, <3>3 DEF NumberTypes
  <2>5. \A c \in Clients : conn'[c].at = "new" => received'[c] = << >>
    BY <1>4, <2>1 DEF NumbersInv, ReceivedOK
  <2>6. ASSUME NEW c \in Clients, NEW s \in Runs, conn'[c].run = s
        PROVE  /\ Upwards(received'[c], s)
               /\ c \in Registered(s)' => Within(received'[c], s, counters'[s])
    <3>1. /\ conn[c].run = s /\ received[c] \in Seq(SSEEventEnvelope)
          /\ Upwards(received[c], s)
          /\ c \in Registered(s) => Within(received[c], s, counters[s])
      BY <1>4, <2>6 DEF NumbersInv, NumberTypes, ReceivedOK
    <3>2. CASE c \in Listeners(r)
      <4>1. s = r /\ received'[c] = Append(received[c], event) /\ Within(received[c], r, n)
        BY <1>5, <1>6, <2>1, <3>1, <3>2 DEF n
      <4>2. QED
        BY <1>4, <2>3, <3>1, <4>1
    <3>3. CASE c \notin Listeners(r)
      <4>1. received'[c] = received[c]
        BY <2>1, <3>3
      <4>2. QED
        BY <1>2, <1>4, <3>1, <4>1
    <3>4. QED
      BY <3>2, <3>3
  <2>7. QED
    BY <1>3, <2>4, <2>5, <2>6 DEF NumbersInv, ReceivedOK
<1>10. QED
  BY <1>8, <1>9

\* Numbers only grow, nothing is written, and nobody registers.
LEMMA NumbersRest ==
  ASSUME RegistryInv, NumbersInv,
         exec' \in [Runs -> {"none", "waiting", "running", "over"}], announced' \subseteq Runs,
         \/ UNCHANGED counters
         \/ \E r \in Runs : counters' = [counters EXCEPT ![r] = @ + 1],
         UNCHANGED <<buffers, sent, received>>,
         \A c \in Clients : conn'[c].run = conn[c].run
                              /\ (conn'[c].at = "new" => conn[c].at = "new"),
         \A r \in Runs : Registered(r)' \subseteq Registered(r)
  PROVE  NumbersInv'
<1>1. /\ counters' \in [Runs -> Nat]
      /\ \A r \in Runs : counters[r] \in Nat /\ counters'[r] \in Nat
                           /\ counters[r] <= counters'[r]
  <2>1. CASE UNCHANGED counters
    BY <2>1 DEF NumbersInv, NumberTypes
  <2>2. ASSUME NEW r \in Runs, counters' = [counters EXCEPT ![r] = @ + 1]
        PROVE  /\ counters' \in [Runs -> Nat]
               /\ \A s \in Runs : counters'[s] = IF s = r THEN counters[s] + 1
                                                          ELSE counters[s]
    BY <2>2 DEF NumbersInv, NumberTypes
  <2>3. \A r \in Runs : counters[r] \in Nat
    BY DEF NumbersInv, NumberTypes
  <2>4. QED
    BY <2>1, <2>2, <2>3
<1>2. NumberTypes'
  BY <1>1 DEF NumbersInv, NumberTypes
<1>3. BuffersOK'
  <2>1. \A r \in Runs : buffers[r] \in Seq(SSEEventEnvelope)
    BY DEF NumbersInv, NumberTypes
  <2>2. \A r \in Runs : Within(buffers[r], r, counters'[r])
    BY <1>1, <2>1, StaysWithin DEF NumbersInv, BuffersOK
  <2>3. QED
    BY <2>2 DEF NumbersInv, BuffersOK
<1>4. ReceivedOK'
  <2>1. \A c \in Clients : received[c] \in Seq(SSEEventEnvelope)
    BY DEF NumbersInv, NumberTypes
  <2>2. \A c \in Clients, r \in Runs :
          Within(received[c], r, counters[r]) => Within(received[c], r, counters'[r])
    BY <1>1, <2>1, StaysWithin
  <2>3. QED
    BY <2>2 DEF NumbersInv, ReceivedOK
<1>5. QED
  BY <1>2, <1>3, <1>4 DEF NumbersInv

\* getFrom: what is buffered of any run, each event once, in order of number.
LEMMA ReplayOfRun ==
  ASSUME RegistryInv, NumbersInv, IsFiniteSet(Runs), NEW from, NEW replay \in Replays(from)
  PROVE  /\ replay \in Seq(SSEEventEnvelope)
         /\ \A r \in Runs : Upwards(replay, r) /\ Within(replay, r, counters[r])
         /\ \A r \in Runs : \A i \in 1..Len(replay) : replay[i].run_id = r =>
              \E k \in 1..Len(buffers[r]) :
                buffers[r][k].seq >= from /\ replay[i] = buffers[r][k]
         /\ \A r \in Runs : \A k \in 1..Len(buffers[r]) : buffers[r][k].seq >= from =>
              \E i \in 1..Len(replay) : replay[i] = buffers[r][k]
<1> DEFINE Buffered == {ToSet(buffers[r]) : r \in Runs}
           S == {e \in UNION Buffered : e.seq >= from}
<1>1. \A r \in Runs : buffers[r] \in Seq(SSEEventEnvelope)
  BY DEF NumbersInv, NumberTypes
<1>2. IsFiniteSet(Buffered)
  <2> DEFINE f == [r \in Runs |-> ToSet(buffers[r])]
  <2>1. f \in Surjection(Runs, Buffered)
    BY DEF Surjection
  <2> HIDE DEF f, Buffered
  <2>2. QED
    BY <2>1, FS_Surjection
<1>3. \A T \in Buffered : IsFiniteSet(T)
  <2>1. ASSUME NEW r \in Runs
        PROVE  IsFiniteSet(ToSet(buffers[r]))
    <3>1. Len(buffers[r]) \in Nat /\ DOMAIN buffers[r] = 1..Len(buffers[r])
      BY <1>1
    <3>2. buffers[r] \in [1..Len(buffers[r]) -> ToSet(buffers[r])]
      BY <1>1, <3>1 DEF ToSet
    <3>3. buffers[r] \in Surjection(1..Len(buffers[r]), ToSet(buffers[r]))
      BY <3>1, <3>2 DEF Surjection, ToSet
    <3>4. IsFiniteSet(1..Len(buffers[r]))
      BY <3>1, FS_Interval
    <3>5. QED
      BY <3>3, <3>4, FS_Surjection
  <2>2. QED
    BY <2>1
<1>4. IsFiniteSet(S)
  <2>1. IsFiniteSet(UNION Buffered)
    BY <1>2, <1>3, FS_UNION
  <2>2. S \in SUBSET UNION Buffered
    OBVIOUS
  <2> HIDE DEF S, Buffered
  <2>3. QED
    BY <2>1, <2>2, FS_Subset
<1>5. \A e \in S : \E r \in Runs : \E i \in 1..Len(buffers[r]) :
        e = buffers[r][i] /\ e \in SSEEventEnvelope
  BY <1>1 DEF ToSet
<1>6. /\ replay \in SetToSeqs(S)
      /\ \A i, j \in DOMAIN replay : i < j => replay[i].seq <= replay[j].seq
  BY DEF Replays
<1>7. \A e \in S : e.seq >= from
  OBVIOUS
<1>8. ASSUME NEW r \in Runs, NEW k \in 1..Len(buffers[r]), buffers[r][k].seq >= from
       PROVE  buffers[r][k] \in S
  <2>1. buffers[r][k] \in ToSet(buffers[r])
    BY <1>1 DEF ToSet
  <2>2. QED
    BY <1>8, <2>1
<1> HIDE DEF S, Buffered
<1>9. PICK n \in Nat : n = Cardinality(S)
  BY <1>4, FS_CardinalityType
<1>10. /\ replay \in [1..n -> S]
      /\ \A i, j \in 1..n : i # j => replay[i] # replay[j]
  BY <1>6, <1>9 DEF SetToSeqs
<1>11. /\ replay \in Seq(SSEEventEnvelope) /\ Len(replay) = n
      /\ \A i \in 1..n : replay[i] \in S
  <2>1. S \subseteq SSEEventEnvelope
    BY <1>5
  <2>2. replay \in [1..n -> SSEEventEnvelope]
    BY <1>10, <2>1
  <2>3. QED
    BY <1>10, <2>2
<1>12. ASSUME NEW r \in Runs, NEW e \in S, e.run_id = r
       PROVE  \E i \in 1..Len(buffers[r]) : e = buffers[r][i]
  BY <1>5, <1>12 DEF NumbersInv, BuffersOK
<1>13. ASSUME NEW r \in Runs
       PROVE  Upwards(replay, r)
  <2>1. ASSUME NEW i \in 1..n, NEW j \in 1..n, i < j,
               replay[i].run_id = r, replay[j].run_id = r
        PROVE  replay[i].seq < replay[j].seq
    <3>1. PICK k \in 1..Len(buffers[r]) : replay[i] = buffers[r][k]
      BY <1>11, <1>12, <2>1
    <3>2. PICK l \in 1..Len(buffers[r]) : replay[j] = buffers[r][l]
      BY <1>11, <1>12, <2>1
    <3>3. replay[i] # replay[j] /\ replay[i].seq <= replay[j].seq
      BY <1>6, <1>10, <2>1
    <3>4. k # l
      BY <3>1, <3>2, <3>3
    <3>5. /\ buffers[r][k] \in SSEEventEnvelope /\ buffers[r][l] \in SSEEventEnvelope
          /\ buffers[r][k].run_id = r /\ buffers[r][l].run_id = r
      BY <1>1, <2>1, <3>1, <3>2
    <3>6. /\ k < l => buffers[r][k].seq < buffers[r][l].seq
          /\ l < k => buffers[r][l].seq < buffers[r][k].seq
      BY <3>5 DEF NumbersInv, BuffersOK, Upwards
    <3>7. buffers[r][k].seq \in Nat /\ buffers[r][l].seq \in Nat
          /\ k \in Nat /\ l \in Nat
      BY <1>1, <3>5 DEF SSEEventEnvelope
    <3>8. QED
      BY <3>1, <3>2, <3>3, <3>4, <3>6, <3>7
  <2>2. QED
    BY <1>11, <2>1 DEF Upwards
<1>14. ASSUME NEW r \in Runs
       PROVE  Within(replay, r, counters[r])
  <2>1. ASSUME NEW i \in 1..n, replay[i].run_id = r
        PROVE  replay[i].seq <= counters[r]
    <3>1. PICK k \in 1..Len(buffers[r]) : replay[i] = buffers[r][k]
      BY <1>11, <1>12, <2>1
    <3>2. QED
      BY <2>1, <3>1 DEF NumbersInv, BuffersOK, Within
  <2>2. QED
    BY <1>11, <2>1 DEF Within
<1>15. replay \in Surjection(1..n, S)
  <2>1. DOMAIN replay = 1..n
    BY <1>10
  <2>2. replay \in Injection(1..n, S)
    BY <1>10, <2>1 DEF Injection, IsInjective
  <2>3. IsFiniteSet(1..n) /\ Cardinality(1..n) = n
    BY FS_Interval
  <2>4. QED
    BY <1>4, <1>9, <2>2, <2>3, FS_Injection
<1>16. ASSUME NEW r \in Runs, NEW i \in 1..Len(replay), replay[i].run_id = r
       PROVE  \E k \in 1..Len(buffers[r]) :
                buffers[r][k].seq >= from /\ replay[i] = buffers[r][k]
  BY <1>11, <1>12, <1>7, <1>16
<1>17. ASSUME NEW r \in Runs, NEW k \in 1..Len(buffers[r]), buffers[r][k].seq >= from
       PROVE  \E i \in 1..Len(replay) : replay[i] = buffers[r][k]
  BY <1>11, <1>8, <1>15, <1>17 DEF Surjection
<1>18. QED
  BY <1>11, <1>13, <1>14, <1>16, <1>17

\* Nobody but the new connection becomes registered by it.
LEMMA JoinsOnlyIt ==
  ASSUME RegistryInv, NEW c \in Clients, NEW r \in Runs, NEW from, Connect(c, r, from),
         NEW d, d # c, NEW s \in Runs, d \in Registered(s)'
  PROVE  d \in Registered(s)
<1> DEFINE set == IF streams[r] = None THEN c ELSE streams[r]
<1>1. /\ conn[c] = NoConnection
      /\ streams' = [streams EXCEPT ![r] = set]
      /\ members' = [members EXCEPT ![set] = @ \cup {c}]
  BY DEF Connect
<1>2. members[c] = {} /\ None \notin Clients
  BY <1>1, StreamAssumption DEF RegistryInv, SetsOK, NoConnection
<1>3. set \in Clients
  BY DEF RegistryInv, RegistryTypes
<1> HIDE DEF set
<1>4. /\ \A x \in Clients : members'[x] = IF x = set THEN members[x] \cup {c} ELSE members[x]
      /\ streams'[s] = IF s = r THEN set ELSE streams[s]
  BY <1>1 DEF RegistryInv, RegistryTypes
<1>5. streams'[s] \in Clients /\ d \in members'[streams'[s]]
  BY <1>3, <1>4 DEF Registered, RegistryInv, RegistryTypes
<1>6. d \in members[streams'[s]]
  BY <1>4, <1>5
<1>7. streams'[s] # c
  BY <1>2, <1>6
<1>8. streams[s] = streams'[s]
  BY <1>4, <1>7 DEF set
<1>9. QED
  BY <1>2, <1>5, <1>6, <1>8 DEF Registered

\* A new connection is written the past of its run and the next number.
LEMMA ConnectNumbers ==
  ASSUME RegistryInv, NumbersInv, IsFiniteSet(Runs),
         NEW c \in Clients, NEW r \in Runs, NEW from, Connect(c, r, from)
  PROVE  NumbersInv'
<1> DEFINE n == counters[r]
           event == [type |-> "stream_connected", run_id |-> r, seq |-> n + 1]
<1>1. PICK replay \in IF from = None THEN {<< >>} ELSE Replays(from) :
        received' = [received EXCEPT ![c] = Append(replay, event)]
  BY DEF Connect, Opening, Envelope
<1>2. /\ conn[c] = NoConnection /\ counters' = [counters EXCEPT ![r] = n + 1]
      /\ UNCHANGED <<serviceVars, buffers, sent>>
  BY DEF Connect, Envelope
<1>3. /\ conn'[c].run = r /\ conn'[c].at = "open"
      /\ \A d \in Clients \ {c} : conn'[d] = conn[d]
  BY DEF Connect, RegistryInv, RegistryTypes
<1>4. /\ replay \in Seq(SSEEventEnvelope)
      /\ \A s \in Runs : Upwards(replay, s) /\ Within(replay, s, counters[s])
  <2>1. CASE from = None
    BY <1>1, <2>1 DEF Upwards, Within
  <2>2. CASE from # None
    BY <1>1, <2>2, ReplayOfRun
  <2>3. QED
    BY <2>1, <2>2
<1>5. n \in Nat /\ "stream_connected" \in EventTypes
  BY DEF NumbersInv, NumberTypes, EventTypes
<1>6. /\ Append(replay, event) \in Seq(SSEEventEnvelope)
      /\ Upwards(Append(replay, event), r)
      /\ Within(Append(replay, event), r, n + 1)
  BY <1>4, <1>5, NextIsAbove
<1>7. \A s \in Runs : counters'[s] = IF s = r THEN n + 1 ELSE counters[s]
  BY <1>2, <1>5 DEF NumbersInv, NumberTypes
<1>8. \A s \in Runs : counters[s] \in Nat /\ counters'[s] \in Nat
                        /\ counters[s] <= counters'[s]
  <2>1. \A s \in Runs : counters[s] \in Nat
    BY DEF NumbersInv, NumberTypes
  <2>2. QED
    BY <1>7, <2>1
<1>9. NumberTypes'
  <2>1. received' \in [Clients -> Seq(SSEEventEnvelope)]
    BY <1>1, <1>6 DEF NumbersInv, NumberTypes
  <2>2. counters' \in [Runs -> Nat]
    BY <1>2, <1>5 DEF NumbersInv, NumberTypes
  <2>3. QED
    BY <1>2, <2>1, <2>2 DEF NumbersInv, NumberTypes, serviceVars
<1>10. BuffersOK'
  <2>1. \A s \in Runs : buffers[s] \in Seq(SSEEventEnvelope)
    BY DEF NumbersInv, NumberTypes
  <2>2. \A s \in Runs : Within(buffers[s], s, counters'[s])
    BY <1>8, <2>1, StaysWithin DEF NumbersInv, BuffersOK
  <2>3. QED
    BY <1>2, <2>2 DEF NumbersInv, BuffersOK
<1>11. /\ received'[c] = Append(replay, event)
       /\ \A d \in Clients \ {c} : received'[d] = received[d]
  BY <1>1 DEF NumbersInv, NumberTypes
<1> HIDE DEF event, n
<1>12. \A d \in Clients : conn'[d].at = "new" => received'[d] = << >>
  BY <1>3, <1>11 DEF NumbersInv, ReceivedOK
<1>13. ASSUME NEW d \in Clients, NEW s \in Runs, conn'[d].run = s
       PROVE  /\ Upwards(received'[d], s)
              /\ d \in Registered(s)' => Within(received'[d], s, counters'[s])
  <2>1. CASE d = c
    BY <1>3, <1>6, <1>7, <1>11, <1>13, <2>1
  <2>2. CASE d # c
    <3>1. conn[d].run = s /\ received'[d] = received[d] /\ received[d] \in Seq(SSEEventEnvelope)
      BY <1>3, <1>11, <1>13, <2>2 DEF NumbersInv, NumberTypes
    <3>2. d \in Registered(s)' => d \in Registered(s)
      BY <2>2, JoinsOnlyIt
    <3>3. QED
      BY <1>8, <3>1, <3>2, StaysWithin DEF NumbersInv, ReceivedOK
  <2>3. QED
    BY <2>1, <2>2
<1>14. QED
  BY <1>9, <1>10, <1>12, <1>13 DEF NumbersInv, ReceivedOK

LEMMA NumbersStep ==
  ASSUME IsFiniteSet(Runs), RegistryInv, NumbersInv, [Next]_vars
  PROVE  NumbersInv'
<1>1. ASSUME NEW r \in Runs, ServiceStep(r)
      PROVE  NumbersInv'
  <2>1. /\ exec' \in [Runs -> {"none", "waiting", "running", "over"}]
        /\ announced' \subseteq Runs
        /\ \/ \E type \in EventTypes : Broadcast(r, type) \/ BroadcastAndClose(r, type)
           \/ CloseRun(r) /\ UNCHANGED <<members, sent, received>>
           \/ Skip(r)
           \/ UNCHANGED <<counters, buffers, registryVars, sent, received>>
    BY <1>1, ServiceSpeaks DEF NumbersInv, BroadcastTypes
  <2>2. ASSUME UNCHANGED <<buffers, registryVars, sent, received>>,
               \/ UNCHANGED counters
               \/ \E s \in Runs : counters' = [counters EXCEPT ![s] = @ + 1]
        PROVE  NumbersInv'
    <3>1. /\ \A c \in Clients : conn'[c].run = conn[c].run
                                  /\ (conn'[c].at = "new" => conn[c].at = "new")
          /\ \A s \in Runs : Registered(s)' \subseteq Registered(s)
      BY <2>2 DEF registryVars, Registered
    <3>2. QED
      BY <2>1, <2>2, <3>1, NumbersRest
  <2>3. CASE Skip(r) \/ UNCHANGED <<counters, buffers, registryVars, sent, received>>
    BY <2>2, <2>3 DEF Skip
  <2>4. QED
    BY <2>1, <2>3, BroadcastNumbers, CloseNumbers
<1>2. ASSUME NEW c \in Clients, Poll(c) \/ Disconnect(c)
      PROVE  NumbersInv'
  <2>1. conn[c].at # "new"
    BY <1>2 DEF Poll, Disconnect, RegistryInv, ConnectionsOK
  <2>2. /\ Cleanup(c) /\ UNCHANGED <<serviceVars, counters, buffers, sent, received>>
        /\ \E at : conn' = [conn EXCEPT ![c].at = at, ![c].polling = FALSE]
    BY <1>2 DEF Poll, Disconnect
  <2>3. \A d \in Clients : conn'[d].run = conn[d].run
                             /\ (conn'[d].at = "new" => conn[d].at = "new" \/ d = c)
    BY <2>2 DEF RegistryInv, RegistryTypes
  <2>4. conn'[c].at # "new"
    BY <1>2 DEF Poll, Disconnect, RegistryInv, RegistryTypes
  <2>5. \A s \in Runs : Registered(s)' \subseteq Registered(s)
    BY <2>2, StreamAssumption DEF Cleanup, Registered, RegistryInv, RegistryTypes
  <2>6. QED
    BY <2>2, <2>3, <2>4, <2>5, NumbersRest DEF serviceVars, NumbersInv, NumberTypes
<1>3. CASE UNCHANGED vars
  BY <1>3 DEF vars, serviceVars, registryVars, NumbersInv, NumberTypes, BuffersOK,
              ReceivedOK, Registered
<1>4. QED
  BY <1>1, <1>2, <1>3, ConnectNumbers DEF Next, Quiet

LEMMA NumbersStart ==
  ASSUME Init
  PROVE  NumbersInv
<1>1. NumberTypes
  BY StreamAssumption DEF Init, NumberTypes
<1>2. BuffersOK
  BY DEF Init, BuffersOK, Upwards, Within
<1>3. ReceivedOK
  BY DEF Init, ReceivedOK, Upwards, Within
<1>4. QED
  BY <1>1, <1>2, <1>3 DEF NumbersInv

LEMMA NumbersAlways ==
  ASSUME IsFiniteSet(Runs)
  PROVE  Spec => []NumbersInv
<1>1. Init => NumbersInv
  BY NumbersStart
<1>2. RegistryInv /\ NumbersInv /\ [Next]_vars => NumbersInv'
  BY NumbersStep
<1>3. QED
  BY <1>1, <1>2, Always, PTL DEF Spec

\* Every value the event stream keeps is of its type, and no replay buffer holds
\* more than BufferSize events.
THEOREM StreamTyped ==
  ASSUME IsFiniteSet(Runs)
  PROVE  Spec => []StreamTypeOK
<1>1. RegistryInv /\ NumbersInv => StreamTypeOK
  BY DEF RegistryInv, RegistryTypes, NumbersInv, NumberTypes, StreamTypeOK
<1>2. QED
  BY <1>1, Always, NumbersAlways, PTL

\* What a client is sent of its run, replayed and live, is numbered upwards, although
\* closeRun sets the sequencer back while clients of the run may still be open.
THEOREM NumberedUpwards ==
  ASSUME IsFiniteSet(Runs)
  PROVE  Spec => []SeqIncreases
<1>1. RegistryInv /\ NumbersInv => SeqIncreases
  <2> SUFFICES ASSUME RegistryInv, NumbersInv,
                      NEW c \in Clients, NEW i \in DOMAIN received[c],
                      NEW j \in DOMAIN received[c], i < j,
                      received[c][i].run_id = conn[c].run,
                      received[c][j].run_id = conn[c].run
               PROVE  received[c][i].seq < received[c][j].seq
    BY DEF SeqIncreases
  <2>1. i \in 1..Len(received[c]) /\ j \in 1..Len(received[c])
    BY DEF NumbersInv, NumberTypes
  <2>2. conn[c].at # "new"
    BY <2>1 DEF NumbersInv, ReceivedOK
  <2>3. conn[c].run \in Runs
    BY <2>2 DEF RegistryInv, ConnectionsOK
  <2>4. Upwards(received[c], conn[c].run)
    BY <2>3 DEF NumbersInv, ReceivedOK
  <2>5. QED
    BY <2>1, <2>4 DEF Upwards
<1>2. QED
  BY <1>1, Always, NumbersAlways, PTL

-----------------------------------------------------------------------------
(* Ends.                                                                     *)

Told(c, r) ==
  \E i \in 1..Len(received[c]) :
    received[c][i].run_id = r /\ received[c][i].type \in TerminalTypes

TimeoutSent(r) == \E i \in 1..Len(sent[r]) : sent[r][i].type = "run_timed_out"

\* How the run ended is known to those who listened.
EndKnown(r) == state[r] \in {"COMPLETED", "FAILED", "CANCELLED"} \/ TimeoutSent(r)

\* Who subscribed to a run under way and is still there, or was let go, knows how
\* it ended as soon as it has, or as a timeout is announced; and only a run that
\* timed out is said to have.
EndsKnown ==
  /\ \A r \in Runs : TimeoutSent(r) => state[r] = "TIMED_OUT"
  /\ \A c \in Clients, r \in Runs :
       /\ conn[c].run = r /\ conn[c].at \in {"open", "ended"}
       /\ ~isTerminalState(conn[c].run_state)
       /\ EndKnown(r)
       => Told(c, r)

LEMMA OneSent ==
  ASSUME NumberTypes, NEW r \in Runs, NEW type \in EventTypes,
         Broadcast(r, type) \/ BroadcastAndClose(r, type), NEW s \in Runs
  PROVE  TimeoutSent(s)' <=> TimeoutSent(s) \/ (s = r /\ type = "run_timed_out")
<1> DEFINE event == [type |-> type, run_id |-> r, seq |-> counters[r] + 1]
<1>1. sent' = [sent EXCEPT ![r] = Append(sent[r], event)] /\ event.type = type
  BY DEF Broadcast, BroadcastAndClose, Envelope
<1>2. event \in SSEEventEnvelope
  BY DEF NumberTypes, SSEEventEnvelope
<1> HIDE DEF event
<1>3. CASE s # r
  BY <1>1, <1>3 DEF TimeoutSent, NumberTypes
<1>4. CASE s = r
  <2>1. /\ Len(sent'[r]) = Len(sent[r]) + 1 /\ Len(sent[r]) \in Nat
        /\ sent'[r][Len(sent[r]) + 1] = event
        /\ \A i \in 1..Len(sent[r]) : sent'[r][i] = sent[r][i]
    BY <1>1, <1>2 DEF NumberTypes
  <2>2. \A i : i \in 1..Len(sent'[r]) <=> i \in 1..Len(sent[r]) \/ i = Len(sent[r]) + 1
    BY <2>1
  <2>3. QED
    BY <1>1, <1>4, <2>1, <2>2 DEF TimeoutSent
<1>5. QED
  BY <1>3, <1>4

\* A run ends by being announced, to all that are open, but for some timeouts.
LEMMA EndsAnnounced ==
  ASSUME RegistryInv, NumberTypes, NEW r \in Runs, ServiceStep(r), NEW s \in Runs,
         TimeoutSent(s) => state[s] = "TIMED_OUT"
  PROVE  /\ TimeoutSent(s)' => state'[s] = "TIMED_OUT"
         /\ EndKnown(s)' /\ ~EndKnown(s) =>
              /\ s = r /\ ~isTerminalState(state[r])
              /\ \E type \in TerminalTypes :
                   Broadcast(r, type) \/ BroadcastAndClose(r, type)
<1>1. ASSUME NEW t, NEW e, Service(r, t, e)
      PROVE  state'[r] = t
  BY <1>1 DEF Service, RegistryInv, RegistryTypes
<1>2. /\ {"run_completed", "run_failed", "run_cancelled", "run_timed_out"} = TerminalTypes
      /\ TerminalTypes \subseteq EventTypes
      /\ {"run_queued", "run_started", "agent_event"} \subseteq EventTypes
  BY DEF TerminalTypes, EventTypes
<1>3. state[s] = "TIMED_OUT" => state'[s] = "TIMED_OUT"
  BY ServiceMoves DEF Onward, isTerminalState
<1>4. s # r => state'[s] = state[s]
  BY ServiceMoves DEF Onward
<1>5. ASSUME NEW type \in EventTypes \ {"run_timed_out"},
             Broadcast(r, type) \/ BroadcastAndClose(r, type)
      PROVE  TimeoutSent(s)' <=> TimeoutSent(s)
  BY <1>5, OneSent
<1>6. UNCHANGED sent => (TimeoutSent(s)' <=> TimeoutSent(s))
  BY DEF TimeoutSent
<1>7. CASE RunCreated(r) \/ RunStarted(r)
  <2>1. (TimeoutSent(s)' <=> TimeoutSent(s)) /\ state'[r] \in {"QUEUED", "RUNNING"}
    BY <1>1, <1>2, <1>5, <1>7 DEF RunCreated, RunStarted
  <2>2. QED
    BY <1>3, <1>4, <2>1 DEF EndKnown
<1>8. CASE AgentEmits(r) \/ AgentEventSkipped(r) \/ CancelledAgain(r)
  <2>1. (TimeoutSent(s)' <=> TimeoutSent(s)) /\ UNCHANGED state
    BY <1>2, <1>5, <1>6, <1>8
       DEF AgentEmits, AgentEventSkipped, CancelledAgain, Announce, serviceVars
  <2>2. QED
    BY <1>3, <2>1 DEF EndKnown
<1>9. CASE WindsDown(r)
  <2>1. (TimeoutSent(s)' <=> TimeoutSent(s)) /\ state'[r] = state[r]
    BY <1>1, <1>6, <1>9 DEF WindsDown
  <2>2. QED
    BY <1>3, <1>4, <2>1 DEF EndKnown
<1>10. CASE RunCancelled(r)
  <2>1. /\ (TimeoutSent(s)' <=> TimeoutSent(s)) /\ ~isTerminalState(state[r])
        /\ Broadcast(r, "run_cancelled")
    BY <1>2, <1>5, <1>10 DEF RunCancelled, Announce, isTerminalState
  <2>2. QED
    BY <1>2, <1>3, <1>4, <2>1 DEF EndKnown
<1>11. CASE RunConcluded(r)
  <2>1. /\ (TimeoutSent(s)' <=> TimeoutSent(s)) /\ ~isTerminalState(state[r])
        /\ \E type \in TerminalTypes : BroadcastAndClose(r, type)
    BY <1>2, <1>5, <1>11 DEF RunConcluded, isTerminalState
  <2>2. QED
    BY <1>3, <1>4, <2>1 DEF EndKnown
<1>12. CASE RunTimedOut(r)
  <2>1. state'[r] = "TIMED_OUT" /\ ~isTerminalState(state[r])
    BY <1>1, <1>12 DEF RunTimedOut, isTerminalState
  <2>2. CASE UNCHANGED sent
    BY <1>3, <1>4, <1>6, <2>1, <2>2 DEF EndKnown
  <2>3. CASE Broadcast(r, "run_timed_out")
    <3>1. TimeoutSent(s)' <=> TimeoutSent(s) \/ s = r
      BY <1>2, <2>3, OneSent
    <3>2. QED
      BY <1>2, <1>3, <1>4, <2>1, <2>3, <3>1 DEF EndKnown
  <2>4. QED
    BY <1>12, <2>2, <2>3 DEF RunTimedOut, Announce
<1>13. QED
  BY <1>7, <1>8, <1>9, <1>10, <1>11, <1>12 DEF ServiceStep

\* What a client was sent stays sent.
LEMMA StaysTold ==
  ASSUME NumbersInv, NEW c \in Clients, NEW r \in Runs, Told(c, r),
         \/ received'[c] = received[c]
         \/ \E e \in SSEEventEnvelope : received'[c] = Append(received[c], e)
  PROVE  Told(c, r)'
<1>1. received[c] \in Seq(SSEEventEnvelope)
  BY DEF NumbersInv, NumberTypes
<1>2. CASE received'[c] = received[c]
  BY <1>2 DEF Told
<1>3. ASSUME NEW e \in SSEEventEnvelope, received'[c] = Append(received[c], e)
      PROVE  Told(c, r)'
  <2>1. /\ Len(received'[c]) = Len(received[c]) + 1
        /\ \A i \in 1..Len(received[c]) : received'[c][i] = received[c][i]
    BY <1>1, <1>3
  <2>2. \A i \in 1..Len(received[c]) : i \in 1..Len(received'[c])
    BY <1>1, <2>1
  <2>3. QED
    BY <2>1, <2>2 DEF Told
<1>4. QED
  BY <1>2, <1>3

LEMMA ServiceWrites ==
  ASSUME RegistryInv, NumbersInv, NEW r \in Runs, ServiceStep(r), NEW c \in Clients
  PROVE  /\ \/ received'[c] = received[c]
            \/ \E e \in SSEEventEnvelope : received'[c] = Append(received[c], e)
         /\ conn'[c].run = conn[c].run /\ conn'[c].run_state = conn[c].run_state
         /\ conn'[c].at \in {"open", "ended"} => conn[c].at \in {"open", "ended"}
<1>1. ASSUME NEW type \in EventTypes, Broadcast(r, type) \/ BroadcastAndClose(r, type)
      PROVE  \/ received'[c] = received[c]
             \/ \E e \in SSEEventEnvelope : received'[c] = Append(received[c], e)
  <2> DEFINE event == [type |-> type, run_id |-> r, seq |-> counters[r] + 1]
  <2>1. event \in SSEEventEnvelope
    BY DEF NumbersInv, NumberTypes, SSEEventEnvelope
  <2>2. received'[c] = IF c \in Listeners(r) THEN Append(received[c], event)
                                             ELSE received[c]
    BY <1>1 DEF Broadcast, BroadcastAndClose, WriteTo, Envelope
  <2> HIDE DEF event
  <2>3. QED
    BY <2>1, <2>2
<1>2. \/ received'[c] = received[c]
      \/ \E e \in SSEEventEnvelope : received'[c] = Append(received[c], e)
  BY <1>1, ServiceSpeaks DEF NumbersInv, Skip, BroadcastTypes
<1>3. CASE UNCHANGED registryVars
  BY <1>2, <1>3 DEF registryVars
<1>4. CASE Ended(r)
  <2>1. \A d \in Listeners(r) : isOpen(d)
    BY AllListen
  <2>2. conn'[c] = IF c \in Listeners(r) THEN [conn[c] EXCEPT !.at = "ended"] ELSE conn[c]
    BY <1>4 DEF Ended, EndStreams
  <2>3. QED
    BY <1>2, <2>1, <2>2 DEF isOpen, RegistryInv, RegistryTypes
<1>5. QED
  BY <1>3, <1>4, ServiceMoves

LEMMA EndsKnownStep ==
  ASSUME RegistryInv, NumbersInv, EndsKnown, [Next]_vars
  PROVE  EndsKnown'
<1>0. \A s \in Runs : TimeoutSent(s)' => state'[s] = "TIMED_OUT"
  <2>1. ASSUME NEW r \in Runs, ServiceStep(r)
        PROVE  \A s \in Runs : TimeoutSent(s)' => state'[s] = "TIMED_OUT"
    BY <2>1, EndsAnnounced DEF EndsKnown, NumbersInv
  <2>2. CASE UNCHANGED <<state, sent>>
    BY <2>2 DEF EndsKnown, TimeoutSent
  <2>3. QED
    BY <2>1, <2>2 DEF Next, Connect, Poll, Disconnect, Quiet, vars, serviceVars
<1> SUFFICES ASSUME NEW c \in Clients, NEW s \in Runs,
                    conn'[c].run = s, conn'[c].at \in {"open", "ended"},
                    ~isTerminalState(conn'[c].run_state), EndKnown(s)'
             PROVE  Told(c, s)'
  BY <1>0 DEF EndsKnown
<1>1. ASSUME conn[c].run = s, conn[c].at \in {"open", "ended"},
             conn[c].run_state = conn'[c].run_state, EndKnown(s)
      PROVE  Told(c, s)
  BY <1>1 DEF EndsKnown
<1>a. UNCHANGED <<state, sent>> => EndKnown(s)
  BY DEF EndKnown, TimeoutSent
<1>2. ASSUME NEW r \in Runs, ServiceStep(r)
      PROVE  Told(c, s)'
  <2>1. /\ \/ received'[c] = received[c]
           \/ \E e \in SSEEventEnvelope : received'[c] = Append(received[c], e)
        /\ conn[c].run = s /\ conn[c].run_state = conn'[c].run_state
        /\ conn[c].at \in {"open", "ended"}
    BY <1>2, ServiceWrites
  <2>2. CASE EndKnown(s)
    BY <1>1, <2>1, <2>2, StaysTold
  <2>3. CASE ~EndKnown(s)
    <3>1. s = r
      BY <1>2, <2>3, EndsAnnounced DEF EndsKnown, NumbersInv
    <3>2. /\ ~isTerminalState(state[r])
          /\ \E type \in TerminalTypes : Broadcast(r, type) \/ BroadcastAndClose(r, type)
      BY <1>2, <2>3, <3>1, EndsAnnounced DEF EndsKnown, NumbersInv
    <3>3. isOpen(c)
      BY <2>1, <3>1, <3>2 DEF RegistryInv, ConnectionsOK, isOpen
    <3>4. c \in Listeners(r)
      BY <2>1, <3>1, <3>2, <3>3 DEF RegistryInv, LiveAreHeard, Listeners
    <3>5. PICK type \in TerminalTypes : Broadcast(r, type) \/ BroadcastAndClose(r, type)
      BY <3>2
    <3> DEFINE event == [type |-> type, run_id |-> r, seq |-> counters[r] + 1]
    <3>6. received'[c] = Append(received[c], event)
      BY <3>4, <3>5 DEF Broadcast, BroadcastAndClose, WriteTo, Envelope
    <3>7. event.run_id = r /\ event.type \in TerminalTypes
      OBVIOUS
    <3> HIDE DEF event
    <3>8. received[c] \in Seq(SSEEventEnvelope)
      BY DEF NumbersInv, NumberTypes
    <3>9. /\ Len(received'[c]) = Len(received[c]) + 1
          /\ received'[c][Len(received[c]) + 1] = event
          /\ Len(received[c]) + 1 \in 1..Len(received'[c])
      BY <3>6, <3>8
    <3>10. QED
      BY <3>1, <3>7, <3>9 DEF Told
  <2>4. QED
    BY <2>2, <2>3
<1>3. ASSUME NEW d \in Clients, NEW r \in Runs, NEW from, Connect(d, r, from)
      PROVE  Told(c, s)'
  <2>1. UNCHANGED <<state, sent>> /\ conn'[d].run_state = state[r] /\ conn'[d].run = r
        /\ \A e \in Clients \ {d} : conn'[e] = conn[e] /\ received'[e] = received[e]
    BY <1>3 DEF Connect, serviceVars, RegistryInv, RegistryTypes, NumbersInv, NumberTypes
  <2>2. c # d
    BY <1>0, <2>1 DEF isTerminalState, EndKnown
  <2>3. QED
    BY <1>1, <1>a, <2>1, <2>2, StaysTold
<1>4. ASSUME NEW d \in Clients, Poll(d) \/ Disconnect(d)
      PROVE  Told(c, s)'
  <2>1. UNCHANGED <<state, sent, received>>
    BY <1>4 DEF Poll, Disconnect, serviceVars
  <2>2. conn[d].at \in {"open", "ended"}
    BY <1>4 DEF Poll, Disconnect, RegistryInv, ConnectionsOK
  <2>3. \E at : conn' = [conn EXCEPT ![d].at = at, ![d].polling = FALSE]
    BY <1>4 DEF Poll, Disconnect
  <2>4. /\ conn[c].run = s /\ conn[c].run_state = conn'[c].run_state
        /\ conn[c].at \in {"open", "ended"}
    BY <2>2, <2>3 DEF RegistryInv, RegistryTypes
  <2>5. QED
    BY <1>1, <1>a, <2>1, <2>4, StaysTold
<1>5. CASE UNCHANGED vars
  BY <1>1, <1>5, <1>a, StaysTold DEF vars, serviceVars, registryVars
<1>6. QED
  BY <1>2, <1>3, <1>4, <1>5 DEF Next, Quiet

\* A client that subscribed to a run under way and was let go by the server, by
\* closeRun or by the poll of checkRunState, has been told how the run ended,
\* unless the run timed out before anybody listened to its abort: a timeout that
\* was announced counts as any other end.
THEOREM LastWord ==
  ASSUME IsFiniteSet(Runs)
  PROVE  Spec => []EndIsTold
<1>1. Init => EndsKnown
  BY DEF Init, EndsKnown, EndKnown, TimeoutSent
<1>2. RegistryInv /\ NumbersInv /\ EndsKnown /\ [Next]_vars => EndsKnown'
  BY EndsKnownStep
<1>3. RegistryInv /\ NumbersInv /\ EndsKnown => EndIsTold
  <2> SUFFICES ASSUME RegistryInv, NumbersInv, EndsKnown, NEW c \in Clients,
                      conn[c].at = "ended", ~isTerminalState(conn[c].run_state),
                      EndAnnounced(conn[c].run)
               PROVE  \E e \in ToSet(received[c]) :
                        e.run_id = conn[c].run /\ e.type \in TerminalTypes
    BY DEF EndIsTold
  <2>1. conn[c].run \in Runs /\ isTerminalState(state[conn[c].run])
    BY DEF RegistryInv, ConnectionsOK
  <2>2. EndKnown(conn[c].run)
    <3>1. DOMAIN sent[conn[c].run] = 1..Len(sent[conn[c].run])
      BY <2>1 DEF NumbersInv, NumberTypes
    <3>2. QED
      BY <2>1, <3>1 DEF isTerminalState, EndKnown, TimeoutSent, EndAnnounced, ToSet
  <2>3. Told(c, conn[c].run)
    BY <2>1, <2>2 DEF EndsKnown
  <2>4. DOMAIN received[c] = 1..Len(received[c])
    BY DEF NumbersInv, NumberTypes
  <2>5. QED
    BY <2>3, <2>4 DEF Told, ToSet
<1>4. QED
  BY <1>1, <1>2, <1>3, Always, NumbersAlways, PTL DEF Spec

-----------------------------------------------------------------------------
(* Replay and live events join.                                              *)

\* The places of a run's broadcasts in a sequence.
Own(got, r) ==
  {i \in 1..Len(got) : got[i].run_id = r /\ got[i].type # "stream_connected"}

\* The broadcasts of a run in a sequence are those after the m-th up to the n-th of
\* all, and place p says which is which.
Window(got, r, all, m, n, p) ==
  /\ m \in Nat /\ n \in Nat /\ m <= n /\ n <= Len(all)
  /\ p \in [Own(got, r) -> (m + 1)..n]
  /\ \A i, j \in Own(got, r) : i < j => p[i] < p[j]
  /\ \A k \in (m + 1)..n : \E i \in Own(got, r) : p[i] = k
  /\ \A i \in Own(got, r) : got[i] = all[p[i]]

\* What is broadcast and not heard leaves the window as it was.
LEMMA Unheard ==
  ASSUME NEW got, NEW r, NEW all \in Seq(SSEEventEnvelope), NEW m, NEW n, NEW p,
         NEW event \in SSEEventEnvelope, Window(got, r, all, m, n, p)
  PROVE  Window(got, r, Append(all, event), m, n, p)
<1>1. /\ Len(Append(all, event)) = Len(all) + 1
      /\ \A i \in 1..Len(all) : Append(all, event)[i] = all[i]
  OBVIOUS
<1>2. \A k \in (m + 1)..n : k \in 1..Len(all)
  BY DEF Window
<1>3. \A i \in Own(got, r) : p[i] \in (m + 1)..n
  BY DEF Window
<1>4. n <= Len(all) + 1
  BY DEF Window
<1>5. QED
  BY <1>1, <1>2, <1>3, <1>4 DEF Window

\* What is broadcast and heard widens a window that reached the last.
LEMMA Heard ==
  ASSUME NEW got \in Seq(SSEEventEnvelope), NEW r, NEW all \in Seq(SSEEventEnvelope),
         NEW m, NEW n, NEW p, Window(got, r, all, m, n, p), n = Len(all),
         NEW event \in SSEEventEnvelope, event.run_id = r, event.type # "stream_connected"
  PROVE  \E q : Window(Append(got, event), r, Append(all, event), m, n + 1, q)
<1> DEFINE next == Len(got) + 1
           more == Append(got, event)
           most == Append(all, event)
           q == [i \in Own(more, r) |-> IF i = next THEN n + 1 ELSE p[i]]
<1>1. /\ Len(more) = next /\ more[next] = event /\ next \in Nat
      /\ \A i \in 1..Len(got) : more[i] = got[i] /\ i # next /\ i < next
      /\ \A i \in 1..next : i = next \/ i \in 1..Len(got)
      /\ next \in 1..next /\ 1..Len(got) \subseteq 1..next
  OBVIOUS
<1>2. /\ Len(most) = n + 1 /\ most[n + 1] = event /\ n \in Nat
      /\ \A i \in 1..n : most[i] = all[i]
  BY DEF Window
<1>3. /\ m \in Nat /\ m <= n
      /\ p \in [Own(got, r) -> (m + 1)..n]
      /\ \A i, j \in Own(got, r) : i < j => p[i] < p[j]
      /\ \A k \in (m + 1)..n : \E i \in Own(got, r) : p[i] = k
      /\ \A i \in Own(got, r) : got[i] = all[p[i]]
  BY DEF Window
<1> HIDE DEF next, more, most
<1>4. Own(more, r) = Own(got, r) \cup {next}
  BY <1>1 DEF Own
<1>5. \A i \in Own(got, r) : i \in 1..Len(got) /\ i # next /\ i < next /\ more[i] = got[i]
  BY <1>1 DEF Own
<1>6. q[next] = n + 1 /\ \A i \in Own(got, r) : q[i] = p[i]
  BY <1>4, <1>5
<1>7. \A i \in Own(more, r) : q[i] = IF i = next THEN n + 1 ELSE p[i]
  OBVIOUS
<1>8. /\ n + 1 \in (m + 1)..(n + 1)
      /\ \A k \in (m + 1)..n : /\ k \in (m + 1)..(n + 1) /\ k \in 1..n /\ k < n + 1
                               /\ most[k] = all[k]
      /\ \A k \in (m + 1)..(n + 1) : k \in (m + 1)..n \/ k = n + 1
  BY <1>2, <1>3
<1>9. q \in [Own(more, r) -> (m + 1)..(n + 1)]
  <2>1. \A i \in Own(more, r) : q[i] \in (m + 1)..(n + 1)
    BY <1>3, <1>4, <1>7, <1>8
  <2>2. QED
    BY <2>1
<1> HIDE DEF q
<1>10. ASSUME NEW i \in Own(more, r), NEW j \in Own(more, r), i < j
       PROVE  q[i] < q[j]
  <2>1. i \in Own(got, r)
    <3>1. next \in Nat /\ (j = next \/ j \in 1..Len(got))
      BY <1>1, <1>4, <1>5
    <3>2. j \in 1..next
      BY <1>1, <3>1
    <3>3. i # next
      BY <1>10, <3>1, <3>2
    <3>4. QED
      BY <1>4, <3>3
  <2>2. QED
    BY <1>3, <1>4, <1>6, <1>8, <1>10, <2>1
<1>11. \A k \in (m + 1)..(n + 1) : \E i \in Own(more, r) : q[i] = k
  BY <1>3, <1>4, <1>6, <1>8
<1>12. \A i \in Own(more, r) : more[i] = most[q[i]]
  BY <1>1, <1>2, <1>3, <1>4, <1>5, <1>6, <1>8
<1>13. n + 1 \in Nat /\ m <= n + 1 /\ n + 1 <= Len(most)
  BY <1>2, <1>3
<1>14. Window(more, r, most, m, n + 1, q)
  BY <1>3, <1>9, <1>10, <1>11, <1>12, <1>13 DEF Window
<1>15. QED
  BY <1>14 DEF more, most

\* stream_connected does not count.
LEMMA Greeted ==
  ASSUME NEW got \in Seq(SSEEventEnvelope), NEW r, NEW all, NEW m, NEW n, NEW p,
         Window(got, r, all, m, n, p),
         NEW event \in SSEEventEnvelope, event.type = "stream_connected"
  PROVE  Window(Append(got, event), r, all, m, n, p)
<1> DEFINE more == Append(got, event)
<1>1. /\ Len(more) = Len(got) + 1 /\ more[Len(got) + 1] = event
      /\ \A i \in 1..Len(got) : more[i] = got[i]
      /\ \A i \in 1..(Len(got) + 1) : i \in 1..Len(got) \/ i = Len(got) + 1
      /\ 1..Len(got) \subseteq 1..(Len(got) + 1)
  OBVIOUS
<1> HIDE DEF more
<1>2. Own(more, r) = Own(got, r)
  BY <1>1 DEF Own
<1>3. \A i \in Own(got, r) : more[i] = got[i]
  BY <1>1 DEF Own
<1>4. Window(more, r, all, m, n, p)
  BY <1>2, <1>3 DEF Window
<1>5. QED
  BY <1>4 DEF more

\* A window counts what it shows.
LEMMA WindowCounts ==
  ASSUME NEW got \in Seq(SSEEventEnvelope), NEW r, NEW all, NEW m, NEW n, NEW p,
         Window(got, r, all, m, n, p)
  PROVE  /\ Cardinality(Own(got, r)) = n - m
         /\ \A i \in Own(got, r) : m + Cardinality({j \in Own(got, r) : j <= i}) = p[i]
<1> DEFINE O == Own(got, r)
<1>1. O \subseteq 1..Len(got) /\ Len(got) \in Nat
  BY DEF Own
<1>2. /\ m \in Nat /\ n \in Nat /\ m <= n
      /\ p \in [O -> (m + 1)..n]
      /\ \A i, j \in O : i < j => p[i] < p[j]
      /\ \A k \in (m + 1)..n : \E i \in O : p[i] = k
  BY DEF Window
<1> HIDE DEF O
<1>3. \A i \in O : i \in Nat /\ p[i] \in Nat /\ p[i] \in (m + 1)..n /\ p[i] <= n
  BY <1>1, <1>2
<1>4. \A i, j \in O : p[i] = p[j] => i = j
  BY <1>2, <1>3
<1>5. ASSUME NEW k \in Nat, m <= k, k <= n
      PROVE  Cardinality({j \in O : p[j] <= k}) = k - m
  <2> DEFINE T == {j \in O : p[j] <= k}
             f == [j \in T |-> p[j]]
  <2>1. IsFiniteSet((m + 1)..k) /\ Cardinality((m + 1)..k) = k - m
    <3>1. m + 1 \in Int /\ k \in Int /\ (m + 1 > k => k - m = 0) /\ k - (m + 1) + 1 = k - m
      BY <1>2, <1>5
    <3>2. IsFiniteSet((m + 1)..k)
          /\ Cardinality((m + 1)..k) = IF m + 1 > k THEN 0 ELSE k - (m + 1) + 1
      BY <3>1, FS_Interval
    <3>3. QED
      BY <3>1, <3>2
  <2>2. f \in Bijection(T, (m + 1)..k)
    <3>1. \A j \in T : p[j] \in (m + 1)..k
      BY <1>2, <1>3, <1>5
    <3>2. \A x \in (m + 1)..k : x \in (m + 1)..n /\ x <= k
      BY <1>2, <1>5
    <3>3. \A x \in (m + 1)..k : \E j \in T : p[j] = x
      BY <1>2, <3>2
    <3>4. f \in [T -> (m + 1)..k] /\ \A j \in T : f[j] = p[j] /\ j \in O
      BY <3>1
    <3> HIDE DEF f, T
    <3>5. f \in Injection(T, (m + 1)..k)
      BY <1>4, <3>4 DEF Injection, IsInjective
    <3>6. f \in Surjection(T, (m + 1)..k)
      BY <3>3, <3>4 DEF Surjection
    <3>7. QED
      BY <3>5, <3>6 DEF Bijection
  <2> HIDE DEF f, T
  <2>3. Cardinality(T) = Cardinality((m + 1)..k)
    <3>1. ExistsBijection(T, (m + 1)..k)
      BY <2>2 DEF ExistsBijection
    <3>2. ExistsBijection((m + 1)..k, T)
      BY <3>1, Fun_ExistsBijSymmetric
    <3>3. QED
      BY <2>1, <3>2, FS_Bijection
  <2>4. QED
    BY <2>1, <2>3 DEF T
<1>6. Cardinality(O) = n - m
  <2>1. {j \in O : p[j] <= n} = O
    BY <1>3
  <2>2. QED
    BY <1>2, <1>5, <2>1
<1>7. ASSUME NEW i \in O
      PROVE  m + Cardinality({j \in O : j <= i}) = p[i]
  <2>1. ASSUME NEW j \in O
        PROVE  j <= i <=> p[j] <= p[i]
    <3>1. i \in Nat /\ j \in Nat /\ p[i] \in Nat /\ p[j] \in Nat
      BY <1>3
    <3>2. (j < i => p[j] < p[i]) /\ (i < j => p[i] < p[j])
      BY <1>2
    <3>3. QED
      BY <3>1, <3>2
  <2>2. {j \in O : j <= i} = {j \in O : p[j] <= p[i]}
    BY <2>1
  <2>3. p[i] \in Nat /\ m <= p[i] /\ p[i] <= n
    BY <1>2, <1>3
  <2>4. Cardinality({j \in O : p[j] <= p[i]}) = p[i] - m
    BY <1>5, <2>3
  <2>5. Cardinality({j \in O : j <= i}) = p[i] - m
    BY <2>2, <2>4
  <2>6. m + (p[i] - m) = p[i]
    BY <1>2, <2>3
  <2>7. QED
    BY <2>5, <2>6
<1>8. QED
  BY <1>6, <1>7 DEF O

\* A buffer is the end of what was broadcast.
Tails(buffer, all) ==
  /\ Len(buffer) <= Len(all)
  /\ \A k \in 1..Len(buffer) : /\ buffer[k] = all[Len(all) - Len(buffer) + k]
                               /\ buffer[k].type # "stream_connected"

LEMMA PushTails ==
  ASSUME NEW s \in Seq(SSEEventEnvelope), NEW all \in Seq(SSEEventEnvelope), Tails(s, all),
         NEW event \in SSEEventEnvelope, event.type # "stream_connected"
  PROVE  Tails(Push(s, event), Append(all, event))
<1> DEFINE most == Append(all, event)
<1>1. BufferSize \in Nat /\ BufferSize >= 1 /\ Len(s) \in Nat
  BY StreamAssumption
<1>2. /\ Len(most) = Len(all) + 1 /\ most[Len(all) + 1] = event /\ Len(all) \in Nat
      /\ \A i \in 1..Len(all) : most[i] = all[i]
  OBVIOUS
<1> HIDE DEF most
<1>3. ASSUME NEW t \in Seq(SSEEventEnvelope), Tails(t, all)
      PROVE  Tails(Append(t, event), most)
  <2> DEFINE u == Append(t, event)
  <2>1. /\ Len(u) = Len(t) + 1 /\ u[Len(t) + 1] = event /\ Len(t) \in Nat
        /\ \A k \in 1..Len(t) : u[k] = t[k]
    OBVIOUS
  <2> HIDE DEF u
  <2>2. /\ Len(t) <= Len(all)
        /\ \A k \in 1..Len(t) : /\ t[k] = all[Len(all) - Len(t) + k]
                                /\ t[k].type # "stream_connected"
    BY <1>3 DEF Tails
  <2>3. ASSUME NEW k \in 1..(Len(t) + 1)
        PROVE  u[k] = most[Len(most) - Len(u) + k] /\ u[k].type # "stream_connected"
    <3>1. Len(most) - Len(u) + k = Len(all) - Len(t) + k
      BY <1>2, <2>1
    <3>2. CASE k \in 1..Len(t)
      <4>1. Len(all) - Len(t) + k \in 1..Len(all)
        BY <1>2, <2>1, <2>2, <3>2
      <4>2. QED
        BY <1>2, <2>1, <2>2, <3>1, <3>2, <4>1
    <3>3. CASE k = Len(t) + 1
      <4>1. Len(all) - Len(t) + k = Len(all) + 1
        BY <1>2, <2>1, <3>3
      <4>2. QED
        BY <1>2, <2>1, <3>1, <3>3, <4>1
    <3>4. k \in 1..Len(t) \/ k = Len(t) + 1
      BY <2>1
    <3>5. QED
      BY <3>2, <3>3, <3>4
  <2>4. Len(u) <= Len(most)
    BY <1>2, <2>1, <2>2
  <2>5. Tails(u, most)
    BY <2>1, <2>3, <2>4 DEF Tails
  <2>6. QED
    BY <2>5 DEF u
<1>4. CASE Len(s) < BufferSize
  BY <1>3, <1>4 DEF Push, most
<1>5. CASE ~(Len(s) < BufferSize)
  <2>1. s # << >>
    BY <1>1, <1>5
  <2>2. /\ Tail(s) \in Seq(SSEEventEnvelope) /\ Len(Tail(s)) = Len(s) - 1
        /\ \A k \in 1..Len(Tail(s)) : k + 1 \in 1..Len(s) /\ Tail(s)[k] = s[k + 1]
    BY <1>1, <1>5, <2>1
  <2>3. /\ Len(s) <= Len(all)
        /\ \A k \in 1..Len(s) : /\ s[k] = all[Len(all) - Len(s) + k]
                                /\ s[k].type # "stream_connected"
    BY DEF Tails
  <2>4. \A k \in 1..Len(Tail(s)) :
          Len(all) - Len(s) + (k + 1) = Len(all) - Len(Tail(s)) + k
    BY <1>1, <1>2, <2>2
  <2>5. Tails(Tail(s), all)
    <3>1. Len(Tail(s)) <= Len(all)
      BY <1>1, <1>2, <2>2, <2>3
    <3>2. QED
      BY <2>2, <2>3, <2>4, <3>1 DEF Tails
  <2>6. QED
    BY <1>3, <1>5, <2>2, <2>5 DEF Push, most
<1>6. QED
  BY <1>4, <1>5

LEMMA Least ==
  ASSUME NEW S \in SUBSET Nat, S # {}
  PROVE  \E x \in S : \A y \in S : x <= y
<1> DEFINE R == OpToRel(<, Nat)
<1>1. IsWellFoundedOn(R, Nat)
  BY NatLessThanWellFounded
<1>2. \A x, y \in Nat : x < y => <<x, y>> \in R
  BY DEF OpToRel
<1> HIDE DEF R
<1>3. PICK x \in S : \A y \in S : ~(<<y, x>> \in R)
  BY <1>1, WFMin
<1>4. ASSUME NEW y \in S
      PROVE  x <= y
  <2>1. x \in Nat /\ y \in Nat
    OBVIOUS
  <2>2. ~(y < x)
    BY <1>2, <1>3, <2>1, Zenon
  <2>3. QED
    BY <2>1, <2>2
<1>5. QED
  BY <1>4

\* What is numbered from somewhere on is the end of a buffer.
LEMMA FromSomewhere ==
  ASSUME NEW s \in Seq(SSEEventEnvelope), NEW r, Upwards(s, r),
         \A k \in 1..Len(s) : s[k].run_id = r, NEW from \in Nat
  PROVE  \E d \in 0..Len(s) : \A k \in 1..Len(s) : s[k].seq >= from <=> k > d
<1> DEFINE K == {k \in 1..Len(s) : s[k].seq >= from}
<1>1. Len(s) \in Nat /\ \A k \in 1..Len(s) : s[k] \in SSEEventEnvelope /\ k \in Nat
  OBVIOUS
<1>2. \A k \in 1..Len(s) : s[k].seq \in Nat
  BY <1>1 DEF SSEEventEnvelope
<1>3. CASE K = {}
  <2>1. \A k \in 1..Len(s) : ~(s[k].seq >= from) /\ ~(k > Len(s))
    BY <1>1, <1>3
  <2>2. Len(s) \in 0..Len(s)
    BY <1>1
  <2>3. QED
    BY <2>1, <2>2
<1>4. CASE K # {}
  <2>1. K \in SUBSET Nat
    BY <1>1
  <2>2. PICK x \in K : \A y \in K : x <= y
    BY <1>4, <2>1, Least
  <2>3. x \in 1..Len(s) /\ s[x].seq >= from /\ x - 1 \in 0..Len(s)
    BY <1>1, <2>2
  <2>4. ASSUME NEW k \in 1..Len(s)
        PROVE  s[k].seq >= from <=> k > x - 1
    <3>1. k < x => ~(s[k].seq >= from)
      BY <1>1, <2>2, <2>3, <2>4
    <3>2. k > x => s[k].seq > s[x].seq
      BY <1>2, <2>3, <2>4 DEF Upwards
    <3>3. QED
      BY <1>1, <1>2, <2>3, <3>1, <3>2
  <2>5. QED
    BY <2>3, <2>4
<1>5. QED
  BY <1>3, <1>4

\* A replay shows the end of what was broadcast: the end of a buffer.
LEMMA EndWindow ==
  ASSUME NEW buffer \in Seq(SSEEventEnvelope), NEW all \in Seq(SSEEventEnvelope),
         NEW got \in Seq(SSEEventEnvelope), NEW r, NEW d \in 0..Len(buffer),
         Tails(buffer, all), Upwards(buffer, r), Upwards(got, r),
         \A k \in 1..Len(buffer) : buffer[k].run_id = r,
         \A i \in 1..Len(got) : got[i].run_id = r =>
           \E k \in 1..Len(buffer) : k > d /\ got[i] = buffer[k],
         \A k \in 1..Len(buffer) : k > d => \E i \in 1..Len(got) : got[i] = buffer[k]
  PROVE  \E m, p : Window(got, r, all, m, Len(all), p)
<1> DEFINE O == Own(got, r)
           B == Len(buffer)
           off == Len(all) - Len(buffer)
           m == off + d
           place == [i \in O |-> CHOOSE k \in 1..B : got[i] = buffer[k]]
           p == [i \in O |-> off + place[i]]
<1>1. B \in Nat /\ Len(all) \in Nat /\ off \in Nat /\ Len(all) = off + B /\ d \in Nat /\ d <= B
      /\ \A k \in 1..B : k \in Nat /\ buffer[k] \in SSEEventEnvelope /\ buffer[k].run_id = r
  BY DEF Tails
<1>2. /\ \A k \in 1..B : buffer[k].seq \in Nat
      /\ \A k, l \in 1..B : k < l => buffer[k].seq < buffer[l].seq
  BY <1>1 DEF SSEEventEnvelope, Upwards
<1>3. \A k, l \in 1..B : buffer[k] = buffer[l] => k = l
  BY <1>1, <1>2
<1>4. /\ \A i \in O : i \in 1..Len(got) /\ got[i].run_id = r
      /\ \A i, j \in O : i < j => got[i].seq < got[j].seq
      /\ \A i \in 1..Len(got) : got[i].run_id = r /\ got[i].type # "stream_connected" => i \in O
  BY DEF Own, Upwards
<1>5. \A k \in 1..B : buffer[k] = all[off + k] /\ buffer[k].type # "stream_connected"
  BY DEF Tails
<1>6. \A i \in O : \E k \in 1..B : got[i] = buffer[k] /\ k > d
  BY <1>4
<1>7. \A k \in 1..B : k > d => \E i \in O : got[i] = buffer[k]
  BY <1>1, <1>4, <1>5
<1> HIDE DEF O, B, off
<1>8. ASSUME NEW i \in O
      PROVE  place[i] \in 1..B /\ got[i] = buffer[place[i]] /\ place[i] > d
  <2>1. place[i] = CHOOSE k \in 1..B : got[i] = buffer[k]
    OBVIOUS
  <2> HIDE DEF place
  <2>2. place[i] \in 1..B /\ got[i] = buffer[place[i]]
    BY <1>6, <2>1
  <2>3. QED
    BY <1>3, <1>6, <2>2
<1>9. \A i \in O : p[i] = off + place[i]
  OBVIOUS
<1> HIDE DEF place
<1>10. p \in [O -> (m + 1)..Len(all)]
  <2>1. \A i \in O : p[i] \in (m + 1)..Len(all)
    BY <1>1, <1>8, <1>9
  <2>2. QED
    BY <2>1
<1>11. m \in Nat /\ m <= Len(all)
  BY <1>1
<1>12. \A k \in (m + 1)..Len(all) : k - off \in 1..B /\ k - off > d /\ off + (k - off) = k
  BY <1>1
<1> HIDE DEF p, m
<1>13. ASSUME NEW i \in O, NEW j \in O, i < j
       PROVE  p[i] < p[j]
  <2>1. buffer[place[i]].seq < buffer[place[j]].seq
    BY <1>4, <1>8, <1>13
  <2>2. ~(place[j] < place[i]) /\ place[i] # place[j]
    BY <1>2, <1>8, <2>1
  <2>3. QED
    BY <1>1, <1>8, <1>9, <2>2
<1>14. ASSUME NEW k \in (m + 1)..Len(all)
       PROVE  \E i \in O : p[i] = k
  <2>1. PICK i \in O : got[i] = buffer[k - off]
    BY <1>7, <1>12
  <2>2. place[i] = k - off
    BY <1>3, <1>8, <1>12, <2>1
  <2>3. QED
    BY <1>9, <1>12, <2>2
<1>15. \A i \in O : got[i] = all[p[i]]
  BY <1>5, <1>8, <1>9
<1>16. Window(got, r, all, m, Len(all), p)
  BY <1>1, <1>10, <1>11, <1>13, <1>14, <1>15 DEF Window, O
<1>17. QED
  BY <1>16

\* Some of a run's broadcasts, all in a row, are what a connection got of it; and up
\* to the last while it is registered.
Joined(c) ==
  \E m, n, p :
    /\ Window(received[c], conn[c].run, sent[conn[c].run], m, n, p)
    /\ c \in Registered(conn[c].run) => n = Len(sent[conn[c].run])

JoinInv ==
  /\ \A r \in Runs : Tails(buffers[r], sent[r])
  /\ \A c \in Clients : conn[c].at # "new" => Joined(c)

\* Broadcasts are heard by all who are registered.
LEMMA JoinSpeaks ==
  ASSUME RegistryInv, NumbersInv, JoinInv, NEW r \in Runs, NEW type \in BroadcastTypes,
         Broadcast(r, type) \/ BroadcastAndClose(r, type)
  PROVE  JoinInv'
<1> DEFINE event == [type |-> type, run_id |-> r, seq |-> counters[r] + 1]
<1>1. /\ sent' = [sent EXCEPT ![r] = Append(@, event)]
      /\ received' = [c \in Clients |-> IF c \in Listeners(r)
                        THEN Append(received[c], event) ELSE received[c]]
      /\ buffers' = [buffers EXCEPT ![r] = Push(@, event)] \/ buffers' = [buffers EXCEPT ![r] = << >>]
  BY DEF Broadcast, BroadcastAndClose, CloseRun, WriteTo, Envelope
<1>2. /\ event \in SSEEventEnvelope /\ event.run_id = r /\ event.type # "stream_connected"
  BY DEF NumbersInv, NumberTypes, SSEEventEnvelope, BroadcastTypes
<1> HIDE DEF event
<1>3. /\ sent \in [Runs -> Seq(SSEEventEnvelope)] /\ buffers \in [Runs -> Seq(SSEEventEnvelope)]
      /\ received \in [Clients -> Seq(SSEEventEnvelope)]
  BY DEF NumbersInv, NumberTypes
<1>4. \A s \in Runs : sent'[s] = IF s = r THEN Append(sent[s], event) ELSE sent[s]
  BY <1>1, <1>3
<1>5. /\ \A c \in Clients : conn'[c].run = conn[c].run
                              /\ (conn[c].at = "new" => conn'[c].at = "new")
      /\ \A s \in Runs : Registered(s)' \subseteq Registered(s)
  <2>1. CASE Broadcast(r, type)
    <3>1. UNCHANGED registryVars
      BY <2>1, AllListen DEF Broadcast, registryVars
    <3>2. QED
      BY <3>1 DEF registryVars, Registered
  <2>2. CASE BroadcastAndClose(r, type)
    <3>1. Ended(r)
      BY <2>2, AllListen DEF BroadcastAndClose, CloseRun, Ended
    <3>2. \A c \in Listeners(r) : conn[c].at = "open"
      BY DEF Listeners, isOpen
    <3>3. QED
      BY <3>1, <3>2 DEF Ended, EndStreams, Registered, RegistryInv, RegistryTypes
  <2>3. QED
    BY <2>1, <2>2
<1>6. ASSUME NEW s \in Runs
      PROVE  Tails(buffers'[s], sent'[s])
  <2>1. Tails(buffers[s], sent[s])
    BY DEF JoinInv
  <2>2. CASE s # r
    BY <1>1, <1>3, <1>4, <2>1, <2>2
  <2>3. CASE s = r /\ buffers' = [buffers EXCEPT ![r] = Push(@, event)]
    BY <1>2, <1>3, <1>4, <2>1, <2>3, PushTails
  <2>4. CASE s = r /\ buffers' = [buffers EXCEPT ![r] = << >>]
    <3>1. buffers'[s] = << >> /\ sent'[s] = Append(sent[r], event)
      BY <1>3, <1>4, <2>4
    <3>2. Append(sent[r], event) \in Seq(SSEEventEnvelope)
      BY <1>2, <1>3
    <3>3. Len(sent'[s]) \in Nat
      BY <3>1, <3>2
    <3>4. QED
      BY <3>1, <3>3 DEF Tails
  <2>5. QED
    BY <1>1, <2>2, <2>3, <2>4
<1>7. ASSUME NEW c \in Clients, conn'[c].at # "new"
      PROVE  Joined(c)'
  <2>1. conn[c].at # "new" /\ conn'[c].run = conn[c].run /\ conn[c].run \in Runs
    BY <1>5, <1>7 DEF RegistryInv, ConnectionsOK
  <2> DEFINE s == conn[c].run
  <2>2. PICK m, n, p : /\ Window(received[c], s, sent[s], m, n, p)
                       /\ c \in Registered(s) => n = Len(sent[s])
    BY <2>1 DEF JoinInv, Joined
  <2>3. c \in Registered(s)' => c \in Registered(s)
    BY <1>5, <2>1
  <2>4. \A q, k : Window(received'[c], s, sent'[s], m, k, q)
                    /\ (c \in Registered(s) => k = Len(sent'[s])) => Joined(c)'
    BY <2>1, <2>3 DEF Joined
  <2> HIDE DEF s
  <2>5. s \in Runs /\ received[c] \in Seq(SSEEventEnvelope) /\ sent[s] \in Seq(SSEEventEnvelope)
    BY <1>3, <2>1 DEF s
  <2>6. CASE c \in Listeners(r)
    <3>1. s = r /\ c \in Registered(s) /\ received'[c] = Append(received[c], event)
      BY <1>1, <2>6, AllListen DEF s
    <3>2. PICK q : Window(Append(received[c], event), r, Append(sent[r], event), m, n + 1, q)
      BY <1>2, <2>2, <2>5, <3>1, Heard
    <3>3. sent'[s] = Append(sent[r], event) /\ n = Len(sent[r])
      BY <1>4, <2>2, <2>5, <3>1
    <3>4. Len(Append(sent[r], event)) = Len(sent[r]) + 1
      BY <1>2, <1>3
    <3>5. n + 1 = Len(sent'[s])
      BY <3>3, <3>4
    <3>6. QED
      BY <2>4, <3>1, <3>2, <3>3, <3>5
  <2>7. CASE c \notin Listeners(r)
    <3>1. received'[c] = received[c] /\ (s = r => c \notin Registered(s))
      BY <1>1, <2>7, AllListen
    <3>2. CASE s = r
      <4>1. Window(received'[c], s, sent'[s], m, n, p)
        BY <1>2, <1>4, <2>2, <2>5, <3>1, <3>2, Unheard
      <4>2. QED
        BY <2>4, <3>1, <3>2, <4>1
    <3>3. CASE s # r
      <4>1. sent'[s] = sent[s]
        BY <1>4, <2>5, <3>3
      <4>2. QED
        BY <2>2, <2>4, <3>1, <4>1
    <3>4. QED
      BY <3>2, <3>3
  <2>8. QED
    BY <2>6, <2>7
<1>8. QED
  BY <1>6, <1>7 DEF JoinInv

\* Nothing is broadcast, and nobody registers.
LEMMA JoinRests ==
  ASSUME RegistryInv, NumbersInv, JoinInv, UNCHANGED <<sent, received>>,
         \A r \in Runs : buffers'[r] = buffers[r] \/ buffers'[r] = << >>,
         \A c \in Clients : conn'[c].run = conn[c].run
                              /\ (conn[c].at = "new" => conn'[c].at = "new"),
         \A r \in Runs : Registered(r)' \subseteq Registered(r)
  PROVE  JoinInv'
<1>1. ASSUME NEW r \in Runs
      PROVE  Tails(buffers'[r], sent'[r])
  <2>1. Tails(buffers[r], sent[r]) /\ sent'[r] = sent[r] /\ Len(sent[r]) \in Nat
    BY DEF JoinInv, NumbersInv, NumberTypes
  <2>2. Tails(<< >>, sent[r])
    BY <2>1 DEF Tails
  <2>3. QED
    BY <2>1, <2>2
<1>2. ASSUME NEW c \in Clients, conn'[c].at # "new"
      PROVE  Joined(c)'
  <2>1. conn[c].at # "new" /\ conn'[c].run = conn[c].run /\ conn[c].run \in Runs
    BY <1>2 DEF RegistryInv, ConnectionsOK
  <2>2. PICK m, n, p :
          /\ Window(received[c], conn[c].run, sent[conn[c].run], m, n, p)
          /\ c \in Registered(conn[c].run) => n = Len(sent[conn[c].run])
    BY <2>1 DEF JoinInv, Joined
  <2>3. c \in Registered(conn[c].run)' => c \in Registered(conn[c].run)
    BY <2>1
  <2>4. QED
    BY <2>1, <2>2, <2>3 DEF Joined
<1>3. QED
  BY <1>1, <1>2 DEF JoinInv

\* A new connection gets the end of what was broadcast, by getFrom, and joins.
LEMMA JoinConnects ==
  ASSUME IsFiniteSet(Runs), RegistryInv, NumbersInv, JoinInv,
         NEW c \in Clients, NEW r \in Runs, NEW from \in Starts, Connect(c, r, from)
  PROVE  JoinInv'
<1> DEFINE event == [type |-> "stream_connected", run_id |-> r, seq |-> counters[r] + 1]
<1>1. PICK replay \in IF from = None THEN {<< >>} ELSE Replays(from) :
        received' = [received EXCEPT ![c] = Append(replay, event)]
  BY DEF Connect, Opening, Envelope
<1>2. conn[c] = NoConnection /\ UNCHANGED <<serviceVars, buffers, sent>>
  BY DEF Connect
<1>3. /\ conn'[c].run = r /\ \A d \in Clients \ {c} : conn'[d] = conn[d]
  BY DEF Connect, RegistryInv, RegistryTypes
<1>4. /\ event \in SSEEventEnvelope /\ event.type = "stream_connected"
  BY DEF NumbersInv, NumberTypes, SSEEventEnvelope, EventTypes
<1>5. /\ received'[c] = Append(replay, event)
      /\ \A d \in Clients \ {c} : received'[d] = received[d]
  BY <1>1 DEF NumbersInv, NumberTypes
<1> HIDE DEF event
<1>6. /\ Tails(buffers[r], sent[r]) /\ buffers[r] \in Seq(SSEEventEnvelope)
      /\ sent[r] \in Seq(SSEEventEnvelope) /\ Upwards(buffers[r], r)
      /\ \A k \in 1..Len(buffers[r]) : buffers[r][k].run_id = r
  BY DEF JoinInv, NumbersInv, NumberTypes, BuffersOK
<1>7. /\ replay \in Seq(SSEEventEnvelope)
      /\ \E m, p : Window(replay, r, sent[r], m, Len(sent[r]), p)
  <2>1. CASE from = None
    <3>1. replay = << >> /\ Own(replay, r) = {} /\ Len(sent[r]) \in Nat
      BY <1>1, <1>6, <2>1 DEF Own
    <3> DEFINE p == [i \in {} |-> i]
    <3>2. Window(replay, r, sent[r], Len(sent[r]), Len(sent[r]), p)
      BY <3>1 DEF Window
    <3>3. QED
      BY <3>1, <3>2
  <2>2. CASE from # None
    <3>1. from \in Nat /\ replay \in Replays(from)
      BY <1>1, <2>2, StreamAssumption
    <3>2. PICK d \in 0..Len(buffers[r]) :
            \A k \in 1..Len(buffers[r]) : buffers[r][k].seq >= from <=> k > d
      BY <1>6, <3>1, FromSomewhere
    <3>3. /\ replay \in Seq(SSEEventEnvelope) /\ Upwards(replay, r)
          /\ \A i \in 1..Len(replay) : replay[i].run_id = r =>
               \E k \in 1..Len(buffers[r]) : buffers[r][k].seq >= from /\ replay[i] = buffers[r][k]
          /\ \A k \in 1..Len(buffers[r]) : buffers[r][k].seq >= from =>
               \E i \in 1..Len(replay) : replay[i] = buffers[r][k]
      BY <3>1, ReplayOfRun
    <3>4. /\ \A i \in 1..Len(replay) : replay[i].run_id = r =>
               \E k \in 1..Len(buffers[r]) : k > d /\ replay[i] = buffers[r][k]
          /\ \A k \in 1..Len(buffers[r]) : k > d => \E i \in 1..Len(replay) : replay[i] = buffers[r][k]
      BY <3>2, <3>3
    <3>5. QED
      BY <1>6, <3>3, <3>4, EndWindow
  <2>3. QED
    BY <2>1, <2>2
<1>8. Joined(c)'
  <2>1. PICK m, p : Window(replay, r, sent[r], m, Len(sent[r]), p)
    BY <1>7
  <2>2. Window(received'[c], r, sent[r], m, Len(sent[r]), p)
    BY <1>4, <1>5, <1>7, <2>1, Greeted
  <2>3. QED
    BY <1>2, <1>3, <2>2 DEF Joined
<1>9. ASSUME NEW d \in Clients, d # c, conn'[d].at # "new"
      PROVE  Joined(d)'
  <2>1. /\ conn'[d] = conn[d] /\ received'[d] = received[d] /\ sent' = sent
        /\ conn[d].at # "new" /\ conn[d].run \in Runs
    BY <1>2, <1>3, <1>5, <1>9 DEF RegistryInv, ConnectionsOK
  <2>2. d \in Registered(conn[d].run)' => d \in Registered(conn[d].run)
    BY <1>9, <2>1, JoinsOnlyIt
  <2>3. PICK m, n, p :
          /\ Window(received[d], conn[d].run, sent[conn[d].run], m, n, p)
          /\ d \in Registered(conn[d].run) => n = Len(sent[conn[d].run])
    BY <2>1 DEF JoinInv, Joined
  <2>4. QED
    BY <2>1, <2>2, <2>3 DEF Joined
<1>10. \A s \in Runs : Tails(buffers'[s], sent'[s])
  BY <1>2 DEF JoinInv
<1>11. QED
  BY <1>8, <1>9, <1>10 DEF JoinInv

LEMMA JoinStep ==
  ASSUME IsFiniteSet(Runs), RegistryInv, NumbersInv, JoinInv, [Next]_vars
  PROVE  JoinInv'
<1>1. ASSUME NEW r \in Runs, ServiceStep(r)
      PROVE  JoinInv'
  <2>1. \/ \E type \in BroadcastTypes : Broadcast(r, type) \/ BroadcastAndClose(r, type)
        \/ CloseRun(r) /\ UNCHANGED <<members, sent, received>>
        \/ Skip(r)
        \/ UNCHANGED <<counters, buffers, registryVars, sent, received>>
    BY <1>1, ServiceSpeaks DEF NumbersInv
  <2>2. CASE CloseRun(r) /\ UNCHANGED <<members, sent, received>>
    <3>1. Ended(r) /\ \A c \in Listeners(r) : conn[c].at = "open"
      BY <2>2 DEF CloseRun, Ended, Listeners, isOpen
    <3>2. /\ \A c \in Clients : conn'[c].run = conn[c].run
                                  /\ (conn[c].at = "new" => conn'[c].at = "new")
          /\ \A s \in Runs : Registered(s)' \subseteq Registered(s)
      BY <3>1 DEF Ended, EndStreams, Registered, RegistryInv, RegistryTypes
    <3>3. \A s \in Runs : buffers'[s] = buffers[s] \/ buffers'[s] = << >>
      BY <2>2 DEF CloseRun, NumbersInv, NumberTypes
    <3>4. QED
      BY <2>2, <3>2, <3>3, JoinRests
  <2>3. CASE UNCHANGED <<buffers, registryVars, sent, received>>
    <3>1. /\ \A c \in Clients : conn'[c].run = conn[c].run
                                  /\ (conn[c].at = "new" => conn'[c].at = "new")
          /\ \A s \in Runs : Registered(s)' \subseteq Registered(s)
      BY <2>3 DEF registryVars, Registered
    <3>2. QED
      BY <2>3, <3>1, JoinRests
  <2>4. QED
    BY <2>1, <2>2, <2>3, JoinSpeaks DEF Skip
<1>2. ASSUME NEW c \in Clients, Poll(c) \/ Disconnect(c)
      PROVE  JoinInv'
  <2>1. conn[c].at # "new"
    BY <1>2 DEF Poll, Disconnect, RegistryInv, ConnectionsOK
  <2>2. /\ Cleanup(c) /\ UNCHANGED <<serviceVars, counters, buffers, sent, received>>
        /\ \E at : conn' = [conn EXCEPT ![c].at = at, ![c].polling = FALSE]
    BY <1>2 DEF Poll, Disconnect
  <2>3. \A d \in Clients : conn'[d].run = conn[d].run
                             /\ (conn[d].at = "new" => conn'[d].at = "new")
    BY <2>1, <2>2 DEF RegistryInv, RegistryTypes
  <2>4. \A s \in Runs : Registered(s)' \subseteq Registered(s)
    BY <2>2, StreamAssumption DEF Cleanup, Registered, RegistryInv, RegistryTypes
  <2>5. QED
    BY <2>2, <2>3, <2>4, JoinRests
<1>3. CASE UNCHANGED vars
  BY <1>3, JoinRests DEF vars, serviceVars, registryVars, Registered
<1>4. QED
  BY <1>1, <1>2, <1>3, JoinConnects DEF Next, Quiet

\* What getFrom replays to a new client and what it is sent live join: of the events
\* broadcast about its run it has some in a row, each once, and while it is registered
\* up to the last, though the buffer forgets old events and closeRun empties it.
THEOREM ReplayJoins ==
  ASSUME IsFiniteSet(Runs)
  PROVE  Spec => []NoGapAfterReplay
<1>1. Init => JoinInv
  BY DEF Init, JoinInv, Tails, NoConnection
<1>2. RegistryInv /\ NumbersInv /\ JoinInv /\ [Next]_vars => JoinInv'
  BY JoinStep
<1>3. RegistryInv /\ NumbersInv /\ JoinInv => NoGapAfterReplay
  <2> SUFFICES ASSUME RegistryInv, NumbersInv, JoinInv, NEW c \in Clients,
                      conn[c] # NoConnection
               PROVE  LET all == sent[conn[c].run]
                          own == OwnBroadcasts(c) IN
                      \E missed \in 0..(Len(all) - Cardinality(own)) :
                        /\ \A i \in own : received[c][i]
                             = all[missed + Cardinality({j \in own : j <= i})]
                        /\ c \in Registered(conn[c].run)
                             => missed + Cardinality(own) = Len(all)
    BY DEF NoGapAfterReplay
  <2> DEFINE r == conn[c].run
             all == sent[r]
             own == OwnBroadcasts(c)
  <2>1. conn[c].at # "new" /\ r \in Runs
    BY DEF RegistryInv, ConnectionsOK
  <2>2. PICK m, n, p : /\ Window(received[c], r, all, m, n, p)
                       /\ c \in Registered(r) => n = Len(all)
    BY <2>1 DEF JoinInv, Joined
  <2>3. received[c] \in Seq(SSEEventEnvelope) /\ all \in Seq(SSEEventEnvelope)
    BY <2>1 DEF NumbersInv, NumberTypes
  <2>4. own = Own(received[c], r)
    BY <2>3 DEF OwnBroadcasts, Own
  <2> HIDE DEF own, all, r
  <2>5. /\ Cardinality(own) = n - m
        /\ \A i \in own : m + Cardinality({j \in own : j <= i}) = p[i]
    <3>1. /\ Cardinality(Own(received[c], r)) = n - m
          /\ \A i \in Own(received[c], r) :
               m + Cardinality({j \in Own(received[c], r) : j <= i}) = p[i]
      BY <2>2, <2>3, WindowCounts
    <3>2. QED
      BY <2>4, <3>1
  <2>6. /\ m \in Nat /\ n \in Nat /\ m <= n /\ n <= Len(all) /\ Len(all) \in Nat
        /\ \A i \in own : received[c][i] = all[p[i]]
    BY <2>2, <2>3, <2>4 DEF Window
  <2>7. m \in 0..(Len(all) - Cardinality(own)) /\ m + Cardinality(own) = n
    BY <2>5, <2>6
  <2>8. \A i \in own : received[c][i] = all[m + Cardinality({j \in own : j <= i})]
    BY <2>5, <2>6
  <2>9. QED
    BY <2>2, <2>7, <2>8 DEF own, all, r
<1>4. QED
  BY <1>1, <1>2, <1>3, Always, NumbersAlways, PTL DEF Spec

=============================================================================
