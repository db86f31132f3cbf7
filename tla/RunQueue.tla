------------------------------ MODULE RunQueue ------------------------------
(***************************************************************************)
(* InMemoryRunQueue of services/queue.ts: one FIFO of run ids per user and  *)
(* the reverse index from a queued run to its user.  A user with no entry   *)
(* in the queues Map is a user whose sequence is empty (the code deletes    *)
(* empty arrays).                                                           *)
(***************************************************************************)
EXTENDS RunStates, Sequences, SequencesExt

VARIABLES queues,     \* [Users -> Seq(Runs)]
          runToUser   \* [Runs -> Users \cup {None}]

queueVars == <<queues, runToUser>>

-----------------------------------------------------------------------------
\* Array.prototype.indexOf: the first position of e in s, which contains e.
IndexOf(s, e) ==
  CHOOSE i \in 1..Len(s) : s[i] = e /\ \A j \in 1..(i - 1) : s[j] # e

\* What peek(u) resolves to.
Peek(u) == IF queues[u] = << >> THEN None ELSE Head(queues[u])

\* Mutant of Enqueue: unshift for push.
EnqueueAtFront(r, u) ==
  /\ queues' = [queues EXCEPT ![u] = <<r>> \o @]
  /\ runToUser' = [runToUser EXCEPT ![r] = u]

Enqueue(r, u) ==
  /\ queues' = [queues EXCEPT ![u] = Append(@, r)]
  /\ runToUser' = [runToUser EXCEPT ![r] = u]

\* Mutants of Dequeue: the index entry is left behind; [0] for shift().
DequeueKeepingIndex(u) ==
  /\ queues' = [queues EXCEPT ![u] = IF @ = << >> THEN @ ELSE Tail(@)]
  /\ UNCHANGED runToUser

DequeueKeepingRun(u) ==
  /\ runToUser' = [r \in Runs |-> IF r = Peek(u) THEN None ELSE runToUser[r]]
  /\ UNCHANGED queues

Dequeue(u) ==
  IF queues[u] = << >>
    THEN UNCHANGED queueVars
    ELSE /\ queues' = [queues EXCEPT ![u] = Tail(@)]
         /\ runToUser' = [runToUser EXCEPT ![Head(queues[u])] = None]

RemoveFromQueue(r) ==
  LET u == runToUser[r] IN
  IF u = None \/ r \notin ToSet(queues[u])
    THEN UNCHANGED queueVars
    ELSE /\ queues' = [queues EXCEPT ![u] = RemoveAt(@, IndexOf(@, r))]
         /\ runToUser' = [runToUser EXCEPT ![r] = None]

-----------------------------------------------------------------------------
QueueInit ==
  /\ queues = [u \in Users |-> << >>]
  /\ runToUser = [r \in Runs |-> None]

(***************************************************************************)
(* The queue's contract with its callers: createRun enqueues an id it has   *)
(* just generated, so an id that is in no queue.                            *)
(***************************************************************************)
EnqueueFresh(r, u) ==
  /\ \A v \in Users : r \notin ToSet(queues[v])
  /\ Enqueue(r, u)

QueueNext ==
  \/ \E r \in Runs, u \in Users : EnqueueFresh(r, u)
  \/ \E u \in Users : Dequeue(u)
  \/ \E r \in Runs : RemoveFromQueue(r)

QueueSpec == QueueInit /\ [][QueueNext]_queueVars

-----------------------------------------------------------------------------
\* Type invariant of the two Maps of queue.ts.
QueueTypeOK ==
  /\ queues \in [Users -> Seq(Runs)]
  /\ runToUser \in [Runs -> Users \cup {None}]

\* A run waits in one place of one queue: no array holds it twice and the
\* arrays of two users never share it (queue.ts:57 keeps arrays, not sets).
NoDuplicateRuns ==
  \A u, v \in Users :
    \A i \in DOMAIN queues[u], j \in DOMAIN queues[v] :
      queues[u][i] = queues[v][j] => u = v /\ i = j

\* The reverse index runToUser agrees with the arrays in both directions: a
\* queued run is indexed under the user whose array holds it, and an indexed
\* run is in that array.  remove() and getPosition() find nothing otherwise.
IndexAgrees ==
  \A r \in Runs, u \in Users :
    runToUser[r] = u <=> r \in ToSet(queues[u])

QueueInv == QueueTypeOK /\ NoDuplicateRuns /\ IndexAgrees

\* FIFO: whoever is ahead of a waiting run was ahead of it before; neither a
\* newcomer nor another waiting run of the user ever overtakes it.
NoOvertaking ==
  [][\A u \in Users : \A j \in DOMAIN queues'[u], k \in DOMAIN queues[u] :
       queues[u][k] = queues'[u][j]
         => \A i \in 1..(j - 1) : \E l \in 1..(k - 1) :
              queues[u][l] = queues'[u][i]]_queueVars

=============================================================================
