---------------------------- MODULE StoresProofs ----------------------------
(***************************************************************************)
(* RunQueue and LeaseManager for every set of users and runs and any number *)
(* of leases.  The queue's Maps agree and no operation lets a waiting run be *)
(* overtaken.  The lease manager's token index is exact whatever callers do *)
(* with old tokens, and no live lease is replaced.                           *)
(***************************************************************************)
EXTENDS RunQueue, LeaseManager, SequenceTheorems, TLAPS

-----------------------------------------------------------------------------
(* The queue.                                                                *)

Distinct(s) == \A i, j \in 1..Len(s) : s[i] = s[j] => i = j

\* In an array without duplicates, indexOf finds the one place of the run.
LEMMA IndexOfFinds ==
  ASSUME NEW S, NEW s \in Seq(S), Distinct(s), NEW e \in ToSet(s)
  PROVE  /\ IndexOf(s, e) \in 1..Len(s)
         /\ s[IndexOf(s, e)] = e
<1>1. PICK i \in 1..Len(s) : s[i] = e
  BY DEF ToSet
<1>2. \A j \in 1..(i - 1) : s[j] # e
  BY <1>1 DEF Distinct
<1>3. QED
  BY <1>1, <1>2 DEF IndexOf

\* splice(i, 1): what is left of an array when one place is taken out of it.
LEMMA RemoveAtLeaves ==
  ASSUME NEW S, NEW s \in Seq(S), NEW i \in 1..Len(s)
  PROVE  /\ RemoveAt(s, i) \in Seq(S)
         /\ Len(RemoveAt(s, i)) = Len(s) - 1
         /\ \A k \in 1..(Len(s) - 1) :
              RemoveAt(s, i)[k] = IF k < i THEN s[k] ELSE s[k + 1]
<1> DEFINE a == SubSeq(s, 1, i - 1)
           b == SubSeq(s, i + 1, Len(s))
<1>1. /\ a \in Seq(S) /\ Len(a) = i - 1
      /\ \A k \in 1..(i - 1) : a[k] = s[k]
  <2>1. \A k \in 1..(i - 1) : s[k] \in S
    OBVIOUS
  <2>2. QED
    BY <2>1, SubSeqProperties
<1>2. /\ b \in Seq(S) /\ Len(b) = Len(s) - i
      /\ \A k \in 1..(Len(s) - i) : b[k] = s[i + k]
  <2>1. \A k \in (i + 1)..Len(s) : s[k] \in S
    OBVIOUS
  <2>2. QED
    BY <2>1, SubSeqProperties
<1>3. /\ a \o b \in Seq(S)
      /\ Len(a \o b) = Len(a) + Len(b)
      /\ \A k \in 1..(Len(a) + Len(b)) :
           (a \o b)[k] = IF k <= Len(a) THEN a[k] ELSE b[k - Len(a)]
  BY <1>1, <1>2, ConcatProperties
<1>4. \A k \in 1..(Len(s) - 1) :
        (a \o b)[k] = IF k < i THEN s[k] ELSE s[k + 1]
  <2> HIDE DEF a, b
  <2> QED  BY <1>1, <1>2, <1>3
<1>5. QED
  <2> HIDE DEF a, b
  <2>1. RemoveAt(s, i) = a \o b
    BY DEF RemoveAt, a, b
  <2>2. a \o b \in Seq(S) /\ Len(a \o b) = Len(s) - 1
    BY <1>1, <1>2, <1>3
  <2>3. QED
    BY <1>4, <2>1, <2>2

-----------------------------------------------------------------------------
(* Dequeue and RemoveFromQueue both take one place out of one array.         *)

TakesOut(u, i) ==
  /\ u \in Users
  /\ i \in 1..Len(queues[u])
  /\ queues' = [queues EXCEPT ![u] = RemoveAt(@, i)]
  /\ runToUser' = [runToUser EXCEPT ![queues[u][i]] = None]

LEMMA DequeueTakesOut ==
  ASSUME QueueInv, NEW u \in Users, Dequeue(u)
  PROVE  \/ queues[u] = << >> /\ UNCHANGED queueVars
         \/ queues[u] # << >> /\ Head(queues[u]) = queues[u][1] /\ TakesOut(u, 1)
<1>1. CASE queues[u] = << >>
  BY <1>1 DEF Dequeue
<1>2. CASE queues[u] # << >>
  <2> DEFINE s == queues[u]
  <2>1. s \in Seq(Runs) /\ s # << >>
    BY <1>2 DEF QueueInv, QueueTypeOK
  <2>2. 1 \in 1..Len(s) /\ Head(s) = s[1]
    <3> HIDE DEF s
    <3> QED  BY <2>1
  <2>3. Tail(s) = RemoveAt(s, 1)
    <3>1. Tail(s) \in Seq(Runs) /\ Len(Tail(s)) = Len(s) - 1
          /\ \A k \in 1..Len(Tail(s)) : Tail(s)[k] = s[k + 1]
      BY <2>1, HeadTailProperties
    <3>2. RemoveAt(s, 1) \in Seq(Runs) /\ Len(RemoveAt(s, 1)) = Len(s) - 1
          /\ \A k \in 1..(Len(s) - 1) : RemoveAt(s, 1)[k] = s[k + 1]
      <4>1. \A k \in 1..(Len(s) - 1) : ~(k < 1)
        BY <2>1, LenProperties
      <4>2. QED
        BY <2>1, <2>2, <4>1, RemoveAtLeaves
    <3>3. QED
      <4> HIDE DEF s
      <4> QED  BY <3>1, <3>2, SeqEqual
  <2>4. QED
    BY <1>2, <2>2, <2>3 DEF Dequeue, TakesOut
<1>3. QED
  BY <1>1, <1>2

LEMMA RemoveTakesOut ==
  ASSUME QueueInv, NEW r \in Runs, RemoveFromQueue(r)
  PROVE  \/ (\A u \in Users : r \notin ToSet(queues[u])) /\ UNCHANGED queueVars
         \/ \E u \in Users : \E i \in 1..Len(queues[u]) :
              queues[u][i] = r /\ TakesOut(u, i)
<1> DEFINE u == runToUser[r]
<1>1. CASE u = None \/ r \notin ToSet(queues[u])
  BY <1>1, NoneAssumption DEF RemoveFromQueue, QueueInv, IndexAgrees
<1>2. CASE ~(u = None \/ r \notin ToSet(queues[u]))
  <2>1. u \in Users /\ queues[u] \in Seq(Runs) /\ r \in ToSet(queues[u])
    BY <1>2 DEF QueueInv, QueueTypeOK
  <2>2. Distinct(queues[u])
    BY <2>1, LenProperties DEF Distinct, QueueInv, NoDuplicateRuns
  <2>3. /\ IndexOf(queues[u], r) \in 1..Len(queues[u])
        /\ queues[u][IndexOf(queues[u], r)] = r
    BY <2>1, <2>2, IndexOfFinds
  <2>4. TakesOut(u, IndexOf(queues[u], r))
    BY <1>2, <2>1, <2>3 DEF RemoveFromQueue, TakesOut
  <2>5. QED
    BY <2>1, <2>3, <2>4
<1>3. QED
  BY <1>1, <1>2

\* What the arrays look like after a place was taken out.
LEMMA TakenOut ==
  ASSUME QueueInv, NEW u, NEW i, TakesOut(u, i)
  PROVE  /\ queues' \in [Users -> Seq(Runs)]
         /\ \A v \in Users \ {u} : queues'[v] = queues[v]
         /\ Len(queues'[u]) = Len(queues[u]) - 1
         /\ \A k \in 1..(Len(queues[u]) - 1) :
              queues'[u][k] = IF k < i THEN queues[u][k] ELSE queues[u][k + 1]
<1>1. u \in Users /\ queues \in [Users -> Seq(Runs)] /\ queues[u] \in Seq(Runs)
      /\ i \in 1..Len(queues[u])
  BY DEF TakesOut, QueueInv, QueueTypeOK
<1>2. /\ RemoveAt(queues[u], i) \in Seq(Runs)
      /\ Len(RemoveAt(queues[u], i)) = Len(queues[u]) - 1
      /\ \A k \in 1..(Len(queues[u]) - 1) : RemoveAt(queues[u], i)[k]
           = IF k < i THEN queues[u][k] ELSE queues[u][k + 1]
  BY <1>1, RemoveAtLeaves
<1>3. QED
  BY <1>1, <1>2 DEF TakesOut

LEMMA TakesOutInv ==
  ASSUME QueueInv, NEW u, NEW i, TakesOut(u, i)
  PROVE  QueueInv'
<1> DEFINE gone == queues[u][i]
<1>1. /\ u \in Users
      /\ i \in 1..Len(queues[u])
      /\ queues \in [Users -> Seq(Runs)]
      /\ runToUser \in [Runs -> Users \cup {None}]
      /\ \A v \in Users : queues[v] \in Seq(Runs)
      /\ gone \in Runs
      /\ runToUser' = [runToUser EXCEPT ![gone] = None]
  <2>1. queues[u] \in Seq(Runs)
    BY DEF TakesOut, QueueInv, QueueTypeOK
  <2>2. QED
    BY <2>1, ElementOfSeq DEF TakesOut, QueueInv, QueueTypeOK
<1>2. /\ queues' \in [Users -> Seq(Runs)]
      /\ \A v \in Users \ {u} : queues'[v] = queues[v]
      /\ Len(queues'[u]) = Len(queues[u]) - 1
      /\ \A k \in 1..(Len(queues[u]) - 1) :
           queues'[u][k] = IF k < i THEN queues[u][k] ELSE queues[u][k + 1]
  BY TakenOut
<1>3. \A v \in Users : /\ DOMAIN queues[v] = 1..Len(queues[v])
                       /\ DOMAIN queues'[v] = 1..Len(queues'[v])
                       /\ Len(queues[v]) \in Nat /\ Len(queues'[v]) \in Nat
  BY <1>1, <1>2, LenProperties
<1> DEFINE Old(k) == IF k < i THEN k ELSE k + 1
<1>4. \A k \in 1..Len(queues'[u]) :
        /\ Old(k) \in 1..Len(queues[u])
        /\ Old(k) # i
        /\ queues'[u][k] = queues[u][Old(k)]
  BY <1>1, <1>2, <1>3
<1>5. \A v, w \in Users : \A j \in 1..Len(queues[v]), k \in 1..Len(queues[w]) :
        queues[v][j] = queues[w][k] => v = w /\ j = k
  BY <1>3 DEF QueueInv, NoDuplicateRuns
<1> DEFINE Place(v, k) == IF v = u THEN Old(k) ELSE k
<1>5a. \A v \in Users : \A k \in 1..Len(queues'[v]) :
         /\ Place(v, k) \in 1..Len(queues[v])
         /\ queues'[v][k] = queues[v][Place(v, k)]
  BY <1>1, <1>2, <1>4
<1>5b. \A v \in Users : \A j, k \in Nat : Place(v, j) = Place(v, k) => j = k
  BY <1>1
<1>5c. NoDuplicateRuns'
  <2> HIDE DEF Place, Old, gone
  <2> SUFFICES ASSUME NEW v \in Users, NEW w \in Users,
                      NEW j \in 1..Len(queues'[v]), NEW k \in 1..Len(queues'[w]),
                      queues'[v][j] = queues'[w][k]
               PROVE  v = w /\ j = k
    BY <1>3 DEF NoDuplicateRuns
  <2>1. queues[v][Place(v, j)] = queues[w][Place(w, k)]
    BY <1>5a
  <2>2. v = w /\ Place(v, j) = Place(w, k)
    <3>1. /\ Place(v, j) \in 1..Len(queues[v])
          /\ Place(w, k) \in 1..Len(queues[w])
      BY <1>5a
    <3>2. QED
      BY <2>1, <3>1, <1>5
  <2>3. j \in Nat /\ k \in Nat
    BY <1>3
  <2>4. QED
    BY <2>2, <2>3, <1>5b
<1>6. \A v \in Users, r \in Runs :
        r \in ToSet(queues'[v]) <=> r \in ToSet(queues[v]) /\ ~(v = u /\ r = gone)
  <2> SUFFICES ASSUME NEW v \in Users, NEW r \in Runs
               PROVE  r \in ToSet(queues'[v])
                        <=> r \in ToSet(queues[v]) /\ ~(v = u /\ r = gone)
    OBVIOUS
  <2>1. CASE v # u
    BY <2>1, <1>2
  <2>2. CASE v = u
    <3>1. ASSUME NEW k \in 1..Len(queues'[u]), queues'[u][k] = r
          PROVE  r \in ToSet(queues[u]) /\ r # gone
      <4>1. queues[u][Old(k)] = r /\ Old(k) \in 1..Len(queues[u]) /\ Old(k) # i
        BY <3>1, <1>4
      <4>2. r # gone
        BY <4>1, <1>1, <1>5
      <4>3. QED
        BY <4>1, <4>2, <1>1, <1>3 DEF ToSet
    <3>2. ASSUME NEW k \in 1..Len(queues[u]), queues[u][k] = r, r # gone
          PROVE  r \in ToSet(queues'[u])
      <4>1. k # i
        BY <3>2
      <4>2. CASE k < i
        <5>1. k \in 1..Len(queues'[u]) /\ queues'[u][k] = r
          BY <3>2, <4>2, <1>1, <1>2, <1>3
        <5>2. QED
          BY <5>1, <1>1, <1>3 DEF ToSet
      <4>3. CASE k > i
        <5>1. k - 1 \in 1..Len(queues'[u]) /\ queues'[u][k - 1] = r
          <6>1. k - 1 \in 1..(Len(queues[u]) - 1) /\ ~(k - 1 < i) /\ (k - 1) + 1 = k
            BY <3>2, <4>3, <1>1, <1>3
          <6>2. QED
            BY <6>1, <1>1, <1>2, <1>3, <3>2
        <5>2. QED
          BY <5>1, <1>1, <1>3 DEF ToSet
      <4>4. QED
        BY <4>1, <4>2, <4>3, <1>1, <1>3
    <3>3. QED
      BY <2>2, <3>1, <3>2, <1>1, <1>3 DEF ToSet
  <2>3. QED
    BY <2>1, <2>2
<1>7. IndexAgrees'
  <2>1. gone \in ToSet(queues[u])
    BY <1>1, <1>3 DEF ToSet
  <2>2. runToUser[gone] = u
    BY <2>1, <1>1 DEF QueueInv, IndexAgrees
  <2>3. \A r \in Runs, v \in Users :
          runToUser'[r] = v <=> r \in ToSet(queues'[v])
    BY <1>1, <1>6, <2>2, NoneAssumption DEF QueueInv, IndexAgrees
  <2>4. QED
    BY <2>3 DEF IndexAgrees
<1>8. QueueTypeOK'
  BY <1>1, <1>2 DEF QueueTypeOK
<1>9. QED
  BY <1>5c, <1>7, <1>8 DEF QueueInv

LEMMA EnqueueInv ==
  ASSUME QueueInv, NEW r \in Runs, NEW u \in Users, EnqueueFresh(r, u)
  PROVE  QueueInv'
<1>1. /\ queues \in [Users -> Seq(Runs)]
      /\ runToUser \in [Runs -> Users \cup {None}]
      /\ \A v \in Users : queues[v] \in Seq(Runs) /\ r \notin ToSet(queues[v])
      /\ queues' = [queues EXCEPT ![u] = Append(queues[u], r)]
      /\ runToUser' = [runToUser EXCEPT ![r] = u]
  BY DEF QueueInv, QueueTypeOK, EnqueueFresh, Enqueue
<1>2. /\ queues'[u] \in Seq(Runs)
      /\ Len(queues'[u]) = Len(queues[u]) + 1
      /\ \A k \in 1..Len(queues[u]) : queues'[u][k] = queues[u][k]
      /\ queues'[u][Len(queues[u]) + 1] = r
  BY <1>1, AppendProperties
<1>3. /\ queues' \in [Users -> Seq(Runs)]
      /\ \A v \in Users \ {u} : queues'[v] = queues[v]
  BY <1>1, <1>2
<1>4. \A v \in Users : /\ DOMAIN queues[v] = 1..Len(queues[v])
                       /\ DOMAIN queues'[v] = 1..Len(queues'[v])
                       /\ Len(queues[v]) \in Nat /\ Len(queues'[v]) \in Nat
  BY <1>1, <1>3, LenProperties
<1>5. \A v \in Users : \A k \in 1..Len(queues[v]) : queues[v][k] # r
  BY <1>1, <1>4 DEF ToSet
<1>6. \A v, w \in Users : \A j \in 1..Len(queues'[v]), k \in 1..Len(queues'[w]) :
        queues'[v][j] = queues'[w][k] => v = w /\ j = k
  <2> SUFFICES ASSUME NEW v \in Users, NEW w \in Users,
                      NEW j \in 1..Len(queues'[v]), NEW k \in 1..Len(queues'[w]),
                      queues'[v][j] = queues'[w][k]
               PROVE  v = w /\ j = k
    OBVIOUS
  <2>1. v # u => j \in 1..Len(queues[v]) /\ queues'[v][j] = queues[v][j]
    BY <1>3
  <2>2. w # u => k \in 1..Len(queues[w]) /\ queues'[w][k] = queues[w][k]
    BY <1>3
  <2>3. v = u => \/ j \in 1..Len(queues[v]) /\ queues'[v][j] = queues[v][j]
                 \/ j = Len(queues[u]) + 1 /\ queues'[v][j] = r
    <3>1. v = u => j \in 1..(Len(queues[u]) + 1)
      BY <1>2
    <3>2. Len(queues[u]) \in Nat
      BY <1>4
    <3>3. QED
      BY <1>2, <3>1, <3>2
  <2>4. w = u => \/ k \in 1..Len(queues[w]) /\ queues'[w][k] = queues[w][k]
                 \/ k = Len(queues[u]) + 1 /\ queues'[w][k] = r
    <3>1. w = u => k \in 1..(Len(queues[u]) + 1)
      BY <1>2
    <3>2. Len(queues[u]) \in Nat
      BY <1>4
    <3>3. QED
      BY <1>2, <3>1, <3>2
  <2>5. \A i \in 1..Len(queues[v]), l \in 1..Len(queues[w]) :
          queues[v][i] = queues[w][l] => v = w /\ i = l
    <3>1. \A i \in DOMAIN queues[v], l \in DOMAIN queues[w] :
            queues[v][i] = queues[w][l] => v = w /\ i = l
      BY DEF QueueInv, NoDuplicateRuns
    <3>2. QED
      BY <3>1, <1>4
  <2>6. QED
    BY <2>1, <2>2, <2>3, <2>4, <2>5, <1>5
<1>6a. NoDuplicateRuns'
  <2> SUFFICES ASSUME NEW v \in Users, NEW w \in Users,
                      NEW j \in DOMAIN queues'[v], NEW k \in DOMAIN queues'[w],
                      queues'[v][j] = queues'[w][k]
               PROVE  v = w /\ j = k
    BY DEF NoDuplicateRuns
  <2>1. j \in 1..Len(queues'[v]) /\ k \in 1..Len(queues'[w])
    BY <1>4
  <2>2. QED
    BY <1>6, <2>1
<1>7. \A v \in Users, s \in Runs :
        s \in ToSet(queues'[v]) <=> s \in ToSet(queues[v]) \/ (v = u /\ s = r)
  <2> SUFFICES ASSUME NEW v \in Users, NEW s \in Runs
               PROVE  s \in ToSet(queues'[v])
                        <=> s \in ToSet(queues[v]) \/ (v = u /\ s = r)
    OBVIOUS
  <2>1. CASE v # u
    BY <2>1, <1>3
  <2>2. CASE v = u
    <3>1. \A k : k \in 1..Len(queues'[u])
                   <=> k \in 1..Len(queues[u]) \/ k = Len(queues[u]) + 1
      BY <1>2, <1>4
    <3>2. QED
      BY <2>2, <3>1, <1>2, <1>4 DEF ToSet
  <2>3. QED
    BY <2>1, <2>2
<1>8. IndexAgrees'
  <2>1. \A s \in Runs, v \in Users :
          runToUser'[s] = v <=> s \in ToSet(queues'[v])
    BY <1>1, <1>7 DEF QueueInv, IndexAgrees
  <2>2. QED
    BY <2>1 DEF IndexAgrees
<1>9. QueueTypeOK'
  BY <1>1, <1>3 DEF QueueTypeOK
<1>10. QED
  BY <1>6a, <1>8, <1>9 DEF QueueInv

-----------------------------------------------------------------------------
\* No call of the queue's breaks the agreement of its Maps.
LEMMA QueueInvStep == QueueInv /\ [QueueNext]_queueVars => QueueInv'
<1> SUFFICES ASSUME QueueInv, [QueueNext]_queueVars
             PROVE  QueueInv'
  OBVIOUS
<1>1. ASSUME NEW r \in Runs, NEW u \in Users, EnqueueFresh(r, u)
      PROVE  QueueInv'
  BY <1>1, EnqueueInv
<1>2. CASE UNCHANGED queueVars
  BY <1>2 DEF queueVars, QueueInv, QueueTypeOK, NoDuplicateRuns, IndexAgrees
<1>3. ASSUME NEW u \in Users, Dequeue(u)
      PROVE  QueueInv'
  BY <1>2, <1>3, DequeueTakesOut, TakesOutInv
<1>4. ASSUME NEW r \in Runs, RemoveFromQueue(r)
      PROVE  QueueInv'
  BY <1>2, <1>4, RemoveTakesOut, TakesOutInv
<1>5. QED
  BY <1>1, <1>2, <1>3, <1>4 DEF QueueNext

\* What the arrays hold after each operation.
LEMMA EnqueueAdds ==
  ASSUME QueueInv, NEW r \in Runs, NEW u \in Users, Enqueue(r, u)
  PROVE  \A v \in Users, s \in Runs :
           s \in ToSet(queues'[v]) <=> s \in ToSet(queues[v]) \/ (v = u /\ s = r)
<1> SUFFICES ASSUME NEW v \in Users, NEW s \in Runs
             PROVE  s \in ToSet(queues'[v])
                      <=> s \in ToSet(queues[v]) \/ (v = u /\ s = r)
  OBVIOUS
<1>1. /\ queues[u] \in Seq(Runs) /\ Len(queues[u]) \in Nat
      /\ queues'[v] = IF v = u THEN Append(queues[u], r) ELSE queues[v]
  BY DEF Enqueue, QueueInv, QueueTypeOK
<1>2. CASE v = u
  <2> DEFINE a == Append(queues[u], r)
  <2>1. /\ Len(a) = Len(queues[u]) + 1 /\ a[Len(queues[u]) + 1] = r
        /\ \A k \in 1..Len(queues[u]) : a[k] = queues[u][k]
        /\ a \in Seq(Runs)
    BY <1>1, AppendProperties
  <2> HIDE DEF a
  <2>2. s \in ToSet(a) <=> \E k \in 1..(Len(queues[u]) + 1) : a[k] = s
    BY <2>1 DEF ToSet
  <2>3. s \in ToSet(queues[u]) <=> \E k \in 1..Len(queues[u]) : queues[u][k] = s
    BY <1>1 DEF ToSet
  <2>4. ASSUME NEW k \in 1..(Len(queues[u]) + 1), a[k] = s
        PROVE  s = r \/ \E l \in 1..Len(queues[u]) : queues[u][l] = s
    <3>1. k = Len(queues[u]) + 1 \/ k \in 1..Len(queues[u])
      BY <1>1
    <3>2. QED
      BY <2>1, <2>4, <3>1
  <2>5. Len(queues[u]) + 1 \in 1..(Len(queues[u]) + 1)
        /\ \A k \in 1..Len(queues[u]) : k \in 1..(Len(queues[u]) + 1)
    BY <1>1
  <2>6. s \in ToSet(a) <=> s \in ToSet(queues[u]) \/ s = r
    BY <2>1, <2>2, <2>3, <2>4, <2>5
  <2>7. QED
    BY <1>1, <1>2, <2>6 DEF a
<1>3. QED
  BY <1>1, <1>2

LEMMA TakesOutOne ==
  ASSUME QueueInv, NEW u, NEW i, TakesOut(u, i)
  PROVE  \A v \in Users, s \in Runs :
           s \in ToSet(queues'[v]) <=> s \in ToSet(queues[v]) /\ s # queues[u][i]
<1> SUFFICES ASSUME NEW v \in Users, NEW s \in Runs
             PROVE  s \in ToSet(queues'[v])
                      <=> s \in ToSet(queues[v]) /\ s # queues[u][i]
  OBVIOUS
<1>1. /\ u \in Users /\ i \in 1..Len(queues[u]) /\ Len(queues[u]) \in Nat
      /\ queues[u] \in Seq(Runs) /\ queues[v] \in Seq(Runs)
      /\ queues'[v] \in Seq(Runs)
      /\ v # u => queues'[v] = queues[v]
      /\ Len(queues'[u]) = Len(queues[u]) - 1
      /\ \A k \in 1..(Len(queues[u]) - 1) :
           queues'[u][k] = IF k < i THEN queues[u][k] ELSE queues[u][k + 1]
  <2>1. /\ u \in Users /\ i \in 1..Len(queues[u]) /\ Len(queues[u]) \in Nat
        /\ queues[u] \in Seq(Runs) /\ queues[v] \in Seq(Runs)
    BY DEF TakesOut, QueueInv, QueueTypeOK
  <2>2. /\ queues' \in [Users -> Seq(Runs)]
        /\ \A w \in Users \ {u} : queues'[w] = queues[w]
        /\ Len(queues'[u]) = Len(queues[u]) - 1
        /\ \A k \in 1..(Len(queues[u]) - 1) :
             queues'[u][k] = IF k < i THEN queues[u][k] ELSE queues[u][k + 1]
    BY TakenOut
  <2>3. QED
    BY <2>1, <2>2
<1>2. /\ s \in ToSet(queues[v]) <=> \E k \in 1..Len(queues[v]) : queues[v][k] = s
      /\ s \in ToSet(queues'[v])
           <=> \E k \in 1..Len(queues'[v]) : queues'[v][k] = s
  BY <1>1 DEF ToSet
<1>3. \A k \in 1..Len(queues[v]) : queues[v][k] = queues[u][i] => v = u /\ k = i
  BY <1>1 DEF QueueInv, NoDuplicateRuns
<1>4. CASE v # u
  BY <1>1, <1>2, <1>3, <1>4
<1>5. CASE v = u
  <2>1. ASSUME NEW k \in 1..(Len(queues[u]) - 1), queues'[u][k] = s
        PROVE  s # queues[u][i] /\ \E l \in 1..Len(queues[u]) : queues[u][l] = s
    <3>1. CASE k < i
      <4>1. queues[u][k] = s /\ k \in 1..Len(queues[u]) /\ k # i
        BY <1>1, <2>1, <3>1
      <4>2. QED
        BY <1>3, <1>5, <4>1
    <3>2. CASE ~(k < i)
      <4>1. k + 1 \in 1..Len(queues[u]) /\ k + 1 # i /\ queues[u][k + 1] = s
        BY <1>1, <2>1, <3>2
      <4>2. QED
        BY <1>3, <1>5, <4>1
    <3>3. QED
      BY <3>1, <3>2
  <2>2. ASSUME NEW l \in 1..Len(queues[u]), queues[u][l] = s, s # queues[u][i]
        PROVE  \E k \in 1..(Len(queues[u]) - 1) : queues'[u][k] = s
    <3>1. CASE l < i
      <4>1. l \in 1..(Len(queues[u]) - 1)
        BY <1>1, <3>1
      <4>2. QED
        BY <1>1, <2>2, <3>1, <4>1
    <3>2. CASE l > i
      <4>1. l - 1 \in 1..(Len(queues[u]) - 1) /\ ~(l - 1 < i) /\ (l - 1) + 1 = l
        BY <1>1, <3>2
      <4>2. QED
        BY <1>1, <2>2, <4>1
    <3>3. QED
      BY <1>1, <2>2, <3>1, <3>2
  <2>3. QED
    BY <1>1, <1>2, <1>5, <2>1, <2>2
<1>6. QED
  BY <1>4, <1>5

LEMMA DequeueDropsHead ==
  ASSUME QueueInv, NEW u \in Users, Dequeue(u)
  PROVE  \A v \in Users, s \in Runs :
           s \in ToSet(queues'[v]) <=>
             s \in ToSet(queues[v]) /\ (queues[u] # << >> => s # Head(queues[u]))
<1>1. CASE queues[u] = << >> /\ UNCHANGED queueVars
  BY <1>1 DEF queueVars
<1>2. CASE queues[u] # << >> /\ Head(queues[u]) = queues[u][1] /\ TakesOut(u, 1)
  BY <1>2, TakesOutOne
<1>3. QED
  BY <1>1, <1>2, DequeueTakesOut

LEMMA RemoveDropsRun ==
  ASSUME QueueInv, NEW r \in Runs, RemoveFromQueue(r)
  PROVE  \A v \in Users, s \in Runs :
           s \in ToSet(queues'[v]) <=> s \in ToSet(queues[v]) /\ s # r
<1>1. CASE (\A u \in Users : r \notin ToSet(queues[u])) /\ UNCHANGED queueVars
  BY <1>1 DEF queueVars
<1>2. ASSUME NEW u \in Users, NEW i \in 1..Len(queues[u]),
             queues[u][i] = r, TakesOut(u, i)
      PROVE  \A v \in Users, s \in Runs :
               s \in ToSet(queues'[v]) <=> s \in ToSet(queues[v]) /\ s # r
  BY <1>2, TakesOutOne
<1>3. QED
  BY <1>1, <1>2, RemoveTakesOut

\* A waiting run at the head of its queue stays there until it is taken out.
HeadsStay ==
  \A u \in Users, r \in Runs :
    queues[u] # << >> /\ Head(queues[u]) = r /\ r \in ToSet(queues'[u])
      => queues'[u] # << >> /\ Head(queues'[u]) = r

LEMMA HeadIsFirst ==
  ASSUME NEW s \in Seq(Runs)
  PROVE  /\ s # << >> <=> 1 \in 1..Len(s)
         /\ s # << >> => Head(s) = s[1]
OBVIOUS

LEMMA HeadStays ==
  ASSUME QueueInv, [QueueNext]_queueVars
  PROVE  HeadsStay
<1> SUFFICES ASSUME NEW u \in Users, NEW r \in Runs, queues[u] # << >>,
                    Head(queues[u]) = r, r \in ToSet(queues'[u])
             PROVE  queues'[u] # << >> /\ Head(queues'[u]) = r
  BY DEF HeadsStay
<1>1. queues \in [Users -> Seq(Runs)]
  BY DEF QueueInv, QueueTypeOK
<1>2. 1 \in 1..Len(queues[u]) /\ queues[u][1] = r /\ Len(queues[u]) \in Nat
  BY <1>1, HeadIsFirst
<1>3. ASSUME queues'[u] = queues[u]
      PROVE  queues'[u] # << >> /\ Head(queues'[u]) = r
  BY <1>3
<1>4. ASSUME NEW v, NEW i, TakesOut(v, i)
      PROVE  queues'[u] # << >> /\ Head(queues'[u]) = r
  <2>1. /\ v \in Users /\ i \in 1..Len(queues[v])
        /\ queues'[u] \in Seq(Runs)
        /\ v # u => queues'[u] = queues[u]
        /\ Len(queues'[v]) = Len(queues[v]) - 1
        /\ \A k \in 1..(Len(queues[v]) - 1) :
             queues'[v][k] = IF k < i THEN queues[v][k] ELSE queues[v][k + 1]
    BY <1>4, TakenOut DEF TakesOut
  <2>2. r # queues[v][i]
    BY <1>4, TakesOutOne
  <2>3. CASE v = u
    <3>1. i # 1
      BY <1>2, <2>2, <2>3
    <3>2. 1 \in 1..(Len(queues[u]) - 1) /\ 1 < i
      BY <1>2, <2>1, <2>3, <3>1
    <3>3. 1 \in 1..Len(queues'[u]) /\ queues'[u][1] = r
      BY <1>2, <2>1, <2>3, <3>2
    <3>4. QED
      BY <2>1, <3>3, HeadIsFirst
  <2>4. QED
    BY <1>3, <2>1, <2>3
<1>5. ASSUME NEW s \in Runs, NEW v \in Users, Enqueue(s, v)
      PROVE  queues'[u] # << >> /\ Head(queues'[u]) = r
  <2>1. CASE v = u
    <3> DEFINE q == queues[u]
    <3>1. q \in Seq(Runs) /\ queues'[u] = Append(q, s)
      BY <1>1, <1>5, <2>1 DEF Enqueue
    <3> HIDE DEF q
    <3>2. /\ Append(q, s) \in Seq(Runs) /\ Len(Append(q, s)) = Len(q) + 1
          /\ \A k \in 1..Len(q) : Append(q, s)[k] = q[k]
      BY <3>1
    <3>3. 1 \in 1..Len(Append(q, s)) /\ Append(q, s)[1] = r
      BY <1>2, <3>2 DEF q
    <3>4. QED
      BY <3>1, <3>2, <3>3, HeadIsFirst
  <2>2. QED
    BY <1>1, <1>3, <1>5, <2>1 DEF Enqueue
<1>6. CASE UNCHANGED queueVars
  BY <1>3, <1>6 DEF queueVars
<1>7. QED
  BY <1>3, <1>4, <1>5, <1>6, DequeueTakesOut, RemoveTakesOut
     DEF QueueNext, EnqueueFresh, queueVars

LEMMA QueueInitInv == QueueInit => QueueInv
<1> SUFFICES ASSUME QueueInit  PROVE QueueInv
  OBVIOUS
<1>1. QueueTypeOK
  BY EmptySeq DEF QueueInit, QueueTypeOK
<1>2. \A u \in Users : DOMAIN queues[u] = {} /\ ToSet(queues[u]) = {}
  BY DEF QueueInit, ToSet
<1>3. NoDuplicateRuns
  BY <1>2 DEF NoDuplicateRuns
<1>4. IndexAgrees
  BY <1>2, NoneAssumption DEF IndexAgrees, QueueInit
<1>5. QED
  BY <1>1, <1>3, <1>4 DEF QueueInv

\* The invariant the other theorems rest on: types, distinctness and index
\* agreement of queue.ts's two Maps, which need one another.
THEOREM QueueInvariant == QueueSpec => []QueueInv
BY QueueInitInv, QueueInvStep, PTL DEF QueueSpec

\* Whatever sequence of enqueue, dequeue and remove calls is made, every
\* waiting run has one place, in the queue of the user the index names.
THEOREM OnePlace == QueueSpec => [](NoDuplicateRuns /\ IndexAgrees)
<1>1. QueueInv => NoDuplicateRuns /\ IndexAgrees
  BY DEF QueueInv
<1>2. QED
  BY <1>1, QueueInvariant, PTL

-----------------------------------------------------------------------------
(* NoOvertaking, step by step: who is ahead of a waiting run after a call.   *)

InOrder == \A u \in Users : \A j \in DOMAIN queues'[u], k \in DOMAIN queues[u] :
             queues[u][k] = queues'[u][j]
               => \A i \in 1..(j - 1) : \E l \in 1..(k - 1) :
                    queues[u][l] = queues'[u][i]

LEMMA TakingOutKeepsOrder ==
  ASSUME QueueInv, NEW v, NEW n, TakesOut(v, n)
  PROVE  InOrder
<1> SUFFICES ASSUME NEW u \in Users,
                    NEW j \in DOMAIN queues'[u], NEW k \in DOMAIN queues[u],
                    queues[u][k] = queues'[u][j],
                    NEW i \in 1..(j - 1)
             PROVE  \E l \in 1..(k - 1) : queues[u][l] = queues'[u][i]
  BY DEF InOrder
<1>1. /\ v \in Users /\ n \in 1..Len(queues[v])
      /\ queues' \in [Users -> Seq(Runs)] /\ queues \in [Users -> Seq(Runs)]
      /\ u # v => queues'[u] = queues[u]
      /\ Len(queues'[v]) = Len(queues[v]) - 1
      /\ \A m \in 1..(Len(queues[v]) - 1) :
           queues'[v][m] = IF m < n THEN queues[v][m] ELSE queues[v][m + 1]
  BY TakenOut DEF TakesOut, QueueInv, QueueTypeOK
<1>2. /\ DOMAIN queues[u] = 1..Len(queues[u])
      /\ DOMAIN queues'[u] = 1..Len(queues'[u])
      /\ Len(queues[u]) \in Nat /\ Len(queues'[u]) \in Nat
  BY <1>1, LenProperties
<1>3. \A a, b \in DOMAIN queues[u] : queues[u][a] = queues[u][b] => a = b
  BY DEF QueueInv, NoDuplicateRuns
<1>4. CASE u # v
  <2>1. k = j
    BY <1>1, <1>3, <1>4
  <2>2. QED
    BY <1>1, <1>4, <2>1
<1>5. CASE u = v
  <2> DEFINE Old(m) == IF m < n THEN m ELSE m + 1
  <2>1. \A m \in 1..Len(queues'[u]) : /\ Old(m) \in DOMAIN queues[u]
                                      /\ queues'[u][m] = queues[u][Old(m)]
    BY <1>1, <1>2, <1>5
  <2>2. i \in 1..Len(queues'[u]) /\ Old(i) < Old(j)
    BY <1>1, <1>2
  <2> HIDE DEF Old
  <2>3. k = Old(j)
    BY <2>1, <1>2, <1>3
  <2>4. Old(i) \in 1..(k - 1) /\ queues[u][Old(i)] = queues'[u][i]
    BY <1>2, <2>1, <2>2, <2>3
  <2>5. QED
    BY <2>4
<1>6. QED
  BY <1>4, <1>5

LEMMA EnqueueKeepsOrder ==
  ASSUME QueueInv, NEW r \in Runs, NEW v \in Users, EnqueueFresh(r, v)
  PROVE  InOrder
<1> SUFFICES ASSUME NEW u \in Users,
                    NEW j \in DOMAIN queues'[u], NEW k \in DOMAIN queues[u],
                    queues[u][k] = queues'[u][j],
                    NEW i \in 1..(j - 1)
             PROVE  \E l \in 1..(k - 1) : queues[u][l] = queues'[u][i]
  BY DEF InOrder
<1>1. /\ queues[u] \in Seq(Runs)
      /\ queues'[u] = queues[u] \/ queues'[u] = Append(queues[u], r)
      /\ r \notin ToSet(queues[u])
  BY DEF QueueInv, QueueTypeOK, EnqueueFresh, Enqueue
<1>2. /\ DOMAIN queues[u] = 1..Len(queues[u])
      /\ Len(queues[u]) \in Nat
      /\ queues[u][k] # r
  BY <1>1, LenProperties DEF ToSet
<1>3. j \in DOMAIN queues[u] /\ queues'[u][j] = queues[u][j]
  BY <1>1, <1>2, AppendProperties
<1>4. k = j
  BY <1>3 DEF QueueInv, NoDuplicateRuns
<1>5. i \in DOMAIN queues[u] /\ queues'[u][i] = queues[u][i]
  <2>1. i \in 1..Len(queues[u])
    BY <1>2, <1>3
  <2>2. \A m \in 1..Len(queues[u]) : Append(queues[u], r)[m] = queues[u][m]
    BY <1>1, AppendProperties
  <2>3. QED
    BY <1>1, <1>2, <2>1, <2>2
<1>6. QED
  BY <1>4, <1>5

\* A run is served in the order of its lane: no call lets another run of the
\* user, waiting or new, get ahead of it (queue.ts: push, shift, splice).
THEOREM Fifo == QueueSpec => NoOvertaking
<1>1. QueueInv /\ [QueueNext]_queueVars => [InOrder]_queueVars
  <2> SUFFICES ASSUME QueueInv, QueueNext, ~UNCHANGED queueVars
               PROVE  InOrder
    BY DEF queueVars
  <2>1. ASSUME NEW r \in Runs, NEW u \in Users, EnqueueFresh(r, u)
        PROVE  InOrder
    BY <2>1, EnqueueKeepsOrder
  <2>2. ASSUME NEW u \in Users, Dequeue(u)
        PROVE  InOrder
    BY <2>2, DequeueTakesOut, TakingOutKeepsOrder
  <2>3. ASSUME NEW r \in Runs, RemoveFromQueue(r)
        PROVE  InOrder
    BY <2>3, RemoveTakesOut, TakingOutKeepsOrder
  <2>4. QED
    BY <2>1, <2>2, <2>3 DEF QueueNext
<1>2. QED
  BY <1>1, QueueInvariant, PTL DEF QueueSpec, NoOvertaking, InOrder

-----------------------------------------------------------------------------
(* The leases.                                                               *)

\* A lease found under a user is the only one with its token.
LEMMA OwnerIsUnique ==
  ASSUME LeaseInv, NEW t, NEW u \in Users, OwnsLease(t, u)
  PROVE  /\ t \in Tokens
         /\ leases[u] \in Lease
         /\ leases[u].token = t
         /\ \A v \in Users : leases[v] # None /\ leases[v].token = t => v = u
<1>1. t \in Tokens /\ tokenToUser[t] = u /\ leases[u] # None
      /\ leases[u].token = t
  BY DEF OwnsLease
<1>2. leases[u] \in Lease
  BY <1>1 DEF LeaseInv, LeaseTypeOK
<1>3. \A v \in Users : leases[v] # None /\ leases[v].token = t => v = u
  BY <1>1 DEF LeaseInv, TokenIndexExact
<1>4. QED
  BY <1>1, <1>2, <1>3

LEMMA TokenOfLease ==
  ASSUME LeaseInv, NEW u \in Users, leases[u] # None
  PROVE  /\ leases[u] \in Lease
         /\ leases[u].token \in Tokens
         /\ OwnsLease(leases[u].token, u)
<1>1. leases[u] \in Lease
  BY DEF LeaseInv, LeaseTypeOK
<1>2. leases[u].token \in Tokens
  BY <1>1 DEF Lease
<1>3. QED
  BY <1>1, <1>2 DEF OwnsLease, LeaseInv, TokenIndexExact

-----------------------------------------------------------------------------
LEMMA AcquireInv ==
  ASSUME LeaseInv, NEW u \in Users, NEW r \in Runs, CanAcquire(u), Acquire(u, r)
  PROVE  LeaseInv'
<1> DEFINE new == [runId |-> r, token |-> NextToken, live |-> TRUE]
<1>1. /\ issued \in Nat /\ issued < MaxTokens /\ NextToken = issued + 1
      /\ NextToken \in Tokens
      /\ issued' = NextToken
      /\ issued' \in 0..MaxTokens
  BY MaxTokensAssumption DEF Acquire, NextToken, Tokens, LeaseInv, LeaseTypeOK
<1>2. /\ leases' = [leases EXCEPT ![u] = new]
      /\ leases \in [Users -> Lease \cup {None}]
      /\ tokenToUser \in [Tokens -> Users \cup {None}]
      /\ tokenToUser' = [t \in Tokens |->
           IF t = NextToken THEN u
           ELSE IF leases[u] # None /\ t = leases[u].token THEN None
           ELSE tokenToUser[t]]
  BY DEF Acquire, LeaseInv, LeaseTypeOK
<1>3. new \in Lease /\ new.token = NextToken
  BY <1>1 DEF Lease
<1>4. new # None
  BY <1>3, NoLeaseAssumption
<1>5. LeaseTypeOK'
  BY <1>1, <1>2, <1>3 DEF LeaseTypeOK
<1>6. \A v \in Users : leases[v] # None =>
        leases[v].token \in Tokens /\ leases[v].token # NextToken
  BY <1>1, TokenOfLease DEF LeaseInv, TokensFromIssued, Tokens
<1>7. TokenIndexExact'
  <2> SUFFICES ASSUME NEW t \in Tokens, NEW v \in Users
               PROVE  tokenToUser'[t] = v
                        <=> leases'[v] # None /\ leases'[v].token = t
    BY DEF TokenIndexExact
  <2> HIDE DEF new
  <2>1. tokenToUser[t] = v <=> leases[v] # None /\ leases[v].token = t
    BY DEF LeaseInv, TokenIndexExact
  <2>2. None # v
    BY NoneAssumption
  <2>3. CASE v = u
    BY <1>2, <1>3, <1>4, <1>6, <2>1, <2>2, <2>3
  <2>4. CASE v # u
    <3>1. leases'[v] = leases[v]
      BY <1>2, <2>4
    <3>2. CASE t = NextToken
      BY <1>2, <1>6, <3>1, <3>2, <2>4
    <3>3. CASE t # NextToken /\ leases[u] # None /\ t = leases[u].token
      <4>1. tokenToUser[t] = u /\ tokenToUser'[t] = None
        BY <1>2, <3>3 DEF LeaseInv, TokenIndexExact
      <4>2. QED
        BY <4>1, <3>1, <2>1, <2>2, <2>4
    <3>4. CASE t # NextToken /\ ~(leases[u] # None /\ t = leases[u].token)
      BY <1>2, <3>1, <3>4, <2>1
    <3>5. QED
      BY <3>2, <3>3, <3>4
  <2>5. QED
    BY <2>3, <2>4
<1>8. TokensFromIssued'
  <2> SUFFICES ASSUME NEW v \in Users, leases'[v] # None
               PROVE  leases'[v].token <= issued'
    BY DEF TokensFromIssued
  <2>1. CASE v = u
    BY <1>1, <1>2, <1>3, <2>1
  <2>2. CASE v # u
    <3>1. leases'[v] = leases[v]
      BY <1>2, <2>2
    <3>2. leases[v].token \in Nat /\ leases[v].token <= issued
      BY <3>1, <1>6 DEF LeaseInv, TokensFromIssued, Tokens
    <3>3. QED
      BY <1>1, <3>1, <3>2
  <2>3. QED
    BY <2>1, <2>2
<1>9. QED
  BY <1>5, <1>7, <1>8 DEF LeaseInv

LEMMA DropInv ==
  ASSUME LeaseInv, NEW u \in Users, leases[u] # None, Drop(u)
  PROVE  LeaseInv'
<1> DEFINE gone == leases[u].token
<1>1. gone \in Tokens /\ OwnsLease(gone, u)
  BY TokenOfLease
<1>2. /\ leases \in [Users -> Lease \cup {None}]
      /\ tokenToUser \in [Tokens -> Users \cup {None}]
      /\ leases' = [leases EXCEPT ![u] = None]
      /\ tokenToUser' = [tokenToUser EXCEPT ![gone] = None]
      /\ issued' = issued
  BY DEF Drop, LeaseInv, LeaseTypeOK
<1>3. \A v \in Users : leases[v] # None /\ leases[v].token = gone => v = u
  BY <1>1, OwnerIsUnique
<1>4. LeaseTypeOK'
  BY <1>2 DEF LeaseTypeOK, LeaseInv
<1>5. TokenIndexExact'
  <2> SUFFICES ASSUME NEW t \in Tokens, NEW v \in Users
               PROVE  tokenToUser'[t] = v
                        <=> leases'[v] # None /\ leases'[v].token = t
    BY DEF TokenIndexExact
  <2> HIDE DEF gone
  <2>1. tokenToUser[t] = v <=> leases[v] # None /\ leases[v].token = t
    BY DEF LeaseInv, TokenIndexExact
  <2>2. None # v
    BY NoneAssumption
  <2>3. CASE v = u
    <3>1. leases'[v] = None
      BY <1>2, <2>3
    <3>2. tokenToUser'[t] # v
      BY <1>1, <1>2, <2>1, <2>2, <2>3 DEF gone
    <3>3. QED
      BY <3>1, <3>2
  <2>4. CASE v # u
    BY <1>1, <1>2, <1>3, <2>1, <2>2, <2>4
  <2>5. QED
    BY <2>3, <2>4
<1>6. TokensFromIssued'
  <2>1. \A v \in Users : leases'[v] # None => leases[v] = leases'[v]
    BY <1>2
  <2>2. QED
    BY <1>2, <2>1 DEF TokensFromIssued, LeaseInv
<1>7. QED
  BY <1>4, <1>5, <1>6 DEF LeaseInv

\* Nothing but the liveness of leases changes: Extend and Expire.
Relives == /\ UNCHANGED <<tokenToUser, issued>>
           /\ leases' \in [Users -> Lease \cup {None}]
           /\ \A v \in Users : /\ leases'[v] = None <=> leases[v] = None
                               /\ leases[v] # None =>
                                    leases'[v].token = leases[v].token

LEMMA RelivesInv ==
  ASSUME LeaseInv, Relives
  PROVE  LeaseInv'
<1>1. LeaseTypeOK'
  BY DEF LeaseInv, LeaseTypeOK, Relives
<1>2. TokenIndexExact'
  BY DEF LeaseInv, TokenIndexExact, Relives
<1>3. TokensFromIssued'
  BY DEF LeaseInv, TokensFromIssued, Relives
<1>4. QED
  BY <1>1, <1>2, <1>3 DEF LeaseInv

LEMMA SetLiveRelives ==
  ASSUME LeaseInv, NEW u \in Users, leases[u] # None, NEW live \in BOOLEAN,
         leases' = [leases EXCEPT ![u].live = live],
         UNCHANGED <<tokenToUser, issued>>
  PROVE  Relives
<1> DEFINE new == [leases[u] EXCEPT !.live = live]
<1>1. leases[u] \in Lease
  BY TokenOfLease
<1>2. new \in Lease /\ new.token = leases[u].token
  BY <1>1 DEF Lease
<1>3. new # None
  BY <1>2, NoLeaseAssumption
<1>4. /\ leases' = [leases EXCEPT ![u] = new]
      /\ leases \in [Users -> Lease \cup {None}]
  BY DEF LeaseInv, LeaseTypeOK
<1>5. QED
  <2> HIDE DEF new
  <2> QED  BY <1>2, <1>3, <1>4 DEF Relives

LEMMA CleanupInv ==
  ASSUME LeaseInv, CleanupExpired
  PROVE  LeaseInv'
<1> DEFINE expired == {u \in Users : leases[u] # None /\ ~leases[u].live}
<1>1. /\ leases \in [Users -> Lease \cup {None}]
      /\ tokenToUser \in [Tokens -> Users \cup {None}]
      /\ leases' = [u \in Users |-> IF u \in expired THEN None ELSE leases[u]]
      /\ tokenToUser' = [t \in Tokens |->
           IF \E u \in expired : leases[u].token = t THEN None
                                                     ELSE tokenToUser[t]]
      /\ issued' = issued
  BY DEF CleanupExpired, LeaseInv, LeaseTypeOK
<1>2. LeaseTypeOK'
  BY <1>1 DEF LeaseTypeOK, LeaseInv
<1>3. TokenIndexExact'
  <2> SUFFICES ASSUME NEW t \in Tokens, NEW v \in Users
               PROVE  tokenToUser'[t] = v
                        <=> leases'[v] # None /\ leases'[v].token = t
    BY DEF TokenIndexExact
  <2>1. \A u \in Users :
          tokenToUser[t] = u <=> leases[u] # None /\ leases[u].token = t
    BY DEF LeaseInv, TokenIndexExact
  <2>2. None # v
    BY NoneAssumption
  <2>3. CASE \E u \in expired : leases[u].token = t
    <3>1. PICK u \in expired : leases[u].token = t
      BY <2>3
    <3>2. tokenToUser[t] = u /\ u \in Users
      BY <3>1, <2>1
    <3>3. tokenToUser'[t] = None /\ leases'[u] = None
      BY <1>1, <2>3, <3>1, <3>2
    <3>4. v # u => ~(leases'[v] # None /\ leases'[v].token = t)
      BY <1>1, <2>1, <3>2
    <3>5. QED
      BY <3>3, <3>4, <2>2
  <2>4. CASE ~ \E u \in expired : leases[u].token = t
    <3>1. tokenToUser'[t] = tokenToUser[t]
      BY <1>1, <2>4
    <3>2. leases'[v] # None /\ leases'[v].token = t
            <=> leases[v] # None /\ leases[v].token = t
      BY <1>1, <2>4
    <3>3. QED
      BY <3>1, <3>2, <2>1
  <2>5. QED
    BY <2>3, <2>4
<1>4. TokensFromIssued'
  <2>1. \A v \in Users : leases'[v] # None => leases[v] = leases'[v]
    BY <1>1
  <2>2. QED
    BY <1>1, <2>1 DEF TokensFromIssued, LeaseInv
<1>5. QED
  BY <1>2, <1>3, <1>4 DEF LeaseInv

-----------------------------------------------------------------------------
\* No call of the lease manager's, and no passing of time, breaks it.
LEMMA LeaseInvStep == LeaseInv /\ [LeaseNext]_leaseVars => LeaseInv'
<1> SUFFICES ASSUME LeaseInv, [LeaseNext]_leaseVars  PROVE LeaseInv'
  OBVIOUS
<1>1. CASE UNCHANGED leaseVars
  BY <1>1 DEF leaseVars, LeaseInv, LeaseTypeOK, TokenIndexExact,
              TokensFromIssued
<1>2. ASSUME NEW u \in Users, NEW r \in Runs, Acquire(u, r)
      PROVE  LeaseInv'
  <2>1. CASE CanAcquire(u)
    BY <1>2, <2>1, AcquireInv
  <2>2. CASE ~CanAcquire(u)
    BY <1>1, <1>2, <2>2 DEF Acquire
  <2>3. QED
    BY <2>1, <2>2
<1>3. ASSUME NEW t \in 1..issued, Release(t)
      PROVE  LeaseInv'
  <2>1. ASSUME NEW u \in Users, OwnsLease(t, u), Drop(u)
        PROVE  LeaseInv'
    BY <2>1, DropInv DEF OwnsLease
  <2>2. QED
    BY <1>1, <1>3, <2>1 DEF Release
<1>4. ASSUME NEW t \in 1..issued, Extend(t)
      PROVE  LeaseInv'
  <2>1. ASSUME NEW u \in Users, NEW live \in BOOLEAN, OwnsLease(t, u),
               leases' = [leases EXCEPT ![u].live = live],
               UNCHANGED <<tokenToUser, issued>>
        PROVE  LeaseInv'
    BY <2>1, SetLiveRelives, RelivesInv DEF OwnsLease
  <2>2. QED
    BY <1>1, <1>4, <2>1 DEF Extend
<1>5. ASSUME NEW u \in Users, IsActive(u)
      PROVE  LeaseInv'
  BY <1>1, <1>5, DropInv DEF IsActive
<1>6. ASSUME CleanupExpired
      PROVE  LeaseInv'
  BY <1>6, CleanupInv
<1>7. ASSUME NEW u \in Users, Expire(u)
      PROVE  LeaseInv'
  BY <1>7, SetLiveRelives, RelivesInv DEF Expire, HoldsLive
<1>8. QED
  BY <1>1, <1>2, <1>3, <1>4, <1>5, <1>6, <1>7 DEF LeaseNext

LEMMA LeaseInitInv == LeaseInit => LeaseInv
<1> SUFFICES ASSUME LeaseInit  PROVE LeaseInv
  OBVIOUS
<1>1. LeaseTypeOK
  BY MaxTokensAssumption DEF LeaseInit, LeaseTypeOK
<1>2. TokenIndexExact /\ TokensFromIssued
  BY NoneAssumption DEF LeaseInit, TokenIndexExact, TokensFromIssued
<1>3. QED
  BY <1>1, <1>2 DEF LeaseInv

\* The invariant the other theorems rest on: types, an exact token index and
\* tokens not used before lease.ts has generated them.
THEOREM LeaseInvariant == LeaseSpec => []LeaseInv
BY LeaseInitInv, LeaseInvStep, PTL DEF LeaseSpec

\* Whatever callers do, with current tokens or with old ones, the two Maps of
\* the lease manager hold the same leases.
THEOREM IndexIsExact == LeaseSpec => []TokenIndexExact
<1>1. LeaseInv => TokenIndexExact
  BY DEF LeaseInv
<1>2. QED
  BY <1>1, LeaseInvariant, PTL

\* acquire never takes a live lease from its holder.
THEOREM NoTheft == LeaseSpec => LiveLeaseNotStolen
<1> DEFINE Kept == \A u \in Users : HoldsLive(u) /\ leases'[u] # None
                     => leases'[u].token = leases[u].token
<1>1. LeaseInv /\ [LeaseNext]_leaseVars => [Kept]_leaseVars
  <2> SUFFICES ASSUME LeaseInv, LeaseNext, ~UNCHANGED leaseVars,
                      NEW u \in Users, HoldsLive(u), leases'[u] # None
               PROVE  leases'[u].token = leases[u].token
    BY DEF leaseVars
  <2>1. leases \in [Users -> Lease \cup {None}] /\ leases[u] # None
        /\ leases[u] \in Lease
    BY DEF LeaseInv, LeaseTypeOK, HoldsLive
  <2>2. ASSUME NEW v \in Users, NEW r \in Runs, Acquire(v, r)
        PROVE  leases'[u] = leases[u]
    <3>1. CanAcquire(v)
      BY <2>2 DEF Acquire
    <3>2. v # u
      BY <3>1 DEF CanAcquire
    <3>3. QED
      BY <2>1, <2>2, <3>1, <3>2 DEF Acquire
  <2>3. ASSUME NEW v \in Users, leases[v] # None, Drop(v)
        PROVE  leases'[u] = leases[u]
    BY <2>1, <2>3 DEF Drop
  <2>4. ASSUME NEW t \in 1..issued, Release(t)
        PROVE  leases'[u] = leases[u]
    BY <2>3, <2>4 DEF Release, OwnsLease, leaseVars
  <2>5. ASSUME NEW t \in 1..issued, Extend(t)
        PROVE  leases'[u].token = leases[u].token
    <3>1. PICK v \in Users, live \in BOOLEAN :
            /\ leases[v] # None
            /\ leases' = [leases EXCEPT ![v].live = live]
            /\ UNCHANGED <<tokenToUser, issued>>
      BY <2>5 DEF Extend, OwnsLease, leaseVars
    <3>2. QED
      BY <2>1, <3>1, SetLiveRelives DEF Relives
  <2>6. ASSUME NEW v \in Users, IsActive(v)
        PROVE  leases'[u] = leases[u]
    BY <2>3, <2>6 DEF IsActive
  <2>7. ASSUME CleanupExpired
        PROVE  leases'[u] = leases[u]
    BY <2>1, <2>7 DEF CleanupExpired, HoldsLive
  <2>8. ASSUME NEW v \in Users, Expire(v)
        PROVE  leases'[u].token = leases[u].token
    BY <2>1, <2>8, SetLiveRelives DEF Expire, HoldsLive, Relives
  <2>9. QED
    BY <2>2, <2>4, <2>5, <2>6, <2>7, <2>8 DEF LeaseNext
<1>2. QED
  BY <1>1, LeaseInvariant, PTL DEF LeaseSpec, LiveLeaseNotStolen

=============================================================================
