-------------------------- MODULE WorkspacesProofs --------------------------
(***************************************************************************)
(* Proofs about Workspaces, for any number of users and sandboxes.  Each of *)
(* its safety properties rests on an invariant that says what a lookup that *)
(* was answered, and a creation under way, still mean when the code goes on. *)
(***************************************************************************)
EXTENDS Workspaces, TLAPS


\* A call's sandbox was made for the call's user, and a creation that succeeded
\* has one.
CallsOwn ==
  /\ \A u \in Users : lane[u].id # None => owner[lane[u].id] = u
  /\ \A u \in Users : lane[u].at = "creating" =>
       (lane[u].answer = "none") = (lane[u].id = None)

\* Daytona's sandboxes, and those the code has heard of, were created once.
Existing ==
  /\ \A id \in alive \cup handed : owner[id] # None
  /\ \A d \in Destroyers, id \in Sandboxes :
       /\ destroying[d][id].at # "no" => owner[id] # None
       /\ destroying[d][id].at = "removed" => id \notin alive

\* What was gone stays gone, so that a lookup that finds a sandbox, or a creation,
\* does not name it.
GoneForGood == NotDeadOnArrival /\
  \A u \in Users :
    /\ lane[u].dead # None => lane[u].dead \notin alive /\ owner[lane[u].dead] # None
    /\ lane[u].answer = "found" /\ lane[u].dead # None => lane[u].id # lane[u].dead

\* What Daytona did not deny: what is missing does not exist, and under per_user
\* the strategy remembers the one sandbox of a user, or a call is creating it.
Remembered == \A u \in Users :
  /\ lane[u].at = "verifying" /\ lane[u].answer = "missing" =>
       lane[u].id \notin alive \ denied
  /\ lane[u].at = "verifying" => reusable[u] \in {None, lane[u].id}
  /\ strategy = "per_user" =>
       \A id \in alive \ denied : owner[id] = u =>
         id = IF lane[u].at = "creating" THEN lane[u].id ELSE reusable[u]

\* Under per_run nothing is remembered, and what is being handed over is new.
Unused ==
  strategy = "per_run" => \A u \in Users :
    /\ reusable[u] = None /\ lane[u].at # "verifying"
    /\ lane[u].at \in {"creating", "caching"} => lane[u].id \notin handed

\* What the other parts rest on.
Core == WorkspaceTypeOK /\ OwnWorkspace /\ CallsOwn /\ Existing

WorkspaceInv == Core /\ GoneForGood /\ Remembered /\ NothingForgotten /\ Unused

-----------------------------------------------------------------------------
(* Every step keeps every part.                                              *)

\* A destruction: where it is, and who made the call.
DestroyStates == [at : {"no", "finding", "removing", "removed"},
                  by : {"nobody", "adapter", "manager"}]

\* Owners never change, and every step takes ids from what the code was told.
LEMMA CoreStep == Core /\ [Next]_vars => Core'
<1> SUFFICES ASSUME Core, [Next]_vars
             PROVE  Core'
  OBVIOUS
<1> USE WorkspaceAssumption DEF Core, daytonaVars, mapVars, history
<1>1. ASSUME NEW u \in Users, getOrCreateWorkspace(u)
      PROVE  Core'
  BY <1>1 DEF WorkspaceTypeOK, OwnWorkspace, CallsOwn, Existing, Holds, Asking,
              getOrCreateWorkspace, shouldReuse
<1>2. ASSUME NEW u \in Users, getSandbox(u)
      PROVE  Core'
  <2>1. WorkspaceTypeOK'
    BY <1>2 DEF WorkspaceTypeOK, Asking, getSandbox, Asks
  <2>2. OwnWorkspace'
    BY <1>2 DEF WorkspaceTypeOK, OwnWorkspace, CallsOwn, Holds, getSandbox, Asks
  <2>3. CallsOwn' /\ Existing'
    BY <1>2 DEF WorkspaceTypeOK, CallsOwn, Existing, getSandbox, Asks
  <2> QED
    BY <2>1, <2>2, <2>3
<1>3. ASSUME NEW u \in Users, RunEnds(u)
      PROVE  Core'
  BY <1>3 DEF WorkspaceTypeOK, OwnWorkspace, CallsOwn, Existing, Holds, RunEnds, NoCall
<1>4. ASSUME NEW u \in Users, LookupAnswered(u)
      PROVE  Core'
  <2>1. WorkspaceTypeOK'
    BY <1>4 DEF WorkspaceTypeOK, LookupAnswered, Answers, getWorkspace, Denying, Asking
  <2>2. OwnWorkspace'
    BY <1>4 DEF WorkspaceTypeOK, OwnWorkspace, CallsOwn, Holds, LookupAnswered, Answers,
                getWorkspace, Denying, Asking
  <2>3. CallsOwn' /\ Existing'
    BY <1>4 DEF WorkspaceTypeOK, CallsOwn, Existing, LookupAnswered, Answers,
                getWorkspace, Denying, Asking
  <2> QED
    BY <2>1, <2>2, <2>3
<1>5. ASSUME NEW u \in Users, CreateAnswered(u)
      PROVE  Core'
  <2>1. ASSUME NEW id \in Sandboxes, Makes(u, id), Answers(u, "found", id),
               UNCHANGED denied
        PROVE  Core'
    <3>1. WorkspaceTypeOK'
      BY <1>5, <2>1 DEF Makes, WorkspaceTypeOK, CreateAnswered, Answers, Asking
    <3>2. OwnWorkspace' /\ Existing'
      BY <1>5, <2>1 DEF Makes, WorkspaceTypeOK, OwnWorkspace, CallsOwn, Holds, Existing,
                        CreateAnswered, Answers
    <3>3. CallsOwn'
      BY <1>5, <2>1 DEF Makes, WorkspaceTypeOK, CallsOwn, CreateAnswered, Answers
    <3> QED
      BY <3>1, <3>2, <3>3
  <2>2. ASSUME CreationFails(u), UNCHANGED <<daytonaVars, denied>>
        PROVE  Core'
    BY <1>5, <2>2 DEF CreationFails, WorkspaceTypeOK, OwnWorkspace, CallsOwn, Existing, Holds,
                      CreateAnswered, NoCall
  <2>3. ASSUME NEW id \in Sandboxes, Makes(u, id), CreationFails(u),
               denied' = denied \cup {id}
        PROVE  Core'
    BY <1>5, <2>3 DEF Makes, CreationFails, WorkspaceTypeOK, OwnWorkspace, CallsOwn, Existing, Holds,
                      CreateAnswered, NoCall
  <2> QED
    BY <1>5, <2>1, <2>2, <2>3 DEF CreateAnswered
<1>6. ASSUME NEW u \in Users, Verified(u)
      PROVE  Core'
  <2>1. ASSUME Answered(u, "verifying", "found"), Track(u, lane[u].id),
               Asks(u, "caching", lane[u].id)
        PROVE  Core'
    <3>1. WorkspaceTypeOK'
      BY <1>6, <2>1 DEF WorkspaceTypeOK, Verified, Answered, Asking, Track, Asks
    <3>2. OwnWorkspace'
      BY <1>6, <2>1 DEF WorkspaceTypeOK, OwnWorkspace, CallsOwn, Holds,
                        Verified, Answered, Track, Asks
    <3>3. CallsOwn' /\ Existing'
      BY <1>6, <2>1 DEF WorkspaceTypeOK, CallsOwn, Existing, Verified, Answered, Asks
    <3> QED
      BY <3>1, <3>2, <3>3
  <2>2. ASSUME Asks(u, "creating", None), UNCHANGED <<workspaces, reusable>>
        PROVE  Core'
    BY <1>6, <2>2 DEF WorkspaceTypeOK, OwnWorkspace, CallsOwn, Existing, Holds, Asking,
                      Verified, Asks
  <2> QED
    BY <1>6, <2>1, <2>2 DEF Verified
<1>7. ASSUME NEW u \in Users, Created(u)
      PROVE  Core'
  BY <1>7 DEF WorkspaceTypeOK, OwnWorkspace, CallsOwn, Existing, Holds, Asking, Created,
              Answered, Track, Asks
<1>8. ASSUME NEW u \in Users, Cached(u)
      PROVE  Core'
  <2>1. WorkspaceTypeOK'
    BY <1>8 DEF WorkspaceTypeOK, Asking, Cached, KeepHandle, NoCall
  <2>2. OwnWorkspace'
    BY <1>8 DEF WorkspaceTypeOK, OwnWorkspace, CallsOwn, Holds, Cached, KeepHandle,
                NoCall
  <2>3. CallsOwn' /\ Existing'
    BY <1>8 DEF WorkspaceTypeOK, CallsOwn, Existing, Cached, KeepHandle, NoCall
  <2> QED
    BY <2>1, <2>2, <2>3
<1>9. ASSUME NEW u \in Users, Fetched(u)
      PROVE  Core'
  BY <1>9 DEF WorkspaceTypeOK, OwnWorkspace, CallsOwn, Existing, Holds, Asking, Fetched,
              KeepHandle
<1>10. ASSUME NEW id \in Sandboxes, Vanish(id)
      PROVE  Core'
  BY <1>10 DEF WorkspaceTypeOK, OwnWorkspace, CallsOwn, Existing, Holds, Vanish
<1>11. ASSUME NEW d \in Destroyers, NEW id \in Sandboxes, destroyWorkspace(d, id)
      PROVE  Core'
  BY <1>11 DEF WorkspaceTypeOK, OwnWorkspace, CallsOwn, Existing, Holds,
               destroyWorkspace
<1>12. ASSUME NEW d \in Destroyers, NEW id \in Sandboxes, DestroyLooked(d, id)
      PROVE  Core'
  <2>0. /\ destroying' \in [Destroyers -> [Sandboxes -> DestroyStates]]
        /\ \A e \in Destroyers, i \in Sandboxes :
             destroying'[e][i].at # "no" =>
               /\ destroying[e][i].at # "no"
               /\ destroying'[e][i].at = "removed" => destroying[e][i].at = "removed"
    <3>1. CASE Goes(d, id, "removing")
      <4>1. [at |-> "removing", by |-> destroying[d][id].by] \in DestroyStates
        BY DEF WorkspaceTypeOK, DestroyStates
      <4>2. destroying[d][id].at = "finding"
        BY <1>12 DEF DestroyLooked
      <4>3. /\ destroying' \in [Destroyers -> [Sandboxes -> DestroyStates]]
            /\ destroying'[d][id] = [at |-> "removing", by |-> destroying[d][id].by]
            /\ \A e \in Destroyers, i \in Sandboxes :
                 e # d \/ i # id => destroying'[e][i] = destroying[e][i]
        <5> DEFINE c == [at |-> "removing", by |-> destroying[d][id].by]
        <5>1. destroying' = [destroying EXCEPT ![d][id] = c] /\ c \in DestroyStates
          BY <3>1, <4>1 DEF Goes
        <5> HIDE DEF c
        <5>2. /\ destroying' \in [Destroyers -> [Sandboxes -> DestroyStates]]
              /\ destroying'[d][id] = c
              /\ \A e \in Destroyers, i \in Sandboxes :
                   e # d \/ i # id => destroying'[e][i] = destroying[e][i]
          BY <5>1 DEF WorkspaceTypeOK, DestroyStates
        <5> QED
          BY <5>2 DEF c
      <4>4. ASSUME NEW e \in Destroyers, NEW i \in Sandboxes,
                   destroying'[e][i].at # "no"
            PROVE  /\ destroying[e][i].at # "no"
                   /\ destroying'[e][i].at = "removed" =>
                        destroying[e][i].at = "removed"
        <5>1. CASE e = d /\ i = id
          BY <4>2, <4>3, <5>1
        <5>2. CASE e # d \/ i # id
          BY <4>3, <4>4, <5>2
        <5> QED
          BY <5>1, <5>2
      <4> QED
        BY <4>3, <4>4
    <3>2. CASE destroying' = [destroying EXCEPT ![d][id] = NoDestroy]
      BY <1>12, <3>2 DEF WorkspaceTypeOK, DestroyStates, DestroyLooked, NoDestroy
    <3> QED
      BY <1>12, <3>1, <3>2 DEF DestroyLooked, DropHandle
  <2>1. WorkspaceTypeOK'
    <3>1. denied' \subseteq Sandboxes /\ sandboxes' \subseteq Sandboxes
      BY <1>12 DEF WorkspaceTypeOK, DestroyLooked, DropHandle, Denying
    <3>2. /\ workspaces' \in [Sandboxes -> Users \cup {None}]
          /\ reusable' \in [Users -> Sandboxes \cup {None}]
      BY <1>12 DEF WorkspaceTypeOK, DestroyLooked, Forget
    <3> QED
      BY <1>12, <2>0, <3>1, <3>2 DEF WorkspaceTypeOK, DestroyStates, DestroyLooked
  <2>2. OwnWorkspace' /\ CallsOwn'
    <3>1. CASE Forget(id)
      BY <1>12, <3>1 DEF WorkspaceTypeOK, OwnWorkspace, CallsOwn, Holds, DestroyLooked,
                         Forget
    <3>2. CASE UNCHANGED mapVars
      BY <1>12, <3>2 DEF WorkspaceTypeOK, OwnWorkspace, CallsOwn, Holds, DestroyLooked
    <3> QED
      BY <1>12, <3>1, <3>2 DEF DestroyLooked
  <2>3. ASSUME NEW e \in Destroyers, NEW i \in Sandboxes
        PROVE  /\ destroying'[e][i].at # "no" => owner'[i] # None
               /\ destroying'[e][i].at = "removed" => i \notin alive'
    BY <1>12, <2>0 DEF Existing, DestroyLooked
  <2>4. \A i \in alive' \cup handed' : owner'[i] # None
    BY <1>12 DEF WorkspaceTypeOK, Existing, DestroyLooked, Goes, Forget, DropHandle,
                 NoDestroy, getWorkspace, Denying
  <2> QED
    BY <2>1, <2>2, <2>3, <2>4 DEF Existing
<1>13. ASSUME NEW d \in Destroyers, NEW id \in Sandboxes, Removal(d, id)
      PROVE  Core'
  <2>1. WorkspaceTypeOK'
    <3>1. CASE Goes(d, id, "removed")
      <4>1. [at |-> "removed", by |-> destroying[d][id].by] \in DestroyStates
        BY DEF WorkspaceTypeOK, DestroyStates
      <4>2. destroying' \in [Destroyers -> [Sandboxes -> DestroyStates]]
        BY <3>1, <4>1 DEF Goes, WorkspaceTypeOK, DestroyStates
      <4> QED
        BY <1>13, <4>2 DEF WorkspaceTypeOK, DestroyStates, Removal, DropHandle
    <3>2. CASE destroying' = [destroying EXCEPT ![d][id] = NoDestroy]
      BY <1>13, <3>2 DEF WorkspaceTypeOK, Removal, DropHandle, NoDestroy
    <3> QED
      BY <1>13, <3>1, <3>2 DEF Removal, DropHandle
  <2>2. OwnWorkspace' /\ CallsOwn'
    BY <1>13 DEF WorkspaceTypeOK, OwnWorkspace, CallsOwn, Holds, Removal, DropHandle,
                 NoDestroy
  <2>3. ASSUME NEW e \in Destroyers, NEW i \in Sandboxes
        PROVE  /\ destroying'[e][i].at # "no" => owner'[i] # None
               /\ destroying'[e][i].at = "removed" => i \notin alive'
    <3>1. CASE alive' = alive \ {id} /\ Goes(d, id, "removed")
      <4>1. [at |-> "removed", by |-> destroying[d][id].by] \in DestroyStates
        BY DEF WorkspaceTypeOK, DestroyStates
      <4>2. e # d \/ i # id => destroying'[e][i] = destroying[e][i]
        BY <3>1, <4>1 DEF Goes, WorkspaceTypeOK, DestroyStates
      <4>3. owner' = owner /\ destroying[d][id].at = "removing"
        BY <1>13 DEF Removal
      <4> QED
        BY <3>1, <4>2, <4>3 DEF Existing
    <3>2. CASE alive' = alive /\ destroying' = [destroying EXCEPT ![d][id] = NoDestroy]
      BY <1>13, <3>2 DEF WorkspaceTypeOK, Existing, Removal, NoDestroy
    <3> QED
      BY <1>13, <3>1, <3>2 DEF Removal, DropHandle
  <2>4. \A i \in alive' \cup handed' : owner'[i] # None
    BY <1>13 DEF WorkspaceTypeOK, Existing, Removal, Goes, DropHandle, NoDestroy
  <2> QED
    BY <2>1, <2>2, <2>3, <2>4 DEF Existing
<1>14. ASSUME NEW d \in Destroyers, NEW id \in Sandboxes, Removed(d, id)
      PROVE  Core'
  BY <1>14 DEF WorkspaceTypeOK, OwnWorkspace, CallsOwn, Existing, Holds, Removed,
               Forget, DropHandle, NoDestroy
<1>15. ASSUME NEW d \in Destroyers, destroyAllWorkspaces(d)
      PROVE  Core'
  BY <1>15 DEF WorkspaceTypeOK, OwnWorkspace, CallsOwn, Existing, Holds,
               destroyAllWorkspaces
<1>16. CASE UNCHANGED vars
  BY <1>16 DEF WorkspaceTypeOK, OwnWorkspace, CallsOwn, Existing, Holds, vars
<1> QED
  BY <1>1, <1>2, <1>3, <1>4, <1>5, <1>6, <1>7, <1>8, <1>9, <1>10, <1>11, <1>12,
     <1>13, <1>14, <1>15, <1>16 DEF Next, DaytonaAnswers, Continues, Destruction

\* A lookup finds what is there, and a creation names what nobody had.
LEMMA GoneStep == Core /\ GoneForGood /\ [Next]_vars => GoneForGood'
<1> SUFFICES ASSUME Core, GoneForGood, [Next]_vars
             PROVE  GoneForGood'
  OBVIOUS
<1> USE WorkspaceAssumption DEF Core, GoneForGood, NotDeadOnArrival, daytonaVars,
                                mapVars, history
<1>1. ASSUME NEW v \in Users, getOrCreateWorkspace(v)
      PROVE  GoneForGood'
  BY <1>1 DEF WorkspaceTypeOK, OwnWorkspace, getOrCreateWorkspace, shouldReuse
<1>2. ASSUME NEW v \in Users, getSandbox(v)
      PROVE  GoneForGood'
  BY <1>2 DEF WorkspaceTypeOK, getSandbox, Asks
<1>3. ASSUME NEW v \in Users, RunEnds(v)
      PROVE  GoneForGood'
  BY <1>3 DEF WorkspaceTypeOK, RunEnds, NoCall
<1>4. ASSUME NEW v \in Users, LookupAnswered(v)
      PROVE  GoneForGood'
  BY <1>4 DEF WorkspaceTypeOK, LookupAnswered, Answers, getWorkspace, Denying, Asking
<1>5. ASSUME NEW v \in Users, CreateAnswered(v)
      PROVE  GoneForGood'
  <2>1. ASSUME NEW id \in Sandboxes, Makes(v, id), Answers(v, "found", id),
               UNCHANGED denied
        PROVE  GoneForGood'
    BY <1>5, <2>1 DEF Makes, WorkspaceTypeOK, CreateAnswered, Answers
  <2>2. ASSUME CreationFails(v), UNCHANGED <<daytonaVars, denied>>
        PROVE  GoneForGood'
    BY <1>5, <2>2 DEF CreationFails, WorkspaceTypeOK, NoCall
  <2>3. ASSUME NEW id \in Sandboxes, Makes(v, id), CreationFails(v),
               denied' = denied \cup {id}
        PROVE  GoneForGood'
    BY <1>5, <2>3 DEF Makes, CreationFails, WorkspaceTypeOK, NoCall
  <2> QED
    BY <1>5, <2>1, <2>2, <2>3 DEF CreateAnswered
<1>6. ASSUME NEW v \in Users, Verified(v)
      PROVE  GoneForGood'
  <2>1. ASSUME Answered(v, "verifying", "found"), Track(v, lane[v].id),
               Asks(v, "caching", lane[v].id)
        PROVE  GoneForGood'
    BY <1>6, <2>1 DEF WorkspaceTypeOK, Verified, Answered, Asks
  <2>2. ASSUME Asks(v, "creating", None), UNCHANGED <<workspaces, reusable>>
        PROVE  GoneForGood'
    BY <1>6, <2>2 DEF WorkspaceTypeOK, Verified, Answered, Asks
  <2> QED
    BY <1>6, <2>1, <2>2 DEF Verified
<1>7. ASSUME NEW v \in Users, Created(v)
      PROVE  GoneForGood'
  BY <1>7 DEF WorkspaceTypeOK, Created, Answered, Asks
<1>8. ASSUME NEW v \in Users, Cached(v)
      PROVE  GoneForGood'
  BY <1>8 DEF WorkspaceTypeOK, Cached, NoCall
<1>9. ASSUME NEW v \in Users, Fetched(v)
      PROVE  GoneForGood'
  BY <1>9 DEF WorkspaceTypeOK, Fetched
<1>10. ASSUME NEW i \in Sandboxes, Vanish(i)
      PROVE  GoneForGood'
  BY <1>10 DEF WorkspaceTypeOK, Vanish
<1>11. ASSUME NEW d \in Destroyers, NEW i \in Sandboxes, Removal(d, i)
      PROVE  GoneForGood'
  BY <1>11 DEF WorkspaceTypeOK, Removal
<1>12. CASE UNCHANGED <<daytonaVars, lane>>
  BY <1>12 DEF WorkspaceTypeOK
<1> QED
  BY <1>1, <1>2, <1>3, <1>4, <1>5, <1>6, <1>7, <1>8, <1>9, <1>10, <1>11, <1>12
     DEF Next, vars, DaytonaAnswers, Continues, Destruction, destroyWorkspace,
         DestroyLooked, Removed, destroyAllWorkspaces

\* Whatever exists is known before a call may look for it, or create another.
LEMMA RememberedStep == Core /\ Remembered /\ [Next]_vars => Remembered'
<1> SUFFICES ASSUME Core, Remembered, [Next]_vars
             PROVE  Remembered'
  OBVIOUS
<1> USE WorkspaceAssumption DEF Core, Remembered, daytonaVars, mapVars, history
<1>1. ASSUME NEW v \in Users, getOrCreateWorkspace(v)
      PROVE  Remembered'
  BY <1>1 DEF WorkspaceTypeOK, getOrCreateWorkspace, shouldReuse
<1>2. ASSUME NEW v \in Users, getSandbox(v)
      PROVE  Remembered'
  BY <1>2 DEF WorkspaceTypeOK, getSandbox, Asks
<1>3. ASSUME NEW v \in Users, RunEnds(v)
      PROVE  Remembered'
  BY <1>3 DEF WorkspaceTypeOK, RunEnds, NoCall
<1>4. ASSUME NEW v \in Users, LookupAnswered(v)
      PROVE  Remembered'
  BY <1>4 DEF WorkspaceTypeOK, LookupAnswered, Answers, getWorkspace, Denying, Asking
<1>5. ASSUME NEW v \in Users, CreateAnswered(v)
      PROVE  Remembered'
  <2>1. ASSUME NEW id \in Sandboxes, Makes(v, id), Answers(v, "found", id),
               UNCHANGED denied
        PROVE  Remembered'
    <3>1. /\ lane[v].at = "creating" /\ lane[v].id = None
          /\ UNCHANGED <<strategy, reusable>>
      BY <1>5 DEF CreateAnswered, CallsOwn
    <3>2. /\ lane'[v].at = "creating" /\ lane'[v].id = id
          /\ \A u \in Users : u # v => lane'[u] = lane[u]
      BY <2>1, <3>1 DEF Answers, WorkspaceTypeOK
    <3>3. /\ owner'[id] = v /\ alive' = alive \cup {id} /\ owner[id] = None
          /\ \A i \in Sandboxes : i # id => owner'[i] = owner[i]
      BY <2>1 DEF Makes, WorkspaceTypeOK
    <3>4. \A u \in Users : lane[u].at = "verifying" => lane[u].id # id
      BY <3>3 DEF WorkspaceTypeOK, CallsOwn
    <3>5. ASSUME NEW u \in Users, strategy = "per_user",
                 NEW i \in alive' \ denied', owner'[i] = u
          PROVE  i = IF lane'[u].at = "creating" THEN lane'[u].id ELSE reusable[u]
      <4>1. CASE i = id
        BY <3>2, <3>3, <3>5, <4>1
      <4>2. CASE i # id
        <5>1. i \in alive \ denied /\ i \in Sandboxes /\ owner[i] = u
          BY <2>1, <3>3, <3>5, <4>2 DEF WorkspaceTypeOK
        <5>2. u # v
          BY <3>1, <3>5, <5>1
        <5>3. QED
          BY <3>2, <3>5, <5>1, <5>2
      <4>3. QED
        BY <4>1, <4>2
    <3>6. \A u \in Users : lane'[u].at = "verifying" =>
            /\ lane'[u].answer = "missing" => lane'[u].id \notin alive' \ denied'
            /\ reusable[u] \in {None, lane'[u].id}
      BY <2>1, <3>2, <3>3, <3>4
    <3>7. QED
      BY <3>1, <3>5, <3>6
  <2>2. ASSUME CreationFails(v), UNCHANGED <<daytonaVars, denied>>
        PROVE  Remembered'
    BY <1>5, <2>2 DEF CreationFails, WorkspaceTypeOK, CallsOwn, Existing, CreateAnswered, NoCall
  <2>3. ASSUME NEW id \in Sandboxes, Makes(v, id), CreationFails(v),
               denied' = denied \cup {id}
        PROVE  Remembered'
    BY <1>5, <2>3 DEF Makes, CreationFails, WorkspaceTypeOK, CallsOwn, Existing, CreateAnswered, NoCall
  <2> QED
    BY <1>5, <2>1, <2>2, <2>3 DEF CreateAnswered
<1>6. ASSUME NEW v \in Users, Verified(v)
      PROVE  Remembered'
  <2>1. ASSUME Answered(v, "verifying", "found"), Track(v, lane[v].id),
               Asks(v, "caching", lane[v].id)
        PROVE  Remembered'
    BY <1>6, <2>1 DEF WorkspaceTypeOK, CallsOwn, Verified, Answered, Track, Asks
  <2>2. ASSUME Answered(v, "verifying", "missing"), Asks(v, "creating", None),
               UNCHANGED <<workspaces, reusable>>
        PROVE  Remembered'
    BY <1>6, <2>2 DEF WorkspaceTypeOK, Existing, CallsOwn, Verified, Answered, Asks
  <2> QED
    BY <1>6, <2>1, <2>2 DEF Verified
<1>7. ASSUME NEW v \in Users, Created(v)
      PROVE  Remembered'
  BY <1>7 DEF WorkspaceTypeOK, Existing, CallsOwn, Created, Answered, Track, Asks
<1>8. ASSUME NEW v \in Users, Cached(v)
      PROVE  Remembered'
  BY <1>8 DEF WorkspaceTypeOK, Cached, NoCall
<1>9. ASSUME NEW v \in Users, Fetched(v)
      PROVE  Remembered'
  BY <1>9 DEF WorkspaceTypeOK, Fetched
<1>10. ASSUME NEW i \in Sandboxes, Vanish(i)
      PROVE  Remembered'
  BY <1>10 DEF WorkspaceTypeOK, Vanish
<1>11. ASSUME NEW d \in Destroyers, NEW i \in Sandboxes, DestroyLooked(d, i)
      PROVE  Remembered'
  BY <1>11 DEF WorkspaceTypeOK, DestroyLooked, Forget, getWorkspace, Denying
<1>12. ASSUME NEW d \in Destroyers, NEW i \in Sandboxes, Removal(d, i)
      PROVE  Remembered'
  BY <1>12 DEF WorkspaceTypeOK, Removal
<1>13. ASSUME NEW d \in Destroyers, NEW i \in Sandboxes, Removed(d, i)
      PROVE  Remembered'
  BY <1>13 DEF WorkspaceTypeOK, Existing, Removed, Forget
<1>14. CASE UNCHANGED <<strategy, daytonaVars, reusable, lane, denied>>
  BY <1>14 DEF WorkspaceTypeOK
<1> QED
  BY <1>1, <1>2, <1>3, <1>4, <1>5, <1>6, <1>7, <1>8, <1>9, <1>10, <1>11, <1>12, <1>13, <1>14
     DEF Next, vars, DaytonaAnswers, Continues, Destruction, destroyWorkspace,
         destroyAllWorkspaces

\* The manager forgets only what is gone.
LEMMA KnownStep == Core /\ NothingForgotten /\ [Next]_vars => NothingForgotten'
<1> SUFFICES ASSUME Core, NothingForgotten, [Next]_vars
             PROVE  NothingForgotten'
  OBVIOUS
<1> USE WorkspaceAssumption DEF Core, NothingForgotten, daytonaVars, mapVars, history
<1>1. ASSUME NEW v \in Users, getOrCreateWorkspace(v)
      PROVE  NothingForgotten'
  BY <1>1 DEF WorkspaceTypeOK, getOrCreateWorkspace
<1>2. ASSUME NEW v \in Users, getSandbox(v)
      PROVE  NothingForgotten'
  BY <1>2 DEF WorkspaceTypeOK, getSandbox, Asks
<1>3. ASSUME NEW v \in Users, RunEnds(v)
      PROVE  NothingForgotten'
  BY <1>3 DEF WorkspaceTypeOK, RunEnds, NoCall
<1>4. ASSUME NEW v \in Users, LookupAnswered(v)
      PROVE  NothingForgotten'
  BY <1>4 DEF WorkspaceTypeOK, LookupAnswered, Answers, Denying
<1>5. ASSUME NEW v \in Users, CreateAnswered(v)
      PROVE  NothingForgotten'
  <2>1. ASSUME NEW id \in Sandboxes, Makes(v, id), Answers(v, "found", id),
               UNCHANGED denied
        PROVE  NothingForgotten'
    BY <1>5, <2>1 DEF Makes, WorkspaceTypeOK, CallsOwn, Existing, CreateAnswered, Answers
  <2>2. ASSUME CreationFails(v), UNCHANGED <<daytonaVars, denied>>
        PROVE  NothingForgotten'
    BY <1>5, <2>2 DEF CreationFails, WorkspaceTypeOK, CallsOwn, Existing, CreateAnswered, NoCall
  <2>3. ASSUME NEW id \in Sandboxes, Makes(v, id), CreationFails(v),
               denied' = denied \cup {id}
        PROVE  NothingForgotten'
    <3>1. alive' \ denied' = (alive \ denied) \ {id}
      BY <2>3 DEF Makes
    <3>2. \A i \in alive : lane[v].id # i /\ i \in Sandboxes
      BY <1>5 DEF WorkspaceTypeOK, CallsOwn, CreateAnswered
    <3>3. workspaces' = workspaces /\ \A u \in Users \ {v} : lane'[u] = lane[u]
      BY <1>5, <2>3 DEF WorkspaceTypeOK, CreateAnswered, CreationFails
    <3> QED
      BY <3>1, <3>2, <3>3
  <2> QED
    BY <1>5, <2>1, <2>2, <2>3 DEF CreateAnswered
<1>6. ASSUME NEW v \in Users, Verified(v)
      PROVE  NothingForgotten'
  <2>1. ASSUME Answered(v, "verifying", "found"), Track(v, lane[v].id),
               Asks(v, "caching", lane[v].id)
        PROVE  NothingForgotten'
    BY <1>6, <2>1 DEF WorkspaceTypeOK, Track, Verified, Answered, Asks
  <2>2. ASSUME Asks(v, "creating", None), UNCHANGED <<workspaces, reusable>>
        PROVE  NothingForgotten'
    BY <1>6, <2>2 DEF WorkspaceTypeOK, CallsOwn, Verified, Answered, Asks
  <2> QED
    BY <1>6, <2>1, <2>2 DEF Verified
<1>7. ASSUME NEW v \in Users, Created(v)
      PROVE  NothingForgotten'
  BY <1>7 DEF WorkspaceTypeOK, Created, Answered, Track, Asks
<1>8. ASSUME NEW v \in Users, Cached(v)
      PROVE  NothingForgotten'
  BY <1>8 DEF WorkspaceTypeOK, Cached, NoCall
<1>9. ASSUME NEW v \in Users, Fetched(v)
      PROVE  NothingForgotten'
  BY <1>9 DEF WorkspaceTypeOK, Fetched
<1>10. ASSUME NEW i \in Sandboxes, Vanish(i)
      PROVE  NothingForgotten'
  BY <1>10 DEF WorkspaceTypeOK, Vanish
<1>11. ASSUME NEW d \in Destroyers, NEW i \in Sandboxes, DestroyLooked(d, i)
      PROVE  NothingForgotten'
  BY <1>11 DEF WorkspaceTypeOK, DestroyLooked, Forget, getWorkspace, Denying
<1>12. ASSUME NEW d \in Destroyers, NEW i \in Sandboxes, Removal(d, i)
      PROVE  NothingForgotten'
  BY <1>12 DEF WorkspaceTypeOK, Removal
<1>13. ASSUME NEW d \in Destroyers, NEW i \in Sandboxes, Removed(d, i)
      PROVE  NothingForgotten'
  BY <1>13 DEF WorkspaceTypeOK, Existing, Removed, Forget
<1>14. CASE UNCHANGED <<strategy, alive, workspaces, lane, denied>>
  BY <1>14 DEF WorkspaceTypeOK
<1> QED
  BY <1>1, <1>2, <1>3, <1>4, <1>5, <1>6, <1>7, <1>8, <1>9, <1>10, <1>11, <1>12, <1>13, <1>14
     DEF Next, vars, DaytonaAnswers, Continues, Destruction, destroyWorkspace,
         destroyAllWorkspaces

\* Under per_run every workspace is new: two users' are never the same.
LEMMA UnusedStep == Core /\ Unused /\ [Next]_vars => Unused'
<1> SUFFICES ASSUME Core, Unused, [Next]_vars
             PROVE  Unused'
  OBVIOUS
<1> USE WorkspaceAssumption DEF Core, Unused, daytonaVars, mapVars, history
<1>1. ASSUME NEW v \in Users, getOrCreateWorkspace(v)
      PROVE  Unused'
  BY <1>1 DEF WorkspaceTypeOK, Existing, getOrCreateWorkspace, shouldReuse
<1>2. ASSUME NEW v \in Users, getSandbox(v)
      PROVE  Unused'
  BY <1>2 DEF WorkspaceTypeOK, getSandbox, Asks
<1>3. ASSUME NEW v \in Users, RunEnds(v)
      PROVE  Unused'
  BY <1>3 DEF WorkspaceTypeOK, RunEnds, NoCall
<1>4. ASSUME NEW v \in Users, LookupAnswered(v)
      PROVE  Unused'
  BY <1>4 DEF WorkspaceTypeOK, LookupAnswered, Answers
<1>5. ASSUME NEW v \in Users, CreateAnswered(v)
      PROVE  Unused'
  <2>1. ASSUME NEW id \in Sandboxes, Makes(v, id), Answers(v, "found", id)
        PROVE  Unused'
    BY <1>5, <2>1 DEF Makes, WorkspaceTypeOK, Existing, CreateAnswered, Answers
  <2>2. ASSUME CreationFails(v)
        PROVE  Unused'
    BY <1>5, <2>2 DEF CreationFails, WorkspaceTypeOK, CreateAnswered, NoCall
  <2> QED
    BY <1>5, <2>1, <2>2 DEF CreateAnswered
<1>6. ASSUME NEW v \in Users, Verified(v)
      PROVE  Unused'
  BY <1>6 DEF WorkspaceTypeOK, Verified, Answered
<1>7. ASSUME NEW v \in Users, Created(v)
      PROVE  Unused'
  BY <1>7 DEF WorkspaceTypeOK, Created, Track, Asks, Answered
<1>8. ASSUME NEW v \in Users, Cached(v)
      PROVE  Unused'
  BY <1>8 DEF WorkspaceTypeOK, CallsOwn, Cached, NoCall
<1>9. ASSUME NEW v \in Users, Fetched(v)
      PROVE  Unused'
  BY <1>9 DEF WorkspaceTypeOK, Fetched
<1>10. ASSUME NEW d \in Destroyers, NEW i \in Sandboxes, DestroyLooked(d, i)
      PROVE  Unused'
  BY <1>10 DEF WorkspaceTypeOK, DestroyLooked, Forget
<1>11. ASSUME NEW d \in Destroyers, NEW i \in Sandboxes, Removed(d, i)
      PROVE  Unused'
  BY <1>11 DEF WorkspaceTypeOK, Removed, Forget
<1>12. CASE UNCHANGED <<strategy, reusable, lane, handed>>
  BY <1>12 DEF WorkspaceTypeOK
<1> QED
  BY <1>1, <1>2, <1>3, <1>4, <1>5, <1>6, <1>7, <1>8, <1>9, <1>10, <1>11, <1>12
     DEF Next, vars, DaytonaAnswers, Continues, Destruction, Vanish, destroyWorkspace,
         Removal, destroyAllWorkspaces

-----------------------------------------------------------------------------
\* At start nothing exists and nobody asks.
LEMMA InitInv == Init => WorkspaceInv
BY WorkspaceAssumption
   DEF Init, WorkspaceInv, Core, WorkspaceTypeOK, OwnWorkspace, CallsOwn, Existing,
       Holds,
       GoneForGood, NotDeadOnArrival, Remembered, NothingForgotten, Unused, Strategies,
       NoCall, NoDestroy

\* The invariant of every behaviour: what the properties below have in common.
THEOREM WorkspaceInvariant == Spec => []WorkspaceInv
<1>1. WorkspaceInv /\ [Next]_vars => WorkspaceInv'
  BY CoreStep, GoneStep, RememberedStep, KnownStep, UnusedStep DEF WorkspaceInv
<1>2. QED
  BY InitInv, <1>1, PTL DEF Spec

\* Types, for any number of users and sandboxes.
THEOREM WorkspaceTypes == Spec => []WorkspaceTypeOK
<1>1. WorkspaceInv => WorkspaceTypeOK
  BY DEF WorkspaceInv, Core
<1>2. QED
  BY WorkspaceInvariant, <1>1, PTL

\* Daytona, the manager and the strategy agree on whose a workspace is, and a run
\* works in its own user's: whatever is created, lost or destroyed meanwhile, and
\* however lookups fail.
THEOREM OwnWorkspaces == Spec => []OwnWorkspace
<1>1. WorkspaceInv => OwnWorkspace
  BY DEF WorkspaceInv, Core
<1>2. QED
  BY WorkspaceInvariant, <1>1, PTL

\* getOrCreateWorkspace never returns a workspace that was gone when it was called.
THEOREM NeverDead == Spec => []NotDeadOnArrival
<1>1. WorkspaceInv => NotDeadOnArrival
  BY DEF WorkspaceInv, GoneForGood
<1>2. QED
  BY WorkspaceInvariant, <1>1, PTL

\* No sandbox is left running that the manager does not know of, but for those
\* Daytona denied (a failed creation that made one, a lookup that answered null):
\* whatever is destroyed, by however many calls at once, and however Daytona refuses.
THEOREM NoneForgotten == Spec => []NothingForgotten
<1>1. WorkspaceInv => NothingForgotten
  BY DEF WorkspaceInv
<1>2. QED
  BY WorkspaceInvariant, <1>1, PTL

\* Under per_user no user has two running sandboxes, but for those Daytona denied.
THEOREM OneEach == Spec => []OneLivePerUser
<1>1. WorkspaceInv => OneLivePerUser
  BY DEF WorkspaceInv, Core, WorkspaceTypeOK, Existing, Remembered, OneLivePerUser
<1>2. QED
  BY WorkspaceInvariant, <1>1, PTL

\* Under per_run no workspace is given to two runs.
THEOREM CleanForEachRun == Spec => CleanPerRun
<1> DEFINE Clean == \A u \in Users :
             strategy = "per_run" /\ lane[u].at = "caching" /\ lane'[u].at = "using"
               => lane[u].id \notin handed
<1>1. WorkspaceInv => Clean
  BY DEF WorkspaceInv, Unused
<1>2. QED
  BY WorkspaceInvariant, <1>1, PTL DEF CleanPerRun
=============================================================================
