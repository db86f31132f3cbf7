---------------------------- MODULE LeaseManager ----------------------------
(***************************************************************************)
(* InMemoryLeaseManager of services/lease.ts: at most one lease entry per   *)
(* user, and an index from a lease token to its user.  Time is reduced to   *)
(* the one comparison the code makes, expiresAt against now: a lease is     *)
(* live until Expire, the passing of time, ends it.  Tokens are numbered in *)
(* the order acquire generates them (timestamp + random in the code).       *)
(***************************************************************************)
EXTENDS RunStates

CONSTANT MaxTokens   \* bound: how many leases are ever granted

ASSUME MaxTokensAssumption == MaxTokens \in Nat

VARIABLES leases,       \* [Users -> Lease \cup {None}]
          tokenToUser,  \* [Tokens -> Users \cup {None}]
          issued        \* how many tokens acquire has generated so far

leaseVars == <<leases, tokenToUser, issued>>

Tokens  == 1..MaxTokens
NoToken == 0
Lease   == [runId : Runs, token : Tokens, live : BOOLEAN]

\* A missing Map entry is never mistaken for a lease.
ASSUME NoLeaseAssumption == None \notin Lease

-----------------------------------------------------------------------------
HoldsLive(u) == leases[u] # None /\ leases[u].live

\* A token's user, when the user's current lease is the one of that token.
OwnsLease(t, u) ==
  /\ t \in Tokens
  /\ tokenToUser[t] = u
  /\ leases[u] # None
  /\ leases[u].token = t

\* acquire resolves to a lease (CanAcquire) or to null.
CanAcquire(u) == ~HoldsLive(u)
NextToken     == issued + 1

\* Mutant of Acquire: the replaced token stays in the index.
AcquireKeepingToken(u, r) ==
  IF ~CanAcquire(u)
    THEN UNCHANGED leaseVars
    ELSE /\ issued < MaxTokens
         /\ issued' = NextToken
         /\ leases' = [leases EXCEPT ![u] =
                         [runId |-> r, token |-> NextToken, live |-> TRUE]]
         /\ tokenToUser' = [tokenToUser EXCEPT ![NextToken] = u]

\* A replaced lease is expired: its token leaves the index, nothing else of
\* it is kept.
Acquire(u, r) ==
  IF ~CanAcquire(u)
    THEN UNCHANGED leaseVars
    ELSE /\ issued < MaxTokens
         /\ issued' = NextToken
         /\ leases' = [leases EXCEPT ![u] =
                         [runId |-> r, token |-> NextToken, live |-> TRUE]]
         /\ tokenToUser' = [t \in Tokens |->
              IF t = NextToken THEN u
              ELSE IF leases[u] # None /\ t = leases[u].token THEN None
              ELSE tokenToUser[t]]

Drop(u) ==
  /\ tokenToUser' = [tokenToUser EXCEPT ![leases[u].token] = None]
  /\ leases' = [leases EXCEPT ![u] = None]
  /\ UNCHANGED issued

\* Mutant of Release: the holder is found without its token.
ReleaseAnyHolder(t) ==
  \/ t \in Tokens /\ \E u \in Users : leases[u] # None /\ Drop(u)
  \/ (\A u \in Users : leases[u] = None) /\ UNCHANGED leaseVars

Release(t) ==
  \/ \E u \in Users : OwnsLease(t, u) /\ Drop(u)
  \/ (\A u \in Users : ~OwnsLease(t, u)) /\ UNCHANGED leaseVars

\* extend adds to expiresAt without looking at the clock: an expired lease is
\* live again when the addition passes now.  An unknown token is rejected.
Extend(t) ==
  \/ \E u \in Users, live \in BOOLEAN :
       /\ OwnsLease(t, u)
       /\ leases[u].live => live
       /\ leases' = [leases EXCEPT ![u].live = live]
       /\ UNCHANGED <<tokenToUser, issued>>
  \/ (\A u \in Users : ~OwnsLease(t, u)) /\ UNCHANGED leaseVars

\* isActive, and getActiveRun through it, drop an expired lease they meet.
IsActive(u) ==
  IF leases[u] # None /\ ~leases[u].live
    THEN Drop(u)
    ELSE UNCHANGED leaseVars

CleanupExpired ==
  LET expired == {u \in Users : leases[u] # None /\ ~leases[u].live} IN
  /\ leases' = [u \in Users |-> IF u \in expired THEN None ELSE leases[u]]
  /\ tokenToUser' = [t \in Tokens |->
       IF \E u \in expired : leases[u].token = t THEN None ELSE tokenToUser[t]]
  /\ UNCHANGED issued

\* The clock passes expiresAt.
Expire(u) ==
  /\ HoldsLive(u)
  /\ leases' = [leases EXCEPT ![u].live = FALSE]
  /\ UNCHANGED <<tokenToUser, issued>>

-----------------------------------------------------------------------------
LeaseInit ==
  /\ leases = [u \in Users |-> None]
  /\ tokenToUser = [t \in Tokens |-> None]
  /\ issued = 0

\* Callers keep tokens after their lease is gone, so any token issued so far
\* may be released or extended at any time.
LeaseNext ==
  \/ \E u \in Users, r \in Runs : Acquire(u, r)
  \/ \E t \in 1..issued : Release(t)
  \/ \E t \in 1..issued : Extend(t)
  \/ \E u \in Users : IsActive(u)
  \/ CleanupExpired
  \/ \E u \in Users : Expire(u)

LeaseSpec == LeaseInit /\ [][LeaseNext]_leaseVars

-----------------------------------------------------------------------------
\* Type invariant of the two Maps of lease.ts.
LeaseTypeOK ==
  /\ leases \in [Users -> Lease \cup {None}]
  /\ tokenToUser \in [Tokens -> Users \cup {None}]
  /\ issued \in 0..MaxTokens

\* leases and tokenToUser hold the same leases: a lease's token leads back to
\* its user, and the index keeps no token of a lease that was replaced,
\* released or cleaned up (lease.ts:79, 107, 138, 184).
TokenIndexExact ==
  \A t \in Tokens, u \in Users :
    tokenToUser[t] = u <=> leases[u] # None /\ leases[u].token = t

\* No token is in use before acquire has generated it, so a generated token
\* is never already in the index.
TokensFromIssued ==
  \A u \in Users : leases[u] # None => leases[u].token <= issued

LeaseInv == LeaseTypeOK /\ TokenIndexExact /\ TokensFromIssued

\* A live lease is never handed to another holder: while it is live it can be
\* released, extended or expire, but acquire does not replace it.
LiveLeaseNotStolen ==
  [][\A u \in Users : HoldsLive(u) /\ leases'[u] # None
        => leases'[u].token = leases[u].token]_leaseVars

=============================================================================
