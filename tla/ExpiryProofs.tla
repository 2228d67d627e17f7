---------------------------- MODULE ExpiryProofs ----------------------------
(***************************************************************************)
(* Proofs about the parts in which time passes: the fixed-window counter   *)
(* (RateLimit), for any number of requests, limit and window; the lock     *)
(* (RedisLock), for any clients and ttl; and the access tokens             *)
(* (AccessTokens), for any devices, lifetimes and clock.                   *)
(***************************************************************************)
EXTENDS RateLimit, RedisLock, AccessTokens, FiniteSetTheorems, TLAPS

-----------------------------------------------------------------------------
(* The counter *)

\* The local state of a request after it moved on or returned.
LEMMA RequestTypes ==
    /\ Idle \in Local
    /\ \A q \in Local : [q EXCEPT !.pc = "decide"] \in Local /\ [q EXCEPT !.current = FALSE] \in Local
<1>1. Idle \in Local
  <2>1. 0 \in 0..(Limit + 1)
    BY RateLimitConstants
  <2> QED
    BY <2>1 DEF Idle, Local
<1>2. ASSUME NEW q \in Local
      PROVE  [q EXCEPT !.pc = "decide"] \in Local /\ [q EXCEPT !.current = FALSE] \in Local
  BY DEF Local
<1> QED
  BY <1>1, <1>2

\* INCR counts up to one more than the limit.
LEMMA CountsOn ==
    ASSUME TypeOK
    PROVE  /\ Saturated(count + 1) \in 1..(Limit + 1)
           /\ Saturated(count + 1) <= Limit => Saturated(count + 1) = count + 1
           /\ count <= Saturated(count + 1)
BY RateLimitConstants DEF TypeOK, Saturated

\* What one request's step does to the requests that will pass.
LEMMA OthersStayAdmitted ==
    ASSUME TypeOK, NEW r \in Requests, NEW q \in Local, req' = [req EXCEPT ![r] = q]
    PROVE  /\ req' \in [Requests -> Local]
           /\ q.pc # "idle" /\ q.current /\ ~Exceeds(q.n) => Admitted' = Admitted \cup {r}
           /\ ~(q.pc # "idle" /\ q.current /\ ~Exceeds(q.n)) => Admitted' = Admitted \ {r}
<1>1. req'[r] = q /\ \A s \in Requests \ {r} : req'[s] = req[s]
  BY DEF TypeOK
<1>2. req' \in [Requests -> Local]
  BY DEF TypeOK
<1> QED
  BY <1>1, <1>2 DEF Admitted, Exceeds

\* Counting one more request that will pass, and one fewer.
LEMMA CountAdmitted ==
    ASSUME IsFiniteSet(Admitted), NEW r \in Requests
    PROVE  /\ Cardinality(Admitted) \in Nat
           /\ IsFiniteSet(Admitted \cup {r}) /\ IsFiniteSet(Admitted \ {r})
           /\ r \in Admitted => /\ Cardinality(Admitted \cup {r}) = Cardinality(Admitted)
                                /\ Cardinality(Admitted \ {r}) = Cardinality(Admitted) - 1
           /\ r \notin Admitted => /\ Cardinality(Admitted \cup {r}) = Cardinality(Admitted) + 1
                                   /\ Cardinality(Admitted \ {r}) = Cardinality(Admitted)
<1>1. Cardinality(Admitted) \in Nat
  BY FS_CardinalityType
<1>2. /\ IsFiniteSet(Admitted \cup {r})
      /\ Cardinality(Admitted \cup {r}) = IF r \in Admitted THEN Cardinality(Admitted) ELSE Cardinality(Admitted) + 1
  BY FS_AddElement
<1>3. /\ IsFiniteSet(Admitted \ {r})
      /\ Cardinality(Admitted \ {r}) = IF r \in Admitted THEN Cardinality(Admitted) - 1 ELSE Cardinality(Admitted)
  BY FS_RemoveElement
<1> QED
  BY <1>1, <1>2, <1>3

\* INCR admits at most the request whose value it returns, which is a new one.
LEMMA IncrStep == ASSUME AtMostLimitPerWindow, NEW r \in Requests, Incr(r) PROVE AtMostLimitPerWindow'
<1> USE DEF AtMostLimitPerWindow
<1>1. PICK n \in 1..(Limit + 1) : n = Saturated(count + 1) /\ (n <= Limit => n = count + 1) /\ count <= n
  BY CountsOn
<1>2. count \in Nat /\ passed \in Nat /\ Limit \in Nat /\ Cardinality(Admitted) \in Nat
  BY RateLimitConstants, FS_CardinalityType DEF TypeOK
<1>3. PICK q \in Local : /\ q.pc # "idle" /\ q.current = TRUE /\ q.n = n
                         /\ req' = [req EXCEPT ![r] = q]
  <2>1. n \in 0..(Limit + 1)
    BY <1>2
  <2>2. [pc |-> IF SetsTTL(n) THEN "expire" ELSE "decide", n |-> n, current |-> TRUE] \in Local
    BY <2>1 DEF Local
  <2> QED
    BY <1>1, <2>2 DEF Incr
<1>4. req' \in [Requests -> Local]
  BY <1>3, OthersStayAdmitted
<1>5. count' = n /\ passed' = passed /\ r \notin Admitted /\ TypeOK'
  BY <1>1, <1>4 DEF Incr, TypeOK, Admitted
<1>6. CASE n <= Limit
  <2>1. Admitted' = Admitted \cup {r}
    <3>1. ~Exceeds(q.n)
      BY <1>2, <1>3, <1>6 DEF Exceeds
    <3> QED
      BY <1>3, <3>1, OthersStayAdmitted
  <2>2. IsFiniteSet(Admitted') /\ Cardinality(Admitted') = Cardinality(Admitted) + 1
    BY <1>5, <2>1, CountAdmitted
  <2> QED
    BY <1>1, <1>2, <1>5, <1>6, <2>2
<1>7. CASE ~(n <= Limit)
  <2>1. Admitted' = Admitted \ {r}
    <3>1. Exceeds(q.n)
      BY <1>2, <1>3, <1>7 DEF Exceeds
    <3> QED
      BY <1>3, <3>1, OthersStayAdmitted
  <2>2. IsFiniteSet(Admitted') /\ Cardinality(Admitted') = Cardinality(Admitted)
    BY <1>5, <2>1, CountAdmitted
  <2> QED
    BY <1>1, <1>2, <1>5, <1>7, <2>2
<1> QED
  BY <1>6, <1>7

\* A request that goes on is admitted or not as before, and one that returns without
\* passing makes room.
LEMMA GoOnStep ==
    ASSUME AtMostLimitPerWindow, NEW r \in Requests, NEW q \in Local, req[r].pc # "idle",
           req' = [req EXCEPT ![r] = q], q = Idle \/ q = [req[r] EXCEPT !.pc = "decide"],
           ttl' \in 0..Window, lost' \in BOOLEAN, UNCHANGED <<via, count, passed>>
    PROVE  AtMostLimitPerWindow'
<1> USE DEF AtMostLimitPerWindow
<1>1. req' \in [Requests -> Local]
  BY OthersStayAdmitted
<1>2. TypeOK'
  BY <1>1 DEF TypeOK
<1>3. count \in Nat /\ passed \in Nat /\ Limit \in Nat /\ req[r] \in Local
  BY RateLimitConstants DEF TypeOK
<1>4. CASE q = Idle
  <2>1. Admitted' = Admitted \ {r}
    BY <1>4, OthersStayAdmitted DEF Idle
  <2>2. /\ IsFiniteSet(Admitted') /\ Cardinality(Admitted) \in Nat
        /\ Cardinality(Admitted') \in {Cardinality(Admitted), Cardinality(Admitted) - 1}
    BY <2>1, CountAdmitted
  <2> QED
    BY <1>2, <1>3, <2>2
<1>5. CASE q = [req[r] EXCEPT !.pc = "decide"]
  <2>1. q.pc = "decide" /\ q.current = req[r].current /\ q.n = req[r].n
    BY <1>3, <1>5 DEF Local
  <2>2. Admitted' = Admitted
    BY <2>1, OthersStayAdmitted DEF Admitted
  <2> QED
    BY <1>2, <2>2
<1> QED
  BY <1>4, <1>5

\* A request that passes was admitted.
LEMMA LetThroughStep ==
    ASSUME AtMostLimitPerWindow, NEW r \in Requests, LetThrough(r) PROVE AtMostLimitPerWindow'
<1> USE DEF AtMostLimitPerWindow
<1>1. req' = [req EXCEPT ![r] = Idle] /\ Idle \in Local /\ UNCHANGED <<via, count, ttl, lost>>
  BY RequestTypes DEF LetThrough
<1>2. req' \in [Requests -> Local] /\ Admitted' = Admitted \ {r}
  BY <1>1, OthersStayAdmitted DEF Idle
<1>3. count \in 0..(Limit + 1) /\ passed \in Nat /\ Limit \in Nat
  BY RateLimitConstants DEF TypeOK
<1>4. passed' = passed + (IF r \in Admitted THEN 1 ELSE 0)
  BY <1>3 DEF LetThrough, Admitted
<1>5. /\ IsFiniteSet(Admitted') /\ Cardinality(Admitted') \in Nat
      /\ passed' + Cardinality(Admitted') = passed + Cardinality(Admitted)
  <2>1. Cardinality(Admitted) \in Nat /\ IsFiniteSet(Admitted')
    BY <1>2, CountAdmitted
  <2>2. Cardinality(Admitted') \in Nat
    BY <2>1, FS_CardinalityType
  <2>3. Cardinality(Admitted') = Cardinality(Admitted) - (IF r \in Admitted THEN 1 ELSE 0)
    BY <1>2, <2>1, CountAdmitted
  <2> QED
    BY <1>3, <1>4, <2>1, <2>2, <2>3
<1>6. passed' \in 0..(Limit + 1)
  BY <1>3, <1>4, <1>5
<1>7. TypeOK'
  BY <1>1, <1>2, <1>6 DEF TypeOK
<1> QED
  BY <1>1, <1>5, <1>7

\* When the key expires the next counter starts from nothing.
LEMMA TickStep == ASSUME AtMostLimitPerWindow, Tick PROVE AtMostLimitPerWindow'
<1> USE DEF AtMostLimitPerWindow
<1>1. ttl' \in 0..Window /\ Limit \in Nat \ {0}
  BY RateLimitConstants DEF Tick, TypeOK
<1>2. CASE ttl = 1
  <2>1. /\ count' = 0 /\ passed' = 0 /\ lost' = FALSE /\ via' = via
        /\ req' = [r \in Requests |-> [req[r] EXCEPT !.current = FALSE]]
    BY <1>2 DEF Tick
  <2>2. \A r \in Requests : req[r] \in Local
    BY DEF TypeOK
  <2>3. req' \in [Requests -> Local]
    BY <2>1, <2>2, RequestTypes
  <2>4. TypeOK'
    <3>1. 0 \in 0..(Limit + 1)
      BY <1>1
    <3> QED
      BY <1>1, <2>1, <2>3, <3>1 DEF TypeOK
  <2>5. \A r \in Requests : req'[r].current = FALSE
    BY <2>1, <2>2 DEF Local
  <2>6. Admitted' = {}
    BY <2>5 DEF Admitted
  <2> QED
    BY <1>1, <2>1, <2>4, <2>6, FS_EmptySet
<1>3. CASE ttl # 1
  BY <1>1, <1>3 DEF Tick, TypeOK, Admitted
<1> QED
  BY <1>2, <1>3

\* The invariant is inductive: those that have passed and those that will are among
\* what was counted.
LEMMA RateLimitNext == AtMostLimitPerWindow /\ [Next]_vars => AtMostLimitPerWindow'
<1> SUFFICES ASSUME AtMostLimitPerWindow, [Next]_vars PROVE AtMostLimitPerWindow'
  OBVIOUS
<1>1. TypeOK /\ Limit \in Nat \ {0} /\ Window \in Nat \ {0} /\ \A r \in Requests : req[r] \in Local
  BY RateLimitConstants DEF AtMostLimitPerWindow, TypeOK
<1>2. CASE UNCHANGED vars
  BY <1>2 DEF vars, AtMostLimitPerWindow, TypeOK, Admitted
<1>3. ASSUME NEW r \in Requests, Expire(r) PROVE AtMostLimitPerWindow'
  <2>1. PICK q \in Local : q = [req[r] EXCEPT !.pc = "decide"]
    BY <1>1, RequestTypes
  <2> QED
    <3>1. req' = [req EXCEPT ![r] = q] /\ ttl' \in 0..Window /\ lost' \in BOOLEAN
      BY <1>1, <1>3, <2>1 DEF Expire, TypeOK
    <3> QED
      BY <1>3, <2>1, <3>1, GoOnStep DEF Expire
<1>4. ASSUME NEW r \in Requests, ExpireFails(r) PROVE AtMostLimitPerWindow'
  <2>1. PICK q \in Local : /\ q = Idle \/ q = [req[r] EXCEPT !.pc = "decide"]
                           /\ req' = [req EXCEPT ![r] = q]
    BY <1>1, <1>4, RequestTypes DEF ExpireFails
  <2> QED
    <3>1. ttl' \in 0..Window /\ lost' \in BOOLEAN
      BY <1>1, <1>4 DEF ExpireFails
    <3> QED
      BY <1>4, <2>1, <3>1, GoOnStep DEF ExpireFails
<1>5. ASSUME NEW r \in Requests, TTLFails(r) PROVE AtMostLimitPerWindow'
  BY <1>1, <1>5, GoOnStep, RequestTypes DEF TTLFails, TypeOK
<1>6. ASSUME NEW r \in Requests, IncrFails(r) PROVE AtMostLimitPerWindow'
  <2>1. Admitted' = Admitted /\ passed' = passed /\ count' = Saturated(count + 1)
    BY <1>6 DEF IncrFails, Admitted
  <2>2. TypeOK'
    BY <1>1, <1>6, <2>1, CountsOn DEF IncrFails, TypeOK
  <2>3. Cardinality(Admitted) \in Nat
    BY FS_CardinalityType DEF AtMostLimitPerWindow
  <2> QED
    BY <1>1, <2>1, <2>2, <2>3, CountsOn DEF AtMostLimitPerWindow, TypeOK
<1> QED
  BY <1>2, <1>3, <1>4, <1>5, <1>6, IncrStep, LetThroughStep, TickStep
     DEF Next, Serve, Fails, Decide, IncrementReturns

\* One counter lets at most Limit requests through, whatever number of requests the
\* client has in flight.
THEOREM LimitIsKept == Spec => []AtMostLimitPerWindow
<1>1. Init => AtMostLimitPerWindow
  <2> SUFFICES ASSUME Init PROVE AtMostLimitPerWindow
    OBVIOUS
  <2>1. TypeOK
    <3>1. 0 \in 0..(Limit + 1) /\ 0 \in 0..Window
      BY RateLimitConstants
    <3> QED
      BY <3>1, RequestTypes DEF Init, TypeOK
  <2>2. Admitted = {}
    BY DEF Init, Admitted, Idle
  <2> QED
    BY <2>1, <2>2, FS_EmptySet, RateLimitConstants DEF Init, AtMostLimitPerWindow
<1> QED
  BY <1>1, RateLimitNext, PTL DEF Spec

\* A counter without a TTL is one whose creator is about to set it, unless a command
\* of its creator failed: no interleaving of INCR, EXPIRE and the expiry leaves a
\* window open for good.
ExpiryIsComing == count > 0 /\ ttl = 0 => lost \/ \E r \in Requests : req[r].pc = "expire"

\* It holds in every reachable state: only the creator leaves "expire", with a TTL or
\* with a failure.
THEOREM CounterExpires == Spec => []ExpiryIsComing
<1>1. Init => ExpiryIsComing
  BY DEF Init, ExpiryIsComing
<1>2. ASSUME TypeOK, ExpiryIsComing, [Next]_vars PROVE ExpiryIsComing'
  <2>1. count \in Nat /\ ttl \in Nat /\ Limit \in Nat \ {0} /\ Window \in Nat \ {0}
    BY <1>2, RateLimitConstants DEF TypeOK
  <2>2. ASSUME NEW r \in Requests, req[r].pc # "expire",
               \A s \in Requests \ {r} : req'[s] = req[s],
               count' = count, ttl' = ttl, lost' = lost
        PROVE  ExpiryIsComing'
    BY <1>2, <2>2 DEF ExpiryIsComing
  <2>3. ASSUME NEW r \in Requests, Incr(r) PROVE ExpiryIsComing'
    <3>1. /\ \A s \in Requests \ {r} : req'[s] = req[s]
          /\ req'[r].pc = IF SetsTTL(Saturated(count + 1)) THEN "expire" ELSE "decide"
          /\ ttl' = ttl /\ lost' = lost /\ req[r].pc = "idle"
      BY <1>2, <2>3 DEF Incr, TypeOK
    <3>2. CASE count = 0
      BY <2>1, <3>1, <3>2 DEF Saturated, SetsTTL, ExpiryIsComing
    <3>3. CASE count > 0
      BY <1>2, <3>1, <3>3 DEF ExpiryIsComing
    <3> QED
      BY <2>1, <3>2, <3>3
  <2>4. ASSUME NEW r \in Requests, IncrFails(r) PROVE ExpiryIsComing'
    <3>1. lost' <=> lost \/ count = 0
      BY <2>4 DEF IncrFails
    <3>2. CASE count = 0
      BY <3>1, <3>2 DEF ExpiryIsComing
    <3>3. CASE count > 0
      BY <1>2, <2>4, <3>1, <3>3 DEF IncrFails, ExpiryIsComing
    <3> QED
      BY <2>1, <3>2, <3>3
  <2>5. ASSUME NEW r \in Requests, Expire(r) PROVE ExpiryIsComing'
    BY <2>1, <2>5 DEF Expire, ExpiryIsComing
  <2>6. ASSUME NEW r \in Requests, ExpireFails(r) PROVE ExpiryIsComing'
    BY <2>6 DEF ExpireFails, ExpiryIsComing
  <2>7. ASSUME NEW r \in Requests, TTLFails(r) \/ LetThrough(r) PROVE ExpiryIsComing'
    BY <1>2, <2>2, <2>7 DEF TTLFails, LetThrough, TypeOK
  <2>8. CASE Tick
    BY <1>2, <2>1, <2>8 DEF Tick, ExpiryIsComing
  <2>9. CASE UNCHANGED vars
    BY <1>2, <2>9 DEF vars, ExpiryIsComing
  <2> QED
    BY <1>2, <2>3, <2>4, <2>5, <2>6, <2>7, <2>8, <2>9
       DEF Next, Serve, Fails, Decide, IncrementReturns
<1>3. AtMostLimitPerWindow => TypeOK
  BY DEF AtMostLimitPerWindow
<1> QED
  BY <1>1, <1>2, <1>3, LimitIsKept, PTL DEF Spec

-----------------------------------------------------------------------------
(* The lock *)

USE LockConstants

\* The state of the lock that LockInit gives is in order.
LEMMA LockInitInv == LockInit => ExclusiveWithinLease
BY DEF LockInit, ExclusiveWithinLease, LockTypeOK, TokensAreOwned,
       InLease, NoToken, Token

\* Acquire finds no key, so that nobody is within its lease, and sets a new token.
LEMMA AcquireStep ==
    ASSUME ExclusiveWithinLease, NEW c \in Clients, Acquire(c)
    PROVE  ExclusiveWithinLease'
<1> USE DEF ExclusiveWithinLease, NoToken, Token, KeyTTL, KeyFree
<1>1. /\ granted \in Nat /\ MaxToken \in Nat /\ TTL \in Nat \ {0} /\ granted < MaxToken /\ key = 0
      /\ granted' = granted + 1 /\ key' = granted + 1 /\ lease' = TTL
  BY DEF Acquire, LockTypeOK
<1>2. /\ since'[c] = 0 /\ lock'[c] \in {0, granted + 1}
      /\ \A e \in Clients \ {c} : since'[e] = since[e] /\ lock'[e] = lock[e]
  BY DEF Acquire, LockTypeOK
<1>3. LockTypeOK'
  <2>1. granted + 1 \in 1..MaxToken /\ granted + 1 \in 0..MaxToken /\ 0 \in 0..TTL /\ TTL \in 0..TTL
    BY <1>1
  <2> QED
    BY <1>1, <2>1 DEF Acquire, LockTypeOK
<1>4. \A e \in Clients : ~InLease(e)
  BY <1>1 DEF InLease
<1>5. \A e \in Clients \ {c} : ~InLease(e)'
  BY <1>2, <1>4 DEF InLease
<1>6. \A e \in Clients : lock[e] \in Nat /\ lock[e] <= granted
  BY DEF LockTypeOK, TokensAreOwned
<1>7. TokensAreOwned'
  BY <1>1, <1>2, <1>6 DEF TokensAreOwned
<1> QED
  BY <1>1, <1>2, <1>3, <1>5, <1>7 DEF InLease

\* Release deletes the key only when it is the client's own, which is then nobody
\* else's, and a client that drops its lock has no lease.
LEMMA ReleaseStep ==
    ASSUME ExclusiveWithinLease, NEW c \in Clients,
           Release(c) \/ ReleaseFails(c)
    PROVE  ExclusiveWithinLease'
<1> USE DEF ExclusiveWithinLease, NoToken, Token, Deletes
<1>1. /\ lock[c] # 0 /\ lock'[c] = 0 /\ \A e \in Clients \ {c} : lock'[e] = lock[e]
      /\ since' = since /\ granted' = granted
      /\ \/ key' = key /\ lease' = lease
         \/ key = lock[c] /\ key' = 0 /\ lease' = 0
  BY DEF Release, ReleaseFails, LockTypeOK
<1>2. LockTypeOK'
  BY <1>1 DEF Release, ReleaseFails, LockTypeOK
<1>3. granted \in Nat /\ 0 <= granted
  BY DEF LockTypeOK
<1>4. TokensAreOwned'
  BY <1>1, <1>3 DEF TokensAreOwned
<1>5. ASSUME NEW e \in Clients, InLease(e)'
      PROVE  e # c /\ InLease(e) /\ key' = lock'[e] /\ lease' = TTL - since'[e]
  <2>1. e # c /\ InLease(e)
    BY <1>1, <1>5 DEF InLease
  <2>2. lock[e] # lock[c]
    BY <1>1, <2>1 DEF TokensAreOwned
  <2> QED
    BY <1>1, <2>1, <2>2
<1> QED
  BY <1>2, <1>4, <1>5

\* Redis and the clients see the same time pass: a lease that is not over is one
\* whose key has time left.
LEMMA LockTickStep ==
    ASSUME ExclusiveWithinLease, LeaseTick
    PROVE  ExclusiveWithinLease'
<1> USE DEF ExclusiveWithinLease, NoToken, Token
<1>1. /\ lock' = lock /\ granted' = granted /\ lease \in 0..TTL /\ TTL \in Nat \ {0}
      /\ lease' = (IF lease > 0 THEN lease - 1 ELSE 0) /\ key' = (IF lease = 1 THEN 0 ELSE key)
      /\ key \in Nat /\ granted \in Nat /\ key <= granted
  BY DEF LeaseTick, LockTypeOK, TokensAreOwned
<1>2. \A c \in Clients : /\ since[c] \in 0..TTL
                         /\ since'[c] = IF since[c] < TTL THEN since[c] + 1 ELSE TTL
  BY DEF LeaseTick, LockTypeOK
<1>3. LockTypeOK'
  <2>1. since' \in [Clients -> 0..TTL]
    BY <1>1, <1>2 DEF LeaseTick
  <2> QED
    BY <1>1, <2>1 DEF LockTypeOK
<1>4. TokensAreOwned'
  BY <1>1 DEF TokensAreOwned
<1>5. ASSUME NEW c \in Clients, InLease(c)'
      PROVE  InLease(c) /\ key' = lock'[c] /\ lease' = TTL - since'[c]
  <2>1. lock[c] # 0 /\ since[c] + 1 < TTL /\ since'[c] = since[c] + 1
    BY <1>1, <1>2, <1>5 DEF InLease
  <2>2. InLease(c)
    BY <1>1, <1>2, <2>1 DEF InLease
  <2>3. key = lock[c] /\ lease = TTL - since[c]
    BY <2>2
  <2> QED
    BY <1>1, <1>2, <2>1, <2>2, <2>3
<1> QED
  BY <1>3, <1>4, <1>5

\* Two clients are never within their leases at once, for any number of clients, any
\* ttl and any pattern of late releases and lost answers.
THEOREM LeaseIsExclusive == LockSpec => []ExclusiveWithinLease
<1>1. LockInit => ExclusiveWithinLease
  BY LockInitInv
<1>2. ASSUME ExclusiveWithinLease, [LockNext]_lockVars PROVE ExclusiveWithinLease'
  <2>1. CASE UNCHANGED lockVars
    BY <1>2, <2>1 DEF lockVars, ExclusiveWithinLease, LockTypeOK, TokensAreOwned, InLease
  <2> QED
    BY <1>2, <2>1, AcquireStep, ReleaseStep, LockTickStep DEF LockNext
<1> QED
  BY <1>1, <1>2, PTL DEF LockSpec

-----------------------------------------------------------------------------
(* The access tokens *)

HIDE LockConstants

\* The lifetime of an access token is positive and within that of a session.
LEMMA Lifetimes ==
    /\ AccessTokenTTL \in Nat /\ SessionTTL \in Nat /\ MaxClock \in Nat
    /\ AccessTokenTTL > 0 /\ AccessTokenTTL <= SessionTTL
<1>1. \A m, h \in Nat \ {0} : m * h \in Nat /\ m * h > 0
  OBVIOUS
<1> QED
  BY <1>1, AccessConstants DEF AccessTokenTTL

USE Lifetimes

\* What is to be shown of a step for one device.
AccessBounded(d) == EndsInTime(d) /\ access[d].exp <= session[d].expires
AccessInv == AccessTypeOK /\ \A d \in Devices : AccessBounded(d)

\* The two invariants follow, the middleware being what looks at exp.
LEMMA AccessInvSuffices == AccessInv => RevokedAccessEnds /\ SessionOutlivesAccess
<1> SUFFICES ASSUME AccessInv PROVE RevokedAccessEnds /\ SessionOutlivesAccess
  OBVIOUS
<1>1. ASSUME NEW d \in Devices, session[d].status = "revoked", AuthMiddleware(d)
      PROVE  clock < session[d].revokedAt + AccessTokenTTL
                     + (IF session[d].late = "other" THEN SessionTTL ELSE AccessTokenTTL)
  <2>1. /\ session[d].late \in {"no", "own", "other"} /\ session[d].revokedAt \in Nat
        /\ access[d].exp \in Nat /\ clock \in Nat
    BY DEF AccessInv, AccessTypeOK, Session, Claims, Time
  <2>2. access[d].exp <= session[d].revokedAt + AccessTokenTTL
          + (IF session[d].late = "other" THEN SessionTTL ELSE AccessTokenTTL)
    BY <1>1, <2>1 DEF AccessInv, AccessBounded, EndsInTime
  <2> QED
    BY <1>1, <2>1, <2>2 DEF AuthMiddleware, ValidateAccessToken
<1> QED
  BY <1>1 DEF AccessInv, AccessBounded, RevokedAccessEnds, SessionOutlivesAccess

\* At first nobody has access.
LEMMA AccessInitInv == AccessInit => AccessInv
BY DEF AccessInit, AccessInv, AccessTypeOK, AccessBounded, EndsInTime, Claims, Session, Time, NoClaims

\* A token that is generated now ends a lifetime from now.
LEMMA Generated ==
    ASSUME clock \in 0..MaxClock, NEW d \in Devices
    PROVE  /\ GenerateAccessToken(d) \in Claims
           /\ GenerateAccessToken(d).exp = clock + AccessTokenTTL
BY DEF GenerateAccessToken, Claims, Time

\* A revocation notes when it happened.
LEMMA RevokedRow ==
    ASSUME clock \in 0..MaxClock, NEW s \in Session
    PROVE  /\ Revoked(s) \in Session
           /\ Revoked(s).status = "revoked" /\ Revoked(s).revokedAt = clock
           /\ Revoked(s).late = s.late /\ Revoked(s).expires = s.expires
BY DEF Revoked, Session

\* Login: a new token and a new session.
LEMMA AccessLogin == ASSUME AccessInv, NEW d \in Devices, Login(d) PROVE AccessInv'
<1> DEFINE new == [status |-> "active", expires |-> clock + SessionTTL, revokedAt |-> 0, late |-> "no"]
<1>1. clock \in 0..MaxClock /\ clock' = clock /\ blacklist' = blacklist
  BY DEF Login, AccessInv, AccessTypeOK
<1>2. new \in Session
  BY <1>1 DEF Session, Time
<1>3. AccessTypeOK'
  BY <1>1, <1>2, Generated DEF Login, AccessInv, AccessTypeOK
<1>4. ASSUME NEW e \in Devices PROVE AccessBounded(e)'
  <2>1. CASE e = d
    <3>1. access'[e] = GenerateAccessToken(d) /\ session'[e] = new
      BY <2>1 DEF Login, AccessInv, AccessTypeOK
    <3> QED
      BY <1>1, <3>1, Generated DEF AccessBounded, EndsInTime
  <2>2. CASE e # d
    BY <1>1, <2>2 DEF Login, AccessInv, AccessTypeOK, AccessBounded, EndsInTime
  <2> QED
    BY <2>1, <2>2
<1> QED
  BY <1>3, <1>4 DEF AccessInv

\* RefreshToken: after a revocation, the session's own token lets a refresh through
\* for a lifetime of an access token; the token of somebody else, until the session
\* expires.  The new token is good for another lifetime.
LEMMA AccessRefresh ==
    ASSUME AccessInv, NEW o \in Devices, NEW d \in Devices, RefreshToken(o, d)
    PROVE  AccessInv'
<1> DEFINE s == session[d]
           late == Late(o, d)
           new == [s EXCEPT !.expires = clock + SessionTTL, !.late = late]
<1>1. clock \in 0..MaxClock /\ clock' = clock /\ blacklist' = blacklist /\ s \in Session
      /\ access[d].exp \in Nat
  BY DEF RefreshToken, AccessInv, AccessTypeOK, Claims, Time
<1>2. /\ new \in Session /\ new.status = s.status /\ new.revokedAt = s.revokedAt
      /\ new.expires = clock + SessionTTL /\ new.late = late
  <2>1. clock + SessionTTL \in Time /\ late \in {"no", "own", "other"}
    BY <1>1 DEF Time, Late
  <2> HIDE DEF late
  <2> QED
    BY <1>1, <2>1 DEF Session
<1>3. session' = [session EXCEPT ![d] = new]
  BY DEF RefreshToken
<1>4. AccessTypeOK'
  BY <1>1, <1>2, <1>3, Generated DEF RefreshToken, AccessInv, AccessTypeOK
<1>5. ASSUME s.status = "revoked"
      PROVE  /\ late = "own" => clock < s.revokedAt + AccessTokenTTL
             /\ clock <= s.revokedAt + SessionTTL
             /\ late # "no"
  <2>1. clock <= s.expires /\ s.late = "no"
    BY <1>5 DEF RefreshToken, Refreshable
  <2>2. access[d].exp <= s.revokedAt + AccessTokenTTL /\ s.expires <= s.revokedAt + SessionTTL
    BY <1>5, <2>1 DEF AccessInv, AccessBounded, EndsInTime
  <2>3. late = "own" => clock < access[d].exp
    BY DEF RefreshToken, RefreshRoute, AuthMiddleware, ValidateAccessToken, Late
  <2>4. s.expires \in Nat /\ s.revokedAt \in Nat
    BY <1>1 DEF Session, Time
  <2>5. late # "no"
    BY <1>5 DEF Late
  <2> HIDE DEF late, s
  <2> QED
    BY <1>1, <2>1, <2>2, <2>3, <2>4, <2>5
<1>6. ASSUME NEW e \in Devices PROVE AccessBounded(e)'
  <2>1. CASE e = d
    <3>1. access'[e] = GenerateAccessToken(d) /\ session'[e] = new
      BY <1>3, <2>1 DEF RefreshToken, AccessInv, AccessTypeOK
    <3>2. s.revokedAt \in Nat
      BY <1>1 DEF Session
    <3>3. s.status # "revoked" => late = "no"
      BY DEF Late
    <3> HIDE DEF new, late, s
    <3> QED
      BY <1>1, <1>2, <1>5, <3>1, <3>2, <3>3, Generated DEF AccessBounded, EndsInTime
  <2>2. CASE e # d
    BY <1>1, <1>3, <2>2 DEF RefreshToken, AccessInv, AccessTypeOK, AccessBounded, EndsInTime
  <2> QED
    BY <2>1, <2>2
<1> QED
  BY <1>4, <1>6 DEF AccessInv

\* Logout, RevokeAllSessions and ChangePassword revoke some sessions that are
\* active: no token lives longer than a lifetime from there.
LEMMA AccessRevoke ==
    ASSUME AccessInv, UNCHANGED <<access, blacklist, clock>>,
           session' \in [Devices -> Session],
           \A e \in Devices : \/ session'[e] = session[e]
                              \/ session[e].status = "active" /\ session'[e] = Revoked(session[e])
    PROVE  AccessInv'
<1>1. clock \in 0..MaxClock /\ clock' = clock /\ AccessTypeOK'
  BY DEF AccessInv, AccessTypeOK
<1>2. ASSUME NEW e \in Devices PROVE AccessBounded(e)'
  <2>1. CASE session'[e] = session[e]
    BY <2>1 DEF AccessInv, AccessBounded, EndsInTime
  <2>2. CASE session[e].status = "active" /\ session'[e] = Revoked(session[e])
    <3>1. /\ session'[e].status = "revoked" /\ session'[e].revokedAt = clock
          /\ session'[e].late = session[e].late /\ session'[e].expires = session[e].expires
      BY <1>1, <2>2, RevokedRow DEF AccessInv, AccessTypeOK
    <3>2. AccessBounded(e) /\ session[e].late = "no"
      BY <2>2 DEF AccessInv, AccessBounded, EndsInTime
    <3> QED
      BY <1>1, <3>1, <3>2 DEF AccessBounded, EndsInTime
  <2> QED
    BY <2>1, <2>2
<1> QED
  BY <1>1, <1>2 DEF AccessInv

\* The invariant is inductive.
LEMMA AccessNextInv == AccessInv /\ [AccessNext]_accessVars => AccessInv'
<1> SUFFICES ASSUME AccessInv, [AccessNext]_accessVars PROVE AccessInv'
  OBVIOUS
<1>1. clock \in 0..MaxClock /\ session \in [Devices -> Session]
  BY DEF AccessInv, AccessTypeOK
<1>2. \A e \in Devices : Revoked(session[e]) \in Session
  BY <1>1, RevokedRow
<1>3. CASE UNCHANGED accessVars
  BY <1>3 DEF accessVars, AccessInv, AccessTypeOK, AccessBounded, EndsInTime
<1>4. ASSUME NEW d \in Devices, Logout(d) PROVE AccessInv'
  BY <1>1, <1>2, <1>4, AccessRevoke DEF Logout
<1>5. ASSUME NEW d \in Devices, RevokeAllSessions(d) PROVE AccessInv'
  BY <1>1, <1>2, <1>5, AccessRevoke DEF RevokeAllSessions
<1>6. ASSUME NEW d \in Devices, ChangePassword(d) PROVE AccessInv'
  BY <1>1, <1>2, <1>6, AccessRevoke DEF ChangePassword
<1>7. CASE MinutePasses
  <2>1. ASSUME NEW d \in Devices PROVE AccessBounded(d)'
    <3>1. access[d].exp \in Nat /\ session[d].expires \in Nat
      BY DEF AccessInv, AccessTypeOK, Claims, Session, Time
    <3> QED
      BY <1>1, <1>7, <3>1 DEF MinutePasses, AccessInv, AccessBounded, EndsInTime
  <2> QED
    BY <1>1, <1>7, <2>1 DEF MinutePasses, AccessInv, AccessTypeOK
<1> QED
  BY <1>3, <1>4, <1>5, <1>6, <1>7, AccessLogin, AccessRefresh DEF AccessNext

\* It holds in every reachable state.
LEMMA AccessAlways == AccessSpec => []AccessInv
BY AccessInitInv, AccessNextInv, PTL DEF AccessSpec

\* Access outlasts the revocation of its session by less than two lifetimes of an
\* access token while the cookie travels with the session's own access tokens, and by
\* less than a lifetime of a session and one of an access token whatever clients do.
THEOREM RevocationEndsAccess == AccessSpec => []RevokedAccessEnds
BY AccessAlways, AccessInvSuffices, PTL

\* A session never expires before the access token that was given out with it.
THEOREM SessionCoversAccess == AccessSpec => []SessionOutlivesAccess
BY AccessAlways, AccessInvSuffices, PTL
=============================================================================
