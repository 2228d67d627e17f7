------------------------------ MODULE RateLimit ------------------------------
(***************************************************************************)
(* The fixed-window counter over Redis, which the code has three times:    *)
(* httpx.RateLimitMiddleware, which fails open, redis.RateLimiter.Allow    *)
(* and redis.QuotaStore.Increment, which report the failure.  Increment    *)
(* returns the counter, and its caller compares it with the quota.         *)
(*                                                                         *)
(* The module follows one key (one client address): keys do not interact.  *)
(* A step is one Redis command or the decision.  A command may fail: it    *)
(* had no effect (Redis is down, the request was cancelled before it was   *)
(* sent) or its answer was lost.  The counter is kept up to Limit + 1, as  *)
(* the code only compares it with 1 and with Limit.                        *)
(***************************************************************************)
EXTENDS Integers, FiniteSets

CONSTANTS
    Requests,  \* the requests of the client in flight at a time
    Limit,     \* RATE_LIMIT_REQUESTS_PER_MINUTE
    Window     \* the TTL of the key, in ticks

ASSUME RateLimitConstants ==
    /\ Limit \in Nat \ {0}
    /\ Window \in Nat \ {0}

VARIABLES
    via,     \* the function that is used for this key
    count,   \* the counter; 0 when there is no key
    ttl,     \* ticks until the key expires; 0 when it has no TTL
    req,     \* the local state of each request
    passed,  \* history: requests of the window's counter that were let through
    lost     \* history: whether a command of the request that created this counter failed

vars == <<via, count, ttl, req, passed, lost>>

Functions == {"RateLimitMiddleware", "Allow", "Increment"}

\* n is the result of INCR; current says whether the counter it came from is
\* still the one in Redis.
Local == [pc : {"idle", "expire", "decide"}, n : 0..(Limit + 1), current : BOOLEAN]
Idle  == [pc |-> "idle", n |-> 0, current |-> FALSE]

Init ==
    /\ via \in Functions
    /\ count = 0
    /\ ttl = 0
    /\ req = [r \in Requests |-> Idle]
    /\ passed = 0
    /\ lost = FALSE

Saturated(n) == IF n > Limit THEN Limit + 1 ELSE n

\* The request that creates the key sets its TTL.
SetsTTLAlways(n) == TRUE
SetsTTL(n) == n = 1

Incr(r) ==
    LET n == Saturated(count + 1) IN
    /\ req[r].pc = "idle"
    /\ count' = n
    /\ req' = [req EXCEPT ![r] = [pc |-> IF SetsTTL(n) THEN "expire" ELSE "decide",
                                  n |-> n, current |-> TRUE]]
    /\ UNCHANGED <<via, ttl, passed, lost>>

\* INCR fails: the middleware lets the request through, the others answer
\* ErrUnavailable.  If only the answer was lost, the counter has moved.
IncrFails(r) ==
    /\ req[r].pc = "idle"
    /\ count' = Saturated(count + 1)
    /\ lost' = (lost \/ count = 0)
    /\ UNCHANGED <<via, ttl, req, passed>>

\* EXPIRE on a key that is still there.
Expire(r) ==
    /\ req[r].pc = "expire"
    /\ ttl' = Window
    /\ req' = [req EXCEPT ![r].pc = "decide"]
    /\ UNCHANGED <<via, count, passed, lost>>

\* EXPIRE fails: the middleware ignores the error, the others return.
ExpireFails(r) ==
    /\ req[r].pc = "expire"
    /\ ttl' \in {0, Window}
    /\ lost' = TRUE
    /\ req' = [req EXCEPT ![r] = IF via = "RateLimitMiddleware" THEN [@ EXCEPT !.pc = "decide"] ELSE Idle]
    /\ UNCHANGED <<via, count, passed>>

\* Allow also reads the TTL for its answer, and returns when that fails.
TTLFails(r) ==
    /\ via = "Allow"
    /\ req[r].pc = "decide"
    /\ req' = [req EXCEPT ![r] = Idle]
    /\ UNCHANGED <<via, count, ttl, passed, lost>>

ExceedsOffByOne(n) == n > Limit + 1
Exceeds(n) == n > Limit

LetThrough(r) ==
    /\ req[r].pc = "decide"
    /\ passed' = IF req[r].current /\ ~Exceeds(req[r].n) THEN passed + 1 ELSE passed
    /\ req' = [req EXCEPT ![r] = Idle]
    /\ UNCHANGED <<via, count, ttl, lost>>

\* The request is refused (429), or let through.
Decide(r) == via # "Increment" /\ LetThrough(r)

\* Increment returns the counter; the caller compares it with the quota.
IncrementReturns(r) == via = "Increment" /\ LetThrough(r)

\* Time passes; Redis removes the key when its TTL runs out.
Tick ==
    /\ ttl > 0
    /\ ttl' = ttl - 1
    /\ IF ttl = 1
       THEN /\ count' = 0
            /\ passed' = 0
            /\ lost' = FALSE
            /\ req' = [r \in Requests |-> [req[r] EXCEPT !.current = FALSE]]
       ELSE UNCHANGED <<count, req, passed, lost>>
    /\ UNCHANGED via

Serve(r) == Expire(r) \/ Decide(r) \/ IncrementReturns(r)

Fails(r) == IncrFails(r) \/ ExpireFails(r) \/ TTLFails(r)

Next == (\E r \in Requests : Incr(r) \/ Serve(r) \/ Fails(r)) \/ Tick

Spec == Init /\ [][Next]_vars

\* Time does not stop, and a request in flight goes on or fails.
FairSpec ==
    Spec /\ WF_vars(Tick) /\ \A r \in Requests : WF_vars(Serve(r) \/ ExpireFails(r) \/ TTLFails(r))

-----------------------------------------------------------------------------
(* Properties *)

\* Type invariant of the key and the requests.
TypeOK ==
    /\ via \in Functions
    /\ count \in 0..(Limit + 1)
    /\ ttl \in 0..Window
    /\ req \in [Requests -> Local]
    /\ passed \in 0..(Limit + 1)
    /\ lost \in BOOLEAN

\* The requests in flight that the counter in Redis will let through.
Admitted == {r \in Requests : req[r].pc # "idle" /\ req[r].current /\ ~Exceeds(req[r].n)}

\* However the requests of a client interleave and whichever EXPIREs fail, one
\* counter lets at most Limit of them through: each decides on the value its own
\* INCR returned, so that those that have passed and those that will are no more
\* than what was counted.
AtMostLimitPerWindow ==
    /\ TypeOK
    /\ IsFiniteSet(Admitted)
    /\ passed + Cardinality(Admitted) <= count
    /\ passed + Cardinality(Admitted) <= Limit

\* Every window ends, unless a command of the request that opened it failed:
\* traffic, however dense, does not push the end away, and no interleaving of
\* INCR and EXPIRE leaves a counter without a TTL.
WindowEnds == count > 0 ~> count = 0 \/ lost
=============================================================================
