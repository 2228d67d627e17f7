------------------------------ MODULE RedisLock ------------------------------
(***************************************************************************)
(* redis.Locker: Acquire (SET key token NX PX ttl) and Release (a script   *)
(* that deletes the key if it still holds the caller's token).             *)
(*                                                                         *)
(* The module follows one key.  The answer of a command may be lost: it    *)
(* then took effect and the caller saw ErrUnavailable.  The repository has *)
(* no caller; a client here releases what it acquired once.                *)
(***************************************************************************)
EXTENDS Naturals

CONSTANTS
    Clients,
    TTL,       \* the ttl passed to Acquire, in ticks
    MaxToken   \* bound: calls of Acquire that set the key

ASSUME LockConstants == TTL \in Nat \ {0} /\ MaxToken \in Nat

VARIABLES
    key,      \* the token in Redis; NoToken when there is no key
    lease,    \* ticks until the key expires; 0 when it does not
    lock,     \* the token of the *Lock each client has; NoToken without one
    since,    \* ticks since the client's key was set, up to TTL
    granted   \* tokens set in Redis so far (uuid.NewString never repeats)

lockVars == <<key, lease, lock, since, granted>>

NoToken == 0
Token   == 1..MaxToken

LockInit ==
    /\ key = NoToken
    /\ lease = 0
    /\ lock = [c \in Clients |-> NoToken]
    /\ since = [c \in Clients |-> 0]
    /\ granted = 0

\* SETNX: an existing key is left alone.
KeyFreeIgnored == TRUE
KeyFree == key = NoToken

\* The expiry that SETNX sets together with the value.
KeyTTL == TTL

Acquire(c) ==
    /\ lock[c] = NoToken
    /\ KeyFree
    /\ granted < MaxToken
    /\ granted' = granted + 1
    /\ key' = granted + 1
    /\ lease' = KeyTTL
    /\ since' = [since EXCEPT ![c] = 0]
    /\ lock' \in {[lock EXCEPT ![c] = granted + 1], lock}

\* releaseLockScript: GET and DEL in one step of Redis.
DeletesBlindly(token) == key # NoToken
Deletes(token) == key = token

\* The caller drops its *Lock whether the answer is nil, ErrLockNotHeld or lost.
Release(c) ==
    /\ lock[c] # NoToken
    /\ IF Deletes(lock[c])
       THEN key' = NoToken /\ lease' = 0
       ELSE UNCHANGED <<key, lease>>
    /\ lock' = [lock EXCEPT ![c] = NoToken]
    /\ UNCHANGED <<since, granted>>

\* Release fails before the script runs: the key stays until its TTL is over.
ReleaseFails(c) ==
    /\ lock[c] # NoToken
    /\ lock' = [lock EXCEPT ![c] = NoToken]
    /\ UNCHANGED <<key, lease, since, granted>>

\* Time passes for Redis and for the clients alike.
LeaseTick ==
    /\ lease' = IF lease > 0 THEN lease - 1 ELSE 0
    /\ key' = IF lease = 1 THEN NoToken ELSE key
    /\ since' = [c \in Clients |-> IF since[c] < TTL THEN since[c] + 1 ELSE TTL]
    /\ UNCHANGED <<lock, granted>>

LockNext == (\E c \in Clients : Acquire(c) \/ Release(c) \/ ReleaseFails(c)) \/ LeaseTick

LockSpec == LockInit /\ [][LockNext]_lockVars

-----------------------------------------------------------------------------
(* Properties *)

\* Type invariant of the key and the locks.
LockTypeOK ==
    /\ key \in Token \cup {NoToken}
    /\ lease \in 0..TTL
    /\ lock \in [Clients -> Token \cup {NoToken}]
    /\ since \in [Clients -> 0..TTL]
    /\ granted \in 0..MaxToken

\* A holder is within its lease until ttl has passed since Acquire.
InLease(c) == lock[c] # NoToken /\ since[c] < TTL

\* Every token has one owner: the key and the locks hold tokens that were set, no
\* two clients have the same one, and the key is there as long as it has a TTL.
TokensAreOwned ==
    /\ key <= granted /\ \A c \in Clients : lock[c] <= granted
    /\ \A c, e \in Clients : lock[c] # NoToken /\ lock[c] = lock[e] => c = e
    /\ key # NoToken <=> lease > 0

\* Two clients are never within their leases at once, although a holder that
\* overruns its lease may release late: the script leaves its successor's key, so
\* that a client within its lease still finds its own token, for as long as the
\* key has left to live.
ExclusiveWithinLease ==
    /\ LockTypeOK
    /\ TokensAreOwned
    /\ \A c, e \in Clients : InLease(c) /\ InLease(e) => c = e
    /\ \A c \in Clients : InLease(c) => key = lock[c] /\ lease = TTL - since[c]
=============================================================================
