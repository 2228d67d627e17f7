---------------------------- MODULE AuthSessions ----------------------------
(***************************************************************************)
(* Login sessions of the identity module: AuthService and ProfileService   *)
(* over the user_sessions and user_devices tables (PostgreSQL) and the     *)
(* session cache (Redis).                                                  *)
(*                                                                         *)
(* A step is one statement or transaction against PostgreSQL, or one       *)
(* command to Redis: between two of them any other request may run.  The   *)
(* local variables of a request that is part way through its method are    *)
(* req[r].  A method that returns an error before it has written anything  *)
(* is the absence of a step.                                               *)
(*                                                                         *)
(* A device row belongs to one user (UNIQUE(user_id, fingerprint_hash)),   *)
(* and user_sessions has UNIQUE(user_id, device_id), so a session row is   *)
(* identified by its device.                                               *)
(***************************************************************************)
EXTENDS Integers, FiniteSets

CONSTANTS
    Users,
    Devices,
    Owner,             \* Owner[d] is the user_id of device row d
    Requests,          \* the requests in flight at a time
    MaxDevicesPerUser, \* DevicePolicy.MaxDevicesPerUser
    TTL,               \* DevicePolicy.MaxSessionTTL, in ticks of the clock
    MaxToken,          \* bound: refresh tokens generated
    MaxPassword,       \* bound: password changes per user
    MaxClock,          \* bound: ticks of the clock
    None

ASSUME SessionConstants ==
    /\ Owner \in [Devices -> Users]
    /\ None \notin Devices \cup Users
    /\ TTL \in Nat \ {0}
    /\ MaxToken \in Nat
    /\ MaxPassword \in Nat
    /\ MaxClock \in Nat
    /\ MaxDevicesPerUser \in Nat

VARIABLES
    sessions,    \* user_sessions
    devices,     \* user_devices: whether a row exists and whether it is revoked
    cred,        \* user_credentials: the version of the stored password
    cache,       \* Redis: what GetSession(hash) finds
    resetTokens, \* Redis: the password-reset tokens a user may still spend
    req,         \* the local state of each request
    stores,      \* the goroutines of RefreshToken that will call StoreSession
    tokens,      \* how many refresh tokens have been generated
    issued,      \* the refresh tokens handed to a client
    clock,
    rotations,   \* history: <<old, new>> for every rotation that committed
    late,        \* history: rotations of a device's session since its revocation
    vouch        \* history: the password version a session was opened with

dbVars    == <<sessions, devices, cred>>
redisVars == <<cache, resetTokens>>
history   == <<rotations, late, vouch>>
vars      == <<dbVars, redisVars, req, stores, tokens, issued, clock, history>>

NoToken == 0
Token   == 1..MaxToken
Time    == 0..(MaxClock + TTL)

Row    == [hash : Token \cup {NoToken}, status : {"none", "active", "revoked"},
           revoked : BOOLEAN, expires : Time]
Copy   == [device : Devices \cup {None}, status : {"none", "active", "revoked"},
           revoked : BOOLEAN, expires : Time]
NoRow  == [hash |-> NoToken, status |-> "none", revoked |-> FALSE, expires |-> 0]
NoCopy == [device |-> None, status |-> "none", revoked |-> FALSE, expires |-> 0]

PC == {"idle",
       "login_device", "login_old", "login_evict", "login_upsert", "login_store",
       "refresh_db", "refresh_rotate", "refresh_evict",
       "change_list", "change_commit", "change_evict",
       "reset_list", "reset_commit", "reset_evict"}

Local == [pc : PC, user : Users \cup {None}, dev : Devices \cup {None},
          old : Token \cup {NoToken}, new : Token \cup {NoToken}, copy : Copy,
          pw : 0..MaxPassword, now : 0..MaxClock, hashes : SUBSET Token]
Idle  == [pc |-> "idle", user |-> None, dev |-> None, old |-> NoToken,
          new |-> NoToken, copy |-> NoCopy, pw |-> 0, now |-> 0, hashes |-> {}]

Init ==
    /\ sessions = [d \in Devices |-> NoRow]
    /\ devices = [d \in Devices |-> "none"]
    /\ cred = [u \in Users |-> 0]
    /\ cache = [t \in Token |-> NoCopy]
    /\ resetTokens = [u \in Users |-> 0]
    /\ req = [r \in Requests |-> Idle]
    /\ stores = {}
    /\ tokens = 0
    /\ issued = {}
    /\ clock = 0
    /\ rotations = {}
    /\ late = [d \in Devices |-> 0]
    /\ vouch = [d \in Devices |-> 0]

-----------------------------------------------------------------------------
(* The tables and the cache *)

HasRow(d) == sessions[d].hash # NoToken

\* revoked_at IS NULL AND expires_at > now
ActiveRow(d) == HasRow(d) /\ ~sessions[d].revoked /\ sessions[d].expires > clock

\* An entity.Session read from, or about to be written to, row d.
CopyOf(d, row) == [device |-> d, status |-> row.status,
                   revoked |-> row.revoked, expires |-> row.expires]

ListActiveByUserID(u) == {d \in Devices : Owner[d] = u /\ ActiveRow(d)}

RevokeAllByUserID(u) ==
    [d \in Devices |-> IF d \in ListActiveByUserID(u)
                       THEN [sessions[d] EXCEPT !.revoked = TRUE]
                       ELSE sessions[d]]

RevokeRow(row) == [row EXCEPT !.revoked = TRUE, !.status = "revoked"]

RevokeOnly(u, current) ==
    [sessions EXCEPT ![current] = RevokeRow(@)]
RevokeAllExcept(u, current) ==
    [d \in Devices |-> IF /\ Owner[d] = u /\ d # current
                          /\ ~sessions[d].revoked /\ sessions[d].status = "active"
                       THEN RevokeRow(sessions[d])
                       ELSE sessions[d]]

\* A successful DEL of the keys of these hashes.
Evicted(hashes) == [t \in Token |-> IF t \in hashes THEN NoCopy ELSE cache[t]]

\* DEL whose error is only logged: the entries may survive.
TryEvict(hashes) == cache' \in {Evicted(hashes), cache}

Goto(r, pc) == req' = [req EXCEPT ![r].pc = pc]
Return(r)   == req' = [req EXCEPT ![r] = Idle]

-----------------------------------------------------------------------------
(* AuthService.Login *)

GetByUserID(u) == cred[u]

\* GetByEmail, GetByUserID and VerifyPassword with the password now stored.
LoginVerify(r, d) ==
    /\ req[r].pc = "idle"
    /\ req' = [req EXCEPT ![r] = [Idle EXCEPT !.pc = "login_device", !.dev = d,
                                              !.pw = GetByUserID(Owner[d])]]
    /\ UNCHANGED <<dbVars, redisVars, stores, tokens, issued, clock, history>>

ActiveDevices(u) == {d \in Devices : Owner[d] = u /\ devices[d] = "active"}

\* GetByFingerprint answers pgx.ErrNoRows with an empty, non-nil Device.
GetByFingerprint(d) == IF devices[d] = "none" THEN "empty" ELSE devices[d]

CanRegisterNewDevice(u) == Cardinality(ActiveDevices(u)) < MaxDevicesPerUser

\* ON CONFLICT ... DO UPDATE SET revoked_at = NULL
UpsertDevice(d) == [devices EXCEPT ![d] = "active"]

LoginDevice(r) ==
    LET d == req[r].dev IN
    /\ req[r].pc = "login_device"
    /\ GetByFingerprint(d) = "nil" => CanRegisterNewDevice(Owner[d])
    /\ devices' = UpsertDevice(d)
    /\ req' = [req EXCEPT ![r].pc = "login_old", ![r].now = clock]
    /\ UNCHANGED <<sessions, cred, redisVars, stores, tokens, issued, clock, history>>

\* GetByDeviceID: the session of this device that is not revoked, if any.
LoginOldSession(r) ==
    LET d == req[r].dev IN
    /\ req[r].pc = "login_old"
    /\ IF HasRow(d) /\ ~sessions[d].revoked
       THEN req' = [req EXCEPT ![r].pc = "login_evict", ![r].old = sessions[d].hash]
       ELSE Goto(r, "login_upsert")
    /\ UNCHANGED <<dbVars, redisVars, stores, tokens, issued, clock, history>>

LoginEvict(r) ==
    /\ req[r].pc = "login_evict"
    /\ TryEvict({req[r].old})
    /\ Goto(r, "login_upsert")
    /\ UNCHANGED <<dbVars, resetTokens, stores, tokens, issued, clock, history>>

\* The row after INSERT ... ON CONFLICT (user_id, device_id) DO UPDATE.
UpsertedSession(new, now) ==
    [hash |-> new, status |-> "active", revoked |-> FALSE, expires |-> now + TTL]

\* GenerateRefreshToken (a fresh uuid) and the upsert of the row.
LoginUpsert(r) ==
    LET d   == req[r].dev
        new == tokens + 1
    IN
    /\ req[r].pc = "login_upsert"
    /\ tokens < MaxToken
    /\ tokens' = new
    /\ sessions' = [sessions EXCEPT ![d] = UpsertedSession(new, req[r].now)]
    /\ req' = [req EXCEPT ![r].pc = "login_store", ![r].new = new]
    /\ late' = [late EXCEPT ![d] = 0]
    /\ vouch' = [vouch EXCEPT ![d] = req[r].pw]
    /\ UNCHANGED <<devices, cred, redisVars, stores, issued, clock, rotations>>

\* The entity.Session that Login has in memory.
LoginCopy(q) == [device |-> q.dev, status |-> "active", revoked |-> FALSE,
                 expires |-> q.now + TTL]

\* StoreSession, whose error is only logged, and the answer to the client.
LoginStore(r) ==
    LET new == req[r].new IN
    /\ req[r].pc = "login_store"
    /\ cache' \in {[cache EXCEPT ![new] = LoginCopy(req[r])], cache}
    /\ issued' = issued \cup {new}
    /\ Return(r)
    /\ UNCHANGED <<dbVars, resetTokens, stores, tokens, clock, history>>

-----------------------------------------------------------------------------
(* AuthService.RefreshToken *)

\* The checks of IsRevoked, SessionStatus and IsExpired on the copy at hand.
ValidatedIgnoringExpiry(copy, now) == ~copy.revoked /\ copy.status = "active"
Validated(copy, now) ==
    /\ ~copy.revoked
    /\ copy.status = "active"
    /\ ~(now > copy.expires)

GetSession(t) == cache[t]

\* GetSession: a hit is validated at once; a miss or an error goes to the table.
RefreshLookup(r, t) ==
    LET begun == [Idle EXCEPT !.old = t, !.now = clock] IN
    /\ req[r].pc = "idle"
    /\ t \in issued
    /\ \/ /\ GetSession(t) # NoCopy
          /\ Validated(GetSession(t), clock)
          /\ req' = [req EXCEPT ![r] = [begun EXCEPT !.pc = "refresh_rotate",
                                                     !.copy = GetSession(t)]]
       \/ req' = [req EXCEPT ![r] = [begun EXCEPT !.pc = "refresh_db"]]
    /\ UNCHANGED <<dbVars, redisVars, stores, tokens, issued, clock, history>>

\* GetByRefreshTokenHash, then the same checks.
RefreshLookupDB(r) ==
    LET now == req[r].now IN
    /\ req[r].pc = "refresh_db"
    /\ \/ \E d \in Devices :
             /\ sessions[d].hash = req[r].old
             /\ Validated(CopyOf(d, sessions[d]), now)
             /\ req' = [req EXCEPT ![r].pc = "refresh_rotate",
                                   ![r].copy = CopyOf(d, sessions[d])]
       \/ /\ \A d \in Devices :
                sessions[d].hash = req[r].old => ~Validated(CopyOf(d, sessions[d]), now)
          /\ Return(r)
    /\ UNCHANGED <<dbVars, redisVars, stores, tokens, issued, clock, history>>

\* What the UPDATE of the rotation leaves in a row: revoked_at and
\* session_status are not among its columns.
RotatedReactivating(row, new, now) ==
    [row EXCEPT !.hash = new, !.expires = now + TTL, !.revoked = FALSE, !.status = "active"]
Rotated(row, new, now) == [row EXCEPT !.hash = new, !.expires = now + TTL]

\* GetByRefreshTokenHashForUpdate finds row d for request r.
LockedById(r, d) == req[r].copy.device = d
LockedRow(r, d) == sessions[d].hash = req[r].old

\* The session that goes to Redis after the rotation is the one read and
\* rotated inside the transaction.
SyncedBeforeRotate(d, new, now) == CopyOf(d, sessions[d])
SyncedAsFresh(d, new, now) ==
    [CopyOf(d, Rotated(sessions[d], new, now)) EXCEPT !.status = "active", !.revoked = FALSE]
SyncedCopy(d, new, now) == CopyOf(d, Rotated(sessions[d], new, now))

\* The transaction: SELECT ... FOR UPDATE by the presented hash, Rotate, Update.
RefreshRotate(r) ==
    LET new == tokens + 1
        now == req[r].now
    IN
    /\ req[r].pc = "refresh_rotate"
    /\ \/ \E d \in Devices :
             /\ LockedRow(r, d)
             /\ tokens < MaxToken
             /\ tokens' = new
             /\ sessions' = [sessions EXCEPT ![d] = Rotated(@, new, now)]
             /\ req' = [req EXCEPT ![r].pc = "refresh_evict", ![r].new = new,
                                   ![r].copy = SyncedCopy(d, new, now)]
             /\ rotations' = rotations \cup {<<req[r].old, new>>}
             /\ late' = [late EXCEPT ![d] = IF sessions[d].revoked THEN @ + 1 ELSE @]
       \/ /\ \A d \in Devices : ~LockedRow(r, d)
          /\ Return(r)
          /\ UNCHANGED <<sessions, tokens, rotations, late>>
    /\ UNCHANGED <<devices, cred, redisVars, stores, issued, clock, vouch>>

\* DeleteSession(oldHash), whose error is only logged; the goroutine starts and
\* the client has its new token.
RefreshEvict(r) ==
    /\ req[r].pc = "refresh_evict"
    /\ TryEvict({req[r].old})
    /\ stores' = stores \cup {[hash |-> req[r].new, copy |-> req[r].copy]}
    /\ issued' = issued \cup {req[r].new}
    /\ Return(r)
    /\ UNCHANGED <<dbVars, resetTokens, tokens, clock, history>>

\* The goroutine: StoreSession succeeds, or fails (or the process dies).
BackgroundStore(s) ==
    /\ cache' \in {[cache EXCEPT ![s.hash] = s.copy], cache}
    /\ stores' = stores \ {s}
    /\ UNCHANGED <<dbVars, resetTokens, req, tokens, issued, clock, history>>

-----------------------------------------------------------------------------
(* Revocation *)

\* AuthService.Logout: one UPDATE; the cache is not touched.
Logout(d) ==
    /\ sessions[d].status = "active"
    /\ ~sessions[d].revoked
    /\ sessions' = [sessions EXCEPT ![d] = RevokeRow(@)]
    /\ UNCHANGED <<devices, cred, redisVars, req, stores, tokens, issued, clock, history>>

\* ProfileService.RevokeAllSessions
RevokeAllSessions(u) ==
    /\ sessions' = RevokeAllByUserID(u)
    /\ UNCHANGED <<devices, cred, redisVars, req, stores, tokens, issued, clock, history>>

\* UPDATE user_devices SET revoked_at = COALESCE(revoked_at, now)
RevokedDevices(d) == [devices EXCEPT ![d] = "revoked"]

\* ProfileService.RevokeDevice: device and sessions in one transaction.
RevokeDevice(d) ==
    /\ devices[d] # "none"
    /\ devices' = RevokedDevices(d)
    /\ sessions' = RevokeAllByUserID(Owner[d])
    /\ UNCHANGED <<cred, redisVars, req, stores, tokens, issued, clock, history>>

-----------------------------------------------------------------------------
(* AuthService.ChangePassword, called from session row d *)

ChangeVerify(r, d) ==
    /\ req[r].pc = "idle"
    /\ HasRow(d)
    /\ cred[Owner[d]] < MaxPassword
    /\ req' = [req EXCEPT ![r] = [Idle EXCEPT !.pc = "change_list", !.dev = d,
                                              !.user = Owner[d]]]
    /\ UNCHANGED <<dbVars, redisVars, stores, tokens, issued, clock, history>>

UpdatePasswordHash(u) == [cred EXCEPT ![u] = @ + 1]

Hashes(ds) == {sessions[d].hash : d \in ds}

ChangeList(r) ==
    /\ req[r].pc = "change_list"
    /\ req' = [req EXCEPT ![r].pc = "change_commit",
                          ![r].hashes = Hashes(ListActiveByUserID(req[r].user) \ {req[r].dev})]
    /\ UNCHANGED <<dbVars, redisVars, stores, tokens, issued, clock, history>>

\* The transaction: UpdatePasswordHash and RevokeAllExcept.
ChangeCommit(r) ==
    LET u == req[r].user
        d == req[r].dev
    IN
    /\ req[r].pc = "change_commit"
    /\ cred[u] < MaxPassword
    /\ cred' = UpdatePasswordHash(u)
    /\ sessions' = RevokeAllExcept(u, d)
    /\ vouch' = [vouch EXCEPT ![d] = cred[u] + 1]
    /\ Goto(r, "change_evict")
    /\ UNCHANGED <<devices, redisVars, stores, tokens, issued, clock, rotations, late>>

\* DeleteSessions of the hashes listed before the transaction; errors are logged.
ChangeEvict(r) ==
    /\ req[r].pc = "change_evict"
    /\ TryEvict(req[r].hashes)
    /\ Return(r)
    /\ UNCHANGED <<dbVars, resetTokens, stores, tokens, issued, clock, history>>

-----------------------------------------------------------------------------
(* AuthService.ForgotPassword and ResetPassword *)

StorePasswordResetToken(u) == [resetTokens EXCEPT ![u] = @ + 1]

\* The bound keeps one token per password change.
ForgotPassword(u) ==
    /\ resetTokens[u] + cred[u] < MaxPassword
    /\ resetTokens' = StorePasswordResetToken(u)
    /\ UNCHANGED <<dbVars, cache, req, stores, tokens, issued, clock, history>>

\* GETDEL: a token is spent by the request that reads it.
ParsePasswordResetToken(u) ==
    /\ resetTokens[u] > 0
    /\ resetTokens' = [resetTokens EXCEPT ![u] = @ - 1]

ResetConsume(r, u) ==
    /\ req[r].pc = "idle"
    /\ ParsePasswordResetToken(u)
    /\ req' = [req EXCEPT ![r] = [Idle EXCEPT !.pc = "reset_list", !.user = u]]
    /\ UNCHANGED <<dbVars, cache, stores, tokens, issued, clock, history>>

ResetList(r) ==
    /\ req[r].pc = "reset_list"
    /\ req' = [req EXCEPT ![r].pc = "reset_commit",
                          ![r].hashes = Hashes(ListActiveByUserID(req[r].user))]
    /\ UNCHANGED <<dbVars, redisVars, stores, tokens, issued, clock, history>>

\* The transaction: UpdatePasswordHash and RevokeAllByUserID (the outbox row it
\* also inserts is not read here).
ResetCommit(r) ==
    LET u == req[r].user IN
    /\ req[r].pc = "reset_commit"
    /\ cred[u] < MaxPassword
    /\ cred' = UpdatePasswordHash(u)
    /\ sessions' = RevokeAllByUserID(u)
    /\ Goto(r, "reset_evict")
    /\ UNCHANGED <<devices, redisVars, stores, tokens, issued, clock, history>>

ResetEvict(r) ==
    /\ req[r].pc = "reset_evict"
    /\ TryEvict(req[r].hashes)
    /\ Return(r)
    /\ UNCHANGED <<dbVars, resetTokens, stores, tokens, issued, clock, history>>

-----------------------------------------------------------------------------
(* Environment *)

\* A database error, a cancelled context or a crash ends the request where it is.
Abort(r) ==
    /\ req[r].pc # "idle"
    /\ Return(r)
    /\ UNCHANGED <<dbVars, redisVars, stores, tokens, issued, clock, history>>

\* A key's TTL runs out, or Redis evicts it or restarts without it.
CacheDrop(t) ==
    /\ cache[t] # NoCopy
    /\ cache' = Evicted({t})
    /\ UNCHANGED <<dbVars, resetTokens, req, stores, tokens, issued, clock, history>>

ResetTokenDrop(u) ==
    /\ resetTokens[u] > 0
    /\ resetTokens' = [resetTokens EXCEPT ![u] = @ - 1]
    /\ UNCHANGED <<dbVars, cache, req, stores, tokens, issued, clock, history>>

Tick ==
    /\ clock < MaxClock
    /\ clock' = clock + 1
    /\ UNCHANGED <<dbVars, redisVars, req, stores, tokens, issued, history>>

Login(r)   == \/ \E d \in Devices : LoginVerify(r, d)
              \/ LoginDevice(r) \/ LoginOldSession(r) \/ LoginEvict(r)
              \/ LoginUpsert(r) \/ LoginStore(r)
Refresh(r) == \/ \E t \in Token : RefreshLookup(r, t)
              \/ RefreshLookupDB(r) \/ RefreshRotate(r) \/ RefreshEvict(r)
Change(r)  == \/ \E d \in Devices : ChangeVerify(r, d)
              \/ ChangeList(r) \/ ChangeCommit(r) \/ ChangeEvict(r)
Reset(r)   == \/ \E u \in Users : ResetConsume(r, u)
              \/ ResetList(r) \/ ResetCommit(r) \/ ResetEvict(r)

Next ==
    \/ \E r \in Requests : Login(r) \/ Refresh(r) \/ Change(r) \/ Reset(r) \/ Abort(r)
    \/ \E s \in stores : BackgroundStore(s)
    \/ \E d \in Devices : Logout(d) \/ RevokeDevice(d)
    \/ \E u \in Users : RevokeAllSessions(u) \/ ForgotPassword(u) \/ ResetTokenDrop(u)
    \/ \E t \in Token : CacheDrop(t)
    \/ Tick

Spec == Init /\ [][Next]_vars

-----------------------------------------------------------------------------
(* Properties *)

\* Type invariant of the tables, the cache and the requests in flight.
TypeOK ==
    /\ sessions \in [Devices -> Row]
    /\ devices \in [Devices -> {"none", "active", "revoked"}]
    /\ cred \in [Users -> 0..MaxPassword]
    /\ cache \in [Token -> Copy]
    /\ resetTokens \in [Users -> 0..MaxPassword]
    /\ req \in [Requests -> Local]
    /\ stores \in SUBSET [hash : Token, copy : Copy]
    /\ tokens \in 0..MaxToken
    /\ issued \in SUBSET Token
    /\ clock \in 0..MaxClock
    /\ rotations \in SUBSET (Token \X Token)
    /\ late \in [Devices -> Nat]
    /\ vouch \in [Devices -> 0..MaxPassword]

\* A refresh token is exchanged at most once, however many requests present it
\* and however stale the cache is: the FOR UPDATE lookup by hash in
\* RefreshToken decides, not the copy that was validated.
SingleRotation ==
    \A p, q \in rotations : p[1] = q[1] => p = q

\* No two session rows carry the same refresh token, and a token that has been
\* exchanged is on no row: UNIQUE(refresh_token_hash) is never the statement
\* that fails a login or a refresh.
TokensNotShared ==
    /\ \A d, e \in Devices : HasRow(d) /\ sessions[d].hash = sessions[e].hash => d = e
    /\ \A p \in rotations, d \in Devices : sessions[d].hash # p[1]

\* The cache may keep a revoked session alive, but it never condemns a live
\* one: when the row of a cached token passes RefreshToken's checks, so does
\* the cached copy.  A client with a good token is not turned away by Redis.
CacheNeverCondemns ==
    \A d \in Devices :
        LET t == sessions[d].hash IN
        /\ HasRow(d)
        /\ cache[t] # NoCopy
        /\ Validated(CopyOf(d, sessions[d]), clock)
        => cache[t].device = d /\ Validated(cache[t], clock)

\* A session that has been revoked is rotated at most once more (from a copy
\* validated before the revocation, or a stale cache entry): the copy cached by
\* that rotation is read from the revoked row, so the chain stops there.
RevocationBitesWithinOneRotation ==
    \A d \in Devices : late[d] <= 1

\* A revoked session row becomes usable again only through Login's upsert,
\* which gives it a new token: no refresh, password change or late write
\* clears revoked_at.
RevocationSticks ==
    [][\A d \in Devices :
         sessions[d].revoked /\ ~sessions'[d].revoked =>
            /\ \E r \in Requests : LoginUpsert(r) /\ req[r].dev = d
            /\ sessions'[d].hash \notin issued]_vars

\* A rotation only extends a session that had not expired when the request
\* began, although RefreshToken never looks at expires_at again inside the
\* transaction: the validated copy and the row it locks agree on the expiry.
RotationWithinLifetime ==
    \A r \in Requests, d \in Devices :
        req[r].pc = "refresh_rotate" /\ sessions[d].hash = req[r].old
            => req[r].now <= sessions[d].expires

\* A copy of the session with token t that waits in Redis, in a goroutine or in
\* a request: as long as t is on a row it has that row's device and expiry, it is
\* no more revoked than the row, and it is revoked if the row has been rotated
\* since its revocation.
Backed(copy, t) ==
    /\ t <= tokens
    /\ \A d \in Devices : sessions[d].hash = t =>
          /\ copy.device = d
          /\ copy.expires = sessions[d].expires
          /\ copy.revoked \/ copy.status # "active" => sessions[d].revoked
          /\ late[d] > 0 => copy.revoked

\* What the local variables q of a request hold at each point of its method.
RequestInv(q) ==
    /\ q.pc \in {"login_device", "login_old", "login_evict", "login_upsert", "login_store",
                 "change_list", "change_commit", "change_evict"} => q.dev \in Devices
    /\ q.pc \in {"change_list", "change_commit", "change_evict",
                 "reset_list", "reset_commit", "reset_evict"} => q.user \in Users
    /\ q.pc \in {"login_store", "refresh_evict"} => q.new \in Token
    /\ q.pc \in {"refresh_db", "refresh_rotate"} => q.old \in Token
    /\ q.pc = "login_store" => Backed(LoginCopy(q), q.new)
    /\ q.pc = "refresh_rotate" => Validated(q.copy, q.now) /\ Backed(q.copy, q.old)
    /\ q.pc = "refresh_evict" => Backed(q.copy, q.new)

\* The tokens, revoked_at and session_status of the rows, and the rotations
\* since revocation.
RowInv ==
    \A d \in Devices :
        /\ sessions[d].hash <= tokens
        /\ \A e \in Devices : HasRow(d) /\ sessions[d].hash = sessions[e].hash => d = e
        /\ HasRow(d) /\ ~sessions[d].revoked => sessions[d].status = "active"
        /\ late[d] \in {0, 1}
        /\ late[d] = 1 => sessions[d].revoked

\* The inductive invariant behind the properties above: the rows, and the copies
\* of sessions wherever they wait, stay consistent under every interleaving of
\* Login, RefreshToken, the revocations and the password changes.
SessionInv ==
    /\ TypeOK
    /\ RowInv
    /\ \A t \in issued : t <= tokens
    /\ \A t \in Token : cache[t] # NoCopy => Backed(cache[t], t)
    /\ \A s \in stores : Backed(s.copy, s.hash)
    /\ \A r \in Requests : RequestInv(req[r])

\* Refinement: the rows' tokens behave as single-use refresh tokens, and revoked_at
\* as the end of a session.
SingleUse == INSTANCE RefreshTokens
    WITH current <- [d \in Devices |-> sessions[d].hash],
         exchanged <- rotations,
         generated <- 1..tokens,
         ended <- {d \in Devices : sessions[d].revoked},
         reprieved <- {d \in Devices : late[d] > 0}

\* However requests interleave and whatever the cache holds, the session table
\* implements the single-use refresh tokens of module RefreshTokens: a revoked
\* session is rotated once more at most, and only a login brings it back.
ImplementsSingleUse == SingleUse!Spec

\* A password change cuts the other sessions off: after ChangePassword or
\* ResetPassword, a session that a password no longer stored has opened becomes
\* usable only through a login that verified that password before the change, or
\* through a refresh of a row that RevokeAllByUserID skipped as expired.
PasswordChangeCutsOff ==
    [][\A d \in Devices :
         LET escaped == ActiveRow(d) /\ vouch[d] # cred[Owner[d]] IN
         ~escaped /\ escaped' =>
            \E r \in Requests :
               \/ LoginUpsert(r) /\ req[r].dev = d /\ req[r].pw < cred[Owner[d]]
               \/ RefreshRotate(r) /\ HasRow(d) /\ sessions[d].expires <= clock]_vars
=============================================================================
