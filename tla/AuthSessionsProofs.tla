------------------------- MODULE AuthSessionsProofs -------------------------
(***************************************************************************)
(* Proofs about AuthSessions, for any users, devices and requests and any  *)
(* bounds.  SessionInv is inductive; the properties of AuthSessions follow *)
(* from it, and from the refinement of RefreshTokens.                      *)
(***************************************************************************)
EXTENDS AuthSessions, TLAPS

USE SessionConstants DEF NoToken, Token, Time

\* A request that has returned is a request.
LEMMA IdleLocal == Idle \in Local /\ RequestInv(Idle)
BY DEF Idle, Local, NoCopy, Copy, PC, RequestInv

\* A session read from a row of the table is a session.
LEMMA CopyOfType ==
    ASSUME NEW d \in Devices, NEW row \in Row
    PROVE  CopyOf(d, row) \in Copy
BY DEF CopyOf, Copy, Row

\* Deleting keys leaves a cache.
LEMMA EvictedType ==
    ASSUME TypeOK, NEW hashes
    PROVE  Evicted(hashes) \in [Token -> Copy]
BY DEF Evicted, TypeOK, NoCopy, Copy

\* Revoking a row leaves a row.
LEMMA RevokeRowType ==
    ASSUME NEW row \in Row
    PROVE  [row EXCEPT !.revoked = TRUE] \in Row /\ RevokeRow(row) \in Row
BY DEF Row, RevokeRow

\* A step that only revokes rows: tokens, expiry and the histories stay, and
\* a revoked row stays revoked.
OnlyRevokes ==
    /\ sessions' \in [Devices -> Row]
    /\ \A d \in Devices :
          /\ sessions'[d].hash = sessions[d].hash
          /\ sessions'[d].expires = sessions[d].expires
          /\ sessions[d].revoked => sessions'[d].revoked
          /\ sessions'[d].revoked \/ sessions'[d].status = sessions[d].status
    /\ UNCHANGED <<late, tokens>>

\* A step that gives row d the next token and leaves the other rows alone.
Renews(d) ==
    /\ tokens < MaxToken
    /\ tokens' = tokens + 1
    /\ sessions' \in [Devices -> Row]
    /\ sessions'[d].hash = tokens + 1
    /\ \A e \in Devices \ {d} : sessions'[e] = sessions[e] /\ late'[e] = late[e]

\* A copy that is backed stays so under both kinds of step.
LEMMA BackedStable ==
    ASSUME TypeOK, RowInv, NEW copy, NEW t \in Token, Backed(copy, t),
           OnlyRevokes \/ \E d \in Devices : Renews(d)
    PROVE  Backed(copy, t)'
<1>1. CASE OnlyRevokes
  BY <1>1 DEF OnlyRevokes, Backed, TypeOK, Row
<1>2. ASSUME NEW d \in Devices, Renews(d) PROVE Backed(copy, t)'
  <2>1. t <= tokens /\ tokens \in Nat
    BY DEF Backed, TypeOK
  <2>2. ASSUME NEW e \in Devices, sessions'[e].hash = t
        PROVE  e # d /\ sessions'[e] = sessions[e] /\ late'[e] = late[e]
    BY <1>2, <2>1, <2>2 DEF Renews
  <2> QED
    BY <1>2, <2>1, <2>2 DEF Renews, Backed
<1> QED
  BY <1>1, <1>2

\* What a request holds stays right when another request changes the rows.
LEMMA RequestStable ==
    ASSUME TypeOK, RowInv, NEW q \in Local, RequestInv(q),
           OnlyRevokes \/ \E d \in Devices : Renews(d)
    PROVE  RequestInv(q)'
BY BackedStable DEF RequestInv, Local

\* Revocations keep the invariant of the rows.
LEMMA RowsRevoked ==
    ASSUME TypeOK, RowInv, OnlyRevokes
    PROVE  RowInv'
BY DEF OnlyRevokes, RowInv, TypeOK, Row, HasRow

\* What a step has to establish for SessionInv: the types and the rows, and then
\* only what it writes itself, because the rest stays backed.
Kept ==
    /\ OnlyRevokes \/ \E d \in Devices : Renews(d)
    /\ \A t \in issued' : t \in issued \/ t <= tokens'
    /\ \A t \in Token : cache'[t] \in {cache[t], NoCopy} \/ Backed(cache[t], t)'
    /\ \A s \in stores' : s \in stores \/ Backed(s.copy, s.hash)'
    /\ \A r \in Requests : req'[r] = req[r] \/ RequestInv(req[r])'

LEMMA KeptSuffices ==
    ASSUME SessionInv, TypeOK', RowInv', Kept
    PROVE  SessionInv'
<1> USE DEF SessionInv
<1>1. (\A t \in issued : t <= tokens)'
  BY DEF Kept, OnlyRevokes, Renews, TypeOK
<1>2. ASSUME NEW t \in Token, cache'[t] # NoCopy PROVE Backed(cache[t], t)'
  <2>1. CASE cache'[t] = cache[t]
    <3>1. PICK copy : copy = cache[t]
      OBVIOUS
    <3>2. Backed(copy, t)
      BY <1>2, <2>1, <3>1
    <3>3. Backed(copy, t)'
      BY <3>2, BackedStable DEF Kept
    <3> QED
      BY <2>1, <3>1, <3>3 DEF Backed
  <2> QED
    BY <1>2, <2>1 DEF Kept
<1>3. ASSUME NEW s \in stores' PROVE Backed(s.copy, s.hash)'
  BY BackedStable DEF Kept, TypeOK
<1>4. ASSUME NEW r \in Requests PROVE RequestInv(req[r])'
  <2>1. CASE req'[r] = req[r]
    <3>1. PICK q \in Local : q = req[r]
      BY DEF TypeOK
    <3>2. RequestInv(q)
      BY <3>1
    <3>3. RequestInv(q)'
      BY <3>2, RequestStable DEF Kept
    <3> QED
      BY <2>1, <3>1, <3>3 DEF RequestInv, Backed, LoginCopy, Validated
  <2> QED
    BY <2>1 DEF Kept
<1> QED
  BY <1>1, <1>2, <1>3, <1>4

\* A step that leaves the rows alone is a special case of OnlyRevokes.
LEMMA RowsUnchanged ==
    ASSUME SessionInv, UNCHANGED <<sessions, tokens, late>>
    PROVE  OnlyRevokes /\ RowInv'
BY RowsRevoked DEF SessionInv, OnlyRevokes, TypeOK

\* A step of request r that only moves its local variables.
LEMMA LocalStep ==
    ASSUME SessionInv, NEW r \in Requests, NEW q \in Local,
           req' = [req EXCEPT ![r] = q], RequestInv(req[r])',
           UNCHANGED <<dbVars, redisVars, stores, tokens, issued, clock, history>>
    PROVE  SessionInv'
<1> USE DEF dbVars, redisVars, history
<1>1. TypeOK'
  BY DEF SessionInv, TypeOK
<1>2. OnlyRevokes /\ RowInv'
  BY RowsUnchanged
<1>3. Kept
  BY <1>2 DEF Kept, SessionInv, TypeOK
<1> QED
  BY <1>1, <1>2, <1>3, KeptSuffices

\* Login: the steps before the upsert.
LEMMA LoginVerifyStep ==
    ASSUME SessionInv, NEW r \in Requests, NEW d \in Devices, LoginVerify(r, d)
    PROVE  SessionInv'
<1> DEFINE q == [Idle EXCEPT !.pc = "login_device", !.dev = d, !.pw = cred[Owner[d]]]
<1>0. cred[Owner[d]] \in 0..MaxPassword
  BY DEF SessionInv, TypeOK
<1>1. q \in Local
  BY <1>0, IdleLocal DEF Local, PC
<1>2. req' = [req EXCEPT ![r] = q]
  BY DEF LoginVerify, GetByUserID
<1>3. RequestInv(req[r])'
  BY <1>1, <1>2 DEF RequestInv, Idle, SessionInv, TypeOK
<1> QED
  BY <1>1, <1>2, <1>3, LocalStep DEF LoginVerify, GetByUserID

LEMMA LoginDeviceStep ==
    ASSUME SessionInv, NEW r \in Requests, LoginDevice(r)
    PROVE  SessionInv'
<1> USE DEF SessionInv
<1> DEFINE q == [req[r] EXCEPT !.pc = "login_old", !.now = clock]
<1>0. req[r] \in Local /\ clock \in 0..MaxClock
  BY DEF TypeOK
<1>1. q \in Local
  BY <1>0 DEF Local, PC
<1>2. req' = [req EXCEPT ![r] = q]
  BY DEF LoginDevice, UpsertDevice, TypeOK, Local
<1>3. RequestInv(req[r])'
  BY <1>1, <1>2 DEF RequestInv, TypeOK, LoginDevice, UpsertDevice, Local
<1>4. TypeOK'
  <2>1. req' \in [Requests -> Local]
    BY <1>1, <1>2 DEF TypeOK
  <2>2. devices' \in [Devices -> {"none", "active", "revoked"}]
    BY DEF TypeOK, LoginDevice, UpsertDevice
  <2>3. UNCHANGED <<sessions, cred, cache, resetTokens, stores, tokens, issued, clock,
                    rotations, late, vouch>>
    BY DEF LoginDevice, redisVars, history
  <2> HIDE DEF q
  <2> QED
    BY <2>1, <2>2, <2>3 DEF TypeOK
<1>5. OnlyRevokes /\ RowInv'
  BY RowsUnchanged DEF LoginDevice, UpsertDevice, history
<1>6. Kept
  BY <1>2, <1>3, <1>5 DEF Kept, LoginDevice, UpsertDevice, redisVars, TypeOK
<1> QED
  BY <1>4, <1>5, <1>6, KeptSuffices

LEMMA LoginOldSessionStep ==
    ASSUME SessionInv, NEW r \in Requests, LoginOldSession(r)
    PROVE  SessionInv'
<1> USE DEF SessionInv
<1>1. req[r] \in Local /\ req[r].pc = "login_old" /\ req[r].dev \in Devices
  BY DEF LoginOldSession, TypeOK, RequestInv
<1>2. PICK q \in Local : /\ req' = [req EXCEPT ![r] = q]
                         /\ q.pc \in {"login_evict", "login_upsert"}
                         /\ q.dev = req[r].dev
  <2>1. CASE HasRow(req[r].dev) /\ ~sessions[req[r].dev].revoked
    <3> DEFINE q == [req[r] EXCEPT !.pc = "login_evict", !.old = sessions[req[r].dev].hash]
    <3>1. q \in Local
      BY <1>1 DEF TypeOK, Local, PC, Row
    <3>2. req' = [req EXCEPT ![r] = q]
      BY <1>1, <2>1 DEF LoginOldSession, TypeOK, Local
    <3> QED
      BY <1>1, <3>1, <3>2 DEF Local
  <2>2. CASE ~(HasRow(req[r].dev) /\ ~sessions[req[r].dev].revoked)
    <3> DEFINE q == [req[r] EXCEPT !.pc = "login_upsert"]
    <3>1. q \in Local
      BY <1>1 DEF TypeOK, Local, PC
    <3>2. req' = [req EXCEPT ![r] = q]
      BY <1>1, <2>2 DEF LoginOldSession, TypeOK, Local, Goto
    <3> QED
      BY <1>1, <3>1, <3>2 DEF Local
  <2> QED
    BY <2>1, <2>2
<1>3. RequestInv(req[r])'
  BY <1>1, <1>2 DEF RequestInv, TypeOK
<1> QED
  BY <1>2, <1>3, LocalStep DEF LoginOldSession

\* A deletion that may fail leaves every key as it was or absent.
LEMMA TryEvictStep ==
    ASSUME TypeOK, NEW hashes, TryEvict(hashes)
    PROVE  /\ cache' \in [Token -> Copy]
           /\ \A t \in Token : cache'[t] \in {cache[t], NoCopy}
<1>1. cache' = Evicted(hashes) \/ cache' = cache
  BY DEF TryEvict
<1>2. CASE cache' = Evicted(hashes)
  BY <1>2, EvictedType DEF Evicted
<1>3. CASE cache' = cache
  BY <1>3 DEF TypeOK
<1> QED
  BY <1>1, <1>2, <1>3

\* A write that may fail leaves the other keys alone.
LEMMA StoreStep ==
    ASSUME cache \in [Token -> Copy], NEW t \in Token, NEW copy \in Copy,
           cache' \in {[cache EXCEPT ![t] = copy], cache}
    PROVE  /\ cache' \in [Token -> Copy]
           /\ cache'[t] = copy \/ cache'[t] = cache[t]
           /\ \A u \in Token : u # t => cache'[u] = cache[u]
<1>1. CASE cache' = [cache EXCEPT ![t] = copy]
  BY <1>1
<1>2. CASE cache' = cache
  BY <1>2
<1> QED
  BY <1>1, <1>2

\* A request that deletes keys and moves on: Login, ChangePassword, ResetPassword.
LEMMA EvictStep ==
    ASSUME SessionInv, NEW r \in Requests, NEW q \in Local, NEW hashes, TryEvict(hashes),
           req' = [req EXCEPT ![r] = q], RequestInv(req[r])',
           UNCHANGED <<dbVars, resetTokens, stores, tokens, issued, clock, history>>
    PROVE  SessionInv'
<1> USE DEF SessionInv, dbVars, history
<1>1. TypeOK'
  BY TryEvictStep DEF TypeOK
<1>2. OnlyRevokes /\ RowInv'
  BY RowsUnchanged
<1>3. Kept
  BY <1>2, TryEvictStep DEF Kept, TypeOK
<1> QED
  BY <1>1, <1>2, <1>3, KeptSuffices

LEMMA LoginEvictStep ==
    ASSUME SessionInv, NEW r \in Requests, LoginEvict(r)
    PROVE  SessionInv'
<1> USE DEF SessionInv
<1> DEFINE q == [req[r] EXCEPT !.pc = "login_upsert"]
<1>1. req[r] \in Local /\ req[r].pc = "login_evict" /\ req[r].dev \in Devices
  BY DEF LoginEvict, TypeOK, RequestInv
<1>2. q \in Local
  BY <1>1 DEF Local, PC
<1>3. req' = [req EXCEPT ![r] = q]
  BY <1>1 DEF LoginEvict, Goto, TypeOK, Local
<1>4. RequestInv(req[r])'
  BY <1>1, <1>3 DEF RequestInv, TypeOK, Local
<1> QED
  BY <1>2, <1>3, <1>4, EvictStep DEF LoginEvict

\* Login: the upsert gives the row a token no row, copy or client has.
LEMMA LoginUpsertStep ==
    ASSUME SessionInv, NEW r \in Requests, LoginUpsert(r)
    PROVE  SessionInv'
<1> USE DEF SessionInv
<1> DEFINE d == req[r].dev
           q == [req[r] EXCEPT !.pc = "login_store", !.new = tokens + 1]
           row == [hash |-> tokens + 1, status |-> "active", revoked |-> FALSE,
                   expires |-> req[r].now + TTL]
<1>1. req[r] \in Local /\ req[r].pc = "login_upsert" /\ d \in Devices
  BY DEF LoginUpsert, UpsertedSession, TypeOK, RequestInv
<1>2. tokens + 1 \in Token /\ tokens' = tokens + 1 /\ tokens \in Nat /\ tokens < MaxToken
  BY DEF LoginUpsert, UpsertedSession, TypeOK
<1>3. q \in Local /\ row \in Row
  <2>1. q \in Local
    BY <1>1, <1>2 DEF Local, PC
  <2>2. req[r].now + TTL \in Time
    BY <1>1 DEF Local
  <2> QED
    BY <1>2, <2>1, <2>2 DEF Row
<1>4. req' = [req EXCEPT ![r] = q] /\ sessions' = [sessions EXCEPT ![d] = row]
  BY <1>1 DEF LoginUpsert, UpsertedSession, TypeOK, Local
<1>5. late' = [late EXCEPT ![d] = 0]
  BY DEF LoginUpsert, UpsertedSession
<1>6. TypeOK'
  <2>1. vouch' \in [Devices -> 0..MaxPassword]
    BY <1>1 DEF LoginUpsert, UpsertedSession, TypeOK, Local
  <2>2. req' \in [Requests -> Local]
    BY <1>3, <1>4 DEF TypeOK
  <2>3. sessions' \in [Devices -> Row]
    BY <1>3, <1>4 DEF TypeOK
  <2>4. tokens' \in 0..MaxToken
    BY <1>2
  <2>5. late' \in [Devices -> Nat]
    BY <1>5 DEF TypeOK
  <2>6. UNCHANGED <<devices, cred, cache, resetTokens, stores, issued, clock, rotations>>
    BY DEF LoginUpsert, UpsertedSession, redisVars
  <2> QED
    BY <2>1, <2>2, <2>3, <2>4, <2>5, <2>6 DEF TypeOK
<1>7. Renews(d)
  BY <1>1, <1>2, <1>3, <1>4, <1>5 DEF Renews, TypeOK
<1>8. RowInv'
  <2>1. sessions'[d] = row /\ late'[d] = 0
    BY <1>1, <1>4, <1>5 DEF TypeOK
  <2>2. \A e \in Devices \ {d} : sessions'[e] = sessions[e] /\ late'[e] = late[e]
    BY <1>4, <1>5 DEF TypeOK
  <2>3. \A e \in Devices : sessions[e].hash \in Nat /\ sessions[e].hash <= tokens
    BY DEF TypeOK, Row, RowInv
  <2> QED
    BY <1>2, <2>1, <2>2, <2>3 DEF RowInv, HasRow
<1>9. RequestInv(req[r])'
  <2>1. req'[r] = q
    BY <1>4 DEF TypeOK
  <2>2. \A e \in Devices : sessions'[e].hash = tokens + 1 => e = d
    BY <1>2, <1>4 DEF TypeOK, RowInv, Row
  <2>3. Backed(LoginCopy(req[r]), req[r].new)'
    BY <1>1, <1>2, <1>4, <1>5, <2>1, <2>2, SMTT(30) DEF Backed, LoginCopy, TypeOK, Local
  <2> QED
    BY <1>1, <1>2, <2>1, <2>3 DEF RequestInv, Local
<1>10. Kept
  BY <1>1, <1>4, <1>7, <1>9 DEF Kept, LoginUpsert, UpsertedSession, redisVars, TypeOK
<1> QED
  BY <1>6, <1>8, <1>10, KeptSuffices

LEMMA LoginStoreStep ==
    ASSUME SessionInv, NEW r \in Requests, LoginStore(r)
    PROVE  SessionInv'
<1> USE DEF SessionInv, dbVars, history
<1> DEFINE new == req[r].new
           copy == LoginCopy(req[r])
<1>1. /\ req[r] \in Local /\ req[r].dev \in Devices /\ new \in Token
      /\ Backed(copy, new)
  BY DEF LoginStore, TypeOK, RequestInv
<1>2. copy \in Copy
  BY <1>1 DEF LoginCopy, Copy, Local
<1>3. UNCHANGED <<sessions, tokens, late>> /\ req' = [req EXCEPT ![r] = Idle]
  BY DEF LoginStore, Return
<1>4. cache' \in {[cache EXCEPT ![new] = copy], cache}
  BY DEF LoginStore
<1>5. TypeOK'
  <2>1. cache' \in [Token -> Copy]
    BY <1>1, <1>2, <1>4, StoreStep DEF TypeOK
  <2>2. req' \in [Requests -> Local] /\ issued' \in SUBSET Token
    BY <1>1, <1>3, IdleLocal DEF LoginStore, TypeOK
  <2> QED
    BY <2>1, <2>2 DEF LoginStore, TypeOK
<1>6. OnlyRevokes /\ RowInv'
  BY <1>3, RowsUnchanged
<1>7. ASSUME NEW t \in Token PROVE cache'[t] = cache[t] \/ Backed(cache[t], t)'
  <2>1. CASE t = new /\ cache'[t] = copy
    BY <1>1, <1>3, <2>1 DEF Backed
  <2> QED
    BY <1>1, <1>2, <1>4, <2>1, StoreStep DEF TypeOK
<1>8. RequestInv(req[r])'
  BY <1>3 DEF RequestInv, Idle, TypeOK
<1>9. new <= tokens
  BY <1>1 DEF Backed
<1>10. Kept
  BY <1>3, <1>6, <1>7, <1>8, <1>9 DEF Kept, LoginStore, TypeOK
<1> QED
  BY <1>5, <1>6, <1>10, KeptSuffices

\* Login keeps the invariant.
LEMMA LoginStep ==
    ASSUME SessionInv, NEW r \in Requests, Login(r)
    PROVE  SessionInv'
BY LoginVerifyStep, LoginDeviceStep, LoginOldSessionStep, LoginEvictStep,
   LoginUpsertStep, LoginStoreStep DEF Login

\* RefreshToken: the copy at hand is backed, whether Redis or the table gave it.
LEMMA RefreshLookupStep ==
    ASSUME SessionInv, NEW r \in Requests, NEW t \in Token, RefreshLookup(r, t)
    PROVE  SessionInv'
<1> USE DEF SessionInv
<1> DEFINE begun == [Idle EXCEPT !.old = t, !.now = clock]
           hit == [begun EXCEPT !.pc = "refresh_rotate", !.copy = cache[t]]
           miss == [begun EXCEPT !.pc = "refresh_db"]
<1>1. cache[t] \in Copy /\ clock \in 0..MaxClock
  BY DEF TypeOK
<1>2. hit \in Local /\ miss \in Local
  BY <1>1, IdleLocal DEF Local, PC
<1>3. CASE /\ cache[t] # NoCopy /\ Validated(cache[t], clock)
           /\ req' = [req EXCEPT ![r] = hit]
  <2>1. req'[r] = hit
    BY <1>3 DEF TypeOK
  <2>2. /\ hit.pc = "refresh_rotate" /\ hit.old = t
        /\ hit.copy = cache[t] /\ hit.now = clock
    BY DEF Idle
  <2>3. UNCHANGED <<sessions, tokens, late>>
    BY DEF RefreshLookup, GetSession, dbVars, history
  <2>4. RequestInv(req[r])'
    BY <1>3, <2>1, <2>2, <2>3 DEF RequestInv, Backed, Validated
  <2> QED
    BY <1>2, <1>3, <2>4, LocalStep DEF RefreshLookup, GetSession
<1>4. CASE req' = [req EXCEPT ![r] = miss]
  <2>1. req'[r] = miss
    BY <1>4 DEF TypeOK
  <2>2. miss.pc = "refresh_db" /\ miss.old = t
    BY DEF Idle
  <2>3. RequestInv(req[r])'
    BY <2>1, <2>2 DEF RequestInv
  <2> QED
    BY <1>2, <1>4, <2>3, LocalStep DEF RefreshLookup, GetSession
<1> QED
  BY <1>3, <1>4 DEF RefreshLookup, GetSession

\* A request that gives up, or has nothing more to do, keeps the invariant.
LEMMA ReturnStep ==
    ASSUME SessionInv, NEW r \in Requests, Return(r),
           UNCHANGED <<dbVars, redisVars, stores, tokens, issued, clock, history>>
    PROVE  SessionInv'
<1>1. RequestInv(req[r])'
  BY DEF SessionInv, TypeOK, Return, RequestInv, Idle
<1> QED
  BY <1>1, IdleLocal, LocalStep DEF Return

LEMMA RefreshLookupDBStep ==
    ASSUME SessionInv, NEW r \in Requests, RefreshLookupDB(r)
    PROVE  SessionInv'
<1> USE DEF SessionInv
<1>1. req[r] \in Local /\ req[r].old \in Token
  BY DEF RefreshLookupDB, TypeOK, RequestInv
<1>2. ASSUME NEW d \in Devices, sessions[d].hash = req[r].old,
             Validated(CopyOf(d, sessions[d]), req[r].now),
             req' = [req EXCEPT ![r].pc = "refresh_rotate",
                                ![r].copy = CopyOf(d, sessions[d])]
      PROVE  SessionInv'
  <2> DEFINE copy == CopyOf(d, sessions[d])
             q == [req[r] EXCEPT !.pc = "refresh_rotate", !.copy = copy]
  <2>1. copy \in Copy
    BY CopyOfType DEF TypeOK
  <2>2. q \in Local
    BY <1>1, <2>1 DEF Local, PC
  <2>3. req' = [req EXCEPT ![r] = q]
    BY <1>1, <1>2 DEF TypeOK, Local
  <2>4. Backed(copy, req[r].old)
    BY <1>1, <1>2, SMTT(30) DEF Backed, RowInv, TypeOK, Row, CopyOf, HasRow
  <2>5. UNCHANGED <<sessions, tokens, late>>
    BY DEF RefreshLookupDB, dbVars, history
  <2>6. /\ req'[r].pc = "refresh_rotate" /\ req'[r].old = req[r].old
        /\ req'[r].copy = copy /\ req'[r].now = req[r].now
    BY <1>1, <2>3 DEF TypeOK, Local
  <2>7. RequestInv(req[r])'
    <3>1. Validated(copy, req[r].now)
      BY <1>2
    <3> HIDE DEF copy, q
    <3>2. Validated(req[r].copy, req[r].now)'
      BY <2>6, <3>1 DEF Validated
    <3>3. Backed(req[r].copy, req[r].old)'
      BY <2>4, <2>5, <2>6 DEF Backed
    <3> QED
      BY <1>1, <2>6, <3>2, <3>3 DEF RequestInv
  <2> QED
    BY <2>2, <2>3, <2>7, LocalStep DEF RefreshLookupDB
<1> QED
  BY <1>2, ReturnStep DEF RefreshLookupDB

\* RefreshToken: the transaction.  The row it locks is the one its copy is backed
\* by, so a row that was already rotated since its revocation is out of reach.
LEMMA RefreshRotateStep ==
    ASSUME SessionInv, NEW r \in Requests, RefreshRotate(r)
    PROVE  SessionInv'
<1> USE DEF SessionInv
<1>1. /\ req[r] \in Local /\ req[r].old \in Token
      /\ Validated(req[r].copy, req[r].now) /\ Backed(req[r].copy, req[r].old)
  BY DEF RefreshRotate, TypeOK, RequestInv
<1>2. ASSUME NEW d \in Devices, LockedRow(r, d), tokens < MaxToken, tokens' = tokens + 1,
             sessions' = [sessions EXCEPT ![d] = Rotated(@, tokens + 1, req[r].now)],
             req' = [req EXCEPT ![r].pc = "refresh_evict", ![r].new = tokens + 1,
                                ![r].copy = SyncedCopy(d, tokens + 1, req[r].now)],
             rotations' = rotations \cup {<<req[r].old, tokens + 1>>},
             late' = [late EXCEPT ![d] = IF sessions[d].revoked THEN @ + 1 ELSE @],
             UNCHANGED <<devices, cred, redisVars, stores, issued, clock, vouch>>
      PROVE  SessionInv'
  <2> DEFINE new == tokens + 1
             row == Rotated(sessions[d], new, req[r].now)
             copy == CopyOf(d, row)
             q == [req[r] EXCEPT !.pc = "refresh_evict", !.new = new, !.copy = copy]
  <2>1. tokens \in Nat /\ new \in Token /\ sessions[d] \in Row
    BY <1>2 DEF TypeOK
  <2>2. /\ row \in Row /\ row.hash = new
        /\ row.revoked = sessions[d].revoked /\ row.status = sessions[d].status
    <3>1. req[r].now + TTL \in Time
      BY <1>1 DEF Local
    <3> QED
      BY <2>1, <3>1 DEF Rotated, Row
  <2>3. copy \in Copy
    BY <2>2, CopyOfType
  <2>4. /\ copy.device = d /\ copy.expires = row.expires
        /\ copy.revoked = row.revoked /\ copy.status = row.status
    BY DEF CopyOf
  <2>5. sessions' = [sessions EXCEPT ![d] = row]
    BY <1>2
  <2>6. q \in Local
    BY <1>1, <2>1, <2>3 DEF Local, PC
  <2>7. req' = [req EXCEPT ![r] = q]
    BY <1>1, <1>2 DEF SyncedCopy, TypeOK, Local
  <2>8. /\ req'[r].pc = "refresh_evict" /\ req'[r].new = new /\ req'[r].copy = copy
    BY <1>1, <2>7 DEF TypeOK, Local
  <2> HIDE DEF row, copy, q
  <2>9. late[d] = 0
    BY <1>1, <1>2 DEF LockedRow, Backed, Validated, RowInv, TypeOK
  <2>10. /\ sessions'[d] = row /\ late'[d] = IF sessions[d].revoked THEN 1 ELSE 0
         /\ \A e \in Devices \ {d} : sessions'[e] = sessions[e] /\ late'[e] = late[e]
    BY <1>2, <2>5, <2>9 DEF TypeOK
  <2>11. TypeOK'
    <3>1. late' \in [Devices -> Nat] /\ sessions' \in [Devices -> Row]
      BY <1>2, <2>2, <2>5 DEF TypeOK
    <3>2. rotations' \in SUBSET (Token \X Token)
      BY <1>1, <1>2, <2>1 DEF TypeOK
    <3>3. tokens' \in 0..MaxToken
      BY <1>2, <2>1
    <3>4. req' \in [Requests -> Local]
      BY <2>6, <2>7 DEF TypeOK
    <3> QED
      BY <1>2, <3>1, <3>2, <3>3, <3>4 DEF TypeOK, redisVars
  <2>12. Renews(d)
    BY <1>2, <2>2, <2>10, <2>11 DEF Renews, TypeOK
  <2>13. \A e \in Devices : sessions[e].hash \in Nat /\ sessions[e].hash <= tokens
    BY DEF TypeOK, Row, RowInv
  <2>14. sessions[d].revoked \/ sessions[d].status = "active"
    BY <1>1, <1>2 DEF RowInv, LockedRow, HasRow
  <2>15. RowInv'
    BY <1>2, <2>1, <2>2, <2>10, <2>13, <2>14 DEF RowInv, HasRow
  <2>16. Backed(req[r].copy, req[r].new)'
    <3>1. tokens' = tokens + 1 /\ req'[r].new <= tokens'
      BY <1>2, <2>1, <2>8
    <3>2. ASSUME NEW e \in Devices, sessions'[e].hash = req'[r].new PROVE e = d
      BY <2>1, <2>8, <2>10, <2>13, <3>2
    <3>3. /\ req'[r].copy.device = d /\ req'[r].copy.expires = sessions'[d].expires
          /\ req'[r].copy.revoked = sessions'[d].revoked
          /\ req'[r].copy.status = sessions[d].status
      BY <2>2, <2>4, <2>8, <2>10
    <3>4. late'[d] > 0 => sessions'[d].revoked
      BY <2>2, <2>10
    <3> QED
      BY <2>2, <2>10, <2>14, <3>1, <3>2, <3>3, <3>4 DEF Backed
  <2>17. RequestInv(req[r])'
    BY <1>2, <2>1, <2>8, <2>16 DEF RequestInv, Backed
  <2>18. Kept
    BY <1>2, <2>7, <2>12, <2>17 DEF Kept, redisVars, TypeOK
  <2> QED
    BY <2>11, <2>15, <2>18, KeptSuffices
<1>3. ASSUME Return(r), UNCHANGED <<sessions, tokens, rotations, late>> PROVE SessionInv'
  BY <1>3, ReturnStep DEF RefreshRotate, dbVars, redisVars, history
<1> QED
  BY <1>2, <1>3 DEF RefreshRotate

\* RefreshToken: the old key goes, and the goroutine takes the new copy along.
LEMMA RefreshEvictStep ==
    ASSUME SessionInv, NEW r \in Requests, RefreshEvict(r)
    PROVE  SessionInv'
<1> USE DEF SessionInv, dbVars, history
<1> DEFINE store == [hash |-> req[r].new, copy |-> req[r].copy]
<1>1. /\ req[r] \in Local /\ req[r].new \in Token
      /\ Backed(req[r].copy, req[r].new)
  BY DEF RefreshEvict, TypeOK, RequestInv
<1>2. UNCHANGED <<sessions, tokens, late>> /\ req' = [req EXCEPT ![r] = Idle]
  BY DEF RefreshEvict, Return
<1>3. /\ cache' \in [Token -> Copy]
      /\ \A t \in Token : cache'[t] \in {cache[t], NoCopy}
  BY TryEvictStep DEF RefreshEvict
<1>4. stores' = stores \cup {store} /\ store \in [hash : Token, copy : Copy]
  BY <1>1 DEF RefreshEvict, Local
<1>5. TypeOK'
  <2>1. req' \in [Requests -> Local] /\ issued' \in SUBSET Token
    BY <1>1, <1>2, IdleLocal DEF RefreshEvict, TypeOK
  <2>2. stores' \in SUBSET [hash : Token, copy : Copy]
    BY <1>4 DEF TypeOK
  <2> QED
    BY <1>3, <2>1, <2>2 DEF RefreshEvict, TypeOK
<1>6. OnlyRevokes /\ RowInv'
  BY <1>2, RowsUnchanged
<1>7. ASSUME NEW s \in stores' PROVE s \in stores \/ Backed(s.copy, s.hash)'
  BY <1>1, <1>2, <1>4 DEF Backed
<1>8. RequestInv(req[r])'
  BY <1>2 DEF RequestInv, Idle, TypeOK
<1>9. \A t \in issued' : t \in issued \/ t <= tokens'
  BY <1>1, <1>2 DEF RefreshEvict, Backed
<1>10. Kept
  BY <1>2, <1>3, <1>6, <1>7, <1>8, <1>9 DEF Kept, TypeOK
<1> QED
  BY <1>5, <1>6, <1>10, KeptSuffices

LEMMA BackgroundStoreStep ==
    ASSUME SessionInv, NEW s \in stores, BackgroundStore(s)
    PROVE  SessionInv'
<1> USE DEF SessionInv, dbVars, history
<1>1. s.hash \in Token /\ s.copy \in Copy /\ Backed(s.copy, s.hash)
  BY DEF TypeOK
<1>2. UNCHANGED <<sessions, tokens, late, req, issued>>
  BY DEF BackgroundStore
<1>3. /\ cache' \in [Token -> Copy]
      /\ cache'[s.hash] = s.copy \/ cache'[s.hash] = cache[s.hash]
      /\ \A u \in Token : u # s.hash => cache'[u] = cache[u]
  BY <1>1, StoreStep DEF BackgroundStore, TypeOK
<1>4. TypeOK'
  BY <1>3 DEF BackgroundStore, TypeOK
<1>5. OnlyRevokes /\ RowInv'
  BY <1>2, RowsUnchanged
<1>6. ASSUME NEW t \in Token PROVE cache'[t] = cache[t] \/ Backed(cache[t], t)'
  <2>1. CASE t = s.hash /\ cache'[t] = s.copy
    BY <1>1, <1>2, <2>1 DEF Backed
  <2> QED
    BY <1>3, <2>1
<1>7. Kept
  BY <1>2, <1>5, <1>6 DEF Kept, BackgroundStore
<1> QED
  BY <1>4, <1>5, <1>7, KeptSuffices

\* RefreshToken keeps the invariant.
LEMMA RefreshStep ==
    ASSUME SessionInv, NEW r \in Requests, Refresh(r)
    PROVE  SessionInv'
BY RefreshLookupStep, RefreshLookupDBStep, RefreshRotateStep, RefreshEvictStep DEF Refresh

\* The two forms of mass revocation only revoke.
LEMMA RevokeAllStep ==
    ASSUME SessionInv, NEW u, NEW d, UNCHANGED <<late, tokens>>,
           sessions' = RevokeAllByUserID(u) \/ sessions' = RevokeAllExcept(u, d)
    PROVE  OnlyRevokes /\ RowInv'
<1> USE DEF SessionInv
<1>1. \A e \in Devices : sessions[e] \in Row
  BY DEF TypeOK
<1>2. /\ sessions' \in [Devices -> Row]
      /\ \A e \in Devices : \/ sessions'[e] = sessions[e]
                            \/ sessions'[e] = [sessions[e] EXCEPT !.revoked = TRUE]
                            \/ sessions'[e] = RevokeRow(sessions[e])
  <2>1. CASE sessions' = RevokeAllByUserID(u)
    BY <1>1, <2>1, RevokeRowType DEF RevokeAllByUserID
  <2>2. CASE sessions' = RevokeAllExcept(u, d)
    BY <1>1, <2>2, RevokeRowType DEF RevokeAllExcept
  <2> QED
    BY <2>1, <2>2
<1>3. \A row \in Row : \A new : new \in {[row EXCEPT !.revoked = TRUE], RevokeRow(row)} =>
         new.hash = row.hash /\ new.expires = row.expires /\ new.revoked
  BY DEF Row, RevokeRow
<1>4. OnlyRevokes
  BY <1>1, <1>2, <1>3 DEF OnlyRevokes
<1> QED
  BY <1>4, RowsRevoked

\* So does the revocation of one row.
LEMMA LogoutRevokes ==
    ASSUME SessionInv, NEW d \in Devices, Logout(d)
    PROVE  OnlyRevokes /\ RowInv'
<1>1. sessions[d] \in Row
  BY DEF SessionInv, TypeOK
<1>2. /\ RevokeRow(sessions[d]) \in Row /\ RevokeRow(sessions[d]).revoked
      /\ RevokeRow(sessions[d]).hash = sessions[d].hash
      /\ RevokeRow(sessions[d]).expires = sessions[d].expires
  BY <1>1, RevokeRowType DEF RevokeRow, Row
<1>3. sessions' = [sessions EXCEPT ![d] = RevokeRow(sessions[d])]
  BY DEF Logout
<1>4. OnlyRevokes
  BY <1>2, <1>3 DEF OnlyRevokes, Logout, history, SessionInv, TypeOK
<1> QED
  BY <1>4, RowsRevoked DEF SessionInv

\* A revocation outside a request: Logout, RevokeAllSessions, RevokeDevice.
LEMMA RevocationStep ==
    ASSUME SessionInv,
           \/ \E d \in Devices : Logout(d) \/ RevokeDevice(d)
           \/ \E u \in Users : RevokeAllSessions(u)
    PROVE  SessionInv'
<1> USE DEF SessionInv
<1>1. ASSUME NEW d \in Devices, Logout(d)
      PROVE  OnlyRevokes /\ RowInv' /\ devices' = devices
  BY <1>1, LogoutRevokes DEF Logout
<1>2. ASSUME NEW d \in Devices, RevokeDevice(d)
      PROVE  /\ OnlyRevokes /\ RowInv'
             /\ devices' \in [Devices -> {"none", "active", "revoked"}]
  BY <1>2, RevokeAllStep DEF RevokeDevice, RevokedDevices, history, TypeOK
<1>3. ASSUME NEW u \in Users, RevokeAllSessions(u)
      PROVE  OnlyRevokes /\ RowInv' /\ devices' = devices
  BY <1>3, RevokeAllStep DEF RevokeAllSessions, history
<1>4. /\ OnlyRevokes /\ RowInv'
      /\ devices' \in [Devices -> {"none", "active", "revoked"}]
  BY <1>1, <1>2, <1>3 DEF TypeOK
<1>5. UNCHANGED <<cred, redisVars, req, stores, tokens, issued, clock, history>>
  BY DEF Logout, RevokeDevice, RevokedDevices, RevokeAllSessions
<1>6. TypeOK'
  BY <1>4, <1>5 DEF TypeOK, OnlyRevokes, redisVars, history
<1>7. Kept
  BY <1>4, <1>5 DEF Kept, redisVars
<1> QED
  BY <1>4, <1>6, <1>7, KeptSuffices

\* ChangePassword and ResetPassword before their transactions.
LEMMA PasswordBeginStep ==
    ASSUME SessionInv, NEW r \in Requests,
           (\E d \in Devices : ChangeVerify(r, d)) \/ ChangeList(r) \/ ResetList(r)
    PROVE  SessionInv'
<1> USE DEF SessionInv
<1>1. ASSUME NEW d \in Devices, ChangeVerify(r, d) PROVE SessionInv'
  <2> DEFINE q == [Idle EXCEPT !.pc = "change_list", !.dev = d, !.user = Owner[d]]
  <2>1. Owner[d] \in Users
    OBVIOUS
  <2>2. q \in Local
    BY <2>1, IdleLocal DEF Local, PC
  <2>3. req' = [req EXCEPT ![r] = q]
    BY <1>1 DEF ChangeVerify
  <2>4. RequestInv(req[r])'
    BY <2>1, <2>3 DEF RequestInv, Idle, TypeOK
  <2> QED
    BY <1>1, <2>2, <2>3, <2>4, LocalStep DEF ChangeVerify
<1>2. ASSUME NEW ds, ds \subseteq Devices, \A d \in ds : HasRow(d)
      PROVE  Hashes(ds) \in SUBSET Token
  BY <1>2 DEF Hashes, HasRow, TypeOK, Row
<1>3. \A u : \A d \in ListActiveByUserID(u) : d \in Devices /\ HasRow(d)
  BY DEF ListActiveByUserID, ActiveRow
<1>4. ASSUME ChangeList(r) PROVE SessionInv'
  <2> DEFINE hs == Hashes(ListActiveByUserID(req[r].user) \ {req[r].dev})
             q == [req[r] EXCEPT !.pc = "change_commit", !.hashes = hs]
  <2>1. /\ req[r] \in Local /\ req[r].pc = "change_list"
        /\ req[r].dev \in Devices /\ req[r].user \in Users
    BY <1>4 DEF ChangeList, TypeOK, RequestInv
  <2>2. hs \in SUBSET Token
    BY <1>2, <1>3
  <2>3. q \in Local
    BY <2>1, <2>2 DEF Local, PC
  <2>4. req' = [req EXCEPT ![r] = q]
    BY <1>4, <2>1 DEF ChangeList, TypeOK, Local
  <2>5. /\ req'[r].pc = "change_commit"
        /\ req'[r].dev = req[r].dev /\ req'[r].user = req[r].user
    BY <2>1, <2>4 DEF TypeOK, Local
  <2>6. RequestInv(req[r])'
    BY <2>1, <2>5 DEF RequestInv
  <2> QED
    BY <1>4, <2>3, <2>4, <2>6, LocalStep DEF ChangeList
<1>5. ASSUME ResetList(r) PROVE SessionInv'
  <2> DEFINE hs == Hashes(ListActiveByUserID(req[r].user))
             q == [req[r] EXCEPT !.pc = "reset_commit", !.hashes = hs]
  <2>1. req[r] \in Local /\ req[r].pc = "reset_list" /\ req[r].user \in Users
    BY <1>5 DEF ResetList, TypeOK, RequestInv
  <2>2. hs \in SUBSET Token
    BY <1>2, <1>3
  <2>3. q \in Local
    BY <2>1, <2>2 DEF Local, PC
  <2>4. req' = [req EXCEPT ![r] = q]
    BY <1>5, <2>1 DEF ResetList, TypeOK, Local
  <2>5. req'[r].pc = "reset_commit" /\ req'[r].user = req[r].user
    BY <2>1, <2>4 DEF TypeOK, Local
  <2>6. RequestInv(req[r])'
    BY <2>1, <2>5 DEF RequestInv
  <2> QED
    BY <1>5, <2>3, <2>4, <2>6, LocalStep DEF ResetList
<1> QED
  BY <1>1, <1>4, <1>5

\* The transactions of ChangePassword and ResetPassword.
LEMMA PasswordCommitStep ==
    ASSUME SessionInv, NEW r \in Requests, ChangeCommit(r) \/ ResetCommit(r)
    PROVE  SessionInv'
<1> USE DEF SessionInv
<1> DEFINE u == req[r].user
           d == req[r].dev
<1>1. req[r] \in Local /\ u \in Users /\ (ChangeCommit(r) => d \in Devices)
  BY DEF ChangeCommit, UpdatePasswordHash, ResetCommit, TypeOK, RequestInv
<1>2. UNCHANGED <<late, tokens, devices, cache, resetTokens, stores, issued, clock, rotations>>
  BY DEF ChangeCommit, UpdatePasswordHash, ResetCommit, redisVars, history
<1>3. OnlyRevokes /\ RowInv'
  BY <1>2, RevokeAllStep DEF ChangeCommit, UpdatePasswordHash, ResetCommit
<1>4. /\ cred' = [cred EXCEPT ![u] = cred[u] + 1]
      /\ cred[u] + 1 \in 0..MaxPassword
      /\ cred' \in [Users -> 0..MaxPassword]
  <2>1. cred' = [cred EXCEPT ![u] = cred[u] + 1] /\ cred[u] < MaxPassword
    BY DEF ChangeCommit, UpdatePasswordHash, ResetCommit
  <2>2. cred \in [Users -> 0..MaxPassword]
    BY DEF TypeOK
  <2> HIDE DEF SessionInv, u
  <2>3. u \in Users
    BY <1>1
  <2>4. cred[u] \in 0..MaxPassword
    BY <2>2, <2>3
  <2>5. cred[u] + 1 \in 0..MaxPassword
    BY <2>1, <2>4
  <2> QED
    BY <2>1, <2>2, <2>5
<1>5. vouch' \in [Devices -> 0..MaxPassword]
  <2>1. CASE ChangeCommit(r)
    <3>1. vouch' = [vouch EXCEPT ![d] = cred[u] + 1]
      BY <2>1 DEF ChangeCommit
    <3>2. vouch \in [Devices -> 0..MaxPassword]
      BY DEF TypeOK
    <3> HIDE DEF SessionInv, u, d
    <3> QED
      BY <1>4, <3>1, <3>2
  <2>2. CASE ResetCommit(r)
    BY <2>2 DEF ResetCommit, UpdatePasswordHash, history, TypeOK
  <2> QED
    BY <2>1, <2>2
<1>6. PICK pc \in {"change_evict", "reset_evict"} :
         req' = [req EXCEPT ![r] = [req[r] EXCEPT !.pc = pc]] /\ (pc = "change_evict" => d \in Devices)
  BY <1>1 DEF ChangeCommit, UpdatePasswordHash, ResetCommit, Goto, TypeOK, Local
<1>7. [req[r] EXCEPT !.pc = pc] \in Local
  BY <1>1 DEF Local, PC
<1>8. req' \in [Requests -> Local]
  BY <1>6, <1>7 DEF TypeOK
<1>9. TypeOK'
  BY <1>2, <1>3, <1>4, <1>5, <1>8 DEF TypeOK, OnlyRevokes
<1>10. req'[r].pc = pc /\ req'[r].user = u /\ req'[r].dev = d
  BY <1>1, <1>6 DEF TypeOK, Local
<1>11. RequestInv(req[r])'
  BY <1>1, <1>6, <1>10 DEF RequestInv
<1>12. Kept
  BY <1>2, <1>3, <1>6, <1>11 DEF Kept, TypeOK
<1> QED
  BY <1>3, <1>9, <1>12, KeptSuffices

\* The evictions that follow them.
LEMMA PasswordEvictStep ==
    ASSUME SessionInv, NEW r \in Requests, ChangeEvict(r) \/ ResetEvict(r)
    PROVE  SessionInv'
<1>1. req' = [req EXCEPT ![r] = Idle]
  BY DEF ChangeEvict, ResetEvict, Return
<1>2. req'[r].pc = "idle"
  BY <1>1 DEF SessionInv, TypeOK, Idle
<1>3. RequestInv(req[r])'
  BY <1>2 DEF RequestInv
<1> QED
  BY <1>1, <1>3, IdleLocal, EvictStep DEF ChangeEvict, ResetEvict

\* The password-reset tokens, expiring keys and the clock.
LEMMA ResetTokenStep ==
    ASSUME SessionInv, NEW u \in Users,
           \/ ForgotPassword(u) \/ ResetTokenDrop(u)
           \/ \E r \in Requests : ResetConsume(r, u)
    PROVE  SessionInv'
<1> USE DEF SessionInv
<1>1. UNCHANGED <<dbVars, cache, stores, tokens, issued, clock, history>>
  BY DEF ForgotPassword, StorePasswordResetToken, ResetTokenDrop, ResetConsume, ParsePasswordResetToken
<1>2. resetTokens' \in [Users -> 0..MaxPassword]
  <2>1. resetTokens[u] \in 0..MaxPassword /\ cred[u] \in 0..MaxPassword
    BY DEF TypeOK
  <2>2. PICK n \in 0..MaxPassword : resetTokens' = [resetTokens EXCEPT ![u] = n]
    BY <2>1 DEF ForgotPassword, StorePasswordResetToken, ResetTokenDrop, ResetConsume, ParsePasswordResetToken
  <2> QED
    BY <2>2 DEF TypeOK
<1>3. OnlyRevokes /\ RowInv'
  BY <1>1, RowsUnchanged DEF dbVars, history
<1>4. /\ req' \in [Requests -> Local]
      /\ \A r \in Requests : req'[r] = req[r] \/ RequestInv(req[r])'
  <2>1. ASSUME NEW r \in Requests, ResetConsume(r, u)
        PROVE  /\ req' \in [Requests -> Local]
               /\ \A s \in Requests : req'[s] = req[s] \/ RequestInv(req[s])'
    <3> DEFINE q == [Idle EXCEPT !.pc = "reset_list", !.user = u]
    <3>1. q \in Local
      BY IdleLocal DEF Local, PC
    <3>2. req' = [req EXCEPT ![r] = q]
      BY <2>1 DEF ResetConsume, ParsePasswordResetToken
    <3>3. RequestInv(req[r])'
      BY <3>2 DEF RequestInv, Idle, TypeOK
    <3> QED
      BY <3>1, <3>2, <3>3 DEF TypeOK
  <2> QED
    BY <2>1 DEF ForgotPassword, StorePasswordResetToken, ResetTokenDrop, TypeOK
<1>5. TypeOK'
  BY <1>1, <1>2, <1>4 DEF TypeOK, dbVars, history
<1>6. Kept
  BY <1>1, <1>3, <1>4 DEF Kept
<1> QED
  BY <1>3, <1>5, <1>6, KeptSuffices

LEMMA EnvironmentStep ==
    ASSUME SessionInv, Tick \/ \E t \in Token : CacheDrop(t)
    PROVE  SessionInv'
<1> USE DEF SessionInv
<1>1. UNCHANGED <<dbVars, resetTokens, req, stores, tokens, issued, history>>
  BY DEF Tick, CacheDrop, redisVars
<1>2. /\ cache' \in [Token -> Copy]
      /\ \A t \in Token : cache'[t] \in {cache[t], NoCopy}
  <2>1. CASE Tick
    BY <2>1 DEF Tick, redisVars, TypeOK
  <2>2. ASSUME NEW u \in Token, CacheDrop(u)
        PROVE  TryEvict({u})
    BY <2>2 DEF CacheDrop, TryEvict
  <2> QED
    BY <2>1, <2>2, TryEvictStep
<1>3. clock' \in 0..MaxClock
  <2>1. CASE Tick
    BY <2>1 DEF Tick, TypeOK
  <2>2. CASE \E t \in Token : CacheDrop(t)
    BY <2>2 DEF CacheDrop, TypeOK
  <2> QED
    BY <2>1, <2>2
<1>4. OnlyRevokes /\ RowInv'
  BY <1>1, RowsUnchanged DEF dbVars, history
<1>5. TypeOK'
  BY <1>1, <1>2, <1>3 DEF TypeOK, dbVars, history
<1>6. Kept
  BY <1>1, <1>2, <1>4 DEF Kept
<1> QED
  BY <1>4, <1>5, <1>6, KeptSuffices

LEMMA StutterStep ==
    ASSUME SessionInv, UNCHANGED vars
    PROVE  SessionInv'
<1> USE DEF SessionInv, vars, dbVars, redisVars, history
<1>1. TypeOK'
  BY DEF TypeOK
<1>2. OnlyRevokes /\ RowInv'
  BY RowsUnchanged
<1>3. Kept
  BY <1>2 DEF Kept
<1> QED
  BY <1>1, <1>2, <1>3, KeptSuffices

\* Every step keeps the invariant.
LEMMA SessionInvStep == SessionInv /\ [Next]_vars => SessionInv'
<1> SUFFICES ASSUME SessionInv, [Next]_vars PROVE SessionInv'
  OBVIOUS
<1>1. ASSUME NEW r \in Requests, Change(r) PROVE SessionInv'
  BY <1>1, PasswordBeginStep, PasswordCommitStep, PasswordEvictStep DEF Change
<1>2. ASSUME NEW r \in Requests, Reset(r) PROVE SessionInv'
  BY <1>2, ResetTokenStep, PasswordBeginStep, PasswordCommitStep, PasswordEvictStep DEF Reset
<1>3. ASSUME NEW r \in Requests, Abort(r) PROVE SessionInv'
  BY <1>3, ReturnStep DEF Abort
<1> QED
  BY <1>1, <1>2, <1>3, LoginStep, RefreshStep, BackgroundStoreStep, RevocationStep,
     ResetTokenStep, EnvironmentStep, StutterStep DEF Next

-----------------------------------------------------------------------------
\* Whatever the devices, the requests in flight and their interleaving, the rows
\* of user_sessions and every copy of a session (in Redis, in RefreshToken's
\* goroutines, in the requests) stay consistent.
THEOREM SessionInvariant == Spec => []SessionInv
<1>1. Init => SessionInv
  <2> SUFFICES ASSUME Init PROVE SessionInv
    OBVIOUS
  <2> USE DEF Init
  <2>1. NoRow \in Row /\ NoCopy \in Copy
    BY DEF NoRow, NoCopy, Row, Copy
  <2>2. TypeOK
    BY <2>1, IdleLocal DEF TypeOK
  <2>3. RowInv
    BY DEF RowInv, HasRow, NoRow
  <2> QED
    BY <2>2, <2>3, IdleLocal DEF SessionInv
<1> QED
  BY <1>1, SessionInvStep, PTL DEF Spec

\* The tables, the cache and the local variables of the requests keep their types.
THEOREM TypeCorrect == Spec => []TypeOK
<1>1. SessionInv => TypeOK
  BY DEF SessionInv
<1> QED
  BY <1>1, SessionInvariant, PTL

\* However RefreshToken's cached and goroutine-borne copies are delayed, a revoked
\* session is rotated at most once more.
THEOREM AtMostOneLateRotation == Spec => []RevocationBitesWithinOneRotation
<1>1. SessionInv => RevocationBitesWithinOneRotation
  BY DEF SessionInv, RowInv, RevocationBitesWithinOneRotation
<1> QED
  BY <1>1, SessionInvariant, PTL

\* The session cache never turns away a client whose row passes the checks.
THEOREM CacheIsLenient == Spec => []CacheNeverCondemns
<1>1. SessionInv => CacheNeverCondemns
  <2> SUFFICES ASSUME SessionInv, NEW d \in Devices, HasRow(d),
                      cache[sessions[d].hash] # NoCopy,
                      Validated(CopyOf(d, sessions[d]), clock)
               PROVE  /\ cache[sessions[d].hash].device = d
                      /\ Validated(cache[sessions[d].hash], clock)
    BY DEF CacheNeverCondemns
  <2>1. sessions[d].hash \in Token
    BY DEF SessionInv, TypeOK, Row, HasRow
  <2>2. Backed(cache[sessions[d].hash], sessions[d].hash)
    BY <2>1 DEF SessionInv
  <2> QED
    BY <2>2 DEF Backed, Validated, CopyOf
<1> QED
  BY <1>1, SessionInvariant, PTL

\* RefreshToken only extends sessions that had not expired when it was called.
THEOREM NoRotationAfterExpiry == Spec => []RotationWithinLifetime
<1>1. SessionInv => RotationWithinLifetime
  <2> SUFFICES ASSUME SessionInv, NEW r \in Requests, NEW d \in Devices,
                      req[r].pc = "refresh_rotate", sessions[d].hash = req[r].old
               PROVE  req[r].now <= sessions[d].expires
    BY DEF RotationWithinLifetime
  <2>1. Validated(req[r].copy, req[r].now) /\ Backed(req[r].copy, req[r].old)
    BY DEF SessionInv, RequestInv
  <2>2. req[r].now \in Nat /\ sessions[d].expires \in Nat
    BY DEF SessionInv, TypeOK, Local, Row
  <2> QED
    BY <2>1, <2>2 DEF Validated, Backed
<1> QED
  BY <1>1, SessionInvariant, PTL

-----------------------------------------------------------------------------
\* The rotation of row d by request r.
Rotates(r, d) ==
    /\ LockedRow(r, d)
    /\ req[r].old \in Token
    /\ tokens < MaxToken
    /\ tokens' = tokens + 1
    /\ sessions' = [sessions EXCEPT ![d] = Rotated(@, tokens + 1, req[r].now)]
    /\ rotations' = rotations \cup {<<req[r].old, tokens + 1>>}
    /\ late[d] = 0 /\ late' = [late EXCEPT ![d] = IF sessions[d].revoked THEN 1 ELSE 0]

\* A step either opens a session, rotates one, or only revokes.
LEMMA RowSteps ==
    ASSUME SessionInv, [Next]_vars
    PROVE  \/ \E r \in Requests : LoginUpsert(r)
           \/ \E r \in Requests, d \in Devices : Rotates(r, d)
           \/ OnlyRevokes /\ UNCHANGED rotations
<1> DEFINE Goal == \/ \E r \in Requests : LoginUpsert(r)
                   \/ \E r \in Requests, d \in Devices : Rotates(r, d)
                   \/ OnlyRevokes /\ UNCHANGED rotations
<1>1. ASSUME UNCHANGED <<sessions, tokens, late, rotations>> PROVE Goal
  BY <1>1, RowsUnchanged
<1> USE DEF dbVars, redisVars, history
<1>2. ASSUME NEW r \in Requests, Login(r) PROVE Goal
  BY <1>1, <1>2 DEF Login, LoginVerify, GetByUserID, LoginDevice, UpsertDevice, LoginOldSession, LoginEvict, LoginStore
<1>3. ASSUME NEW r \in Requests, RefreshRotate(r) PROVE Goal
  <2>1. req[r].old \in Token /\ Validated(req[r].copy, req[r].now) /\ Backed(req[r].copy, req[r].old)
    BY <1>3 DEF RefreshRotate, SessionInv, RequestInv
  <2>2. ASSUME NEW d \in Devices, LockedRow(r, d) PROVE late[d] = 0
    BY <2>1, <2>2 DEF LockedRow, Backed, Validated, SessionInv, RowInv
  <2> QED
    BY <1>1, <1>3, <2>1, <2>2 DEF RefreshRotate, Rotates
<1>4. ASSUME NEW r \in Requests, Refresh(r) PROVE Goal
  BY <1>1, <1>3, <1>4 DEF Refresh, RefreshLookup, GetSession, RefreshLookupDB, RefreshEvict
<1>5. ASSUME NEW r \in Requests, ChangeCommit(r) \/ ResetCommit(r) PROVE Goal
  BY <1>5, RevokeAllStep DEF ChangeCommit, UpdatePasswordHash, ResetCommit
<1>6. ASSUME NEW r \in Requests, Change(r) \/ Reset(r) PROVE Goal
  BY <1>1, <1>5, <1>6 DEF Change, ChangeVerify, ChangeList, ChangeEvict,
                          Reset, ResetConsume, ParsePasswordResetToken, ResetList, ResetEvict
<1>7. ASSUME NEW d \in Devices, Logout(d) \/ RevokeDevice(d) PROVE Goal
  BY <1>7, LogoutRevokes, RevokeAllStep DEF Logout, RevokeDevice, RevokedDevices
<1>8. ASSUME NEW u \in Users, RevokeAllSessions(u) PROVE Goal
  BY <1>8, RevokeAllStep DEF RevokeAllSessions
<1>9. ASSUME NEW r \in Requests, Abort(r) PROVE Goal
  BY <1>1, <1>9 DEF Abort
<1>10. ASSUME NEW s \in stores, BackgroundStore(s) PROVE Goal
  BY <1>1, <1>10 DEF BackgroundStore
<1>11. ASSUME NEW u \in Users, ForgotPassword(u) \/ ResetTokenDrop(u) PROVE Goal
  BY <1>1, <1>11 DEF ForgotPassword, StorePasswordResetToken, ResetTokenDrop
<1>12. ASSUME Tick \/ \E t \in Token : CacheDrop(t) PROVE Goal
  BY <1>1, <1>12 DEF Tick, CacheDrop
<1>13. ASSUME UNCHANGED vars PROVE Goal
  BY <1>1, <1>13 DEF vars
<1> HIDE DEF Goal
<1>14. Goal
  BY <1>2, <1>4, <1>6, <1>7, <1>8, <1>9, <1>10, <1>11, <1>12, <1>13 DEF Next
<1> QED
  BY <1>14 DEF Goal

\* A revoked row comes back to life only through Login's upsert, with a token that
\* no client has seen.
THEOREM RevocationIsFinal == Spec => RevocationSticks
<1>1. ASSUME SessionInv, [Next]_vars, NEW d \in Devices,
             sessions[d].revoked, ~sessions'[d].revoked
      PROVE  /\ \E r \in Requests : LoginUpsert(r) /\ req[r].dev = d
             /\ sessions'[d].hash \notin issued
  <2> USE <1>1 DEF SessionInv
  <2>1. ASSUME NEW r \in Requests, NEW e \in Devices, Rotates(r, e) PROVE FALSE
    <3>1. /\ sessions[e] \in Row
          /\ d # e => sessions'[d] = sessions[d]
          /\ sessions'[e] = Rotated(sessions[e], tokens + 1, req[r].now)
      BY <2>1 DEF Rotates, TypeOK
    <3>2. Rotated(sessions[e], tokens + 1, req[r].now).revoked = sessions[e].revoked
      BY <3>1 DEF Rotated, Row
    <3> QED
      BY <3>1, <3>2
  <2>2. PICK r \in Requests : LoginUpsert(r)
    BY <2>1, RowSteps DEF OnlyRevokes
  <2>3. req[r].dev \in Devices
    BY <2>2 DEF LoginUpsert, UpsertedSession, RequestInv
  <2>4. req[r].dev = d /\ sessions'[d].hash = tokens + 1
    BY <2>2, <2>3 DEF LoginUpsert, UpsertedSession, TypeOK
  <2>5. tokens \in Nat /\ \A t \in issued : t <= tokens
    BY DEF TypeOK
  <2> QED
    BY <2>2, <2>4, <2>5
<1>2. SessionInv /\ [Next]_vars =>
        [\A d \in Devices :
           sessions[d].revoked /\ ~sessions'[d].revoked =>
              /\ \E r \in Requests : LoginUpsert(r) /\ req[r].dev = d
              /\ sessions'[d].hash \notin issued]_vars
  BY <1>1
<1> QED
  BY <1>2, SessionInvariant, PTL DEF Spec, RevocationSticks

-----------------------------------------------------------------------------
\* The session table implements single-use refresh tokens: an upsert of Login is
\* Open, the transaction of RefreshToken is Exchange, a revocation is End.  A
\* validated copy is not revoked, so that the row behind it has not been rotated
\* since its revocation.
THEOREM SessionsImplementTokens == Spec => ImplementsSingleUse
<1> DEFINE cur == [d \in Devices |-> sessions[d].hash]
           over == {d \in Devices : sessions[d].revoked}
           again == {d \in Devices : late[d] > 0}
<1>1. Init => SingleUse!Init
  BY DEF Init, SingleUse!Init, SingleUse!NoToken, NoRow
<1>2. ASSUME SessionInv, [Next]_vars PROVE [SingleUse!Next]_SingleUse!tokenVars
  <2> USE <1>2 DEF SessionInv
  <2>1. tokens \in Nat /\ \A d \in Devices : sessions[d] \in Row
    BY DEF TypeOK
  <2>2. ASSUME tokens < MaxToken, tokens' = tokens + 1
        PROVE  \E t \in SingleUse!Token : t = tokens + 1 /\ SingleUse!Generate(t)
    BY <2>1, <2>2 DEF SingleUse!Token, SingleUse!Generate
  <2>3. ASSUME NEW r \in Requests, LoginUpsert(r) PROVE SingleUse!Next
    <3>1. PICK t \in SingleUse!Token : t = tokens + 1 /\ SingleUse!Generate(t)
      BY <2>2, <2>3 DEF LoginUpsert, UpsertedSession
    <3>2. PICK d \in Devices : d = req[r].dev
      BY <2>3 DEF LoginUpsert, UpsertedSession, RequestInv
    <3>3. /\ sessions'[d].hash = t /\ ~sessions'[d].revoked /\ late'[d] = 0
          /\ \A e \in Devices \ {d} : sessions'[e] = sessions[e] /\ late'[e] = late[e]
          /\ rotations' = rotations
      BY <2>3, <3>1, <3>2 DEF LoginUpsert, UpsertedSession, TypeOK
    <3>4. cur' = [cur EXCEPT ![d] = t] /\ over' = over \ {d} /\ again' = again \ {d}
      <4>1. cur' = [cur EXCEPT ![d] = t]
        BY <3>3
      <4>2. over' = over \ {d}
        BY <3>3
      <4>3. again' = again \ {d}
        BY <3>3
      <4> QED
        BY <4>1, <4>2, <4>3
    <3>5. SingleUse!Open(d, t)
      BY <3>1, <3>3, <3>4 DEF SingleUse!Open
    <3> QED
      BY <3>5 DEF SingleUse!Next
  <2>4. ASSUME NEW r \in Requests, NEW d \in Devices, Rotates(r, d) PROVE SingleUse!Next
    <3>1. PICK t \in SingleUse!Token : t = tokens + 1 /\ SingleUse!Generate(t)
      BY <2>2, <2>4 DEF Rotates
    <3>2. /\ Rotated(sessions[d], t, req[r].now).hash = t
          /\ Rotated(sessions[d], t, req[r].now).revoked = sessions[d].revoked
      BY <2>1 DEF Rotated, Row
    <3>3. /\ sessions'[d] = Rotated(sessions[d], t, req[r].now)
          /\ late[d] = 0 /\ late'[d] = IF sessions[d].revoked THEN 1 ELSE 0
          /\ \A e \in Devices \ {d} : sessions'[e] = sessions[e] /\ late'[e] = late[e]
      BY <2>4, <3>1 DEF Rotates, TypeOK
    <3>4. cur' = [cur EXCEPT ![d] = t] /\ over' = over /\ d \notin again
      <4>1. cur' = [cur EXCEPT ![d] = t]
        BY <3>2, <3>3
      <4>2. over' = over
        BY <3>2, <3>3
      <4>3. d \notin again
        BY <3>3
      <4> QED
        BY <4>1, <4>2, <4>3
    <3>5. again' = again \cup (over \cap {d})
      BY <3>3
    <3>6. cur[d] = req[r].old /\ cur[d] # SingleUse!NoToken
      BY <2>4 DEF Rotates, LockedRow, SingleUse!NoToken
    <3>7. rotations' = rotations \cup {<<cur[d], t>>}
      BY <2>4, <3>1, <3>6 DEF Rotates
    <3>8. SingleUse!Exchange(d, t)
      BY <3>1, <3>4, <3>5, <3>6, <3>7 DEF SingleUse!Exchange
    <3> QED
      BY <3>8 DEF SingleUse!Next
  <2>5. ASSUME OnlyRevokes, UNCHANGED rotations PROVE SingleUse!Next
    <3>1. cur' = cur /\ again' = again /\ over \subseteq over' /\ UNCHANGED tokens
      BY <2>5 DEF OnlyRevokes
    <3>2. PICK ds \in SUBSET Devices : ds = over'
      OBVIOUS
    <3>3. SingleUse!End(ds)
      BY <2>5, <3>1, <3>2 DEF SingleUse!End
    <3> QED
      BY <3>3 DEF SingleUse!Next
  <2> QED
    BY <2>3, <2>4, <2>5, RowSteps
<1>3. SessionInv /\ [Next]_vars => [SingleUse!Next]_SingleUse!tokenVars
  BY <1>2
<1> QED
  BY <1>1, <1>3, SessionInvariant, PTL DEF Spec, ImplementsSingleUse, SingleUse!Spec

-----------------------------------------------------------------------------
\* What RefreshTokens promises holds of the rows: a token that has been exchanged is
\* on no row and is not exchanged again, because a generated token is new to every
\* row and to every earlier exchange.
THEOREM SingleUseInvariant == SingleUse!Spec => []SingleUse!TokensInv
<1> USE DEF SingleUse!Token, SingleUse!NoToken
<1> DEFINE hash(d) == sessions[d].hash
           known == 1..tokens
           over == {d \in Devices : sessions[d].revoked}
           again == {d \in Devices : late[d] > 0}
<1>1. SingleUse!Init => SingleUse!TokensInv
  BY DEF SingleUse!Init, SingleUse!TokensInv, SingleUse!TokensTypeOK, SingleUse!Known,
         SingleUse!CurrentIsUnspent, SingleUse!SingleExchange, SingleUse!ReprieveIsLast
<1> DEFINE Types ==
             /\ \A d \in Devices : hash(d) \in SingleUse!Token \cup {SingleUse!NoToken}
             /\ rotations \in SUBSET (SingleUse!Token \X SingleUse!Token)
             /\ known \in SUBSET SingleUse!Token
           AllKnown ==
             /\ \A d \in Devices : hash(d) # SingleUse!NoToken => hash(d) \in known
             /\ \A p \in rotations : p[1] \in known
           Unspent ==
             /\ \A d \in Devices, p \in rotations : hash(d) # p[1]
             /\ \A d, e \in Devices : hash(d) # SingleUse!NoToken /\ hash(d) = hash(e) => d = e
           Once == \A p, q \in rotations : p[1] = q[1] => p = q
           Last == again \subseteq over
<1>2. /\ SingleUse!TokensInv => Types /\ AllKnown /\ Unspent /\ Once /\ Last
      /\ Types' /\ AllKnown' /\ Unspent' /\ Once' /\ Last' => SingleUse!TokensInv'
  BY DEF SingleUse!TokensInv, SingleUse!TokensTypeOK, SingleUse!Known,
         SingleUse!CurrentIsUnspent, SingleUse!SingleExchange, SingleUse!ReprieveIsLast
<1>3. ASSUME SingleUse!TokensInv, NEW d \in Devices, NEW t \in SingleUse!Token,
             SingleUse!Open(d, t) \/ SingleUse!Exchange(d, t)
      PROVE  SingleUse!TokensInv'
  <2>1. /\ t \notin known /\ known' = known \cup {t}
        /\ hash(d)' = t /\ \A e \in Devices \ {d} : hash(e)' = hash(e)
        /\ \/ rotations' = rotations
           \/ hash(d) # SingleUse!NoToken /\ rotations' = rotations \cup {<<hash(d), t>>}
    BY <1>3 DEF SingleUse!Open, SingleUse!Exchange, SingleUse!Generate
  <2>2. Types /\ AllKnown /\ Unspent /\ Once /\ Last
    BY <1>2, <1>3
  <2> HIDE DEF hash, known
  <2>3. /\ \A p \in rotations' : p \in rotations \/ p = <<hash(d), t>>
        /\ \A p \in rotations : p \in rotations'
        /\ <<hash(d), t>> \in rotations' \ rotations => hash(d) # SingleUse!NoToken
    BY <2>1
  <2>4. Types'
    BY <2>1, <2>2, <2>3
  <2>5. AllKnown'
    BY <2>1, <2>2, <2>3
  <2>6. Unspent'
    BY <2>1, <2>2, <2>3
  <2>7. Once'
    BY <2>1, <2>2, <2>3
  <2>8. Last'
    BY <1>3, <2>2 DEF SingleUse!Open, SingleUse!Exchange
  <2> QED
    BY <1>2, <2>4, <2>5, <2>6, <2>7, <2>8
<1>4. ASSUME SingleUse!TokensInv, NEW ds \in SUBSET Devices,
             SingleUse!End(ds) \/ UNCHANGED SingleUse!tokenVars
      PROVE  SingleUse!TokensInv'
  <2>1. Types /\ AllKnown /\ Unspent /\ Once /\ Last
    BY <1>2, <1>4
  <2>2. /\ \A d \in Devices : hash(d)' = hash(d)
        /\ rotations' = rotations /\ known' = known /\ again' = again /\ over \subseteq over'
    BY <1>4 DEF SingleUse!End, SingleUse!tokenVars
  <2> HIDE DEF hash, known
  <2>3. Types' /\ AllKnown' /\ Unspent' /\ Once'
    BY <2>1, <2>2
  <2> QED
    BY <1>2, <2>1, <2>2, <2>3
<1>5. SingleUse!TokensInv /\ [SingleUse!Next]_SingleUse!tokenVars => SingleUse!TokensInv'
  BY <1>3, <1>4 DEF SingleUse!Next
<1> QED
  BY <1>1, <1>5, PTL DEF SingleUse!Spec

\* A refresh token is exchanged at most once by RefreshToken, however many requests
\* present it and however stale the cache is.
THEOREM RotatedOnce == Spec => []SingleRotation
<1>1. SingleUse!TokensInv => SingleRotation
  BY DEF SingleUse!TokensInv, SingleUse!SingleExchange, SingleRotation
<1> QED
  BY <1>1, SessionsImplementTokens, SingleUseInvariant, PTL DEF ImplementsSingleUse

\* UNIQUE(refresh_token_hash) never fails a login or a refresh, and a spent token
\* is on no row.
THEOREM TokensStayApart == Spec => []TokensNotShared
<1>1. SessionInv /\ SingleUse!TokensInv => TokensNotShared
  BY DEF SessionInv, RowInv, SingleUse!TokensInv, SingleUse!CurrentIsUnspent, TokensNotShared
<1> QED
  BY <1>1, SessionsImplementTokens, SingleUseInvariant, SessionInvariant, PTL DEF ImplementsSingleUse
=============================================================================
