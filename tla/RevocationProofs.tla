-------------------------- MODULE RevocationProofs --------------------------
(***************************************************************************)
(* Proofs about AuthSessions, continued: a change of the password cuts the *)
(* sessions off that it does not find in flight.                           *)
(***************************************************************************)
EXTENDS AuthSessionsProofs

USE SessionConstants DEF NoToken, Token, Time

\* Where Login holds the password it verified, and ChangePassword the user it was
\* called by.
LoginPC  == {"login_device", "login_old", "login_evict", "login_upsert"}
ChangePC == {"change_list", "change_commit"}

\* A verified password is the stored one or an older one; the password that changes
\* is that of the owner of the session.
Verified(q, stored) ==
    /\ q.pc \in LoginPC => q.dev \in Devices /\ q.pw <= stored[Owner[q.dev]]
    /\ q.pc \in ChangePC => q.dev \in Devices /\ q.user = Owner[q.dev]
VerifiedInv == \A r \in Requests : Verified(req[r], cred)

\* A request goes on with what it holds, begins with what it reads, or returns.
Moves(q, p) ==
    \/ p = q
    \/ p.pc \notin LoginPC \cup ChangePC
    \/ q.pc \in LoginPC /\ p.pc \in LoginPC /\ p.dev = q.dev /\ p.pw = q.pw
    \/ q.pc \in ChangePC /\ p.pc \in ChangePC /\ p.dev = q.dev /\ p.user = q.user
    \/ p.pc = "login_device" /\ p.dev \in Devices /\ p.pw = cred[Owner[p.dev]]
    \/ p.pc = "change_list" /\ p.dev \in Devices /\ p.user = Owner[p.dev]

\* It is enough to look at the request that takes the step.
LEMMA OneMoves ==
    ASSUME TypeOK, NEW r \in Requests, NEW p, req' = [req EXCEPT ![r] = p], Moves(req[r], p)
    PROVE  \A s \in Requests : Moves(req[s], req'[s])
BY DEF TypeOK, Moves

\* Every step moves the requests so, and never takes a password back.
LEMMA RequestsMove ==
    ASSUME SessionInv, [Next]_vars
    PROVE  /\ \A r \in Requests : Moves(req[r], req'[r])
           /\ \A u \in Users : cred'[u] \in Nat /\ cred[u] <= cred'[u]
<1> USE DEF LoginPC, ChangePC
<1>1. /\ TypeOK /\ \A u \in Users : cred[u] \in Nat
      /\ \A r \in Requests : req[r] \in Local /\ DOMAIN req = Requests
  BY DEF SessionInv, TypeOK
<1>2. ASSUME req' = req PROVE \A r \in Requests : Moves(req[r], req'[r])
  BY <1>2 DEF Moves
<1>3. ASSUME NEW r \in Requests, Return(r) PROVE \A s \in Requests : Moves(req[s], req'[s])
  BY <1>1, <1>3, OneMoves DEF Return, Moves, Idle
<1>4. ASSUME NEW r \in Requests, \A s \in Requests \ {r} : req'[s] = req[s],
             req'[r].dev = req[r].dev, req'[r].pw = req[r].pw, req'[r].user = req[r].user,
             \/ req'[r].pc \notin LoginPC \cup ChangePC
             \/ req[r].pc \in LoginPC /\ req'[r].pc \in LoginPC
             \/ req[r].pc \in ChangePC /\ req'[r].pc \in ChangePC
      PROVE  \A s \in Requests : Moves(req[s], req'[s])
  BY <1>4 DEF Moves
<1> DEFINE Goal == /\ \A r \in Requests : Moves(req[r], req'[r])
                   /\ \A u \in Users : cred'[u] \in Nat /\ cred[u] <= cred'[u]
<1>5. ASSUME cred' = cred, \A r \in Requests : Moves(req[r], req'[r]) PROVE Goal
  BY <1>1, <1>5
<1> HIDE DEF Goal
<1> USE DEF dbVars
<1>6. ASSUME NEW r \in Requests, Login(r) PROVE Goal
  <2>1. ASSUME NEW d \in Devices, LoginVerify(r, d) PROVE Goal
    <3>1. /\ req'[r].pc = "login_device" /\ req'[r].dev = d /\ req'[r].pw = cred[Owner[d]]
          /\ \A s \in Requests \ {r} : req'[s] = req[s]
      BY <1>1, <2>1 DEF LoginVerify, GetByUserID, Idle
    <3> QED
      BY <1>5, <2>1, <3>1 DEF LoginVerify, Moves
  <2>2. ASSUME LoginDevice(r) \/ LoginOldSession(r) \/ LoginEvict(r) \/ LoginUpsert(r) PROVE Goal
    <3>1. /\ \A s \in Requests \ {r} : req'[s] = req[s]
          /\ req'[r].dev = req[r].dev /\ req'[r].pw = req[r].pw /\ req'[r].user = req[r].user
          /\ req[r].pc \in LoginPC /\ req'[r].pc \in LoginPC \cup {"login_store"}
      BY <1>1, <2>2 DEF LoginDevice, LoginOldSession, LoginEvict, LoginUpsert, Goto, Local
    <3> QED
      BY <1>4, <1>5, <2>2, <3>1 DEF LoginDevice, LoginOldSession, LoginEvict, LoginUpsert
  <2>3. CASE LoginStore(r)
    BY <1>3, <1>5, <2>3 DEF LoginStore
  <2> QED
    BY <1>6, <2>1, <2>2, <2>3 DEF Login
<1>7. ASSUME NEW r \in Requests, Refresh(r) PROVE Goal
  <2>1. ASSUME NEW t \in Token, RefreshLookup(r, t) PROVE Goal
    <3>1. /\ \A s \in Requests \ {r} : req'[s] = req[s]
          /\ req'[r].pc \in {"refresh_rotate", "refresh_db"}
      BY <1>1, <2>1 DEF RefreshLookup, Idle
    <3> QED
      BY <1>5, <2>1, <3>1 DEF RefreshLookup, Moves
  <2>2. ASSUME RefreshLookupDB(r) \/ RefreshRotate(r) PROVE Goal
    <3>1. CASE Return(r)
      BY <1>3, <1>5, <2>2, <3>1 DEF RefreshLookupDB, RefreshRotate
    <3>2. CASE ~Return(r)
      <4>1. /\ \A s \in Requests \ {r} : req'[s] = req[s]
            /\ req'[r].pc \in {"refresh_rotate", "refresh_evict"}
        BY <1>1, <2>2, <3>2 DEF RefreshLookupDB, RefreshRotate, Local
      <4> QED
        BY <1>5, <2>2, <4>1 DEF RefreshLookupDB, RefreshRotate, Moves
    <3> QED
      BY <3>1, <3>2
  <2>3. CASE RefreshEvict(r)
    BY <1>3, <1>5, <2>3 DEF RefreshEvict
  <2> QED
    BY <1>7, <2>1, <2>2, <2>3 DEF Refresh
<1>8. ASSUME NEW r \in Requests, ChangeCommit(r) \/ ResetCommit(r) PROVE Goal
  <2>1. /\ \A s \in Requests \ {r} : req'[s] = req[s]
        /\ req'[r].pc \notin LoginPC \cup ChangePC
    BY <1>1, <1>8 DEF ChangeCommit, ResetCommit, Goto, Local
  <2>2. \A s \in Requests : Moves(req[s], req'[s])
    BY <2>1 DEF Moves
  <2>3. PICK v \in Users : v = req[r].user
    BY <1>8 DEF SessionInv, RequestInv, ChangeCommit, ResetCommit
  <2>4. cred' = [cred EXCEPT ![v] = cred[v] + 1]
    BY <1>8, <2>3 DEF ChangeCommit, ResetCommit, UpdatePasswordHash
  <2>5. ASSUME NEW u \in Users PROVE cred'[u] \in Nat /\ cred[u] <= cred'[u]
    <3>1. cred'[u] = IF u = v THEN cred[u] + 1 ELSE cred[u]
      BY <2>4 DEF SessionInv, TypeOK
    <3> QED
      BY <1>1, <3>1
  <2> QED
    BY <2>2, <2>5 DEF Goal
<1>9. ASSUME NEW r \in Requests, Change(r) PROVE Goal
  <2>1. ASSUME NEW d \in Devices, ChangeVerify(r, d) PROVE Goal
    <3>1. /\ req'[r].pc = "change_list" /\ req'[r].dev = d /\ req'[r].user = Owner[d]
          /\ \A s \in Requests \ {r} : req'[s] = req[s]
      BY <1>1, <2>1 DEF ChangeVerify, Idle
    <3> QED
      BY <1>5, <2>1, <3>1 DEF ChangeVerify, Moves
  <2>2. CASE ChangeList(r)
    <3>1. /\ \A s \in Requests \ {r} : req'[s] = req[s]
          /\ req'[r].dev = req[r].dev /\ req'[r].pw = req[r].pw /\ req'[r].user = req[r].user
          /\ req[r].pc \in ChangePC /\ req'[r].pc \in ChangePC
      BY <1>1, <2>2 DEF ChangeList, Local
    <3> QED
      BY <1>4, <1>5, <2>2, <3>1 DEF ChangeList
  <2>3. CASE ChangeEvict(r)
    BY <1>3, <1>5, <2>3 DEF ChangeEvict
  <2> QED
    BY <1>8, <1>9, <2>1, <2>2, <2>3 DEF Change
<1>10. ASSUME NEW r \in Requests, Reset(r) PROVE Goal
  <2>1. ASSUME NEW u \in Users, ResetConsume(r, u) PROVE Goal
    <3>1. req'[r].pc = "reset_list" /\ \A s \in Requests \ {r} : req'[s] = req[s]
      BY <1>1, <2>1 DEF ResetConsume, Idle
    <3> QED
      BY <1>5, <2>1, <3>1 DEF ResetConsume, Moves
  <2>2. CASE ResetList(r)
    <3>1. req'[r].pc = "reset_commit" /\ \A s \in Requests \ {r} : req'[s] = req[s]
      BY <1>1, <2>2 DEF ResetList, Local
    <3> QED
      BY <1>5, <2>2, <3>1 DEF ResetList, Moves
  <2>3. CASE ResetEvict(r)
    BY <1>3, <1>5, <2>3 DEF ResetEvict
  <2> QED
    BY <1>8, <1>10, <2>1, <2>2, <2>3 DEF Reset
<1>11. ASSUME NEW r \in Requests, Abort(r) PROVE Goal
  BY <1>3, <1>5, <1>11 DEF Abort
<1>12. ASSUME req' = req, cred' = cred PROVE Goal
  BY <1>2, <1>5, <1>12
<1>13. ASSUME NEW s \in stores, BackgroundStore(s) PROVE Goal
  BY <1>12, <1>13 DEF BackgroundStore
<1>14. ASSUME NEW d \in Devices, Logout(d) \/ RevokeDevice(d) PROVE Goal
  BY <1>12, <1>14 DEF Logout, RevokeDevice
<1>15. ASSUME NEW u \in Users, RevokeAllSessions(u) \/ ForgotPassword(u) \/ ResetTokenDrop(u) PROVE Goal
  BY <1>12, <1>15 DEF RevokeAllSessions, ForgotPassword, ResetTokenDrop
<1>16. ASSUME Tick \/ (\E t \in Token : CacheDrop(t)) \/ UNCHANGED vars PROVE Goal
  BY <1>12, <1>16 DEF Tick, CacheDrop, vars
<1>17. Goal
  BY <1>6, <1>7, <1>9, <1>10, <1>11, <1>13, <1>14, <1>15, <1>16 DEF Next
<1> QED
  BY <1>17 DEF Goal

\* What was verified stays verified, as passwords only move on.
LEMMA VerifiedStep == SessionInv /\ VerifiedInv /\ [Next]_vars => VerifiedInv'
<1> SUFFICES ASSUME SessionInv, VerifiedInv, [Next]_vars, NEW r \in Requests
             PROVE  Verified(req'[r], cred')
  BY DEF VerifiedInv, Verified
<1>1. Verified(req[r], cred)
  BY DEF VerifiedInv
<1>2. /\ Moves(req[r], req'[r])
      /\ \A u \in Users : cred'[u] \in Nat /\ cred[u] <= cred'[u]
  BY RequestsMove
<1>3. TypeOK
  BY DEF SessionInv
<1>4. req[r].pw \in Nat /\ \A u \in Users : cred[u] \in Nat
  BY <1>3 DEF TypeOK, Local
<1>5. \A d \in Devices : Owner[d] \in Users
  OBVIOUS
<1> QED
  BY <1>1, <1>2, <1>4, <1>5 DEF Verified, Moves, LoginPC, ChangePC

\* It holds in every reachable state.
LEMMA AlwaysVerified == Spec => []VerifiedInv
<1>1. Init => VerifiedInv
  BY DEF Init, VerifiedInv, Verified, Idle, LoginPC, ChangePC
<1> QED
  BY <1>1, VerifiedStep, SessionInvariant, PTL DEF Spec

\* A session that a password no longer stored has opened, and that is usable.
Escaped(d) == ActiveRow(d) /\ vouch[d] # cred[Owner[d]]

\* A step that neither opens, rotates nor changes a password lets none escape: rows
\* are at most revoked and get no longer to live.
LEMMA QuietStep ==
    ASSUME SessionInv, UNCHANGED <<cred, vouch>>, OnlyRevokes, clock <= clock', clock' \in Nat,
           NEW d \in Devices, Escaped(d)'
    PROVE  Escaped(d)
<1>1. sessions[d].expires \in Nat /\ clock \in Nat
  BY DEF SessionInv, TypeOK, Row, Time
<1> QED
  BY <1>1 DEF Escaped, ActiveRow, HasRow, OnlyRevokes

\* Every other step is a quiet one.
LEMMA QuietSteps ==
    ASSUME SessionInv, [Next]_vars
    PROVE  \/ \E r \in Requests : LoginUpsert(r) \/ RefreshRotate(r) \/ ChangeCommit(r) \/ ResetCommit(r)
           \/ UNCHANGED <<cred, vouch>> /\ OnlyRevokes /\ clock <= clock' /\ clock' \in Nat
<1> DEFINE Quiet == UNCHANGED <<cred, vouch>> /\ OnlyRevokes /\ clock <= clock' /\ clock' \in Nat
           Goal == \/ \E r \in Requests : \/ LoginUpsert(r) \/ RefreshRotate(r)
                                          \/ ChangeCommit(r) \/ ResetCommit(r)
                   \/ Quiet
<1>1. clock \in Nat
  BY DEF SessionInv, TypeOK
<1>2. ASSUME UNCHANGED <<sessions, cred, vouch, late, tokens>>, clock' \in {clock, clock + 1} PROVE Goal
  BY <1>1, <1>2, RowsUnchanged
<1>3. ASSUME UNCHANGED <<cred, vouch, clock>>, OnlyRevokes PROVE Goal
  BY <1>1, <1>3
<1> HIDE DEF Quiet
<1> USE DEF dbVars, redisVars, history
<1>4. ASSUME NEW r \in Requests, Login(r) PROVE Goal
  <2>1. CASE LoginUpsert(r)
    BY <2>1
  <2>2. CASE ~LoginUpsert(r)
    <3>1. UNCHANGED <<sessions, cred, vouch, late, tokens, clock>>
      BY <1>4, <2>2 DEF Login, LoginVerify, LoginDevice, LoginOldSession, LoginEvict, LoginStore
    <3> QED
      BY <1>2, <3>1
  <2> QED
    BY <2>1, <2>2
<1>5. ASSUME NEW r \in Requests, Refresh(r) PROVE Goal
  <2>1. CASE RefreshRotate(r)
    BY <2>1
  <2>2. CASE ~RefreshRotate(r)
    <3>1. UNCHANGED <<sessions, cred, vouch, late, tokens, clock>>
      BY <1>5, <2>2 DEF Refresh, RefreshLookup, RefreshLookupDB, RefreshEvict
    <3> QED
      BY <1>2, <3>1
  <2> QED
    BY <2>1, <2>2
<1>6. ASSUME NEW r \in Requests, Change(r) \/ Reset(r) PROVE Goal
  <2>1. CASE ChangeCommit(r) \/ ResetCommit(r)
    BY <2>1
  <2>2. CASE ~(ChangeCommit(r) \/ ResetCommit(r))
    <3>1. UNCHANGED <<sessions, cred, vouch, late, tokens, clock>>
      BY <1>6, <2>2 DEF Change, ChangeVerify, ChangeList, ChangeEvict,
                        Reset, ResetConsume, ParsePasswordResetToken, ResetList, ResetEvict
    <3> QED
      BY <1>2, <3>1
  <2> QED
    BY <2>1, <2>2
<1>7. ASSUME NEW d \in Devices, Logout(d) \/ RevokeDevice(d) PROVE Goal
  BY <1>3, <1>7, LogoutRevokes, RevokeAllStep DEF Logout, RevokeDevice, RevokedDevices
<1>8. ASSUME NEW u \in Users, RevokeAllSessions(u) PROVE Goal
  BY <1>3, <1>8, RevokeAllStep DEF RevokeAllSessions
<1>9. ASSUME NEW r \in Requests, Abort(r) PROVE Goal
  BY <1>2, <1>9 DEF Abort
<1>10. ASSUME NEW s \in stores, BackgroundStore(s) PROVE Goal
  BY <1>2, <1>10 DEF BackgroundStore
<1>11. ASSUME NEW u \in Users, ForgotPassword(u) \/ ResetTokenDrop(u) PROVE Goal
  BY <1>2, <1>11 DEF ForgotPassword, ResetTokenDrop
<1>12. ASSUME Tick \/ \E t \in Token : CacheDrop(t) PROVE Goal
  BY <1>2, <1>12 DEF Tick, CacheDrop
<1>13. ASSUME UNCHANGED vars PROVE Goal
  BY <1>2, <1>13 DEF vars
<1> HIDE DEF Goal
<1>14. Goal
  BY <1>4, <1>5, <1>6, <1>7, <1>8, <1>9, <1>10, <1>11, <1>12, <1>13 DEF Next
<1> QED
  BY <1>14 DEF Goal, Quiet

\* A password change revokes every usable session of the user but the caller's,
\* which it vouches for.
LEMMA ChangeLetsNoneEscape ==
    ASSUME SessionInv, VerifiedInv, NEW r \in Requests, ChangeCommit(r) \/ ResetCommit(r),
           NEW d \in Devices, Escaped(d)'
    PROVE  Escaped(d)
<1>1. PICK u \in Users : u = req[r].user
  BY DEF SessionInv, RequestInv, ChangeCommit, ResetCommit
<1>2. /\ clock' = clock /\ cred' = [cred EXCEPT ![u] = cred[u] + 1]
      /\ sessions[d] \in Row /\ Owner[d] \in Users
  BY <1>1 DEF ChangeCommit, ResetCommit, UpdatePasswordHash, SessionInv, TypeOK
<1>3. ~sessions'[d].revoked /\ sessions'[d].expires > clock /\ sessions'[d].hash # NoToken
      /\ vouch'[d] # cred'[Owner[d]]
  BY <1>2 DEF Escaped, ActiveRow, HasRow
<1>4. sessions'[d] = sessions[d]
      \/ sessions'[d] = [sessions[d] EXCEPT !.revoked = TRUE] \/ sessions'[d] = RevokeRow(sessions[d])
  BY DEF ChangeCommit, ResetCommit, RevokeAllExcept, RevokeAllByUserID
<1>5. sessions'[d] = sessions[d]
  BY <1>2, <1>3, <1>4 DEF RevokeRow, Row
<1>6. ActiveRow(d) /\ sessions[d].status = "active"
  BY <1>3, <1>5 DEF ActiveRow, HasRow, SessionInv, RowInv
<1>7. CASE Owner[d] # u
  <2>1. cred'[Owner[d]] = cred[Owner[d]]
    BY <1>2, <1>7 DEF SessionInv, TypeOK
  <2>2. vouch'[d] = vouch[d]
    <3>1. CASE ResetCommit(r)
      BY <3>1 DEF ResetCommit, history
    <3>2. CASE ChangeCommit(r)
      <4>1. Owner[req[r].dev] = u /\ req[r].dev \in Devices
        BY <1>1, <3>2 DEF ChangeCommit, VerifiedInv, Verified, ChangePC
      <4> QED
        BY <1>7, <3>2, <4>1 DEF ChangeCommit, SessionInv, TypeOK
    <3> QED
      BY <3>1, <3>2
  <2> QED
    BY <1>3, <1>6, <2>1, <2>2 DEF Escaped
<1>8. CASE Owner[d] = u
  <2>1. CASE ResetCommit(r)
    <3>1. d \in ListActiveByUserID(u)
      BY <1>6, <1>8 DEF ListActiveByUserID
    <3>2. sessions'[d] = [sessions[d] EXCEPT !.revoked = TRUE]
      BY <1>1, <2>1, <3>1 DEF ResetCommit, RevokeAllByUserID
    <3> QED
      BY <1>2, <1>3, <3>2 DEF Row
  <2>2. CASE ChangeCommit(r)
    <3>1. CASE req[r].dev = d
      <4>1. vouch'[d] = cred[u] + 1 /\ cred'[Owner[d]] = cred[u] + 1
        BY <1>1, <1>2, <1>8, <2>2, <3>1 DEF ChangeCommit, SessionInv, TypeOK
      <4> QED
        BY <1>3, <4>1
    <3>2. CASE req[r].dev # d
      <4>1. sessions'[d] = RevokeRow(sessions[d])
        BY <1>1, <1>3, <1>5, <1>6, <1>8, <2>2, <3>2 DEF ChangeCommit, RevokeAllExcept
      <4> QED
        BY <1>2, <1>3, <4>1 DEF RevokeRow, Row
    <3> QED
      BY <3>1, <3>2
  <2> QED
    BY <2>1, <2>2
<1> QED
  BY <1>7, <1>8

\* A login or a refresh in flight is the only way a session outlives the password it
\* was opened with.
THEOREM PasswordChangesCutOff == Spec => PasswordChangeCutsOff
<1>1. ASSUME SessionInv, VerifiedInv, [Next]_vars, NEW d \in Devices, ~Escaped(d), Escaped(d)'
      PROVE  \E r \in Requests :
               \/ LoginUpsert(r) /\ req[r].dev = d /\ req[r].pw < cred[Owner[d]]
               \/ RefreshRotate(r) /\ HasRow(d) /\ sessions[d].expires <= clock
  <2>1. PICK r \in Requests : LoginUpsert(r) \/ RefreshRotate(r)
    BY <1>1, QuietSteps, QuietStep, ChangeLetsNoneEscape
  <2>2. /\ sessions[d] \in Row /\ Owner[d] \in Users /\ clock \in Nat /\ cred[Owner[d]] \in Nat
        /\ clock' = clock /\ cred' = cred
    BY <1>1, <2>1 DEF SessionInv, TypeOK, LoginUpsert, RefreshRotate
  <2>3. CASE LoginUpsert(r)
    <3>1. req[r].dev \in Devices /\ req[r].pw <= cred[Owner[req[r].dev]] /\ req[r].pw \in Nat
      BY <1>1, <2>3 DEF LoginUpsert, VerifiedInv, Verified, LoginPC, SessionInv, TypeOK, Local
    <3>2. req[r].dev = d
      <4>1. req[r].dev # d => sessions'[d] = sessions[d] /\ vouch'[d] = vouch[d]
        BY <1>1, <2>3, <3>1 DEF LoginUpsert, SessionInv, TypeOK
      <4> QED
        BY <1>1, <2>2, <4>1 DEF Escaped, ActiveRow, HasRow
    <3>3. vouch'[d] = req[r].pw
      BY <1>1, <2>3, <3>2 DEF LoginUpsert, SessionInv, TypeOK
    <3>4. req[r].pw # cred[Owner[d]]
      BY <1>1, <2>2, <3>3 DEF Escaped
    <3> QED
      BY <2>2, <2>3, <3>1, <3>2, <3>4
  <2>4. CASE RefreshRotate(r)
    <3>1. vouch' = vouch
      BY <2>4 DEF RefreshRotate
    <3>2. ~ActiveRow(d) /\ ActiveRow(d)'
      BY <1>1, <2>2, <3>1 DEF Escaped
    <3>3. sessions'[d] # sessions[d]
      BY <2>2, <3>2 DEF ActiveRow, HasRow
    <3>4. /\ sessions[d].hash = req[r].old /\ req[r].old \in Token
          /\ sessions'[d] = Rotated(sessions[d], tokens + 1, req[r].now)
      BY <1>1, <2>4, <3>3 DEF RefreshRotate, LockedRow, SessionInv, RequestInv, TypeOK
    <3>5. sessions'[d].revoked = sessions[d].revoked /\ HasRow(d)
      BY <2>2, <3>4 DEF Rotated, Row, HasRow
    <3>6. ~(sessions[d].expires > clock) /\ sessions[d].expires \in Nat
      BY <2>2, <3>2, <3>5 DEF ActiveRow, Row, Time
    <3> QED
      BY <2>2, <2>4, <3>5, <3>6
  <2> QED
    BY <2>1, <2>3, <2>4
<1>2. SessionInv /\ VerifiedInv /\ [Next]_vars =>
        [\A d \in Devices :
           LET escaped == ActiveRow(d) /\ vouch[d] # cred[Owner[d]] IN
           ~escaped /\ escaped' =>
              \E r \in Requests :
                 \/ LoginUpsert(r) /\ req[r].dev = d /\ req[r].pw < cred[Owner[d]]
                 \/ RefreshRotate(r) /\ HasRow(d) /\ sessions[d].expires <= clock]_vars
  BY <1>1 DEF Escaped
<1> QED
  BY <1>2, SessionInvariant, AlwaysVerified, PTL DEF Spec, PasswordChangeCutsOff
=============================================================================
