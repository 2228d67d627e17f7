---------------------------- MODULE AccessTokens ----------------------------
(***************************************************************************)
(* Access tokens: what the authentication middlewares let through, and how *)
(* the routes behind them prolong or end the access.                       *)
(*                                                                         *)
(* A step is one HTTP request, which is short against the lifetime of a    *)
(* token.  It carries an access token and, to be refreshed, the cookie of  *)
(* a session; nothing compares the two.  Of the tokens given out for a     *)
(* session the last one is good for the longest, so it stands for all.     *)
(* Sessions are kept to what module AuthSessions shows of them: a refresh  *)
(* needs a session that is neither revoked nor expired, except that one    *)
(* refresh may still get through after a revocation                        *)
(* (AuthSessions!RevocationBitesWithinOneRotation).                        *)
(***************************************************************************)
EXTENDS Integers

CONSTANTS
    Devices,
    Owner,       \* the user of each device
    TTLMinutes,  \* JWT_ACCESS_TOKEN_TTL_MINUTES
    Hour,        \* the minutes of an hour
    SessionTTL,  \* DevicePolicy.MaxSessionTTL, in minutes
    MaxClock     \* bound: minutes that pass

ASSUME AccessConstants ==
    /\ TTLMinutes \in Nat \ {0}
    /\ Hour \in Nat \ {0}
    /\ SessionTTL \in Nat
    /\ MaxClock \in Nat
    /\ TTLMinutes * Hour <= SessionTTL

VARIABLES
    access,     \* the last access token given out for the session of each device
    session,    \* the session row of each device
    blacklist,  \* Redis: blacklist:access_token:*
    clock

accessVars == <<access, session, blacklist, clock>>

\* loadJWTConfig multiplies the minutes of the environment by time.Hour.
AccessTokenTTL == TTLMinutes * Hour

Time    == 0..(MaxClock + SessionTTL)
Claims  == [dev : Devices, iat : 0..MaxClock, exp : Time]
NoClaims(d) == [dev |-> d, iat |-> 0, exp |-> 0]

\* late: whether the one refresh after the revocation is spent, and whose access
\* token came with it.
Session == [status : {"none", "active", "revoked"}, expires : Time,
            revokedAt : 0..MaxClock, late : {"no", "own", "other"}]

AccessInit ==
    /\ access = [d \in Devices |-> NoClaims(d)]
    /\ session = [d \in Devices |->
                    [status |-> "none", expires |-> 0, revokedAt |-> 0, late |-> "no"]]
    /\ blacklist = {}
    /\ clock = 0

-----------------------------------------------------------------------------
(* Tokens and middlewares *)

GenerateAccessToken(d) == [dev |-> d, iat |-> clock, exp |-> clock + AccessTokenTTL]

\* jwt/v5 accepts a token strictly before its exp.
ValidateIgnoringExpiry(t) == t.exp > 0
ValidateAccessToken(t) == clock < t.exp

\* NewAuthMiddleware: the request is served with the claims of a valid token,
\* here the one of device d.
AuthMiddleware(d) == ValidateAccessToken(access[d])

\* No code adds to the blacklist: AddToBlacklist has no caller.
IsTokenBlacklisted(t) == t \in blacklist

\* NewStrictAuthMiddleware runs after AuthMiddleware.  When Redis fails the
\* request is refused, which is the absence of a step.
StrictAuthMiddleware(d) == AuthMiddleware(d) /\ ~IsTokenBlacklisted(access[d])

\* What stands in front of the handler of POST /auth/refresh-token: any valid
\* access token will do, as the handler looks at the cookie only.
RefreshRoute(e) == AuthMiddleware(e)

-----------------------------------------------------------------------------
(* Handlers *)

\* AuthHandler.Login, on a device of the user.
Login(d) ==
    /\ access' = [access EXCEPT ![d] = GenerateAccessToken(d)]
    /\ session' = [session EXCEPT ![d] = [status |-> "active", expires |-> clock + SessionTTL,
                                          revokedAt |-> 0, late |-> "no"]]
    /\ UNCHANGED <<blacklist, clock>>

\* RefreshToken's view of a session: its own checks, and the copy or the
\* request that was validated before the revocation.
RefreshesRevoked(s) == s.status # "none" /\ clock <= s.expires
Refreshable(s) ==
    /\ s.status = "active" \/ (s.status = "revoked" /\ s.late = "no")
    /\ clock <= s.expires

\* AuthHandler.RefreshToken, with the access token of e and the cookie of d.
Late(e, d) == IF session[d].status # "revoked" THEN "no" ELSE IF e = d THEN "own" ELSE "other"
RefreshKeepingExpiry(e, d) ==
    /\ RefreshRoute(e)
    /\ Refreshable(session[d])
    /\ access' = [access EXCEPT ![d] = GenerateAccessToken(d)]
    /\ session' = [session EXCEPT ![d].late = Late(e, d)]
    /\ UNCHANGED <<blacklist, clock>>
RefreshToken(e, d) ==
    /\ RefreshRoute(e)
    /\ Refreshable(session[d])
    /\ access' = [access EXCEPT ![d] = GenerateAccessToken(d)]
    /\ session' = [session EXCEPT ![d] = [@ EXCEPT !.expires = clock + SessionTTL, !.late = Late(e, d)]]
    /\ UNCHANGED <<blacklist, clock>>

Revoked(s) == [s EXCEPT !.status = "revoked", !.revokedAt = clock]

\* AuthHandler.Logout
Logout(d) ==
    /\ AuthMiddleware(d)
    /\ session[d].status = "active"
    /\ session' = [session EXCEPT ![d] = Revoked(@)]
    /\ UNCHANGED <<access, blacklist, clock>>

\* ProfileHandler.RevokeAllSessions: those of the user that have not expired.
RevokeAllSessions(d) ==
    /\ AuthMiddleware(d)
    /\ session' = [e \in Devices |->
                     IF Owner[e] = Owner[d] /\ session[e].status = "active" /\ session[e].expires > clock
                     THEN Revoked(session[e]) ELSE session[e]]
    /\ UNCHANGED <<access, blacklist, clock>>

\* AuthHandler.ChangePassword: every session of the user but the caller's is revoked.
ChangePassword(d) ==
    /\ StrictAuthMiddleware(d)
    /\ session' = [e \in Devices |-> IF Owner[e] = Owner[d] /\ e # d /\ session[e].status = "active"
                                     THEN Revoked(session[e]) ELSE session[e]]
    /\ UNCHANGED <<access, blacklist, clock>>

MinutePasses ==
    /\ clock < MaxClock
    /\ clock' = clock + 1
    /\ UNCHANGED <<access, session, blacklist>>

AccessNext ==
    \/ \E e, d \in Devices : RefreshToken(e, d)
    \/ \E d \in Devices : \/ Login(d) \/ Logout(d)
                          \/ RevokeAllSessions(d) \/ ChangePassword(d)
    \/ MinutePasses

AccessSpec == AccessInit /\ [][AccessNext]_accessVars

-----------------------------------------------------------------------------
(* Properties *)

\* Type invariant of the tokens and the sessions.
AccessTypeOK ==
    /\ access \in [Devices -> Claims]
    /\ session \in [Devices -> Session]
    /\ blacklist \subseteq Claims
    /\ clock \in 0..MaxClock

\* When the access through device d ends: a lifetime from now at most.  After the
\* revocation of its session, a lifetime of an access token from there at most; if
\* the late refresh has been spent, another one from that refresh, for which the
\* session's own token had to be good, or else the session had to be unexpired.
EndsInTime(d) ==
    LET s == session[d] IN
    /\ access[d].exp <= clock + AccessTokenTTL
    /\ s.expires <= clock + SessionTTL
    /\ s.status # "revoked" => s.late = "no"
    /\ s.status = "revoked" =>
          /\ s.late = "no" => /\ access[d].exp <= s.revokedAt + AccessTokenTTL
                              /\ s.expires <= s.revokedAt + SessionTTL
          /\ s.late = "own" => access[d].exp <= s.revokedAt + 2 * AccessTokenTTL
          /\ s.late = "other" => access[d].exp <= s.revokedAt + SessionTTL + AccessTokenTTL

\* Access ends although nothing on the way of a request looks at the session: at
\* most two lifetimes of an access token after the revocation as long as a cookie
\* only travels with the access tokens of its own session, and otherwise at most
\* the lifetime of a session and that of an access token after it, as the copy that
\* lets the last refresh through may be as old as the session.
RevokedAccessEnds ==
    \A d \in Devices :
        /\ EndsInTime(d)
        /\ session[d].status = "revoked" /\ AuthMiddleware(d)
              => clock < session[d].revokedAt + AccessTokenTTL
                         + (IF session[d].late = "other" THEN SessionTTL ELSE AccessTokenTTL)

\* A client whose access token is good never meets ErrSessionExpired: every
\* refresh moves the expiry of the session past that of the token it returns
\* (AccessTypeOK bounds the times that are compared).
SessionOutlivesAccess ==
    /\ AccessTypeOK
    /\ \A d \in Devices : access[d].exp <= session[d].expires
=============================================================================
