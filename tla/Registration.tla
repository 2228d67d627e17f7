---------------------------- MODULE Registration ----------------------------
(***************************************************************************)
(* AuthService.Register and AuthService.VerifyEmail: users, credentials    *)
(* and outbox events written in one transaction, and the verification      *)
(* token that is stored in Redis in the middle of it.                      *)
(*                                                                         *)
(* A step is one statement against Postgres or one Redis command.  Request *)
(* r inserts the user with id r (ids come from a sequence and are never    *)
(* used twice).  A row is "open" while its transaction is.                 *)
(***************************************************************************)
EXTENDS FiniteSets

CONSTANTS
    Requests,   \* calls of Register
    Emails,
    Verifiers,  \* concurrent calls of VerifyEmail
    None

ASSUME RegistrationConstants == None \notin Requests \cup Emails

VARIABLES
    req,     \* the local state of each registration
    users,   \* the row of each user
    creds,   \* the credential of each user
    events,  \* the outbox event of each registration, which carries the token
    tokens,  \* the verification token of each user in Redis
    ver,     \* the local state of each verification
    wasted   \* history: users whose token a verification took and did not use

vars == <<req, users, creds, events, tokens, ver, wasted>>
verification == <<ver, wasted>>
rows == <<users, creds, events>>

Local == [pc : {"idle", "insert", "credential", "token", "event", "commit", "done"},
          email : Emails \cup {None}, answer : {"none", "created", "exists", "error"}]

Init ==
    /\ req = [r \in Requests |-> [pc |-> "idle", email |-> None, answer |-> "none"]]
    /\ users = [r \in Requests |-> "none"]
    /\ creds = [r \in Requests |-> "none"]
    /\ events = [r \in Requests |-> "none"]
    /\ tokens = [r \in Requests |-> "none"]
    /\ ver = [v \in Verifiers |-> None]
    /\ wasted = {}

-----------------------------------------------------------------------------
(* Register *)

Stored(r) == users[r] \in {"pending", "active"}
Goto(r, pc) == req' = [req EXCEPT ![r].pc = pc]
Answer(r, a) == req' = [req EXCEPT ![r].pc = "done", ![r].answer = a]

\* ExistsByEmail sees the committed rows.
ExistsByEmail(e) == \E s \in Requests : Stored(s) /\ req[s].email = e

CheckEmail(r, e) ==
    /\ req[r].pc = "idle"
    /\ req' = [req EXCEPT ![r] =
                 IF ExistsByEmail(e)
                 THEN [pc |-> "done", email |-> e, answer |-> "exists"]
                 ELSE [pc |-> "insert", email |-> e, answer |-> "none"]]
    /\ UNCHANGED <<rows, tokens, verification>>

\* The unique index on email: an insert waits for an open row with the same
\* email and is refused when a committed one exists.
EmailSettled(r) ==
    \A s \in Requests \ {r} : ~(users[s] = "open" /\ req[s].email = req[r].email)

InsertUserUnchecked(r) ==
    /\ req[r].pc = "insert"
    /\ users' = [users EXCEPT ![r] = "open"]
    /\ Goto(r, "credential")
    /\ UNCHANGED <<creds, events, tokens, verification>>
InsertUserNoWait(r) ==
    /\ req[r].pc = "insert"
    /\ IF ExistsByEmail(req[r].email) \/ ~EmailSettled(r)
       THEN Answer(r, "exists") /\ UNCHANGED users
       ELSE Goto(r, "credential") /\ users' = [users EXCEPT ![r] = "open"]
    /\ UNCHANGED <<creds, events, tokens, verification>>
InsertUser(r) ==
    /\ req[r].pc = "insert"
    /\ EmailSettled(r)
    /\ IF ExistsByEmail(req[r].email)
       THEN Answer(r, "exists") /\ UNCHANGED users
       ELSE Goto(r, "credential") /\ users' = [users EXCEPT ![r] = "open"]
    /\ UNCHANGED <<creds, events, tokens, verification>>

InsertCredential(r) ==
    /\ req[r].pc = "credential"
    /\ creds' = [creds EXCEPT ![r] = "open"]
    /\ Goto(r, "token")
    /\ UNCHANGED <<users, events, tokens, verification>>

\* IssueVerifyToken: a SET in Redis, which no rollback undoes.
IssueVerifyToken(r) ==
    /\ req[r].pc = "token"
    /\ tokens' = [tokens EXCEPT ![r] = "live"]
    /\ Goto(r, "event")
    /\ UNCHANGED <<rows, verification>>

\* PublishUserRegistered records the event with the executor of the transaction.
PublishOutsideTransaction(r) ==
    /\ req[r].pc = "event"
    /\ events' = [events EXCEPT ![r] = "stored"]
    /\ Goto(r, "commit")
    /\ UNCHANGED <<users, creds, tokens, verification>>
PublishUserRegistered(r) ==
    /\ req[r].pc = "event"
    /\ events' = [events EXCEPT ![r] = "open"]
    /\ Goto(r, "commit")
    /\ UNCHANGED <<users, creds, tokens, verification>>

\* The transaction commits; the answer of the server may be lost on the way.
Commit(r) ==
    /\ req[r].pc = "commit"
    /\ users' = [users EXCEPT ![r] = "pending"]
    /\ creds' = [creds EXCEPT ![r] = "stored"]
    /\ events' = [events EXCEPT ![r] = "stored"]
    /\ Answer(r, "created") \/ Answer(r, "error")
    /\ UNCHANGED <<tokens, verification>>

\* A statement, a Redis command or the commit fails, or the client goes away:
\* WithinTransaction rolls back.
RolledBack(row) == IF row = "open" THEN "none" ELSE row
AbortKeepingRows(r) ==
    /\ req[r].pc \notin {"idle", "done"}
    /\ Answer(r, "error")
    /\ UNCHANGED <<rows, tokens, verification>>
Abort(r) ==
    /\ req[r].pc \notin {"idle", "done"}
    /\ users' = [users EXCEPT ![r] = RolledBack(@)]
    /\ creds' = [creds EXCEPT ![r] = RolledBack(@)]
    /\ events' = [events EXCEPT ![r] = RolledBack(@)]
    /\ Answer(r, "error")
    /\ UNCHANGED <<tokens, verification>>

-----------------------------------------------------------------------------
(* VerifyEmail *)

\* ParseVerifyToken: the client has the token from the mail that the committed
\* event caused; GETDEL returns the user and removes the token.
GetWithoutDel(v, r) ==
    /\ ver[v] = None
    /\ events[r] = "stored"
    /\ tokens[r] = "live"
    /\ ver' = [ver EXCEPT ![v] = r]
    /\ UNCHANGED <<req, rows, tokens, wasted>>
ParseVerifyToken(v, r) ==
    /\ ver[v] = None
    /\ events[r] = "stored"
    /\ tokens[r] = "live"
    /\ tokens' = [tokens EXCEPT ![r] = "taken"]
    /\ ver' = [ver EXCEPT ![v] = r]
    /\ UNCHANGED <<req, rows, wasted>>

\* MarkEmailVerified: UPDATE ... WHERE email_verified_at IS NULL.
MarkEmailVerified(v) ==
    /\ ver[v] # None
    /\ users' = [users EXCEPT ![ver[v]] = IF @ = "pending" THEN "active" ELSE @]
    /\ ver' = [ver EXCEPT ![v] = None]
    /\ UNCHANGED <<req, creds, events, tokens, wasted>>

\* The update fails, or the answer of GETDEL was lost: nothing puts the token back.
VerificationFails(v) ==
    /\ ver[v] # None
    /\ wasted' = wasted \cup {ver[v]}
    /\ ver' = [ver EXCEPT ![v] = None]
    /\ UNCHANGED <<req, rows, tokens>>

\* Redis drops the token after 24 hours.
ExpireToken(r) ==
    /\ tokens[r] = "live"
    /\ tokens' = [tokens EXCEPT ![r] = "expired"]
    /\ UNCHANGED <<req, rows, verification>>

Register(r) ==
    \/ InsertUser(r) \/ InsertCredential(r) \/ IssueVerifyToken(r)
    \/ PublishUserRegistered(r) \/ Commit(r)

VerifyEmail(v) ==
    \/ \E r \in Requests : ParseVerifyToken(v, r)
    \/ MarkEmailVerified(v)
    \/ VerificationFails(v)

Next ==
    \/ \E r \in Requests : (\E e \in Emails : CheckEmail(r, e)) \/ Register(r) \/ Abort(r) \/ ExpireToken(r)
    \/ \E v \in Verifiers : VerifyEmail(v)

Spec == Init /\ [][Next]_vars

\* A request that can go on does so in the end; nothing is assumed of failures.
FairSpec == Spec /\ \A r \in Requests : WF_vars(Register(r))

-----------------------------------------------------------------------------
(* Properties *)

\* Type invariant of the requests, the rows and the tokens.
TypeOK ==
    /\ req \in [Requests -> Local]
    /\ users \in [Requests -> {"none", "open", "pending", "active"}]
    /\ creds \in [Requests -> {"none", "open", "stored"}]
    /\ events \in [Requests -> {"none", "open", "stored"}]
    /\ tokens \in [Requests -> {"none", "live", "taken", "expired"}]
    /\ wasted \subseteq Requests
    /\ ver \in [Verifiers -> Requests \cup {None}]

\* However many registrations pass ExistsByEmail at the same time, at most one
\* of them creates the account of an email.
OneUserPerEmail ==
    \A r, s \in Requests : Stored(r) /\ Stored(s) /\ req[r].email = req[s].email => r = s

\* A registration is stored as a whole or not at all, whatever fails: the user,
\* the credential and the event become visible together, and the token in the
\* event was in Redis before anybody could read it.
AllOrNothing ==
    \A r \in Requests :
        /\ Stored(r) <=> creds[r] = "stored"
        /\ Stored(r) <=> events[r] = "stored"
        /\ Stored(r) => tokens[r] # "none"

\* The answers of Register are true: after "created" the account is there, and
\* after ErrEmailAlreadyExist there is an account with this email, even if the
\* registration that was in the way is rolled back.
AnswersAreTrue ==
    \A r \in Requests :
        /\ req[r].answer = "created" => Stored(r)
        /\ req[r].answer = "exists" => ExistsByEmail(req[r].email)

\* What a call of Register has written at each point of its transaction, and that
\* its email belongs to it from the insertion on: no other row, open or committed,
\* has it.
Written(r) ==
    /\ users[r] = "open" <=> req[r].pc \in {"credential", "token", "event", "commit"}
    /\ creds[r] = "open" <=> req[r].pc \in {"token", "event", "commit"}
    /\ events[r] = "open" <=> req[r].pc = "commit"
    /\ req[r].pc \in {"event", "commit"} => tokens[r] \in {"live", "expired"}
    /\ Stored(r) => req[r].pc = "done"
    /\ tokens[r] = "taken" => Stored(r)
OwnsEmail(r) ==
    \A s \in Requests : users[r] # "none" /\ users[s] # "none" /\ req[r].email = req[s].email => r = s

\* The token that activated an account, or is about to, cannot be presented
\* again, and it belongs to an account that is there: GETDEL comes before
\* MarkEmailVerified, and the commit before the event that carries the token.
\* An account that waits for its verification has its token in Redis or in the
\* hands of one verification, unless the token expired or a verification took it
\* and failed, which VerifyEmail does not undo.
TokenIsSpentOnce ==
    /\ \A r \in Requests : users[r] = "active" => tokens[r] = "taken"
    /\ \A v \in Verifiers : ver[v] # None => tokens[ver[v]] = "taken" /\ Stored(ver[v])
    /\ \A r \in Requests : users[r] = "pending" =>
          \/ tokens[r] \in {"live", "expired"}
          \/ r \in wasted
          \/ \E v \in Verifiers : ver[v] = r /\ \A w \in Verifiers \ {v} : ver[w] # r

\* The two together, with the types: an inductive invariant of the component.
RegistrationInv ==
    /\ TypeOK
    /\ \A r \in Requests : Written(r) /\ OwnsEmail(r)
    /\ TokenIsSpentOnce

\* Every call of Register is answered: those that wait for the row of another
\* registration are released by its commit or its rollback.
RegisterReturns ==
    \A r \in Requests : req[r].pc = "insert" ~> req[r].pc = "done"
=============================================================================
