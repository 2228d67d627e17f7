------------------------- MODULE RegistrationProofs -------------------------
(***************************************************************************)
(* Proofs about Registration, for any requests, emails and verifications.  *)
(* RegistrationInv with AllOrNothing is inductive; every property but the  *)
(* liveness one follows from it.                                           *)
(***************************************************************************)
EXTENDS Registration, TLAPS

USE RegistrationConstants

Inv == RegistrationInv /\ AllOrNothing

\* A step of request r that leaves all others alone, which is what every step of
\* Register does: only what it has written itself has to be looked at again.
StepOf(r) ==
    /\ \A s \in Requests \ {r} :
          req'[s] = req[s] /\ users'[s] = users[s] /\ creds'[s] = creds[s]
          /\ events'[s] = events[s] /\ tokens'[s] = tokens[s]
    /\ UNCHANGED verification

\* The tables and the requests have their types at first, nothing is written.
LEMMA InitInv == Init => Inv
BY DEF Init, Inv, RegistrationInv, TypeOK, Local, Written, OwnsEmail, Stored,
       TokenIsSpentOnce, AllOrNothing

\* What a step of request r has to establish: the facts about r itself.
LEMMA StepOfSuffices ==
    ASSUME Inv, TypeOK', NEW r \in Requests, StepOf(r), Written(r)',
           users'[r] # "none" => \/ req'[r].email = req[r].email /\ users[r] # "none"
                                 \/ \A s \in Requests \ {r} :
                                       users[s] # "none" => req[s].email # req'[r].email,
           (Stored(r) <=> creds[r] = "stored")',
           (Stored(r) <=> events[r] = "stored")',
           (Stored(r) => tokens[r] # "none")',
           tokens[r] = "taken" => tokens'[r] = "taken" /\ users'[r] = users[r],
           users'[r] = "active" => users[r] = "active",
           users'[r] = "pending" => users[r] = "pending" \/ tokens'[r] \in {"live", "expired"},
           users[r] = "pending" /\ tokens[r] \in {"live", "expired"} => tokens'[r] \in {"live", "expired"}
    PROVE  Inv'
<1> USE DEF Inv, RegistrationInv
<1>1. (\A s \in Requests : Written(s))'
  BY DEF StepOf, Written, Stored
<1>2. (\A s \in Requests : OwnsEmail(s))'
  BY DEF StepOf, OwnsEmail
<1>3. AllOrNothing'
  BY DEF StepOf, AllOrNothing, Stored
<1>4. TokenIsSpentOnce'
  <2>1. ver' = ver /\ wasted' = wasted
    BY DEF StepOf, verification
  <2>2. (\A s \in Requests : users[s] = "active" => tokens[s] = "taken")'
    BY DEF StepOf, TokenIsSpentOnce
  <2>3. (\A v \in Verifiers : ver[v] # None => tokens[ver[v]] = "taken" /\ Stored(ver[v]))'
    BY <2>1 DEF StepOf, TokenIsSpentOnce, Stored, TypeOK
  <2>4. ASSUME NEW s \in Requests, users'[s] = "pending"
        PROVE  (\/ tokens[s] \in {"live", "expired"}
                \/ s \in wasted
                \/ \E v \in Verifiers : ver[v] = s /\ \A w \in Verifiers \ {v} : ver[w] # s)'
    BY <2>1, <2>4 DEF StepOf, TokenIsSpentOnce
  <2> QED
    BY <2>2, <2>3, <2>4 DEF TokenIsSpentOnce
<1> QED
  BY <1>1, <1>2, <1>3, <1>4

\* Moving a request on, or answering it, leaves it a request.
LEMMA LocalType ==
    ASSUME NEW q \in Local,
           NEW pc \in {"idle", "insert", "credential", "token", "event", "commit", "done"},
           NEW a \in {"none", "created", "exists", "error"}
    PROVE  [q EXCEPT !.pc = pc] \in Local /\ [q EXCEPT !.pc = "done", !.answer = a] \in Local
BY DEF Local

\* The requests keep their type when one of them moves on or is answered.
LEMMA ReqType ==
    ASSUME req \in [Requests -> Local], NEW r \in Requests,
           NEW pc \in {"idle", "insert", "credential", "token", "event", "commit", "done"},
           NEW a \in {"none", "created", "exists", "error"},
           Goto(r, pc) \/ Answer(r, a)
    PROVE  req' \in [Requests -> Local]
<1>1. req[r] \in Local
  OBVIOUS
<1>2. [req[r] EXCEPT !.pc = pc] \in Local /\ [req[r] EXCEPT !.pc = "done", !.answer = a] \in Local
  BY <1>1, LocalType
<1> QED
  BY <1>2 DEF Goto, Answer

\* A request that finds its email taken returns, any other goes on to the insertion.
LEMMA CheckEmailInv ==
    ASSUME Inv, NEW r \in Requests, NEW e \in Emails, CheckEmail(r, e)
    PROVE  Inv'
<1> USE DEF CheckEmail, rows, verification
<1>1. TypeOK'
  BY DEF Inv, RegistrationInv, TypeOK, Local
<1>2. StepOf(r)
  BY DEF StepOf, Inv, RegistrationInv, TypeOK
<1>3. users[r] = "none" /\ Written(r)'
  BY DEF Inv, RegistrationInv, TypeOK, Written, Stored, Local
<1> QED
  BY <1>1, <1>2, <1>3, StepOfSuffices DEF Inv, AllOrNothing, Stored

\* A request inserts its row only when no other one, open or committed, has its
\* email: it has waited for the open ones and looked at the committed ones.
LEMMA InsertUserInv ==
    ASSUME Inv, NEW r \in Requests, InsertUser(r)
    PROVE  Inv'
<1>0. req' \in [Requests -> Local]
  BY ReqType DEF InsertUser, Inv, RegistrationInv, TypeOK
<1> USE DEF InsertUser, Answer, Goto, verification
<1>1. TypeOK'
  BY <1>0 DEF Inv, RegistrationInv, TypeOK
<1>2. StepOf(r)
  BY DEF StepOf, Inv, RegistrationInv, TypeOK
<1>3. users[r] = "none" /\ req'[r].email = req[r].email
  BY DEF Inv, RegistrationInv, TypeOK, Written, Stored, Local
<1>4. Written(r)'
  BY <1>3 DEF Inv, RegistrationInv, TypeOK, Written, Stored, Local
<1>5. ASSUME users'[r] # "none", NEW s \in Requests \ {r}, users[s] # "none"
      PROVE  req[s].email # req[r].email
  BY <1>3, <1>5 DEF Inv, RegistrationInv, TypeOK, EmailSettled, ExistsByEmail, Stored
<1>6. ~Stored(r) /\ ~Stored(r)' /\ creds'[r] # "stored" /\ events'[r] # "stored"
  BY <1>3 DEF Inv, RegistrationInv, TypeOK, AllOrNothing, Stored
<1>7. tokens'[r] = tokens[r] /\ tokens[r] # "taken"
  BY <1>6 DEF Inv, RegistrationInv, Written
<1> QED
  BY <1>1, <1>2, <1>3, <1>4, <1>5, <1>6, <1>7, StepOfSuffices DEF Stored

\* The other statements of the transaction, its commit and its rollback.
LEMMA TransactionInv ==
    ASSUME Inv, NEW r \in Requests,
           \/ InsertCredential(r) \/ IssueVerifyToken(r)
           \/ PublishUserRegistered(r) \/ Commit(r) \/ Abort(r)
    PROVE  Inv'
<1> USE DEF InsertCredential, IssueVerifyToken, PublishUserRegistered, Commit, Abort,
            RolledBack, rows, verification
<1>0. req' \in [Requests -> Local]
  BY ReqType DEF Inv, RegistrationInv, TypeOK
<1> USE DEF Answer, Goto
<1>1. TypeOK'
  BY <1>0 DEF Inv, RegistrationInv, TypeOK
<1>2. StepOf(r)
  BY DEF StepOf, Inv, RegistrationInv, TypeOK
<1>3. ~Stored(r) /\ req'[r].email = req[r].email /\ (users'[r] # "none" => users[r] # "none")
  BY DEF Inv, RegistrationInv, TypeOK, Written, Stored, Local
<1>4. creds[r] # "stored" /\ events[r] # "stored" /\ tokens[r] # "taken"
  BY <1>3 DEF Inv, RegistrationInv, AllOrNothing, Written
<1>5. Written(r)'
  BY <1>3, <1>4 DEF Inv, RegistrationInv, TypeOK, Written, Stored, Local
<1>6. /\ (Stored(r) <=> creds[r] = "stored")'
      /\ (Stored(r) <=> events[r] = "stored")'
      /\ (Stored(r) => tokens[r] # "none")'
  BY <1>3, <1>4 DEF Inv, RegistrationInv, TypeOK, Stored, Written
<1>7. users'[r] # "active" /\ (users'[r] = "pending" => tokens'[r] \in {"live", "expired"})
  BY <1>3 DEF Inv, RegistrationInv, TypeOK, Written, Stored
<1> QED
  BY <1>1, <1>2, <1>3, <1>4, <1>5, <1>6, <1>7, StepOfSuffices DEF Stored

\* Redis drops a token that nobody has taken.
LEMMA ExpireTokenInv ==
    ASSUME Inv, NEW r \in Requests, ExpireToken(r)
    PROVE  Inv'
<1> USE DEF ExpireToken, rows, verification
<1>1. TypeOK'
  BY DEF Inv, RegistrationInv, TypeOK
<1>2. StepOf(r) /\ Written(r)'
  BY DEF StepOf, Inv, RegistrationInv, TypeOK, Written, Stored
<1> QED
  BY <1>1, <1>2, StepOfSuffices DEF Inv, RegistrationInv, TypeOK, AllOrNothing, Stored, OwnsEmail

\* A verification takes a live token, which no other one can have.
LEMMA ParseVerifyTokenInv ==
    ASSUME Inv, NEW v \in Verifiers, NEW r \in Requests, ParseVerifyToken(v, r)
    PROVE  Inv'
<1> USE DEF ParseVerifyToken, rows, Inv, RegistrationInv
<1>1. TypeOK'
  BY DEF TypeOK
<1>2. Stored(r) /\ \A w \in Verifiers : ver[w] # r
  BY DEF AllOrNothing, TokenIsSpentOnce
<1>3. (\A s \in Requests : Written(s) /\ OwnsEmail(s))'
  BY <1>2 DEF TypeOK, Written, OwnsEmail, Stored
<1>4. AllOrNothing'
  BY DEF TypeOK, AllOrNothing, Stored
<1>5. TokenIsSpentOnce'
  <2>1. (\A s \in Requests : users[s] = "active" => tokens[s] = "taken")'
    BY DEF TypeOK, TokenIsSpentOnce
  <2>2. (\A w \in Verifiers : ver[w] # None => tokens[ver[w]] = "taken" /\ Stored(ver[w]))'
    BY <1>2 DEF TypeOK, TokenIsSpentOnce, Stored
  <2>3. ASSUME NEW s \in Requests, users'[s] = "pending"
        PROVE  (\/ tokens[s] \in {"live", "expired"}
                \/ s \in wasted
                \/ \E w \in Verifiers : ver[w] = s /\ \A x \in Verifiers \ {w} : ver[x] # s)'
    <3>1. CASE s = r
      BY <1>2, <3>1 DEF TypeOK
    <3>2. CASE s # r
      BY <2>3, <3>2 DEF TypeOK, TokenIsSpentOnce
    <3> QED
      BY <3>1, <3>2
  <2> QED
    BY <2>1, <2>2, <2>3 DEF TokenIsSpentOnce
<1> QED
  BY <1>1, <1>3, <1>4, <1>5

\* A verification activates the account, or loses the token.
LEMMA VerificationEndsInv ==
    ASSUME Inv, NEW v \in Verifiers, MarkEmailVerified(v) \/ VerificationFails(v)
    PROVE  Inv'
<1> USE DEF MarkEmailVerified, VerificationFails, rows, Inv, RegistrationInv
<1>1. PICK r \in Requests : r = ver[v] /\ tokens[r] = "taken" /\ Stored(r)
  BY DEF TypeOK, TokenIsSpentOnce
<1>2. TypeOK'
  BY <1>1 DEF TypeOK
<1>3. /\ UNCHANGED <<req, creds, events, tokens>>
      /\ \A s \in Requests : (Stored(s)' <=> Stored(s)) /\ (users'[s] = "none" <=> users[s] = "none")
                             /\ (users'[s] = "open" <=> users[s] = "open")
      /\ \A s \in Requests \ {r} : users'[s] = users[s]
      /\ \A w \in Verifiers \ {v} : ver'[w] = ver[w]
      /\ ver'[v] = None
      /\ r \in wasted' \/ users'[r] # "pending"
      /\ wasted \subseteq wasted'
  BY <1>1 DEF TypeOK, Stored
<1>4. (\A s \in Requests : Written(s) /\ OwnsEmail(s))'
  BY <1>3 DEF Written, OwnsEmail
<1>5. AllOrNothing'
  BY <1>3 DEF AllOrNothing
<1>6. TokenIsSpentOnce'
  <2>1. (\A s \in Requests : users[s] = "active" => tokens[s] = "taken")'
    BY <1>1, <1>3 DEF TokenIsSpentOnce
  <2>2. (\A w \in Verifiers : ver[w] # None => tokens[ver[w]] = "taken" /\ Stored(ver[w]))'
    BY <1>3, <1>2 DEF TypeOK, TokenIsSpentOnce
  <2>3. ASSUME NEW s \in Requests, users'[s] = "pending"
        PROVE  (\/ tokens[s] \in {"live", "expired"}
                \/ s \in wasted
                \/ \E w \in Verifiers : ver[w] = s /\ \A x \in Verifiers \ {w} : ver[x] # s)'
    <3>1. CASE s = r
      BY <1>3, <2>3, <3>1
    <3>2. CASE s # r
      <4>1. users[s] = "pending" /\ ver[v] # s
        BY <1>1, <1>3, <2>3, <3>2
      <4> QED
        BY <1>3, <3>2, <4>1 DEF TokenIsSpentOnce
    <3> QED
      BY <3>1, <3>2
  <2> QED
    BY <2>1, <2>2, <2>3 DEF TokenIsSpentOnce
<1> QED
  BY <1>2, <1>4, <1>5, <1>6

\* The invariant is inductive.
LEMMA NextInv == Inv /\ [Next]_vars => Inv'
<1> SUFFICES ASSUME Inv, [Next]_vars PROVE Inv'
  OBVIOUS
<1>1. CASE UNCHANGED vars
  BY <1>1 DEF vars, Inv, RegistrationInv, TypeOK, Written, OwnsEmail, Stored, TokenIsSpentOnce, AllOrNothing
<1>2. ASSUME NEW r \in Requests, NEW e \in Emails, CheckEmail(r, e) PROVE Inv'
  BY <1>2, CheckEmailInv
<1>3. ASSUME NEW r \in Requests, Register(r) \/ Abort(r) \/ ExpireToken(r) PROVE Inv'
  BY <1>3, InsertUserInv, TransactionInv, ExpireTokenInv DEF Register
<1>4. ASSUME NEW v \in Verifiers, VerifyEmail(v) PROVE Inv'
  BY <1>4, ParseVerifyTokenInv, VerificationEndsInv DEF VerifyEmail
<1> QED
  BY <1>1, <1>2, <1>3, <1>4 DEF Next

\* It holds in every reachable state.
LEMMA InvAlways == Spec => []Inv
BY InitInv, NextInv, PTL DEF Spec

-----------------------------------------------------------------------------

\* Registrations write what they should at each point, emails have one owner, and
\* a verification token is spent once, on an account that is there.
THEOREM RegistrationInvariant == Spec => []RegistrationInv
<1>1. Inv => RegistrationInv
  BY DEF Inv
<1> QED
  BY <1>1, InvAlways, PTL

\* At most one registration creates the account of an email, however many of
\* them pass ExistsByEmail at the same time.
THEOREM EmailsAreUnique == Spec => []OneUserPerEmail
<1>1. Inv => OneUserPerEmail
  BY DEF Inv, RegistrationInv, OneUserPerEmail, OwnsEmail, Stored
<1> QED
  BY <1>1, InvAlways, PTL

\* The user, the credential and the event are committed together or not at all.
THEOREM RegistrationIsAtomic == Spec => []AllOrNothing
<1>1. Inv => AllOrNothing
  BY DEF Inv
<1> QED
  BY <1>1, InvAlways, PTL

\* An account that is stored stays so, with its email: no step undoes a commit.
LEMMA StoredStays ==
    ASSUME Inv, Next, NEW r \in Requests, Stored(r)
    PROVE  Stored(r)' /\ req'[r].email = req[r].email
<1>1. req[r].pc = "done"
  BY DEF Inv, RegistrationInv, Written
<1>2. ASSUME NEW s \in Requests, NEW e \in Emails, CheckEmail(s, e)
      PROVE  Stored(r)' /\ req'[r].email = req[r].email
  BY <1>1, <1>2 DEF CheckEmail, rows, Stored, Inv, RegistrationInv, TypeOK
<1>3. ASSUME NEW s \in Requests, Register(s) \/ Abort(s) \/ ExpireToken(s)
      PROVE  Stored(r)' /\ req'[r].email = req[r].email
  BY <1>1, <1>3 DEF Register, InsertUser, InsertCredential, IssueVerifyToken, PublishUserRegistered,
     Commit, Abort, ExpireToken, Answer, Goto, rows, Stored, Inv, RegistrationInv, TypeOK, Local
<1>4. ASSUME NEW v \in Verifiers, VerifyEmail(v)
      PROVE  Stored(r)' /\ req'[r].email = req[r].email
  BY <1>4 DEF VerifyEmail, ParseVerifyToken, MarkEmailVerified, VerificationFails, rows, Stored,
     Inv, RegistrationInv, TypeOK
<1> QED
  BY <1>2, <1>3, <1>4 DEF Next

\* The answer of a request is given in the step that commits its rows or finds
\* the account in the way, and stays true because accounts stay.
THEOREM AnswersAlwaysTrue == Spec => []AnswersAreTrue
<1> DEFINE True(r) == /\ req[r].answer = "created" => Stored(r)
                      /\ req[r].answer = "exists" => ExistsByEmail(req[r].email)
<1>1. Init => AnswersAreTrue
  BY DEF Init, AnswersAreTrue
<1>2. Inv /\ AnswersAreTrue /\ [Next]_vars => AnswersAreTrue'
  <2> SUFFICES ASSUME Inv, AnswersAreTrue, Next PROVE AnswersAreTrue'
    BY DEF vars, AnswersAreTrue, ExistsByEmail, Stored
  <2> SUFFICES ASSUME NEW r \in Requests PROVE True(r)'
    BY DEF AnswersAreTrue
  <2>1. ASSUME NEW e, ExistsByEmail(e) PROVE ExistsByEmail(e)'
    BY <2>1, StoredStays DEF ExistsByEmail
  <2>2. CASE req'[r].answer = req[r].answer /\ req'[r].email = req[r].email
    BY <2>1, <2>2, StoredStays DEF AnswersAreTrue, ExistsByEmail
  <2>3. ASSUME NEW s \in Requests, NEW e \in Emails, CheckEmail(s, e) PROVE True(r)'
    BY <2>1, <2>2, <2>3 DEF CheckEmail, Inv, RegistrationInv, TypeOK, Local, rows, ExistsByEmail, Stored
  <2>4. ASSUME NEW s \in Requests, InsertUser(s) PROVE True(r)'
    BY <2>1, <2>2, <2>4 DEF InsertUser, Answer, Goto, Inv, RegistrationInv, TypeOK, Local
  <2>5. ASSUME NEW s \in Requests, Commit(s) PROVE True(r)'
    BY <2>2, <2>5 DEF Commit, Answer, Inv, RegistrationInv, TypeOK, Local, Stored
  <2>6. ASSUME NEW s \in Requests,
               \/ InsertCredential(s) \/ IssueVerifyToken(s) \/ PublishUserRegistered(s)
               \/ Abort(s) \/ ExpireToken(s)
        PROVE  True(r)'
    BY <2>2, <2>6 DEF InsertCredential, IssueVerifyToken, PublishUserRegistered, Abort, ExpireToken,
       Answer, Goto, Inv, RegistrationInv, TypeOK, Local
  <2>7. ASSUME NEW v \in Verifiers, VerifyEmail(v) PROVE True(r)'
    BY <2>2, <2>7 DEF VerifyEmail, ParseVerifyToken, MarkEmailVerified, VerificationFails
  <2> QED
    BY <2>3, <2>4, <2>5, <2>6, <2>7 DEF Next, Register
<1> QED
  BY <1>1, <1>2, InvAlways, PTL DEF Spec
=============================================================================
