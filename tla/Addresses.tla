------------------------------ MODULE Addresses ------------------------------
(***************************************************************************)
(* AddressService: adding, changing and deleting the shipping addresses of *)
(* one user, of which at most one is the default.                          *)
(*                                                                         *)
(* A step is one statement against the addresses table under READ          *)
(* COMMITTED.  table holds the committed rows and writes[r] what the open  *)
(* transaction of request r has written; a row that an open transaction    *)
(* has written is locked.  Rows of other users are never touched           *)
(* (AssertOwnership, WHERE user_id = $1), so one user is enough.           *)
(*                                                                         *)
(* The id of an update or a deletion is what the service is called with.   *)
(* The handlers read it from the path parameter address_id, which the      *)
(* routes call addressId; until the two agree they answer 400 and the      *)
(* service is not reached.                                                 *)
(***************************************************************************)
EXTENDS Naturals, FiniteSets

CONSTANTS
    Ids,           \* address ids
    Requests,      \* concurrent requests of the user
    None

ASSUME AddressConstants == None \notin Ids
ASSUME FiniteRequests == IsFiniteSet(Requests)

VARIABLES
    table,   \* the committed rows: "none", "plain" or "default"
    writes,  \* the rows each open transaction has written, or "keep"
    req      \* the local state of each request

vars == <<table, writes, req>>

RowState == {"none", "plain", "default"}

\* id is the address in hand, dflt the IsDefault of the command, seen the rows of
\* the snapshot that UnsetDefaultByUserID works on, answer the last response.
Local == [pc : {"idle", "get", "begin", "unset", "write", "commit"},
          op : {"add", "update", "delete"}, id : Ids \cup {None}, dflt : BOOLEAN,
          seen : SUBSET Ids, answer : {"none", "ok", "not_found", "error"}]
Idle == [pc |-> "idle", op |-> "add", id |-> None, dflt |-> FALSE, seen |-> {}, answer |-> "none"]
NoWrites == [i \in Ids |-> "keep"]

Init ==
    /\ table = [i \in Ids |-> "none"]
    /\ writes = [r \in Requests |-> NoWrites]
    /\ req = [r \in Requests |-> Idle]

Goto(r, pc)  == req' = [req EXCEPT ![r].pc = pc]
Answer(r, a) == req' = [req EXCEPT ![r] = [Idle EXCEPT !.answer = a]]

\* The row as transaction r sees it, the rows that others have locked, and the ids
\* that nothing refers to (a new row takes one of those, to keep Ids finite).
Seen(r, i)      == IF writes[r][i] = "keep" THEN table[i] ELSE writes[r][i]
LockedFor(r, i) == \E s \in Requests \ {r} : writes[s][i] # "keep"
Unused(i)       == table[i] = "none" /\ \A s \in Requests : req[s].id # i /\ i \notin req[s].seen

-----------------------------------------------------------------------------
(* The handlers *)

\* AddAddress: the transaction begins, with the unset if the address is default.
\* The id is the one that the sequence will give to the row.
AddAddress(r, i, dflt) ==
    /\ req[r].pc = "idle"
    /\ Unused(i)
    /\ req' = [req EXCEPT ![r] = [Idle EXCEPT !.pc = IF dflt THEN "begin" ELSE "write",
                                              !.op = "add", !.id = i, !.dflt = dflt]]
    /\ UNCHANGED <<table, writes>>

\* UpdateAddress and DeleteAddress begin with the row of the id they are given.
ChangeAddress(r, op, i, dflt) ==
    /\ req[r].pc = "idle"
    /\ req' = [req EXCEPT ![r] = [Idle EXCEPT !.pc = "get", !.op = op, !.id = i, !.dflt = dflt]]
    /\ UNCHANGED <<table, writes>>
UpdateAddress(r, i, dflt) == ChangeAddress(r, "update", i, dflt)
DeleteAddress(r, i)       == ChangeAddress(r, "delete", i, FALSE)

\* GetByID, outside the transaction.
GetByID(r) ==
    /\ req[r].pc = "get"
    /\ IF table[req[r].id] = "none"
       THEN Answer(r, "not_found")
       ELSE Goto(r, IF req[r].dflt THEN "begin" ELSE "write")
    /\ UNCHANGED <<table, writes>>

-----------------------------------------------------------------------------
(* The statements *)

\* UnsetDefaultByUserID takes its snapshot, then waits for the lock of one row
\* after the other and updates it; a row deleted meanwhile is passed over, and a
\* row committed meanwhile is not among them.
UnsetSnapshotOfOthers(r) ==
    /\ req[r].pc = "begin"
    /\ req' = [req EXCEPT ![r].pc = "unset",
                          ![r].seen = {i \in Ids \ {req[r].id} : table[i] # "none"}]
    /\ UNCHANGED <<table, writes>>
UnsetSnapshot(r) ==
    /\ req[r].pc = "begin"
    /\ req' = [req EXCEPT ![r].pc = "unset", ![r].seen = {i \in Ids : table[i] # "none"}]
    /\ UNCHANGED <<table, writes>>

\* The rows of the snapshot that are still to be updated, in any order: the scan
\* finds them where their latest versions are.
Left(r) == {i \in req[r].seen : table[i] # "none" /\ writes[r][i] = "keep"}

UnsetOutsideTransaction(r, i) ==
    /\ req[r].pc = "unset" /\ i \in Left(r)
    /\ ~LockedFor(r, i)
    /\ table' = [table EXCEPT ![i] = "plain"]
    /\ UNCHANGED <<writes, req>>
UnsetDefaultByUserID(r, i) ==
    /\ req[r].pc = "unset" /\ i \in Left(r)
    /\ ~LockedFor(r, i)
    /\ writes' = [writes EXCEPT ![r][i] = "plain"]
    /\ UNCHANGED <<table, req>>
UnsetReturns(r) ==
    /\ req[r].pc = "unset" /\ Left(r) = {}
    /\ Goto(r, "write")
    /\ UNCHANGED <<table, writes>>

\* The partial unique index on (user_id) WHERE is_default: a statement that
\* writes a default waits for the transactions that write or unset one, and
\* fails if there is another default in the end.
IndexSelfConflict(r) ==
    \A s \in Requests, j \in Ids :
        writes[s][j] # "keep" => table[j] # "default" /\ writes[s][j] # "default"
IndexSettled(r) ==
    \A s \in Requests \ {r}, j \in Ids :
        writes[s][j] # "keep" => table[j] # "default" /\ writes[s][j] # "default"
NoIndex(r, i) == TRUE
IndexFree(r, i) == \A j \in Ids \ {i} : Seen(r, j) # "default"

NewState(r) == IF req[r].dflt THEN "default" ELSE "plain"
Rollback(r) == writes' = [writes EXCEPT ![r] = NoWrites]

\* The INSERT or UPDATE of row i; refused says what a unique violation becomes.
Write(r, i, refused) ==
    /\ req[r].dflt => IndexSettled(r)
    /\ IF req[r].dflt /\ ~IndexFree(r, i)
       THEN Answer(r, refused) /\ Rollback(r)
       ELSE /\ writes' = [writes EXCEPT ![r][i] = NewState(r)]
            /\ Goto(r, "commit")
    /\ UNCHANGED table

Insert(r) ==
    /\ req[r].pc = "write" /\ req[r].op = "add"
    /\ Write(r, req[r].id, "error")

UpdateSkipLocked(r) ==
    /\ req[r].pc = "write" /\ req[r].op = "update"
    /\ IF Seen(r, req[r].id) = "none" \/ LockedFor(r, req[r].id)
       THEN Answer(r, "not_found") /\ Rollback(r) /\ UNCHANGED table
       ELSE Write(r, req[r].id, "not_found")

\* Update looks at RowsAffected before the error, so that a unique violation is
\* reported as ErrAddressNotFound.
Update(r) ==
    /\ req[r].pc = "write" /\ req[r].op = "update"
    /\ ~LockedFor(r, req[r].id)
    /\ IF Seen(r, req[r].id) = "none"
       THEN Answer(r, "not_found") /\ Rollback(r) /\ UNCHANGED table
       ELSE Write(r, req[r].id, "not_found")

\* Delete is one statement in a transaction of its own.  Its answer may be lost,
\* which RowsAffected makes ErrAddressNotFound too.
Delete(r) ==
    /\ req[r].pc = "write" /\ req[r].op = "delete"
    /\ ~LockedFor(r, req[r].id)
    /\ table' = [table EXCEPT ![req[r].id] = "none"]
    /\ \/ Answer(r, IF table[req[r].id] = "none" THEN "not_found" ELSE "ok")
       \/ Answer(r, "not_found")
    /\ UNCHANGED writes

\* The commit; the answer of the server may be lost on the way.
CommitTx(r) ==
    /\ req[r].pc = "commit"
    /\ table' = [i \in Ids |-> Seen(r, i)]
    /\ Answer(r, "ok") \/ Answer(r, "error")
    /\ Rollback(r)

\* What a failure is reported as: ErrAddressNotFound when it is the statement of
\* Update or Delete that fails, and the error itself for every other statement,
\* the BEGIN before an UPDATE included.
Failures(r) ==
    LET changes == req[r].pc = "write" /\ req[r].op # "add" IN
    {a \in {"error", "not_found"} :
        IF a = "error" THEN ~(changes /\ req[r].op = "delete") ELSE changes}

\* A statement fails, or the client goes away; WithinTransaction rolls back.
Abort(r) ==
    /\ req[r].pc # "idle"
    /\ \E a \in Failures(r) : Answer(r, a)
    /\ Rollback(r)
    /\ UNCHANGED table

Unset(r) == UnsetSnapshot(r) \/ (\E i \in Ids : UnsetDefaultByUserID(r, i)) \/ UnsetReturns(r)

Proceed(r) == \/ GetByID(r) \/ Unset(r)
              \/ Insert(r) \/ Update(r) \/ Delete(r) \/ CommitTx(r)

Next == \E r \in Requests :
    \/ \E i \in Ids, dflt \in BOOLEAN : AddAddress(r, i, dflt) \/ UpdateAddress(r, i, dflt)
    \/ \E i \in Ids : DeleteAddress(r, i)
    \/ Proceed(r)
    \/ Abort(r)

Spec == Init /\ [][Next]_vars

-----------------------------------------------------------------------------
(* Waiting *)

\* Request r waits for s: at the lock of a row that s has written, in its unset or
\* in the statement of its command, or at the unique index.
WaitsForRow(r, s) ==
    \/ /\ req[r].pc = "unset"
       /\ \A i \in Left(r) : LockedFor(r, i)
       /\ \E i \in Left(r) : writes[s][i] # "keep"
    \/ /\ req[r].pc = "write" /\ req[r].op # "add"
       /\ writes[s][req[r].id] # "keep"
WaitsForIndex(r, s) ==
    /\ req[r].pc = "write" /\ req[r].dflt
    /\ \E j \in Ids : writes[s][j] # "keep" /\ (table[j] = "default" \/ writes[s][j] = "default")
Waits(r, s) == s # r /\ (WaitsForRow(r, s) \/ WaitsForIndex(r, s))

\* The circles of n waits, from a request back to itself.
Circles(n) ==
    {circle \in [0..n -> Requests] :
        /\ circle[0] = circle[n]
        /\ \A k \in 0..(n - 1) : Waits(circle[k], circle[k + 1])}

\* Request r is on a circle of waits: Postgres notices after deadlock_timeout and
\* fails the statement of one of them.
Deadlocked(r) == \E n \in 1..Cardinality(Requests) : \E circle \in Circles(n) : circle[0] = r
DeadlockDetected(r) == Deadlocked(r) /\ Abort(r)

\* A request that can go on does so in the end, and a circle of waits does not
\* last; nothing is assumed of other failures.
FairSpec == Spec /\ \A r \in Requests : SF_vars(Proceed(r)) /\ WF_vars(DeadlockDetected(r))

-----------------------------------------------------------------------------
(* Properties *)

\* Type invariant of the table, the open transactions and the requests.
TypeOK ==
    /\ table \in [Ids -> RowState]
    /\ writes \in [Requests -> [Ids -> {"keep", "plain", "default"}]]
    /\ req \in [Requests -> Local]

\* ListAddresses: one statement, which reads the committed rows; the default comes
\* first, whoever else is in the middle of changing it.
ListAddresses == {i \in Ids : table[i] # "none"}
Default == {i \in ListAddresses : table[i] = "default"}

\* What the transaction of r has written at each point: nothing before its unset,
\* then rows that exist, which it unset, and at last the row of its command.  The
\* rows it saw and did not unset are gone for good, and so is the row that it is to
\* update if the snapshot did not have it.
Written(r) ==
    /\ req[r].pc # "idle" => req[r].id \in Ids
    /\ req[r].op = "delete" => req[r].pc \in {"get", "write"} /\ ~req[r].dflt
    /\ req[r].pc \notin {"unset", "write", "commit"} => writes[r] = NoWrites
    /\ req[r].pc = "get" => req[r].op # "add" /\ req[r].seen = {}
    /\ req[r].pc \in {"begin", "unset"} => req[r].dflt
    /\ req[r].pc = "commit" => writes[r][req[r].id] = NewState(r)
    /\ req[r].pc = "write" => \A i \in req[r].seen : writes[r][i] = "keep" => table[i] = "none"
    /\ req[r].pc \in {"unset", "write"} /\ req[r].op = "update" /\ req[r].dflt =>
          req[r].id \in req[r].seen \/ table[req[r].id] = "none"
    /\ \A i \in Ids : writes[r][i] # "keep" =>
          /\ \/ req[r].pc = "commit" /\ i = req[r].id
             \/ req[r].dflt /\ writes[r][i] = "plain"
          /\ \/ table[i] # "none"
             \/ req[r].op = "add" /\ req[r].pc = "commit" /\ i = req[r].id

\* The id of a row that is being added is nobody else's: the others have not
\* written or seen that row, and do not get beyond looking it up.
IdIsFresh(r) ==
    req[r].op = "add" /\ req[r].pc # "idle" =>
        /\ table[req[r].id] = "none"
        /\ \A s \in Requests : req[r].id \notin req[s].seen
        /\ \A s \in Requests \ {r} :
              /\ writes[s][req[r].id] = "keep"
              /\ req[s].id = req[r].id => req[s].pc = "get"

\* However requests that set the default interleave, the list shows at most one
\* default address: where the unset misses a row, the unique index steps in.
\* In the view of each open transaction the same is true, no row has been
\* written by two of them, and only one of them sets a default.
AtMostOneDefault ==
    /\ TypeOK
    /\ \A r \in Requests : Written(r) /\ IdIsFresh(r)
    /\ \A i, j \in Default : i = j
    /\ \A r \in Requests, i, j \in Ids : Seen(r, i) = "default" /\ Seen(r, j) = "default" => i = j
    /\ \A r, s \in Requests, i \in Ids : writes[r][i] # "keep" /\ writes[s][i] # "keep" => r = s
    /\ \A r, s \in Requests, i, j \in Ids :
          writes[r][i] = "default" /\ writes[s][j] = "default" => r = s

\* Every request is one operation on the address book, which takes effect at once
\* or not at all, whatever statements of others come between its own (AddressBook).
Book == INSTANCE AddressBook WITH
    book <- table,
    call <- [r \in Requests |-> [pending |-> req[r].pc # "idle", op |-> req[r].op,
                                 id |-> req[r].id, dflt |-> req[r].dflt, answer |-> req[r].answer]]
ImplementsAddressBook == Book!Spec

\* Every request is answered: it gets the locks it waits for, or Postgres finds the
\* circle it is on.
RequestsReturn == \A r \in Requests : req[r].pc # "idle" ~> req[r].pc = "idle"

\* Requests deadlock, but every circle of waits has a request in it that is in the
\* middle of its unset, which locks the rows one by one.  The INSERT and UPDATE that
\* follow wait for row locks and for the unique index while their transactions hold
\* rows that they unset, and still never for each other in a circle.
CirclesNeedUnset ==
    \A n \in 1..Cardinality(Requests) : \A circle \in Circles(n) :
        \E k \in 0..(n - 1) : req[circle[k]].pc = "unset"

\* Unless a statement failed, ErrAddressNotFound has one of two reasons: the
\* address is gone, or another address has become the default since this request
\* unset the old one.
NotFoundIsExplained ==
    [][\A r \in Requests :
          Proceed(r) /\ req'[r].pc = "idle" /\ req'[r].answer = "not_found"
             => \/ table'[req[r].id] = "none"
                \/ req[r].dflt /\ Default \ (req[r].seen \cup {req[r].id}) # {}]_vars
=============================================================================
