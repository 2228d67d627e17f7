-------------------------- MODULE AddressesProofs --------------------------
(***************************************************************************)
(* Proofs about Addresses, for any ids and finitely many requests.         *)
(* AtMostOneDefault is inductive.  From it follow the refinement of        *)
(* AddressBook, the reasons of ErrAddressNotFound and how requests wait    *)
(* for one another.                                                        *)
(***************************************************************************)
EXTENDS Addresses, FiniteSetTheorems, TLAPS

USE AddressConstants

\* The conjuncts of AtMostOneDefault by name.
OneInTable == \A i, j \in Ids : table[i] = "default" /\ table[j] = "default" => i = j
OneInView  == \A r \in Requests, i, j \in Ids : Seen(r, i) = "default" /\ Seen(r, j) = "default" => i = j
OneWriter  == \A r, s \in Requests, i \in Ids : writes[r][i] # "keep" /\ writes[s][i] # "keep" => r = s
OneSetter  == \A r, s \in Requests, i, j \in Ids :
                 writes[r][i] = "default" /\ writes[s][j] = "default" => r = s
Rows == OneInTable /\ OneInView /\ OneWriter /\ OneSetter

\* They are what AtMostOneDefault says.
LEMMA InvByName ==
    AtMostOneDefault <=> TypeOK /\ (\A r \in Requests : Written(r) /\ IdIsFresh(r)) /\ Rows
BY DEF AtMostOneDefault, Rows, OneInTable, OneInView, OneWriter, OneSetter, Default, ListAddresses

\* The same of the next state.
LEMMA InvByNamePrime ==
    AtMostOneDefault' <=> TypeOK' /\ (\A r \in Requests : Written(r) /\ IdIsFresh(r))' /\ Rows'
BY DEF AtMostOneDefault, Rows, OneInTable, OneInView, OneWriter, OneSetter, Default, ListAddresses

USE InvByName, InvByNamePrime

\* At first there are no rows and no requests.
LEMMA InitInv == Init => AtMostOneDefault
BY DEF Init, TypeOK, Written, IdIsFresh, Rows, OneInTable, OneInView, OneWriter, OneSetter,
       Idle, NoWrites, Seen, RowState, Local

\* A step of r leaves what the others have written, and their state, alone.
OthersStay(r) ==
    \A s \in Requests \ {r} : writes'[s] = writes[s] /\ req'[s] = req[s]

\* A request that has returned has nothing to show.
LEMMA AnsweredInv ==
    ASSUME NEW r \in Requests, NEW a, req'[r] = [Idle EXCEPT !.answer = a], writes'[r] = NoWrites
    PROVE  Written(r)' /\ IdIsFresh(r)'
BY DEF Written, IdIsFresh, Idle, NoWrites, NewState

\* An answered request is idle again, and the others stay where they are.
LEMMA AnswerType ==
    ASSUME TypeOK, NEW r \in Requests, NEW a \in {"none", "ok", "not_found", "error"}, Answer(r, a)
    PROVE  /\ req' \in [Requests -> Local]
           /\ req'[r] = [Idle EXCEPT !.answer = a]
           /\ \A s \in Requests \ {r} : req'[s] = req[s]
BY DEF TypeOK, Answer, Idle, Local

\* A request that goes on keeps everything but its place.
LEMMA GotoType ==
    ASSUME TypeOK, NEW r \in Requests,
           NEW pc \in {"idle", "get", "begin", "unset", "write", "commit"}, Goto(r, pc)
    PROVE  /\ req' \in [Requests -> Local]
           /\ req'[r] = [req[r] EXCEPT !.pc = pc]
           /\ \A s \in Requests \ {r} : req'[s] = req[s]
<1>1. req[r] \in Local
  BY DEF TypeOK
<1>2. [req[r] EXCEPT !.pc = pc] \in Local
  BY <1>1 DEF Local
<1> QED
  BY <1>2 DEF Goto, TypeOK

\* A rollback leaves the committed rows alone and forgets what r has written.
LEMMA RollbackInv ==
    ASSUME AtMostOneDefault, NEW r \in Requests,
           NEW a \in {"none", "ok", "not_found", "error"}, Answer(r, a),
           Rollback(r), UNCHANGED table
    PROVE  AtMostOneDefault'
<1>1. /\ req' \in [Requests -> Local]
      /\ req'[r] = [Idle EXCEPT !.answer = a]
      /\ \A s \in Requests \ {r} : req'[s] = req[s]
  BY AnswerType
<1>2. writes'[r] = NoWrites /\ \A s \in Requests \ {r} : writes'[s] = writes[s]
  BY DEF Rollback, TypeOK
<1>3. TypeOK'
  BY <1>1 DEF TypeOK, Rollback, NoWrites
<1>4. Rows'
  BY <1>2, <1>3 DEF Rows, OneInTable, OneInView, OneWriter, OneSetter, Seen, NoWrites
<1>5. ASSUME NEW s \in Requests \ {r} PROVE Written(s)' /\ IdIsFresh(s)'
  <2>1. Written(s)'
    BY <1>1, <1>2, <1>5 DEF Written, NewState
  <2>2. IdIsFresh(s)'
    BY <1>1, <1>2, <1>5 DEF IdIsFresh, Written, NoWrites, Idle
  <2> QED
    BY <2>1, <2>2
<1> QED
  BY <1>1, <1>2, <1>3, <1>4, <1>5, AnsweredInv

\* A step of r that writes nothing: only r and the ids being added matter.
LEMMA LocalStepInv ==
    ASSUME AtMostOneDefault, NEW r \in Requests, NEW q \in Local,
           req' = [req EXCEPT ![r] = q], UNCHANGED <<table, writes>>,
           Written(r)', IdIsFresh(r)',
           \A s \in Requests \ {r} : req[s].op = "add" /\ req[s].pc # "idle" =>
               /\ req[s].id \notin q.seen
               /\ q.id = req[s].id => q.pc = "get"
    PROVE  AtMostOneDefault'
<1>1. TypeOK'
  BY DEF TypeOK
<1>2. req'[r] = q /\ \A s \in Requests \ {r} : req'[s] = req[s]
  BY DEF TypeOK
<1>3. Rows'
  BY DEF Rows, OneInTable, OneInView, OneWriter, OneSetter, Seen
<1>4. ASSUME NEW s \in Requests \ {r} PROVE Written(s)' /\ IdIsFresh(s)'
  BY <1>2, <1>4 DEF Written, IdIsFresh, NewState
<1> QED
  BY <1>1, <1>3, <1>4

\* A new row takes an id that nothing refers to.
LEMMA AddAddressInv ==
    ASSUME AtMostOneDefault, NEW r \in Requests, NEW i \in Ids, NEW dflt \in BOOLEAN,
           AddAddress(r, i, dflt)
    PROVE  AtMostOneDefault'
<1> DEFINE q == [Idle EXCEPT !.pc = IF dflt THEN "begin" ELSE "write",
                             !.op = "add", !.id = i, !.dflt = dflt]
<1>1. /\ q \in Local /\ q.id = i /\ q.seen = {} /\ q.op = "add" /\ q.dflt = dflt
      /\ q.pc \in {"begin", "write"} /\ (q.pc = "begin" => dflt)
  BY DEF Local, Idle
<1>2. req' = [req EXCEPT ![r] = q] /\ req'[r] = q /\ \A s \in Requests \ {r} : req'[s] = req[s]
  BY DEF AddAddress, TypeOK
<1> HIDE DEF q
<1>3. table[i] = "none" /\ \A s \in Requests : req[s].id # i /\ i \notin req[s].seen
  BY DEF AddAddress, Unused
<1>4. writes[r] = NoWrites /\ UNCHANGED <<table, writes>> /\ req[r].pc = "idle"
  BY DEF AddAddress, Written
<1>5. Written(r)'
  BY <1>1, <1>2, <1>4 DEF Written, NoWrites
<1>6. ASSUME NEW s \in Requests PROVE writes[s][i] = "keep"
  BY <1>3 DEF Written
<1>7. IdIsFresh(r)'
  BY <1>1, <1>2, <1>3, <1>4, <1>6 DEF IdIsFresh
<1> QED
  BY <1>1, <1>2, <1>3, <1>4, <1>5, <1>7, LocalStepInv

\* UpdateAddress and DeleteAddress may be given any id, also one that is being added.
LEMMA ChangeAddressInv ==
    ASSUME AtMostOneDefault, NEW r \in Requests, NEW op \in {"update", "delete"},
           NEW i \in Ids, NEW dflt \in BOOLEAN, op = "delete" => ~dflt,
           ChangeAddress(r, op, i, dflt)
    PROVE  AtMostOneDefault'
<1> DEFINE q == [Idle EXCEPT !.pc = "get", !.op = op, !.id = i, !.dflt = dflt]
<1>1. q \in Local /\ q.id = i /\ q.seen = {} /\ q.op = op /\ q.dflt = dflt /\ q.pc = "get"
  BY DEF Local, Idle
<1>2. req' = [req EXCEPT ![r] = q] /\ req'[r] = q /\ \A s \in Requests \ {r} : req'[s] = req[s]
  BY DEF ChangeAddress, TypeOK
<1> HIDE DEF q
<1>3. writes[r] = NoWrites /\ UNCHANGED <<table, writes>>
  BY DEF ChangeAddress, Written
<1>4. Written(r)' /\ IdIsFresh(r)'
  BY <1>1, <1>2, <1>3 DEF Written, IdIsFresh, NoWrites
<1> QED
  BY <1>1, <1>2, <1>3, <1>4, LocalStepInv

\* GetByID finds a row, or returns.
LEMMA GetByIDInv ==
    ASSUME AtMostOneDefault, NEW r \in Requests, GetByID(r)
    PROVE  AtMostOneDefault'
<1>1. writes[r] = NoWrites /\ UNCHANGED <<table, writes>> /\ req[r].pc = "get"
      /\ req[r].id \in Ids /\ req[r] \in Local
  BY DEF GetByID, Written, TypeOK
<1>2. CASE table[req[r].id] = "none"
  <2>1. Rollback(r)
    BY <1>1 DEF Rollback, TypeOK
  <2> QED
    BY <1>1, <1>2, <2>1, RollbackInv DEF GetByID
<1>3. CASE table[req[r].id] # "none"
  <2> DEFINE pc == IF req[r].dflt THEN "begin" ELSE "write"
             q == [req[r] EXCEPT !.pc = pc]
  <2>1. Goto(r, pc)
    BY <1>3 DEF GetByID
  <2>2. /\ pc \in {"begin", "write"} /\ (req[r].op = "delete" => pc = "write")
        /\ pc = "begin" <=> req[r].dflt
    BY DEF Written
  <2> HIDE DEF pc
  <2>3. /\ q \in Local /\ q.pc = pc /\ q.id = req[r].id /\ q.op = req[r].op
        /\ q.dflt = req[r].dflt /\ q.seen = req[r].seen
    BY <1>1, <2>2 DEF Local
  <2>4. req' = [req EXCEPT ![r] = q] /\ req'[r] = q
    BY <2>1 DEF Goto, TypeOK
  <2> HIDE DEF q
  <2>5. req[r].op # "add"
    BY <1>1, <1>3 DEF IdIsFresh
  <2>6. Written(r)' /\ IdIsFresh(r)'
    <3>1. IdIsFresh(r)'
      BY <2>3, <2>4, <2>5 DEF IdIsFresh
    <3>2. Written(r) /\ req[r].seen = {}
      BY <1>1 DEF Written
    <3>3. writes'[r] = NoWrites /\ \A i \in Ids : NoWrites[i] = "keep"
      BY <1>1 DEF NoWrites
    <3>4. Written(r)'
      BY <1>1, <2>2, <2>3, <2>4, <3>2, <3>3 DEF Written
    <3> QED
      BY <3>1, <3>4
  <2>7. ASSUME NEW s \in Requests \ {r}, req[s].op = "add", req[s].pc # "idle"
        PROVE  req[s].id \notin q.seen /\ q.id # req[s].id
    BY <1>3, <2>3, <2>7 DEF IdIsFresh
  <2> QED
    BY <1>1, <2>3, <2>4, <2>6, <2>7, LocalStepInv
<1> QED
  BY <1>2, <1>3

\* The snapshot of UnsetDefaultByUserID.
LEMMA UnsetSnapshotInv ==
    ASSUME AtMostOneDefault, NEW r \in Requests, UnsetSnapshot(r)
    PROVE  AtMostOneDefault'
<1> DEFINE seen == {i \in Ids : table[i] # "none"}
           q == [req[r] EXCEPT !.pc = "unset", !.seen = seen]
<1>1. writes[r] = NoWrites /\ UNCHANGED <<table, writes>> /\ req[r].pc = "begin"
      /\ req[r].id \in Ids /\ req[r] \in Local /\ req[r].op # "delete"
  BY DEF UnsetSnapshot, Written, TypeOK
<1>2. /\ q \in Local /\ q.pc = "unset" /\ q.id = req[r].id /\ q.op = req[r].op
      /\ q.dflt = req[r].dflt /\ q.seen = seen
  BY <1>1 DEF Local
<1>3. req' = [req EXCEPT ![r] = q] /\ req'[r] = q /\ \A s \in Requests \ {r} : req'[s] = req[s]
  BY DEF UnsetSnapshot, TypeOK
<1> HIDE DEF q
<1>4. Written(r)'
  BY <1>1, <1>2, <1>3 DEF Written, NoWrites
<1>5. ASSUME NEW s \in Requests, req[s].op = "add", req[s].pc # "idle"
      PROVE  req[s].id \notin seen
  BY <1>5 DEF IdIsFresh
<1>6. IdIsFresh(r)'
  <2> SUFFICES ASSUME req[r].op = "add" PROVE IdIsFresh(r)'
    BY <1>2, <1>3 DEF IdIsFresh
  <2>1. req[r].id \notin seen /\ IdIsFresh(r)
    BY <1>1, <1>5
  <2>2. \A s \in Requests : req[r].id \notin req'[s].seen
    BY <1>1, <1>2, <1>3, <2>1 DEF IdIsFresh
  <2> QED
    BY <1>1, <1>2, <1>3, <2>1, <2>2 DEF IdIsFresh
<1>7. ASSUME NEW s \in Requests \ {r}, req[s].op = "add", req[s].pc # "idle"
      PROVE  req[s].id \notin q.seen /\ q.id # req[s].id
  BY <1>1, <1>2, <1>5, <1>7 DEF IdIsFresh
<1> QED
  BY <1>1, <1>2, <1>3, <1>4, <1>6, <1>7, LocalStepInv

\* A step of r that writes rows nobody else has written and leaves the table
\* alone; only what r has written itself has to be looked at.
LEMMA WriteStepInv ==
    ASSUME AtMostOneDefault, NEW r \in Requests, TypeOK', UNCHANGED table, OthersStay(r),
           req'[r].id = req[r].id, req'[r].op = req[r].op, req'[r].seen = req[r].seen,
           req'[r].pc # "get", req[r].pc \notin {"idle", "get"}, Written(r)',
           \A i \in Ids : writes'[r][i] # "keep" => ~LockedFor(r, i),
           \A i, j \in Ids : Seen(r, i)' = "default" /\ Seen(r, j)' = "default" => i = j,
           \A i \in Ids : writes'[r][i] = "default" => IndexSettled(r),
           \A i \in Ids : writes'[r][i] # "keep" /\ i # req[r].id => table[i] # "none"
    PROVE  AtMostOneDefault'
<1>1. OneInTable'
  BY DEF Rows, OneInTable
<1>2. OneInView'
  BY DEF Rows, OneInView, OthersStay, Seen
<1>3. OneWriter'
  BY DEF Rows, OneWriter, OthersStay, LockedFor
<1>4. OneSetter'
  BY DEF Rows, OneSetter, OthersStay, IndexSettled
<1>5. ASSUME NEW s \in Requests \ {r} PROVE Written(s)'
  BY <1>5 DEF OthersStay, Written, NewState
<1>6. IdIsFresh(r)'
  <2> SUFFICES ASSUME req[r].op = "add" PROVE IdIsFresh(r)'
    BY DEF IdIsFresh
  <2>1. \A s \in Requests : req[r].id \notin req'[s].seen
    BY DEF OthersStay, IdIsFresh
  <2> QED
    BY <2>1 DEF OthersStay, IdIsFresh
<1>7. ASSUME NEW s \in Requests \ {r} PROVE IdIsFresh(s)'
  <2> SUFFICES ASSUME req[s].op = "add", req[s].pc # "idle" PROVE IdIsFresh(s)'
    BY <1>7 DEF OthersStay, IdIsFresh
  <2>1. req[s].id \in Ids /\ table[req[s].id] = "none" /\ req[r].id # req[s].id
    BY <1>7 DEF IdIsFresh, Written
  <2>2. writes'[r][req[s].id] = "keep"
    BY <2>1
  <2> QED
    BY <1>7, <2>1, <2>2 DEF OthersStay, IdIsFresh
<1> QED
  BY <1>1, <1>2, <1>3, <1>4, <1>5, <1>6, <1>7 DEF Rows

\* UnsetDefaultByUserID writes a row of its snapshot that still exists.
LEMMA UnsetInv ==
    ASSUME AtMostOneDefault, NEW r \in Requests, NEW i \in Ids, UnsetDefaultByUserID(r, i)
    PROVE  AtMostOneDefault'
<1>1. /\ req[r].pc = "unset" /\ req[r].dflt /\ req[r].op # "delete"
      /\ table[i] # "none" /\ ~LockedFor(r, i) /\ req' = req /\ table' = table
  BY DEF UnsetDefaultByUserID, Left, Written
<1>2. /\ \A s \in Requests \ {r} : writes'[s] = writes[s]
      /\ writes' \in [Requests -> [Ids -> {"keep", "plain", "default"}]]
      /\ writes'[r][i] = "plain" /\ \A j \in Ids \ {i} : writes'[r][j] = writes[r][j]
  BY DEF UnsetDefaultByUserID, TypeOK
<1>3. TypeOK' /\ OthersStay(r)
  BY <1>1, <1>2 DEF TypeOK, OthersStay
<1>4. \A j \in Ids : writes'[r][j] # "keep" => writes'[r][j] = "plain" /\ table[j] # "none"
  BY <1>1, <1>2 DEF Written
<1>5. Written(r)'
  BY <1>1, <1>4 DEF Written
<1>6. ASSUME NEW j \in Ids, writes'[r][j] # "keep" PROVE ~LockedFor(r, j)
  BY <1>1, <1>2, <1>6 DEF Rows, OneWriter, LockedFor
<1>7. ASSUME NEW j \in Ids, NEW k \in Ids, Seen(r, j)' = "default", Seen(r, k)' = "default"
      PROVE  j = k
  BY <1>1, <1>4, <1>7 DEF Seen, Rows, OneInTable
<1> QED
  BY <1>1, <1>3, <1>4, <1>5, <1>6, <1>7, WriteStepInv

\* It returns when the rows of its snapshot are written or gone.
LEMMA UnsetReturnsInv ==
    ASSUME AtMostOneDefault, NEW r \in Requests, UnsetReturns(r)
    PROVE  AtMostOneDefault'
<1> DEFINE q == [req[r] EXCEPT !.pc = "write"]
<1>1. UNCHANGED <<table, writes>> /\ req[r].pc = "unset" /\ req[r] \in Local /\ Left(r) = {}
  BY DEF UnsetReturns, TypeOK
<1>2. /\ q \in Local /\ q.pc = "write" /\ q.id = req[r].id /\ q.op = req[r].op
      /\ q.dflt = req[r].dflt /\ q.seen = req[r].seen
  BY <1>1 DEF Local
<1>3. req' = [req EXCEPT ![r] = q] /\ req'[r] = q /\ \A s \in Requests \ {r} : req'[s] = req[s]
  BY DEF UnsetReturns, Goto, TypeOK
<1> HIDE DEF q
<1>4. Written(r)'
  BY <1>1, <1>2, <1>3 DEF Written, Left
<1>5. IdIsFresh(r)'
  <2> SUFFICES ASSUME req[r].op = "add" PROVE IdIsFresh(r)'
    BY <1>2, <1>3 DEF IdIsFresh
  <2>1. \A s \in Requests : req[r].id \notin req'[s].seen
    BY <1>1, <1>2, <1>3 DEF IdIsFresh
  <2> QED
    BY <1>1, <1>2, <1>3, <2>1 DEF IdIsFresh
<1>6. ASSUME NEW s \in Requests \ {r}, req[s].op = "add", req[s].pc # "idle"
      PROVE  req[s].id \notin q.seen /\ q.id # req[s].id
  BY <1>1, <1>2, <1>6 DEF IdIsFresh
<1> QED
  BY <1>1, <1>2, <1>3, <1>4, <1>5, <1>6, LocalStepInv

\* The statement of the command itself: Insert and Update, unless refused.
LEMMA WriteInv ==
    ASSUME AtMostOneDefault, NEW r \in Requests, req[r].pc = "write", req[r].op # "delete",
           NEW refused \in {"not_found", "error"},
           ~LockedFor(r, req[r].id), table[req[r].id] # "none" \/ req[r].op = "add",
           Write(r, req[r].id, refused)
    PROVE  AtMostOneDefault'
<1> DEFINE id == req[r].id
<1>1. CASE req[r].dflt /\ ~IndexFree(r, id)
  BY <1>1, RollbackInv DEF Write
<1>2. CASE ~(req[r].dflt /\ ~IndexFree(r, id))
  <2>1. /\ req' \in [Requests -> Local]
        /\ req'[r] = [req[r] EXCEPT !.pc = "commit"]
        /\ \A s \in Requests \ {r} : req'[s] = req[s]
    BY <1>2, GotoType DEF Write
  <2>2. req[r] \in Local /\ id \in Ids /\ NewState(r) \in {"plain", "default"}
        /\ (NewState(r) = "default" <=> req[r].dflt)
    BY DEF TypeOK, Written, NewState
  <2>3. /\ req'[r].pc = "commit" /\ req'[r].id = id /\ req'[r].op = req[r].op
        /\ req'[r].dflt = req[r].dflt /\ req'[r].seen = req[r].seen
    BY <2>1, <2>2 DEF Local
  <2>4. /\ table' = table
        /\ \A s \in Requests \ {r} : writes'[s] = writes[s]
        /\ writes' \in [Requests -> [Ids -> {"keep", "plain", "default"}]]
        /\ writes'[r][id] = NewState(r)
        /\ \A i \in Ids \ {id} : writes'[r][i] = writes[r][i]
    BY <1>2, <2>2 DEF Write, TypeOK
  <2>5. NewState(r)' = NewState(r)
    BY <2>3 DEF NewState
  <2>6. \A i \in Ids : writes[r][i] # "keep" => req[r].dflt /\ writes[r][i] = "plain" /\ table[i] # "none"
    BY DEF Written
  <2>7. TypeOK' /\ OthersStay(r)
    BY <2>1, <2>4 DEF TypeOK, OthersStay
  <2> HIDE DEF id
  <2>8. Written(r)'
    BY <2>2, <2>3, <2>4, <2>5, <2>6 DEF Written, id
  <2>9. ASSUME NEW i \in Ids, writes'[r][i] # "keep" PROVE ~LockedFor(r, i)
    BY <2>4, <2>6, <2>9 DEF Rows, OneWriter, LockedFor, id
  <2>10. ASSUME NEW i \in Ids, NEW j \in Ids, Seen(r, i)' = "default", Seen(r, j)' = "default"
         PROVE  i = j
    <3>1. ASSUME NEW k \in Ids \ {id}, Seen(r, k)' = "default" PROVE Seen(r, k) = "default"
      BY <2>4, <3>1 DEF Seen
    <3>2. CASE req[r].dflt
      BY <1>2, <2>10, <3>1, <3>2 DEF IndexFree
    <3>3. CASE ~req[r].dflt
      <4>1. i # id /\ j # id
        BY <2>2, <2>4, <2>10, <3>3 DEF Seen
      <4> QED
        BY <2>10, <3>1, <4>1 DEF Rows, OneInView
    <3> QED
      BY <3>2, <3>3
  <2>11. ASSUME NEW i \in Ids, writes'[r][i] = "default" PROVE IndexSettled(r)
    <3>1. req[r].dflt
      BY <2>2, <2>4, <2>6, <2>11
    <3> QED
      BY <3>1 DEF Write
  <2> QED
    BY <2>3, <2>4, <2>6, <2>7, <2>8, <2>9, <2>10, <2>11, WriteStepInv DEF id
<1> QED
  BY <1>1, <1>2

\* INSERT: the row is nobody else's.
LEMMA InsertInv ==
    ASSUME AtMostOneDefault, NEW r \in Requests, Insert(r)
    PROVE  AtMostOneDefault'
<1>1. ~LockedFor(r, req[r].id)
  BY DEF Insert, IdIsFresh, LockedFor
<1> QED
  BY <1>1, WriteInv DEF Insert

\* UPDATE: it waits for the lock of a row that exists.
LEMMA UpdateInv ==
    ASSUME AtMostOneDefault, NEW r \in Requests, Update(r)
    PROVE  AtMostOneDefault'
<1>1. req[r].id \in Ids
  BY DEF Update, Written
<1>2. CASE Seen(r, req[r].id) = "none"
  BY <1>2, RollbackInv DEF Update
<1>3. CASE Seen(r, req[r].id) # "none"
  <2>1. table[req[r].id] # "none"
    BY <1>1, <1>3 DEF Seen, Update, Written
  <2> QED
    BY <1>3, <2>1, WriteInv DEF Update
<1> QED
  BY <1>2, <1>3

\* A deleted row was nobody's to write.
LEMMA DeleteInv ==
    ASSUME AtMostOneDefault, NEW r \in Requests, Delete(r)
    PROVE  AtMostOneDefault'
<1> DEFINE id == req[r].id
<1>1. PICK a \in {"not_found", "ok"} : Answer(r, a)
  BY DEF Delete
<1>2. /\ req' \in [Requests -> Local]
      /\ req'[r] = [Idle EXCEPT !.answer = a]
      /\ \A s \in Requests \ {r} : req'[s] = req[s]
  BY <1>1, AnswerType
<1>3. id \in Ids /\ req[r].op = "delete" /\ ~LockedFor(r, id) /\ writes' = writes
  BY DEF Delete, Written
<1>4. writes[r] = NoWrites
  <2>1. ASSUME NEW i \in Ids PROVE writes[r][i] = "keep"
    BY <1>3 DEF Delete, Written
  <2> QED
    BY <2>1 DEF TypeOK, NoWrites
<1>5. table'[id] = "none" /\ \A i \in Ids \ {id} : table'[i] = table[i]
  BY <1>3 DEF Delete, TypeOK
<1>6. \A s \in Requests : writes[s][id] = "keep"
  BY <1>3, <1>4 DEF LockedFor, NoWrites
<1>7. TypeOK'
  BY <1>2, <1>3 DEF TypeOK, Delete, RowState
<1> HIDE DEF id
<1>8. Rows'
  BY <1>3, <1>5, <1>6 DEF Rows, OneInTable, OneInView, OneWriter, OneSetter, Seen
<1>9. ASSUME NEW s \in Requests \ {r} PROVE Written(s)'
  BY <1>2, <1>3, <1>5, <1>6, <1>9 DEF Written, NewState, TypeOK, Local
<1>10. ASSUME NEW s \in Requests \ {r} PROVE IdIsFresh(s)'
  <2> SUFFICES ASSUME req[s].op = "add", req[s].pc # "idle" PROVE IdIsFresh(s)'
    BY <1>2, <1>10 DEF IdIsFresh
  <2>1. req[s].id \in Ids /\ req[s].id # None /\ IdIsFresh(s)
    BY <1>10 DEF Written
  <2>2. req'[r].seen = {} /\ req'[r].id = None
    BY <1>2 DEF Idle
  <2>3. table'[req[s].id] = "none"
    BY <1>5, <2>1 DEF IdIsFresh
  <2>4. \A t \in Requests : req[s].id \notin req'[t].seen
    BY <1>2, <2>1, <2>2 DEF IdIsFresh
  <2>5. ASSUME NEW t \in Requests \ {s}
        PROVE  writes[t][req[s].id] = "keep" /\ (req'[t].id = req[s].id => req'[t].pc = "get")
    <3>1. writes[t][req[s].id] = "keep" /\ (req[t].id = req[s].id => req[t].pc = "get")
      BY <2>1, <2>5 DEF IdIsFresh
    <3> QED
      BY <1>2, <2>1, <2>2, <3>1
  <2> QED
    BY <1>2, <1>3, <1>10, <2>3, <2>4, <2>5 DEF IdIsFresh
<1> QED
  BY <1>2, <1>3, <1>4, <1>7, <1>8, <1>9, <1>10, AnsweredInv

\* The commit of r: the others have not written its rows, and if one of them sets
\* a default, r does not.
LEMMA CommitTxInv ==
    ASSUME AtMostOneDefault, NEW r \in Requests, CommitTx(r)
    PROVE  AtMostOneDefault'
<1>1. PICK a \in {"ok", "error"} : Answer(r, a)
  BY DEF CommitTx
<1>2. /\ req' \in [Requests -> Local]
      /\ req'[r] = [Idle EXCEPT !.answer = a]
      /\ \A s \in Requests \ {r} : req'[s] = req[s]
  BY <1>1, AnswerType
<1>3. writes'[r] = NoWrites /\ \A s \in Requests \ {r} : writes'[s] = writes[s]
  BY DEF CommitTx, Rollback, TypeOK
<1>4. /\ table' \in [Ids -> RowState]
      /\ \A i \in Ids : table'[i] = IF writes[r][i] = "keep" THEN table[i] ELSE writes[r][i]
  BY DEF CommitTx, Seen, TypeOK, RowState
<1>5. TypeOK'
  BY <1>2, <1>4 DEF TypeOK, CommitTx, Rollback, NoWrites
<1>6. ASSUME NEW s \in Requests \ {r}, NEW i \in Ids, writes[s][i] # "keep"
      PROVE  writes[r][i] = "keep" /\ table'[i] = table[i]
  BY <1>4, <1>6 DEF Rows, OneWriter
<1>7. OneInTable'
  BY <1>4 DEF Rows, OneInView, OneInTable, Seen
<1>8. OneWriter' /\ OneSetter'
  BY <1>3 DEF Rows, OneWriter, OneSetter, NoWrites
<1>9. OneInView'
  <2> SUFFICES ASSUME NEW s \in Requests, NEW i \in Ids, NEW j \in Ids,
                      Seen(s, i)' = "default", Seen(s, j)' = "default"
               PROVE  i = j
    BY DEF OneInView
  <2>1. CASE s = r
    BY <1>3, <1>7, <2>1 DEF OneInTable, Seen, NoWrites
  <2>2. CASE s # r /\ writes[s][i] # "default" /\ writes[s][j] # "default"
    BY <1>3, <1>7, <2>2 DEF OneInTable, Seen
  <2>3. ASSUME s # r, NEW k \in Ids, NEW l \in Ids, writes[s][k] = "default", Seen(s, l)' = "default"
        PROVE  k = l
    <3>1. Seen(s, l) = "default"
      BY <1>3, <1>4, <1>6, <2>3 DEF Seen, Rows, OneSetter
    <3> QED
      BY <2>3, <3>1 DEF Seen, Rows, OneInView
  <2> QED
    BY <2>1, <2>2, <2>3
<1>10. ASSUME NEW s \in Requests \ {r} PROVE Written(s)'
  <2>1. ASSUME NEW i \in Ids, table[i] # "none" PROVE table'[i] # "none"
    BY <1>4, <2>1 DEF TypeOK
  <2>2. ASSUME NEW i \in Ids, i \in req[s].seen, table[i] = "none" PROVE table'[i] = "none"
    <3>1. writes[r][i] # "keep" => req[r].op = "add" /\ i = req[r].id
      BY <2>2 DEF Written
    <3>2. ~(req[r].op = "add" /\ i = req[r].id)
      BY <2>2 DEF CommitTx, IdIsFresh
    <3> QED
      BY <1>4, <2>2, <3>1, <3>2
  <2>3. ASSUME req[s].pc \in {"unset", "write"}, table[req[s].id] = "none", req[s].id \in Ids
        PROVE  table'[req[s].id] = "none"
    <3>1. writes[r][req[s].id] # "keep" => req[r].op = "add" /\ req[s].id = req[r].id
      BY <2>3 DEF Written
    <3>2. ~(req[r].op = "add" /\ req[s].id = req[r].id)
      BY <1>10, <2>3 DEF CommitTx, IdIsFresh
    <3> QED
      BY <1>4, <2>3, <3>1, <3>2
  <2> QED
    BY <1>2, <1>3, <1>10, <2>1, <2>2, <2>3 DEF Written, NewState, TypeOK, Local
<1>11. ASSUME NEW s \in Requests \ {r} PROVE IdIsFresh(s)'
  <2> SUFFICES ASSUME req[s].op = "add", req[s].pc # "idle" PROVE IdIsFresh(s)'
    BY <1>2, <1>11 DEF IdIsFresh
  <2>1. req[s].id \in Ids /\ req[s].id # None /\ IdIsFresh(s)
    BY <1>11 DEF Written
  <2>2. req'[r].seen = {} /\ req'[r].id = None
    BY <1>2 DEF Idle
  <2>3. table'[req[s].id] = "none"
    BY <1>4, <1>11, <2>1 DEF IdIsFresh
  <2>4. \A t \in Requests : req[s].id \notin req'[t].seen
    BY <1>2, <2>1, <2>2 DEF IdIsFresh
  <2>5. ASSUME NEW t \in Requests \ {s}
        PROVE  writes'[t][req[s].id] = "keep" /\ (req'[t].id = req[s].id => req'[t].pc = "get")
    <3>1. writes[t][req[s].id] = "keep" /\ (req[t].id = req[s].id => req[t].pc = "get")
      BY <2>1, <2>5 DEF IdIsFresh
    <3>2. writes'[t][req[s].id] = "keep"
      BY <1>3, <2>1, <3>1 DEF NoWrites
    <3> QED
      BY <1>2, <2>1, <2>2, <3>1, <3>2
  <2> QED
    BY <1>2, <1>11, <2>3, <2>4, <2>5 DEF IdIsFresh
<1> QED
  BY <1>2, <1>3, <1>5, <1>7, <1>8, <1>9, <1>10, <1>11, AnsweredInv DEF Rows

\* The invariant is inductive.
LEMMA NextInv == AtMostOneDefault /\ [Next]_vars => AtMostOneDefault'
<1> SUFFICES ASSUME AtMostOneDefault, [Next]_vars PROVE AtMostOneDefault'
  OBVIOUS
<1>1. CASE UNCHANGED vars
  <2> USE <1>1 DEF vars
  <2>1. TypeOK'
    BY DEF TypeOK
  <2>2. Rows'
    BY DEF Rows, OneInTable, OneInView, OneWriter, OneSetter, Seen
  <2>3. ASSUME NEW r \in Requests PROVE Written(r)'
    <3>1. Written(r)
      OBVIOUS
    <3> QED
      BY <3>1 DEF Written, NewState
  <2>4. ASSUME NEW r \in Requests PROVE IdIsFresh(r)'
    <3>1. IdIsFresh(r)
      OBVIOUS
    <3> QED
      BY <3>1 DEF IdIsFresh
  <2> QED
    BY <2>1, <2>2, <2>3, <2>4
<1>2. ASSUME NEW r \in Requests, NEW i \in Ids, NEW dflt \in BOOLEAN,
             AddAddress(r, i, dflt) \/ UpdateAddress(r, i, dflt) \/ DeleteAddress(r, i)
      PROVE  AtMostOneDefault'
  <2>1. CASE AddAddress(r, i, dflt)
    BY <2>1, AddAddressInv
  <2>2. CASE UpdateAddress(r, i, dflt)
    BY <2>2, ChangeAddressInv DEF UpdateAddress
  <2>3. CASE DeleteAddress(r, i)
    BY <2>3, ChangeAddressInv DEF DeleteAddress
  <2> QED
    BY <1>2, <2>1, <2>2, <2>3
<1>3. ASSUME NEW r \in Requests, Proceed(r) PROVE AtMostOneDefault'
  <2>1. CASE Unset(r)
    BY <2>1, UnsetSnapshotInv, UnsetInv, UnsetReturnsInv DEF Unset
  <2> QED
    BY <1>3, <2>1, GetByIDInv, InsertInv, UpdateInv, DeleteInv, CommitTxInv DEF Proceed
<1>4. ASSUME NEW r \in Requests, Abort(r) PROVE AtMostOneDefault'
  BY <1>4, RollbackInv DEF Abort, Failures
<1> QED
  BY <1>1, <1>2, <1>3, <1>4 DEF Next

-----------------------------------------------------------------------------

\* At most one address is the default, in the table and in the view of every open
\* transaction, however the requests interleave and wherever they fail.
THEOREM DefaultIsUnique == Spec => []AtMostOneDefault
BY InitInv, NextInv, PTL DEF Spec


\* What AddressBook knows of a request.
CallOf(q) == [pending |-> q.pc # "idle", op |-> q.op, id |-> q.id, dflt |-> q.dflt, answer |-> q.answer]
Calls == [r \in Requests |-> CallOf(req[r])]

\* A step of r changes the call of r only.
LEMMA CallsStep ==
    ASSUME TypeOK, NEW r \in Requests, NEW q, req' = [req EXCEPT ![r] = q]
    PROVE  Calls' = [Calls EXCEPT ![r] = CallOf(q)]
BY DEF TypeOK, Calls

\* An answer ends the call.
LEMMA CallsAnswered ==
    ASSUME TypeOK, NEW r \in Requests, NEW a, Answer(r, a)
    PROVE  Calls' = [Calls EXCEPT ![r] = Book!Answered(a)]
<1>1. CallOf([Idle EXCEPT !.answer = a]) = Book!Answered(a)
  BY DEF CallOf, Idle, Book!Answered
<1> QED
  BY <1>1, CallsStep DEF Answer

\* A request that goes on is the same call.
LEMMA CallsStay ==
    ASSUME TypeOK, NEW r \in Requests, req[r].pc # "idle",
           NEW pc \in {"begin", "write", "commit"}, Goto(r, pc)
    PROVE  Calls' = Calls
<1>1. req[r] \in Local /\ req' = [req EXCEPT ![r] = [req[r] EXCEPT !.pc = pc]]
  BY DEF TypeOK, Goto
<1>2. CallOf([req[r] EXCEPT !.pc = pc]) = CallOf(req[r])
  BY <1>1 DEF CallOf, Local
<1> QED
  BY <1>1, <1>2, CallsStep DEF Calls

\* The steps of AddressBook in terms of table and Calls.
BookStutters == table' = table /\ Calls' = Calls
BookRefuses(r, a) ==
    /\ req[r].pc # "idle" /\ a \in {"error", "not_found"} /\ (a = "not_found" => req[r].op # "add")
    /\ table' = table /\ Calls' = [Calls EXCEPT ![r] = Book!Answered(a)]
LEMMA BookSteps ==
    /\ BookStutters => UNCHANGED Book!bookVars
    /\ \A r \in Requests : \A a : BookRefuses(r, a) => Book!Refuse(r)
BY DEF BookStutters, BookRefuses, Calls, CallOf, Book!bookVars, Book!Refuse

\* A request that fails, is refused or does not find its row.
LEMMA RefuseStep ==
    ASSUME TypeOK, NEW r \in Requests, req[r].pc # "idle", NEW a \in {"error", "not_found"},
           a = "not_found" => req[r].op # "add", Answer(r, a), table' = table
    PROVE  Book!Refuse(r)
<1>1. BookRefuses(r, a)
  BY CallsAnswered DEF BookRefuses
<1> QED
  BY <1>1, BookSteps

\* A call.
LEMMA AskStep ==
    ASSUME TypeOK, NEW r \in Requests, NEW i \in Ids, NEW dflt \in BOOLEAN,
           AddAddress(r, i, dflt) \/ UpdateAddress(r, i, dflt) \/ DeleteAddress(r, i)
    PROVE  Book!Next
<1> DEFINE new(op, d) == [pending |-> TRUE, op |-> op, id |-> i, dflt |-> d, answer |-> "none"]
<1>1. ASSUME NEW pc \in {"get", "begin", "write"}, NEW op \in {"add", "update", "delete"},
             NEW d \in BOOLEAN, op = "add" => table[i] = "none", op = "delete" => ~d,
             req[r].pc = "idle", table' = table,
             req' = [req EXCEPT ![r] = [Idle EXCEPT !.pc = pc, !.op = op, !.id = i, !.dflt = d]]
      PROVE  Book!Ask(r, op, i, d)
  <2>1. CallOf([Idle EXCEPT !.pc = pc, !.op = op, !.id = i, !.dflt = d]) = new(op, d)
    BY DEF CallOf, Idle
  <2>2. Calls' = [Calls EXCEPT ![r] = new(op, d)]
    BY <1>1, <2>1, CallsStep
  <2>3. ~Calls[r].pending
    BY <1>1 DEF Calls, CallOf
  <2> QED
    BY <1>1, <2>2, <2>3 DEF Calls, CallOf, Book!Ask
<1>2. CASE AddAddress(r, i, dflt)
  <2>1. Book!Ask(r, "add", i, dflt)
    BY <1>1, <1>2 DEF AddAddress, Unused
  <2> QED
    BY <2>1 DEF Book!Next
<1>3. CASE UpdateAddress(r, i, dflt)
  <2>1. Book!Ask(r, "update", i, dflt)
    BY <1>1, <1>3 DEF UpdateAddress, ChangeAddress
  <2> QED
    BY <2>1 DEF Book!Next
<1>4. CASE DeleteAddress(r, i)
  <2>1. Book!Ask(r, "delete", i, FALSE)
    BY <1>1, <1>4 DEF DeleteAddress, ChangeAddress
  <2> QED
    BY <2>1 DEF Book!Next
<1> QED
  BY <1>2, <1>3, <1>4

\* A commit is the request as a whole: it leaves one default, and changes no other row.
LEMMA CommitPerforms ==
    ASSUME AtMostOneDefault, NEW r \in Requests, CommitTx(r)
    PROVE  Book!Perform(r)
<1> DEFINE id == req[r].id
           dflt == req[r].dflt
           put == [j \in Ids |-> IF j = id THEN IF dflt THEN "default" ELSE "plain"
                                 ELSE IF dflt /\ table[j] = "default" THEN "plain" ELSE table[j]]
<1>1. id \in Ids /\ req[r].pc = "commit" /\ req[r].op # "delete" /\ writes[r][id] = NewState(r)
      /\ NewState(r) # "keep"
  BY DEF CommitTx, Written, NewState
<1>2. req[r].op = "add" <=> table[id] = "none"
  BY <1>1 DEF Written, IdIsFresh
<1>3. ASSUME NEW j \in Ids PROVE Seen(r, j) = put[j]
  <2>1. CASE j = id
    BY <1>1, <2>1 DEF Seen, NewState
  <2>2. CASE j # id /\ writes[r][j] = "keep"
    <3>1. dflt => Seen(r, id) = "default"
      BY <1>1 DEF Seen, NewState
    <3>2. dflt => table[j] # "default"
      BY <1>1, <2>2, <3>1 DEF Seen, Rows, OneInView
    <3> QED
      BY <2>2, <3>2 DEF Seen
  <2>3. CASE j # id /\ writes[r][j] # "keep"
    <3>1. dflt /\ writes[r][j] = "plain" /\ table[j] \in {"plain", "default"}
      BY <2>3 DEF Written, TypeOK, RowState
    <3> QED
      BY <2>3, <3>1 DEF Seen
  <2> QED
    BY <2>1, <2>2, <2>3
<1>4. table' = put
  BY <1>3 DEF CommitTx
<1>5. PICK a \in {"ok", "error"} : Answer(r, a)
  BY DEF CommitTx
<1>6. Calls' = [Calls EXCEPT ![r] = Book!Answered(a)]
  BY <1>5, CallsAnswered
<1>7. Calls[r] = CallOf(req[r]) /\ CallOf(req[r]).pending
  BY <1>1 DEF Calls, CallOf
<1> QED
  BY <1>1, <1>2, <1>4, <1>6, <1>7 DEF Calls, CallOf, Book!Perform, Book!Put

\* A deletion that finds its row.
LEMMA DeletePerforms ==
    ASSUME AtMostOneDefault, NEW r \in Requests, Delete(r)
    PROVE  Book!Perform(r) \/ Book!Refuse(r)
<1>1. req[r].id \in Ids /\ req[r].pc = "write" /\ req[r].op = "delete"
  BY DEF Delete, Written
<1>2. CASE table[req[r].id] = "none"
  <2>1. table' = table /\ Answer(r, "not_found")
    BY <1>1, <1>2 DEF Delete, TypeOK
  <2> QED
    BY <1>1, <2>1, RefuseStep
<1>3. CASE table[req[r].id] # "none"
  <2>1. PICK a \in {"ok", "not_found"} : Answer(r, a)
    BY <1>3 DEF Delete
  <2>2. Calls' = [Calls EXCEPT ![r] = Book!Answered(a)]
    BY <2>1, CallsAnswered
  <2>3. Calls[r] = CallOf(req[r]) /\ CallOf(req[r]).pending
    BY <1>1 DEF Calls, CallOf
  <2>4. table' = [table EXCEPT ![req[r].id] = "none"]
    BY DEF Delete
  <2> QED
    BY <1>1, <1>3, <2>2, <2>3, <2>4 DEF Calls, CallOf, Book!Perform, Book!Remove
<1> QED
  BY <1>2, <1>3

\* A statement before the commit has no effect, or refuses the request.
LEMMA StatementStep ==
    ASSUME AtMostOneDefault, NEW r \in Requests, GetByID(r) \/ Unset(r) \/ Insert(r) \/ Update(r)
    PROVE  UNCHANGED Book!bookVars \/ Book!Refuse(r)
<1>1. CASE GetByID(r)
  <2>1. req[r].pc = "get" /\ req[r].op # "add" /\ table' = table
    BY <1>1 DEF GetByID, Written
  <2>2. Answer(r, "not_found") \/ Goto(r, "begin") \/ Goto(r, "write")
    BY <1>1 DEF GetByID
  <2> QED
    BY <2>1, <2>2, RefuseStep, CallsStay, BookSteps DEF BookStutters
<1>2. CASE UnsetSnapshot(r)
  <2> DEFINE q == [req[r] EXCEPT !.pc = "unset", !.seen = {i \in Ids : table[i] # "none"}]
  <2>1. req[r] \in Local /\ req[r].pc = "begin" /\ table' = table /\ req' = [req EXCEPT ![r] = q]
    BY <1>2 DEF UnsetSnapshot, TypeOK
  <2>2. CallOf(q) = CallOf(req[r])
    BY <2>1 DEF CallOf, Local
  <2> HIDE DEF q
  <2>3. Calls' = Calls
    BY <2>1, <2>2, CallsStep DEF Calls
  <2> QED
    BY <2>1, <2>3, BookSteps DEF BookStutters
<1>3. ASSUME NEW i \in Ids, UnsetDefaultByUserID(r, i) PROVE UNCHANGED Book!bookVars
  BY <1>3, BookSteps DEF UnsetDefaultByUserID, BookStutters, Calls
<1>4. CASE UnsetReturns(r)
  BY <1>4, CallsStay, BookSteps DEF UnsetReturns, BookStutters
<1>5. CASE Insert(r)
  <2>1. req[r].pc = "write" /\ table' = table /\ (Answer(r, "error") \/ Goto(r, "commit"))
    BY <1>5 DEF Insert, Write
  <2> QED
    BY <2>1, RefuseStep, CallsStay, BookSteps DEF BookStutters
<1>6. CASE Update(r)
  <2>1. /\ req[r].pc = "write" /\ req[r].op # "add" /\ table' = table
        /\ Answer(r, "not_found") \/ Goto(r, "commit")
    BY <1>6 DEF Update, Write
  <2> QED
    BY <2>1, RefuseStep, CallsStay, BookSteps DEF BookStutters
<1> QED
  BY <1>1, <1>2, <1>3, <1>4, <1>5, <1>6 DEF Unset

\* Every step is a step of AddressBook, or none.
LEMMA BookNext == AtMostOneDefault /\ [Next]_vars => [Book!Next]_(Book!bookVars)
<1> SUFFICES ASSUME AtMostOneDefault, [Next]_vars PROVE [Book!Next]_(Book!bookVars)
  OBVIOUS
<1>1. CASE UNCHANGED vars
  BY <1>1, BookSteps DEF vars, BookStutters, Calls
<1>2. ASSUME NEW r \in Requests, NEW i \in Ids, NEW dflt \in BOOLEAN,
             AddAddress(r, i, dflt) \/ UpdateAddress(r, i, dflt) \/ DeleteAddress(r, i)
      PROVE  Book!Next
  BY <1>2, AskStep
<1>3. ASSUME NEW r \in Requests, Proceed(r) PROVE [Book!Next]_(Book!bookVars)
  <2>1. UNCHANGED Book!bookVars \/ Book!Refuse(r) \/ Book!Perform(r)
    BY <1>3, StatementStep, CommitPerforms, DeletePerforms DEF Proceed
  <2> QED
    BY <2>1 DEF Book!Next
<1>4. ASSUME NEW r \in Requests, Abort(r) PROVE Book!Next
  <2>1. PICK a \in {"error", "not_found"} : Answer(r, a) /\ (a = "not_found" => req[r].op # "add")
    BY <1>4 DEF Abort, Failures
  <2>2. Book!Refuse(r)
    BY <1>4, <2>1, RefuseStep DEF Abort
  <2> QED
    BY <2>2 DEF Book!Next
<1> QED
  BY <1>1, <1>2, <1>3, <1>4 DEF Next

\* Every request is one atomic operation on the address book.
THEOREM RequestsAreAtomic == Spec => ImplementsAddressBook
<1>1. Init => Book!Init
  <2> SUFFICES ASSUME Init PROVE Book!Init
    OBVIOUS
  <2>1. CallOf(Idle) = Book!Answered("none")
    BY DEF CallOf, Idle, Book!Answered
  <2>2. Calls = [r \in Requests |-> Book!Answered("none")]
    BY <2>1 DEF Init, Calls
  <2> QED
    BY <2>2 DEF Init, Calls, CallOf, Book!Init
<1> QED
  BY <1>1, BookNext, DefaultIsUnique, PTL DEF Spec, ImplementsAddressBook, Book!Spec

\* A request that returns ErrAddressNotFound from its UPDATE found no row, or was
\* refused by the unique index because of a default that its snapshot did not have.
LEMMA RefusedUpdate ==
    ASSUME AtMostOneDefault, NEW r \in Requests, Update(r),
           req'[r].pc = "idle", req'[r].answer = "not_found"
    PROVE  \/ table[req[r].id] = "none"
           \/ req[r].dflt /\ Default \ (req[r].seen \cup {req[r].id}) # {}
<1>1. req[r].id \in Ids /\ req[r].pc = "write" /\ req[r] \in Local
  BY DEF Update, Written, TypeOK
<1>2. CASE Seen(r, req[r].id) = "none"
  BY <1>1, <1>2 DEF Seen, TypeOK
<1>3. CASE Seen(r, req[r].id) # "none" /\ ~(req[r].dflt /\ ~IndexFree(r, req[r].id))
  <2>1. req'[r] = [req[r] EXCEPT !.pc = "commit"]
    BY <1>3, GotoType DEF Update, Write
  <2> QED
    BY <1>1, <2>1 DEF Local
<1>4. CASE req[r].dflt /\ ~IndexFree(r, req[r].id)
  <2>1. PICK j \in Ids \ {req[r].id} : Seen(r, j) = "default"
    BY <1>4 DEF IndexFree
  <2>2. writes[r][j] = "keep" /\ table[j] = "default"
    BY <1>1, <2>1 DEF Seen, Written
  <2>3. j \notin req[r].seen
    BY <1>1, <2>2 DEF Written
  <2> QED
    BY <1>4, <2>2, <2>3 DEF Default, ListAddresses
<1> QED
  BY <1>2, <1>3, <1>4

\* A request that is not answered by this statement goes on.
LEMMA GoesOn ==
    ASSUME TypeOK, NEW r \in Requests, NEW pc \in {"begin", "unset", "write", "commit"}, Goto(r, pc)
    PROVE  req'[r].pc # "idle"
<1>1. req[r] \in Local /\ req'[r] = [req[r] EXCEPT !.pc = pc]
  BY GotoType DEF TypeOK
<1> QED
  BY <1>1 DEF Local

\* Every statement that is answered with ErrAddressNotFound has one of the two reasons.
LEMMA NotFoundStep ==
    ASSUME AtMostOneDefault, NEW r \in Requests, Proceed(r),
           req'[r].pc = "idle", req'[r].answer = "not_found"
    PROVE  \/ table'[req[r].id] = "none"
           \/ req[r].dflt /\ Default \ (req[r].seen \cup {req[r].id}) # {}
<1> DEFINE Explained == \/ table'[req[r].id] = "none"
                        \/ req[r].dflt /\ Default \ (req[r].seen \cup {req[r].id}) # {}
<1>0. req \in [Requests -> Local]
  BY DEF TypeOK
<1>1. CASE GetByID(r)
  BY <1>1, GoesOn DEF GetByID
<1>2. CASE Unset(r)
  <2>1. CASE UnsetSnapshot(r)
    BY <1>0, <2>1 DEF UnsetSnapshot, Local
  <2>2. ASSUME NEW i \in Ids, UnsetDefaultByUserID(r, i) PROVE Explained
    BY <2>2 DEF UnsetDefaultByUserID
  <2>3. CASE UnsetReturns(r)
    BY <2>3, GoesOn DEF UnsetReturns
  <2> QED
    BY <1>2, <2>1, <2>2, <2>3 DEF Unset
<1>3. CASE Insert(r)
  <2>1. Answer(r, "error") \/ Goto(r, "commit")
    BY <1>3 DEF Insert, Write
  <2> QED
    BY <1>0, <2>1, GoesOn DEF Answer, Idle
<1>4. CASE Update(r)
  <2>1. table' = table
    BY <1>4 DEF Update, Write
  <2> QED
    BY <1>4, <2>1, RefusedUpdate
<1>5. CASE Delete(r)
  <2>1. req[r].id \in Ids
    BY <1>5 DEF Delete, Written
  <2> QED
    BY <1>5, <2>1 DEF Delete, TypeOK
<1>6. CASE CommitTx(r)
  BY <1>0, <1>6 DEF CommitTx, Answer, Idle
<1> QED
  BY <1>1, <1>2, <1>3, <1>4, <1>5, <1>6 DEF Proceed

\* Unless a statement failed, ErrAddressNotFound means that the address is gone or
\* that another one became the default after the unset.
THEOREM NotFoundHasAReason == Spec => NotFoundIsExplained
<1>1. AtMostOneDefault /\ [Next]_vars =>
        [\A r \in Requests :
            Proceed(r) /\ req'[r].pc = "idle" /\ req'[r].answer = "not_found"
            => \/ table'[req[r].id] = "none"
               \/ req[r].dflt /\ Default \ (req[r].seen \cup {req[r].id}) # {}]_vars
  BY NotFoundStep
<1> QED
  BY <1>1, DefaultIsUnique, PTL DEF Spec, NotFoundIsExplained

-----------------------------------------------------------------------------

\* A request that is waited for has written something.
LEMMA WaitedFor ==
    ASSUME AtMostOneDefault, NEW r \in Requests, NEW s \in Requests, Waits(r, s)
    PROVE  \E i \in Ids : writes[s][i] # "keep"
<1>1. req[r].seen \subseteq Ids
  BY DEF TypeOK, Local
<1>2. req[r].pc = "write" => req[r].id \in Ids
  BY DEF Written
<1> QED
  BY <1>1, <1>2 DEF Waits, WaitsForRow, WaitsForIndex, Left

\* One that is at its write and has written something has locked its own row with
\* its unset: it can only wait at the index.
LEMMA HolderWaits ==
    ASSUME AtMostOneDefault, NEW s \in Requests, NEW t \in Requests, req[s].pc = "write",
           NEW i \in Ids, writes[s][i] # "keep", Waits(s, t)
    PROVE  \E j \in Ids : writes[t][j] # "keep" /\ (table[j] = "default" \/ writes[t][j] = "default")
<1>1. t # s /\ req[s].dflt /\ req[s].op # "delete" /\ req[s].id \in Ids /\ req[s] \in Local
  BY DEF Waits, Written, TypeOK
<1>2. ~WaitsForRow(s, t)
  <2> SUFFICES ASSUME WaitsForRow(s, t) PROVE FALSE
    OBVIOUS
  <2>1. req[s].op = "update" /\ writes[t][req[s].id] # "keep"
    BY <1>1 DEF WaitsForRow, Local
  <2>2. table[req[s].id] # "none"
    <3>1. \/ table[req[s].id] # "none"
          \/ req[t].op = "add" /\ req[t].pc = "commit" /\ req[s].id = req[t].id
      BY <1>1, <2>1 DEF Written
    <3>2. req[t].op = "add" /\ req[t].pc = "commit" /\ req[s].id = req[t].id => req[s].pc = "get"
      BY <1>1 DEF IdIsFresh
    <3> QED
      BY <3>1, <3>2
  <2>3. writes[s][req[s].id] # "keep"
    BY <1>1, <2>1, <2>2 DEF Written
  <2> QED
    BY <1>1, <2>1, <2>3 DEF Rows, OneWriter
<1> QED
  BY <1>2 DEF Waits, WaitsForIndex

\* Past the unset a wait is short: the request that another waits for may wait at
\* the unique index itself, but for one that can go on.
LEMMA WaitsAreShort ==
    ASSUME AtMostOneDefault, NEW r \in Requests, NEW s \in Requests, NEW t \in Requests,
           NEW u \in Requests, req[s].pc = "write", req[t].pc = "write",
           Waits(r, s), Waits(s, t), Waits(t, u)
    PROVE  FALSE
<1>1. PICK i \in Ids : writes[s][i] # "keep"
  BY WaitedFor
<1>2. PICK j \in Ids : writes[t][j] # "keep" /\ table[j] = "default"
  <2>1. PICK j \in Ids : writes[t][j] # "keep" /\ (table[j] = "default" \/ writes[t][j] = "default")
    BY <1>1, HolderWaits
  <2>2. writes[t][j] # "default"
    BY <2>1 DEF Written
  <2> QED
    BY <2>1, <2>2
<1>3. PICK k \in Ids : writes[u][k] # "keep" /\ (table[k] = "default" \/ writes[u][k] = "default")
  BY <1>2, HolderWaits
<1>4. u # t /\ writes[u][j] = "keep"
  <2>1. u # t
    BY DEF Waits
  <2> QED
    BY <1>2, <2>1 DEF Rows, OneWriter
<1>5. CASE table[k] = "default"
  BY <1>2, <1>3, <1>4, <1>5 DEF Rows, OneInTable
<1>6. CASE writes[u][k] = "default"
  <2>1. Seen(u, j) = "default" /\ Seen(u, k) = "default"
    BY <1>2, <1>4, <1>6 DEF Seen
  <2> QED
    BY <1>3, <1>4, <2>1 DEF Rows, OneInView
<1> QED
  BY <1>3, <1>5, <1>6

\* Without an unset the first two requests of a circle would wait for each other or
\* begin a chain that is too long.
LEMMA CirclesHaveUnset == AtMostOneDefault => CirclesNeedUnset
<1> SUFFICES ASSUME AtMostOneDefault, NEW n \in 1..Cardinality(Requests), NEW c \in Circles(n),
                    \A k \in 0..(n - 1) : req[c[k]].pc # "unset"
             PROVE  FALSE
  BY DEF CirclesNeedUnset
<1>1. n \in Nat /\ n >= 1
  BY FiniteRequests, FS_CardinalityType
<1>2. c \in [0..n -> Requests] /\ c[0] = c[n] /\ \A k \in 0..(n - 1) : Waits(c[k], c[k + 1])
  BY DEF Circles
<1>3. \A k \in 0..(n - 1) : req[c[k]].pc = "write"
  BY <1>2 DEF Waits, WaitsForRow, WaitsForIndex
<1>4. n # 1
  <2>1. n = 1 => Waits(c[0], c[0])
    BY <1>1, <1>2
  <2> QED
    BY <2>1 DEF Waits
<1>5. /\ c[n - 1] \in Requests /\ c[0] \in Requests /\ c[1] \in Requests /\ c[2] \in Requests
      /\ req[c[0]].pc = "write" /\ req[c[1]].pc = "write"
  BY <1>1, <1>2, <1>3, <1>4
<1>6. Waits(c[n - 1], c[0])
  <2>1. n - 1 \in 0..(n - 1) /\ (n - 1) + 1 = n
    BY <1>1
  <2> QED
    BY <1>2, <2>1
<1>7. Waits(c[0], c[1]) /\ Waits(c[1], c[2])
  <2>1. 0 \in 0..(n - 1) /\ 1 \in 0..(n - 1) /\ 0 + 1 = 1 /\ 1 + 1 = 2
    BY <1>1, <1>4
  <2> QED
    BY <1>2, <2>1
<1> QED
  BY <1>5, <1>6, <1>7, WaitsAreShort

\* Every circle of waits has a request in it that is still unsetting the default,
\* however many requests there are.
THEOREM WritesDoNotDeadlock == Spec => []CirclesNeedUnset
BY DefaultIsUnique, CirclesHaveUnset, PTL
=============================================================================
