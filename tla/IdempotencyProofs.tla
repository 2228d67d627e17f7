------------------------- MODULE IdempotencyProofs -------------------------
(* Proofs about module Idempotency, for any requests, keys and bodies. *)
EXTENDS Idempotency, TLAPS

\* Every run starts in the invariant: no record, no request begun.
LEMMA IdempotencyInit == Init => IdempotencyInv
  <1> SUFFICES ASSUME Init PROVE IdempotencyInv
    OBVIOUS
  <1>1. NoRecord \in Record
    BY DEF NoRecord, Record
  <1>2. TypeOK
    BY <1>1 DEF Init, TypeOK
  <1>3. QED
    BY <1>2, IdempotencyConstants DEF Init, IdempotencyInv, NoRecord

\* Reserve keeps the invariant: SETNX gives the key to one request.
LEMMA ReserveStep == ASSUME IdempotencyInv, NEW r \in Requests, Reserve(r)
                     PROVE  IdempotencyInv'
  <1> USE IdempotencyConstants
  <1> DEFINE k == KeyOf[r]
  <1>0. /\ k \in Keys /\ TypeOK
        /\ InProgress(r) \in Record /\ InProgress(r).status = "in_progress"
        /\ InProgress(r).hash = BodyOf[r] /\ InProgress(r).ttl /\ NoRecord.status = "none"
    BY DEF IdempotencyInv, InProgress, Record, NoRecord
  <1>1. CASE SetNX(k) /\ store' = [store EXCEPT ![k] = InProgress(r)]
    <2>1. TypeOK'
      BY <1>0, <1>1 DEF TypeOK, Reserve, Goto
    <2>2. \A q \in acquired : KeyOf[q] = k => k \in expired
      BY <1>0, <1>1 DEF IdempotencyInv, SetNX
    <2>3. r \notin acquired
      BY DEF IdempotencyInv, Reserve
    <2>4. QED
      BY <1>0, <1>1, <2>1, <2>2, <2>3 DEF IdempotencyInv, Reserve, Goto, TypeOK, InProgress, SetNX
  <1>2. CASE UNCHANGED <<store, acquired>>
    <2>1. TypeOK'
      BY <1>0, <1>2 DEF TypeOK, Reserve, Goto
    <2>2. QED
      BY <1>0, <1>2, <2>1 DEF IdempotencyInv, Reserve, Goto, TypeOK
  <1>3. QED
    BY <1>1, <1>2 DEF Reserve

\* Lookup keeps the invariant: a replayed response is that of the record.
LEMMA LookupStep == ASSUME IdempotencyInv, NEW r \in Requests, Lookup(r)
                    PROVE  IdempotencyInv'
  <1> USE IdempotencyConstants
  <1> DEFINE k == KeyOf[r]
  <1>0. k \in Keys /\ TypeOK /\ store[k] \in Record
    BY DEF IdempotencyInv, TypeOK
  <1>1. store[k].response \in Requests \cup {None}
    BY <1>0 DEF Record
  <1>2. TypeOK'
    BY <1>0, <1>1 DEF TypeOK, Lookup, Goto
  <1>3. CASE Replayable(r, store[k]) /\ reply' = [reply EXCEPT ![r] = store[k].response]
    <2>1. k \notin expired => /\ store[k].response \in acquired
                              /\ KeyOf[store[k].response] = k
                              /\ BodyOf[store[k].response] = BodyOf[r]
      BY <1>0, <1>3 DEF IdempotencyInv, Replayable
    <2>2. QED
      BY <1>0, <1>2, <1>3, <2>1 DEF IdempotencyInv, Lookup, Goto, TypeOK
  <1>4. CASE UNCHANGED reply
    BY <1>0, <1>2, <1>4 DEF IdempotencyInv, Lookup, Goto, TypeOK
  <1>5. QED
    BY <1>3, <1>4 DEF Lookup

\* The handler keeps the invariant: it runs for a request that holds its key.
LEMMA HandleStep == ASSUME IdempotencyInv, NEW r \in Requests, Handle(r)
                    PROVE  IdempotencyInv'
  <1> USE IdempotencyConstants
  <1>1. TypeOK'
    BY DEF IdempotencyInv, TypeOK, Handle, Goto
  <1>2. QED
    BY <1>1 DEF IdempotencyInv, TypeOK, Handle, Goto

\* Complete's Get keeps the invariant: it reads the record of the key.
LEMMA CompleteGetStep == ASSUME IdempotencyInv, NEW r \in Requests, CompleteGet(r)
                         PROVE  IdempotencyInv'
  <1> USE IdempotencyConstants
  <1>0. KeyOf[r] \in Keys /\ TypeOK
    BY DEF IdempotencyInv
  <1>1. TypeOK'
    BY <1>0 DEF TypeOK, CompleteGet, Goto
  <1>2. QED
    BY <1>0, <1>1 DEF IdempotencyInv, TypeOK, CompleteGet, Goto

\* Complete's SET keeps the invariant: while the key has not expired, the record
\* it overwrites is the one this request reserved.
LEMMA CompleteSetStep == ASSUME IdempotencyInv, NEW r \in Requests, CompleteSet(r)
                         PROVE  IdempotencyInv'
  <1> USE IdempotencyConstants
  <1> DEFINE k == KeyOf[r]
             rec == Completed(r)
  <1>0. k \in Keys /\ TypeOK /\ read[r] \in Record
    BY DEF IdempotencyInv, TypeOK
  <1>1. /\ rec \in Record /\ rec.status = "completed"
        /\ rec.response = r /\ rec.hash = read[r].hash /\ rec.ttl
    BY <1>0 DEF Record, Completed
  <1> HIDE DEF rec
  <1>2. r \in acquired
    BY DEF IdempotencyInv, CompleteSet
  <1>3. CASE store' = [store EXCEPT ![k] = rec]
    <2>1. TypeOK'
      BY <1>0, <1>1, <1>3 DEF TypeOK, CompleteSet, Goto
    <2>2. QED
      BY <1>0, <1>1, <1>2, <1>3, <2>1 DEF IdempotencyInv, TypeOK, CompleteSet, Goto
  <1>4. CASE store' = store
    <2>1. TypeOK'
      BY <1>0, <1>4 DEF TypeOK, CompleteSet, Goto
    <2>2. QED
      BY <1>0, <1>4, <2>1 DEF IdempotencyInv, TypeOK, CompleteSet, Goto
  <1>5. QED
    BY <1>3, <1>4 DEF CompleteSet, rec

\* A request that stops keeps the invariant: its record stays.
LEMMA DieStep == ASSUME IdempotencyInv, NEW r \in Requests, Die(r)
                 PROVE  IdempotencyInv'
  <1>1. TypeOK'
    BY DEF IdempotencyInv, TypeOK, Die, Goto
  <1>2. executed' \subseteq acquired
    BY DEF IdempotencyInv, Die
  <1>3. QED
    BY <1>1, <1>2 DEF IdempotencyInv, TypeOK, Die, Goto

\* Expiry keeps the invariant, which says nothing more of the key.
LEMMA ExpireStep == ASSUME IdempotencyInv, NEW k \in Keys, Expire(k)
                    PROVE  IdempotencyInv'
  <1> USE IdempotencyConstants
  <1>1. NoRecord \in Record
    BY DEF NoRecord, Record
  <1>2. TypeOK'
    BY <1>1 DEF IdempotencyInv, TypeOK, Expire
  <1>3. QED
    BY <1>2 DEF IdempotencyInv, TypeOK, Expire

\* Every step of every request, and the expiry of every key, keeps the invariant.
LEMMA IdempotencyStep == IdempotencyInv /\ [Next]_vars => IdempotencyInv'
  <1> SUFFICES ASSUME IdempotencyInv, [Next]_vars PROVE IdempotencyInv'
    OBVIOUS
  <1>1. ASSUME NEW r \in Requests, Step(r) PROVE IdempotencyInv'
    BY <1>1, ReserveStep, LookupStep, HandleStep, CompleteGetStep, CompleteSetStep, DieStep
       DEF Step
  <1>2. ASSUME NEW k \in Keys, Expire(k) PROVE IdempotencyInv'
    BY <1>2, ExpireStep
  <1>3. CASE UNCHANGED vars
    BY <1>3 DEF vars, IdempotencyInv, TypeOK
  <1>4. QED
    BY <1>1, <1>2, <1>3 DEF Next

\* The inductive invariant holds for any requests, keys and bodies.
THEOREM IdempotencyInvariant == Spec => []IdempotencyInv
  BY IdempotencyInit, IdempotencyStep, PTL DEF Spec

\* While the record of a key has not expired, at most one request with that key
\* has had its effect (GinMiddleware over SETNX).
THEOREM EffectAtMostOnce == Spec => []AtMostOnce
  <1>1. IdempotencyInv => AtMostOnce
    BY DEF IdempotencyInv, AtMostOnce
  <1>2. QED
    BY <1>1, IdempotencyInvariant, PTL

\* While the record of a key has not expired, all clients that get a handler's
\* response get the same one, produced for their own body.
THEOREM SameAnswer == Spec => []AnswersAgree
  <1>1. IdempotencyInv => AnswersAgree
    BY IdempotencyConstants DEF IdempotencyInv, AnswersAgree
  <1>2. QED
    BY <1>1, IdempotencyInvariant, PTL

\* A completed record does not change until it expires: a request that could
\* still write to it holds the key, and then the record is in progress.
THEOREM CompletedIsFinal == Spec => ResponseIsFinal
  <1> DEFINE Final == \A k \in Keys : store[k].status = "completed" /\ k \notin expired'
                                      => store'[k] = store[k]
  <1>1. ASSUME IdempotencyInv, [Next]_vars PROVE [Final]_vars
    <2> USE <1>1, IdempotencyConstants
    <2>1. ASSUME NEW r \in Requests, Step(r) PROVE Final
      <3>1. CASE Reserve(r)
        BY <3>1 DEF IdempotencyInv, TypeOK, Reserve, SetNX, NoRecord
      <3>2. CASE CompleteSet(r)
        BY <3>2 DEF IdempotencyInv, TypeOK, CompleteSet
      <3>3. CASE Lookup(r) \/ Handle(r) \/ CompleteGet(r) \/ Die(r)
        BY <3>3 DEF Lookup, Handle, CompleteGet, Die
      <3>4. QED
        BY <2>1, <3>1, <3>2, <3>3 DEF Step
    <2>2. ASSUME NEW k \in Keys, Expire(k) PROVE Final
      BY <2>2 DEF IdempotencyInv, TypeOK, Expire
    <2>3. QED
      BY <2>1, <2>2 DEF Next
  <1>2. IdempotencyInv /\ [Next]_vars => [Final]_vars
    BY <1>1
  <1>3. QED
    BY <1>2, IdempotencyInvariant, PTL DEF Spec, ResponseIsFinal, Final
=============================================================================
