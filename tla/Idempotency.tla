---------------------------- MODULE Idempotency ----------------------------
(***************************************************************************)
(* The idempotency middleware of the HTTP API: GinMiddleware, the service  *)
(* behind it and its Redis store.                                          *)
(*                                                                         *)
(* A step is one command to Redis or the run of the wrapped handler.  A    *)
(* request is one delivery of an HTTP call; a client that retries sends    *)
(* another request with the same key.  Key k stands for scope and          *)
(* Idempotency-Key together (BuildKey), BodyOf[r] for HashBytes(body), and *)
(* a response is named after the request whose handler wrote it.           *)
(***************************************************************************)
EXTENDS Integers, FiniteSets

CONSTANTS
    Requests,
    Keys,
    Bodies,
    KeyOf,    \* the key request r carries
    BodyOf,   \* the hash of its body
    None

ASSUME IdempotencyConstants ==
    /\ KeyOf \in [Requests -> Keys]
    /\ BodyOf \in [Requests -> Bodies]
    /\ None \notin Requests \cup Bodies

VARIABLES
    store,     \* Redis: the record under each key
    pc,        \* where each request is
    read,      \* the record that Complete has read
    reply,     \* the handler's response that the client received, if any
    executed,  \* the requests whose handler had its effect
    acquired,  \* history: the requests that were told to proceed
    expired    \* history: the keys whose record has vanished at some time

vars == <<store, pc, read, reply, executed, acquired, expired>>

\* A record with ttl FALSE would never expire.
Record   == [status : {"none", "in_progress", "completed"}, hash : Bodies \cup {None},
             response : Requests \cup {None}, ttl : BOOLEAN]
NoRecord == [status |-> "none", hash |-> None, response |-> None, ttl |-> FALSE]

Init ==
    /\ store = [k \in Keys |-> NoRecord]
    /\ pc = [r \in Requests |-> "new"]
    /\ read = [r \in Requests |-> NoRecord]
    /\ reply = [r \in Requests |-> None]
    /\ executed = {}
    /\ acquired = {}
    /\ expired = {}

Goto(r, l) == pc' = [pc EXCEPT ![r] = l]

-----------------------------------------------------------------------------
(* BeginHTTP *)

\* The record BeginHTTP reserves the key with.
InProgressNoTTL(r) == [status |-> "in_progress", hash |-> BodyOf[r], response |-> None,
                       ttl |-> FALSE]
InProgress(r) == [status |-> "in_progress", hash |-> BodyOf[r], response |-> None,
                  ttl |-> TRUE]

\* SETNX sets a key only if it is free.
SetAlways(k) == TRUE
SetNX(k) == store[k] = NoRecord

\* Reserve: SETNX acquires the key, finds it taken, or fails.  The record may
\* have been written although the reply was lost: the Redis client then reports
\* an error, or sends SETNX again and finds the key taken by this very request.
Reserve(r) ==
    LET k == KeyOf[r] IN
    /\ pc[r] = "new"
    /\ \/ /\ SetNX(k)
          /\ store' = [store EXCEPT ![k] = InProgress(r)]
          /\ \/ /\ acquired' = acquired \cup {r}
                /\ Goto(r, "handle")
             \/ /\ pc' \in {[pc EXCEPT ![r] = l] : l \in {"lookup", "refused"}}
                /\ UNCHANGED acquired
       \/ /\ ~SetNX(k)
          /\ Goto(r, "lookup")
          /\ UNCHANGED <<store, acquired>>
       \/ /\ Goto(r, "refused")
          /\ UNCHANGED <<store, acquired>>
    /\ UNCHANGED <<read, reply, executed, expired>>

\* A record is replayed to a request with the body it was reserved for.
ReplayAnyBody(r, rec) == rec.status = "completed"
Replayable(r, rec) == rec.hash = BodyOf[r] /\ rec.status = "completed"

\* The Get after SETNX found the key taken: a completed record is replayed;
\* 409 for another body or a record in progress, 500 when the record is gone.
Lookup(r) ==
    LET rec == store[KeyOf[r]] IN
    /\ pc[r] = "lookup"
    /\ \/ /\ Replayable(r, rec)
          /\ reply' = [reply EXCEPT ![r] = rec.response]
          /\ Goto(r, "done")
       \/ /\ ~Replayable(r, rec)
          /\ Goto(r, "refused")
          /\ UNCHANGED reply
    /\ UNCHANGED <<store, read, executed, acquired, expired>>

-----------------------------------------------------------------------------
(* The handler and CompleteHTTP *)

\* c.Next(): the handler commits its effect or fails, and in either case its
\* response goes to the client before CompleteHTTP runs.
Handle(r) ==
    /\ pc[r] = "handle"
    /\ executed' \in {executed \cup {r}, executed}
    /\ reply' = [reply EXCEPT ![r] = r]
    /\ Goto(r, "complete_get")
    /\ UNCHANGED <<store, read, acquired, expired>>

\* Complete reads the record; when it is gone there is nothing to complete.
CompleteGet(r) ==
    LET rec == store[KeyOf[r]] IN
    /\ pc[r] = "complete_get"
    /\ IF rec = NoRecord
       THEN Goto(r, "done") /\ UNCHANGED read
       ELSE Goto(r, "complete_set") /\ read' = [read EXCEPT ![r] = rec]
    /\ UNCHANGED <<store, reply, executed, acquired, expired>>

\* The record Complete writes back: the status and the response are new, the
\* rest is what it read.
CompletedForgettingHash(r) == [read[r] EXCEPT !.status = "completed", !.response = r,
                                              !.hash = None]
Completed(r) == [read[r] EXCEPT !.status = "completed", !.response = r, !.ttl = TRUE]

\* The SET of the completed record, whose error the middleware ignores.
CompleteSet(r) ==
    /\ pc[r] = "complete_set"
    /\ store' \in {[store EXCEPT ![KeyOf[r]] = Completed(r)], store}
    /\ Goto(r, "done")
    /\ UNCHANGED <<read, reply, executed, acquired, expired>>

-----------------------------------------------------------------------------
(* Environment *)

\* The process dies, the handler panics, the client's context is cancelled or
\* Redis fails: the request stops where it is.  A handler that was running may
\* have had its effect.
Die(r) ==
    /\ pc[r] \in {"lookup", "handle", "complete_get", "complete_set"}
    /\ executed' \in {executed, IF pc[r] = "handle" THEN executed \cup {r} ELSE executed}
    /\ Goto(r, "refused")
    /\ UNCHANGED <<store, read, reply, acquired, expired>>

\* The TTL of a key runs out (InProgressTTL or CompletedTTL).
Expire(k) ==
    /\ store[k] # NoRecord
    /\ store[k].ttl
    /\ store' = [store EXCEPT ![k] = NoRecord]
    /\ expired' = expired \cup {k}
    /\ UNCHANGED <<pc, read, reply, executed, acquired>>

Step(r) == \/ Reserve(r) \/ Lookup(r) \/ Handle(r)
           \/ CompleteGet(r) \/ CompleteSet(r) \/ Die(r)

Next == \/ \E r \in Requests : Step(r)
        \/ \E k \in Keys : Expire(k)

Spec == Init /\ [][Next]_vars

\* Redis removes an expired key in the end; requests and processes may stop
\* anywhere.
FairSpec == Spec /\ \A k \in Keys : WF_vars(Expire(k))

-----------------------------------------------------------------------------
(* Properties *)

\* Type invariant of the store and the requests.
TypeOK ==
    /\ store \in [Keys -> Record]
    /\ pc \in [Requests -> {"new", "lookup", "handle", "complete_get", "complete_set",
                            "done", "refused"}]
    /\ read \in [Requests -> Record]
    /\ reply \in [Requests -> Requests \cup {None}]
    /\ executed \in SUBSET Requests
    /\ acquired \in SUBSET Requests
    /\ expired \in SUBSET Keys

\* While the record of a key has never expired, at most one of the requests that
\* carry the key has had its effect, however they interleave, whichever replies
\* of Redis are lost and wherever processes die.
AtMostOnce ==
    \A r, q \in executed : KeyOf[r] = KeyOf[q] /\ KeyOf[r] \notin expired => r = q

\* While the record of a key has never expired, every request with that key that
\* is answered with a handler's response gets the same response, and one that
\* was produced for its own body.
AnswersAgree ==
    \A r, q \in Requests :
        /\ reply[r] # None /\ KeyOf[r] \notin expired
        => /\ BodyOf[reply[r]] = BodyOf[r]
           /\ reply[q] # None /\ KeyOf[q] = KeyOf[r] => reply[q] = reply[r]

\* Once a record is completed it stays as it is until it expires: neither a late
\* Complete nor another Reserve changes the response that retries will see.
ResponseIsFinal ==
    [][\A k \in Keys :
         store[k].status = "completed" /\ k \notin expired' => store'[k] = store[k]]_vars

\* The inductive invariant behind the properties above, and the part of NoKeyHangs
\* that is a matter of safety: Reserve and Complete never leave a record that does
\* not expire.
IdempotencyInv ==
    /\ TypeOK
    /\ executed \subseteq acquired
    /\ \A r \in Requests :
          pc[r] \in {"handle", "complete_get", "complete_set"} => r \in acquired
    /\ \A r \in acquired : pc[r] # "new"
    /\ \A r, q \in acquired : KeyOf[r] = KeyOf[q] /\ KeyOf[r] \notin expired => r = q
    /\ \A k \in Keys : store[k].ttl \/ store[k] = NoRecord
    /\ \A k \in Keys : store[k].status = "none" => store[k] = NoRecord
    /\ \A r \in Requests : pc[r] = "complete_set" => read[r].status # "none"
    /\ \A r \in acquired : KeyOf[r] \notin expired =>
          /\ store[KeyOf[r]].status # "none"
          /\ store[KeyOf[r]].hash = BodyOf[r]
          /\ pc[r] \in {"handle", "complete_get", "complete_set"}
                => store[KeyOf[r]].status = "in_progress"
          /\ pc[r] = "complete_set" => read[r].hash = BodyOf[r]
    /\ \A k \in Keys \ expired : store[k].status = "completed" =>
          store[k].response \in acquired /\ KeyOf[store[k].response] = k
    /\ \A r \in Requests : reply[r] # None /\ KeyOf[r] \notin expired =>
          /\ reply[r] \in acquired /\ KeyOf[reply[r]] = KeyOf[r]
          /\ BodyOf[reply[r]] = BodyOf[r]

\* A key does not hang: whatever becomes of the request that reserved it, a
\* record in progress is completed or gone in the end.
NoKeyHangs ==
    \A k \in Keys : store[k].status = "in_progress" ~> store[k].status # "in_progress"
=============================================================================
