------------------------------- MODULE Outbox -------------------------------
(***************************************************************************)
(* The transactional outbox: OutboxRecorder inserts events inside business *)
(* transactions, and any number of OutboxDispatchers claim pending rows,   *)
(* publish them to Kafka and record the outcome.                           *)
(*                                                                         *)
(* A step is one statement against outbox_events or one delivery of the    *)
(* producer.  The row of event e is state[e]; stamps holds the events in   *)
(* the order of created_at, which Record takes before its transaction      *)
(* commits.  The topic is the sequence of messages written to Kafka.       *)
(***************************************************************************)
EXTENDS Integers, Sequences, FiniteSets

CONSTANTS
    Events,
    Dispatchers,
    States,       \* the values the CHECK constraint of outbox_events accepts
    Limit,        \* DispatchOnce(limit)
    MaxAttempts,  \* the producer writes a message at most this often
    None

ASSUME OutboxConstants ==
    /\ None \notin Events
    /\ {"pending", "published", "failed"} \subseteq States
    /\ Limit \in Nat \ {0}
    /\ MaxAttempts \in Nat \ {0}

VARIABLES
    state,   \* the row of each event: "none" (no row), "open" (uncommitted) or its state
    stamps,  \* the events in the order of created_at
    disp,    \* the local state of each dispatcher
    topic,   \* the messages Kafka has stored
    missed   \* history: <<f, e>> when e is in hand and was selected without the older f

vars == <<state, stamps, disp, topic, missed>>

\* batch holds the rows a dispatcher has locked ("claim") or claimed, cur is the
\* event in hand, writes how often the producer has stored it so far.
Local == [pc : {"idle", "claim", "next", "publish", "mark_published", "mark_failed"},
          batch : SUBSET Events, cur : Events \cup {None}, writes : Nat]
Idle  == [pc |-> "idle", batch |-> {}, cur |-> None, writes |-> 0]

Init ==
    /\ state = [e \in Events |-> "none"]
    /\ stamps = <<>>
    /\ disp = [d \in Dispatchers |-> Idle]
    /\ topic = <<>>
    /\ missed = {}

\* created_at of f is before that of e.
Older(f, e) == \E i, j \in DOMAIN stamps : i < j /\ stamps[i] = f /\ stamps[j] = e

\* The events a dispatcher has selected and not yet dealt with, and the rows that
\* other dispatchers than d have locked.
InHand(d) == disp[d].batch \cup ({disp[d].cur} \ {None})
LockedBesides(d) == UNION {disp[c].batch : c \in {c \in Dispatchers \ {d} : disp[c].pc = "claim"}}

\* Among fs are older events than those of es, which have been selected without
\* them; a dispatcher is done with the events es.
Miss(fs, es) == missed \cup {p \in fs \X es : Older(p[1], p[2])}
Done(es) == missed \ (Events \X es)

-----------------------------------------------------------------------------
(* OutboxRecorder *)

\* Record takes created_at and inserts the row; the transaction is still open.
Record(e) ==
    /\ state[e] = "none"
    /\ state' = [state EXCEPT ![e] = "open"]
    /\ stamps' = Append(stamps, e)
    /\ UNCHANGED <<disp, topic, missed>>

Commit(e) ==
    /\ state[e] = "open"
    /\ state' = [state EXCEPT ![e] = "pending"]
    /\ missed' = Miss({e}, UNION {InHand(d) : d \in Dispatchers})
    /\ UNCHANGED <<stamps, disp, topic>>

Rollback(e) ==
    /\ state[e] = "open"
    /\ state' = [state EXCEPT ![e] = "rolled_back"]
    /\ UNCHANGED <<stamps, disp, topic, missed>>

-----------------------------------------------------------------------------
(* OutboxDispatcher.DispatchOnce *)

Committed(e) == state[e] \notin {"none", "open", "rolled_back"}

\* The rows the SELECT of ClaimPending finds: WHERE state = 'pending' ORDER BY
\* created_at LIMIT limit FOR UPDATE SKIP LOCKED.
FirstOf(rows) == {e \in rows : Cardinality({f \in rows : Older(f, e)}) < Limit}
Pending == {e \in Events : state[e] = "pending"}
AllUnfinished(d) == {e \in Events : state[e] \in {"pending", "publishing"}}
NewestFirst(d) ==
    LET rows == Pending \ LockedBesides(d) IN
    {e \in rows : Cardinality({f \in rows : Older(e, f)}) < Limit}
Claimable(d) == FirstOf(Pending \ LockedBesides(d))

\* ClaimPending is one UPDATE: it locks the rows it selects ...
Select(d) ==
    LET batch == Claimable(d) IN
    /\ disp[d].pc = "idle"
    /\ batch # {}
    /\ disp' = [disp EXCEPT ![d] = [Idle EXCEPT !.pc = "claim", !.batch = batch]]
    /\ missed' = Miss(LockedBesides(d), batch)
    /\ UNCHANGED <<state, stamps, topic>>

\* ... and marks them.  They may be claimed although reading the result fails.
Claim(d) ==
    /\ disp[d].pc = "claim"
    /\ "publishing" \in States
    /\ state' = [e \in Events |-> IF e \in disp[d].batch THEN "publishing" ELSE state[e]]
    /\ \/ disp' = [disp EXCEPT ![d].pc = "next"] /\ UNCHANGED missed
       \/ disp' = [disp EXCEPT ![d] = Idle] /\ missed' = Done(disp[d].batch)
    /\ UNCHANGED <<stamps, topic>>

\* The statement fails, as it does when the CHECK constraint refuses the state;
\* the rows are unlocked.
ClaimFails(d) ==
    /\ disp[d].pc = "claim"
    /\ disp' = [disp EXCEPT ![d] = Idle]
    /\ missed' = Done(disp[d].batch)
    /\ UNCHANGED <<state, stamps, topic>>

\* The loop takes the claimed rows in whatever order RETURNING gave them.
NextEvent(d) ==
    /\ disp[d].pc = "next"
    /\ \/ \E e \in disp[d].batch :
             disp' = [disp EXCEPT ![d] = [pc |-> "publish", batch |-> @.batch \ {e},
                                          cur |-> e, writes |-> 0]]
       \/ /\ disp[d].batch = {}
          /\ disp' = [disp EXCEPT ![d] = Idle]
    /\ UNCHANGED <<state, stamps, topic, missed>>

\* The producer delivers the message once more; Kafka stores it whether or not
\* the acknowledgement arrives.
Write(d) ==
    /\ disp[d].pc = "publish"
    /\ disp[d].writes < MaxAttempts
    /\ topic' = Append(topic, disp[d].cur)
    /\ disp' = [disp EXCEPT ![d].writes = @ + 1]
    /\ UNCHANGED <<state, stamps, missed>>

\* Publish returns: nil only after an acknowledged write, an error at any time.
AckAlways(d) == TRUE
Acknowledged(d) == disp[d].writes > 0
PublishReturns(d) ==
    /\ disp[d].pc = "publish"
    /\ \/ Acknowledged(d) /\ disp' = [disp EXCEPT ![d].pc = "mark_published"]
       \/ disp' = [disp EXCEPT ![d].pc = "mark_failed"]
    /\ UNCHANGED <<state, stamps, topic, missed>>

\* MarkPublished and MarkFailed: one UPDATE, whose error is only logged.
MarkAndStop(d, from, to) ==
    /\ disp[d].pc = from
    /\ state' \in {[state EXCEPT ![disp[d].cur] = to], state}
    /\ disp' = [disp EXCEPT ![d] = Idle]
    /\ missed' = Done(InHand(d))
    /\ UNCHANGED <<stamps, topic>>
Mark(d, from, to) ==
    /\ disp[d].pc = from
    /\ state' \in {[state EXCEPT ![disp[d].cur] = to], state}
    /\ disp' = [disp EXCEPT ![d].pc = "next", ![d].cur = None, ![d].writes = 0]
    /\ missed' = Done({disp[d].cur})
    /\ UNCHANGED <<stamps, topic>>
MarkPublished(d) == Mark(d, "mark_published", "published")
MarkFailed(d) == Mark(d, "mark_failed", "failed")

\* The worker dies; nothing records which rows it had claimed.
Crash(d) ==
    /\ disp[d].pc \notin {"idle", "claim"}
    /\ disp' = [disp EXCEPT ![d] = Idle]
    /\ missed' = Done(InHand(d))
    /\ UNCHANGED <<state, stamps, topic>>

Dispatch(d) == \/ Select(d) \/ Claim(d) \/ ClaimFails(d)
               \/ NextEvent(d) \/ Write(d) \/ PublishReturns(d)
               \/ MarkPublished(d) \/ MarkFailed(d)

Next ==
    \/ \E e \in Events : Record(e) \/ Commit(e) \/ Rollback(e)
    \/ \E d \in Dispatchers : Dispatch(d) \/ Crash(d)

Spec == Init /\ [][Next]_vars

\* If a worker polled, a dispatcher that can take a step would take one in the end,
\* and a claim that the table accepts would not fail for ever.
Fairness == \A d \in Dispatchers : WF_vars(Dispatch(d)) /\ SF_vars(Claim(d))
FairSpec == Spec /\ Fairness

-----------------------------------------------------------------------------
(* Properties *)

\* The events dispatcher d has claimed and not yet dealt with.
Holds(d) == IF disp[d].pc = "claim" THEN {} ELSE InHand(d)

\* Type invariant of the table and the dispatchers.
TypeOK ==
    /\ state \in [Events -> {"none", "open", "rolled_back"} \cup States]
    /\ stamps \in Seq(Events)
    /\ disp \in [Dispatchers -> Local]
    /\ topic \in Seq(Events)
    /\ missed \in SUBSET (Events \X Events)

\* SKIP LOCKED and the state 'publishing' keep dispatchers apart: no event is in
\* the hands of two of them, and only claimed rows are in anyone's hands.
ExclusiveClaim ==
    \A d \in Dispatchers :
        /\ \A e \in Holds(d) : state[e] = "publishing"
        /\ disp[d].pc = "claim" => disp[d].batch \subseteq Pending
        /\ \A c \in Dispatchers \ {d} :
              Holds(c) \cap Holds(d) = {} /\ disp[c].batch \cap disp[d].batch = {}

\* The order of created_at is an order: no event has two stamps.
StampsInOrder ==
    /\ \A i \in DOMAIN stamps : state[stamps[i]] # "none"
    /\ \A i, j \in DOMAIN stamps : stamps[i] = stamps[j] => i = j

\* Of the events in the hands of a dispatcher, those selected without an older one
\* that waits now are known.
MissedIsKnown ==
    \A d \in Dispatchers : \A e \in InHand(d) : \A f \in Pending : Older(f, e) =>
        \/ <<f, e>> \in missed
        \/ disp[d].pc = "claim" /\ f \in disp[d].batch

OnTopic(e) == \E i \in DOMAIN topic : topic[i] = e

\* All of these, with what a dispatcher has in hand at each point of its loop.
OutboxInv ==
    /\ TypeOK
    /\ ExclusiveClaim
    /\ StampsInOrder
    /\ MissedIsKnown
    /\ \A d \in Dispatchers :
          /\ disp[d].pc \in {"publish", "mark_published", "mark_failed"} <=> disp[d].cur # None
          /\ disp[d].cur \notin disp[d].batch
          /\ disp[d].pc = "idle" => disp[d].batch = {}
          /\ disp[d].writes > 0 => OnTopic(disp[d].cur)
          /\ disp[d].pc = "mark_published" => disp[d].writes > 0

\* The topic holds only events whose transaction committed, and every row marked
\* published is on it, whichever acknowledgements or updates were lost.
TopicMatchesTable ==
    /\ \A i \in DOMAIN topic : Committed(topic[i])
    /\ \A e \in Events : state[e] = "published" => OnTopic(e)

\* Events may overtake one another on the way to the topic, but never one that
\* could have been claimed: an event is written while an older one still waits
\* only if that one was committed, or unlocked by another dispatcher, too late
\* for the claim (ORDER BY created_at, which Record takes before the commit).
OvertakesOnlyMissed ==
    [][\A e, f \in Events :
          topic' = Append(topic, e) /\ Older(f, e) /\ state[f] = "pending"
          => <<f, e>> \in missed]_vars

\* An outcome is recorded once: a row that is published or failed is not touched
\* again by another dispatcher that still works on its batch.
OutcomeIsFinal ==
    [][\A e \in Events : state[e] \in {"published", "failed"} => state'[e] = state[e]]_vars

\* Event e has been claimed and nobody is at work on it any more.
Stranded(e) == state[e] = "publishing" /\ \A d \in Dispatchers : e \notin Holds(d)

\* A dispatcher keeps every event it has claimed until it has tried to record the
\* outcome of that very event, whatever becomes of the others in its batch, unless
\* it dies.  What a crash or a failed UPDATE leaves behind stays so for good: no
\* dispatcher takes it up, writes it to the topic or records an outcome for it.
StrandedByFailureOnly ==
    [][/\ \A d \in Dispatchers : \A e \in Holds(d) :
             \/ e \in Holds(d)'
             \/ e = disp[d].cur /\ disp[d].pc \in {"mark_published", "mark_failed"}
             \/ Crash(d)
       /\ \A e \in Events : Stranded(e) => Stranded(e)' /\ topic' # Append(topic, e)]_vars

\* The documented first step of an event's life: a pending event is claimed.
PendingIsClaimed ==
    \A e \in Events : state[e] = "pending" ~> state[e] # "pending"
=============================================================================
