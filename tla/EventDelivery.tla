---------------------------- MODULE EventDelivery ----------------------------
(***************************************************************************)
(* The way of an event from the transaction that records it to the effect  *)
(* of a consumer: the outbox and its dispatchers (Outbox), the partition   *)
(* and the group that reads it (Delivery, which KafkaConsumer implements), *)
(* and a handler that asks TryProcessEvent before it applies its effect.   *)
(*                                                                         *)
(* TryProcessEvent inserts into processed_events through the pool, so the  *)
(* mark is stored by itself, whatever becomes of the handler's own         *)
(* transaction.  The handler calls it first and applies the effect only    *)
(* when it answers TRUE; every call and every transaction may fail, also   *)
(* after it took effect, and members may die at any point.                 *)
(***************************************************************************)
EXTENDS Outbox

CONSTANTS
    Members,
    Partitions  \* the sets of events whose keys may share the partition that is read

ASSUME PartitionsAssumption == Partitions \subseteq SUBSET Events

VARIABLES
    partition,    \* the events whose key falls into the partition, which never changes
    log, committed, hand, finished, skipped,  \* the partition and the group: see Delivery
    stage,        \* where the handler of each member is: "call", "apply", "over"
    processed,    \* the events in processed_events
    applied,      \* how often the effect of each event was applied
    excused       \* history: events that a handler marked without getting to the
                  \* effect, gave up, or never read

Deliver == INSTANCE Delivery WITH Values <- Events

groupVars   == <<committed, hand, finished, skipped>>
handlerVars == <<stage, processed, applied, excused>>
allVars     == <<vars, partition, log, groupVars, handlerVars>>

EventOf(m) == log[hand[m]]
GoTo(m, where) == stage' = [stage EXCEPT ![m] = where]

PipelineInit ==
    /\ Init
    /\ partition \in Partitions
    /\ Deliver!Init
    /\ stage = [m \in Members |-> "call"]
    /\ processed = {}
    /\ applied = [e \in Events |-> 0]
    /\ excused = {}

\* A message the producer writes is stored in the partition of its key.
Stored ==
    LET e == topic'[Len(topic')] IN
    log' = IF topic' # topic /\ e \in partition THEN Append(log, e) ELSE log

-----------------------------------------------------------------------------
(* The handler *)

\* TryMarkProcessed: INSERT ... ON CONFLICT DO NOTHING stores one row for each
\* event and answers TRUE to the one call that inserted it.
MarkAlways(e) == TRUE
MarkInverted(e) == e \in processed
TryMarkProcessed(e) == e \notin processed

\* TryProcessEvent: the handler goes on to its effect when it was the first, and
\* returns nil when it was not.  The answer of the insertion may be lost, which the
\* handler returns as an error: it is called again.
TryProcessEvent(m) ==
    LET e == EventOf(m) IN
    /\ hand[m] # Deliver!NoMessage
    /\ stage[m] = "call"
    /\ processed' = processed \cup {e}
    /\ \/ /\ TryMarkProcessed(e)
          /\ GoTo(m, "apply")
          /\ UNCHANGED <<finished, excused>>
       \/ /\ ~TryMarkProcessed(e)
          /\ finished' = finished \cup {hand[m]}
          /\ GoTo(m, "over")
          /\ UNCHANGED excused
       \/ /\ TryMarkProcessed(e)
          /\ excused' = excused \cup {e}
          /\ UNCHANGED <<stage, finished>>
    /\ UNCHANGED <<vars, log, committed, hand, skipped, applied>>

\* The transaction of the effect commits; its answer may be lost.
Apply(m) ==
    /\ stage[m] = "apply"
    /\ applied' = [applied EXCEPT ![EventOf(m)] = @ + 1]
    /\ \/ finished' = finished \cup {hand[m]} /\ GoTo(m, "over")
       \/ UNCHANGED finished /\ GoTo(m, "call")
    /\ UNCHANGED <<vars, log, committed, hand, skipped, processed, excused>>

\* It is rolled back, and the handler returns an error.
ApplyFails(m) ==
    /\ stage[m] = "apply"
    /\ excused' = excused \cup {EventOf(m)}
    /\ GoTo(m, "call")
    /\ UNCHANGED <<vars, log, groupVars, processed, applied>>

\* The last attempt has failed: the loop gives the message up.
GiveUp(m) ==
    /\ UNCHANGED vars
    /\ stage[m] = "call"
    /\ Deliver!Finish(m)
    /\ excused' = excused \cup {EventOf(m)}
    /\ GoTo(m, "over")
    /\ UNCHANGED <<processed, applied>>

-----------------------------------------------------------------------------
(* The group *)

Take(m) ==
    /\ UNCHANGED vars
    /\ \E o \in 1..Len(log) : Deliver!Take(m, o)
    /\ UNCHANGED handlerVars

Finished(m) ==
    /\ UNCHANGED vars
    /\ stage[m] = "over"
    /\ Deliver!Commit(m)
    /\ GoTo(m, "call")
    /\ UNCHANGED <<processed, applied, excused>>

MemberDies(m) ==
    /\ UNCHANGED vars
    /\ Deliver!Drop(m)
    /\ GoTo(m, "call")
    /\ excused' = excused \cup {e \in {EventOf(m)} : stage[m] = "apply"}
    /\ UNCHANGED <<processed, applied>>

PassOver ==
    /\ UNCHANGED vars
    /\ Deliver!Skip
    /\ excused' = excused \cup {log[o] : o \in 1..Len(log)}
    /\ UNCHANGED <<stage, processed, applied>>

Handle(m) == \/ Take(m) \/ TryProcessEvent(m) \/ Apply(m) \/ ApplyFails(m)
             \/ GiveUp(m) \/ Finished(m) \/ MemberDies(m)

PipelineNext ==
    /\ UNCHANGED partition
    /\ \/ Next /\ Stored /\ UNCHANGED <<groupVars, handlerVars>>
       \/ \E m \in Members : Handle(m)
       \/ PassOver

PipelineSpec == PipelineInit /\ [][PipelineNext]_allVars

-----------------------------------------------------------------------------
(* Properties *)

\* Event e has had its effect, or a handler is about to apply it, unless one of the
\* known ways to lose it was taken: a handler that stored the mark did not get to
\* the effect, the loop gave the event up, or it was written before the group had
\* an offset.
Accounted(e) ==
    \/ applied[e] = 1
    \/ \E m \in Members : stage[m] = "apply" /\ EventOf(m) = e
    \/ e \in excused

\* Type invariant of the partition, the group and the handlers.
PipelineTypeOK ==
    /\ partition \subseteq Events
    /\ log \in Seq(Events)
    /\ committed \in {Deliver!NoOffset} \cup 1..Len(log)
    /\ hand \in [Members -> {Deliver!NoMessage} \cup 1..Len(log)]
    /\ finished \cup skipped \subseteq 1..Len(log)
    /\ stage \in [Members -> {"call", "apply", "over"}]
    /\ processed \cup excused \subseteq Events
    /\ applied \in [Events -> 0..1]

\* The messages of the partition are those of its events on the topic.
LogMatchesTopic ==
    /\ \A i \in DOMAIN log : log[i] \in partition /\ OnTopic(log[i])
    /\ \A i \in DOMAIN topic : topic[i] \in partition => \E j \in DOMAIN log : log[j] = topic[i]

\* A handler on its way to the effect has stored the mark, alone, and for the
\* first time.
ApplyIsExclusive ==
    \A m \in Members : stage[m] = "apply" =>
        /\ hand[m] # Deliver!NoMessage
        /\ EventOf(m) \in processed
        /\ applied[EventOf(m)] = 0
        /\ \A n \in Members \ {m} : stage[n] = "apply" => EventOf(n) # EventOf(m)

\* Copies of an event on the topic, redelivered messages and members that have
\* the same message in hand come to one effect at most, and only an event whose
\* transaction committed has one.
EffectsAreOwed ==
    /\ PipelineTypeOK
    /\ LogMatchesTopic
    /\ ApplyIsExclusive
    /\ \A e \in Events : applied[e] = 1 => e \in processed
    /\ \A e \in processed : \E i \in DOMAIN log : log[i] = e
    /\ \A e \in Events : applied[e] <= IF Committed(e) THEN 1 ELSE 0

\* What the group has behind it, what it is at and what it has committed is in
\* order, and no event gets lost on the way unnoticed: one that has a mark, one
\* that is behind the group, and one that the table calls published and the group
\* has committed are accounted for.
NothingSlipsThrough ==
    /\ \A m \in Members : hand[m] # Deliver!NoMessage => Deliver!InOrder(hand[m])
    /\ committed # Deliver!NoOffset => Deliver!InOrder(committed + 1)
    /\ \A e \in processed : Accounted(e)
    /\ \A o \in finished \cup skipped : Accounted(log[o])
    /\ \A e \in partition :
          state[e] = "published" /\ (\A i \in DOMAIN log : log[i] = e => i <= committed) => Accounted(e)
=============================================================================
