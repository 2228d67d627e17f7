---------------------------- MODULE KafkaConsumer ----------------------------
(***************************************************************************)
(* ConsumerGroup: the processes of a group read one partition.  The loop   *)
(* of each hands a message to the handler with a finite number of retries, *)
(* sends what it cannot process to the dead letter queue and commits the   *)
(* offset.                                                                 *)
(*                                                                         *)
(* A step is one fetch, one call of the handler, one publication to the    *)
(* queue or one commit.  Message o is the o-th of the partition; an offset *)
(* o says that the first o messages are done, as a commit of a message     *)
(* covers all the earlier ones.                                            *)
(*                                                                         *)
(* The broker moves the partition between the members.  A session is one   *)
(* assignment of the partition to one member; a member that has lost the   *)
(* partition reads on until its reader notices, and its loop finishes and  *)
(* commits the message it has in hand in any case.                         *)
(***************************************************************************)
EXTENDS Integers, Sequences

CONSTANTS
    Members,       \* processes of the group
    Kinds,         \* what a producer writes: see Readable and Wrappable
    MaxRetries,    \* ConsumerMaxRetries
    DLQOutcomes,   \* whether a write to the dead letter topic may succeed, may fail
    MaxLog,        \* bound: messages in the partition
    MaxSessions    \* bound: assignments of the partition

ASSUME ConsumerConstants ==
    /\ Kinds \subseteq {"valid", "mistyped", "garbled"}
    /\ MaxRetries \in Nat
    /\ DLQOutcomes \subseteq BOOLEAN /\ DLQOutcomes # {}
    /\ MaxLog \in Nat
    /\ MaxSessions \in Nat

VARIABLES
    log,          \* the kinds of the messages in the partition
    committed,    \* the offset the group has committed, or NoOffset
    pc,           \* where the loop of each member is
    closing,      \* Close has cancelled the context
    session,      \* the session in which the reader of each member reads, or 0
    pos,          \* how many messages the reader has passed
    hand,         \* the message the loop is working on, or NoMessage
    handSession,  \* the session in which it was fetched
    attempt,      \* handleWithRetry's counter
    sessions,     \* how many sessions there have been
    by,           \* history: the session of the message that was committed last
    times,        \* history: successes of the handler, by session and message
    givenUp,      \* history: messages that went the way of the dead letter queue
    dead,         \* the messages in the dead letter topic
    unread        \* history: messages that existed when a session began behind them

group   == <<committed, by>>
process == <<pc, closing>>
reader  == <<session, pos>>
work    == <<hand, handSession, attempt>>
history == <<times, givenUp, dead, unread>>
vars == <<log, committed, pc, closing, session, pos, hand, handSession, attempt,
          sessions, by, times, givenUp, dead, unread>>

NoOffset  == -1
NoMessage == 0
NoSession == 0
Offsets   == 1..MaxLog
Sessions  == 1..MaxSessions

\* json.Unmarshal fails on JSON of the wrong shape and on what is not JSON.
Readable(o) == log[o] = "valid"
\* The dead letter envelope carries the value as json.RawMessage, which
\* json.Marshal refuses when it is not JSON.
Wrappable(o) == log[o] # "garbled"

Init ==
    /\ log = <<>>
    /\ committed = NoOffset /\ by = NoSession
    /\ pc = [m \in Members |-> "down"]
    /\ closing = [m \in Members |-> FALSE]
    /\ session = [m \in Members |-> NoSession]
    /\ pos = [m \in Members |-> 0]
    /\ hand = [m \in Members |-> NoMessage]
    /\ handSession = [m \in Members |-> NoSession]
    /\ attempt = [m \in Members |-> 0]
    /\ sessions = 0
    /\ times = [s \in Sessions |-> [o \in Offsets |-> 0]]
    /\ givenUp = {} /\ dead = {} /\ unread = {}

\* Somebody writes a message to the partition.
Produce(k) ==
    /\ Len(log) < MaxLog
    /\ log' = Append(log, k)
    /\ UNCHANGED <<group, process, reader, work, sessions, history>>

-----------------------------------------------------------------------------
(* The broker *)

\* A reader begins at the committed offset, and at the end of the partition
\* (LastOffset) if the group has none.
FirstPosition == IF committed = NoOffset THEN Len(log) ELSE committed

\* The partition is given to m, whoever had it before; m may have had it too.
Assign(m) ==
    /\ pc[m] # "down"
    /\ sessions < MaxSessions
    /\ sessions' = sessions + 1
    /\ session' = [session EXCEPT ![m] = sessions + 1]
    /\ pos' = [pos EXCEPT ![m] = FirstPosition]
    /\ unread' = IF committed = NoOffset THEN unread \cup 1..Len(log) ELSE unread
    /\ UNCHANGED <<log, group, process, work, times, givenUp, dead>>

\* The reader of m notices that it no longer has the partition.
Revoke(m) ==
    /\ session[m] # NoSession
    /\ session' = [session EXCEPT ![m] = NoSession]
    /\ pos' = [pos EXCEPT ![m] = 0]
    /\ UNCHANGED <<log, group, process, work, sessions, history>>

-----------------------------------------------------------------------------
(* The life of a process *)

\* NewConsumerGroup and Register: one reader and one loop for the topic.
Start(m) ==
    /\ pc[m] = "down"
    /\ pc' = [pc EXCEPT ![m] = "loop"]
    /\ UNCHANGED <<log, group, closing, reader, work, sessions, history>>

\* Close cancels the context and waits for the loop; the handler sees the
\* cancelled context but nothing interrupts its retries.
Close(m) ==
    /\ pc[m] # "down"
    /\ ~closing[m]
    /\ closing' = [closing EXCEPT ![m] = TRUE]
    /\ UNCHANGED <<log, group, pc, reader, work, sessions, history>>

\* The loop is over and the reader closed: nothing of the process is left.
Exit(m) ==
    /\ pc' = [pc EXCEPT ![m] = "down"]
    /\ closing' = [closing EXCEPT ![m] = FALSE]
    /\ session' = [session EXCEPT ![m] = NoSession]
    /\ pos' = [pos EXCEPT ![m] = 0]
    /\ hand' = [hand EXCEPT ![m] = NoMessage]
    /\ handSession' = [handSession EXCEPT ![m] = NoSession]
    /\ attempt' = [attempt EXCEPT ![m] = 0]
    /\ UNCHANGED <<log, group, sessions, history>>

Crash(m) == pc[m] # "down" /\ Exit(m)

-----------------------------------------------------------------------------
(* consume *)

\* The loop looks at the context before it fetches.
LoopHead(m) ==
    /\ pc[m] = "loop"
    /\ \/ closing[m] /\ Exit(m)
       \/ /\ ~closing[m]
          /\ pc' = [pc EXCEPT ![m] = "fetch"]
          /\ UNCHANGED <<log, group, closing, reader, work, sessions, history>>

\* FetchMessage returns the next message, even when the context is cancelled at
\* the same time; parseMessage decides where it goes.  A fetch that fails for
\* another reason is repeated.
TakeNext(m) ==
    /\ pc[m] = "fetch"
    /\ session[m] # NoSession
    /\ pos[m] < Len(log)
    /\ pos' = [pos EXCEPT ![m] = @ + 1]
    /\ hand' = [hand EXCEPT ![m] = pos[m] + 1]
    /\ handSession' = [handSession EXCEPT ![m] = session[m]]
    /\ pc' = [pc EXCEPT ![m] = IF Readable(pos[m] + 1) THEN "handle" ELSE "dead"]
FetchCommitting(m) ==
    /\ TakeNext(m)
    /\ committed' = pos[m] + 1 /\ by' = session[m]
    /\ UNCHANGED <<log, closing, session, attempt, sessions, history>>
Fetch(m) ==
    /\ TakeNext(m)
    /\ UNCHANGED <<log, group, closing, session, attempt, sessions, history>>

\* FetchMessage is interrupted by the shutdown.
FetchUninterrupted(m) == FALSE
FetchCancelled(m) ==
    /\ pc[m] = "fetch"
    /\ closing[m]
    /\ Exit(m)

\* What a call of the handler comes to: RecoveryMiddleware turns a panic into an
\* error.  (A group registered without it dies of the panic, which is a Crash.)
Outcomes == {"nil", "error", "panic"}
RecoveryMiddleware(outcome) == IF outcome = "panic" THEN "error" ELSE outcome

HandleSucceeds(m) ==
    /\ times' = [times EXCEPT ![handSession[m]][hand[m]] = @ + 1]
    /\ pc' = [pc EXCEPT ![m] = "commit"]
    /\ UNCHANGED <<log, group, closing, reader, work, sessions, givenUp, dead, unread>>

\* handleWithRetry: every error is retried, attempts count from 0 to MaxRetries.
RetryOneMore(m) == attempt[m] <= MaxRetries
RetryLeft(m) == attempt[m] < MaxRetries
HandleFailsForever(m) ==
    /\ attempt' = [attempt EXCEPT ![m] = IF RetryLeft(m) THEN @ + 1 ELSE 0]
    /\ UNCHANGED <<log, group, process, reader, hand, handSession, sessions, history>>
HandleFails(m) ==
    /\ \/ /\ RetryLeft(m)
          /\ attempt' = [attempt EXCEPT ![m] = @ + 1]
          /\ UNCHANGED pc
       \/ /\ ~RetryLeft(m)
          /\ pc' = [pc EXCEPT ![m] = "dead"]
          /\ UNCHANGED attempt
    /\ UNCHANGED <<log, group, closing, reader, hand, handSession, sessions, history>>

HandleReturns(m) ==
    /\ pc[m] = "handle"
    /\ \E outcome \in Outcomes :
          \/ RecoveryMiddleware(outcome) = "nil" /\ HandleSucceeds(m)
          \/ RecoveryMiddleware(outcome) = "error" /\ HandleFails(m)

\* DLQPublisher.Publish; consume ignores its error and commits in any case.
PublishDead(m) ==
    /\ pc[m] = "dead"
    /\ \E written \in DLQOutcomes :
          dead' = IF written /\ Wrappable(hand[m]) THEN dead \cup {hand[m]} ELSE dead
    /\ givenUp' = givenUp \cup {hand[m]}
    /\ pc' = [pc EXCEPT ![m] = "commit"]
    /\ UNCHANGED <<log, group, closing, reader, work, sessions, times, unread>>

\* CommitMessages may fail, which is logged; the reader goes on all the same.  The
\* commit of a member that has lost the partition may still be accepted.
LetGo(m) ==
    /\ pc[m] = "commit"
    /\ pc' = [pc EXCEPT ![m] = "loop"]
    /\ hand' = [hand EXCEPT ![m] = NoMessage]
    /\ handSession' = [handSession EXCEPT ![m] = NoSession]
    /\ attempt' = [attempt EXCEPT ![m] = 0]
    /\ UNCHANGED <<log, closing, session, sessions, history>>
CommitOrStartOver(m) ==
    /\ LetGo(m)
    /\ \/ committed' = hand[m] /\ by' = handSession[m]
       \/ UNCHANGED group
    /\ pos' \in {pos, [pos EXCEPT ![m] = 0]}
CommitMessage(m) ==
    /\ LetGo(m)
    /\ \/ committed' = hand[m] /\ by' = handSession[m]
       \/ UNCHANGED group
    /\ UNCHANGED pos

Consume(m) == \/ LoopHead(m) \/ Fetch(m) \/ FetchCancelled(m)
              \/ HandleReturns(m) \/ PublishDead(m) \/ CommitMessage(m)

Next ==
    \/ \E k \in Kinds : Produce(k)
    \/ \E m \in Members : \/ Assign(m) \/ Revoke(m)
                          \/ Start(m) \/ Close(m) \/ Crash(m)
                          \/ Consume(m)

Spec == Init /\ [][Next]_vars

\* The goroutine of each loop is scheduled, and its calls return.
FairSpec == Spec /\ \A m \in Members : WF_vars(Consume(m))

-----------------------------------------------------------------------------
(* Properties *)

\* Type invariant of the partition, the group's offset and the loops.
TypeOK ==
    /\ log \in Seq(Kinds) /\ Len(log) <= MaxLog
    /\ committed \in {NoOffset} \cup 1..Len(log)
    /\ pc \in [Members -> {"down", "loop", "fetch", "handle", "dead", "commit"}]
    /\ closing \in [Members -> BOOLEAN]
    /\ sessions \in 0..MaxSessions
    /\ session \in [Members -> 0..sessions] /\ handSession \in [Members -> 0..sessions]
    /\ pos \in [Members -> 0..Len(log)] /\ hand \in [Members -> 0..Len(log)]
    /\ attempt \in [Members -> 0..MaxRetries]
    /\ by \in 0..sessions
    /\ times \in [Sessions -> [Offsets -> Nat]]
    /\ givenUp \in SUBSET Offsets /\ dead \in SUBSET Offsets /\ unread \in SUBSET Offsets

\* A message is finished when the handler accepted it or the loop gave it up, as
\* unreadable or after the last retry.  The group is past the finished messages
\* and past those that it never reads.
Handled(o)  == \E s \in Sessions : times[s][o] > 0
Finished(o) == Handled(o) \/ o \in givenUp
Behind(o)   == Finished(o) \/ o \in unread

\* A committed offset covers no message that was dropped half way: commits that
\* fail or come late from a member that lost the partition, shutdowns and crashes
\* never let a commit pass over a message that a loop fetched and nobody finished
\* (consume commits after handleWithRetry).
CommittedIsFinished == \A o \in 1..Len(log) : o <= committed => Behind(o)

\* A failed commit does not make the running loop repeat the message: the
\* handler succeeds on a message at most once in every session, so repetitions
\* come from restarts and rebalancing only.
RepeatedOnlyByReassignment == \A s \in Sessions, o \in Offsets : times[s][o] <= 1

\* The inductive strengthening of the two.  The messages before the one in hand
\* are behind the group, and so are those that a reader passed but the one in
\* hand; no message ahead of a reader was handled in its session; sessions are
\* not shared; and what a session has committed is not ahead of it.
ReaderInv(m) ==
    session[m] # NoSession =>
      /\ pc[m] # "down"
      /\ \A o \in 1..pos[m] : Behind(o) \/ o = hand[m]
      /\ \A o \in Offsets : o > pos[m] => times[session[m]][o] = 0
      /\ session[m] = by => committed <= pos[m]
      /\ session[m] = handSession[m] => hand[m] = pos[m]
HandInv(m) ==
    /\ hand[m] # NoMessage <=> pc[m] \in {"handle", "dead", "commit"}
    /\ hand[m] # NoMessage <=> handSession[m] # NoSession
    /\ \A o \in 1..(hand[m] - 1) : Behind(o)
    /\ pc[m] = "handle" => times[handSession[m]][hand[m]] = 0
    /\ pc[m] = "commit" => Finished(hand[m])
    /\ hand[m] # NoMessage /\ handSession[m] = by => committed <= hand[m]
SessionsApart ==
    \A m, n \in Members : m # n =>
      /\ session[m] = session[n] => session[m] = NoSession
      /\ handSession[m] = handSession[n] => handSession[m] = NoSession
      /\ session[m] = handSession[n] => session[m] = NoSession
ConsumerInv ==
    /\ TypeOK
    /\ CommittedIsFinished
    /\ RepeatedOnlyByReassignment
    /\ by = NoSession => committed = NoOffset
    /\ \A s \in Sessions, o \in Offsets : s > sessions => times[s][o] = 0
    /\ \A m \in Members : ReaderInv(m) /\ HandInv(m)
    /\ SessionsApart

\* The group moves back over messages it has committed only when the commit of
\* one session comes after that of another: within a session the offset rises,
\* whatever commits are refused.
OffsetFallsOnlyAcrossSessions == [][committed' < committed => by' # by]_vars

\* The group delivers the partition in order, at least once (Delivery).
Deliver == INSTANCE Delivery WITH
    Values <- Kinds,
    finished <- {o \in Offsets : Finished(o)},
    skipped <- unread
ImplementsDelivery == Deliver!Spec

\* No message blocks the ones behind it: a reader gets past every message of the
\* partition while it has it, unreadable ones and ones the handler never accepts
\* included.
NoMessageBlocks ==
    \A m \in Members, o \in Offsets :
        session[m] # NoSession /\ o <= Len(log) ~> session[m] = NoSession \/ pos[m] >= o

\* Close returns: the loop notices the cancelled context, whatever it was doing.
CloseReturns == \A m \in Members : closing[m] ~> pc[m] = "down"

\* The documented rule of the offset: it is committed when the message was
\* handled or is in the dead letter queue.
CommittedIsSafe ==
    \A o \in 1..Len(log) : o <= committed => Handled(o) \/ o \in dead \/ o \in unread
=============================================================================
