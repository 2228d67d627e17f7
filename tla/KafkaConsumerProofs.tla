------------------------- MODULE KafkaConsumerProofs -------------------------
(***************************************************************************)
(* Proofs about KafkaConsumer, for every set of members and every number   *)
(* of messages, retries and assignments of the partition.                  *)
(***************************************************************************)
EXTENDS KafkaConsumer, TLAPS

LEMMA InitInv == Init => ConsumerInv
  <1> SUFFICES ASSUME Init PROVE ConsumerInv
    OBVIOUS
  <1>1. log \in Seq(Kinds) /\ Len(log) = 0
    BY DEF Init
  <1>2. TypeOK
    <2>1. /\ Len(log) <= MaxLog /\ committed \in {NoOffset} \cup 1..Len(log)
          /\ sessions \in 0..MaxSessions /\ by \in 0..sessions
      BY <1>1, ConsumerConstants DEF Init, NoSession
    <2>2. /\ pos \in [Members -> 0..Len(log)] /\ hand \in [Members -> 0..Len(log)]
          /\ session \in [Members -> 0..sessions] /\ handSession \in [Members -> 0..sessions]
          /\ attempt \in [Members -> 0..MaxRetries]
      BY <1>1, ConsumerConstants DEF Init, NoSession, NoMessage
    <2>3. /\ pc \in [Members -> {"down", "loop", "fetch", "handle", "dead", "commit"}]
          /\ closing \in [Members -> BOOLEAN]
      BY DEF Init
    <2>4. times \in [Sessions -> [Offsets -> Nat]]
      BY DEF Init
    <2>5. givenUp \in SUBSET Offsets /\ dead \in SUBSET Offsets /\ unread \in SUBSET Offsets
      BY DEF Init
    <2> QED
      BY <1>1, <2>1, <2>2, <2>3, <2>4, <2>5 DEF TypeOK
  <1>3. CommittedIsFinished
    <2>1. 1..Len(log) = {}
      BY <1>1
    <2> QED
      BY <2>1 DEF CommittedIsFinished
  <1>4. \A s \in Sessions, o \in Offsets : times[s][o] = 0
    BY DEF Init
  <1>5. \A m \in Members : ReaderInv(m) /\ HandInv(m)
    <2> TAKE m \in Members
    <2>1. pc[m] = "down" /\ session[m] = 0 /\ hand[m] = 0 /\ handSession[m] = 0
      BY DEF Init, NoSession, NoMessage
    <2> QED
      BY <2>1 DEF ReaderInv, HandInv, NoSession, NoMessage
  <1>6. SessionsApart
    BY DEF Init, SessionsApart
  <1> QED
    BY <1>2, <1>3, <1>4, <1>5, <1>6
    DEF ConsumerInv, RepeatedOnlyByReassignment, Init

\* What is behind the group stays there while the histories only grow.
LEMMA BehindStays ==
    ASSUME givenUp \subseteq givenUp', unread \subseteq unread',
           \A s \in Sessions, o \in Offsets : times[s][o] > 0 => times'[s][o] > 0
    PROVE  \A o \in Offsets : (Behind(o) => Behind(o)') /\ (Finished(o) => Finished(o)')
  BY DEF Behind, Finished, Handled

\* A member that a step does not touch keeps its invariant, as long as the step
\* neither handles nor commits in one of its sessions.
LEMMA Untouched ==
    ASSUME ConsumerInv, NEW n \in Members,
           \A o \in Offsets : (Behind(o) => Behind(o)') /\ (Finished(o) => Finished(o)'),
           pc'[n] = pc[n], session'[n] = session[n], pos'[n] = pos[n],
           hand'[n] = hand[n], handSession'[n] = handSession[n],
           session[n] # NoSession => times'[session[n]] = times[session[n]],
           handSession[n] # NoSession => times'[handSession[n]] = times[handSession[n]],
           \/ by' = by /\ committed' = committed
           \/ by' # NoSession /\ by' # session[n] /\ by' # handSession[n]
    PROVE  ReaderInv(n)' /\ HandInv(n)'
  <1> USE ConsumerConstants
  <1>1. /\ pos[n] \in 0..Len(log) /\ hand[n] \in 0..Len(log) /\ Len(log) <= MaxLog
        /\ Len(log) \in Nat
    BY DEF ConsumerInv, TypeOK
  <1>2. ReaderInv(n) /\ HandInv(n)
    BY DEF ConsumerInv
  <1>3. /\ \A o \in 1..pos[n] : Behind(o) => Behind(o)'
        /\ \A o \in 1..(hand[n] - 1) : Behind(o) => Behind(o)'
    BY <1>1 DEF Offsets
  <1>4. ReaderInv(n)'
    BY <1>2, <1>3 DEF ReaderInv, NoSession
  <1>5. pc[n] = "commit" => Finished(hand[n])'
    BY <1>1, <1>2 DEF HandInv, NoMessage, Offsets
  <1>6. pc[n] = "handle" => times'[handSession[n]][hand[n]] = 0
    BY <1>2 DEF HandInv, NoMessage
  <1>7. (hand[n] # NoMessage /\ handSession[n] = by => committed <= hand[n])'
    BY <1>2 DEF HandInv
  <1> QED
    BY <1>2, <1>3, <1>4, <1>5, <1>6, <1>7 DEF HandInv

\* The steps that leave the messages, the offset and the histories alone.
LEMMA Frame ==
    ASSUME ConsumerInv,
           UNCHANGED <<log, committed, by, sessions, times, givenUp, dead, unread>>
    PROVE  /\ CommittedIsFinished' /\ RepeatedOnlyByReassignment'
           /\ (by = NoSession => committed = NoOffset)'
           /\ (\A s \in Sessions, o \in Offsets : s > sessions => times[s][o] = 0)'
           /\ \A o : (Behind(o)' <=> Behind(o)) /\ (Finished(o)' <=> Finished(o))
  <1>1. \A o : (Behind(o)' <=> Behind(o)) /\ (Finished(o)' <=> Finished(o))
    BY DEF Behind, Finished, Handled
  <1> QED
    BY <1>1 DEF ConsumerInv, CommittedIsFinished, RepeatedOnlyByReassignment

-----------------------------------------------------------------------------
(* One lemma per action *)

\* A producer appends; no message that a member has passed is touched.
LEMMA ProduceInv == ConsumerInv /\ (\E k \in Kinds : Produce(k)) => ConsumerInv'
  <1> SUFFICES ASSUME ConsumerInv, NEW k \in Kinds, Produce(k) PROVE ConsumerInv'
    OBVIOUS
  <1> USE ConsumerConstants
  <1>1. /\ log \in Seq(Kinds) /\ log' \in Seq(Kinds) /\ Len(log) \in Nat
        /\ Len(log') = Len(log) + 1 /\ Len(log') <= MaxLog
    BY DEF ConsumerInv, TypeOK, Produce
  <1>2. UNCHANGED <<committed, by, pc, closing, session, pos, hand, handSession, attempt,
                    sessions, times, givenUp, dead, unread>>
    BY DEF Produce, group, process, reader, work, history
  <1>3. \A o : (Behind(o)' <=> Behind(o)) /\ (Finished(o)' <=> Finished(o))
    BY <1>2 DEF Behind, Finished, Handled
  <1>4. TypeOK'
    <2>1. committed' \in {NoOffset} \cup 1..Len(log')
      BY <1>1, <1>2 DEF ConsumerInv, TypeOK, NoOffset
    <2>2. pos' \in [Members -> 0..Len(log')] /\ hand' \in [Members -> 0..Len(log')]
      BY <1>1, <1>2 DEF ConsumerInv, TypeOK
    <2> QED
      BY <1>1, <1>2, <2>1, <2>2 DEF ConsumerInv, TypeOK
  <1>5. CommittedIsFinished'
    BY <1>1, <1>2, <1>3 DEF ConsumerInv, TypeOK, CommittedIsFinished, NoOffset
  <1>6. \A n \in Members : ReaderInv(n)' /\ HandInv(n)'
    BY <1>2, <1>3, Untouched
  <1> QED
    BY <1>2, <1>4, <1>5, <1>6 DEF ConsumerInv, RepeatedOnlyByReassignment, SessionsApart

\* A new session: all that it has behind it is committed or is not read.
LEMMA AssignInv == ASSUME ConsumerInv, NEW m \in Members, Assign(m) PROVE ConsumerInv'
  <1> USE ConsumerConstants
  <1>1. /\ Len(log) \in Nat /\ Len(log) <= MaxLog /\ sessions \in Nat
        /\ committed \in Int /\ committed <= Len(log)
    BY DEF ConsumerInv, TypeOK, NoOffset
  <1>2. /\ session' = [session EXCEPT ![m] = sessions + 1]
        /\ pos' = [pos EXCEPT ![m] = FirstPosition]
        /\ sessions' = sessions + 1 /\ sessions' \in Sessions
        /\ UNCHANGED <<log, committed, by, pc, closing, hand, handSession, attempt, times,
                       givenUp, dead>>
    BY <1>1 DEF Assign, group, process, work, Sessions
  <1>3. FirstPosition \in 0..Len(log)
    BY <1>1 DEF ConsumerInv, TypeOK, FirstPosition, NoOffset
  <1>4. unread \subseteq unread' /\ unread' \in SUBSET Offsets
    <2>1. 1..Len(log) \subseteq Offsets
      BY <1>1 DEF Offsets
    <2>2. unread' = unread \/ unread' = unread \cup 1..Len(log)
      BY DEF Assign
    <2> QED
      BY <2>1, <2>2 DEF ConsumerInv, TypeOK
  <1>5. \A o \in Offsets : (Behind(o) => Behind(o)') /\ (Finished(o) => Finished(o)')
    BY <1>2, <1>4, BehindStays
  <1>6. TypeOK'
    <2>1. session' \in [Members -> 0..sessions'] /\ handSession' \in [Members -> 0..sessions']
      BY <1>1, <1>2 DEF ConsumerInv, TypeOK
    <2>2. pos' \in [Members -> 0..Len(log)]
      BY <1>2, <1>3 DEF ConsumerInv, TypeOK
    <2>3. sessions' \in 0..MaxSessions /\ by' \in 0..sessions'
      BY <1>1, <1>2 DEF ConsumerInv, TypeOK, Sessions
    <2> QED
      BY <1>2, <1>4, <2>1, <2>2, <2>3 DEF ConsumerInv, TypeOK
  <1>7. CommittedIsFinished'
    <2>1. CommittedIsFinished
      BY DEF ConsumerInv
    <2> QED
      BY <1>1, <1>2, <1>5, <2>1 DEF CommittedIsFinished, Offsets
  <1>8. \A o \in 1..FirstPosition : Behind(o)'
    <2>1. CASE committed = NoOffset
      BY <2>1 DEF Assign, FirstPosition, Behind
    <2>2. CASE committed # NoOffset
      BY <1>1, <1>7, <1>2, <2>2 DEF CommittedIsFinished, FirstPosition
    <2> QED
      BY <2>1, <2>2
  <1>9. ReaderInv(m)'
    <2>1. /\ session'[m] = sessions + 1 /\ pos'[m] = FirstPosition /\ pc'[m] # "down"
          /\ handSession'[m] # sessions + 1 /\ by' # sessions + 1
      BY <1>1, <1>2 DEF ConsumerInv, TypeOK, Assign
    <2>2. \A o \in Offsets : times'[sessions + 1][o] = 0
      BY <1>1, <1>2 DEF ConsumerInv
    <2> QED
      BY <1>8, <2>1, <2>2 DEF ReaderInv
  <1>10. HandInv(m)'
    <2>1. HandInv(m) /\ hand[m] \in 0..Len(log)
      BY DEF ConsumerInv, TypeOK
    <2>2. \A o \in 1..(hand[m] - 1) : Behind(o)'
      BY <1>1, <1>5, <2>1 DEF HandInv, Offsets
    <2>3. pc[m] = "commit" => Finished(hand[m])'
      BY <1>1, <1>2, <1>5, <2>1 DEF HandInv, Offsets, NoMessage
    <2> QED
      BY <1>2, <2>1, <2>2, <2>3 DEF HandInv
  <1>11. \A n \in Members : ReaderInv(n)' /\ HandInv(n)'
    <2> TAKE n \in Members
    <2>1. CASE n = m
      BY <1>9, <1>10, <2>1
    <2>2. CASE n # m
      <3>1. session'[n] = session[n] /\ pos'[n] = pos[n]
        BY <1>2, <2>2 DEF ConsumerInv, TypeOK
      <3> QED
        BY <1>2, <1>5, <3>1, Untouched
    <2> QED
      BY <2>1, <2>2
  <1>12. SessionsApart'
    <2>1. \A n \in Members : session[n] # sessions + 1 /\ handSession[n] # sessions + 1
      BY <1>1 DEF ConsumerInv, TypeOK
    <2>2. \A n \in Members : session'[n] = IF n = m THEN sessions + 1 ELSE session[n]
      BY <1>2 DEF ConsumerInv, TypeOK
    <2> QED
      BY <1>2, <2>1, <2>2 DEF ConsumerInv, SessionsApart
  <1>13. (\A s \in Sessions, o \in Offsets : s > sessions => times[s][o] = 0)'
    BY <1>1, <1>2 DEF ConsumerInv, Sessions
  <1> QED
    BY <1>2, <1>6, <1>7, <1>11, <1>12, <1>13 DEF ConsumerInv, RepeatedOnlyByReassignment

\* The reader or the whole process of a member goes.
LEMMA RevokeInv == ASSUME ConsumerInv, NEW m \in Members, Revoke(m) PROVE ConsumerInv'
  <1>1. /\ session' = [session EXCEPT ![m] = NoSession] /\ pos' = [pos EXCEPT ![m] = 0]
        /\ UNCHANGED <<log, committed, by, pc, closing, hand, handSession, attempt, sessions,
                       times, givenUp, dead, unread>>
    BY DEF Revoke, group, process, work, history
  <1>2. TypeOK'
    <2>1. session' \in [Members -> 0..sessions] /\ pos' \in [Members -> 0..Len(log)]
      BY <1>1 DEF ConsumerInv, TypeOK, NoSession
    <2> QED
      BY <1>1, <2>1 DEF ConsumerInv, TypeOK
  <1>3. /\ session'[m] = NoSession
        /\ \A n \in Members : n # m => session'[n] = session[n] /\ pos'[n] = pos[n]
    BY <1>1 DEF ConsumerInv, TypeOK
  <1>4. ReaderInv(m)' /\ HandInv(m)'
    BY <1>1, <1>3, Frame DEF ConsumerInv, ReaderInv, HandInv
  <1>5. \A n \in Members : ReaderInv(n)' /\ HandInv(n)'
    BY <1>1, <1>3, <1>4, Frame, Untouched
  <1>6. SessionsApart'
    <2>1. SessionsApart
      BY DEF ConsumerInv
    <2> QED
      BY <1>1, <1>3, <2>1 DEF SessionsApart
  <1> QED
    BY <1>1, <1>2, <1>5, <1>6, Frame DEF ConsumerInv

LEMMA ExitInv == ASSUME ConsumerInv, NEW m \in Members, Exit(m) PROVE ConsumerInv'
  <1>1. UNCHANGED <<log, committed, by, sessions, times, givenUp, dead, unread>>
    BY DEF Exit, group, history
  <1>2. TypeOK'
    <2>1. /\ session' \in [Members -> 0..sessions] /\ pos' \in [Members -> 0..Len(log)]
          /\ handSession' \in [Members -> 0..sessions] /\ hand' \in [Members -> 0..Len(log)]
          /\ attempt' \in [Members -> 0..MaxRetries]
      BY ConsumerConstants DEF ConsumerInv, TypeOK, Exit, NoSession, NoMessage
    <2>2. /\ pc' \in [Members -> {"down", "loop", "fetch", "handle", "dead", "commit"}]
          /\ closing' \in [Members -> BOOLEAN]
      BY DEF ConsumerInv, TypeOK, Exit
    <2> QED
      BY <1>1, <2>1, <2>2 DEF ConsumerInv, TypeOK
  <1>3. /\ session'[m] = NoSession /\ handSession'[m] = NoSession
        /\ hand'[m] = NoMessage /\ pc'[m] = "down"
    BY DEF ConsumerInv, TypeOK, Exit
  <1>4. \A n \in Members : n # m =>
          /\ session'[n] = session[n] /\ pos'[n] = pos[n] /\ pc'[n] = pc[n]
          /\ hand'[n] = hand[n] /\ handSession'[n] = handSession[n]
    BY DEF ConsumerInv, TypeOK, Exit
  <1>5. ReaderInv(m)' /\ HandInv(m)'
    BY <1>3 DEF ReaderInv, HandInv, NoMessage, NoSession
  <1>6. \A n \in Members : ReaderInv(n)' /\ HandInv(n)'
    BY <1>1, <1>4, <1>5, Frame, Untouched
  <1>7. SessionsApart'
    <2>1. SessionsApart
      BY DEF ConsumerInv
    <2> QED
      BY <1>3, <1>4, <2>1 DEF SessionsApart
  <1> QED
    BY <1>1, <1>2, <1>6, <1>7, Frame DEF ConsumerInv

\* The steps that only move the program counter, the flag or the counter of
\* attempts of a member, and keep its message in hand.
LEMMA ControlInv ==
    ASSUME ConsumerInv, NEW m \in Members,
           UNCHANGED <<log, committed, by, sessions, session, pos, hand, handSession,
                       times, givenUp, dead, unread>>,
           closing' \in [Members -> BOOLEAN], attempt' \in [Members -> 0..MaxRetries],
           NEW where \in {"loop", "fetch", "handle", "dead"},
           pc' = pc \/ pc' = [pc EXCEPT ![m] = where],
           where \in {"handle", "dead"} <=> pc[m] \in {"handle", "dead", "commit"},
           where = "handle" => pc[m] = "handle"
    PROVE  ConsumerInv'
  <1>1. TypeOK'
    BY DEF ConsumerInv, TypeOK
  <1>2. \A n \in Members : n # m => pc'[n] = pc[n]
    BY DEF ConsumerInv, TypeOK
  <1>3. pc'[m] \in {pc[m], where}
    BY DEF ConsumerInv, TypeOK
  <1>4. ReaderInv(m)' /\ HandInv(m)'
    <2>1. ReaderInv(m) /\ HandInv(m)
      BY DEF ConsumerInv
    <2>2. ReaderInv(m)'
      BY <1>3, <2>1, Frame DEF ReaderInv
    <2>3. HandInv(m)'
      BY <1>3, <2>1, Frame DEF HandInv
    <2> QED
      BY <2>2, <2>3
  <1>5. \A n \in Members : ReaderInv(n)' /\ HandInv(n)'
    BY <1>2, <1>4, Frame, Untouched
  <1>6. SessionsApart'
    BY DEF ConsumerInv, SessionsApart
  <1> QED
    BY <1>1, <1>5, <1>6, Frame DEF ConsumerInv

\* The loop takes the next message: the one it had is finished.
LEMMA FetchInv == ASSUME ConsumerInv, NEW m \in Members, Fetch(m) PROVE ConsumerInv'
  <1> USE ConsumerConstants
  <1> DEFINE where == IF Readable(pos[m] + 1) THEN "handle" ELSE "dead"
  <1>1. /\ pos' = [pos EXCEPT ![m] = @ + 1] /\ hand' = [hand EXCEPT ![m] = pos[m] + 1]
        /\ handSession' = [handSession EXCEPT ![m] = session[m]]
        /\ pc' = [pc EXCEPT ![m] = where]
        /\ UNCHANGED <<log, committed, by, closing, session, attempt, sessions, times,
                       givenUp, dead, unread>>
    BY DEF Fetch, TakeNext, group, history
  <1>2. /\ pc[m] = "fetch" /\ session[m] # NoSession /\ pos[m] < Len(log)
        /\ pos[m] \in 0..Len(log) /\ Len(log) \in Nat /\ Len(log) <= MaxLog
        /\ committed \in Int
    BY DEF Fetch, TakeNext, ConsumerInv, TypeOK, NoOffset
  <1>3. where \in {"handle", "dead"}
    OBVIOUS
  <1> HIDE DEF where
  <1>4. TypeOK'
    <2>1. /\ pos' \in [Members -> 0..Len(log)] /\ hand' \in [Members -> 0..Len(log)]
          /\ handSession' \in [Members -> 0..sessions]
      BY <1>1, <1>2 DEF ConsumerInv, TypeOK
    <2>2. pc' \in [Members -> {"down", "loop", "fetch", "handle", "dead", "commit"}]
      BY <1>1, <1>3 DEF ConsumerInv, TypeOK
    <2> QED
      BY <1>1, <2>1, <2>2 DEF ConsumerInv, TypeOK
  <1>5. /\ pc'[m] = where /\ pos'[m] = pos[m] + 1 /\ hand'[m] = pos[m] + 1
        /\ handSession'[m] = session[m]
    BY <1>1 DEF ConsumerInv, TypeOK
  <1>6. \A n \in Members : n # m =>
          /\ pos'[n] = pos[n] /\ pc'[n] = pc[n]
          /\ hand'[n] = hand[n] /\ handSession'[n] = handSession[n]
    BY <1>1 DEF ConsumerInv, TypeOK
  <1>7. hand[m] = NoMessage /\ handSession[m] = NoSession /\ ReaderInv(m)
    BY <1>2 DEF ConsumerInv, HandInv
  <1>8. \A o \in 1..pos[m] : Behind(o)'
    BY <1>1, <1>7, <1>2, Frame DEF ReaderInv, NoMessage
  <1>9. ReaderInv(m)'
    <2>1. pos[m] + 1 \in Offsets
      BY <1>2 DEF Offsets
    <2> QED
      BY <1>1, <1>2, <1>3, <1>5, <1>7, <1>8, <2>1 DEF ReaderInv, Offsets
  <1>10. HandInv(m)'
    <2>1. pos[m] + 1 \in Offsets /\ times[session[m]][pos[m] + 1] = 0
      BY <1>2, <1>7 DEF ReaderInv, Offsets
    <2>2. \A o \in 1..(hand'[m] - 1) : Behind(o)'
      BY <1>2, <1>5, <1>8
    <2>3. session[m] = by => committed <= pos[m] + 1
      BY <1>2, <1>7 DEF ReaderInv
    <2> QED
      BY <1>1, <1>2, <1>3, <1>5, <2>1, <2>2, <2>3 DEF HandInv, NoMessage
  <1>11. \A n \in Members : ReaderInv(n)' /\ HandInv(n)'
    BY <1>1, <1>6, <1>9, <1>10, Frame, Untouched
  <1>12. SessionsApart'
    <2>1. SessionsApart
      BY DEF ConsumerInv
    <2>2. session' = session
      BY <1>1
    <2> QED
      BY <1>5, <1>6, <2>1, <2>2 DEF SessionsApart
  <1> QED
    BY <1>1, <1>4, <1>11, <1>12, Frame DEF ConsumerInv

\* A loop whose message is finished now: the handler accepted it, which it had
\* not in this session, or it went the way of the dead letter queue.
LEMMA HandleSucceedsInv ==
    ASSUME ConsumerInv, NEW m \in Members, pc[m] = "handle", HandleSucceeds(m)
    PROVE  ConsumerInv'
  <1> USE ConsumerConstants
  <1> DEFINE s == handSession[m]
             h == hand[m]
  <1>1. /\ times' = [times EXCEPT ![s][h] = @ + 1] /\ pc' = [pc EXCEPT ![m] = "commit"]
        /\ UNCHANGED <<log, committed, by, closing, session, pos, hand, handSession, attempt,
                       sessions, givenUp, dead, unread>>
    BY DEF HandleSucceeds, group, reader, work
  <1>2. /\ s \in Sessions /\ h \in Offsets /\ s <= sessions /\ h \in 1..Len(log)
        /\ h # NoMessage /\ s # NoSession /\ Len(log) \in Nat /\ Len(log) <= MaxLog
    <2>1. h # NoMessage /\ s # NoSession
      BY DEF ConsumerInv, HandInv
    <2>2. /\ h \in 0..Len(log) /\ s \in 0..sessions /\ sessions \in 0..MaxSessions
          /\ Len(log) \in Nat /\ Len(log) <= MaxLog
      BY DEF ConsumerInv, TypeOK
    <2> QED
      BY <2>1, <2>2 DEF Sessions, Offsets, NoMessage, NoSession
  <1>3. HandInv(m) /\ ReaderInv(m) /\ times[s][h] = 0
    BY DEF ConsumerInv, HandInv
  <1> HIDE DEF s, h
  <1>4. /\ times' \in [Sessions -> [Offsets -> Nat]]
        /\ times'[s][h] = 1
        /\ \A t \in Sessions, o \in Offsets : t # s \/ o # h => times'[t][o] = times[t][o]
        /\ \A t \in Sessions : t # s => times'[t] = times[t]
    BY <1>1, <1>2, <1>3 DEF ConsumerInv, TypeOK
  <1>5. \A o \in Offsets : (Behind(o) => Behind(o)') /\ (Finished(o) => Finished(o)')
    BY <1>1, <1>4, BehindStays
  <1>6. TypeOK'
    BY <1>1, <1>4 DEF ConsumerInv, TypeOK
  <1>7. CommittedIsFinished'
    <2>1. CommittedIsFinished
      BY DEF ConsumerInv
    <2> QED
      BY <1>1, <1>2, <1>5, <2>1 DEF CommittedIsFinished, Offsets
  <1>8. RepeatedOnlyByReassignment'
    BY <1>4 DEF ConsumerInv, RepeatedOnlyByReassignment
  <1>9. (\A t \in Sessions, o \in Offsets : t > sessions => times[t][o] = 0)'
    <2>1. \A t \in Sessions, o \in Offsets : t > sessions => t # s /\ times[t][o] = 0
      BY <1>2 DEF ConsumerInv, TypeOK, Sessions
    <2> QED
      BY <1>1, <1>4, <2>1
  <1>10. pc'[m] = "commit" /\ \A n \in Members : n # m => pc'[n] = pc[n]
    BY <1>1 DEF ConsumerInv, TypeOK
  <1>11. Finished(h)'
    BY <1>1, <1>2, <1>4 DEF Finished, Handled, h
  <1>12. HandInv(m)'
    <2>1. \A o \in 1..(h - 1) : Behind(o)'
      <3>1. \A o \in 1..(h - 1) : Behind(o)
        BY <1>3 DEF HandInv, h
      <3> QED
        BY <1>2, <1>5, <3>1 DEF Offsets
    <2> QED
      BY <1>1, <1>2, <1>3, <1>10, <1>11, <2>1 DEF HandInv, h, s
  <1>13. ReaderInv(m)'
    <2> SUFFICES ASSUME session[m] # NoSession PROVE ReaderInv(m)'
      BY <1>1 DEF ReaderInv
    <2>1. pos[m] \in 0..Len(log) /\ session[m] \in Sessions
      BY DEF ConsumerInv, TypeOK, NoSession, Sessions
    <2>2. \A o \in 1..pos[m] : Behind(o)' \/ o = h
      BY <1>2, <1>3, <1>5, <2>1 DEF ReaderInv, Offsets, h
    <2>3. \A o \in Offsets : o > pos[m] => times'[session[m]][o] = 0
      <3>1. session[m] = s => h = pos[m]
        BY <1>3 DEF ReaderInv, h, s
      <3>2. \A o \in Offsets : o > pos[m] => session[m] # s \/ o # h
        BY <1>2, <2>1, <3>1 DEF Offsets
      <3>3. \A o \in Offsets : o > pos[m] => times[session[m]][o] = 0
        BY <1>3 DEF ReaderInv
      <3> QED
        BY <1>4, <2>1, <3>2, <3>3
    <2> QED
      BY <1>1, <1>3, <1>10, <2>2, <2>3 DEF ReaderInv, h
  <1>14. \A n \in Members : ReaderInv(n)' /\ HandInv(n)'
    <2> TAKE n \in Members
    <2>1. CASE n = m
      BY <1>12, <1>13, <2>1
    <2>2. CASE n # m
      <3>1. session[n] # s /\ handSession[n] # s
        <4>1. SessionsApart
          BY DEF ConsumerInv
        <4> QED
          BY <1>2, <2>2, <4>1 DEF SessionsApart, s
      <3>2. /\ session[n] # NoSession => session[n] \in Sessions
            /\ handSession[n] # NoSession => handSession[n] \in Sessions
        BY DEF ConsumerInv, TypeOK, NoSession, Sessions
      <3> QED
        BY <1>1, <1>4, <1>5, <1>10, <2>2, <3>1, <3>2, Untouched
    <2> QED
      BY <2>1, <2>2
  <1>15. SessionsApart'
    BY <1>1 DEF ConsumerInv, SessionsApart
  <1> QED
    BY <1>1, <1>6, <1>7, <1>8, <1>9, <1>14, <1>15 DEF ConsumerInv

LEMMA PublishDeadInv == ASSUME ConsumerInv, NEW m \in Members, PublishDead(m) PROVE ConsumerInv'
  <1> USE ConsumerConstants
  <1> DEFINE h == hand[m]
  <1>1. /\ pc[m] = "dead" /\ pc' = [pc EXCEPT ![m] = "commit"]
        /\ givenUp' = givenUp \cup {h} /\ (dead' = dead \/ dead' = dead \cup {h})
        /\ UNCHANGED <<log, committed, by, closing, session, pos, hand, handSession, attempt,
                       sessions, times, unread>>
    BY DEF PublishDead, group, reader, work
  <1>2. HandInv(m) /\ ReaderInv(m) /\ Len(log) \in Nat /\ Len(log) <= MaxLog
    BY DEF ConsumerInv, TypeOK
  <1>3. h \in 1..Len(log) /\ h \in Offsets /\ h # NoMessage
    <2>1. h # NoMessage /\ h \in 0..Len(log)
      BY <1>1, <1>2 DEF HandInv, ConsumerInv, TypeOK
    <2> QED
      BY <1>2, <2>1 DEF Offsets, NoMessage
  <1> HIDE DEF h
  <1>4. \A o \in Offsets : (Behind(o) => Behind(o)') /\ (Finished(o) => Finished(o)')
    BY <1>1, BehindStays
  <1>5. TypeOK'
    <2>1. givenUp' \in SUBSET Offsets /\ dead' \in SUBSET Offsets
      BY <1>1, <1>3 DEF ConsumerInv, TypeOK
    <2> QED
      BY <1>1, <2>1 DEF ConsumerInv, TypeOK
  <1>6. CommittedIsFinished'
    <2>1. CommittedIsFinished
      BY DEF ConsumerInv
    <2> QED
      BY <1>1, <1>2, <1>4, <2>1 DEF CommittedIsFinished, Offsets
  <1>7. pc'[m] = "commit" /\ \A n \in Members : n # m => pc'[n] = pc[n]
    BY <1>1 DEF ConsumerInv, TypeOK
  <1>8. HandInv(m)'
    <2>1. \A o \in 1..(h - 1) : Behind(o)'
      <3>1. \A o \in 1..(h - 1) : Behind(o)
        BY <1>2 DEF HandInv, h
      <3> QED
        BY <1>2, <1>3, <1>4, <3>1 DEF Offsets
    <2>2. Finished(h)'
      BY <1>1 DEF Finished, h
    <2> QED
      BY <1>1, <1>2, <1>3, <1>7, <2>1, <2>2 DEF HandInv, h
  <1>9. ReaderInv(m)'
    <2> SUFFICES ASSUME session[m] # NoSession PROVE ReaderInv(m)'
      BY <1>1 DEF ReaderInv
    <2>1. pos[m] \in 0..Len(log)
      BY DEF ConsumerInv, TypeOK
    <2>2. \A o \in 1..pos[m] : Behind(o)' \/ o = h
      BY <1>2, <1>4, <2>1 DEF ReaderInv, Offsets, h
    <2> QED
      BY <1>1, <1>2, <1>7, <2>2 DEF ReaderInv, h
  <1>10. \A n \in Members : ReaderInv(n)' /\ HandInv(n)'
    BY <1>1, <1>4, <1>7, <1>8, <1>9, Untouched
  <1>11. SessionsApart'
    BY <1>1 DEF ConsumerInv, SessionsApart
  <1> QED
    BY <1>1, <1>5, <1>6, <1>10, <1>11 DEF ConsumerInv, RepeatedOnlyByReassignment

\* The commit covers the message in hand and those before it, all behind the
\* group; it is the first of its session, or later than the one before.
LEMMA CommitInv == ASSUME ConsumerInv, NEW m \in Members, CommitMessage(m) PROVE ConsumerInv'
  <1> USE ConsumerConstants
  <1> DEFINE h == hand[m]
             s == handSession[m]
  <1>1. /\ pc[m] = "commit" /\ pc' = [pc EXCEPT ![m] = "loop"]
        /\ hand' = [hand EXCEPT ![m] = NoMessage]
        /\ handSession' = [handSession EXCEPT ![m] = NoSession]
        /\ attempt' = [attempt EXCEPT ![m] = 0]
        /\ UNCHANGED <<log, closing, session, pos, sessions, times, givenUp, dead, unread>>
    BY DEF CommitMessage, LetGo, history
  <1>2. (committed' = h /\ by' = s) \/ (committed' = committed /\ by' = by)
    BY DEF CommitMessage, group
  <1>3. /\ HandInv(m) /\ ReaderInv(m) /\ Len(log) \in Nat /\ Len(log) <= MaxLog
        /\ committed \in Int /\ s \in 0..sessions
    BY DEF ConsumerInv, TypeOK, NoOffset
  <1>4. h \in 1..Len(log) /\ s # NoSession /\ Finished(h)
    <2>1. h # NoMessage /\ h \in 0..Len(log) /\ s # NoSession /\ Finished(h)
      BY <1>1, <1>3 DEF HandInv, ConsumerInv, TypeOK
    <2> QED
      BY <1>3, <2>1 DEF NoMessage
  <1>5. \A o : (Behind(o)' <=> Behind(o)) /\ (Finished(o)' <=> Finished(o))
    BY <1>1 DEF Behind, Finished, Handled
  <1>6. \A o \in 1..h : Behind(o)
    <2>1. \A o \in 1..(h - 1) : Behind(o)
      BY <1>3 DEF HandInv
    <2>2. Behind(h)
      BY <1>4 DEF Behind
    <2> QED
      BY <1>4, <2>1, <2>2
  <1> HIDE DEF h, s
  <1>7. TypeOK'
    <2>1. /\ hand' \in [Members -> 0..Len(log)] /\ handSession' \in [Members -> 0..sessions]
          /\ attempt' \in [Members -> 0..MaxRetries]
      BY <1>1 DEF ConsumerInv, TypeOK, NoMessage, NoSession
    <2>2. committed' \in {NoOffset} \cup 1..Len(log) /\ by' \in 0..sessions
      BY <1>2, <1>3, <1>4 DEF ConsumerInv, TypeOK
    <2>3. pc' \in [Members -> {"down", "loop", "fetch", "handle", "dead", "commit"}]
      BY <1>1 DEF ConsumerInv, TypeOK
    <2> QED
      BY <1>1, <2>1, <2>2, <2>3 DEF ConsumerInv, TypeOK
  <1>8. CommittedIsFinished'
    BY <1>1, <1>2, <1>3, <1>4, <1>5, <1>6 DEF ConsumerInv, CommittedIsFinished
  <1>9. /\ pc'[m] = "loop" /\ hand'[m] = NoMessage /\ handSession'[m] = NoSession
        /\ \A n \in Members : n # m =>
             pc'[n] = pc[n] /\ hand'[n] = hand[n] /\ handSession'[n] = handSession[n]
    BY <1>1 DEF ConsumerInv, TypeOK
  <1>10. HandInv(m)'
    BY <1>9 DEF HandInv, NoMessage, NoSession
  <1>11. ReaderInv(m)'
    <2> SUFFICES ASSUME session[m] # NoSession PROVE ReaderInv(m)'
      BY <1>1 DEF ReaderInv
    <2>1. \A o \in 1..pos[m] : Behind(o)'
      BY <1>3, <1>4, <1>5 DEF ReaderInv, Behind, h
    <2>2. session[m] = by' => committed' <= pos[m]
      <3>1. session[m] = by => committed <= pos[m]
        BY <1>3 DEF ReaderInv
      <3>2. session[m] = s => h = pos[m]
        BY <1>3 DEF ReaderInv, h, s
      <3>3. pos[m] \in Int
        BY DEF ConsumerInv, TypeOK
      <3> QED
        BY <1>2, <3>1, <3>2, <3>3
    <2>3. pc'[m] # "down" /\ \A o \in Offsets : o > pos[m] => times[session[m]][o] = 0
      BY <1>3, <1>9 DEF ReaderInv
    <2> QED
      BY <1>1, <1>9, <2>1, <2>2, <2>3 DEF ReaderInv
  <1>12. \A n \in Members : ReaderInv(n)' /\ HandInv(n)'
    <2> TAKE n \in Members
    <2>1. CASE n = m
      BY <1>10, <1>11, <2>1
    <2>2. CASE n # m
      <3>1. session[n] # s /\ handSession[n] # s
        <4>1. SessionsApart
          BY DEF ConsumerInv
        <4> QED
          BY <1>4, <2>2, <4>1 DEF SessionsApart, s
      <3> QED
        BY <1>1, <1>2, <1>4, <1>5, <1>9, <2>2, <3>1, Untouched
    <2> QED
      BY <2>1, <2>2
  <1>13. SessionsApart'
    <2>1. SessionsApart
      BY DEF ConsumerInv
    <2>2. session' = session
      BY <1>1
    <2> QED
      BY <1>9, <2>1, <2>2 DEF SessionsApart
  <1>14. (by = NoSession => committed = NoOffset)'
    BY <1>2, <1>4 DEF ConsumerInv
  <1> QED
    BY <1>1, <1>7, <1>8, <1>12, <1>13, <1>14 DEF ConsumerInv, RepeatedOnlyByReassignment

LEMMA StartCloseInv ==
    ASSUME ConsumerInv, NEW m \in Members, Start(m) \/ Close(m) PROVE ConsumerInv'
  <1>1. CASE Start(m)
    BY <1>1, ControlInv DEF Start, group, reader, work, history, ConsumerInv, TypeOK
  <1>2. CASE Close(m)
    <2>1. closing' \in [Members -> BOOLEAN]
      BY <1>2 DEF Close, ConsumerInv, TypeOK
    <2>2. \E where \in {"loop", "fetch", "handle", "dead"} :
            /\ where \in {"handle", "dead"} <=> pc[m] \in {"handle", "dead", "commit"}
            /\ where = "handle" => pc[m] = "handle"
      OBVIOUS
    <2> QED
      BY <1>2, <2>1, <2>2, ControlInv DEF Close, group, reader, work, history, ConsumerInv, TypeOK
  <1> QED
    BY <1>1, <1>2

LEMMA LoopHeadInv == ASSUME ConsumerInv, NEW m \in Members, LoopHead(m) PROVE ConsumerInv'
  <1>1. CASE Exit(m)
    BY <1>1, ExitInv
  <1>2. CASE ~Exit(m)
    <2>1. /\ pc[m] = "loop" /\ pc' = [pc EXCEPT ![m] = "fetch"]
          /\ UNCHANGED <<log, committed, by, sessions, session, pos, hand, handSession,
                         times, givenUp, dead, unread, closing, attempt>>
      BY <1>2 DEF LoopHead, group, reader, work, history
    <2>2. closing' \in [Members -> BOOLEAN] /\ attempt' \in [Members -> 0..MaxRetries]
      BY <2>1 DEF ConsumerInv, TypeOK
    <2> QED
      BY <2>1, <2>2, ControlInv
  <1> QED
    BY <1>1, <1>2

LEMMA HandleFailsInv ==
    ASSUME ConsumerInv, NEW m \in Members, pc[m] = "handle", HandleFails(m)
    PROVE  ConsumerInv'
  <1>1. attempt' \in [Members -> 0..MaxRetries]
    <2>1. attempt \in [Members -> 0..MaxRetries] /\ attempt[m] \in 0..MaxRetries
      BY DEF ConsumerInv, TypeOK
    <2>2. CASE attempt' = attempt
      BY <2>1, <2>2
    <2>3. CASE attempt[m] < MaxRetries /\ attempt' = [attempt EXCEPT ![m] = @ + 1]
      <3>1. attempt[m] + 1 \in 0..MaxRetries
        BY <2>1, <2>3, ConsumerConstants
      <3> QED
        BY <2>1, <2>3, <3>1
    <2> QED
      BY <2>2, <2>3 DEF HandleFails, RetryLeft
  <1>2. \E where \in {"handle", "dead"} : pc' = pc \/ pc' = [pc EXCEPT ![m] = where]
    BY DEF HandleFails
  <1> QED
    BY <1>1, <1>2, ControlInv DEF HandleFails, group, reader, history, ConsumerInv, TypeOK

LEMMA NextInv == ConsumerInv /\ [Next]_vars => ConsumerInv'
  <1> SUFFICES ASSUME ConsumerInv, [Next]_vars PROVE ConsumerInv'
    OBVIOUS
  <1>1. CASE \E k \in Kinds : Produce(k)
    BY <1>1, ProduceInv
  <1>2. ASSUME NEW m \in Members, Assign(m) \/ Revoke(m) \/ Start(m) \/ Close(m) \/ Crash(m)
        PROVE  ConsumerInv'
    BY <1>2, AssignInv, RevokeInv, StartCloseInv, ExitInv DEF Crash
  <1>3. ASSUME NEW m \in Members, HandleReturns(m) PROVE ConsumerInv'
    <2>1. pc[m] = "handle" /\ (HandleSucceeds(m) \/ HandleFails(m))
      BY <1>3 DEF HandleReturns
    <2> QED
      BY <2>1, HandleSucceedsInv, HandleFailsInv
  <1>4. ASSUME NEW m \in Members, Consume(m) PROVE ConsumerInv'
    BY <1>3, <1>4, LoopHeadInv, FetchInv, ExitInv, PublishDeadInv, CommitInv
    DEF Consume, FetchCancelled
  <1>5. CASE UNCHANGED vars
    <2>1. /\ UNCHANGED <<log, committed, by, sessions, times, givenUp, dead, unread>>
          /\ UNCHANGED <<pc, closing, session, pos, hand, handSession, attempt>>
      BY <1>5 DEF vars
    <2>2. TypeOK' /\ SessionsApart'
      BY <2>1 DEF ConsumerInv, TypeOK, SessionsApart
    <2>3. \A n \in Members : ReaderInv(n)' /\ HandInv(n)'
      BY <2>1, Frame, Untouched
    <2> QED
      BY <2>1, <2>2, <2>3, Frame DEF ConsumerInv
  <1> QED
    BY <1>1, <1>2, <1>4, <1>5 DEF Next

-----------------------------------------------------------------------------
(* The results *)

\* The inductive invariant of the consumer group holds in every reachable state.
THEOREM ConsumerInvariant == Spec => []ConsumerInv
  BY InitInv, NextInv, PTL DEF Spec

\* Whatever fails, stops, dies or is moved to another member, a committed offset
\* covers no message that a loop fetched and nobody finished: consume commits
\* after handleWithRetry.
THEOREM CommitsOnlyFinished == Spec => []CommittedIsFinished
  <1>1. ConsumerInv => CommittedIsFinished
    BY DEF ConsumerInv
  <1> QED
    BY <1>1, ConsumerInvariant, PTL

\* The handler succeeds on a message at most once for every assignment of the
\* partition.
THEOREM RepeatsOnlyAfterReassignment == Spec => []RepeatedOnlyByReassignment
  <1>1. ConsumerInv => RepeatedOnlyByReassignment
    BY DEF ConsumerInv
  <1> QED
    BY <1>1, ConsumerInvariant, PTL

\* The committed offset of the group falls only when the commit of one session
\* follows that of another.
THEOREM OffsetMonotoneInSession == Spec => OffsetFallsOnlyAcrossSessions
  <1>1. ConsumerInv /\ [Next]_vars => [committed' < committed => by' # by]_vars
    <2> SUFFICES ASSUME ConsumerInv, Next PROVE committed' < committed => by' # by
      OBVIOUS
    <2>1. committed \in Int
      BY ConsumerConstants DEF ConsumerInv, TypeOK, NoOffset
    <2>2. ASSUME NEW m \in Members, CommitMessage(m) PROVE committed' < committed => by' # by
      <3>1. HandInv(m) /\ pc[m] = "commit" /\ hand[m] \in Int
        BY <2>2 DEF ConsumerInv, TypeOK, CommitMessage, LetGo
      <3>2. (committed' = hand[m] /\ by' = handSession[m]) \/ committed' = committed
        BY <2>2 DEF CommitMessage, group
      <3> QED
        BY <2>1, <3>1, <3>2 DEF HandInv
    <2>3. CASE UNCHANGED committed
      BY <2>1, <2>3
    <2> QED
      BY <2>2, <2>3 DEF Next, Consume, Produce, Assign, Revoke, Start, Close, Crash, Exit,
         LoopHead, Fetch, FetchCancelled, HandleReturns, HandleSucceeds, HandleFails,
         PublishDead, group
  <1> QED
    BY <1>1, ConsumerInvariant, PTL DEF Spec, OffsetFallsOnlyAcrossSessions

\* A step that changes none of what Delivery sees.
LEMMA Unseen ==
    ASSUME UNCHANGED <<log, committed, hand, times, givenUp, unread>>
    PROVE  UNCHANGED Deliver!vars
  BY DEF Deliver!vars, Finished, Handled

\* Where the abstract finished messages come from.
LEMMA FinishedSet ==
    ASSUME NEW h \in Offsets, unread' = unread,
           \A o \in Offsets : Finished(o)' <=> Finished(o) \/ o = h
    PROVE  {o \in Offsets : Finished(o)}' = {o \in Offsets : Finished(o)} \cup {h}
  OBVIOUS

\* Each step of the group is a step of Delivery, or one that it does not see.
LEMMA ProduceDelivers == ASSUME NEW k \in Kinds, Produce(k) PROVE Deliver!Produce(k)
  BY DEF Produce, group, process, reader, work, history, Deliver!Produce, Finished, Handled

LEMMA AssignDelivers ==
    ASSUME NEW m \in Members, Assign(m) PROVE Deliver!Skip \/ UNCHANGED Deliver!vars
  BY DEF Assign, group, process, work, Deliver!Skip, Deliver!vars, Deliver!NoOffset, NoOffset,
         Finished, Handled

LEMMA ExitDelivers ==
    ASSUME ConsumerInv, NEW m \in Members, Exit(m)
    PROVE  Deliver!Drop(m) \/ UNCHANGED Deliver!vars
  <1>1. /\ hand' = [hand EXCEPT ![m] = NoMessage]
        /\ UNCHANGED <<log, committed, times, givenUp, unread>>
    BY DEF Exit, group, history
  <1>2. CASE hand[m] = NoMessage
    <2>1. hand' = hand
      BY <1>1, <1>2 DEF ConsumerInv, TypeOK
    <2> QED
      BY <1>1, <2>1, Unseen
  <1>3. CASE hand[m] # NoMessage
    BY <1>1, <1>3 DEF Deliver!Drop, Deliver!NoMessage, NoMessage, Finished, Handled
  <1> QED
    BY <1>2, <1>3

LEMMA FetchDelivers ==
    ASSUME ConsumerInv, NEW m \in Members, Fetch(m)
    PROVE  \E o \in 1..Len(log) : Deliver!Take(m, o)
  <1>1. /\ hand' = [hand EXCEPT ![m] = pos[m] + 1] /\ pc[m] = "fetch"
        /\ session[m] # NoSession /\ pos[m] < Len(log)
        /\ UNCHANGED <<log, committed, times, givenUp, unread>>
    BY DEF Fetch, TakeNext, group, history
  <1>2. /\ pos[m] \in 0..Len(log) /\ Len(log) \in Nat /\ Len(log) <= MaxLog
        /\ hand[m] = NoMessage /\ ReaderInv(m)
    <2>1. pos[m] \in 0..Len(log) /\ Len(log) \in Nat /\ Len(log) <= MaxLog
      BY DEF ConsumerInv, TypeOK
    <2>2. ReaderInv(m) /\ HandInv(m)
      BY DEF ConsumerInv
    <2> QED
      BY <1>1, <2>1, <2>2 DEF HandInv
  <1>3. \A o \in 1..pos[m] : o \in {p \in Offsets : Finished(p)} \cup unread
    BY <1>1, <1>2, ConsumerConstants DEF ReaderInv, Behind, Offsets, NoMessage
  <1>4. Deliver!InOrder(pos[m] + 1)
    BY <1>2, <1>3 DEF Deliver!InOrder
  <1>5. Deliver!Take(m, pos[m] + 1)
    BY <1>1, <1>2, <1>4
    DEF Deliver!Take, Deliver!NoMessage, NoMessage, Finished, Handled
  <1> QED
    BY <1>1, <1>2, <1>5

\* A message in hand is one of the partition.
LEMMA HandInLog ==
    ASSUME ConsumerInv, NEW m \in Members, pc[m] \in {"handle", "dead", "commit"}
    PROVE  hand[m] \in Offsets /\ hand[m] # NoMessage /\ handSession[m] \in Sessions
  <1>1. /\ hand[m] # NoMessage /\ handSession[m] # NoSession
        /\ hand[m] \in 0..Len(log) /\ Len(log) \in Nat /\ Len(log) <= MaxLog
        /\ handSession[m] \in 0..sessions /\ sessions \in 0..MaxSessions
    BY DEF ConsumerInv, TypeOK, HandInv
  <1> QED
    BY <1>1, ConsumerConstants DEF Offsets, Sessions, NoMessage, NoSession

LEMMA HandleSucceedsDelivers ==
    ASSUME ConsumerInv, NEW m \in Members, pc[m] = "handle", HandleSucceeds(m)
    PROVE  Deliver!Finish(m)
  <1>1. /\ times' = [times EXCEPT ![handSession[m]][hand[m]] = @ + 1]
        /\ UNCHANGED <<log, committed, hand, givenUp, unread>>
    BY DEF HandleSucceeds, group, work
  <1>2. hand[m] \in Offsets /\ hand[m] # NoMessage /\ handSession[m] \in Sessions
    BY HandInLog
  <1>3. /\ times'[handSession[m]][hand[m]] > 0
        /\ \A t \in Sessions, o \in Offsets : o # hand[m] => times'[t][o] = times[t][o]
        /\ \A t \in Sessions : times[t][hand[m]] > 0 => times'[t][hand[m]] > 0
    BY <1>1, <1>2 DEF ConsumerInv, TypeOK
  <1>4. \A o \in Offsets : Finished(o)' <=> Finished(o) \/ o = hand[m]
    BY <1>1, <1>2, <1>3 DEF Finished, Handled
  <1>5. {o \in Offsets : Finished(o)}' = {o \in Offsets : Finished(o)} \cup {hand[m]}
    BY <1>1, <1>2, <1>4, FinishedSet
  <1> QED
    BY <1>1, <1>2, <1>5 DEF Deliver!Finish, Deliver!NoMessage, NoMessage

LEMMA PublishDeadDelivers ==
    ASSUME ConsumerInv, NEW m \in Members, PublishDead(m) PROVE Deliver!Finish(m)
  <1>1. /\ pc[m] = "dead" /\ givenUp' = givenUp \cup {hand[m]}
        /\ UNCHANGED <<log, committed, hand, times, unread>>
    BY DEF PublishDead, group, work
  <1>2. hand[m] \in Offsets /\ hand[m] # NoMessage
    BY <1>1, HandInLog
  <1>3. \A o \in Offsets : Finished(o)' <=> Finished(o) \/ o = hand[m]
    BY <1>1 DEF Finished, Handled
  <1>4. {o \in Offsets : Finished(o)}' = {o \in Offsets : Finished(o)} \cup {hand[m]}
    BY <1>1, <1>2, <1>3, FinishedSet
  <1> QED
    BY <1>1, <1>2, <1>4 DEF Deliver!Finish, Deliver!NoMessage, NoMessage

LEMMA CommitDelivers ==
    ASSUME ConsumerInv, NEW m \in Members, CommitMessage(m) PROVE Deliver!Commit(m)
  <1>1. /\ pc[m] = "commit" /\ hand' = [hand EXCEPT ![m] = NoMessage]
        /\ committed' \in {hand[m], committed}
        /\ UNCHANGED <<log, times, givenUp, unread>>
    BY DEF CommitMessage, LetGo, group, history
  <1>2. hand[m] \in {o \in Offsets : Finished(o)}
    BY <1>1, HandInLog DEF ConsumerInv, HandInv
  <1>3. {o \in Offsets : Finished(o)}' = {o \in Offsets : Finished(o)}
    BY <1>1 DEF Finished, Handled
  <1> QED
    BY <1>1, <1>2, <1>3 DEF Deliver!Commit, Deliver!NoMessage, NoMessage

LEMMA NextDelivers == ConsumerInv /\ [Next]_vars => [Deliver!Next]_(Deliver!vars)
  <1> SUFFICES ASSUME ConsumerInv, [Next]_vars PROVE [Deliver!Next]_(Deliver!vars)
    OBVIOUS
  <1>1. ASSUME NEW k \in Kinds, Produce(k) PROVE Deliver!Next
    BY <1>1, ProduceDelivers DEF Deliver!Next
  <1>2. ASSUME NEW m \in Members, Assign(m) PROVE [Deliver!Next]_(Deliver!vars)
    BY <1>2, AssignDelivers DEF Deliver!Next
  <1>3. ASSUME NEW m \in Members, Exit(m) PROVE [Deliver!Next]_(Deliver!vars)
    BY <1>3, ExitDelivers DEF Deliver!Next, Deliver!Deliver
  <1>4. ASSUME NEW m \in Members,
               Fetch(m) \/ HandleReturns(m) \/ PublishDead(m) \/ CommitMessage(m)
        PROVE  [Deliver!Next]_(Deliver!vars)
    <2>1. CASE Fetch(m)
      BY <2>1, FetchDelivers DEF Deliver!Next, Deliver!Deliver
    <2>2. CASE pc[m] = "handle" /\ HandleSucceeds(m)
      BY <2>2, HandleSucceedsDelivers DEF Deliver!Next, Deliver!Deliver
    <2>3. CASE HandleFails(m)
      BY <2>3, Unseen DEF HandleFails, group, history
    <2>4. CASE PublishDead(m)
      BY <2>4, PublishDeadDelivers DEF Deliver!Next, Deliver!Deliver
    <2>5. CASE CommitMessage(m)
      BY <2>5, CommitDelivers DEF Deliver!Next, Deliver!Deliver
    <2> QED
      BY <1>4, <2>1, <2>2, <2>3, <2>4, <2>5 DEF HandleReturns
  <1>5. ASSUME NEW m \in Members, Revoke(m) \/ Start(m) \/ Close(m)
        PROVE  UNCHANGED Deliver!vars
    BY <1>5, Unseen DEF Revoke, Start, Close, group, process, reader, work, history
  <1>6. ASSUME NEW m \in Members, LoopHead(m) PROVE [Deliver!Next]_(Deliver!vars)
    BY <1>3, <1>6, Unseen DEF LoopHead, group, reader, work, history
  <1>7. CASE UNCHANGED vars
    BY <1>7, Unseen DEF vars
  <1> QED
    BY <1>1, <1>2, <1>3, <1>4, <1>5, <1>6, <1>7 DEF Next, Consume, Crash, FetchCancelled

\* The group delivers the messages of the partition in order and at least once:
\* a loop is given a message only when all the earlier ones are finished or were
\* never to be read, and a message is committed only when it is finished.
THEOREM GroupDelivers == Spec => ImplementsDelivery
  <1>1. Init => Deliver!Init
    <2> SUFFICES ASSUME Init PROVE Deliver!Init
      OBVIOUS
    <2>1. {o \in Offsets : Finished(o)} = {}
      BY DEF Init, Finished, Handled
    <2> QED
      BY <2>1 DEF Init, Deliver!Init, Deliver!NoOffset, Deliver!NoMessage, NoOffset, NoMessage
  <1> QED
    BY <1>1, NextDelivers, ConsumerInvariant, PTL DEF Spec, Deliver!Spec, ImplementsDelivery
=============================================================================
