------------------------ MODULE EventDeliveryProofs ------------------------
(***************************************************************************)
(* Proofs about Outbox, for any events, dispatchers and limits, and about  *)
(* EventDelivery, for any partition and any group besides.                 *)
(*                                                                         *)
(* OutboxInv is inductive; TopicMatchesTable, OutcomeIsFinal,              *)
(* OvertakesOnlyMissed and StrandedByFailureOnly follow from it.  A        *)
(* behaviour of the pipeline is one of the outbox, so that they hold there *)
(* too, and EffectsAreOwed and NothingSlipsThrough are inductive relative  *)
(* to them.                                                                *)
(***************************************************************************)
EXTENDS EventDelivery, FiniteSetTheorems, TLAPS

USE OutboxConstants

-----------------------------------------------------------------------------
(* The order of created_at *)

\* Recording an event changes nothing about the age of the others.
LEMMA OlderAfterRecord ==
    ASSUME stamps \in Seq(Events), NEW n \in Events, stamps' = Append(stamps, n),
           NEW f \in Events, NEW e \in Events \ {n}, Older(f, e)'
    PROVE  Older(f, e)
<1>1. PICK i \in DOMAIN stamps', j \in DOMAIN stamps' : i < j /\ stamps'[i] = f /\ stamps'[j] = e
  BY DEF Older
<1>2. Len(stamps) \in Nat /\ DOMAIN stamps' = 1..(Len(stamps) + 1) /\ DOMAIN stamps = 1..Len(stamps)
  OBVIOUS
<1>3. \A k \in 1..Len(stamps) : stamps'[k] = stamps[k]
  OBVIOUS
<1>4. stamps'[Len(stamps) + 1] = n
  OBVIOUS
<1>5. j # Len(stamps) + 1
  BY <1>1, <1>4
<1>6. i \in 1..Len(stamps) /\ j \in 1..Len(stamps)
  BY <1>1, <1>2, <1>5
<1> QED
  BY <1>1, <1>2, <1>3, <1>6 DEF Older

\* Age is transitive, and no event is older than itself.
LEMMA OlderIsAnOrder ==
    ASSUME stamps \in Seq(Events), StampsInOrder, NEW e, NEW f, NEW g
    PROVE  /\ ~Older(e, e)
           /\ Older(g, f) /\ Older(f, e) => Older(g, e)
<1>1. DOMAIN stamps \subseteq Nat
  OBVIOUS
<1> QED
  BY <1>1 DEF Older, StampsInOrder

\* Finitely many events have been recorded.
LEMMA FinitelyManyOlder ==
    ASSUME stamps \in Seq(Events), NEW rows, NEW e
    PROVE  IsFiniteSet({f \in rows : Older(f, e)})
<1> DEFINE T == {stamps[i] : i \in 1..Len(stamps)}
<1>1. IsFiniteSet(1..Len(stamps))
  BY FS_Interval
<1>2. stamps \in [1..Len(stamps) -> T] /\ \A t \in T : \E i \in 1..Len(stamps) : stamps[i] = t
  OBVIOUS
<1>3. stamps \in Surjection(1..Len(stamps), T)
  BY <1>2 DEF Surjection
<1>4. IsFiniteSet(T)
  BY <1>1, <1>3, FS_Surjection
<1>5. {f \in rows : Older(f, e)} \in SUBSET T
  BY DEF Older
<1> QED
  BY <1>4, <1>5, FS_Subset

\* ORDER BY created_at LIMIT: with a row the SELECT returns the older ones of those
\* it looks at.
LEMMA FirstOfIsClosed ==
    ASSUME stamps \in Seq(Events), StampsInOrder, NEW rows, NEW e \in FirstOf(rows),
           NEW f \in rows, Older(f, e)
    PROVE  f \in FirstOf(rows)
<1> DEFINE before(g) == {h \in rows : Older(h, g)}
<1>1. before(f) \in SUBSET before(e)
  BY OlderIsAnOrder
<1>2. IsFiniteSet(before(e)) /\ IsFiniteSet(before(f))
  BY FinitelyManyOlder
<1>3. Cardinality(before(e)) \in Nat /\ Cardinality(before(f)) \in Nat
  BY <1>2, FS_CardinalityType
<1>4. Cardinality(before(f)) <= Cardinality(before(e))
  BY <1>1, <1>2, FS_Subset
<1>5. Cardinality(before(e)) < Limit
  BY DEF FirstOf
<1>6. Cardinality(before(f)) < Limit
  BY <1>3, <1>4, <1>5
<1> QED
  BY <1>6 DEF FirstOf

-----------------------------------------------------------------------------
(* The invariant of the outbox *)

\* The conjuncts of OutboxInv as the steps disturb them: what is in the hands of
\* the dispatchers is disjoint, and for each of them the state of those rows and
\* its place in the loop.
HandsApart == \A c, d \in Dispatchers : c # d => InHand(c) \cap InHand(d) = {}
RightState(d) ==
    /\ \A e \in Holds(d) : state[e] = "publishing"
    /\ disp[d].pc = "claim" => disp[d].batch \subseteq Pending
InLoop(d) ==
    /\ disp[d].pc \in {"publish", "mark_published", "mark_failed"} <=> disp[d].cur # None
    /\ disp[d].cur \notin disp[d].batch
    /\ disp[d].pc = "idle" => disp[d].batch = {}
    /\ disp[d].writes > 0 => OnTopic(disp[d].cur)
    /\ disp[d].pc = "mark_published" => disp[d].writes > 0
ByName == /\ TypeOK /\ HandsApart /\ StampsInOrder /\ MissedIsKnown
          /\ \A d \in Dispatchers : RightState(d) /\ InLoop(d)

\* They say the same.
LEMMA InvByName == OutboxInv <=> ByName
<1>1. ASSUME OutboxInv PROVE ByName
  <2>1. \A d \in Dispatchers : RightState(d) /\ InLoop(d)
    BY <1>1 DEF OutboxInv, ExclusiveClaim, RightState, InLoop
  <2>2. ASSUME NEW c \in Dispatchers, NEW d \in Dispatchers, c # d, NEW e \in InHand(c) \cap InHand(d)
        PROVE  FALSE
    <3>1. CASE disp[c].pc # "claim" /\ disp[d].pc # "claim"
      BY <1>1, <2>2, <3>1 DEF OutboxInv, ExclusiveClaim, Holds
    <3>2. ASSUME NEW b \in {c, d}, disp[b].pc = "claim" PROVE e \in disp[b].batch /\ state[e] = "pending"
      BY <2>1, <2>2, <3>2 DEF InHand, InLoop, RightState, Pending
    <3>3. ASSUME NEW b \in {c, d}, disp[b].pc # "claim" PROVE state[e] = "publishing"
      BY <2>1, <2>2, <3>3 DEF Holds, RightState
    <3>4. disp[c].pc = "claim" /\ disp[d].pc = "claim"
      BY <3>1, <3>2, <3>3
    <3> QED
      BY <1>1, <2>2, <3>2, <3>4 DEF OutboxInv, ExclusiveClaim
  <2> QED
    BY <1>1, <2>1, <2>2 DEF OutboxInv, ByName, HandsApart
<1>2. ASSUME ByName PROVE OutboxInv
  <2>1. ASSUME NEW d \in Dispatchers, NEW c \in Dispatchers \ {d}
        PROVE  Holds(c) \cap Holds(d) = {} /\ disp[c].batch \cap disp[d].batch = {}
    <3>1. InHand(c) \cap InHand(d) = {}
      BY <1>2, <2>1 DEF ByName, HandsApart
    <3> QED
      BY <3>1 DEF Holds, InHand
  <2>2. ExclusiveClaim
    BY <1>2, <2>1 DEF ExclusiveClaim, ByName, RightState
  <2> QED
    BY <1>2, <2>2 DEF OutboxInv, ByName, InLoop
<1> QED
  BY <1>1, <1>2

\* At first nothing is recorded and nobody has anything in hand.
LEMMA InitByName == Init => ByName
BY DEF Init, ByName, TypeOK, HandsApart, StampsInOrder, MissedIsKnown, RightState, InLoop,
       InHand, Holds, Idle, Local, Pending

\* A step that leaves the dispatchers alone: Record, Commit and Rollback.
LEMMA RecorderByName ==
    ASSUME ByName, NEW e \in Events, Record(e) \/ Commit(e) \/ Rollback(e)
    PROVE  ByName'
<1>1. disp' = disp /\ topic' = topic
  BY DEF Record, Commit, Rollback
<1>2. \A f \in Events \ {e} : state'[f] = state[f]
  BY DEF Record, Commit, Rollback, ByName, TypeOK
<1>3. state[e] \in {"none", "open"} /\ state'[e] \in {"open", "pending", "rolled_back"}
  BY DEF Record, Commit, Rollback, ByName, TypeOK
<1>4. \A d \in Dispatchers : disp[d] \in Local /\ InHand(d)' = InHand(d) /\ Holds(d)' = Holds(d)
  BY <1>1 DEF InHand, Holds, ByName, TypeOK
<1>5. \A d \in Dispatchers : \A f \in InHand(d) : f \in Events \ {e} /\ state'[f] = state[f]
  <2>1. ASSUME NEW d \in Dispatchers, NEW f \in InHand(d) PROVE state[f] \in {"pending", "publishing"}
    BY <2>1 DEF ByName, RightState, InLoop, InHand, Holds, Pending
  <2>2. ASSUME NEW d \in Dispatchers, NEW f \in InHand(d) PROVE f \in Events
    BY <1>4, <2>2 DEF InHand, Local
  <2> QED
    BY <1>2, <1>3, <2>1, <2>2
<1>6. TypeOK'
  <2>1. state' \in [Events -> {"none", "open", "rolled_back"} \cup States]
    BY DEF Record, Commit, Rollback, ByName, TypeOK
  <2>2. stamps' \in Seq(Events)
    <3>1. stamps \in Seq(Events)
      BY DEF ByName, TypeOK
    <3>2. Append(stamps, e) \in Seq(Events)
      BY <3>1
    <3> QED
      BY <3>1, <3>2 DEF Record, Commit, Rollback
  <2>3. missed' \in SUBSET (Events \X Events)
    <3>1. missed \in SUBSET (Events \X Events)
      BY DEF ByName, TypeOK
    <3>2. UNION {InHand(d) : d \in Dispatchers} \subseteq Events
      BY <1>5
    <3>3. Miss({e}, UNION {InHand(d) : d \in Dispatchers}) \in SUBSET (Events \X Events)
      BY <3>1, <3>2 DEF Miss
    <3> QED
      BY <3>1, <3>3 DEF Record, Commit, Rollback
  <2> QED
    BY <1>1, <2>1, <2>2, <2>3 DEF ByName, TypeOK
<1>7. HandsApart'
  BY <1>4 DEF HandsApart, ByName
<1>8. ASSUME NEW d \in Dispatchers PROVE (RightState(d) /\ InLoop(d))'
  <2>1. InLoop(d)'
    BY <1>1, <1>8 DEF InLoop, OnTopic, ByName
  <2>2. \A f \in Holds(d)' : state'[f] = "publishing"
    BY <1>4, <1>5, <1>8 DEF ByName, RightState, Holds
  <2>3. (disp[d].pc = "claim" => disp[d].batch \subseteq Pending)'
    BY <1>1, <1>5, <1>8 DEF ByName, RightState, Pending, InHand
  <2> QED
    BY <2>1, <2>2, <2>3 DEF RightState
<1>9. StampsInOrder'
  <2>1. CASE Record(e)
    <3>1. /\ stamps' = Append(stamps, e) /\ stamps \in Seq(Events)
          /\ \A i \in DOMAIN stamps : stamps[i] # e
      BY <2>1 DEF Record, ByName, StampsInOrder, TypeOK
    <3>2. /\ DOMAIN stamps' = 1..(Len(stamps) + 1) /\ DOMAIN stamps = 1..Len(stamps) /\ Len(stamps) \in Nat
          /\ \A k \in 1..Len(stamps) : stamps'[k] = stamps[k] /\ stamps[k] \in Events
          /\ stamps'[Len(stamps) + 1] = e
      BY <3>1
    <3>3. \A i \in DOMAIN stamps' : state'[stamps'[i]] # "none"
      BY <1>2, <1>3, <3>1, <3>2 DEF ByName, StampsInOrder
    <3>4. \A i, j \in DOMAIN stamps' : stamps'[i] = stamps'[j] => i = j
      BY <3>1, <3>2 DEF ByName, StampsInOrder
    <3> QED
      BY <3>3, <3>4 DEF StampsInOrder
  <2>2. CASE Commit(e) \/ Rollback(e)
    BY <1>2, <1>3, <2>2 DEF Commit, Rollback, ByName, StampsInOrder, TypeOK
  <2> QED
    BY <2>1, <2>2
<1>10. MissedIsKnown'
  <2> SUFFICES ASSUME NEW d \in Dispatchers, NEW g \in InHand(d), NEW f \in Pending', Older(f, g)'
               PROVE  <<f, g>> \in missed' \/ (disp[d].pc = "claim" /\ f \in disp[d].batch)
    BY <1>1, <1>4 DEF MissedIsKnown
  <2>1. CASE Record(e)
    <3>1. Older(f, g) /\ f \in Pending /\ missed' = missed
      BY <1>2, <1>5, <2>1, OlderAfterRecord DEF Record, Pending, ByName, TypeOK
    <3> QED
      BY <3>1 DEF ByName, MissedIsKnown
  <2>2. CASE Rollback(e)
    <3>1. Older(f, g) /\ f \in Pending /\ missed' = missed
      BY <1>2, <2>2 DEF Rollback, Pending, ByName, TypeOK, Older
    <3> QED
      BY <3>1 DEF ByName, MissedIsKnown
  <2>3. CASE Commit(e)
    <3>1. Older(f, g) /\ missed' = Miss({e}, UNION {InHand(c) : c \in Dispatchers})
      BY <2>3 DEF Commit, Older
    <3>2. CASE f = e
      BY <3>1, <3>2 DEF Miss
    <3>3. CASE f # e
      BY <1>2, <3>1, <3>3 DEF Miss, Pending, ByName, MissedIsKnown
    <3> QED
      BY <3>2, <3>3
  <2> QED
    BY <2>1, <2>2, <2>3
<1> QED
  BY <1>6, <1>7, <1>8, <1>9, <1>10 DEF ByName

\* What is in hand is recorded, and waits or is claimed.
LEMMA InHandType ==
    ASSUME ByName, NEW d \in Dispatchers
    PROVE  /\ InHand(d) \subseteq Events
           /\ \A e \in InHand(d) : state[e] \in {"pending", "publishing"}
<1>1. disp[d] \in Local
  BY DEF ByName, TypeOK
<1>2. InHand(d) \subseteq Events
  BY <1>1 DEF InHand, Local
<1>3. ASSUME NEW e \in InHand(d) PROVE state[e] \in {"pending", "publishing"}
  BY <1>3 DEF ByName, RightState, InLoop, InHand, Holds, Pending
<1> QED
  BY <1>2, <1>3

\* A step of dispatcher d that takes nothing new in hand: it may change only the
\* rows it has in hand, and forget only about those it is done with.
LEMMA DispatcherByName ==
    ASSUME ByName, NEW d \in Dispatchers, TypeOK', RightState(d)', InLoop(d)',
           \A c \in Dispatchers \ {d} : disp'[c] = disp[c],
           stamps' = stamps,
           \A e : OnTopic(e) => OnTopic(e)',
           \A e \in Events : \/ state'[e] = state[e]
                             \/ e \in InHand(d) /\ state'[e] \notin {"none", "pending"},
           InHand(d)' \subseteq InHand(d),
           \A p \in missed : p \in missed' \/ p[2] \in InHand(d) \ InHand(d)',
           disp[d].pc = "claim" => InHand(d)' = {} \/ \A f \in disp[d].batch : state'[f] # "pending"
    PROVE  ByName'
<1>1. \A c \in Dispatchers \ {d} : InHand(c)' = InHand(c) /\ Holds(c)' = Holds(c)
  BY DEF InHand, Holds
<1>2. HandsApart'
  BY <1>1 DEF ByName, HandsApart
<1>3. StampsInOrder'
  <2>1. stamps \in Seq(Events)
    BY DEF ByName, TypeOK
  <2>2. \A i \in DOMAIN stamps : stamps[i] \in Events
    BY <2>1
  <2> QED
    BY <2>2 DEF ByName, StampsInOrder
<1>4. ASSUME NEW c \in Dispatchers \ {d} PROVE RightState(c)' /\ InLoop(c)'
  <2>1. InLoop(c)'
    BY <1>4 DEF InLoop, ByName
  <2>2. \A e \in InHand(c) : state'[e] = state[e]
    BY <1>4, InHandType DEF ByName, HandsApart
  <2>3. \A e \in Holds(c)' : state'[e] = "publishing"
    BY <1>1, <1>4, <2>2 DEF ByName, RightState, Holds
  <2>4. (disp[c].pc = "claim" => disp[c].batch \subseteq Pending)'
    BY <1>4, <2>2 DEF ByName, RightState, Pending, InHand
  <2> QED
    BY <2>1, <2>3, <2>4 DEF RightState
<1>5. MissedIsKnown'
  <2> SUFFICES ASSUME NEW c \in Dispatchers, NEW e \in InHand(c)', NEW f \in Pending', Older(f, e)'
               PROVE  (<<f, e>> \in missed \/ (disp[c].pc = "claim" /\ f \in disp[c].batch))'
    BY DEF MissedIsKnown
  <2>1. f \in Pending /\ Older(f, e)
    BY DEF Pending, Older
  <2>2. e \in InHand(c) /\ (c # d => e \notin InHand(d))
    BY <1>1 DEF ByName, HandsApart
  <2>3. <<f, e>> \in missed => <<f, e>> \in missed'
    BY <2>2
  <2>4. <<f, e>> \in missed \/ (disp[c].pc = "claim" /\ f \in disp[c].batch)
    BY <2>1, <2>2 DEF ByName, MissedIsKnown
  <2>5. CASE c = d
    BY <2>3, <2>4, <2>5 DEF Pending
  <2>6. CASE c # d
    BY <2>3, <2>4, <2>6
  <2> QED
    BY <2>5, <2>6
<1> QED
  BY <1>2, <1>3, <1>4, <1>5 DEF ByName

\* ClaimPending selects rows that wait and are nobody's; with them it selects the
\* older ones, unless those are locked, which is recorded.
LEMMA SelectByName ==
    ASSUME ByName, NEW d \in Dispatchers, Select(d)
    PROVE  ByName'
<1> DEFINE batch == Claimable(d)
           q == [Idle EXCEPT !.pc = "claim", !.batch = batch]
<1>1. batch \subseteq Pending \ LockedBesides(d) /\ Pending \subseteq Events
  BY DEF Claimable, FirstOf, Pending
<1>2. q \in Local /\ q.pc = "claim" /\ q.batch = batch /\ q.cur = None /\ q.writes = 0
  BY <1>1 DEF Idle, Local
<1>3. disp'[d] = q /\ (\A c \in Dispatchers \ {d} : disp'[c] = disp[c]) /\ disp' \in [Dispatchers -> Local]
  BY <1>2 DEF Select, ByName, TypeOK
<1> HIDE DEF q
<1>4. /\ state' = state /\ stamps' = stamps /\ topic' = topic
      /\ missed' = Miss(LockedBesides(d), batch)
  BY DEF Select
<1> HIDE DEF batch
<1>5. LockedBesides(d) \subseteq Events
  BY DEF LockedBesides, ByName, TypeOK, Local
<1>6. missed' \in SUBSET (Events \X Events)
  <2>1. missed \in SUBSET (Events \X Events)
    BY DEF ByName, TypeOK
  <2> QED
    BY <1>1, <1>4, <1>5, <2>1 DEF Miss
<1>7. TypeOK'
  BY <1>3, <1>4, <1>6 DEF TypeOK, ByName
<1>8. InHand(d)' = batch /\ \A c \in Dispatchers \ {d} : InHand(c)' = InHand(c) /\ Holds(c)' = Holds(c)
  BY <1>2, <1>3 DEF InHand, Holds
<1>9. ASSUME NEW c \in Dispatchers \ {d} PROVE InHand(c) \cap batch = {}
  <2>1. CASE disp[c].pc = "claim"
    <3>1. InHand(c) = disp[c].batch
      BY <1>9, <2>1 DEF InHand, ByName, InLoop
    <3> QED
      BY <1>1, <1>9, <2>1, <3>1 DEF LockedBesides
  <2>2. CASE disp[c].pc # "claim"
    BY <1>1, <1>9, <2>2 DEF ByName, RightState, Holds, Pending
  <2> QED
    BY <2>1, <2>2
<1>10. HandsApart'
  BY <1>8, <1>9 DEF ByName, HandsApart
<1>11. ASSUME NEW c \in Dispatchers PROVE RightState(c)' /\ InLoop(c)'
  <2>1. CASE c = d
    BY <1>1, <1>2, <1>3, <1>4, <2>1 DEF RightState, InLoop, Holds, Pending
  <2>2. CASE c # d
    BY <1>3, <1>4, <1>8, <2>2 DEF ByName, RightState, InLoop, Pending, OnTopic
  <2> QED
    BY <2>1, <2>2
<1>12. StampsInOrder'
  BY <1>4 DEF ByName, StampsInOrder
<1>13. MissedIsKnown'
  <2> SUFFICES ASSUME NEW c \in Dispatchers, NEW e \in InHand(c)', NEW f \in Pending', Older(f, e)'
               PROVE  (<<f, e>> \in missed \/ (disp[c].pc = "claim" /\ f \in disp[c].batch))'
    BY DEF MissedIsKnown
  <2>1. f \in Pending /\ Older(f, e) /\ missed \subseteq missed'
    BY <1>4 DEF Pending, Older, Miss
  <2>2. CASE c # d
    BY <1>3, <1>8, <2>1, <2>2 DEF ByName, MissedIsKnown
  <2>3. CASE c = d /\ f \in LockedBesides(d)
    BY <1>4, <1>8, <2>1, <2>3 DEF Miss
  <2>4. CASE c = d /\ f \notin LockedBesides(d)
    <3>1. f \in batch
      BY <1>8, <2>1, <2>4, FirstOfIsClosed DEF batch, Claimable, ByName, TypeOK
    <3> QED
      BY <1>2, <1>3, <2>4, <3>1
  <2> QED
    BY <2>2, <2>3, <2>4
<1> QED
  BY <1>7, <1>10, <1>11, <1>12, <1>13 DEF ByName

\* An idle dispatcher has nothing in hand.
LEMMA IdleHand ==
    ASSUME NEW d \in Dispatchers, disp'[d] = Idle
    PROVE  InHand(d)' = {} /\ RightState(d)' /\ InLoop(d)'
BY DEF Idle, InHand, RightState, InLoop, Holds

\* Being done with events keeps what is known of the others.
LEMMA DoneType ==
    ASSUME ByName, NEW es
    PROVE  /\ Done(es) \in SUBSET (Events \X Events)
           /\ \A p \in missed : p \in Done(es) \/ p[2] \in es
<1>1. missed \in SUBSET (Events \X Events)
  BY DEF ByName, TypeOK
<1> QED
  BY <1>1 DEF Done

\* A step that ends with an idle dispatcher and leaves the table alone.
LEMMA ReturnByName ==
    ASSUME ByName, NEW d \in Dispatchers, disp' = [disp EXCEPT ![d] = Idle],
           missed' = Done(InHand(d)), UNCHANGED <<state, stamps, topic>>
    PROVE  ByName'
<1>1. disp'[d] = Idle /\ \A c \in Dispatchers \ {d} : disp'[c] = disp[c]
  BY DEF ByName, TypeOK
<1>2. TypeOK'
  BY DoneType DEF ByName, TypeOK, Idle, Local
<1>3. InHand(d)' = {} /\ RightState(d)' /\ InLoop(d)'
  BY <1>1, IdleHand
<1>4. \A p \in missed : p \in missed' \/ p[2] \in InHand(d) \ InHand(d)'
  BY <1>3, DoneType
<1>5. \A e : OnTopic(e) => OnTopic(e)'
  BY DEF OnTopic
<1> QED
  BY <1>1, <1>2, <1>3, <1>4, <1>5, DispatcherByName

\* A dispatcher that has locked rows has nothing else in hand.
LEMMA ClaimHand ==
    ASSUME ByName, NEW d \in Dispatchers, disp[d].pc \in {"claim", "next"}
    PROVE  InHand(d) = disp[d].batch /\ disp[d].cur = None
BY DEF ByName, InLoop, InHand

\* The UPDATE marks the rows it has locked, which nobody else has in hand.
LEMMA ClaimByName ==
    ASSUME ByName, NEW d \in Dispatchers, Claim(d)
    PROVE  ByName'
<1> DEFINE batch == disp[d].batch
           q == [disp[d] EXCEPT !.pc = "next"]
<1>1. InHand(d) = batch /\ disp[d].cur = None /\ disp[d].pc = "claim"
  BY ClaimHand DEF Claim
<1>2. disp[d] \in Local /\ batch \subseteq Events
  BY DEF ByName, TypeOK, Local
<1>3. q \in Local /\ q.pc = "next" /\ q.batch = batch /\ q.cur = None /\ q.writes = disp[d].writes
  BY <1>1, <1>2 DEF Local
<1>4. \/ disp' = [disp EXCEPT ![d] = q] /\ missed' = missed
      \/ disp' = [disp EXCEPT ![d] = Idle] /\ missed' = Done(batch)
  BY DEF Claim
<1>5. /\ stamps' = stamps /\ topic' = topic
      /\ state' \in [Events -> {"none", "open", "rolled_back"} \cup States]
      /\ \A e \in Events : state'[e] = IF e \in batch THEN "publishing" ELSE state[e]
  BY DEF Claim, ByName, TypeOK
<1> HIDE DEF batch, q
<1>6. \A c \in Dispatchers \ {d} : disp'[c] = disp[c]
  BY <1>4 DEF ByName, TypeOK
<1>7. disp'[d] = q \/ disp'[d] = Idle
  BY <1>4 DEF ByName, TypeOK
<1>8. TypeOK'
  <2>1. Idle \in Local
    BY DEF Idle, Local
  <2>2. disp' \in [Dispatchers -> Local]
    BY <1>3, <1>4, <2>1 DEF ByName, TypeOK
  <2>3. missed' \in SUBSET (Events \X Events)
    BY <1>4, DoneType DEF ByName, TypeOK
  <2> QED
    BY <1>5, <2>2, <2>3 DEF ByName, TypeOK
<1>9. RightState(d)' /\ InLoop(d)' /\ InHand(d)' \subseteq InHand(d)
      /\ (disp'[d] = q => InHand(d)' = InHand(d)) /\ (disp'[d] = Idle => InHand(d)' = {})
  <2>1. CASE disp'[d] = Idle
    BY <2>1, <1>3, IdleHand DEF Idle
  <2>2. CASE disp'[d] = q
    <3>1. InHand(d)' = batch /\ Holds(d)' = batch
      BY <1>3, <2>2 DEF InHand, Holds
    <3>2. RightState(d)'
      BY <1>2, <1>3, <1>5, <2>2, <3>1 DEF RightState
    <3>3. InLoop(d)'
      BY <1>1, <1>2, <1>3, <1>5, <2>2 DEF ByName, InLoop, OnTopic, batch
    <3> QED
      BY <1>1, <1>3, <2>2, <3>1, <3>2, <3>3 DEF Idle
  <2> QED
    BY <1>7, <2>1, <2>2
<1>10. \A p \in missed : p \in missed' \/ p[2] \in InHand(d) \ InHand(d)'
  <2>1. CASE missed' = missed
    BY <2>1
  <2>2. CASE disp' = [disp EXCEPT ![d] = Idle] /\ missed' = Done(batch)
    <3>1. InHand(d)' = {}
      BY <1>9, <2>2 DEF ByName, TypeOK
    <3> QED
      BY <1>1, <2>2, <3>1, DoneType
  <2> QED
    BY <1>4, <2>1, <2>2
<1>11. \A e : OnTopic(e) => OnTopic(e)'
  BY <1>5 DEF OnTopic
<1>12. \A e \in Events : \/ state'[e] = state[e]
                         \/ e \in InHand(d) /\ state'[e] \notin {"none", "pending"}
  BY <1>1, <1>5
<1>13. \A f \in disp[d].batch : state'[f] # "pending"
  BY <1>2, <1>5 DEF batch
<1> QED
  BY <1>5, <1>6, <1>8, <1>9, <1>10, <1>11, <1>12, <1>13, DispatcherByName

\* The loop moves on: the next event of the batch, the next write, the answer of
\* the producer.  The rows stay as they are.
LEMMA LoopByName ==
    ASSUME ByName, NEW d \in Dispatchers, NEW q \in Local,
           disp' = [disp EXCEPT ![d] = q], UNCHANGED <<state, stamps, missed>>,
           topic' \in Seq(Events), \A e : OnTopic(e) => OnTopic(e)',
           InLoop(d)', InHand(d)' = InHand(d), disp[d].pc # "claim", q.pc # "claim"
    PROVE  ByName'
<1>1. disp'[d] = q /\ \A c \in Dispatchers \ {d} : disp'[c] = disp[c]
  BY DEF ByName, TypeOK
<1>2. TypeOK'
  BY DEF ByName, TypeOK
<1>3. RightState(d)'
  BY <1>1 DEF ByName, RightState, Holds
<1> QED
  BY <1>1, <1>2, <1>3, DispatcherByName

\* The loop takes the next event of its batch, or is through with it.
LEMMA NextEventByName ==
    ASSUME ByName, NEW d \in Dispatchers, NextEvent(d)
    PROVE  ByName'
<1>1. /\ disp[d] \in Local /\ InHand(d) = disp[d].batch /\ disp[d].cur = None /\ disp[d].pc = "next"
      /\ UNCHANGED <<state, stamps, topic, missed>>
  BY ClaimHand DEF NextEvent, ByName, TypeOK
<1>2. topic' \in Seq(Events) /\ \A e : OnTopic(e) => OnTopic(e)'
  BY <1>1 DEF ByName, TypeOK, OnTopic
<1>3. ASSUME NEW e \in disp[d].batch,
             disp' = [disp EXCEPT ![d] = [pc |-> "publish", batch |-> @.batch \ {e}, cur |-> e, writes |-> 0]]
      PROVE  ByName'
  <2> DEFINE q == [pc |-> "publish", batch |-> disp[d].batch \ {e}, cur |-> e, writes |-> 0]
  <2>1. q \in Local /\ disp' = [disp EXCEPT ![d] = q] /\ disp'[d] = q
    BY <1>1, <1>3 DEF ByName, TypeOK, Local
  <2>2. e # None
    BY <1>1, <1>3 DEF Local
  <2>3. InLoop(d)' /\ InHand(d)' = InHand(d)
    BY <1>1, <2>1, <2>2 DEF InLoop, InHand
  <2> QED
    BY <1>1, <1>2, <2>1, <2>3, LoopByName
<1>4. CASE disp[d].batch = {} /\ disp' = [disp EXCEPT ![d] = Idle]
  <2>1. Idle \in Local /\ disp'[d] = Idle /\ Idle.pc # "claim"
    BY <1>4 DEF ByName, TypeOK, Idle, Local
  <2>2. InLoop(d)' /\ InHand(d)' = InHand(d)
    BY <1>1, <1>4, <2>1, IdleHand
  <2> QED
    BY <1>1, <1>2, <1>4, <2>1, <2>2, LoopByName
<1> QED
  BY <1>3, <1>4 DEF NextEvent

\* The producer writes the event once more.
LEMMA WriteByName ==
    ASSUME ByName, NEW d \in Dispatchers, Write(d)
    PROVE  ByName'
<1> DEFINE q == [disp[d] EXCEPT !.writes = @ + 1]
<1>1. disp[d] \in Local /\ topic \in Seq(Events) /\ disp[d].pc = "publish" /\ disp[d].cur # None
  BY DEF Write, ByName, TypeOK, InLoop
<1>2. disp[d].cur \in Events /\ disp[d].writes \in Nat
  BY <1>1 DEF Local
<1>3. /\ q \in Local /\ q.pc = "publish" /\ q.batch = disp[d].batch /\ q.cur = disp[d].cur
  BY <1>1 DEF Local
<1>4. disp' = [disp EXCEPT ![d] = q] /\ disp'[d] = q /\ UNCHANGED <<state, stamps, missed>>
  BY DEF Write, ByName, TypeOK
<1> HIDE DEF q
<1>5. topic' = Append(topic, disp[d].cur) /\ topic' \in Seq(Events)
  BY <1>1, <1>2 DEF Write
<1>6. /\ DOMAIN topic' = 1..(Len(topic) + 1) /\ DOMAIN topic = 1..Len(topic) /\ Len(topic) \in Nat
      /\ \A i \in DOMAIN topic : topic'[i] = topic[i]
      /\ topic'[Len(topic) + 1] = disp[d].cur
  BY <1>1, <1>2, <1>5
<1>7. OnTopic(disp[d].cur)' /\ \A e : OnTopic(e) => OnTopic(e)'
  <2>1. OnTopic(disp[d].cur)'
    BY <1>3, <1>4, <1>6 DEF OnTopic
  <2>2. ASSUME NEW e, OnTopic(e) PROVE OnTopic(e)'
    BY <1>6, <2>2 DEF OnTopic
  <2> QED
    BY <2>1, <2>2
<1>8. InLoop(d)' /\ InHand(d)' = InHand(d)
  BY <1>1, <1>3, <1>4, <1>7 DEF InLoop, InHand, ByName
<1> QED
  BY <1>1, <1>3, <1>4, <1>5, <1>7, <1>8, LoopByName

\* Publish returns nil only after a write.
LEMMA PublishReturnsByName ==
    ASSUME ByName, NEW d \in Dispatchers, PublishReturns(d)
    PROVE  ByName'
<1>1. PICK pc \in {"mark_published", "mark_failed"} :
         /\ disp' = [disp EXCEPT ![d].pc = pc]
         /\ pc = "mark_published" => disp[d].writes > 0
  BY DEF PublishReturns, Acknowledged
<1> DEFINE q == [disp[d] EXCEPT !.pc = pc]
<1>2. /\ disp[d] \in Local /\ disp[d].pc = "publish"
      /\ UNCHANGED <<state, stamps, topic, missed>>
  BY DEF PublishReturns, ByName, TypeOK
<1>3. /\ q \in Local /\ q.pc = pc /\ q.batch = disp[d].batch /\ q.cur = disp[d].cur
      /\ q.writes = disp[d].writes
  BY <1>2 DEF Local
<1>4. disp' = [disp EXCEPT ![d] = q] /\ disp'[d] = q
  BY <1>1 DEF ByName, TypeOK
<1> HIDE DEF q
<1>5. topic' \in Seq(Events) /\ \A e : OnTopic(e) => OnTopic(e)'
  BY <1>2 DEF ByName, TypeOK, OnTopic
<1>6. InLoop(d)' /\ InHand(d)' = InHand(d)
  BY <1>1, <1>2, <1>3, <1>4 DEF InLoop, InHand, ByName, OnTopic
<1> QED
  BY <1>2, <1>3, <1>4, <1>5, <1>6, LoopByName

\* MarkPublished and MarkFailed write the row in hand, or fail to.
LEMMA MarkByName ==
    ASSUME ByName, NEW d \in Dispatchers, NEW from \in {"mark_published", "mark_failed"},
           NEW to \in {"published", "failed"}, Mark(d, from, to)
    PROVE  ByName'
<1> DEFINE q == [disp[d] EXCEPT !.pc = "next", !.cur = None, !.writes = 0]
<1>1. disp[d] \in Local /\ disp[d].pc = from /\ disp[d].cur # None
  BY DEF Mark, ByName, TypeOK, InLoop
<1>2. disp[d].cur \in InHand(d) /\ disp[d].cur \in Events /\ disp[d].cur \notin disp[d].batch
  BY <1>1 DEF InHand, Local, ByName, InLoop
<1>3. q \in Local /\ q.pc = "next" /\ q.batch = disp[d].batch /\ q.cur = None /\ q.writes = 0
  BY <1>1 DEF Local
<1>4. /\ disp' = [disp EXCEPT ![d] = q] /\ disp'[d] = q
      /\ \A c \in Dispatchers \ {d} : disp'[c] = disp[c]
      /\ UNCHANGED <<stamps, topic>> /\ missed' = Done({disp[d].cur})
  BY DEF Mark, ByName, TypeOK
<1> HIDE DEF q
<1>5. /\ state' \in [Events -> {"none", "open", "rolled_back"} \cup States]
      /\ \A e \in Events \ {disp[d].cur} : state'[e] = state[e]
      /\ state'[disp[d].cur] \in {to, state[disp[d].cur]}
  BY <1>2 DEF Mark, ByName, TypeOK
<1>6. TypeOK'
  BY <1>3, <1>4, <1>5, DoneType DEF ByName, TypeOK
<1>7. InHand(d)' = InHand(d) \ {disp[d].cur} /\ Holds(d)' = disp[d].batch
  BY <1>1, <1>2, <1>3, <1>4 DEF InHand, Holds
<1>8. RightState(d)'
  <2>1. \A e \in disp[d].batch : state[e] = "publishing" /\ e \in Events \ {disp[d].cur}
    BY <1>1, <1>2 DEF ByName, RightState, Holds, InHand, Local
  <2> QED
    BY <1>3, <1>4, <1>5, <1>7, <2>1 DEF RightState
<1>9. InLoop(d)'
  <2>1. None \notin disp[d].batch
    BY <1>1 DEF Local
  <2> QED
    BY <1>3, <1>4, <2>1 DEF InLoop
<1>10. \A p \in missed : p \in missed' \/ p[2] \in InHand(d) \ InHand(d)'
  BY <1>2, <1>4, <1>7, DoneType
<1>11. \A e : OnTopic(e) => OnTopic(e)'
  BY <1>4 DEF OnTopic
<1> QED
  BY <1>1, <1>2, <1>4, <1>5, <1>6, <1>7, <1>8, <1>9, <1>10, <1>11, DispatcherByName

\* The invariant is inductive.
LEMMA NextByName == ByName /\ [Next]_vars => ByName'
<1> SUFFICES ASSUME ByName, [Next]_vars PROVE ByName'
  OBVIOUS
<1>1. CASE UNCHANGED vars
  <2> USE <1>1 DEF vars, ByName
  <2>1. TypeOK' /\ StampsInOrder'
    BY DEF TypeOK, StampsInOrder
  <2>2. HandsApart'
    BY DEF HandsApart, InHand
  <2>3. MissedIsKnown'
    BY DEF MissedIsKnown, InHand, Pending, Older
  <2>4. ASSUME NEW d \in Dispatchers PROVE RightState(d)' /\ InLoop(d)'
    BY DEF RightState, InLoop, Holds, InHand, Pending, OnTopic
  <2> QED
    BY <2>1, <2>2, <2>3, <2>4
<1>2. ASSUME NEW e \in Events, Record(e) \/ Commit(e) \/ Rollback(e) PROVE ByName'
  BY <1>2, RecorderByName
<1>3. ASSUME NEW d \in Dispatchers, ClaimFails(d) \/ Crash(d) PROVE ByName'
  BY <1>3, ReturnByName, ClaimHand DEF ClaimFails, Crash
<1>4. ASSUME NEW d \in Dispatchers, MarkPublished(d) \/ MarkFailed(d) PROVE ByName'
  BY <1>4, MarkByName DEF MarkPublished, MarkFailed
<1>5. ASSUME NEW d \in Dispatchers, Dispatch(d) PROVE ByName'
  BY <1>3, <1>4, <1>5, SelectByName, ClaimByName, NextEventByName, WriteByName, PublishReturnsByName
     DEF Dispatch
<1> QED
  BY <1>1, <1>2, <1>3, <1>5 DEF Next

\* It holds in every reachable state.
LEMMA ByNameAlways == Spec => []ByName
BY InitByName, NextByName, PTL DEF Spec

-----------------------------------------------------------------------------
(* The outbox *)

\* Dispatchers are kept apart, and what they have in hand, on the topic and in the
\* table fits together at each point of their loops.
THEOREM OutboxInvariant == Spec => []OutboxInv
<1>1. ByName => OutboxInv
  BY InvByName
<1> QED
  BY <1>1, ByNameAlways, PTL

\* How a step may change the row of an event, and who does it.
LEMMA RowSteps ==
    ASSUME ByName, [Next]_vars, NEW e \in Events, state'[e] # state[e]
    PROVE  \/ state[e] = "none" /\ state'[e] = "open"
           \/ state[e] = "open" /\ state'[e] \in {"pending", "rolled_back"}
           \/ state[e] = "pending" /\ state'[e] = "publishing"
           \/ state[e] = "publishing" /\ state'[e] = "failed"
           \/ state[e] = "publishing" /\ state'[e] = "published" /\ OnTopic(e)
<1> DEFINE Right == \/ state[e] = "none" /\ state'[e] = "open"
                    \/ state[e] = "open" /\ state'[e] \in {"pending", "rolled_back"}
                    \/ state[e] = "pending" /\ state'[e] = "publishing"
                    \/ state[e] = "publishing" /\ state'[e] = "failed"
                    \/ state[e] = "publishing" /\ state'[e] = "published" /\ OnTopic(e)
<1>1. ASSUME NEW f \in Events, Record(f) \/ Commit(f) \/ Rollback(f) PROVE Right
  BY <1>1 DEF Record, Commit, Rollback, ByName, TypeOK
<1>2. ASSUME NEW d \in Dispatchers, Claim(d) PROVE Right
  BY <1>2 DEF Claim, ByName, RightState, Pending
<1>3. ASSUME NEW d \in Dispatchers, MarkPublished(d) \/ MarkFailed(d) PROVE Right
  <2>1. e = disp[d].cur /\ disp[d].cur # None
        /\ (MarkPublished(d) => state'[e] = "published" /\ OnTopic(e))
        /\ (MarkFailed(d) => state'[e] = "failed")
    BY <1>3 DEF MarkPublished, MarkFailed, Mark, ByName, TypeOK, InLoop
  <2>2. state[e] = "publishing"
    BY <1>3, <2>1 DEF MarkPublished, MarkFailed, Mark, ByName, RightState, Holds, InHand
  <2> QED
    BY <1>3, <2>1, <2>2
<1>4. \/ \E f \in Events : Record(f) \/ Commit(f) \/ Rollback(f)
      \/ \E d \in Dispatchers : Claim(d) \/ MarkPublished(d) \/ MarkFailed(d)
  BY DEF vars, Next, Dispatch, Select, ClaimFails, NextEvent, Write, PublishReturns, Crash
<1> QED
  BY <1>1, <1>2, <1>3, <1>4

\* Only the producer of a dispatcher writes to the topic: the event in its hand.
LEMMA TopicSteps ==
    ASSUME ByName, [Next]_vars, topic' # topic
    PROVE  \E d \in Dispatchers : /\ topic' = Append(topic, disp[d].cur)
                                  /\ disp[d].cur \in InHand(d)
                                  /\ disp[d].pc = "publish"
<1>1. PICK d \in Dispatchers : Write(d)
  BY DEF vars, Next, Dispatch, Record, Commit, Rollback, Select, Claim, ClaimFails, NextEvent,
     PublishReturns, MarkPublished, MarkFailed, Mark, Crash
<1>2. disp[d].cur # None
  BY <1>1 DEF Write, ByName, InLoop
<1> QED
  BY <1>1, <1>2 DEF Write, InHand

\* A committed event stays so, and a message stays on the topic.
LEMMA CommittedStays ==
    ASSUME ByName, [Next]_vars, NEW e \in Events, Committed(e)
    PROVE  Committed(e)'
<1>1. CASE state'[e] = state[e]
  BY <1>1 DEF Committed
<1>2. CASE state'[e] # state[e]
  BY <1>2, RowSteps DEF Committed
<1> QED
  BY <1>1, <1>2

\* What a message appended to a sequence changes.
LEMMA AppendFacts ==
    ASSUME NEW S, NEW s \in Seq(S), NEW x \in S, NEW t, t = Append(s, x)
    PROVE  /\ t \in Seq(S) /\ Len(s) \in Nat /\ Len(t) = Len(s) + 1
           /\ DOMAIN s = 1..Len(s) /\ DOMAIN t = 1..(Len(s) + 1)
           /\ \A i \in 1..Len(s) : t[i] = s[i]
           /\ t[Len(s) + 1] = x
OBVIOUS

\* The topic holds only what was committed, and all that is marked published.
LEMMA TopicStep ==
    ASSUME ByName, TopicMatchesTable, [Next]_vars
    PROVE  TopicMatchesTable' /\ \A e : OnTopic(e) => OnTopic(e)'
<1>1. topic \in Seq(Events) /\ (\A i \in DOMAIN topic : topic[i] \in Events)
  BY DEF ByName, TypeOK
<1>2. ASSUME topic' = topic
      PROVE  (\A i \in DOMAIN topic' : Committed(topic[i])') /\ \A e : OnTopic(e) => OnTopic(e)'
  <2>1. ASSUME NEW i \in DOMAIN topic PROVE Committed(topic[i])'
    <3>1. PICK e \in Events : e = topic[i]
      BY <1>1
    <3>2. Committed(e)'
      BY <3>1, CommittedStays DEF TopicMatchesTable
    <3> QED
      BY <1>2, <3>1, <3>2 DEF Committed
  <2> QED
    BY <1>2, <2>1 DEF OnTopic
<1>3. ASSUME topic' # topic
      PROVE  (\A i \in DOMAIN topic' : Committed(topic[i])') /\ \A e : OnTopic(e) => OnTopic(e)'
  <2>1. PICK d \in Dispatchers : topic' = Append(topic, disp[d].cur) /\ disp[d].cur \in InHand(d)
    BY <1>3, TopicSteps
  <2>2. PICK c \in Events : c = disp[d].cur /\ state[c] \in {"pending", "publishing"}
    BY <2>1, InHandType
  <2>3. /\ Len(topic) \in Nat
        /\ DOMAIN topic = 1..Len(topic) /\ DOMAIN topic' = 1..(Len(topic) + 1)
        /\ \A i \in 1..Len(topic) : topic'[i] = topic[i]
        /\ topic'[Len(topic) + 1] = c
    BY <1>1, <2>1, <2>2, AppendFacts
  <2>4. Committed(c)'
    BY <2>2, CommittedStays DEF Committed
  <2>5. ASSUME NEW i \in 1..Len(topic) PROVE Committed(topic[i])'
    <3>1. PICK e \in Events : e = topic[i]
      BY <1>1, <2>3
    <3>2. Committed(e)'
      BY <2>3, <3>1, CommittedStays DEF TopicMatchesTable
    <3> QED
      BY <2>3, <3>1, <3>2 DEF Committed
  <2>6. ASSUME NEW i \in DOMAIN topic' PROVE Committed(topic[i])'
    <3>1. CASE i = Len(topic) + 1
      BY <2>3, <2>4, <3>1 DEF Committed
    <3>2. CASE i \in 1..Len(topic)
      BY <2>5, <3>2
    <3> QED
      BY <2>3, <2>6, <3>1, <3>2
  <2>7. ASSUME NEW e, OnTopic(e) PROVE OnTopic(e)'
    BY <2>3, <2>7 DEF OnTopic
  <2> QED
    BY <2>6, <2>7
<1>4. \A e : OnTopic(e) => OnTopic(e)'
  BY <1>2, <1>3
<1>5. ASSUME NEW e \in Events, state'[e] = "published" PROVE OnTopic(e)'
  <2>1. OnTopic(e)
    BY <1>5, RowSteps DEF TopicMatchesTable
  <2> QED
    BY <1>4, <2>1
<1>6. (\A i \in DOMAIN topic : Committed(topic[i]))'
  BY <1>2, <1>3
<1> QED
  BY <1>4, <1>5, <1>6 DEF TopicMatchesTable

\* A row marked published is on the topic, and only committed events are.
THEOREM TopicAlwaysMatches == Spec => []TopicMatchesTable
<1>1. Init => TopicMatchesTable
  BY DEF Init, TopicMatchesTable
<1>2. ByName /\ TopicMatchesTable /\ [Next]_vars => TopicMatchesTable'
  BY TopicStep
<1> QED
  BY <1>1, <1>2, ByNameAlways, PTL DEF Spec

\* The outcome of an event is recorded once.
THEOREM OutcomesAreFinal == Spec => OutcomeIsFinal
<1>1. ByName /\ [Next]_vars =>
        [\A e \in Events : state[e] \in {"published", "failed"} => state'[e] = state[e]]_vars
  BY RowSteps
<1> QED
  BY <1>1, ByNameAlways, PTL DEF Spec, OutcomeIsFinal

\* An event that is written while an older one waits had been selected without it.
THEOREM OvertakingIsExplained == Spec => OvertakesOnlyMissed
<1>1. ASSUME ByName, [Next]_vars, NEW e \in Events, NEW f \in Events,
             topic' = Append(topic, e), Older(f, e), state[f] = "pending"
      PROVE  <<f, e>> \in missed
  <2>1. topic \in Seq(Events)
    BY <1>1 DEF ByName, TypeOK
  <2>2. topic' # topic /\ topic'[Len(topic) + 1] = e
    BY <1>1, <2>1, AppendFacts
  <2>3. PICK d \in Dispatchers : /\ topic' = Append(topic, disp[d].cur)
                                 /\ disp[d].cur \in InHand(d)
                                 /\ disp[d].pc = "publish"
    BY <1>1, <2>2, TopicSteps
  <2>4. disp[d].cur \in Events
    BY <1>1, <2>3, InHandType
  <2>5. topic'[Len(topic) + 1] = disp[d].cur
    BY <2>1, <2>3, <2>4, AppendFacts
  <2> QED
    BY <1>1, <2>2, <2>3, <2>5 DEF ByName, MissedIsKnown, Pending
<1>2. ByName /\ [Next]_vars =>
        [\A e, f \in Events :
            topic' = Append(topic, e) /\ Older(f, e) /\ state[f] = "pending"
            => <<f, e>> \in missed]_vars
  BY <1>1
<1> QED
  BY <1>2, ByNameAlways, PTL DEF Spec, OvertakesOnlyMissed

\* What a step of dispatcher d does to the events that it has claimed.
LEMMA HoldsSteps ==
    ASSUME ByName, NEW d \in Dispatchers, Dispatch(d) \/ Crash(d)
    PROVE  /\ \A c \in Dispatchers \ {d} : Holds(c)' = Holds(c)
           /\ \A e \in Holds(d)' : e \in Holds(d) \/ state[e] = "pending"
           /\ \A e \in Holds(d) :
                 \/ e \in Holds(d)'
                 \/ e = disp[d].cur /\ disp[d].pc \in {"mark_published", "mark_failed"}
                 \/ Crash(d)
<1>1. disp \in [Dispatchers -> Local] /\ disp[d] \in Local /\ InLoop(d) /\ RightState(d)
  BY DEF ByName, TypeOK
<1>2. \A c \in Dispatchers \ {d} : disp'[c] = disp[c]
  BY <1>1 DEF Dispatch, Select, Claim, ClaimFails, NextEvent, Write, PublishReturns, MarkPublished,
     MarkFailed, Mark, Crash
<1>3. \A c \in Dispatchers \ {d} : Holds(c)' = Holds(c)
  BY <1>2 DEF Holds, InHand
<1>4. CASE Select(d)
  BY <1>1, <1>3, <1>4 DEF Select, Idle, Holds, InHand, InLoop
<1>5. CASE Claim(d) \/ ClaimFails(d)
  <2>1. disp[d].pc = "claim" /\ disp[d].cur = None /\ Holds(d) = {}
    BY <1>1, <1>5 DEF Claim, ClaimFails, InLoop, Holds
  <2>2. disp'[d] = Idle \/ disp'[d] = [disp[d] EXCEPT !.pc = "next"]
    BY <1>1, <1>5 DEF Claim, ClaimFails
  <2>3. Holds(d)' \subseteq disp[d].batch
    BY <1>1, <2>1, <2>2 DEF Holds, InHand, Idle, Local
  <2> QED
    BY <1>1, <1>3, <2>1, <2>3 DEF RightState, Pending
<1>6. CASE NextEvent(d)
  <2>1. disp[d].pc = "next" /\ disp[d].cur = None /\ Holds(d) = disp[d].batch
    BY <1>1, <1>6 DEF NextEvent, InLoop, Holds, InHand
  <2>2. Holds(d)' = Holds(d)
    BY <1>1, <1>6, <2>1 DEF NextEvent, Holds, InHand, Idle, Local
  <2> QED
    BY <1>3, <2>2
<1>7. CASE Write(d) \/ PublishReturns(d)
  <2>1. \/ disp'[d] = [disp[d] EXCEPT !.writes = @ + 1]
        \/ \E pc \in {"mark_published", "mark_failed"} : disp'[d] = [disp[d] EXCEPT !.pc = pc]
    BY <1>1, <1>7 DEF Write, PublishReturns
  <2>2. disp[d].pc # "claim" /\ disp'[d].pc # "claim"
    BY <1>1, <1>7, <2>1 DEF Write, PublishReturns, Local
  <2>3. disp'[d].batch = disp[d].batch /\ disp'[d].cur = disp[d].cur
    BY <1>1, <2>1 DEF Local
  <2>4. Holds(d)' = Holds(d)
    BY <2>2, <2>3 DEF Holds, InHand
  <2> QED
    BY <1>3, <2>4
<1>8. CASE MarkPublished(d) \/ MarkFailed(d)
  <2>1. disp[d].pc \in {"mark_published", "mark_failed"}
    BY <1>8 DEF MarkPublished, MarkFailed, Mark
  <2>2. disp'[d] = [disp[d] EXCEPT !.pc = "next", !.cur = None, !.writes = 0]
    BY <1>1, <1>8 DEF MarkPublished, MarkFailed, Mark
  <2>3. Holds(d) = InHand(d) /\ Holds(d)' = disp[d].batch
    BY <1>1, <2>1, <2>2 DEF Holds, InHand, Local
  <2> QED
    BY <1>3, <2>1, <2>3 DEF InHand
<1>9. CASE Crash(d)
  <2>1. Holds(d)' = {}
    BY <1>1, <1>9 DEF Crash, Holds, InHand, Idle
  <2> QED
    BY <1>3, <1>9, <2>1
<1> QED
  BY <1>4, <1>5, <1>6, <1>7, <1>8, <1>9 DEF Dispatch

\* A claimed event is left without an outcome only by a crash or a failed UPDATE of
\* its own row, and an event that was left is left for good.
THEOREM StrandingIsExplained == Spec => StrandedByFailureOnly
<1>1. ASSUME ByName, Next PROVE \/ \A d \in Dispatchers : Holds(d)' = Holds(d)
                                \/ \E d \in Dispatchers : Dispatch(d) \/ Crash(d)
  BY <1>1 DEF Next, Record, Commit, Rollback, Holds, InHand
<1>2. ASSUME ByName, Next, NEW d \in Dispatchers, NEW e \in Holds(d)
      PROVE  \/ e \in Holds(d)'
             \/ e = disp[d].cur /\ disp[d].pc \in {"mark_published", "mark_failed"}
             \/ Crash(d)
  BY <1>1, <1>2, HoldsSteps
<1>3. ASSUME ByName, Next, NEW e \in Events, Stranded(e)
      PROVE  Stranded(e)' /\ topic' # Append(topic, e)
  <2>1. state'[e] = "publishing"
    <3>1. ASSUME NEW d \in Dispatchers, MarkPublished(d) \/ MarkFailed(d), e = disp[d].cur PROVE FALSE
      BY <1>3, <3>1 DEF Stranded, Holds, InHand, MarkPublished, MarkFailed, Mark
    <3>2. ASSUME NEW d \in Dispatchers, MarkPublished(d) \/ MarkFailed(d) PROVE state'[e] = state[e]
      BY <1>3, <3>1, <3>2 DEF MarkPublished, MarkFailed, Mark, ByName, TypeOK
    <3>3. ASSUME NEW d \in Dispatchers, Claim(d) PROVE state'[e] = "publishing"
      BY <1>3, <3>3 DEF Claim, Stranded
    <3>4. ASSUME NEW f \in Events, Record(f) \/ Commit(f) \/ Rollback(f) PROVE state'[e] = state[e]
      BY <1>3, <3>4 DEF Record, Commit, Rollback, Stranded, ByName, TypeOK
    <3> QED
      BY <1>3, <3>2, <3>3, <3>4 DEF Stranded, Next, Dispatch, Select, ClaimFails, NextEvent, Write,
         PublishReturns, Crash
  <2>2. ASSUME NEW d \in Dispatchers PROVE e \notin Holds(d)'
    BY <1>1, <1>3, HoldsSteps DEF Stranded
  <2>3. ASSUME topic' = Append(topic, e) PROVE FALSE
    <3>1. topic \in Seq(Events)
      BY <1>3 DEF ByName, TypeOK
    <3>2. topic' # topic /\ topic'[Len(topic) + 1] = e
      BY <1>3, <2>3, <3>1, AppendFacts
    <3>3. PICK d \in Dispatchers : /\ topic' = Append(topic, disp[d].cur)
                                   /\ disp[d].cur \in InHand(d)
                                   /\ disp[d].pc = "publish"
      BY <1>3, <3>2, TopicSteps
    <3>4. disp[d].cur \in Events
      BY <1>3, <3>3, InHandType
    <3>5. topic'[Len(topic) + 1] = disp[d].cur
      BY <3>1, <3>3, <3>4, AppendFacts
    <3> QED
      BY <1>3, <3>2, <3>3, <3>5 DEF Stranded, Holds
  <2> QED
    BY <2>1, <2>2, <2>3 DEF Stranded
<1>4. ByName /\ [Next]_vars =>
        [/\ \A d \in Dispatchers : \A e \in Holds(d) :
               \/ e \in Holds(d)'
               \/ e = disp[d].cur /\ disp[d].pc \in {"mark_published", "mark_failed"}
               \/ Crash(d)
         /\ \A e \in Events : Stranded(e) => Stranded(e)' /\ topic' # Append(topic, e)]_vars
  BY <1>2, <1>3
<1> QED
  BY <1>4, ByNameAlways, PTL DEF Spec, StrandedByFailureOnly

-----------------------------------------------------------------------------
(* The pipeline *)

USE PartitionsAssumption DEF Deliver!NoMessage, Deliver!NoOffset

\* Every behaviour of the pipeline is one of the outbox.
LEMMA PipelineIsOutbox == PipelineSpec => Spec
<1>1. PipelineInit => Init
  BY DEF PipelineInit
<1>2. [PipelineNext]_allVars => [Next]_vars
  BY DEF PipelineNext, allVars, Handle, Take, TryProcessEvent, Apply, ApplyFails, GiveUp, Finished,
     MemberDies, PassOver
<1> QED
  BY <1>1, <1>2, PTL DEF PipelineSpec, Spec

\* The conjuncts of EffectsAreOwed and NothingSlipsThrough that a step has to keep:
\* what the handlers do, and what the group has behind it.
HandlerInv ==
    /\ PipelineTypeOK
    /\ LogMatchesTopic
    /\ ApplyIsExclusive
    /\ \A e \in Events : applied[e] = 1 => e \in processed
    /\ \A e \in processed : \E i \in DOMAIN log : log[i] = e
GroupInv ==
    /\ \A m \in Members : hand[m] # Deliver!NoMessage => Deliver!InOrder(hand[m])
    /\ committed # Deliver!NoOffset => Deliver!InOrder(committed + 1)
    /\ \A e \in processed : Accounted(e)
    /\ \A o \in finished \cup skipped : Accounted(log[o])

\* At first the partition is empty and nobody has anything in hand.
LEMMA PipelineInitInv == PipelineInit => HandlerInv /\ GroupInv
BY DEF PipelineInit, Init, Deliver!Init, HandlerInv, GroupInv, PipelineTypeOK, LogMatchesTopic,
       ApplyIsExclusive

\* What the members have in hand is in the partition.
LEMMA InHandOfMember ==
    ASSUME PipelineTypeOK, NEW m \in Members, hand[m] # Deliver!NoMessage
    PROVE  hand[m] \in 1..Len(log) /\ hand[m] \in DOMAIN log /\ EventOf(m) \in Events
BY DEF PipelineTypeOK, EventOf

\* A step of the outbox may store one more message at the end of the partition.
LEMMA StoredStep ==
    ASSUME ByName, TopicMatchesTable, PipelineTypeOK, [Next]_vars, Stored, partition' = partition
    PROVE  /\ log' \in Seq(Events)
           /\ DOMAIN log \subseteq DOMAIN log' /\ Len(log) <= Len(log')
           /\ \A i \in DOMAIN log : log'[i] = log[i]
           /\ LogMatchesTopic => LogMatchesTopic'
<1>1. log \in Seq(Events) /\ DOMAIN log = 1..Len(log) /\ Len(log) \in Nat
  BY DEF PipelineTypeOK
<1>2. topic \in Seq(Events)
  BY DEF ByName, TypeOK
<1>3. \A e : OnTopic(e) => OnTopic(e)'
  BY TopicStep
<1>4. CASE topic' = topic
  <2>1. log' = log
    BY <1>4 DEF Stored
  <2> QED
    BY <1>1, <1>4, <2>1 DEF LogMatchesTopic, OnTopic
<1>5. CASE topic' # topic
  <2>1. PICK d \in Dispatchers : topic' = Append(topic, disp[d].cur) /\ disp[d].cur \in InHand(d)
    BY <1>5, TopicSteps
  <2>2. PICK c \in Events : c = disp[d].cur
    BY <2>1, InHandType
  <2>3. /\ Len(topic) \in Nat /\ Len(topic') = Len(topic) + 1
        /\ DOMAIN topic = 1..Len(topic) /\ DOMAIN topic' = 1..(Len(topic) + 1)
        /\ \A i \in 1..Len(topic) : topic'[i] = topic[i]
        /\ topic'[Len(topic) + 1] = c
    BY <1>2, <2>1, <2>2, AppendFacts
  <2>4. OnTopic(c)'
    BY <2>3 DEF OnTopic
  <2>5. CASE c \notin partition
    <3>1. log' = log
      BY <2>3, <2>5 DEF Stored
    <3> QED
      BY <1>1, <1>3, <2>3, <2>5, <3>1 DEF LogMatchesTopic
  <2>6. CASE c \in partition
    <3>1. log' = Append(log, c)
      BY <1>5, <2>3, <2>6 DEF Stored
    <3>2. /\ log' \in Seq(Events) /\ DOMAIN log' = 1..(Len(log) + 1) /\ Len(log') = Len(log) + 1
          /\ \A i \in 1..Len(log) : log'[i] = log[i]
          /\ log'[Len(log) + 1] = c
      BY <1>1, <3>1, AppendFacts
    <3>3. ASSUME LogMatchesTopic PROVE LogMatchesTopic'
      <4>1. ASSUME NEW i \in DOMAIN log' PROVE (log[i] \in partition /\ OnTopic(log[i]))'
        <5>1. CASE i = Len(log) + 1
          BY <2>4, <2>6, <3>2, <5>1 DEF OnTopic
        <5>2. CASE i \in DOMAIN log
          BY <1>1, <1>3, <3>2, <3>3, <5>2 DEF LogMatchesTopic, OnTopic
        <5> QED
          BY <1>1, <3>2, <4>1, <5>1, <5>2
      <4>2. ASSUME NEW i \in DOMAIN topic', topic'[i] \in partition
            PROVE  \E j \in DOMAIN log' : log'[j] = topic'[i]
        <5>1. CASE i = Len(topic) + 1
          BY <1>1, <2>3, <3>2, <5>1
        <5>2. CASE i \in DOMAIN topic
          BY <1>1, <2>3, <3>2, <3>3, <4>2, <5>2 DEF LogMatchesTopic
        <5> QED
          BY <2>3, <4>2, <5>1, <5>2
      <4> QED
        BY <4>1, <4>2 DEF LogMatchesTopic
    <3> QED
      BY <1>1, <3>2, <3>3
  <2> QED
    BY <2>5, <2>6
<1> QED
  BY <1>4, <1>5

\* A step of the outbox keeps what the handlers and the group have.
LEMMA OutboxStep ==
    ASSUME ByName, TopicMatchesTable, HandlerInv, GroupInv, Next, Stored, partition' = partition,
           UNCHANGED <<groupVars, handlerVars>>
    PROVE  HandlerInv' /\ GroupInv'
<1> USE DEF groupVars, handlerVars
<1>1. /\ log' \in Seq(Events) /\ log \in Seq(Events)
      /\ DOMAIN log = 1..Len(log) /\ Len(log) \in Nat /\ Len(log') \in Nat
      /\ DOMAIN log \subseteq DOMAIN log' /\ Len(log) <= Len(log')
      /\ \A i \in DOMAIN log : log'[i] = log[i]
      /\ LogMatchesTopic'
  BY StoredStep DEF HandlerInv, PipelineTypeOK
<1>2. PipelineTypeOK'
  BY <1>1 DEF HandlerInv, PipelineTypeOK
<1>3. \A m \in Members : hand[m] # Deliver!NoMessage => EventOf(m)' = EventOf(m)
  BY <1>1, InHandOfMember DEF HandlerInv, EventOf
<1>4. ApplyIsExclusive'
  BY <1>3 DEF HandlerInv, ApplyIsExclusive
<1>5. ASSUME NEW e, Accounted(e) PROVE Accounted(e)'
  BY <1>3, <1>5 DEF Accounted, HandlerInv, ApplyIsExclusive
<1>6. HandlerInv'
  BY <1>1, <1>2, <1>4 DEF HandlerInv
<1>7. (\A o \in finished \cup skipped : Accounted(log[o]))'
  <2>1. ASSUME NEW o \in finished \cup skipped PROVE Accounted(log[o])'
    <3>1. o \in DOMAIN log /\ log'[o] = log[o]
      BY <1>1 DEF HandlerInv, PipelineTypeOK
    <3>2. PICK e : e = log[o]
      OBVIOUS
    <3>3. Accounted(e)'
      BY <1>5, <3>2 DEF GroupInv
    <3> QED
      BY <3>1, <3>2, <3>3 DEF Accounted
  <2> QED
    BY <2>1
<1>8. GroupInv'
  BY <1>5, <1>7 DEF GroupInv, Deliver!InOrder
<1> QED
  BY <1>6, <1>8

\* A step of member m: the partition and the other members stay, what is behind the
\* group only grows, by the message in hand, and so do the marks and what is
\* accounted for.
GroupMoves(m) ==
    /\ UNCHANGED <<vars, partition, log>>
    /\ \A n \in Members \ {m} : hand'[n] = hand[n]
    /\ hand'[m] \in {hand[m], Deliver!NoMessage} \/ Deliver!InOrder(hand'[m])
    /\ committed' = committed \/ (hand[m] \in finished /\ committed' = hand[m])
    /\ finished \subseteq finished' /\ skipped' = skipped
    /\ \A o \in finished' \ finished : o = hand[m]
MarksGrow(m) ==
    /\ \A e \in Events : applied'[e] = 1 => e \in processed'
    /\ \A e \in processed' : e \in processed \/ (hand[m] # Deliver!NoMessage /\ e = EventOf(m))
    /\ \A e \in processed' \ processed : Accounted(e)'
    /\ \A e \in Events : Accounted(e) => Accounted(e)'
    /\ \A e : finished' # finished /\ e = EventOf(m) => Accounted(e)'

LEMMA MemberStep ==
    ASSUME HandlerInv, GroupInv, NEW m \in Members, PipelineTypeOK', ApplyIsExclusive',
           GroupMoves(m), MarksGrow(m)
    PROVE  HandlerInv' /\ GroupInv'
<1> USE DEF vars, GroupMoves, MarksGrow
<1>1. LogMatchesTopic'
  BY DEF HandlerInv, LogMatchesTopic, OnTopic
<1>2. HandlerInv'
  BY <1>1, InHandOfMember DEF HandlerInv, EventOf
<1>3. ASSUME NEW o, Deliver!InOrder(o) PROVE Deliver!InOrder(o)'
  BY <1>3 DEF Deliver!InOrder
<1>4. ASSUME NEW n \in Members, hand'[n] # Deliver!NoMessage PROVE Deliver!InOrder(hand[n])'
  <2>1. PICK o : o = hand'[n]
    OBVIOUS
  <2>2. Deliver!InOrder(o)
    BY <1>4, <2>1 DEF GroupInv
  <2> QED
    BY <1>3, <2>1, <2>2 DEF Deliver!InOrder
<1>5. committed' # Deliver!NoOffset => Deliver!InOrder(committed + 1)'
  <2>1. PICK o : o = committed' + 1
    OBVIOUS
  <2>2. committed' # Deliver!NoOffset => Deliver!InOrder(o)
    <3>1. CASE committed' = committed
      BY <2>1, <3>1 DEF GroupInv
    <3>2. CASE hand[m] \in finished /\ committed' = hand[m]
      <4>1. hand[m] \in Nat \ {0}
        BY <3>2 DEF HandlerInv, PipelineTypeOK
      <4>2. Deliver!InOrder(hand[m])
        BY <4>1 DEF GroupInv
      <4> QED
        BY <2>1, <3>2, <4>1, <4>2 DEF Deliver!InOrder
    <3> QED
      BY <3>1, <3>2
  <2> QED
    BY <1>3, <2>1, <2>2 DEF Deliver!InOrder
<1>6. (\A e \in processed : Accounted(e))'
  BY DEF GroupInv, PipelineTypeOK
<1>7. ASSUME NEW o \in finished' \cup skipped' PROVE Accounted(log[o])'
  <2>1. PICK e \in Events : e = log[o]
    BY <1>7 DEF PipelineTypeOK
  <2>2. Accounted(e)'
    BY <1>7, <2>1 DEF GroupInv, EventOf
  <2> QED
    BY <2>1, <2>2 DEF Accounted
<1>8. GroupInv'
  BY <1>4, <1>5, <1>6, <1>7 DEF GroupInv
<1> QED
  BY <1>2, <1>8

\* The handlers on their way to the effect stay alone there when none joins them.
LEMMA ExclusiveStep ==
    ASSUME ApplyIsExclusive,
           \A n \in Members : stage'[n] = "apply" =>
               /\ stage[n] = "apply" /\ hand'[n] = hand[n] /\ EventOf(n)' = EventOf(n)
               /\ EventOf(n) \in processed' /\ applied'[EventOf(n)] = applied[EventOf(n)]
    PROVE  ApplyIsExclusive'
<1> SUFFICES ASSUME NEW n \in Members, stage'[n] = "apply"
             PROVE  /\ hand'[n] # Deliver!NoMessage
                    /\ EventOf(n)' \in processed'
                    /\ applied'[EventOf(n)'] = 0
                    /\ \A k \in Members \ {n} : stage'[k] = "apply" => EventOf(k)' # EventOf(n)'
  BY DEF ApplyIsExclusive
<1>1. /\ hand[n] # Deliver!NoMessage /\ applied[EventOf(n)] = 0
      /\ \A k \in Members \ {n} : stage[k] = "apply" => EventOf(k) # EventOf(n)
  BY DEF ApplyIsExclusive
<1> QED
  BY <1>1

\* A free member takes the message that is in order; nothing is applied.
LEMMA TakeStep ==
    ASSUME HandlerInv, GroupInv, NEW m \in Members, Take(m), partition' = partition
    PROVE  HandlerInv' /\ GroupInv'
<1> USE DEF handlerVars
<1>1. PICK o \in 1..Len(log) : Deliver!Take(m, o)
  BY DEF Take
<1>2. /\ hand[m] = Deliver!NoMessage /\ Deliver!InOrder(o) /\ hand' = [hand EXCEPT ![m] = o]
      /\ UNCHANGED <<vars, log, committed, finished, skipped, handlerVars>>
  BY <1>1 DEF Take, Deliver!Take
<1>3. PipelineTypeOK'
  BY <1>2 DEF HandlerInv, PipelineTypeOK
<1>4. hand'[m] = o /\ \A n \in Members \ {m} : hand'[n] = hand[n]
  BY <1>2 DEF HandlerInv, PipelineTypeOK
<1>5. stage[m] # "apply" /\ \A n \in Members : stage[n] = "apply" => EventOf(n)' = EventOf(n)
  BY <1>2, <1>4 DEF HandlerInv, ApplyIsExclusive, EventOf
<1>6. ApplyIsExclusive'
  <2>1. \A n \in Members : stage[n] = "apply" => n # m /\ hand'[n] = hand[n] /\ EventOf(n) \in processed
    BY <1>4, <1>5 DEF HandlerInv, ApplyIsExclusive
  <2> QED
    BY <1>2, <1>5, <2>1, ExclusiveStep DEF HandlerInv
<1>7. ASSUME NEW e, Accounted(e) PROVE Accounted(e)'
  BY <1>2, <1>5, <1>7 DEF Accounted
<1> QED
  <2>1. GroupMoves(m)
    BY <1>2, <1>4 DEF GroupMoves
  <2>2. MarksGrow(m)
    BY <1>2, <1>7 DEF HandlerInv, MarksGrow
  <2> QED
    BY <1>3, <1>6, <2>1, <2>2, MemberStep

\* A handler that is the first stores the mark and goes on to the effect; one that
\* is not finds the mark of an event that is accounted for.
LEMMA TryProcessEventStep ==
    ASSUME HandlerInv, GroupInv, NEW m \in Members, TryProcessEvent(m), partition' = partition
    PROVE  HandlerInv' /\ GroupInv'
<1> DEFINE e == EventOf(m)
<1>1. /\ hand[m] # Deliver!NoMessage /\ stage[m] = "call" /\ processed' = processed \cup {e}
      /\ UNCHANGED <<vars, log, committed, hand, skipped, applied>>
  BY DEF TryProcessEvent
<1>2. hand[m] \in 1..Len(log) /\ e \in Events
  BY <1>1, InHandOfMember DEF HandlerInv
<1>3. \A n \in Members : EventOf(n)' = EventOf(n)
  BY <1>1 DEF EventOf
<1>4. CASE e \notin processed /\ GoTo(m, "apply") /\ UNCHANGED <<finished, excused>>
  <2>1. stage'[m] = "apply" /\ \A n \in Members \ {m} : stage'[n] = stage[n]
    BY <1>4 DEF GoTo, HandlerInv, PipelineTypeOK
  <2>2. PipelineTypeOK'
    BY <1>1, <1>2, <1>4 DEF HandlerInv, PipelineTypeOK, GoTo
  <2>3. applied[e] = 0 /\ \A n \in Members \ {m} : stage[n] = "apply" => EventOf(n) # e
    BY <1>2, <1>4 DEF HandlerInv, PipelineTypeOK, ApplyIsExclusive
  <2>4. ApplyIsExclusive'
    <3>1. ASSUME NEW n \in Members, stage'[n] = "apply"
          PROVE  /\ hand'[n] # Deliver!NoMessage /\ EventOf(n)' \in processed' /\ applied'[EventOf(n)'] = 0
                 /\ \A k \in Members \ {n} : stage'[k] = "apply" => EventOf(k)' # EventOf(n)'
      <4>1. CASE n = m
        BY <1>1, <1>3, <2>1, <2>3, <4>1
      <4>2. CASE n # m
        <5>1. /\ hand[n] # Deliver!NoMessage /\ EventOf(n) \in processed /\ applied[EventOf(n)] = 0
              /\ \A k \in Members \ {n} : stage[k] = "apply" => EventOf(k) # EventOf(n)
          BY <2>1, <3>1, <4>2 DEF HandlerInv, ApplyIsExclusive
        <5>2. EventOf(m) # EventOf(n)
          BY <2>1, <2>3, <3>1, <4>2
        <5> QED
          BY <1>1, <1>3, <2>1, <4>2, <5>1, <5>2
      <4> QED
        BY <4>1, <4>2
    <3> QED
      BY <3>1 DEF ApplyIsExclusive
  <2>5. \A f : Accounted(f) => Accounted(f)'
    BY <1>1, <1>3, <1>4, <2>1 DEF Accounted
  <2>6. Accounted(e)'
    BY <1>3, <2>1 DEF Accounted
  <2> HIDE DEF e
  <2>7. \A f \in processed' \ processed : f = e
    BY <1>1
  <2>8. \A f \in processed' \ processed : Accounted(f)'
    BY <2>6, <2>7, <1>3 DEF Accounted, e
  <2> QED
    <3>1. GroupMoves(m)
      BY <1>1, <1>4 DEF GroupMoves
    <3>2. \A f \in Events : applied'[f] = 1 => f \in processed'
      BY <1>1 DEF HandlerInv
    <3>3. MarksGrow(m)
      BY <1>1, <1>4, <2>5, <2>7, <2>8, <3>2 DEF MarksGrow, e
    <3> QED
      BY <2>2, <2>4, <3>1, <3>3, MemberStep
<1>5. CASE e \in processed /\ finished' = finished \cup {hand[m]} /\ GoTo(m, "over") /\ excused' = excused
  <2>1. stage'[m] = "over" /\ \A n \in Members \ {m} : stage'[n] = stage[n]
    BY <1>5 DEF GoTo, HandlerInv, PipelineTypeOK
  <2>2. PipelineTypeOK'
    BY <1>1, <1>2, <1>5 DEF HandlerInv, PipelineTypeOK, GoTo
  <2>3. ApplyIsExclusive'
    <3>1. \A n \in Members : stage[n] = "apply" => EventOf(n) \in processed
      BY DEF HandlerInv, ApplyIsExclusive
    <3> QED
      BY <1>1, <1>3, <2>1, <3>1, ExclusiveStep DEF HandlerInv
  <2>4. ASSUME NEW f, Accounted(f) PROVE Accounted(f)'
    BY <1>1, <1>3, <1>5, <2>1, <2>4 DEF Accounted
  <2>5. Accounted(e) /\ processed' = processed
    <3>1. \A f \in processed : Accounted(f)
      BY DEF GroupInv
    <3> QED
      BY <1>1, <1>5, <3>1
  <2> QED
    <3>1. GroupMoves(m)
      BY <1>1, <1>5 DEF GroupMoves
    <3>2. \A f \in Events : applied'[f] = 1 => f \in processed'
      BY <1>1 DEF HandlerInv
    <3>3. \A f : f = EventOf(m) => Accounted(f)'
      BY <2>4, <2>5
    <3>4. MarksGrow(m)
      BY <2>4, <2>5, <3>2, <3>3 DEF MarksGrow
    <3> QED
      BY <2>2, <2>3, <3>1, <3>4, MemberStep
<1>6. CASE e \notin processed /\ excused' = excused \cup {e} /\ UNCHANGED <<stage, finished>>
  <2>1. PipelineTypeOK'
    BY <1>1, <1>2, <1>6 DEF HandlerInv, PipelineTypeOK
  <2>2. ApplyIsExclusive'
    <3>1. \A n \in Members : stage[n] = "apply" => EventOf(n) \in processed
      BY DEF HandlerInv, ApplyIsExclusive
    <3> QED
      BY <1>1, <1>3, <1>6, <3>1, ExclusiveStep DEF HandlerInv
  <2>3. \A f : Accounted(f) => Accounted(f)'
    BY <1>1, <1>3, <1>6 DEF Accounted
  <2>4. \A f \in processed' \ processed : f = e /\ Accounted(f)'
    BY <1>1, <1>6 DEF Accounted
  <2> QED
    <3>1. GroupMoves(m)
      BY <1>1, <1>6 DEF GroupMoves
    <3>2. \A f \in Events : applied'[f] = 1 => f \in processed'
      BY <1>1 DEF HandlerInv
    <3>3. MarksGrow(m)
      BY <1>1, <1>6, <2>3, <2>4, <3>2 DEF MarksGrow
    <3> QED
      BY <2>1, <2>2, <3>1, <3>3, MemberStep
<1> QED
  BY <1>4, <1>5, <1>6 DEF TryProcessEvent, TryMarkProcessed

\* The effect is applied by the one handler that stored the mark.
LEMMA ApplyStep ==
    ASSUME HandlerInv, GroupInv, NEW m \in Members, Apply(m), partition' = partition
    PROVE  HandlerInv' /\ GroupInv'
<1>1. /\ stage[m] = "apply" /\ hand[m] # Deliver!NoMessage
      /\ applied' = [applied EXCEPT ![EventOf(m)] = @ + 1]
      /\ UNCHANGED <<vars, log, committed, hand, skipped, processed, excused>>
  BY DEF Apply, HandlerInv, ApplyIsExclusive
<1>2. PICK e \in Events : e = EventOf(m) /\ hand[m] \in 1..Len(log)
  BY <1>1, InHandOfMember DEF HandlerInv
<1>3. applied[e] = 0 /\ e \in processed
  BY <1>1, <1>2 DEF HandlerInv, ApplyIsExclusive
<1>4. /\ applied' \in [Events -> 0..1] /\ applied'[e] = 1
      /\ \A f \in Events \ {e} : applied'[f] = applied[f]
  BY <1>1, <1>2, <1>3 DEF HandlerInv, PipelineTypeOK
<1>5. PICK where \in {"over", "call"} : GoTo(m, where) /\ finished' \in {finished, finished \cup {hand[m]}}
  BY DEF Apply
<1>6. /\ stage' \in [Members -> {"call", "apply", "over"}]
      /\ stage'[m] # "apply" /\ \A n \in Members \ {m} : stage'[n] = stage[n]
  BY <1>5 DEF GoTo, HandlerInv, PipelineTypeOK
<1>7. PipelineTypeOK'
  BY <1>1, <1>2, <1>4, <1>5, <1>6 DEF HandlerInv, PipelineTypeOK
<1>8. \A n \in Members : EventOf(n)' = EventOf(n)
  BY <1>1 DEF EventOf
<1>9. ASSUME NEW n \in Members, stage'[n] = "apply"
      PROVE  n # m /\ stage[n] = "apply" /\ EventOf(n) # e /\ EventOf(n) \in Events
  <2>1. n # m /\ stage[n] = "apply"
    BY <1>6, <1>9
  <2>2. EventOf(n) # e
    BY <1>1, <1>2, <2>1 DEF HandlerInv, ApplyIsExclusive
  <2>3. EventOf(n) \in Events
    BY <2>1, InHandOfMember DEF HandlerInv, ApplyIsExclusive
  <2> QED
    BY <2>1, <2>2, <2>3
<1>10. ApplyIsExclusive'
  <2>1. \A n \in Members : stage[n] = "apply" => EventOf(n) \in processed
    BY DEF HandlerInv, ApplyIsExclusive
  <2> QED
    BY <1>1, <1>4, <1>8, <1>9, <2>1, ExclusiveStep DEF HandlerInv
<1>11. ASSUME NEW f \in Events, Accounted(f) PROVE Accounted(f)'
  <2>1. CASE f = e
    BY <1>4, <2>1 DEF Accounted
  <2>2. CASE f # e /\ applied[f] = 1
    BY <1>4, <2>2 DEF Accounted
  <2>3. CASE f \in excused
    BY <1>1, <2>3 DEF Accounted
  <2>4. ASSUME f # e, NEW n \in Members, stage[n] = "apply", EventOf(n) = f PROVE Accounted(f)'
    BY <1>2, <1>6, <1>8, <2>4 DEF Accounted
  <2> QED
    BY <1>11, <2>1, <2>2, <2>3, <2>4 DEF Accounted
<1>12. Accounted(e)'
  BY <1>4 DEF Accounted
<1>13. \A f \in Events : applied'[f] = 1 => f \in processed'
  BY <1>1, <1>3, <1>4 DEF HandlerInv
<1>14. \A o \in finished' \ finished : o = hand[m]
  BY <1>5
<1>15. finished \subseteq finished'
  BY <1>5
<1> QED
  <2>1. GroupMoves(m)
    BY <1>1, <1>14, <1>15 DEF GroupMoves
  <2>2. MarksGrow(m)
    BY <1>1, <1>2, <1>11, <1>12, <1>13 DEF MarksGrow
  <2> QED
    BY <1>7, <1>10, <2>1, <2>2, MemberStep

\* A handler that does not get to the effect, and a loop that gives up, are excused.
LEMMA FailureStep ==
    ASSUME HandlerInv, GroupInv, NEW m \in Members, ApplyFails(m) \/ GiveUp(m), partition' = partition
    PROVE  HandlerInv' /\ GroupInv'
<1>1. /\ hand[m] # Deliver!NoMessage /\ excused' = excused \cup {EventOf(m)}
      /\ UNCHANGED <<vars, log, committed, hand, skipped, processed, applied>>
      /\ finished' \in {finished, finished \cup {hand[m]}}
  BY DEF ApplyFails, GiveUp, groupVars, Deliver!Finish, HandlerInv, ApplyIsExclusive
<1>2. PICK where \in {"over", "call"} : GoTo(m, where)
  BY DEF ApplyFails, GiveUp
<1>3. PICK e \in Events : e = EventOf(m) /\ hand[m] \in 1..Len(log)
  BY <1>1, InHandOfMember DEF HandlerInv
<1>4. /\ stage' \in [Members -> {"call", "apply", "over"}]
      /\ stage'[m] # "apply" /\ \A n \in Members \ {m} : stage'[n] = stage[n]
  BY <1>2 DEF GoTo, HandlerInv, PipelineTypeOK
<1>5. PipelineTypeOK'
  BY <1>1, <1>3, <1>4 DEF HandlerInv, PipelineTypeOK
<1>6. \A n \in Members : EventOf(n)' = EventOf(n)
  BY <1>1 DEF EventOf
<1>7. ApplyIsExclusive'
  <2>1. \A n \in Members : stage[n] = "apply" => EventOf(n) \in processed
    BY DEF HandlerInv, ApplyIsExclusive
  <2> QED
    BY <1>1, <1>4, <1>6, <2>1, ExclusiveStep DEF HandlerInv
<1>8. Accounted(e)'
  BY <1>1, <1>3 DEF Accounted
<1>9. ASSUME NEW f \in Events, Accounted(f) PROVE Accounted(f)'
  BY <1>1, <1>3, <1>4, <1>6, <1>9 DEF Accounted
<1>10. finished \subseteq finished' /\ \A o \in finished' \ finished : o = hand[m]
  BY <1>1
<1> QED
  <2>1. GroupMoves(m)
    BY <1>1, <1>10 DEF GroupMoves
  <2>2. \A f \in Events : applied'[f] = 1 => f \in processed'
    BY <1>1 DEF HandlerInv
  <2>3. MarksGrow(m)
    BY <1>1, <1>3, <1>8, <1>9, <2>2 DEF MarksGrow
  <2> QED
    BY <1>5, <1>7, <2>1, <2>3, MemberStep

\* A member is done with a message it has finished, or dies; one that dies on its
\* way to the effect is excused.
LEMMA DoneStep ==
    ASSUME HandlerInv, GroupInv, NEW m \in Members, Finished(m) \/ MemberDies(m), partition' = partition
    PROVE  HandlerInv' /\ GroupInv'
<1>1. /\ hand' = [hand EXCEPT ![m] = Deliver!NoMessage]
      /\ committed' = committed \/ (hand[m] \in finished /\ committed' = hand[m])
      /\ UNCHANGED <<vars, log, finished, skipped, processed, applied>>
      /\ GoTo(m, "call")
  BY DEF Finished, MemberDies, Deliver!Commit, Deliver!Drop
<1>2. /\ stage' \in [Members -> {"call", "apply", "over"}]
      /\ stage'[m] # "apply" /\ \A n \in Members \ {m} : stage'[n] = stage[n]
  BY <1>1 DEF GoTo, HandlerInv, PipelineTypeOK
<1>3. hand'[m] = Deliver!NoMessage /\ \A n \in Members \ {m} : hand'[n] = hand[n]
  BY <1>1 DEF HandlerInv, PipelineTypeOK
<1>4. excused \subseteq excused' /\ excused' \subseteq Events
      /\ (stage[m] = "apply" => EventOf(m) \in excused')
  <2>1. stage[m] = "apply" => EventOf(m) \in Events
    BY InHandOfMember DEF HandlerInv, ApplyIsExclusive
  <2>2. excused \subseteq Events
    BY DEF HandlerInv, PipelineTypeOK
  <2> QED
    BY <2>1, <2>2 DEF Finished, MemberDies
<1>5. PipelineTypeOK'
  BY <1>1, <1>2, <1>3, <1>4 DEF HandlerInv, PipelineTypeOK
<1>6. \A n \in Members \ {m} : EventOf(n)' = EventOf(n)
  BY <1>1, <1>3 DEF EventOf
<1>7. ApplyIsExclusive'
  <2>1. \A n \in Members : stage[n] = "apply" => EventOf(n) \in processed
    BY DEF HandlerInv, ApplyIsExclusive
  <2> QED
    BY <1>1, <1>2, <1>3, <1>6, <2>1, ExclusiveStep DEF HandlerInv
<1>8. ASSUME NEW f \in Events, Accounted(f) PROVE Accounted(f)'
  BY <1>1, <1>2, <1>4, <1>6, <1>8 DEF Accounted
<1> QED
  <2>1. GroupMoves(m)
    BY <1>1, <1>3 DEF GroupMoves
  <2>2. \A f \in Events : applied'[f] = 1 => f \in processed'
    BY <1>1 DEF HandlerInv
  <2>3. MarksGrow(m)
    BY <1>1, <1>8, <2>2 DEF MarksGrow
  <2> QED
    BY <1>5, <1>7, <2>1, <2>3, MemberStep

\* A group without an offset passes over what has been written so far.
LEMMA PassOverStep ==
    ASSUME HandlerInv, GroupInv, PassOver, partition' = partition
    PROVE  HandlerInv' /\ GroupInv'
<1>1. /\ UNCHANGED <<vars, log, committed, hand, finished, stage, processed, applied>>
      /\ committed = Deliver!NoOffset
      /\ skipped' = skipped \cup 1..Len(log)
      /\ excused' = excused \cup {log[o] : o \in 1..Len(log)}
  BY DEF PassOver, Deliver!Skip
<1>2. log \in Seq(Events) /\ \A o \in 1..Len(log) : log[o] \in Events
  BY DEF HandlerInv, PipelineTypeOK
<1>3. PipelineTypeOK'
  BY <1>1, <1>2 DEF HandlerInv, PipelineTypeOK
<1>4. LogMatchesTopic'
  BY <1>1 DEF vars, HandlerInv, LogMatchesTopic, OnTopic
<1>5. \A n \in Members : EventOf(n)' = EventOf(n)
  BY <1>1 DEF EventOf
<1>6. ApplyIsExclusive'
  BY <1>1, <1>5 DEF HandlerInv, ApplyIsExclusive
<1>7. HandlerInv'
  BY <1>1, <1>3, <1>4, <1>6 DEF HandlerInv
<1>8. ASSUME NEW f, Accounted(f) PROVE Accounted(f)'
  BY <1>1, <1>5, <1>8 DEF Accounted
<1>9. (\A o \in finished \cup skipped : Accounted(log[o]))'
  <2>1. ASSUME NEW o \in finished' \cup skipped' PROVE Accounted(log[o])'
    <3>1. o \in 1..Len(log)
      BY <1>1, <2>1 DEF HandlerInv, PipelineTypeOK
    <3> QED
      BY <1>1, <3>1 DEF Accounted
  <2> QED
    BY <2>1
<1>10. GroupInv'
  BY <1>1, <1>8, <1>9 DEF GroupInv, Deliver!InOrder
<1> QED
  BY <1>7, <1>10

\* The invariant of the pipeline is inductive, given that of the outbox.
LEMMA PipelineStep ==
    ASSUME ByName, TopicMatchesTable, HandlerInv, GroupInv, [PipelineNext]_allVars
    PROVE  HandlerInv' /\ GroupInv'
<1>1. CASE UNCHANGED allVars
  <2>1. UNCHANGED <<state, stamps, disp, topic, missed, partition, log, committed, hand, finished,
                    skipped, stage, processed, applied, excused>>
    BY <1>1 DEF allVars, vars, groupVars, handlerVars
  <2>2. PipelineTypeOK' /\ LogMatchesTopic'
    BY <2>1 DEF HandlerInv, PipelineTypeOK, LogMatchesTopic, OnTopic
  <2>3. ApplyIsExclusive'
    BY <2>1 DEF HandlerInv, ApplyIsExclusive, EventOf
  <2>4. \A e : Accounted(e)' <=> Accounted(e)
    BY <2>1 DEF Accounted, EventOf
  <2>5. HandlerInv'
    BY <2>1, <2>2, <2>3 DEF HandlerInv
  <2>6. GroupInv'
    BY <2>1, <2>4 DEF GroupInv, Deliver!InOrder, Accounted, EventOf
  <2> QED
    BY <2>5, <2>6
<1>2. CASE PipelineNext
  <2>1. partition' = partition
    BY <1>2 DEF PipelineNext
  <2>2. CASE Next /\ Stored /\ UNCHANGED <<groupVars, handlerVars>>
    BY <2>1, <2>2, OutboxStep
  <2>3. ASSUME NEW m \in Members, Handle(m) PROVE HandlerInv' /\ GroupInv'
    BY <2>1, <2>3, TakeStep, TryProcessEventStep, ApplyStep, FailureStep, DoneStep DEF Handle
  <2>4. CASE PassOver
    BY <2>1, <2>4, PassOverStep
  <2> QED
    BY <1>2, <2>2, <2>3, <2>4 DEF PipelineNext
<1> QED
  BY <1>1, <1>2

\* It holds in every reachable state.
LEMMA PipelineAlways == PipelineSpec => [](ByName /\ TopicMatchesTable /\ HandlerInv /\ GroupInv)
<1>1. PipelineInit => HandlerInv /\ GroupInv
  BY PipelineInitInv
<1>2. ByName /\ TopicMatchesTable /\ HandlerInv /\ GroupInv /\ [PipelineNext]_allVars
        => HandlerInv' /\ GroupInv'
  BY PipelineStep
<1>3. PipelineSpec => []ByName /\ []TopicMatchesTable
  BY PipelineIsOutbox, ByNameAlways, TopicAlwaysMatches, PTL
<1> QED
  BY <1>1, <1>2, <1>3, PTL DEF PipelineSpec

\* Whatever copies, redeliveries and members there are, an event has one effect at
\* most, and only when its transaction committed.
THEOREM EffectsAlwaysOwed == PipelineSpec => []EffectsAreOwed
<1>1. ASSUME TopicMatchesTable, HandlerInv, NEW e \in Events
      PROVE  applied[e] <= IF Committed(e) THEN 1 ELSE 0
  <2>1. applied[e] \in 0..1
    BY <1>1 DEF HandlerInv, PipelineTypeOK
  <2>2. CASE applied[e] = 1
    <3>1. PICK i \in DOMAIN log : log[i] = e
      BY <1>1, <2>2 DEF HandlerInv
    <3>2. OnTopic(e)
      BY <1>1, <3>1 DEF HandlerInv, LogMatchesTopic
    <3>3. Committed(e)
      BY <1>1, <3>2 DEF TopicMatchesTable, OnTopic
    <3> QED
      BY <2>2, <3>3
  <2> QED
    BY <2>1, <2>2
<1>2. TopicMatchesTable /\ HandlerInv => EffectsAreOwed
  BY <1>1 DEF HandlerInv, EffectsAreOwed
<1> QED
  BY <1>2, PipelineAlways, PTL

\* An event that is published and committed by the group has had its effect, is
\* about to, or was lost in one of the known ways.
THEOREM NothingEverSlipsThrough == PipelineSpec => []NothingSlipsThrough
<1>1. ASSUME TopicMatchesTable, HandlerInv, GroupInv, NEW e \in partition, state[e] = "published",
             \A i \in DOMAIN log : log[i] = e => i <= committed
      PROVE  Accounted(e)
  <2>1. OnTopic(e)
    BY <1>1 DEF TopicMatchesTable, HandlerInv, PipelineTypeOK
  <2>2. PICK j \in DOMAIN log : log[j] = e
    BY <1>1, <2>1 DEF OnTopic, HandlerInv, LogMatchesTopic
  <2>3. j \in 1..committed /\ committed # Deliver!NoOffset /\ committed \in Int
    BY <1>1, <2>2 DEF HandlerInv, PipelineTypeOK
  <2>4. j \in finished \cup skipped
    BY <1>1, <2>3 DEF GroupInv, Deliver!InOrder
  <2> QED
    BY <1>1, <2>2, <2>4 DEF GroupInv
<1>2. TopicMatchesTable /\ HandlerInv /\ GroupInv => NothingSlipsThrough
  BY <1>1 DEF GroupInv, NothingSlipsThrough
<1> QED
  BY <1>2, PipelineAlways, PTL

-----------------------------------------------------------------------------
(* The pipeline keeps the promise of the group *)

\* The producer appends an event to the partition, or writes elsewhere.
LEMMA StoredProduces ==
    ASSUME ByName, Next, Stored, UNCHANGED groupVars
    PROVE  UNCHANGED Deliver!vars \/ \E v \in Events : Deliver!Produce(v)
<1>1. CASE log' = log
  BY <1>1 DEF groupVars, Deliver!vars
<1>2. CASE log' # log
  <2>1. topic' # topic /\ log' = Append(log, topic'[Len(topic')])
    BY <1>2 DEF Stored
  <2>2. PICK d \in Dispatchers : topic' = Append(topic, disp[d].cur) /\ disp[d].cur \in InHand(d)
    BY <2>1, TopicSteps
  <2>3. PICK c \in Events : c = disp[d].cur
    BY <2>2, InHandType
  <2>4. topic'[Len(topic')] = c
    <3>1. topic \in Seq(Events)
      BY DEF ByName, TypeOK
    <3>2. Len(topic') = Len(topic) + 1 /\ topic'[Len(topic) + 1] = c
      BY <2>2, <2>3, <3>1, AppendFacts
    <3> QED
      BY <3>2
  <2> QED
    BY <2>1, <2>4 DEF groupVars, Deliver!Produce
<1> QED
  BY <1>1, <1>2

\* A member finishes what it has in hand.
LEMMA HandlerFinishes ==
    ASSUME HandlerInv, NEW m \in Members, TryProcessEvent(m) \/ Apply(m) \/ ApplyFails(m)
    PROVE  UNCHANGED Deliver!vars \/ Deliver!Finish(m)
<1>1. hand[m] # Deliver!NoMessage
  BY DEF TryProcessEvent, Apply, ApplyFails, HandlerInv, ApplyIsExclusive
<1>2. UNCHANGED <<log, committed, hand, skipped>>
  BY DEF TryProcessEvent, Apply, ApplyFails, groupVars
<1>3. finished' = finished \/ finished' = finished \cup {hand[m]}
  BY DEF TryProcessEvent, Apply, ApplyFails, groupVars
<1> QED
  BY <1>1, <1>2, <1>3 DEF Deliver!vars, Deliver!Finish

\* Every step of the pipeline is a step of the group, or none.
LEMMA DeliveryStep ==
    ByName /\ HandlerInv /\ [PipelineNext]_allVars => [Deliver!Next]_(Deliver!vars)
<1> SUFFICES ASSUME ByName, HandlerInv, [PipelineNext]_allVars PROVE [Deliver!Next]_(Deliver!vars)
  OBVIOUS
<1>1. CASE UNCHANGED allVars
  BY <1>1 DEF allVars, groupVars, Deliver!vars
<1>2. CASE Next /\ Stored /\ UNCHANGED <<groupVars, handlerVars>>
  BY <1>2, StoredProduces DEF Deliver!Next
<1>3. ASSUME NEW m \in Members, Handle(m) PROVE UNCHANGED Deliver!vars \/ Deliver!Deliver(m)
  <2>1. CASE Take(m) \/ GiveUp(m) \/ Finished(m) \/ MemberDies(m)
    BY <2>1 DEF Take, GiveUp, Finished, MemberDies, Deliver!Deliver
  <2>2. CASE TryProcessEvent(m) \/ Apply(m) \/ ApplyFails(m)
    BY <2>2, HandlerFinishes DEF Deliver!Deliver
  <2> QED
    BY <1>3, <2>1, <2>2 DEF Handle
<1>4. CASE PassOver
  BY <1>4 DEF PassOver, Deliver!Next
<1> QED
  BY <1>1, <1>2, <1>3, <1>4 DEF PipelineNext, Deliver!Next

\* The pipeline is the promised delivery of its partition: whatever the dispatchers
\* and the handlers do, messages are only appended, taken in order, finished by a
\* member that has them in hand and committed when they are finished.
THEOREM PipelineDelivers == PipelineSpec => Deliver!Spec
<1>1. PipelineInit => Deliver!Init
  BY DEF PipelineInit
<1> QED
  BY <1>1, DeliveryStep, PipelineAlways, PTL DEF PipelineSpec, Deliver!Spec
=============================================================================
