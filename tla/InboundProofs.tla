--------------------------- MODULE InboundProofs ----------------------------
(***************************************************************************)
(* Proofs about Inbound, for every set of keys, events and clocks and any  *)
(* number of faults: the type invariant, that nothing is lost, that the    *)
(* acknowledgements are true, that the store converges, that the cursor    *)
(* never regresses, and that the store implements LatestWins.              *)
(***************************************************************************)
EXTENDS Inbound, SequenceTheorems, TLAPS

(***************************************************************************)
(* Positions: they are in a strict total order with NoCursor below         *)
(* everything, so the cursor of src/cursor.ts can only move one way and    *)
(* two distinct events are never tied.                                     *)
(***************************************************************************)

\* An event that was just applied is not newer than itself: its redelivery is
\* recognised as a replay.
LEMMA NewerIrreflexive ==
    ASSUME NEW p \in Position
    PROVE  ~ IsStrictlyNewer(p, p)
  BY NoCursorAssumption DEF IsStrictlyNewer, Position

\* Moving the cursor twice moves it forward.
LEMMA NewerTransitive ==
    ASSUME NEW c \in Cursors, NEW p \in Position, NEW q \in Position,
           IsStrictlyNewer(c, p), IsStrictlyNewer(p, q)
    PROVE  IsStrictlyNewer(c, q)
  BY NoCursorAssumption DEF IsStrictlyNewer, Position, Cursors

\* Of two distinct positions exactly one is newer.
LEMMA NewerTotal ==
    ASSUME NEW p \in Position, NEW q \in Position, p # q
    PROVE  IsStrictlyNewer(p, q) <=> ~ IsStrictlyNewer(q, p)
  BY NoCursorAssumption DEF IsStrictlyNewer, Position

\* What a cursor has reached stays reached when the cursor moves forward.
LEMMA ReachedIsStable ==
    ASSUME NEW c \in Cursors, NEW d \in Position, NEW p \in Position,
           IsStrictlyNewer(c, d), Reached(c, p)
    PROVE  Reached(d, p)
  BY NoCursorAssumption DEF Reached, IsStrictlyNewer, Position, Cursors

\* A cursor has reached the position it was just moved to.
LEMMA ReachedItself ==
    ASSUME NEW p \in Position
    PROVE  Reached(p, p)
  BY NewerIrreflexive DEF Reached
-----------------------------------------------------------------------------
(***************************************************************************)
(* Queues                                                                  *)
(***************************************************************************)

\* The range of a queue of one message is that message.
LEMMA RangeSingleton ==
    ASSUME NEW S, NEW e \in S
    PROVE  Range(<<e>>) = {e}
  <1>1. <<e>> \in Seq(S) /\ Len(<<e>>) = 1
    OBVIOUS
  <1>2. Range(<<e>>) = {<<e>>[i] : i \in 1 .. 1}
    BY <1>1, RangeEquality
  <1>3. \A i \in 1 .. 1 : <<e>>[i] = e
    OBVIOUS
  <1>4. 1 \in 1 .. 1
    OBVIOUS
  <1> QED
    BY <1>2, <1>3, <1>4, Zenon

\* A non-empty queue holds its head and what follows it.
LEMMA RangeHeadTail ==
    ASSUME NEW S, NEW s \in Seq(S), s # <<>>
    PROVE  /\ Head(s) \in S
           /\ Tail(s) \in Seq(S)
           /\ Range(s) = {Head(s)} \cup Range(Tail(s))
  <1>1. Head(s) \in S /\ Tail(s) \in Seq(S)
    BY HeadTailProperties
  <1>2. s = <<Head(s)>> \o Tail(s)
    OBVIOUS
  <1>3. <<Head(s)>> \in Seq(S)
    BY <1>1
  <1>4. Range(<<Head(s)>>) = {Head(s)}
    BY <1>1, RangeSingleton
  <1>5. Range(<<Head(s)>> \o Tail(s)) = Range(<<Head(s)>>) \cup Range(Tail(s))
    BY <1>1, <1>3, RangeConcatenation
  <1> QED
    BY <1>1, <1>2, <1>4, <1>5

\* Putting a message back at the head adds exactly that message.
LEMMA RangePush ==
    ASSUME NEW S, NEW s \in Seq(S), NEW e \in S
    PROVE  /\ <<e>> \o s \in Seq(S)
           /\ <<e>> \o s # <<>>
           /\ Head(<<e>> \o s) = e
           /\ Range(<<e>> \o s) = {e} \cup Range(s)
  <1>1. <<e>> \in Seq(S)
    OBVIOUS
  <1>2. Range(<<e>>) = {e}
    BY RangeSingleton
  <1>3. <<e>> \o s \in Seq(S) /\ <<e>> \o s # <<>> /\ Head(<<e>> \o s) = e
    OBVIOUS
  <1>4. Range(<<e>> \o s) = Range(<<e>>) \cup Range(s)
    BY <1>1, RangeConcatenation
  <1> QED
    BY <1>2, <1>3, <1>4

\* A new message is appended behind the others.
LEMMA RangeAppend ==
    ASSUME NEW S, NEW s \in Seq(S), NEW e \in S
    PROVE  /\ Append(s, e) \in Seq(S)
           /\ Append(s, e) # <<>>
           /\ s # <<>> => Head(Append(s, e)) = Head(s)
           /\ s = <<>> => Head(Append(s, e)) = e
           /\ Range(Append(s, e)) = Range(s) \cup {e}
  <1>1. <<e>> \in Seq(S)
    OBVIOUS
  <1>2. Range(<<e>>) = {e}
    BY RangeSingleton
  <1>3. Append(s, e) = s \o <<e>>
    BY AppendIsConcat
  <1>4. Range(s \o <<e>>) = Range(s) \cup Range(<<e>>)
    BY <1>1, RangeConcatenation
  <1> QED
    BY <1>2, <1>3, <1>4, AppendProperties, HeadTailAppend
-----------------------------------------------------------------------------
\* Positions are made of the events' own fields.
LEMMA EventPosition ==
    ASSUME NEW e \in Event
    PROVE  /\ PositionOf(e) \in Position
           /\ PositionOf(e) # NoCursor
           /\ \A o \in Event :
                 PositionOf(o) = PositionOf(e) => o.eventId = e.eventId
  <1>1. e.ts \in Nat /\ e.eventId \in Nat
    BY InboundAssumption DEF Event
  <1>2. PositionOf(e) \in Position
    BY <1>1 DEF PositionOf, Position
  <1>3. ASSUME NEW o \in Event, PositionOf(o) = PositionOf(e)
        PROVE  o.eventId = e.eventId
    BY <1>3 DEF PositionOf
  <1> QED
    BY <1>2, <1>3, NoCursorAssumption
-----------------------------------------------------------------------------
(***************************************************************************)
(* The type invariant                                                      *)
(***************************************************************************)

LEMMA InitType == Init => TypeOK
  BY InboundAssumption DEF Init, TypeOK, Steps, Verdicts, Cursors, Credential

LEMMA NextType == TypeOK /\ [Next]_vars => TypeOK'
  <1> SUFFICES ASSUME TypeOK, [Next]_vars
               PROVE  TypeOK'
    OBVIOUS
  <1> USE InboundAssumption DEF TypeOK, Steps, Verdicts
  <1>1. CASE UNCHANGED vars
    BY <1>1 DEF vars
  <1>2. ASSUME NEW event \in Event, Publish(event)
        PROVE  TypeOK'
    BY <1>2, RangeAppend DEF Publish
  <1>3. CASE DropInvalid
    BY <1>3, RangeHeadTail DEF DropInvalid
  <1>4. CASE Deliver
    <2>1. Head(ready) \in Event /\ Tail(ready) \in Seq(Event)
      BY <1>4, RangeHeadTail DEF Deliver
    <2> QED
      BY <1>4, <2>1 DEF Deliver
  <1>5. CASE SkipStale
    BY <1>5 DEF SkipStale
  <1>6. CASE RejectUnserved
    BY <1>6 DEF RejectUnserved
  <1>7. CASE Accept
    BY <1>7 DEF Accept
  <1>8. CASE Apply
    <2>1. msg \in Event
      BY <1>8 DEF Apply
    <2>2. Effect(msg) \in Credential /\ PositionOf(msg) \in Cursors
      BY <2>1, EventPosition DEF Effect, Credential, Event, Cursors
    <2> QED
      BY <1>8, <2>1, <2>2 DEF Apply
  <1>9. CASE WriteCursor
    <2>1. msg \in Event
      BY <1>9 DEF WriteCursor
    <2>2. PositionOf(msg) \in Cursors
      BY <2>1, EventPosition DEF Cursors
    <2> QED
      BY <1>9, <2>1, <2>2 DEF WriteCursor
  <1>10. CASE PublishAck
    <2>1. PICK signed \in BOOLEAN :
            acks' = acks \cup {[eventId |-> msg.eventId, result |-> result,
                                signed |-> signed]}
      BY <1>10 DEF PublishAck
    <2>2. msg \in Event
      BY <1>10 DEF PublishAck
    <2>3. [eventId |-> msg.eventId, result |-> result, signed |-> signed] \in Ack
      BY <2>1, <2>2 DEF Ack, Event
    <2> QED
      BY <1>10, <2>1, <2>2, <2>3 DEF PublishAck
  <1>11. CASE Settle
    BY <1>11 DEF Settle
  <1>12. ASSUME Requeue
         PROVE  /\ ready' \in Seq(Event)
                /\ pc' = "idle" /\ msg' = NoEvent
    <2>1. msg \in Event
      BY <1>12 DEF Requeue
    <2> QED
      BY <1>12, <2>1, RangePush DEF Requeue
  <1>13. CASE HandlerFails
    BY <1>12, <1>13 DEF HandlerFails
  <1>14. CASE Crash
    BY <1>12, <1>14 DEF Crash
  <1> QED
    BY <1>1, <1>2, <1>3, <1>4, <1>5, <1>6, <1>7, <1>8, <1>9, <1>10, <1>11,
       <1>13, <1>14 DEF Next, Handle

\* The type invariant holds of every behaviour.
THEOREM TypeCorrect == Spec => []TypeOK
  BY InitType, NextType, PTL DEF Spec
-----------------------------------------------------------------------------
(***************************************************************************)
(* What each step does to the messages owed and to the one in turn         *)
(***************************************************************************)

LEMMA PublishFrame ==
    ASSUME TypeOK, NEW event \in Event, Publish(event)
    PROVE  /\ Held' = Held \cup {event}
           /\ Current # NoEvent => Current' = Current
  <1>1. ready \in Seq(Event) /\ ready' = Append(ready, event)
    BY DEF TypeOK, Publish
  <1>2. Range(ready') = Range(ready) \cup {event}
    BY <1>1, RangeAppend
  <1>3. ready' # <<>> /\ (ready # <<>> => Head(ready') = Head(ready))
    BY <1>1, RangeAppend
  <1> QED
    BY <1>2, <1>3 DEF Held, Current, Publish

LEMMA TakeFrame ==
    ASSUME TypeOK, pc = "idle", ready # <<>>, ready' = Tail(ready)
    PROVE  /\ Head(ready) \in Event
           /\ Current = Head(ready)
           /\ Held = {Head(ready)} \cup Range(ready')
  <1>1. Head(ready) \in Event /\ Range(ready) = {Head(ready)} \cup Range(ready')
    BY RangeHeadTail DEF TypeOK
  <1> QED
    BY <1>1 DEF Held, Current

LEMMA RequeueFrame ==
    ASSUME TypeOK, Requeue
    PROVE  /\ Held' = Held
           /\ Current' = Current
           /\ Current = msg
  <1>1. msg \in Event /\ ready \in Seq(Event)
    BY DEF TypeOK, Requeue
  <1>2. /\ ready' # <<>>
        /\ Head(ready') = msg
        /\ Range(ready') = {msg} \cup Range(ready)
    BY <1>1, RangePush DEF Requeue
  <1> QED
    BY <1>2 DEF Requeue, Held, Current

LEMMA StepFrame ==
    ASSUME pc # "idle", pc' # "idle", UNCHANGED <<ready, msg>>
    PROVE  Held' = Held /\ Current' = Current /\ Current = msg
  BY DEF Held, Current
-----------------------------------------------------------------------------
(***************************************************************************)
(* The inductive invariant                                                 *)
(***************************************************************************)

LEMMA InitInv == Init => IInv
  <1> SUFFICES ASSUME Init
               PROVE  IInv
    OBVIOUS
  <1>1. TypeOK
    BY InitType
  <1>2. Held = {}
    <2>1. <<>> \in Seq(Event) /\ Len(<<>>) = 0
      OBVIOUS
    <2>2. Range(<<>>) = {<<>>[i] : i \in 1 .. 0}
      BY <2>1, RangeEquality
    <2>3. \A i \in 1 .. 0 : FALSE
      OBVIOUS
    <2>4. Range(<<>>) = {}
      BY <2>2, <2>3, Zenon
    <2> QED
      BY <2>4 DEF Init, Held
  <1>3. UniqueIds /\ NothingInvented /\ NothingLost /\ AcksAreTrue
    BY <1>2 DEF Init, UniqueIds, NothingInvented, NothingLost, AcksAreTrue
  <1>4. CursorLagsByCurrent /\ StoreIsBacked /\ UnservedUntouched
    BY InboundAssumption
       DEF Init, CursorLagsByCurrent, StoreIsBacked, UnservedUntouched
  <1>5. HandlerKnows
    BY DEF Init, HandlerKnows
  <1> QED
    BY <1>1, <1>3, <1>4, <1>5 DEF IInv

\* A source publishes.
LEMMA PublishInv ==
    ASSUME IInv, TypeOK', NEW event \in Event, Publish(event)
    PROVE  IInv'
  <1> USE DEF Publish
  <1>1. Held' = Held \cup {event} /\ (Current # NoEvent => Current' = Current)
    BY PublishFrame DEF IInv
  <1>2. UniqueIds'
    BY DEF IInv, UniqueIds
  <1>3. NothingInvented'
    BY <1>1 DEF IInv, NothingInvented
  <1>4. NothingLost'
    BY <1>1 DEF IInv, NothingLost
  <1>5. AcksAreTrue'
    <2> SUFFICES ASSUME NEW ack \in acks, NEW e \in published',
                        e.eventId = ack.eventId
                 PROVE  IF ack.result = "applied"
                        THEN Reached(cursor[e.key], PositionOf(e))
                        ELSE e.key \notin Served
      BY DEF AcksAreTrue
    <2>1. e \in published
      BY DEF IInv, NothingInvented
    <2> QED
      BY <2>1 DEF IInv, AcksAreTrue
  <1>6. CursorLagsByCurrent'
    BY <1>1 DEF IInv, CursorLagsByCurrent
  <1>7. StoreIsBacked'
    <2>1. \A k : EventsFor(k) \subseteq EventsFor(k)'
      BY DEF EventsFor
    <2> QED
      BY <2>1 DEF IInv, StoreIsBacked
  <1>8. UnservedUntouched' /\ HandlerKnows'
    BY DEF IInv, UnservedUntouched, HandlerKnows
  <1> QED
    BY <1>2, <1>3, <1>4, <1>5, <1>6, <1>7, <1>8 DEF IInv

\* The broker is told to forget a message that is not a valid event.
LEMMA DropInvalidInv ==
    ASSUME IInv, TypeOK', DropInvalid
    PROVE  IInv'
  <1> USE DEF DropInvalid, Unusable
  <1>1. /\ Current = Head(ready)
        /\ Held = {Head(ready)} \cup Range(ready')
    BY TakeFrame DEF IInv
  <1>2. Held' = Range(ready')
    BY DEF Held
  <1>3. UniqueIds' /\ NothingInvented' /\ AcksAreTrue'
    BY <1>1, <1>2 DEF IInv, UniqueIds, NothingInvented, AcksAreTrue
  <1>4. NothingLost'
    BY <1>1, <1>2 DEF IInv, NothingLost
  <1>5. CursorLagsByCurrent'
    BY <1>1 DEF IInv, CursorLagsByCurrent
  <1>6. StoreIsBacked' /\ UnservedUntouched' /\ HandlerKnows'
    BY DEF IInv, StoreIsBacked, EventsFor, UnservedUntouched, HandlerKnows
  <1> QED
    BY <1>3, <1>4, <1>5, <1>6 DEF IInv

\* The handler takes the next event.
LEMMA DeliverInv ==
    ASSUME IInv, TypeOK', Deliver
    PROVE  IInv'
  <1> USE DEF Deliver
  <1>1. /\ Current = Head(ready)
        /\ Held = {Head(ready)} \cup Range(ready')
    BY TakeFrame DEF IInv
  <1>2. Held' = Held /\ Current' = Current
    BY <1>1 DEF Held, Current
  <1>3. UniqueIds' /\ NothingInvented' /\ AcksAreTrue' /\ NothingLost'
    BY <1>2 DEF IInv, UniqueIds, NothingInvented, AcksAreTrue, NothingLost
  <1>4. CursorLagsByCurrent'
    BY <1>2 DEF IInv, CursorLagsByCurrent
  <1>5. StoreIsBacked' /\ UnservedUntouched' /\ HandlerKnows'
    BY DEF IInv, StoreIsBacked, EventsFor, UnservedUntouched, HandlerKnows
  <1> QED
    BY <1>2, <1>3, <1>4, <1>5 DEF IInv

\* The three branches taken after the cursor was read.
LEMMA DecideInv ==
    ASSUME IInv, TypeOK', SkipStale \/ RejectUnserved \/ Accept
    PROVE  IInv'
  <1> USE DEF SkipStale, RejectUnserved, Accept, Fresh
  <1>1. Held' = Held /\ Current' = Current /\ Current = msg
    BY StepFrame
  <1>2. UniqueIds' /\ NothingInvented' /\ AcksAreTrue' /\ NothingLost'
    BY <1>1 DEF IInv, UniqueIds, NothingInvented, AcksAreTrue, NothingLost
  <1>3. msg \in Event /\ msg.key \in Keys /\ PositionOf(msg) \in Position
    BY EventPosition DEF IInv, TypeOK, Event
  <1>4. CursorLagsByCurrent'
    <2>1. CASE SkipStale
      <3>1. \A k \in Keys : installed[k] = cursor[k]
        BY <1>1, <2>1 DEF IInv, CursorLagsByCurrent
      <3> QED
        BY <2>1, <3>1 DEF CursorLagsByCurrent
    <2>2. CASE RejectUnserved
      <3>1. \A k \in Keys : installed[k] = cursor[k]
        BY <1>1, <2>2 DEF IInv, CursorLagsByCurrent, UnservedUntouched
      <3> QED
        BY <2>2, <3>1 DEF CursorLagsByCurrent
    <2>3. CASE Accept
      BY <1>1, <2>3 DEF IInv, CursorLagsByCurrent
    <2> QED
      BY <2>1, <2>2, <2>3
  <1>5. StoreIsBacked' /\ UnservedUntouched'
    BY DEF IInv, StoreIsBacked, EventsFor, UnservedUntouched
  <1>6. HandlerKnows'
    BY DEF IInv, HandlerKnows, Reached
  <1> QED
    BY <1>2, <1>4, <1>5, <1>6 DEF IInv

\* setSecretHash or delete: the store moves ahead of the cursor.
LEMMA ApplyInv ==
    ASSUME IInv, TypeOK', Apply
    PROVE  IInv'
  <1> USE DEF Apply
  <1>1. Held' = Held /\ Current' = Current /\ Current = msg
    BY StepFrame
  <1>2. UniqueIds' /\ NothingInvented' /\ AcksAreTrue' /\ NothingLost'
    BY <1>1 DEF IInv, UniqueIds, NothingInvented, AcksAreTrue, NothingLost
  <1>3. /\ msg \in Event /\ msg # NoEvent
        /\ msg.key \in Keys
        /\ PositionOf(msg) \in Position
    BY EventPosition DEF IInv, TypeOK, Event
  <1>4. /\ msg.form = "valid"
        /\ msg.key \in Served
        /\ IsStrictlyNewer(cursor[msg.key], PositionOf(msg))
    BY DEF IInv, HandlerKnows
  <1>5. /\ installed' = [installed EXCEPT ![msg.key] = PositionOf(msg)]
        /\ store' = [store EXCEPT ![msg.key] = Effect(msg)]
        /\ installed \in [Keys -> Cursors] /\ store \in [Keys -> Credential]
    BY DEF IInv, TypeOK
  <1>6. CursorLagsByCurrent'
    <2> SUFFICES ASSUME NEW k \in Keys, installed'[k] # cursor[k]
                 PROVE  /\ msg.key = k
                        /\ installed'[k] = PositionOf(msg)
                        /\ IsStrictlyNewer(cursor[k], installed'[k])
      BY <1>1, <1>3, <1>4 DEF CursorLagsByCurrent
    <2>1. CASE k = msg.key
      BY <1>3, <1>4, <1>5, <2>1
    <2>2. CASE k # msg.key
      BY <1>1, <1>5, <2>2 DEF IInv, CursorLagsByCurrent
    <2> QED
      BY <2>1, <2>2
  <1>7. StoreIsBacked'
    <2> SUFFICES ASSUME NEW k \in Keys
                 PROVE  \/ installed'[k] = NoCursor /\ store'[k] = "absent"
                        \/ \E e \in EventsFor(k) :
                              /\ installed'[k] = PositionOf(e)
                              /\ store'[k] = Effect(e)
      BY DEF StoreIsBacked, EventsFor
    <2>1. CASE k = msg.key
      <3>1. msg \in EventsFor(k)
        BY <1>4, <2>1 DEF IInv, NothingInvented, Held, EventsFor
      <3> QED
        BY <1>3, <1>5, <2>1, <3>1
    <2>2. CASE k # msg.key
      BY <1>5, <2>2 DEF IInv, StoreIsBacked
    <2> QED
      BY <2>1, <2>2
  <1>8. UnservedUntouched'
    BY <1>4, <1>5 DEF IInv, UnservedUntouched
  <1>9. HandlerKnows'
    BY <1>3, <1>4, <1>5 DEF IInv, HandlerKnows
  <1> QED
    BY <1>2, <1>6, <1>7, <1>8, <1>9 DEF IInv

\* The cursor catches up with the store, and passes nothing by.
LEMMA WriteCursorInv ==
    ASSUME IInv, TypeOK', WriteCursor
    PROVE  IInv'
  <1> USE DEF WriteCursor
  <1>1. Held' = Held /\ Current' = Current /\ Current = msg
    BY StepFrame
  <1>2. UniqueIds' /\ NothingInvented' /\ NothingLost'
    BY <1>1 DEF IInv, UniqueIds, NothingInvented, NothingLost
  <1>3. msg.key \in Keys /\ PositionOf(msg) \in Position
    BY EventPosition DEF IInv, TypeOK, Event
  <1>4. /\ msg.key \in Served
        /\ IsStrictlyNewer(cursor[msg.key], PositionOf(msg))
        /\ installed[msg.key] = PositionOf(msg)
    BY DEF IInv, HandlerKnows
  <1>5. /\ cursor' = [cursor EXCEPT ![msg.key] = PositionOf(msg)]
        /\ cursor \in [Keys -> Cursors]
    BY DEF IInv, TypeOK
  <1>6. AcksAreTrue'
    <2> SUFFICES ASSUME NEW ack \in acks, NEW e \in published,
                        e.eventId = ack.eventId, ack.result = "applied"
                 PROVE  Reached(cursor'[e.key], PositionOf(e))
      BY DEF IInv, AcksAreTrue
    <2>1. e.key \in Keys /\ PositionOf(e) \in Position
      BY EventPosition DEF IInv, TypeOK, Event
    <2>2. Reached(cursor[e.key], PositionOf(e))
      BY DEF IInv, AcksAreTrue
    <2>3. CASE e.key = msg.key
      BY <1>3, <1>4, <1>5, <2>1, <2>2, <2>3, ReachedIsStable
    <2>4. CASE e.key # msg.key
      BY <1>5, <2>2, <2>4
    <2> QED
      BY <2>3, <2>4
  <1>7. CursorLagsByCurrent'
    <2> SUFFICES ASSUME NEW k \in Keys
                 PROVE  installed[k] = cursor'[k]
      BY DEF CursorLagsByCurrent
    <2> QED
      BY <1>1, <1>3, <1>4, <1>5 DEF IInv, CursorLagsByCurrent
  <1>8. StoreIsBacked' /\ UnservedUntouched'
    BY <1>4, <1>5 DEF IInv, StoreIsBacked, EventsFor, UnservedUntouched
  <1>9. HandlerKnows'
    <2>1. Reached(cursor'[msg.key], PositionOf(msg))
      BY <1>3, <1>5, ReachedItself
    <2> QED
      BY <2>1 DEF IInv, HandlerKnows
  <1> QED
    BY <1>2, <1>6, <1>7, <1>8, <1>9 DEF IInv

\* The verdict is published.
LEMMA PublishAckInv ==
    ASSUME IInv, TypeOK', PublishAck
    PROVE  IInv'
  <1> USE DEF PublishAck
  <1>1. Held' = Held /\ Current' = Current /\ Current = msg
    BY StepFrame
  <1>2. msg \in Held /\ msg \in published
    BY DEF IInv, NothingInvented, Held
  <1>3. PICK signed \in BOOLEAN :
          acks' = acks \cup {[eventId |-> msg.eventId, result |-> result,
                              signed |-> signed]}
    BY InboundAssumption
  <1> DEFINE new == [eventId |-> msg.eventId, result |-> result,
                     signed |-> signed]
  <1>4. UniqueIds' /\ NothingInvented'
    BY <1>1, <1>2, <1>3 DEF IInv, UniqueIds, NothingInvented
  <1>5. NothingLost'
    BY <1>1, <1>3 DEF IInv, NothingLost
  <1>6. AcksAreTrue'
    <2> SUFFICES ASSUME NEW ack \in acks', NEW e \in published,
                        e.eventId = ack.eventId
                 PROVE  IF ack.result = "applied"
                        THEN Reached(cursor[e.key], PositionOf(e))
                        ELSE e.key \notin Served
      BY DEF AcksAreTrue
    <2>1. CASE ack \in acks
      BY <2>1 DEF IInv, AcksAreTrue
    <2>2. CASE ack = new
      <3>1. e = msg
        BY <1>2, <2>2 DEF IInv, UniqueIds
      <3> QED
        BY <2>2, <3>1 DEF IInv, HandlerKnows
    <2> QED
      BY <1>3, <2>1, <2>2
  <1>7. CursorLagsByCurrent'
    BY <1>1 DEF IInv, CursorLagsByCurrent
  <1>8. StoreIsBacked' /\ UnservedUntouched'
    BY DEF IInv, StoreIsBacked, EventsFor, UnservedUntouched
  <1>9. HandlerKnows'
    <2>1. new \in acks' /\ new.eventId = msg.eventId
      BY <1>3
    <2> QED
      BY <2>1 DEF IInv, HandlerKnows
  <1> QED
    BY <1>4, <1>5, <1>6, <1>7, <1>8, <1>9 DEF IInv

\* The broker is told to forget an event that was answered.
LEMMA SettleInv ==
    ASSUME IInv, TypeOK', Settle
    PROVE  IInv'
  <1> USE DEF Settle
  <1>1. Current = msg /\ Held = {msg} \cup Held'
    BY DEF Held, Current
  <1>2. UniqueIds' /\ NothingInvented' /\ AcksAreTrue'
    BY <1>1 DEF IInv, UniqueIds, NothingInvented, AcksAreTrue
  <1>3. NothingLost'
    BY <1>1 DEF IInv, NothingLost, HandlerKnows
  <1>4. CursorLagsByCurrent'
    BY DEF IInv, CursorLagsByCurrent
  <1>5. StoreIsBacked' /\ UnservedUntouched' /\ HandlerKnows'
    BY DEF IInv, StoreIsBacked, EventsFor, UnservedUntouched, HandlerKnows
  <1> QED
    BY <1>2, <1>3, <1>4, <1>5 DEF IInv

\* A fault puts the event back where it will be taken again first.
LEMMA FaultInv ==
    ASSUME IInv, TypeOK', HandlerFails \/ Crash
    PROVE  IInv'
  <1> USE DEF HandlerFails, Crash
  <1>1. Requeue /\ UNCHANGED <<cursor, store, acks, published, installed>>
    OBVIOUS
  <1>2. Held' = Held /\ Current' = Current /\ Current = msg
    BY <1>1, RequeueFrame DEF IInv
  <1>3. pc # "idle" /\ pc' = "idle"
    BY <1>1 DEF Requeue
  <1>4. UniqueIds' /\ NothingInvented' /\ AcksAreTrue' /\ NothingLost'
    BY <1>1, <1>2 DEF IInv, UniqueIds, NothingInvented, AcksAreTrue, NothingLost
  <1>5. CursorLagsByCurrent'
    BY <1>1, <1>2, <1>3 DEF IInv, CursorLagsByCurrent
  <1>6. StoreIsBacked' /\ UnservedUntouched' /\ HandlerKnows'
    BY <1>1, <1>3
       DEF IInv, StoreIsBacked, EventsFor, UnservedUntouched, HandlerKnows
  <1> QED
    BY <1>4, <1>5, <1>6 DEF IInv

LEMMA StutterInv ==
    ASSUME IInv, UNCHANGED vars
    PROVE  IInv'
  BY DEF vars, IInv, TypeOK, UniqueIds, NothingInvented, NothingLost,
         AcksAreTrue, CursorLagsByCurrent, StoreIsBacked, UnservedUntouched,
         HandlerKnows, Held, Current, EventsFor

LEMMA NextInv == IInv /\ [Next]_vars => IInv'
  <1> SUFFICES ASSUME IInv, [Next]_vars
               PROVE  IInv'
    OBVIOUS
  <1>1. TypeOK'
    BY NextType DEF IInv
  <1>2. CASE UNCHANGED vars
    BY <1>2, StutterInv
  <1>3. ASSUME NEW event \in Event, Publish(event)
        PROVE  IInv'
    BY <1>1, <1>3, PublishInv
  <1>4. CASE DropInvalid
    BY <1>1, <1>4, DropInvalidInv
  <1>5. CASE Deliver
    BY <1>1, <1>5, DeliverInv
  <1>6. CASE SkipStale \/ RejectUnserved \/ Accept
    BY <1>1, <1>6, DecideInv
  <1>7. CASE Apply
    BY <1>1, <1>7, ApplyInv
  <1>8. CASE WriteCursor
    BY <1>1, <1>8, WriteCursorInv
  <1>9. CASE PublishAck
    BY <1>1, <1>9, PublishAckInv
  <1>10. CASE Settle
    BY <1>1, <1>10, SettleInv
  <1>11. CASE HandlerFails \/ Crash
    BY <1>1, <1>11, FaultInv
  <1> QED
    BY <1>2, <1>3, <1>4, <1>5, <1>6, <1>7, <1>8, <1>9, <1>10, <1>11
       DEF Next, Handle

\* The strengthened invariant holds of every behaviour.
THEOREM InvariantHolds == Spec => []IInv
  BY InitInv, NextInv, PTL DEF Spec
-----------------------------------------------------------------------------
(***************************************************************************)
(* The properties                                                          *)
(***************************************************************************)

\* No fault makes a valid event vanish without a verdict (consume.ts:53-56
\* and the broker's requeue on a crash).
THEOREM NothingIsLost == Spec => []NothingLost
  <1>1. IInv => NothingLost
    BY DEF IInv
  <1> QED
    BY <1>1, InvariantHolds, PTL

\* Whatever was redelivered, the source is told the truth (consume.ts:68-95).
THEOREM AcknowledgementsAreTrue == Spec => []AcksAreTrue
  <1>1. IInv => AcksAreTrue
    BY DEF IInv
  <1> QED
    BY <1>1, InvariantHolds, PTL

\* 0 desync for the consumer: with nothing left to handle for a served key, the
\* store answers what the newest event of that key says.
THEOREM StoreConverges == Spec => []Converged
  <1>1. IInv => Converged
    <2> SUFFICES ASSUME IInv,
                        NEW k \in Served, EventsFor(k) \cap Held = {},
                        NEW e \in EventsFor(k),
                        \A o \in EventsFor(k) \ {e} :
                            IsStrictlyNewer(PositionOf(o), PositionOf(e))
                 PROVE  store[k] = Effect(e)
      BY DEF Converged
    <2>1. k \in Keys /\ e \in published /\ e.form = "valid" /\ e.key = k
      BY InboundAssumption DEF EventsFor
    <2>2. PICK ack \in acks : ack.eventId = e.eventId
      BY <2>1 DEF IInv, NothingLost
    <2>3. Reached(cursor[k], PositionOf(e))
      BY <2>1, <2>2 DEF IInv, AcksAreTrue
    <2>4. cursor[k] # NoCursor
      BY <2>3 DEF Reached, IsStrictlyNewer
    <2>5. installed[k] = cursor[k]
      <3> SUFFICES ASSUME installed[k] # cursor[k]
                   PROVE  FALSE
        OBVIOUS
      <3>1. Current # NoEvent /\ Current.form = "valid" /\ Current.key = k
        BY <2>1 DEF IInv, CursorLagsByCurrent
      <3>2. Current \in Held
        <4>1. CASE pc # "idle"
          BY <4>1 DEF Current, Held
        <4>2. CASE pc = "idle"
          <5>1. ready # <<>> /\ Current = Head(ready)
            BY <3>1, <4>2 DEF Current
          <5>2. Head(ready) \in Range(ready)
            BY <5>1, RangeHeadTail DEF IInv, TypeOK
          <5> QED
            BY <5>1, <5>2 DEF Held
        <4> QED
          BY <4>1, <4>2
      <3> QED
        BY <3>1, <3>2 DEF IInv, NothingInvented, EventsFor
    <2>6. PICK o \in EventsFor(k) :
            installed[k] = PositionOf(o) /\ store[k] = Effect(o)
      BY <2>1, <2>4, <2>5 DEF IInv, StoreIsBacked
    <2>7. o = e
      BY <2>3, <2>5, <2>6 DEF Reached
    <2> QED
      BY <2>6, <2>7
  <1> QED
    BY <1>1, InvariantHolds, PTL

\* Anti-regression of the durable cursor (cursor.ts:3-5).
THEOREM CursorIsMonotonic == Spec => CursorNeverRegresses
  <1> DEFINE Forward == \A k \in Keys :
                \/ cursor'[k] = cursor[k]
                \/ IsStrictlyNewer(cursor[k], cursor'[k])
  <1>1. IInv /\ [Next]_vars => [Forward]_vars
    <2> SUFFICES ASSUME IInv, Next
                 PROVE  Forward
      BY DEF vars
    <2>1. CASE WriteCursor
      <3>1. IsStrictlyNewer(cursor[msg.key], PositionOf(msg))
        BY <2>1 DEF IInv, HandlerKnows, WriteCursor
      <3>2. /\ cursor' = [cursor EXCEPT ![msg.key] = PositionOf(msg)]
            /\ cursor \in [Keys -> Cursors]
        BY <2>1 DEF WriteCursor, IInv, TypeOK
      <3> QED
        BY <3>1, <3>2
    <2>2. CASE UNCHANGED cursor
      BY <2>2
    <2> QED
      BY <2>1, <2>2
         DEF Next, Handle, Publish, DropInvalid, Deliver, SkipStale,
             RejectUnserved, Accept, Apply, PublishAck, Settle, HandlerFails,
             Crash
  <1> QED
    BY <1>1, InvariantHolds, PTL DEF Spec, CursorNeverRegresses

\* The store implements registers that are only overwritten by a newer event:
\* applying an event again after a fault between setSecretHash and writeCursor
\* changes nothing, and no other event can come in between.
THEOREM StoreRefinesLatestWins == Spec => StoreIsLatestWins
  <1>1. Init => Registers!LWInit
    BY InboundAssumption DEF Init, Registers!LWInit, Credential
  <1>2. IInv /\ [Next]_vars => [Registers!LWNext]_(Registers!registers)
    <2> SUFFICES ASSUME IInv, [Next]_vars
                 PROVE  [Registers!LWNext]_(Registers!registers)
      OBVIOUS
    <2>1. CASE Apply
      <3>1. /\ msg \in Event
            /\ msg.key \in Keys
            /\ PositionOf(msg) \in Position
        BY <2>1, EventPosition DEF IInv, TypeOK, Event, Apply
      <3>2. /\ installed' = [installed EXCEPT ![msg.key] = PositionOf(msg)]
            /\ store' = [store EXCEPT ![msg.key] = Effect(msg)]
            /\ installed \in [Keys -> Cursors]
            /\ store \in [Keys -> Credential]
        BY <2>1 DEF Apply, IInv, TypeOK
      <3>3. IsStrictlyNewer(cursor[msg.key], PositionOf(msg))
        BY <2>1 DEF Apply, IInv, HandlerKnows
      <3>4. CASE installed[msg.key] = cursor[msg.key]
        <4>1. Effect(msg) \in Credential
          BY <3>1 DEF Effect, Event, Credential
        <4>2. /\ installed'[msg.key] = PositionOf(msg)
              /\ store'[msg.key] = Effect(msg)
          BY <3>1, <3>2
        <4>3. Registers!IsStrictlyNewer(installed[msg.key], installed'[msg.key])
          BY <3>3, <3>4, <4>2 DEF IsStrictlyNewer, Registers!IsStrictlyNewer
        <4>4. installed'[msg.key] \in Registers!Position
          BY <3>1, <4>2 DEF Position, Registers!Position
        <4>5. Registers!LWInstall(msg.key)
          BY <3>2, <4>1, <4>2, <4>3, <4>4 DEF Registers!LWInstall
        <4> QED
          BY <3>1, <4>5 DEF Registers!LWNext
      <3>5. CASE installed[msg.key] # cursor[msg.key]
        <4>1. installed[msg.key] = PositionOf(msg)
          BY <2>1, <3>1, <3>5 DEF IInv, CursorLagsByCurrent, Apply, Current
        <4>2. PICK e \in EventsFor(msg.key) :
                PositionOf(msg) = PositionOf(e) /\ store[msg.key] = Effect(e)
          BY <3>1, <4>1, NoCursorAssumption DEF IInv, StoreIsBacked
        <4>3. msg \in published /\ e \in published
          BY <2>1, <4>2 DEF IInv, NothingInvented, Held, EventsFor, Apply
        <4>4. e = msg
          BY <4>2, <4>3 DEF IInv, UniqueIds, PositionOf
        <4>5. UNCHANGED <<store, installed>>
          BY <3>1, <3>2, <4>1, <4>2, <4>4
        <4> QED
          BY <4>5 DEF Registers!registers
      <3> QED
        BY <3>4, <3>5
    <2>2. CASE UNCHANGED <<store, installed>>
      BY <2>2 DEF Registers!registers
    <2> QED
      BY <2>1, <2>2
         DEF Next, Handle, Publish, DropInvalid, Deliver, SkipStale,
             RejectUnserved, Accept, WriteCursor, PublishAck, Settle,
             HandlerFails, Crash, vars
  <1> QED
    BY <1>1, <1>2, InvariantHolds, PTL
       DEF Spec, StoreIsLatestWins, Registers!LWSpec
=============================================================================
