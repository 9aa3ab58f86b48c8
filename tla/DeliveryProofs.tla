---------------------------- MODULE DeliveryProofs ---------------------------
(***************************************************************************)
(* Proofs about Delivery, for every number of events and faults: the type  *)
(* invariant, that every replacement of the channel adds at most one       *)
(* handler, that only the tag of another channel's handler loses a         *)
(* message, and that what was confirmed stands while handlers do not       *)
(* overlap.                                                                *)
(***************************************************************************)
EXTENDS Delivery, Integers, FiniteSetTheorems, TLAPS

-----------------------------------------------------------------------------
(***************************************************************************)
(* Sequences of the elements of a set                                      *)
(***************************************************************************)

\* SetToSeq lists a finite set: nothing else, and all of it.
LEMMA SetToSeqProperties ==
    ASSUME NEW S, IsFiniteSet(S)
    PROVE  SetToSeq(S) \in Seq(S) /\ ToSet(SetToSeq(S)) = S
  <1> DEFINE n == Cardinality(S)
             f == SetToSeq(S)
  <1>1. n \in Nat /\ ExistsBijection(1..n, S)
    BY FS_CardinalityType
  <1>2. f \in [1..n -> S] /\ IsInjective(f)
    BY <1>1 DEF SetToSeq, ExistsBijection, Bijection, Injection
  <1>3. f \in Injection(1..n, S)
    BY <1>2 DEF Injection
  <1>4. Cardinality(1..n) = n
    BY <1>1, FS_Interval
  <1>5. f \in Surjection(1..n, S)
    BY <1>3, <1>4, FS_Injection
  <1> HIDE DEF f, n
  <1>6. f \in Seq(S)
    BY <1>1, <1>2
  <1>7. ToSet(f) = S
    BY <1>2, <1>5 DEF ToSet, Surjection
  <1> QED
    BY <1>6, <1>7 DEF f

\* SetToSeqs are the orders of a finite set.
LEMMA SetToSeqsProperties ==
    ASSUME NEW S, IsFiniteSet(S), NEW f \in SetToSeqs(S)
    PROVE  f \in Seq(S) /\ ToSet(f) = S
  <1> DEFINE n == Cardinality(S)
  <1>1. n \in Nat
    BY FS_CardinalityType
  <1>2. f \in [1..n -> S] /\ IsInjective(f)
    BY DEF SetToSeqs, IsInjective
  <1>3. f \in Injection(1..n, S)
    BY <1>2 DEF Injection
  <1>4. Cardinality(1..n) = n
    BY <1>1, FS_Interval
  <1>5. f \in Surjection(1..n, S)
    BY <1>3, <1>4, FS_Injection
  <1> HIDE DEF n
  <1> QED
    BY <1>1, <1>2, <1>5 DEF ToSet, Surjection

\* What is appended is added.
LEMMA ToSetConcat ==
    ASSUME NEW S, NEW s \in Seq(S), NEW t \in Seq(S)
    PROVE  s \o t \in Seq(S) /\ ToSet(s \o t) = ToSet(s) \cup ToSet(t)
  <1>1. \A i \in DOMAIN s : i \in DOMAIN (s \o t) /\ (s \o t)[i] = s[i]
    OBVIOUS
  <1>2. \A j \in DOMAIN t : Len(s) + j \in DOMAIN (s \o t)
                            /\ (s \o t)[Len(s) + j] = t[j]
    OBVIOUS
  <1>3. ASSUME NEW k \in DOMAIN (s \o t)
        PROVE  \/ k \in DOMAIN s /\ (s \o t)[k] = s[k]
               \/ k - Len(s) \in DOMAIN t /\ (s \o t)[k] = t[k - Len(s)]
    OBVIOUS
  <1>4. ToSet(s) \subseteq ToSet(s \o t)
    BY <1>1 DEF ToSet
  <1>5. ToSet(t) \subseteq ToSet(s \o t)
    BY <1>2 DEF ToSet
  <1>6. ToSet(s \o t) \subseteq ToSet(s) \cup ToSet(t)
    BY <1>3 DEF ToSet
  <1> QED
    BY <1>4, <1>5, <1>6

\* A queue is its head and what is behind it.
LEMMA ToSetHeadTail ==
    ASSUME NEW S, NEW s \in Seq(S), s # <<>>
    PROVE  /\ Head(s) \in S /\ Tail(s) \in Seq(S)
           /\ ToSet(s) = {Head(s)} \cup ToSet(Tail(s))
  <1>1. Head(s) = s[1] /\ 1 \in DOMAIN s
    OBVIOUS
  <1>2. \A i \in DOMAIN Tail(s) : i + 1 \in DOMAIN s /\ Tail(s)[i] = s[i + 1]
    OBVIOUS
  <1>3. \A k \in DOMAIN s : k = 1 \/ (k - 1 \in DOMAIN Tail(s)
                                      /\ s[k] = Tail(s)[k - 1])
    OBVIOUS
  <1>4. ToSet(Tail(s)) \subseteq ToSet(s)
    BY <1>2 DEF ToSet
  <1>5. ToSet(s) \subseteq {Head(s)} \cup ToSet(Tail(s))
    BY <1>1, <1>3 DEF ToSet
  <1>6. Head(s) \in ToSet(s)
    BY <1>1 DEF ToSet
  <1> QED
    BY <1>4, <1>5, <1>6
-----------------------------------------------------------------------------
\* The events of deliveries, put back at the head of the queue: they are in it
\* again, with what it had.
LEMMA PutBack ==
    ASSUME TypeOK, IsFiniteSet(unacked), NEW D \in SUBSET unacked
    PROVE  LET back == SetToSeq({d.event : d \in D}) \o queue
           IN  /\ back \in Seq(Events)
               /\ ToSet(back) = {d.event : d \in D} \cup ToSet(queue)
  <1> DEFINE E == {d.event : d \in D}
             f == [d \in D |-> d.event]
  <1>1. IsFiniteSet(D)
    BY FS_Subset
  <1>2. f \in Surjection(D, E)
    BY DEF Surjection
  <1>3. IsFiniteSet(E)
    BY <1>1, <1>2, FS_Surjection
  <1>4. E \subseteq Events
    BY DEF TypeOK
  <1> HIDE DEF E
  <1>5. SetToSeq(E) \in Seq(E) /\ ToSet(SetToSeq(E)) = E
    BY <1>3, SetToSeqProperties
  <1>6. SetToSeq(E) \in Seq(Events)
    BY <1>4, <1>5
  <1>7. queue \in Seq(Events)
    BY DEF TypeOK
  <1>8. /\ SetToSeq(E) \o queue \in Seq(Events)
        /\ ToSet(SetToSeq(E) \o queue) = ToSet(SetToSeq(E)) \cup ToSet(queue)
    BY <1>6, <1>7, ToSetConcat
  <1> QED
    BY <1>5, <1>8 DEF E

\* Closing the channel keeps every message that was in the queue or
\* outstanding.
LEMMA ReturnedProperties ==
    ASSUME IInv
    PROVE  /\ Returned \in Seq(Events)
           /\ \A e \in Events : Unsettled(e) <=> e \in ToSet(Returned)
  <1>1. TypeOK /\ IsFiniteSet(unacked)
    BY DEF IInv, RoomForOne
  <1>2. /\ Returned \in Seq(Events)
        /\ ToSet(Returned) = {d.event : d \in unacked} \cup ToSet(queue)
    BY <1>1, PutBack DEF Returned
  <1> QED
    BY <1>2 DEF Unsettled

\* Where a handler can be.
Stages == {"readCursor", "apply", "writeCursor", "answer", "ack", "nack"}

\* Events are numbers, 0 is none of them, and a fault is counted within its
\* bound.
LEMMA EventsAreNumbers == Events \subseteq Nat \ {0}
  BY DeliveryAssumption DEF Events

\* Cursor, store and the events of handlers are numbers, and compared as such.
LEMMA PositionTypes ==
    ASSUME TypeOK
    PROVE  /\ cursor \in Nat /\ store \in Nat /\ answered \subseteq Nat
           /\ \A h \in handlers : h.event \in Nat
  <1>1. handlers \subseteq [no : Nat \ {0}, tag : Nat \ {0}, event : Events,
                            at : Stages]
    BY DEF TypeOK, Stages
  <1>2. \A h \in handlers : h.event \in Events
    BY <1>1
  <1>3. cursor \in Events \cup {0} /\ store \in Events \cup {0}
    BY DEF TypeOK
  <1>4. answered \subseteq Events
    BY DEF TypeOK
  <1>5. \A e \in Events : e \in Nat
    BY EventsAreNumbers
  <1> QED
    BY <1>2, <1>3, <1>4, <1>5, SMT

\* A fault stays within the bound.
LEMMA FaultType ==
    ASSUME TypeOK, Fault
    PROVE  faults' \in 0..MaxFaults
  BY DeliveryAssumption DEF TypeOK, Fault
-----------------------------------------------------------------------------
(***************************************************************************)
(* What the actions do to the handlers                                     *)
(***************************************************************************)

\* A handler that goes on is still the same call, on the same channel and with
\* the same tag: nothing changes for the tags and the room.
LEMMA MoveProperties ==
    ASSUME IInv, NEW h \in handlers, NEW at \in Stages, Move(h, at),
           UNCHANGED broker
    PROVE  LET moved == [h EXCEPT !.at = at]
           IN  /\ moved \in [no : Nat \ {0}, tag : Nat \ {0}, event : Events,
                             at : Stages]
               /\ moved.at = at /\ moved.event = h.event
               /\ handlers' = (handlers \ {h}) \cup {moved}
               /\ handlers' \subseteq [no : Nat \ {0}, tag : Nat \ {0},
                                       event : Events, at : Stages]
               /\ ChannelsInOrder'
               /\ TagsMeanEvents'
               /\ RoomForOne'
               /\ OneAtATime => handlers' = {moved}
  <1> DEFINE moved == [h EXCEPT !.at = at]
  <1> USE DEF broker
  <1>1. /\ handlers \subseteq [no : Nat \ {0}, tag : Nat \ {0},
                               event : Events, at : Stages]
        /\ channel.no \in Nat
    BY DEF IInv, TypeOK, Stages
  <1>2. /\ moved \in [no : Nat \ {0}, tag : Nat \ {0}, event : Events,
                      at : Stages]
        /\ moved.at = at /\ moved.event = h.event
        /\ moved.no = h.no /\ moved.tag = h.tag
    BY <1>1
  <1>3. handlers' = (handlers \ {h}) \cup {moved}
    BY DEF Move
  <1> HIDE DEF moved
  <1>4. ChannelsInOrder'
    BY <1>2, <1>3 DEF IInv, ChannelsInOrder
  <1>5. TagsMeanEvents'
    BY <1>2, <1>3 DEF IInv, TagsMeanEvents
  <1>6. RoomForOne'
    <2>1. IsFiniteSet(handlers) /\ Cardinality(handlers) \in Nat
      BY FS_CardinalityType DEF IInv, RoomForOne
    <2>2. /\ IsFiniteSet(handlers \ {h})
          /\ Cardinality(handlers \ {h}) = Cardinality(handlers) - 1
      BY <2>1, FS_RemoveElement
    <2> DEFINE others == handlers \ {h}
    <2>3. /\ IsFiniteSet(others \cup {moved})
          /\ Cardinality(others \cup {moved}) =
                IF moved \in others THEN Cardinality(others)
                ELSE Cardinality(others) + 1
      BY <2>2, FS_AddElement
    <2>4. /\ IsFiniteSet(handlers')
          /\ Cardinality(handlers') <= Cardinality(handlers)
      BY <1>3, <2>1, <2>2, <2>3
    <2>5. Cardinality(handlers') \in Nat
      BY <2>4, FS_CardinalityType
    <2> QED
      BY <1>1, <2>1, <2>4, <2>5 DEF IInv, RoomForOne
  <1>7. OneAtATime => handlers' = {moved}
    BY <1>3 DEF OneAtATime
  <1> QED
    BY <1>1, <1>2, <1>3, <1>4, <1>5, <1>6, <1>7 DEF moved

\* What one handler fewer leaves.
LEMMA RemoveProperties ==
    ASSUME IInv, NEW h \in handlers, handlers' = handlers \ {h}
    PROVE  /\ IsFiniteSet(handlers') /\ Cardinality(handlers') \in Nat
           /\ Cardinality(handlers') <= channel.no - 1
  <1>1. IsFiniteSet(handlers) /\ Cardinality(handlers) \in Nat
    BY FS_CardinalityType DEF IInv, RoomForOne
  <1>2. /\ IsFiniteSet(handlers')
        /\ Cardinality(handlers') = Cardinality(handlers) - 1
    BY <1>1, FS_RemoveElement
  <1>3. Cardinality(handlers') \in Nat
    BY <1>2, FS_CardinalityType
  <1>4. channel.no \in Nat
    BY DEF IInv, TypeOK
  <1> QED
    BY <1>1, <1>2, <1>3, <1>4 DEF IInv, RoomForOne

\* A channel that closes under its handlers.
LEMMA CloseInv ==
    ASSUME IInv, CloseChannel, handlers' \subseteq handlers,
           UNCHANGED <<effects, history>>, faults' \in 0..MaxFaults
    PROVE  IInv'
  <1> USE DEF CloseChannel, Closed, effects, history
  <1>1. Returned \in Seq(Events)
        /\ \A e \in Events : Unsettled(e) <=> e \in ToSet(Returned)
    BY ReturnedProperties
  <1>2. /\ channel' = [no |-> channel.no, open |-> FALSE,
                       nextTag |-> channel.nextTag]
        /\ channel.no \in Nat
    BY DEF IInv, TypeOK
  <1>3. TypeOK'
    BY <1>1, <1>2 DEF IInv, TypeOK
  <1>4. ChannelsInOrder'
    BY <1>2 DEF IInv, ChannelsInOrder
  <1>5. TagsMeanEvents'
    BY <1>2 DEF IInv, TagsMeanEvents
  <1>6. AckedIsAnswered'
    BY DEF IInv, AckedIsAnswered
  <1>7. RoomForOne'
    <2>1. IsFiniteSet(handlers) /\ Cardinality(handlers) \in Nat
      BY FS_CardinalityType DEF IInv, RoomForOne
    <2>2. /\ IsFiniteSet(handlers')
          /\ Cardinality(handlers') <= Cardinality(handlers)
      BY <2>1, FS_Subset
    <2>3. Cardinality(handlers') \in Nat
      BY <2>2, FS_CardinalityType
    <2>4. Cardinality(handlers) <= channel.no
      BY <1>2, <2>1 DEF IInv, RoomForOne
    <2> QED
      BY <1>2, <2>1, <2>2, <2>3, <2>4, FS_EmptySet DEF RoomForOne
  <1>8. LostOnlyToStrays'
    BY <1>1 DEF IInv, LostOnlyToStrays, Unsettled
  <1>9. (~ overlapped => OneAtATime)'
    BY DEF IInv, OneAtATime
  <1> QED
    BY <1>3, <1>4, <1>5, <1>6, <1>7, <1>8, <1>9 DEF IInv

\* The process dies and comes back without channels and handlers.
LEMMA DieInv ==
    ASSUME IInv, Die, UNCHANGED <<effects, history>>, faults' \in 0..MaxFaults
    PROVE  IInv'
  <1> USE DEF Die, NoChannel, effects, history
  <1>1. Returned \in Seq(Events)
        /\ \A e \in Events : Unsettled(e) <=> e \in ToSet(Returned)
    BY ReturnedProperties
  <1>2. TypeOK'
    BY <1>1 DEF IInv, TypeOK
  <1>3. ChannelsInOrder' /\ TagsMeanEvents' /\ AckedIsAnswered'
    BY DEF ChannelsInOrder, TagsMeanEvents, AckedIsAnswered
  <1>4. RoomForOne'
    BY FS_EmptySet DEF RoomForOne
  <1>5. LostOnlyToStrays'
    BY <1>1 DEF IInv, LostOnlyToStrays, Unsettled
  <1>6. (~ overlapped => OneAtATime)'
    BY DEF IInv, OneAtATime
  <1> QED
    BY <1>2, <1>3, <1>4, <1>5, <1>6 DEF IInv
-----------------------------------------------------------------------------
\* At first there is no handler and no channel, and every event is queued.
LEMMA InitInv == Init => IInv
  <1> SUFFICES ASSUME Init
               PROVE  IInv
    OBVIOUS
  <1> USE DEF Init, NoChannel
  <1>1. IsFiniteSet(Events)
    BY DeliveryAssumption, FS_Interval DEF Events
  <1>2. queue \in Seq(Events) /\ ToSet(queue) = Events
    BY <1>1, SetToSeqsProperties
  <1>3. TypeOK
    <2>1. 0 \in 0..MaxFaults
      BY DeliveryAssumption
    <2>2. channel \in [no : Nat, open : BOOLEAN, nextTag : Nat \ {0}]
      OBVIOUS
    <2> QED
      BY <1>2, <2>1, <2>2, Zenon DEF TypeOK
  <1>4. ChannelsInOrder /\ TagsMeanEvents /\ AckedIsAnswered
    BY DEF ChannelsInOrder, TagsMeanEvents, AckedIsAnswered
  <1>5. RoomForOne
    BY FS_EmptySet DEF RoomForOne
  <1>6. LostOnlyToStrays
    BY <1>2 DEF LostOnlyToStrays, Unsettled
  <1>7. OneAtATime
    BY DEF OneAtATime
  <1> QED
    BY <1>3, <1>4, <1>5, <1>6, <1>7 DEF IInv

\* A new channel starts with no tag outstanding.
LEMMA ReconnectInv == IInv /\ Reconnect => IInv'
  <1> SUFFICES ASSUME IInv, Reconnect
               PROVE  IInv'
    OBVIOUS
  <1> USE DEF Reconnect, effects, history
  <1>1. unacked = {} /\ channel.no \in Nat
    BY DEF IInv, ChannelsInOrder, TypeOK
  <1>2. TypeOK'
    BY <1>1 DEF IInv, TypeOK
  <1>3. \A h \in handlers : h.no \in Nat /\ h.no <= channel.no
    BY DEF IInv, TypeOK, ChannelsInOrder
  <1>4. ChannelsInOrder' /\ TagsMeanEvents'
    BY <1>1, <1>3 DEF ChannelsInOrder, TagsMeanEvents
  <1>5. RoomForOne'
    <2>1. Cardinality(handlers) \in Nat
      BY FS_CardinalityType DEF IInv, RoomForOne
    <2> QED
      BY <1>1, <2>1 DEF IInv, RoomForOne
  <1>6. AckedIsAnswered' /\ LostOnlyToStrays' /\ (~ overlapped => OneAtATime)'
    BY DEF IInv, AckedIsAnswered, LostOnlyToStrays, Unsettled, OneAtATime
  <1> QED
    BY <1>2, <1>4, <1>5, <1>6 DEF IInv

\* A delivery gives a fresh tag of the channel of now to a handler of its own.
LEMMA DeliverInv == IInv /\ Deliver => IInv'
  <1> SUFFICES ASSUME IInv, Deliver
               PROVE  IInv'
    OBVIOUS
  <1> DEFINE d == [tag |-> channel.nextTag, event |-> Head(queue)]
             h == [no |-> channel.no, tag |-> channel.nextTag,
                   event |-> Head(queue), at |-> "readCursor"]
  <1>1. /\ channel.open /\ queue # <<>> /\ unacked = {}
        /\ unacked' = {d} /\ handlers' = handlers \cup {h}
        /\ queue' = Tail(queue)
        /\ channel' = [no |-> channel.no, open |-> TRUE,
                       nextTag |-> channel.nextTag + 1]
        /\ overlapped' = (overlapped \/ handlers # {})
        /\ UNCHANGED <<effects, faults, strays>>
    BY DEF Deliver, Quota, IInv, TypeOK
  <1>2. /\ Head(queue) \in Events /\ Tail(queue) \in Seq(Events)
        /\ ToSet(queue) = {Head(queue)} \cup ToSet(Tail(queue))
    BY <1>1, ToSetHeadTail DEF IInv, TypeOK
  <1>3. IsFiniteSet(handlers) /\ Cardinality(handlers) \in Nat
    BY FS_CardinalityType DEF IInv, RoomForOne
  <1>4. channel.no \in Nat \ {0} /\ channel.nextTag \in Nat \ {0}
    BY <1>1, <1>3 DEF IInv, TypeOK, RoomForOne
  <1>5. TypeOK'
    BY <1>1, <1>2, <1>4 DEF IInv, TypeOK, effects
  <1>6. ChannelsInOrder'
    BY <1>1, <1>4 DEF IInv, ChannelsInOrder
  <1>7. TagsMeanEvents'
    <2>1. \A g \in handlers : g.tag \in Nat /\ g.no \in Nat
      BY DEF IInv, TypeOK
    <2> QED
      BY <1>1, <1>4, <2>1 DEF IInv, TagsMeanEvents
  <1>8. AckedIsAnswered'
    BY <1>1 DEF IInv, AckedIsAnswered, effects
  <1>9. RoomForOne'
    <2>1. /\ IsFiniteSet(handlers \cup {h})
          /\ Cardinality(handlers \cup {h}) =
                IF h \in handlers THEN Cardinality(handlers)
                ELSE Cardinality(handlers) + 1
      BY <1>3, FS_AddElement
    <2>2. /\ IsFiniteSet(handlers')
          /\ Cardinality(handlers') <= Cardinality(handlers) + 1
      BY <1>1, <1>3, <2>1
    <2>3. Cardinality(handlers') \in Nat
      BY <2>2, FS_CardinalityType
    <2>4. IsFiniteSet(unacked') /\ Cardinality(unacked') = 1
      BY <1>1, FS_Singleton
    <2>5. Cardinality(handlers) <= channel.no - 1
      BY <1>1 DEF IInv, RoomForOne
    <2>6. Cardinality(handlers') <= channel'.no /\ unacked' # {}
      BY <1>1, <1>3, <1>4, <2>2, <2>3, <2>5
    <2> HIDE DEF d, h
    <2> QED
      BY <2>2, <2>4, <2>6 DEF RoomForOne
  <1>10. LostOnlyToStrays'
    BY <1>1, <1>2 DEF IInv, LostOnlyToStrays, Unsettled, effects
  <1>11. ASSUME ~ overlapped'
         PROVE  OneAtATime'
    <2>1. handlers = {} /\ ~ overlapped
      BY <1>1, <1>11
    <2>2. handlers' = {h} /\ h.at = "readCursor"
      BY <1>1, <2>1
    <2> QED
      BY <1>1, <2>1, <2>2 DEF IInv, OneAtATime, effects
  <1> QED
    BY <1>5, <1>6, <1>7, <1>8, <1>9, <1>10, <1>11 DEF IInv
-----------------------------------------------------------------------------
(***************************************************************************)
(* One step of a handler                                                   *)
(***************************************************************************)

\* The handler has read the cursor and goes on with it.
LEMMA ReadCursorInv ==
    ASSUME IInv, NEW h \in handlers, ReadCursor(h)
    PROVE  IInv'
  <1> DEFINE at == IF Fresh(h) THEN "apply" ELSE "answer"
             moved == [h EXCEPT !.at = at]
  <1>1. at \in Stages
    BY DEF Stages
  <1>2. Move(h, at) /\ UNCHANGED <<broker, effects, faults, history>>
    BY DEF ReadCursor
  <1>3. /\ moved \in [no : Nat \ {0}, tag : Nat \ {0}, event : Events,
                      at : Stages]
        /\ moved.at = at /\ moved.event = h.event
        /\ handlers' = (handlers \ {h}) \cup {moved}
        /\ handlers' \subseteq [no : Nat \ {0}, tag : Nat \ {0},
                                event : Events, at : Stages]
        /\ ChannelsInOrder' /\ TagsMeanEvents' /\ RoomForOne'
        /\ OneAtATime => handlers' = {moved}
    BY <1>1, <1>2, MoveProperties
  <1> HIDE DEF moved
  <1> USE <1>2 DEF broker, effects, history
  <1>4. TypeOK'
    BY <1>3 DEF IInv, TypeOK, Stages
  <1>5. AckedIsAnswered'
    BY <1>3 DEF IInv, AckedIsAnswered
  <1>6. LostOnlyToStrays'
    BY DEF IInv, LostOnlyToStrays, Unsettled
  <1>7. ASSUME ~ overlapped'
        PROVE  OneAtATime'
    <2>1. OneAtATime
      BY <1>7 DEF IInv
    <2>2. handlers' = {moved} /\ h.event \in Nat /\ cursor \in Nat
      BY <1>3, <2>1, PositionTypes DEF IInv
    <2> QED
      BY <1>3, <2>1, <2>2 DEF OneAtATime, Fresh
  <1> QED
    BY <1>3, <1>4, <1>5, <1>6, <1>7 DEF IInv

\* The store takes the event in hand.
LEMMA ApplyInv ==
    ASSUME IInv, NEW h \in handlers, Apply(h)
    PROVE  IInv'
  <1> DEFINE moved == [h EXCEPT !.at = "writeCursor"]
  <1>1. "writeCursor" \in Stages
    BY DEF Stages
  <1>2. /\ Move(h, "writeCursor") /\ h.at = "apply" /\ store' = h.event
        /\ UNCHANGED <<broker, cursor, answered, faults, history>>
    BY DEF Apply
  <1>3. /\ moved \in [no : Nat \ {0}, tag : Nat \ {0}, event : Events,
                      at : Stages]
        /\ moved.at = "writeCursor" /\ moved.event = h.event
        /\ handlers' = (handlers \ {h}) \cup {moved}
        /\ handlers' \subseteq [no : Nat \ {0}, tag : Nat \ {0},
                                event : Events, at : Stages]
        /\ ChannelsInOrder' /\ TagsMeanEvents' /\ RoomForOne'
        /\ OneAtATime => handlers' = {moved}
    BY <1>1, <1>2, MoveProperties
  <1> HIDE DEF moved
  <1> USE <1>2 DEF broker, history
  <1>4. TypeOK'
    BY <1>3 DEF IInv, TypeOK, Stages
  <1>5. AckedIsAnswered'
    BY <1>3 DEF IInv, AckedIsAnswered
  <1>6. LostOnlyToStrays'
    BY DEF IInv, LostOnlyToStrays, Unsettled
  <1>7. ASSUME ~ overlapped'
        PROVE  OneAtATime'
    <2>1. OneAtATime
      BY <1>7 DEF IInv
    <2>2. handlers' = {moved} /\ h.event \in Nat /\ cursor \in Nat
      BY <1>3, <2>1, PositionTypes DEF IInv
    <2> QED
      BY <1>3, <2>1, <2>2 DEF OneAtATime
  <1> QED
    BY <1>3, <1>4, <1>5, <1>6, <1>7 DEF IInv

\* The cursor reaches the event in hand, which the store already has.
LEMMA WriteCursorInv ==
    ASSUME IInv, NEW h \in handlers, WriteCursor(h)
    PROVE  IInv'
  <1> DEFINE moved == [h EXCEPT !.at = "answer"]
  <1>1. "answer" \in Stages
    BY DEF Stages
  <1>2. /\ Move(h, "answer") /\ h.at = "writeCursor" /\ cursor' = h.event
        /\ UNCHANGED <<broker, store, answered, faults, history>>
    BY DEF WriteCursor
  <1>3. /\ moved \in [no : Nat \ {0}, tag : Nat \ {0}, event : Events,
                      at : Stages]
        /\ moved.at = "answer" /\ moved.event = h.event
        /\ handlers' = (handlers \ {h}) \cup {moved}
        /\ handlers' \subseteq [no : Nat \ {0}, tag : Nat \ {0},
                                event : Events, at : Stages]
        /\ ChannelsInOrder' /\ TagsMeanEvents' /\ RoomForOne'
        /\ OneAtATime => handlers' = {moved}
    BY <1>1, <1>2, MoveProperties
  <1> HIDE DEF moved
  <1> USE <1>2 DEF broker, history
  <1>4. TypeOK'
    BY <1>3 DEF IInv, TypeOK, Stages
  <1>5. AckedIsAnswered'
    BY <1>3 DEF IInv, AckedIsAnswered
  <1>6. LostOnlyToStrays'
    BY DEF IInv, LostOnlyToStrays, Unsettled
  <1>7. ASSUME ~ overlapped'
        PROVE  OneAtATime'
    <2>1. OneAtATime
      BY <1>7 DEF IInv
    <2>2. /\ handlers' = {moved} /\ h.event \in Nat /\ cursor \in Nat
          /\ answered \subseteq Nat
      BY <1>3, <2>1, PositionTypes DEF IInv
    <2> QED
      BY <1>3, <2>1, <2>2 DEF OneAtATime
  <1> QED
    BY <1>3, <1>4, <1>5, <1>6, <1>7 DEF IInv

\* The event is answered once cursor and store have it.
LEMMA AnswerInv ==
    ASSUME IInv, NEW h \in handlers, Answer(h)
    PROVE  IInv'
  <1> DEFINE moved == [h EXCEPT !.at = "ack"]
  <1>1. "ack" \in Stages
    BY DEF Stages
  <1>2. /\ Move(h, "ack") /\ h.at = "answer"
        /\ answered' = answered \cup {h.event}
        /\ UNCHANGED <<broker, store, cursor, faults, history>>
    BY DEF Answer
  <1>3. /\ moved \in [no : Nat \ {0}, tag : Nat \ {0}, event : Events,
                      at : Stages]
        /\ moved.at = "ack" /\ moved.event = h.event
        /\ handlers' = (handlers \ {h}) \cup {moved}
        /\ handlers' \subseteq [no : Nat \ {0}, tag : Nat \ {0},
                                event : Events, at : Stages]
        /\ ChannelsInOrder' /\ TagsMeanEvents' /\ RoomForOne'
        /\ OneAtATime => handlers' = {moved}
    BY <1>1, <1>2, MoveProperties
  <1> HIDE DEF moved
  <1> USE <1>2 DEF broker, history
  <1>4. TypeOK'
    BY <1>3 DEF IInv, TypeOK, Stages
  <1>5. AckedIsAnswered'
    BY <1>3 DEF IInv, AckedIsAnswered
  <1>6. LostOnlyToStrays'
    BY DEF IInv, LostOnlyToStrays, Unsettled
  <1>7. ASSUME ~ overlapped'
        PROVE  OneAtATime'
    <2>1. OneAtATime
      BY <1>7 DEF IInv
    <2>2. handlers' = {moved}
      BY <1>3, <2>1
    <2> QED
      BY <1>3, <2>1, <2>2 DEF OneAtATime
  <1> QED
    BY <1>3, <1>4, <1>5, <1>6, <1>7 DEF IInv

\* A call throws: the handler goes to its nack.
LEMMA ThrowInv ==
    ASSUME IInv, NEW h \in handlers, Throw(h)
    PROVE  IInv'
  <1> DEFINE moved == [h EXCEPT !.at = "nack"]
  <1>1. "nack" \in Stages
    BY DEF Stages
  <1>2. /\ Move(h, "nack") /\ UNCHANGED <<broker, effects, history>>
        /\ faults' \in 0..MaxFaults
    BY FaultType DEF Throw, IInv, TypeOK
  <1>3. /\ moved \in [no : Nat \ {0}, tag : Nat \ {0}, event : Events,
                      at : Stages]
        /\ moved.at = "nack" /\ moved.event = h.event
        /\ handlers' = (handlers \ {h}) \cup {moved}
        /\ handlers' \subseteq [no : Nat \ {0}, tag : Nat \ {0},
                                event : Events, at : Stages]
        /\ ChannelsInOrder' /\ TagsMeanEvents' /\ RoomForOne'
        /\ OneAtATime => handlers' = {moved}
    BY <1>1, <1>2, MoveProperties
  <1> HIDE DEF moved
  <1> USE <1>2 DEF broker, effects, history
  <1>4. TypeOK'
    BY <1>3 DEF IInv, TypeOK, Stages
  <1>5. AckedIsAnswered'
    BY <1>3 DEF IInv, AckedIsAnswered
  <1>6. LostOnlyToStrays'
    BY DEF IInv, LostOnlyToStrays, Unsettled
  <1>7. ASSUME ~ overlapped'
        PROVE  OneAtATime'
    <2>1. OneAtATime
      BY <1>7 DEF IInv
    <2>2. handlers' = {moved}
      BY <1>3, <2>1
    <2> QED
      BY <1>3, <2>1, <2>2 DEF OneAtATime
  <1> QED
    BY <1>3, <1>4, <1>5, <1>6, <1>7 DEF IInv

\* The tag is known: on the handler's own channel it settles the handler's own
\* message; on another one what it settles is a stray.
LEMMA SettleInv ==
    ASSUME IInv, NEW h \in handlers, Settle(h)
    PROVE  IInv'
  <1> DEFINE back == SetToSeq({d.event : d \in Settled(h)}) \o queue
  <1>1. /\ h.at \in {"ack", "nack"} /\ channel.open /\ Settled(h) # {}
        /\ queue' = IF h.at = "ack" THEN queue ELSE back
        /\ unacked' = unacked \ Settled(h)
        /\ handlers' = handlers \ {h}
        /\ strays' = IF h.no = channel.no THEN strays
                     ELSE strays \cup {d.event : d \in Settled(h)}
        /\ UNCHANGED <<channel, effects, faults, overlapped>>
    BY DEF Settle, Outcome
  <1>2. Settled(h) \subseteq unacked /\ TypeOK /\ IsFiniteSet(unacked)
    BY DEF Settled, IInv, RoomForOne
  <1>3. /\ back \in Seq(Events)
        /\ ToSet(back) = {d.event : d \in Settled(h)} \cup ToSet(queue)
    BY <1>2, PutBack
  <1> HIDE DEF back
  <1>4. TypeOK'
    BY <1>1, <1>2, <1>3 DEF TypeOK, effects
  <1>5. ChannelsInOrder' /\ TagsMeanEvents' /\ AckedIsAnswered'
    BY <1>1 DEF IInv, ChannelsInOrder, TagsMeanEvents, AckedIsAnswered, effects
  <1>6. RoomForOne'
    <2>1. /\ IsFiniteSet(handlers') /\ Cardinality(handlers') \in Nat
          /\ Cardinality(handlers') <= channel.no - 1
      BY <1>1, RemoveProperties
    <2>2. /\ IsFiniteSet(unacked')
          /\ Cardinality(unacked') <= Cardinality(unacked)
      BY <1>1, <1>2, FS_Subset
    <2>3. Cardinality(unacked) \in Nat /\ Cardinality(unacked') \in Nat
      BY <1>2, <2>2, FS_CardinalityType
    <2>4. channel.no \in Nat /\ channel' = channel
      BY <1>1 DEF IInv, TypeOK
    <2>5. Cardinality(unacked') <= 1
      BY <2>2, <2>3 DEF IInv, RoomForOne
    <2>6. Cardinality(handlers') <= channel'.no
      BY <2>1, <2>4
    <2> QED
      BY <2>1, <2>2, <2>4, <2>5, <2>6 DEF RoomForOne
  <1>7. LostOnlyToStrays'
    <2> SUFFICES ASSUME NEW e \in Events, e \notin answered', e \notin strays'
                 PROVE  Unsettled(e)'
      BY DEF LostOnlyToStrays
    <2>1. Unsettled(e)
      BY <1>1 DEF IInv, LostOnlyToStrays, effects
    <2>2. CASE e \in ToSet(queue)
      BY <1>1, <1>3, <2>2 DEF Unsettled
    <2>3. ASSUME NEW d \in unacked, d.event = e
          PROVE  Unsettled(e)'
      <3>1. CASE d \notin Settled(h)
        BY <1>1, <2>3, <3>1 DEF Unsettled
      <3>2. CASE d \in Settled(h)
        <4>1. h.no = channel.no
          BY <1>1, <2>3, <3>2
        <4>2. d.event = h.event
          BY <3>2, <4>1 DEF IInv, TagsMeanEvents, Settled
        <4>3. h.at # "ack"
          BY <1>1, <2>3, <4>2 DEF IInv, AckedIsAnswered, effects
        <4> QED
          BY <1>1, <1>3, <2>3, <3>2, <4>3 DEF Unsettled
      <3> QED
        BY <3>1, <3>2
    <2> QED
      BY <2>1, <2>2, <2>3 DEF Unsettled
  <1>8. ASSUME ~ overlapped'
        PROVE  OneAtATime'
    BY <1>1, <1>8 DEF IInv, OneAtATime, effects
  <1> QED
    BY <1>4, <1>5, <1>6, <1>7, <1>8 DEF IInv

\* A tag nobody has closes the channel, and what it had goes back.
LEMMA SettleUnknownInv ==
    ASSUME IInv, NEW h \in handlers, SettleUnknown(h)
    PROVE  IInv'
  <1>1. UNCHANGED <<effects, history>>
    BY DEF SettleUnknown
  <1>2. CASE Fault /\ CloseChannel /\ handlers' = handlers \ {h}
    BY <1>1, <1>2, FaultType, CloseInv DEF IInv
  <1>3. CASE UNCHANGED faults /\ Die
    BY <1>1, <1>3, DieInv DEF IInv, TypeOK
  <1> QED
    BY <1>2, <1>3 DEF SettleUnknown

\* On a closed channel the handler only ends.
LEMMA SettleClosedInv ==
    ASSUME IInv, NEW h \in handlers, SettleClosed(h)
    PROVE  IInv'
  <1>1. UNCHANGED <<effects, faults, history>> /\ ~ channel.open
    BY DEF SettleClosed
  <1>2. CASE UNCHANGED broker /\ handlers' = handlers \ {h}
    <2> USE <1>1, <1>2 DEF broker, effects, history
    <2>1. TypeOK'
      BY DEF IInv, TypeOK
    <2>2. ChannelsInOrder' /\ TagsMeanEvents' /\ AckedIsAnswered'
      BY DEF IInv, ChannelsInOrder, TagsMeanEvents, AckedIsAnswered
    <2>3. RoomForOne'
      <3>1. /\ IsFiniteSet(handlers') /\ Cardinality(handlers') \in Nat
            /\ Cardinality(handlers') <= channel.no - 1
        BY RemoveProperties
      <3>2. channel.no \in Nat
        BY DEF IInv, TypeOK
      <3> QED
        BY <3>1, <3>2 DEF IInv, RoomForOne
    <2>4. LostOnlyToStrays' /\ (~ overlapped => OneAtATime)'
      BY DEF IInv, LostOnlyToStrays, Unsettled, OneAtATime
    <2> QED
      BY <2>1, <2>2, <2>3, <2>4 DEF IInv
  <1>3. CASE Die
    BY <1>1, <1>3, DieInv DEF IInv, TypeOK
  <1> QED
    BY <1>2, <1>3 DEF SettleClosed

\* The connection closes: what was outstanding goes back to the queue.
LEMMA DropInv == IInv /\ Drop => IInv'
  BY FaultType, CloseInv DEF Drop, IInv

\* So it does when the process dies, which ends the handlers too.
LEMMA CrashInv == IInv /\ Crash => IInv'
  BY FaultType, DieInv DEF Crash, IInv

\* A step that leaves the variables alone leaves the invariant alone.
LEMMA StutterInv == IInv /\ UNCHANGED vars => IInv'
  BY DEF IInv, TypeOK, ChannelsInOrder, TagsMeanEvents, AckedIsAnswered,
         RoomForOne, LostOnlyToStrays, Unsettled, OneAtATime, vars, broker,
         effects, history
-----------------------------------------------------------------------------
\* The invariant holds at every moment, whatever the number of events and
\* faults: of transport.ts, registerConsume, runHandler, ackMessage and
\* nackMessage.
THEOREM DeliveryInvariant == Spec => []IInv
  <1>1. IInv /\ [Next]_vars => IInv'
    <2> SUFFICES ASSUME IInv, [Next]_vars
                 PROVE  IInv'
      OBVIOUS
    <2>1. CASE Reconnect
      BY <2>1, ReconnectInv
    <2>2. CASE Deliver
      BY <2>2, DeliverInv
    <2>3. ASSUME NEW h \in handlers, Handle(h)
          PROVE  IInv'
      BY <2>3, ReadCursorInv, ApplyInv, WriteCursorInv, AnswerInv, SettleInv,
         SettleUnknownInv, SettleClosedInv DEF Handle
    <2>4. ASSUME NEW h \in handlers, Throw(h)
          PROVE  IInv'
      BY <2>4, ThrowInv
    <2>5. CASE Drop
      BY <2>5, DropInv
    <2>6. CASE Crash
      BY <2>6, CrashInv
    <2>7. CASE UNCHANGED vars
      BY <2>7, StutterInv
    <2> QED
      BY <2>1, <2>2, <2>3, <2>4, <2>5, <2>6, <2>7 DEF Next
  <1> QED
    BY InitInv, <1>1, PTL DEF Spec

\* Every variable keeps its shape, and an outstanding tag is one that the
\* channel of now has given out (registerConsume of transport.ts starts on a
\* fresh one).
THEOREM DeliveryTypeCorrect == Spec => []TypeOK
  <1>1. IInv => TypeOK
    BY DEF IInv
  <1> QED
    BY DeliveryInvariant, <1>1, PTL

\* prefetch(1) allows one outstanding delivery, and there are never more
\* handlers under way than channels were opened.
THEOREM HandlersPerChannel == Spec => []OneHandlerPerChannel
  <1>1. IInv => OneHandlerPerChannel
    <2> SUFFICES ASSUME IInv
                 PROVE  OneHandlerPerChannel
      OBVIOUS
    <2>1. Cardinality(handlers) \in Nat /\ channel.no \in Nat
      BY FS_CardinalityType DEF IInv, RoomForOne, TypeOK
    <2> QED
      BY <2>1 DEF IInv, RoomForOne, OneHandlerPerChannel
  <1> QED
    BY DeliveryInvariant, <1>1, PTL

\* Drops, failed calls and crashes lose no message; only a handler that
\* settles its tag on a channel that is not its own can.
THEOREM OnlyStraysLose == Spec => []LostOnlyToStrays
  <1>1. IInv => LostOnlyToStrays
    BY DEF IInv
  <1> QED
    BY DeliveryInvariant, <1>1, PTL

\* As long as no two handlers were under way at once, cursor and store stay
\* at or after every event the peer has confirmed.
THEOREM ConfirmedStays == Spec => []AnswersStand
  <1>1. IInv => AnswersStand
    <2> SUFFICES ASSUME IInv, ~ overlapped, NEW e \in answered
                 PROVE  cursor >= e /\ store >= e
      BY DEF AnswersStand
    <2>1. cursor \in Nat /\ store \in Nat /\ e \in Nat
      BY PositionTypes DEF IInv
    <2> QED
      BY <2>1 DEF IInv, OneAtATime
  <1> QED
    BY DeliveryInvariant, <1>1, PTL
=============================================================================
