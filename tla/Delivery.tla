------------------------------ MODULE Delivery ------------------------------
(***************************************************************************)
(* The consume channel of one peer and the handlers it starts              *)
(* (registerConsume, runHandler, ackMessage and nackMessage of             *)
(* src/transport.ts), with handleApplyEvent for the events of one key.     *)
(*                                                                         *)
(* A handler is not stopped when its channel is replaced, and it settles   *)
(* its delivery tag on whatever channel consumeCh is by then.  The broker  *)
(* counts tags from 1 on every channel, so the tag may be unknown there or *)
(* be that of another message.                                             *)
(*                                                                         *)
(* An event is named by its position, and the store holds the last event   *)
(* applied.  Connecting is module Transport, one handler at a time is      *)
(* module Inbound.                                                         *)
(***************************************************************************)
EXTENDS Naturals, FiniteSets, SequencesExt

CONSTANTS
    Newest,             \* the events are 1..Newest
    MaxFaults           \* bound on drops, calls that throw, crashes, and
                        \* channels closed for a tag nobody has

ASSUME DeliveryAssumption == Newest \in Nat \ {0} /\ MaxFaults \in Nat

Events == 1..Newest

VARIABLES
    queue,              \* the own queue, what is ready in it
    channel,            \* the channels opened so far, and the last one
    unacked,            \* deliveries of the channel not yet settled
    handlers,           \* calls of runHandler that are under way
    store,              \* the last event applied, 0 for none
    cursor,             \* the durable cursor, 0 for none
    answered,           \* events acknowledged to their source
    faults,             \* faults so far
    overlapped,         \* history: two handlers were under way at once
    strays              \* history: events settled by another one's handler

broker == <<queue, channel, unacked>>
effects == <<store, cursor, answered>>
history == <<overlapped, strays>>
vars == <<broker, handlers, effects, faults, history>>

\* Nothing is open, as before the first connect().
NoChannel == [no |-> 0, open |-> FALSE, nextTag |-> 1]

Init ==
    /\ queue \in SetToSeqs(Events)
    /\ channel = NoChannel
    /\ unacked = {}
    /\ handlers = {}
    /\ store = 0 /\ cursor = 0 /\ answered = {}
    /\ faults = 0
    /\ overlapped = FALSE
    /\ strays = {}

Fault == faults < MaxFaults /\ faults' = faults + 1

\* What was delivered and not settled is ready again, at the head.
Returned == SetToSeq({d.event : d \in unacked}) \o queue

Closed == [channel EXCEPT !.open = FALSE]

\* Faulty variant of CloseChannel: what was delivered on it stays outstanding
\* (against TypeOK).
CloseKeeping == channel' = Closed /\ queue' = Returned /\ unacked' = unacked

CloseChannel == channel' = Closed /\ queue' = Returned /\ unacked' = {}

\* The process dies with all its handlers and connects again afterwards.
Die == channel' = NoChannel /\ queue' = Returned /\ unacked' = {} /\ handlers' = {}
-----------------------------------------------------------------------------
\* Faulty variant of Reconnect: the consumer is only registered at boot
\* (against QueueDrains).
ReconnectAtBoot ==
    /\ channel.no = 0 /\ ~ channel.open
    /\ channel' = [no |-> 1, open |-> TRUE, nextTag |-> 1]
    /\ UNCHANGED <<queue, unacked, handlers, effects, faults, history>>

\* connect() has a new channel and registers the consumer on it.
Reconnect ==
    /\ ~ channel.open
    /\ channel' = [no |-> channel.no + 1, open |-> TRUE, nextTag |-> 1]
    /\ UNCHANGED <<queue, unacked, handlers, effects, faults, history>>

\* Faulty variant of Quota: no prefetch (against OneHandlerPerChannel).
NoQuota == TRUE

\* prefetch(1).
Quota == unacked = {}

\* The consumer's callback starts runHandler and does not wait for it.
Deliver ==
    /\ channel.open /\ queue # <<>> /\ Quota
    /\ LET delivery == [tag |-> channel.nextTag, event |-> Head(queue)]
       IN  /\ unacked' = unacked \cup {delivery}
           /\ handlers' = handlers \cup
                 {[no |-> channel.no, tag |-> delivery.tag,
                   event |-> delivery.event, at |-> "readCursor"]}
    /\ queue' = Tail(queue)
    /\ channel' = [channel EXCEPT !.nextTag = @ + 1]
    /\ overlapped' = (overlapped \/ handlers # {})
    /\ UNCHANGED <<effects, faults, strays>>

Move(h, at) == handlers' = (handlers \ {h}) \cup {[h EXCEPT !.at = at]}

\* Faulty variant of Fresh: equal positions are applied again, and so is
\* everything older (against AnswersStand).
AlwaysFresh(h) == TRUE

Fresh(h) == h.event > cursor

ReadCursor(h) ==
    /\ h.at = "readCursor"
    /\ Move(h, IF Fresh(h) THEN "apply" ELSE "answer")
    /\ UNCHANGED <<broker, effects, faults, history>>

Apply(h) ==
    /\ h.at = "apply"
    /\ store' = h.event
    /\ Move(h, "writeCursor")
    /\ UNCHANGED <<broker, cursor, answered, faults, history>>

WriteCursor(h) ==
    /\ h.at = "writeCursor"
    /\ cursor' = h.event
    /\ Move(h, "answer")
    /\ UNCHANGED <<broker, store, answered, faults, history>>

\* publishAckBack, on the confirm channel of the connection that is there now.
Answer(h) ==
    /\ h.at = "answer"
    /\ channel.open
    /\ answered' = answered \cup {h.event}
    /\ Move(h, "ack")
    /\ UNCHANGED <<broker, store, cursor, faults, history>>

\* A call of the handler throws; publishing does when the connection is gone.
Throw(h) ==
    /\ h.at \notin {"ack", "nack"}
    /\ \/ Fault
       \/ h.at = "answer" /\ ~ channel.open /\ UNCHANGED faults
    /\ Move(h, "nack")
    /\ UNCHANGED <<broker, effects, history>>
-----------------------------------------------------------------------------
\* The delivery that the broker takes the handler's tag for.
Settled(h) == {d \in unacked : d.tag = h.tag}

\* Faulty variant of Outcome: what failed is acknowledged as well (against
\* LostOnlyToStrays).
AckAnyway(h) == queue

\* ack takes the message out, nack(requeue) puts it back at the head.
Outcome(h) ==
    IF h.at = "ack"
    THEN queue
    ELSE SetToSeq({d.event : d \in Settled(h)}) \o queue

\* ackMessage or nackMessage with a tag the current channel has outstanding.
Settle(h) ==
    /\ h.at \in {"ack", "nack"}
    /\ channel.open /\ Settled(h) # {}
    /\ queue' = Outcome(h)
    /\ unacked' = unacked \ Settled(h)
    /\ handlers' = handlers \ {h}
    /\ strays' = IF h.no = channel.no
                 THEN strays
                 ELSE strays \cup {d.event : d \in Settled(h)}
    /\ UNCHANGED <<channel, effects, faults, overlapped>>

\* The tag is unknown on the current channel: the broker closes the channel,
\* and as nobody listens for that, amqplib gives up the connection or the
\* process.  Handlers of the closed channel may do the same to the next one,
\* in an endless chain; the bound makes the process end in its place.
SettleUnknown(h) ==
    /\ h.at \in {"ack", "nack"}
    /\ channel.open /\ Settled(h) = {}
    /\ \/ Fault /\ CloseChannel /\ handlers' = handlers \ {h}
       \/ UNCHANGED faults /\ Die
    /\ UNCHANGED <<effects, history>>

\* The channel is closed: ack throws, the nack in the catch does, and the one
\* in runHandler's; nobody handles that rejection, which ends the process
\* unless the application says otherwise.
SettleClosed(h) ==
    /\ h.at \in {"ack", "nack"}
    /\ ~ channel.open
    /\ \/ UNCHANGED broker /\ handlers' = handlers \ {h}
       \/ Die
    /\ UNCHANGED <<effects, faults, history>>

\* The connection goes; its handlers do not.
Drop ==
    /\ channel.open
    /\ Fault
    /\ CloseChannel
    /\ UNCHANGED <<handlers, effects, history>>

Crash ==
    /\ Fault
    /\ Die
    /\ UNCHANGED <<effects, history>>
-----------------------------------------------------------------------------
Handle(h) ==
    \/ ReadCursor(h)
    \/ Apply(h)
    \/ WriteCursor(h)
    \/ Answer(h)
    \/ Settle(h)
    \/ SettleUnknown(h)
    \/ SettleClosed(h)

Next ==
    \/ Reconnect
    \/ Deliver
    \/ \E h \in handlers : Handle(h) \/ Throw(h)
    \/ Drop
    \/ Crash

Spec == Init /\ [][Next]_vars

\* The peer reconnects, the broker delivers, and each handler goes on: the
\* calls it awaits return or throw.
FairSpec ==
    /\ Spec
    /\ WF_vars(Reconnect)
    /\ WF_vars(Deliver)
    /\ \A e \in Events : WF_vars(\E h \in handlers :
                             h.event = e /\ (Handle(h) \/ Throw(h)))
-----------------------------------------------------------------------------
Unsettled(e) == e \in ToSet(queue) \/ \E d \in unacked : d.event = e

InHand(e) == \E h \in handlers : h.event = e

\* Every variable keeps its shape, and an outstanding tag is one that the
\* current channel has given out.
TypeOK ==
    /\ queue \in Seq(Events)
    /\ channel \in [no : Nat, open : BOOLEAN, nextTag : Nat \ {0}]
    /\ unacked \subseteq [tag : Nat \ {0}, event : Events]
    /\ \A d \in unacked : d.tag < channel.nextTag
    /\ handlers \subseteq [no : Nat \ {0}, tag : Nat \ {0}, event : Events,
                           at : {"readCursor", "apply", "writeCursor", "answer",
                                 "ack", "nack"}]
    /\ {store, cursor} \subseteq Events \cup {0}
    /\ answered \subseteq Events
    /\ faults \in 0..MaxFaults
    /\ overlapped \in BOOLEAN
    /\ strays \subseteq Events

\* prefetch=1 (src/transport.ts:9) keeps to one handler as long as the channel
\* is not replaced, which is what module Inbound takes for granted; each
\* replacement can add one more, and no stale tag ever adds a second.
OneHandlerPerChannel ==
    /\ Cardinality(unacked) <= 1
    /\ Cardinality(handlers) <= channel.no

\* A message only goes missing when the handler of another channel settled it
\* with a tag that meant something else there; a drop, a failed call or a
\* crash alone never does it.
LostOnlyToStrays ==
    \A e \in Events : e \in answered \/ Unsettled(e) \/ e \in strays

\* Unless two handlers were under way at once, the peer stays at or after
\* every event it has confirmed, in the cursor and in the store.
AnswersStand ==
    ~ overlapped =>
        \A e \in answered :
            /\ cursor >= e
            /\ store >= e

\* Zombies, unknown tags and dead channels do not freeze the consumer: the
\* queue is worked off in the end.
QueueDrains == <>[](queue = <<>> /\ unacked = {} /\ handlers = {})

\* src/docs/architecture.md:132: a peer that comes back "drains its queue in
\* FIFO order with no message left behind".
NoMessageLeftBehind ==
    \A e \in Events : e \in answered \/ Unsettled(e) \/ InHand(e)
-----------------------------------------------------------------------------
(***************************************************************************)
(* What the proofs of DeliveryProofs need to be inductive.                 *)
(***************************************************************************)

\* A closed channel has nothing outstanding, and no handler is from a later
\* channel than the last.
ChannelsInOrder ==
    /\ ~ channel.open => unacked = {}
    /\ \A h \in handlers : h.no <= channel.no

\* On its own channel a handler's tag has been given out, and means the event
\* that the handler is about.
TagsMeanEvents ==
    \A h \in handlers : h.no = channel.no =>
        /\ h.tag < channel.nextTag
        /\ \A d \in unacked : d.tag = h.tag => d.event = h.event

\* A handler that goes to acknowledge has answered.
AckedIsAnswered == \A h \in handlers : h.at = "ack" => h.event \in answered

\* While the channel may deliver, there is room for the handler it starts.
RoomForOne ==
    /\ IsFiniteSet(unacked) /\ Cardinality(unacked) <= 1
    /\ IsFiniteSet(handlers)
    /\ Cardinality(handlers) <=
          IF channel.open /\ unacked = {} THEN channel.no - 1 ELSE channel.no

\* Where the one handler there is finds the cursor and the store.
OneAtATime ==
    /\ \A g, h \in handlers : g = h
    /\ cursor <= store
    /\ \A e \in answered : e <= cursor
    /\ \A h \in handlers :
          /\ h.at = "apply" => cursor < h.event
          /\ h.at = "writeCursor" => cursor < h.event /\ store = h.event
          /\ h.at = "answer" => h.event <= cursor

IInv ==
    /\ TypeOK
    /\ ChannelsInOrder
    /\ TagsMeanEvents
    /\ AckedIsAnswered
    /\ RoomForOne
    /\ LostOnlyToStrays
    /\ ~ overlapped => OneAtATime
=============================================================================
