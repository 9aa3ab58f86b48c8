------------------------------ MODULE Inbound -------------------------------
(***************************************************************************)
(* One peer consuming its own queue: the message handler of                *)
(* src/consume.ts with the cursor of src/cursor.ts, over a durable         *)
(* RabbitMQ queue read with prefetch=1 (src/transport.ts).                 *)
(*                                                                         *)
(* The handler awaits Redis, the credential store and the broker, so it is *)
(* one step per awaited call.  Between any two of them a call may throw    *)
(* (the handler then puts the message back) or the process may die (the    *)
(* broker puts it back), and the message is delivered again.               *)
(*                                                                         *)
(* One handler runs at a time here: that is what prefetch=1 gives as long  *)
(* as the channel lives.  The acks that arrive on the same queue concern   *)
(* the publishing role and are not part of this module.                    *)
(***************************************************************************)
EXTENDS Cursor, Sequences, Functions, FiniteSets

CONSTANTS
    Keys,               \* the (track, clientId) pairs
    Served,             \* the keys whose track has an auth instance here
    Hashes,             \* secret hashes a source may ship
    EventIds,           \* identifiers of the events ever sent to this peer
    Timestamps,         \* what the clocks of the sources may read
    Forms,              \* how a message may look to decodeEvent and onMessage
    Managed,            \* whether a management adapter is configured
    MaxFailures,        \* bound on the calls that throw inside the handler
    MaxCrashes,         \* bound on the crashes of the process
    NoEvent             \* the handler holds no message

ApplyOps == {"credential.update", "credential.delete"}

AllForms == {"valid", "malformed", "secretMismatch", "unknownOp"}

\* credential.create is handled exactly as credential.update.
Event == [eventId : EventIds, ts : Timestamps, form : Forms,
          key : Keys, op : ApplyOps, hash : Hashes]

ASSUME InboundAssumption ==
    /\ Served \subseteq Keys
    /\ EventIds \subseteq Nat
    /\ Timestamps \subseteq Nat
    /\ Forms \subseteq AllForms
    /\ Managed \in BOOLEAN
    /\ MaxFailures \in Nat
    /\ MaxCrashes \in Nat
    /\ NoEvent \notin Event
    /\ "absent" \notin Hashes

\* What the credential store answers for a key.
Credential == Hashes \cup {"absent"}

\* What a well-formed event leaves in the store of the peer that applies it.
Effect(event) ==
    IF event.op = "credential.delete" THEN "absent" ELSE event.hash

\* Where the handler stands: the awaited call it is about to make.
Steps == {"idle", "readCursor", "apply", "writeCursor", "publishAck", "settle"}

Verdicts == {"applied", "error"}

\* An acknowledgement event; it is signed when the source's secret was found.
Ack == [eventId : EventIds, result : Verdicts, signed : BOOLEAN]

VARIABLES
    ready,              \* the messages of the queue not yet delivered
    pc,                 \* the handler's next call
    msg,                \* the delivered, unacknowledged message
    result,             \* the verdict the handler will publish
    cursor,             \* cursor[k]: what Redis holds as last seen
    store,              \* store[k]: what the auth instance answers for k
    acks,               \* the acknowledgements published to the sources
    failures,           \* calls that threw so far
    crashes,            \* crashes so far
    published,          \* history: every event the sources ever sent here
    installed           \* history: position of the event behind store[k]

queue    == <<ready, msg>>
handler  == <<pc, result>>
faults   == <<failures, crashes>>
durable  == <<cursor, store, installed>>
vars     == <<ready, pc, msg, result, cursor, store, acks, failures, crashes,
              published, installed>>

\* The events still owed to this peer by the broker.
Held == Range(ready) \cup (IF pc = "idle" THEN {} ELSE {msg})

Init ==
    /\ ready = <<>>
    /\ pc = "idle"
    /\ msg = NoEvent
    /\ result = "applied"
    /\ cursor = [k \in Keys |-> NoCursor]
    /\ store = [k \in Keys |-> "absent"]
    /\ acks = {}
    /\ failures = 0
    /\ crashes = 0
    /\ published = {}
    /\ installed = [k \in Keys |-> NoCursor]
-----------------------------------------------------------------------------
(***************************************************************************)
(* The sources                                                             *)
(***************************************************************************)

\* Of an event that is dropped or refused nothing but its form and its key is
\* ever looked at: of those that differ in the rest, one stands for all.
Representatives ==
    {e \in Event :
        \/ e.form = "valid" /\ e.key \in Served
        \/ e = CHOOSE f \in Event : /\ f.eventId = e.eventId /\ f.form = e.form
                                    /\ f.form = "valid" => f.key = e.key}

\* Some source publishes an event.  The identifier is fresh; the timestamp is
\* the clock of that source, so events arrive in any order of position.
Publish(event) ==
    /\ event \in Representatives
    /\ \A other \in published : other.eventId # event.eventId
    /\ published' = published \cup {event}
    /\ ready' = Append(ready, event)
    /\ UNCHANGED <<pc, msg, result, cursor, store, acks, failures, crashes,
                   installed>>
-----------------------------------------------------------------------------
(***************************************************************************)
(* onMessage and handleApplyEvent                                          *)
(***************************************************************************)

\* Messages that onMessage does not process.  Faulty variant: the last return
\* of onMessage forgets the unknown op (against QueueDrains).
UnusableButUnknownOp(m) == m.form \in {"malformed", "secretMismatch"}

Unusable(m) == m.form # "valid"

\* A message that cannot be decoded, that carries another peer's secret or an
\* unknown op is acknowledged to the broker at once and forgotten.
DropInvalid ==
    /\ pc = "idle"
    /\ ready # <<>>
    /\ Unusable(Head(ready))
    /\ ready' = Tail(ready)
    /\ UNCHANGED <<pc, msg, result, cursor, store, acks, failures, crashes,
                   published, installed>>

\* An apply event enters handleApplyEvent.
Deliver ==
    /\ pc = "idle"
    /\ ready # <<>>
    /\ Head(ready).form = "valid"
    /\ msg' = Head(ready)
    /\ ready' = Tail(ready)
    /\ pc' = "readCursor"
    /\ UNCHANGED <<result, cursor, store, acks, failures, crashes, published,
                   installed>>

\* The event in hand is newer than the cursor.  Faulty variant: without the
\* tie-break (against CursorNeverRegresses).
FreshByTime ==
    \/ cursor[msg.key] = NoCursor
    \/ cursor[msg.key] # NoCursor /\ msg.ts >= cursor[msg.key].ts

Fresh == IsStrictlyNewer(cursor[msg.key], PositionOf(msg))

\* The cursor already reached the event: confirm it without applying it.
SkipStale ==
    /\ pc = "readCursor"
    /\ ~ Fresh
    /\ result' = "applied"
    /\ pc' = "publishAck"
    /\ UNCHANGED <<ready, msg, cursor, store, acks, failures, crashes,
                   published, installed>>

\* Faulty variant of RejectUnserved: it reports success (against AcksAreTrue).
ConfirmUnserved ==
    /\ pc = "readCursor"
    /\ Fresh
    /\ msg.key \notin Served
    /\ result' = "applied"
    /\ pc' = "publishAck"
    /\ UNCHANGED <<ready, msg, cursor, store, acks, failures, crashes,
                   published, installed>>

\* No auth instance for the event's track: refuse it, leaving the cursor.
RejectUnserved ==
    /\ pc = "readCursor"
    /\ Fresh
    /\ msg.key \notin Served
    /\ result' = "error"
    /\ pc' = "publishAck"
    /\ UNCHANGED <<ready, msg, cursor, store, acks, failures, crashes,
                   published, installed>>

\* Faulty variant of Accept: the cursor is moved before the credential is
\* stored (against Converged).
AcceptMovingCursor ==
    /\ pc = "readCursor"
    /\ Fresh
    /\ msg.key \in Served
    /\ cursor' = [cursor EXCEPT ![msg.key] = PositionOf(msg)]
    /\ pc' = "apply"
    /\ UNCHANGED <<ready, msg, result, store, acks, failures, crashes,
                   published, installed>>

\* A newer event for a track served here goes on to the store.
Accept ==
    /\ pc = "readCursor"
    /\ Fresh
    /\ msg.key \in Served
    /\ pc' = "apply"
    /\ UNCHANGED <<ready, msg, result, cursor, store, acks, failures, crashes,
                   published, installed>>

\* auth.clients.delete or auth.clients.setSecretHash.
Apply ==
    /\ pc = "apply"
    /\ store' = [store EXCEPT ![msg.key] = Effect(msg)]
    /\ installed' = [installed EXCEPT ![msg.key] = PositionOf(msg)]
    /\ pc' = "writeCursor"
    /\ UNCHANGED <<ready, msg, result, cursor, acks, failures, crashes,
                   published>>

WriteCursor ==
    /\ pc = "writeCursor"
    /\ cursor' = [cursor EXCEPT ![msg.key] = PositionOf(msg)]
    /\ result' = "applied"
    /\ pc' = "publishAck"
    /\ UNCHANGED <<ready, msg, store, acks, failures, crashes, published,
                   installed>>

\* publishAckBack: the source's secret is looked up on a best-effort basis; a
\* receive-only peer never has it, and the acknowledgement then goes unsigned.
PublishAck ==
    /\ pc = "publishAck"
    /\ \E signed \in IF Managed THEN BOOLEAN ELSE {FALSE} :
          acks' = acks \cup {[eventId |-> msg.eventId, result |-> result,
                              signed |-> signed]}
    /\ pc' = "settle"
    /\ UNCHANGED <<ready, msg, result, cursor, store, failures, crashes,
                   published, installed>>

\* transport.ackMessage: the broker forgets the message.
Settle ==
    /\ pc = "settle"
    /\ pc' = "idle"
    /\ msg' = NoEvent
    /\ UNCHANGED <<ready, result, cursor, store, acks, failures, crashes,
                   published, installed>>
-----------------------------------------------------------------------------
(***************************************************************************)
(* Faults                                                                  *)
(***************************************************************************)

\* Faulty variants of Requeue: the message loses its place (against
\* StoreIsLatestWins); nack without requeue (against NothingLost).
RequeueAtTail ==
    /\ pc # "idle"
    /\ ready' = Append(ready, msg)
    /\ msg' = NoEvent
    /\ pc' = "idle"

RequeueNothing ==
    /\ pc # "idle"
    /\ ready' = ready
    /\ msg' = NoEvent
    /\ pc' = "idle"

\* The message goes back to the head of the queue and the handler ends.
Requeue ==
    /\ pc # "idle"
    /\ ready' = <<msg>> \o ready
    /\ msg' = NoEvent
    /\ pc' = "idle"

\* An awaited call throws: onMessage catches and nacks with requeue.  The call
\* may have taken effect before it threw: that is the fault one step later.
HandlerFails ==
    /\ Requeue
    /\ failures < MaxFailures
    /\ failures' = failures + 1
    /\ UNCHANGED <<result, cursor, store, acks, crashes, published, installed>>

\* The process dies; the broker requeues what it had not acknowledged.
Crash ==
    /\ Requeue
    /\ crashes < MaxCrashes
    /\ crashes' = crashes + 1
    /\ UNCHANGED <<result, cursor, store, acks, failures, published, installed>>
-----------------------------------------------------------------------------
Handle ==
    \/ DropInvalid
    \/ Deliver
    \/ SkipStale
    \/ RejectUnserved
    \/ Accept
    \/ Apply
    \/ WriteCursor
    \/ PublishAck
    \/ Settle

Next ==
    \/ \E event \in Event : Publish(event)
    \/ Handle
    \/ HandlerFails
    \/ Crash

Spec == Init /\ [][Next]_vars

\* The event loop runs a handler that can go on; nobody must publish, and no
\* fault must happen.
FairSpec == Spec /\ WF_vars(Handle)
-----------------------------------------------------------------------------
(***************************************************************************)
(* Properties                                                              *)
(***************************************************************************)

\* Every variable keeps its shape, and the handler has a message exactly
\* while it runs.
TypeOK ==
    /\ ready \in Seq(Event)
    /\ pc \in Steps
    /\ msg \in Event \cup {NoEvent}
    /\ (pc = "idle") = (msg = NoEvent)
    /\ result \in Verdicts
    /\ cursor \in [Keys -> Cursors]
    /\ store \in [Keys -> Credential]
    /\ acks \subseteq Ack
    /\ failures \in 0..MaxFailures
    /\ crashes \in 0..MaxCrashes
    /\ published \subseteq Event
    /\ installed \in [Keys -> Cursors]

\* The events of key k that a peer which serves k has to honour.
EventsFor(k) == {e \in published : e.form = "valid" /\ e.key = k}

\* An acknowledgement tells the source the truth, whatever was redelivered,
\* retried or interrupted before it was sent (publishAckBack): "applied" is
\* only said once the durable cursor has reached the event, and "error" only
\* of a key that this peer does not serve.
AcksAreTrue ==
    \A ack \in acks : \A e \in published : e.eventId = ack.eventId =>
        IF ack.result = "applied"
        THEN Reached(cursor[e.key], PositionOf(e))
        ELSE e.key \notin Served

\* Zero loss: a well-formed event is either still owed by the broker or has
\* been answered, so no failure or crash makes one vanish without a verdict.
NothingLost ==
    \A e \in published : e.form = "valid" =>
        \/ e \in Held
        \/ \E ack \in acks : ack.eventId = e.eventId

\* 0 desync: once no event of a served key is in the queue or in the handler,
\* the store answers what the newest of all events ever sent for it says, in
\* whatever order they came and however often the handler was interrupted.
Converged ==
    \A k \in Served :
        EventsFor(k) \cap Held = {} =>
            \A e \in EventsFor(k) :
                (\A o \in EventsFor(k) \ {e} :
                    IsStrictlyNewer(PositionOf(o), PositionOf(e)))
                => store[k] = Effect(e)

\* Anti-regression: the durable cursor of a key only moves to strictly newer
\* positions (isStrictlyNewer guards every path to writeCursor).
CursorNeverRegresses ==
    [][\A k \in Keys :
          \/ cursor'[k] = cursor[k]
          \/ IsStrictlyNewer(cursor[k], cursor'[k])]_vars

\* The credential store as registers stamped with the event behind them.
Registers == INSTANCE LatestWins
             WITH Values <- Credential, value <- store, stamp <- installed

\* The store itself never goes back to an older event, not even when the
\* process dies between setSecretHash and writeCursor and the cursor lags
\* behind the store: it implements last-position-wins registers.
StoreIsLatestWins == Registers!LWSpec

\* Faults permitting, the handler works off the whole queue: no message is
\* left unsettled with prefetch=1 (src/transport.ts:92-95 names that freeze).
QueueDrains == <>[](ready = <<>> /\ pc = "idle")
-----------------------------------------------------------------------------
(***************************************************************************)
(* The inductive invariant behind the properties                           *)
(***************************************************************************)

\* No two events share an identifier.
UniqueIds ==
    \A e, o \in published : e.eventId = o.eventId => e = o

\* The broker and the handler only hold what some source published, and
\* acknowledgements only answer published events.
NothingInvented ==
    /\ Held \subseteq published
    /\ \A ack \in acks : \E e \in published : e.eventId = ack.eventId

\* The message the handler holds, or the one it will get next.
Current ==
    IF pc # "idle" THEN msg ELSE IF ready = <<>> THEN NoEvent ELSE Head(ready)

\* The store is ahead of the cursor only for the message in turn: between
\* setSecretHash and writeCursor, or back at the head after a fault there.
CursorLagsByCurrent ==
    \A k \in Keys : installed[k] # cursor[k] =>
        /\ Current # NoEvent
        /\ Current.form = "valid"
        /\ Current.key = k
        /\ installed[k] = PositionOf(Current)
        /\ IsStrictlyNewer(cursor[k], installed[k])
        /\ pc \in {"idle", "readCursor", "apply", "writeCursor"}

\* The store answers what the event it was last written for says.
StoreIsBacked ==
    \A k \in Keys :
        \/ installed[k] = NoCursor /\ store[k] = "absent"
        \/ \E e \in EventsFor(k) :
              installed[k] = PositionOf(e) /\ store[k] = Effect(e)

\* Nothing is ever stored for a key that is not served.
UnservedUntouched ==
    \A k \in Keys \ Served : cursor[k] = NoCursor /\ installed[k] = NoCursor

\* What the handler knows at each of its steps.
HandlerKnows ==
    /\ pc # "idle" => msg.form = "valid"
    /\ pc \in {"apply", "writeCursor"} =>
          /\ msg.key \in Served
          /\ IsStrictlyNewer(cursor[msg.key], PositionOf(msg))
    /\ pc = "writeCursor" => installed[msg.key] = PositionOf(msg)
    /\ pc \in {"publishAck", "settle"} =>
          IF result = "applied"
          THEN Reached(cursor[msg.key], PositionOf(msg))
          ELSE msg.key \notin Served
    /\ pc = "settle" => \E ack \in acks : ack.eventId = msg.eventId

\* Every step keeps this conjunction, and it implies each safety property of
\* this module: it is what the handler's order of awaited calls maintains.
IInv ==
    /\ TypeOK
    /\ UniqueIds
    /\ NothingInvented
    /\ NothingLost
    /\ AcksAreTrue
    /\ CursorLagsByCurrent
    /\ StoreIsBacked
    /\ UnservedUntouched
    /\ HandlerKnows
=============================================================================
