------------------------------- MODULE Source -------------------------------
(***************************************************************************)
(* The publishing role of one peer: ensure, rotate and revoke              *)
(* (src/propagator.ts), the sync passes (src/sync.ts) and the handling of  *)
(* the acknowledgements that come back (src/consume.ts), over the          *)
(* operator's tables (Management) and the book-keeping in Redis (AckStore).*)
(*                                                                         *)
(* Operations, passes and the acknowledgement handler interleave at every  *)
(* awaited call.  The targets are the environment: each takes the events   *)
(* of its durable queue in order and answers them (module Inbound).        *)
(*                                                                         *)
(* A plain secret and its hash are the same thing here, for they determine *)
(* each other, and each operation brings a secret of its own: operation o  *)
(* brings secret o.                                                        *)
(***************************************************************************)
EXTENDS Naturals, Sequences, FiniteSets

CONSTANTS
    Clients,            \* clientIds
    Targets,            \* the amqpQueues of the targets
    Refusing,           \* the targets that answer every event with "error"
    Syncers,            \* the sync passes that may run at the same time
    Kinds,              \* what the operator asks for
    FaultKinds,         \* what may go wrong
    MaxOps,             \* bound on the operations
    MaxEvents,          \* bound on the events published
    MaxFaults,          \* bound on the faults
    OperatorWaits,      \* what an operation waits for before it starts
    PatientTargets,     \* targets only answer between sync passes
    NoPlain,            \* secret_plain IS NULL
    NoRow,              \* no credential row
    Absent,             \* no credential in the local store
    None                \* nothing in hand

Ops == 1..MaxOps

Ids == 1..MaxEvents

AllKinds == {"ensure", "rotate", "revoke"}

AllFaultKinds == {"publish", "unconfirmed", "redis", "mark", "callback",
                  "store", "crash", "expire", "duplicate"}

ASSUME SourceAssumption ==
    /\ MaxOps \in Nat /\ MaxEvents \in Nat /\ MaxFaults \in Nat
    /\ Refusing \subseteq Targets
    /\ Kinds \subseteq AllKinds
    /\ FaultKinds \subseteq AllFaultKinds
    /\ OperatorWaits \in {"never", "operations", "all"}
    /\ PatientTargets \in BOOLEAN
    /\ NoPlain \notin Ops /\ NoRow \notin Ops /\ NoPlain # NoRow
    /\ Absent \notin Ops
    /\ None \notin Ids

INSTANCE Management WITH Secrets <- Ops
Acks == INSTANCE AckStore

VARIABLES
    opPc,               \* opPc[o]: the next call of operation o
    ask,                \* ask[o]: what operation o asks for
    syncPc,             \* syncPc[s]: the next call of pass s
    todo,               \* todo[s]: the snapshot's propagations not begun
    work,               \* work[s]: the propagation in hand
    sending,            \* sending[s]: the event in hand
    handlerPc,          \* the next call of the acknowledgement handler
    handled,            \* the acknowledged eventId in hand
    db,                 \* the operator's tables
    redis,              \* the ack store
    local,              \* local[c]: this peer's own credential store
    events,             \* every event ever confirmed by the broker, by id
    mailbox,            \* mailbox[t]: the ids waiting in the queue of t
    inbox,              \* the acknowledged ids waiting in this peer's queue
    faults,             \* faults so far
    wish,               \* history: wish[c], the last operation committed
    due,                \* history: due[c][t], the operation a row stands for
    final,              \* history: final[c], the last status reported
    answered,           \* history: the ids that some target has answered
    counted,            \* history: the ids whose result was recorded
    past                \* history: what came in between (see NothingPast)

opVars      == <<opPc, ask>>
syncVars    == <<syncPc, todo, work, sending>>
handlerVars == <<handlerPc, handled>>
brokerVars  == <<events, mailbox, inbox>>
history     == <<wish, due, final, answered, counted, past>>
vars == <<opPc, ask, syncPc, todo, work, sending, handlerPc, handled, db, redis,
          local, events, mailbox, inbox, faults, wish, due, final, answered,
          counted, past>>

NoAsk == [kind |-> "none", client |-> None, targets |-> {}]

\* What a reader of the properties has to know of the past.  Of an operation:
\* that it committed while another operation, a pass or an event of the same
\* client was on its way, that it threw after its commit, that its plain secret
\* was erased while a row was still pending, and that two passes had it in hand.
\* Of the row of a target: that a pass broke off on it.  Of an event: that its
\* pass broke off before the row was marked, and that its record expired.
NothingPast == [overOperation |-> {}, overPass |-> {}, overMail |-> {},
                halted |-> {}, early |-> {}, overlapped |-> {}, left |-> {},
                torn |-> {}, expired |-> {}]

Init ==
    /\ opPc = [o \in Ops |-> "unused"]
    /\ ask = [o \in Ops |-> NoAsk]
    /\ syncPc = [s \in Syncers |-> "idle"]
    /\ todo = [s \in Syncers |-> {}]
    /\ work = [s \in Syncers |-> None]
    /\ sending = [s \in Syncers |-> None]
    /\ handlerPc = "idle"
    /\ handled = None
    /\ db = EmptyTables
    /\ redis = Acks!EmptyKeyspace
    /\ local = [c \in Clients |-> Absent]
    /\ events = <<>>
    /\ mailbox = [t \in Targets |-> <<>>]
    /\ inbox = <<>>
    /\ faults = 0
    /\ wish = [c \in Clients |-> NoRow]
    /\ due = [c \in Clients |-> [t \in Targets |-> NoRow]]
    /\ final = [c \in Clients |-> "none"]
    /\ answered = {}
    /\ counted = {}
    /\ past = NothingPast

\* One fault of this kind happens; the run bounds how many do.
Fault(kind) ==
    /\ kind \in FaultKinds
    /\ faults < MaxFaults
    /\ faults' = faults + 1

\* Every row of every credential has its verdict.
AllTerminal ==
    \A c \in Clients : \A t \in RowsOf(db, c) : db.status[c][t] \in Terminal

ClientOf(id) == events[id].client

TargetOf(id) == events[id].target

\* The steps of a pass at which it has a propagation, and an event, in hand.
AtTarget == {"publish", "record", "index", "mark"}
AfterPublish == {"record", "index", "mark"}

\* The propagations that pass s has not finished.
InHand(s) == todo[s] \cup {p \in {work[s]} : syncPc[s] \in AtTarget}

Holds(s, c) == \E p \in InHand(s) : p.client = c

\* Pass s has yet to tell target t about client c, or to mark its row.
Owes(s, c, t) ==
    \/ \E p \in InHand(s) : p.client = c /\ t \in p.targets
    \/ /\ syncPc[s] \in AfterPublish
       /\ ClientOf(sending[s]) = c /\ TargetOf(sending[s]) = t

\* The event with this id, or an acknowledgement of it, is on its way.
Underway(id) ==
    \/ \E t \in Targets : \E i \in DOMAIN mailbox[t] : mailbox[t][i] = id
    \/ \E i \in DOMAIN inbox : inbox[i] = id
    \/ handlerPc # "idle" /\ handled = id

MailOf(c) == {id \in DOMAIN events : ClientOf(id) = c /\ Underway(id)}

\* The rows that pass s leaves behind when it breaks off.
LeftBy(s) ==
    {<<due[x[1]][x[2]], x[2]>> :
        x \in {y \in Clients \X Targets : Owes(s, y[1], y[2])}}

\* No operation, pass, event or acknowledgement is on its way.
Settled ==
    /\ AllTerminal
    /\ \A o \in Ops : opPc[o] \in {"unused", "done"}
    /\ \A s \in Syncers : syncPc[s] = "idle"
    /\ handlerPc = "idle" /\ inbox = <<>>
    /\ \A t \in Targets : mailbox[t] = <<>>
-----------------------------------------------------------------------------
(***************************************************************************)
(* ensure, rotate, revoke                                                  *)
(***************************************************************************)

\* A request reaches the propagator.  rotate first asks the local store for
\* the client and fails with UNKNOWN_CLIENT when it is absent; what ensure
\* asks it only names the op.
Request(o, kind, c, targets) ==
    /\ opPc[o] = "unused"
    /\ \A p \in Ops : p < o => opPc[p] # "unused"
    /\ OperatorWaits # "never" => \A p \in Ops : opPc[p] \in {"unused", "done"}
    /\ OperatorWaits = "all" => Settled
    /\ kind = "rotate" => targets = {}
    /\ ask' = [ask EXCEPT ![o] =
                  [kind |-> kind, client |-> c, targets |-> targets]]
    /\ opPc' = [opPc EXCEPT ![o] =
                  IF kind = "rotate" /\ local[c] = Absent
                  THEN "done" ELSE "commit"]
    /\ UNCHANGED <<syncVars, handlerVars, db, redis, local, brokerVars, faults,
                   history>>

\* The plain secret an operation leaves in table 1.
PlainOf(o) == IF ask[o].kind = "revoke" THEN NoPlain ELSE o

\* The targets an operation is for: a rotation is for all there are.
Owed(o) == IF ask[o].kind = "rotate"
           THEN RowsOf(db, ask[o].client) ELSE ask[o].targets

\* The management callback commits its transaction; from now on the rows of
\* those targets stand for this operation, and those that are still pending.
Commit(o) ==
    LET c == ask[o].client
    IN  /\ opPc[o] = "commit"
        /\ opPc' = [opPc EXCEPT ![o] = "local"]
        /\ db' = IF ask[o].kind = "rotate"
                 THEN Rotate(db, c, PlainOf(o))
                 ELSE Upsert(db, c, PlainOf(o), ask[o].targets)
        /\ wish' = [wish EXCEPT ![c] = o]
        /\ due' = [due EXCEPT ![c] = [t \in Targets |->
                      IF t \in Owed(o) \cup PendingTargets(db, c)
                      THEN o ELSE @[t]]]
        /\ past' = [past EXCEPT
              !.overOperation = @ \cup {x \in {o} : \E p \in Ops :
                                   ask[p].client = c /\ opPc[p] = "local"},
              !.overPass = @ \cup {x \in {o} : \E s \in Syncers : Holds(s, c)},
              !.overMail = @ \cup {x \in {o} : MailOf(c) # {}}]
        /\ UNCHANGED <<ask, syncVars, handlerVars, redis, local, brokerVars,
                       faults, final, answered, counted>>

\* What an operation leaves in this peer's own credential store.  Faulty
\* variant: a rotation waits for the next pass (against LocalFollowsOperator).
LocalUnlessRotated(o) ==
    CASE ask[o].kind = "revoke" -> Absent
      [] ask[o].kind = "rotate" -> local[ask[o].client]
      [] OTHER -> o

LocalAfter(o) == IF PlainOf(o) = NoPlain THEN Absent ELSE o

\* The change is made in this peer's own credential store.
ApplyOperation(o) ==
    /\ opPc[o] = "local"
    /\ local' = [local EXCEPT ![ask[o].client] = LocalAfter(o)]
    /\ opPc' = [opPc EXCEPT ![o] = "done"]
    /\ UNCHANGED <<ask, syncVars, handlerVars, db, redis, brokerVars, faults,
                   history>>

\* The awaited call of an operation throws, and the operation with it.
OperationFails(o) ==
    /\ opPc[o] \in {"commit", "local"}
    /\ Fault("store")
    /\ opPc' = [opPc EXCEPT ![o] = "done"]
    /\ past' = [past EXCEPT !.halted = @ \cup {x \in {o} : opPc[x] = "local"}]
    /\ UNCHANGED <<ask, syncVars, handlerVars, db, redis, local, brokerVars,
                   wish, due, final, answered, counted>>
-----------------------------------------------------------------------------
(***************************************************************************)
(* runSync                                                                 *)
(***************************************************************************)

\* fetchPendingPropagations; a pass that finds nothing ends at once.
Fetch(s) ==
    /\ syncPc[s] = "idle"
    /\ PendingPropagations(db) # {}
    /\ todo' = [todo EXCEPT ![s] = PendingPropagations(db)]
    /\ syncPc' = [syncPc EXCEPT ![s] = "apply"]
    /\ past' = [past EXCEPT !.overlapped = @ \cup
                   {o \in Ops : \E c \in Clients :
                       db.plain[c] = o /\ \E r \in Syncers \ {s} : Holds(r, c)}]
    /\ UNCHANGED <<opVars, work, sending, handlerVars, db, redis, local,
                   brokerVars, faults, wish, due, final, answered, counted>>

\* applyLocal for the next propagation of the snapshot.
ApplyLocal(s) ==
    /\ syncPc[s] = "apply"
    /\ \E propagation \in todo[s] :
          /\ todo' = [todo EXCEPT ![s] = @ \ {propagation}]
          /\ work' = [work EXCEPT ![s] = propagation]
          /\ local' = [local EXCEPT ![propagation.client] =
                          IF propagation.plain = NoPlain
                          THEN Absent ELSE propagation.plain]
    /\ syncPc' = [syncPc EXCEPT ![s] = "publish"]
    /\ UNCHANGED <<opVars, sending, handlerVars, db, redis, brokerVars, faults,
                   history>>

\* applyLocal throws: runSync has no handler for it and the pass is over.
ApplyLocalFails(s) ==
    /\ syncPc[s] = "apply"
    /\ Fault("store")
    /\ syncPc' = [syncPc EXCEPT ![s] = "idle"]
    /\ todo' = [todo EXCEPT ![s] = {}]
    /\ past' = [past EXCEPT !.left = @ \cup LeftBy(s)]
    /\ UNCHANGED <<opVars, work, sending, handlerVars, db, redis, local,
                   brokerVars, wish, due, final, answered, counted>>

\* The pass goes on with the targets that are left of this propagation, then
\* with the propagations that are left of the snapshot, then it ends.
GoOn(s, targets) ==
    /\ sending' = [sending EXCEPT ![s] = None]
    /\ IF targets # {}
       THEN /\ syncPc' = [syncPc EXCEPT ![s] = "publish"]
            /\ work' = [work EXCEPT ![s].targets = targets]
       ELSE /\ syncPc' = [syncPc EXCEPT ![s] =
                             IF todo[s] = {} THEN "idle" ELSE "apply"]
            /\ work' = [work EXCEPT ![s] = None]

\* The broker takes an event for target t; its id is its place in events.
Enqueue(s, t) ==
    /\ Len(events) < MaxEvents
    /\ events' = Append(events, [client |-> work[s].client, target |-> t,
                                 secret |-> work[s].plain])
    /\ mailbox' = [mailbox EXCEPT ![t] = Append(@, Len(events) + 1)]

\* ensureQueueDeclared and publishToQueue, confirmed by the broker.
Publish(s) ==
    /\ syncPc[s] = "publish"
    /\ \E t \in work[s].targets :
          /\ Enqueue(s, t)
          /\ work' = [work EXCEPT ![s].targets = @ \ {t}]
    /\ sending' = [sending EXCEPT ![s] = Len(events) + 1]
    /\ syncPc' = [syncPc EXCEPT ![s] = "record"]
    /\ UNCHANGED <<opVars, todo, handlerVars, db, redis, local, inbox, faults,
                   history>>

\* The first half of recordPublishedEvent.
Record(s) ==
    /\ syncPc[s] = "record"
    /\ redis' = Acks!PutRecord(redis, sending[s])
    /\ syncPc' = [syncPc EXCEPT ![s] = "index"]
    /\ UNCHANGED <<opVars, todo, work, sending, handlerVars, db, local,
                   brokerVars, faults, history>>

\* Its second half.
Index(s) ==
    /\ syncPc[s] = "index"
    /\ redis' = Acks!AddPending(redis, work[s].client, sending[s])
    /\ syncPc' = [syncPc EXCEPT ![s] = "mark"]
    /\ UNCHANGED <<opVars, todo, work, sending, handlerVars, db, local,
                   brokerVars, faults, history>>

\* The tables after markTargetSent.  Faulty variants: the row stays pending
\* (against PublishOnce); the confirm of the broker is taken for the verdict of
\* the target (against VerdictIsWitnessed).
LeftPending(s) == db

ConfirmedAsSuccess(s) ==
    Mark(db, work[s].client, events[sending[s]].target, "success")

MarkedSent(s) == Mark(db, work[s].client, events[sending[s]].target, "sent")

MarkSent(s) ==
    /\ syncPc[s] = "mark"
    /\ db' = MarkedSent(s)
    /\ GoOn(s, work[s].targets)
    /\ UNCHANGED <<opVars, todo, handlerVars, redis, local, brokerVars, faults,
                   history>>

\* Faulty variant of PublishFails: the row is marked before the publish
\* (against SentMeansPublished).
PublishFailsMarked(s) ==
    /\ syncPc[s] = "publish"
    /\ \E t \in work[s].targets :
          /\ Fault("publish")
          /\ db' = Mark(db, work[s].client, t, "sent")
          /\ GoOn(s, work[s].targets \ {t})
          /\ past' = [past EXCEPT !.left = @ \cup {<<due[work[s].client][t], t>>}]
    /\ UNCHANGED <<opVars, todo, handlerVars, redis, local, brokerVars, wish, due,
                   final, answered, counted>>

\* The publish throws: the pass logs it and goes on with the next target.  In
\* the second case the broker took the event and only the confirm was lost.
PublishFails(s) ==
    /\ syncPc[s] = "publish"
    /\ \E t \in work[s].targets :
          /\ \/ Fault("publish") /\ UNCHANGED <<events, mailbox>>
             \/ Fault("unconfirmed") /\ Enqueue(s, t)
          /\ GoOn(s, work[s].targets \ {t})
          /\ past' = [past EXCEPT !.left = @ \cup {<<due[work[s].client][t], t>>},
                                 !.torn = @ \cup (DOMAIN events' \ DOMAIN events)]
    /\ UNCHANGED <<opVars, todo, handlerVars, db, redis, local, inbox, wish, due,
                   final, answered, counted>>

\* A later call for this target throws, with the same consequence.
BookkeepingFails(s) ==
    /\ \/ syncPc[s] \in {"record", "index"} /\ Fault("redis")
       \/ syncPc[s] = "mark" /\ Fault("mark")
    /\ GoOn(s, work[s].targets)
    /\ past' = [past EXCEPT
          !.left = @ \cup {<<due[ClientOf(sending[s])][TargetOf(sending[s])],
                           TargetOf(sending[s])>>},
          !.torn = @ \cup {sending[s]}]
    /\ UNCHANGED <<opVars, todo, handlerVars, db, redis, local, brokerVars, wish,
                   due, final, answered, counted>>
-----------------------------------------------------------------------------
(***************************************************************************)
(* handleAckEvent                                                          *)
(***************************************************************************)

\* The verdict of the acknowledgement.
VerdictOf(id) == IF TargetOf(id) \in Refusing THEN "error" ELSE "success"

\* No event of the client is pending any more.
NothingPending(c) == Acks!PendingCount(redis, c) = 0

\* The broker delivers the next acknowledgement.
TakeAck ==
    /\ handlerPc = "idle"
    /\ inbox # <<>>
    /\ handled' = Head(inbox)
    /\ inbox' = Tail(inbox)
    /\ handlerPc' = "lookup"
    /\ UNCHANGED <<opVars, syncVars, db, redis, local, events, mailbox, faults,
                   history>>

\* The handler is done and the message is acknowledged to the broker.
Finish == handlerPc' = "idle" /\ handled' = None

\* readPublishedEvent finds nothing: the acknowledgement is dropped.
DropUnknown ==
    /\ handlerPc = "lookup"
    /\ ~ Acks!Known(redis, handled)
    /\ Finish
    /\ UNCHANGED <<opVars, syncVars, db, redis, local, brokerVars, faults,
                   history>>

\* readPublishedEvent finds the record, and recordTargetResult replaces it by
\* the result.
RecordResult ==
    /\ handlerPc = "lookup"
    /\ Acks!Known(redis, handled)
    /\ redis' = Acks!PutResult(redis, ClientOf(handled), TargetOf(handled),
                               VerdictOf(handled), handled)
    /\ counted' = counted \cup {handled}
    /\ handlerPc' = "mark"
    /\ UNCHANGED <<opVars, syncVars, handled, db, local, brokerVars, faults,
                   wish, due, final, answered, past>>

\* markTargetSuccess or markTargetError.
MarkResult ==
    /\ handlerPc = "mark"
    /\ db' = Mark(db, ClientOf(handled), TargetOf(handled), VerdictOf(handled))
    /\ handlerPc' = "count"
    /\ UNCHANGED <<opVars, syncVars, handled, redis, local, brokerVars, faults,
                   history>>

\* pendingCountForClient: more to come, or the credential is done.
CountPending ==
    /\ handlerPc = "count"
    /\ IF NothingPending(ClientOf(handled))
       THEN handlerPc' = "finalize" /\ UNCHANGED handled
       ELSE Finish
    /\ UNCHANGED <<opVars, syncVars, db, redis, local, brokerVars, faults,
                   history>>

\* markCredentialFullyPropagated, with the status that the collected results
\* add up to.
Finalize ==
    /\ handlerPc = "finalize"
    /\ db' = ClearPlain(db, ClientOf(handled))
    /\ final' = [final EXCEPT ![ClientOf(handled)] =
                    Acks!AggregateFinalStatus(redis.results[ClientOf(handled)])]
    /\ handlerPc' = "clear"
    /\ past' = [past EXCEPT !.early = @ \cup
                   {o \in Ops : /\ wish[ClientOf(handled)] = o
                                /\ db.plain[ClientOf(handled)] # NoPlain
                                /\ PendingTargets(db, ClientOf(handled)) # {}}]
    /\ UNCHANGED <<opVars, syncVars, handled, redis, local, brokerVars, faults,
                   wish, due, answered, counted>>

\* clearClientAggregates.
Clear ==
    /\ handlerPc = "clear"
    /\ redis' = Acks!ClearAggregates(redis, ClientOf(handled))
    /\ Finish
    /\ UNCHANGED <<opVars, syncVars, db, local, brokerVars, faults, history>>

\* A call after the result was recorded throws: it is logged, and the message
\* is acknowledged all the same.
CallbackFails ==
    /\ handlerPc \in {"mark", "count", "finalize", "clear"}
    /\ Fault("callback")
    /\ Finish
    /\ UNCHANGED <<opVars, syncVars, db, redis, local, brokerVars, history>>

\* A Redis call before that throws: runHandler requeues the message.
HandlerFails ==
    /\ handlerPc = "lookup"
    /\ Fault("redis")
    /\ inbox' = <<handled>> \o inbox
    /\ Finish
    /\ UNCHANGED <<opVars, syncVars, db, redis, local, events, mailbox, history>>
-----------------------------------------------------------------------------
(***************************************************************************)
(* The environment                                                         *)
(***************************************************************************)

\* A target handles the next event of its queue and acknowledges it; when it
\* is interrupted before it settles the event, it answers it again later.
Answer(t) ==
    /\ mailbox[t] # <<>>
    /\ PatientTargets => \A s \in Syncers : syncPc[s] = "idle"
    /\ \/ mailbox' = [mailbox EXCEPT ![t] = Tail(@)] /\ UNCHANGED faults
       \/ UNCHANGED mailbox /\ Fault("duplicate")
    /\ inbox' = Append(inbox, Head(mailbox[t]))
    /\ answered' = answered \cup {Head(mailbox[t])}
    /\ UNCHANGED <<opVars, syncVars, handlerVars, db, redis, local, events,
                   wish, due, final, counted, past>>

\* The record of an event outlives its TTL of seven days.
Expire(id) ==
    /\ Acks!Known(redis, id)
    /\ Fault("expire")
    /\ redis' = Acks!Expire(redis, id)
    /\ past' = [past EXCEPT !.expired = @ \cup {id}]
    /\ UNCHANGED <<opVars, syncVars, handlerVars, db, local, brokerVars, wish,
                   due, final, answered, counted>>

\* The aggregates of a client, its pending set or its results, outlive theirs.
ExpireAggregate(c) ==
    /\ Fault("expire")
    /\ \/ redis.index[c] # {} /\ redis' = Acks!ExpirePending(redis, c)
       \/ redis.results[c] # Acks!NoResults /\ redis' = Acks!ExpireResults(redis, c)
    /\ UNCHANGED <<opVars, syncVars, handlerVars, db, local, brokerVars, history>>

\* The process dies and starts again: what was running is gone, and the
\* acknowledgement in hand is delivered again.
Crash ==
    /\ Fault("crash")
    /\ opPc' = [o \in Ops |-> IF opPc[o] = "unused" THEN "unused" ELSE "done"]
    /\ syncPc' = [s \in Syncers |-> "idle"]
    /\ todo' = [s \in Syncers |-> {}]
    /\ work' = [s \in Syncers |-> None]
    /\ sending' = [s \in Syncers |-> None]
    /\ inbox' = IF handlerPc = "idle" THEN inbox ELSE <<handled>> \o inbox
    /\ Finish
    /\ past' = [past EXCEPT
          !.halted = @ \cup {o \in Ops : opPc[o] = "local"},
          !.left = @ \cup UNION {LeftBy(s) : s \in Syncers},
          !.torn = @ \cup {sending[s] : s \in {r \in Syncers :
                                                syncPc[r] \in AfterPublish}}]
    /\ UNCHANGED <<ask, db, redis, local, events, mailbox, wish, due, final,
                   answered, counted>>
-----------------------------------------------------------------------------
Operate ==
    \E o \in Ops :
        \/ \E kind \in Kinds, c \in Clients, targets \in SUBSET Targets :
              Request(o, kind, c, targets)
        \/ Commit(o)
        \/ ApplyOperation(o)
        \/ OperationFails(o)

Sync(s) ==
    \/ Fetch(s)
    \/ ApplyLocal(s)
    \/ Publish(s)
    \/ Record(s)
    \/ Index(s)
    \/ MarkSent(s)

SyncFails(s) ==
    \/ ApplyLocalFails(s)
    \/ PublishFails(s)
    \/ BookkeepingFails(s)

HandleAck ==
    \/ TakeAck
    \/ DropUnknown
    \/ RecordResult
    \/ MarkResult
    \/ CountPending
    \/ Finalize
    \/ Clear

Next ==
    \/ Operate
    \/ \E s \in Syncers : Sync(s) \/ SyncFails(s)
    \/ HandleAck
    \/ CallbackFails
    \/ HandlerFails
    \/ \E t \in Targets : Answer(t)
    \/ \E id \in Ids : Expire(id)
    \/ \E c \in Clients : ExpireAggregate(c)
    \/ Crash

Spec == Init /\ [][Next]_vars

\* The event loop goes on with what was begun, a pass is started again and
\* again (a cron or a timer), and the targets work off their queues.  Nobody
\* has to ask for anything, and no fault has to happen.
Fairness ==
    /\ \A o \in Ops : WF_vars(Commit(o) \/ ApplyOperation(o))
    /\ \A s \in Syncers : WF_vars(Sync(s))
    /\ WF_vars(HandleAck)
    /\ \A t \in Targets : WF_vars(Answer(t))

FairSpec == Spec /\ Fairness
-----------------------------------------------------------------------------
(***************************************************************************)
(* Properties                                                              *)
(***************************************************************************)

Propagation == [client : Clients, plain : Ops \cup {NoPlain},
                targets : SUBSET Targets]

Asks == [kind : Kinds, client : Clients, targets : SUBSET Targets]

Event == [client : Clients, target : Targets, secret : Ops \cup {NoPlain}]

Pasts == [overOperation : SUBSET Ops, overPass : SUBSET Ops,
          overMail : SUBSET Ops, halted : SUBSET Ops, early : SUBSET Ops,
          overlapped : SUBSET Ops, left : SUBSET ((Ops \cup {NoRow}) \X Targets),
          torn : SUBSET Ids, expired : SUBSET Ids]

\* Every variable keeps its shape.
TypeOK ==
    /\ opPc \in [Ops -> {"unused", "commit", "local", "done"}]
    /\ ask \in [Ops -> Asks \cup {NoAsk}]
    /\ \A o \in Ops : opPc[o] = "unused" <=> ask[o] = NoAsk
    /\ syncPc \in [Syncers -> {"idle", "apply", "publish", "record", "index",
                               "mark"}]
    /\ todo \in [Syncers -> SUBSET Propagation]
    /\ work \in [Syncers -> Propagation \cup {None}]
    /\ sending \in [Syncers -> Ids \cup {None}]
    /\ handlerPc \in {"idle", "lookup", "mark", "count", "finalize", "clear"}
    /\ handled \in Ids \cup {None}
    /\ (handlerPc = "idle") = (handled = None)
    /\ db \in Tables
    /\ redis \in Acks!Keyspace
    /\ local \in [Clients -> Ops \cup {Absent}]
    /\ events \in Seq(Event)
    /\ mailbox \in [Targets -> Seq(Ids)]
    /\ inbox \in Seq(Ids)
    /\ faults \in 0..MaxFaults
    /\ wish \in [Clients -> Ops \cup {NoRow}]
    /\ due \in [Clients -> [Targets -> Ops \cup {NoRow}]]
    /\ final \in [Clients -> {"none", "success", "partial", "error"}]
    /\ answered \subseteq Ids
    /\ counted \subseteq Ids
    /\ past \in Pasts

EventIds == DOMAIN events

\* The ids of the events that went to target t about client c.
Sent(c, t) == {id \in EventIds : ClientOf(id) = c /\ TargetOf(id) = t}

\* What may have gone wrong for the rows of an operation: it committed while a
\* pass had an older propagation of the client in hand (sync.ts:32), or its plain
\* secret was erased too early (PlainKeptWhileOwed).
Overtaken == past.overPass \cup past.early

\* Zero loss at the source: a row that says "sent" stands for an event that the
\* broker really has, with the secret that was asked for last, whatever failed
\* in the pass and however passes overlapped; unless the operation was overtaken.
SentMeansPublished ==
    \A c \in Clients, t \in Targets :
        (db.status[c][t] = "sent" /\ due[c][t] \notin Overtaken) =>
            \E id \in Sent(c, t) : events[id].secret = PlainOf(due[c][t])

\* A row only shows a verdict that its target gave for an event of that
\* client, however the acknowledgements were delayed, repeated or retried.
VerdictIsWitnessed ==
    \A c \in Clients, t \in Targets :
        db.status[c][t] \in Terminal =>
            /\ Sent(c, t) \cap answered # {}
            /\ (db.status[c][t] = "error") = (t \in Refusing)

\* architecture.md:139, as the document has it: the plain secret is kept until
\* all targets are terminal, for a pass that still has to publish needs it.
PlainKeptUntilTerminal ==
    \A c \in Clients :
        (db.plain[c] = NoPlain /\ wish[c] # NoRow /\ PlainOf(wish[c]) # NoPlain) =>
            \A t \in RowsOf(db, c) : db.status[c][t] \in Terminal

\* architecture.md:139, as far as the code has it: the plain secret is erased
\* while a row is pending only if a pass is about to tell that target (which has
\* the secret in its snapshot), or one broke off on it, or the operation came
\* while a pass, an event or an acknowledgement of the client was on its way.
PlainKeptWhileOwed ==
    [][Finalize =>
        LET c == ClientOf(handled)
        IN  db.plain[c] # NoPlain => \A t \in PendingTargets(db, c) :
                \/ \E s \in Syncers : Owes(s, c, t)
                \/ <<due[c][t], t>> \in past.left
                \/ due[c][t] \in past.overPass \cup past.overMail]_vars

\* A deletion is only sent out for a client that the operator revoked.
DeletionsAreAsked ==
    \A id \in EventIds :
        events[id].secret = NoPlain =>
            \E o \in Ops : ask[o].kind = "revoke" /\ ask[o].client = ClientOf(id)

\* Or, as far as the code has it, for one whose plain secret was erased while a
\* row was pending: there is no other way to a deletion that nobody asked for.
DeletionsHaveCause ==
    \A id \in EventIds :
        events[id].secret = NoPlain =>
            \E o \in Ops : /\ ask[o].client = ClientOf(id)
                           /\ ask[o].kind = "revoke" \/ o \in past.early

\* architecture.md:135: a target that is offline finds one message per client
\* and secret in its queue.  As far as the code has it: unless two passes had the
\* propagation in hand at the same time, or one broke off between the publish
\* and the mark of the row.
PublishOnce ==
    \A i, j \in EventIds :
        /\ i # j /\ ClientOf(i) = ClientOf(j) /\ TargetOf(i) = TargetOf(j)
        /\ events[i].secret = events[j].secret /\ events[i].secret \in Ops
        => events[i].secret \in past.overlapped \/ {i, j} \cap past.torn # {}

\* A row only has a verdict when its target has answered for the secret that the
\* row stands for, so that no rotation is taken for propagated before it is;
\* unless the operation was overtaken, or it came while an event or an
\* acknowledgement of an older one was on its way.
VerdictIsCurrent ==
    \A c \in Clients, t \in Targets :
        (db.status[c][t] \in Terminal /\ due[c][t] \notin Overtaken \cup past.overMail) =>
            \E id \in Sent(c, t) \cap answered : events[id].secret = PlainOf(due[c][t])

\* An operation takes effect on this peer at once and stays in effect
\* (propagator.ts:123-124), whatever passes do afterwards; unless it threw after
\* its commit, was overtaken, or ran into another operation for the client.
LocalFollowsOperator ==
    \A c \in Clients :
        (/\ wish[c] \in Ops /\ opPc[wish[c]] = "done"
         /\ wish[c] \notin Overtaken \cup past.overOperation \cup past.halted)
        => local[c] = IF PlainOf(wish[c]) = NoPlain THEN Absent ELSE wish[c]

\* An acknowledgement is only dropped as unknown when the event's result has
\* been recorded before (consume.ts:136-139), or its record is lost, by the end
\* of its pass or of its TTL, or about to be written (sync.ts:62-63).
FirstAckIsKnown ==
    [][DropUnknown =>
        \/ handled \in counted \cup past.torn \cup past.expired
        \/ \E s \in Syncers : syncPc[s] = "record" /\ sending[s] = handled]_vars

\* The status reported with a credential is the one its rows show, of those
\* that the last request set to pending: results of an earlier request do not
\* leak into it, and none is missing (wire-contract.md:77-78).
FinalStatusIsTrue ==
    [][Finalize =>
        LET c == ClientOf(handled)
            verdicts == {db.status[c][t] : t \in
                            {u \in RowsOf(db, c) : due[c][u] = wish[c]}}
        IN  final'[c] = CASE verdicts = {"success"} -> "success"
                          [] verdicts = {"error"} -> "error"
                          [] verdicts = Terminal -> "partial"
                          [] OTHER -> "none"]_vars

\* The book-keeping is empty, and a plain secret is only kept for a credential
\* that its last request propagates to nobody.
NothingLeft ==
    /\ redis = Acks!EmptyKeyspace
    /\ \A c \in Clients, t \in Targets :
          (wish[c] # NoRow /\ due[c][t] = wish[c]) => db.plain[c] = NoPlain

\* architecture.md:139: when the last row has its verdict, the plain secret is
\* erased and the ack store forgets the client, whatever order the
\* acknowledgements came in: nothing is left for the next request to trip over.
SettledIsClean == Settled => NothingLeft

\* architecture.md:135-141: a row that was sent waits for its acknowledgement
\* and is flipped by it; in the end every row is terminal, the plain secret is
\* gone unless it was for no target, and the book-keeping is empty.
PropagationSettles == <>[](Settled /\ NothingLeft)

\* Every row gets its verdict in the end.
RowsBecomeTerminal == <>[]AllTerminal

\* A target has been told from the moment the broker has its event, which is
\* three awaits before its row says so.
RowPhase ==
    [c \in Clients |-> [t \in Targets |->
        IF \E s \in Syncers : /\ syncPc[s] \in AfterPublish
                             /\ ClientOf(sending[s]) = c /\ TargetOf(sending[s]) = t
        THEN "sent" ELSE db.status[c][t]]]

Propagating == INSTANCE Rounds WITH
    Secrets <- Ops, secret <- db.plain, phase <- RowPhase, told <- events,
    heard <- answered

\* architecture.md:126, 135-141: every row goes from pending over sent to its
\* verdict, its target is told once on the way, with the secret that was asked
\* for last, and the plain secret is kept until the last verdict of the round.
PropagatesInRounds == Propagating!RoundsSpec
-----------------------------------------------------------------------------
(***************************************************************************)
(* The inductive invariant of SourceProofs                                 *)
(***************************************************************************)

\* What a pass has in hand: a propagation, and then an event of its client.
PassKnows ==
    \A s \in Syncers :
        /\ syncPc[s] \in AtTarget => work[s] \in Propagation
        /\ syncPc[s] \in AfterPublish =>
              sending[s] \in EventIds /\ ClientOf(sending[s]) = work[s].client

\* What is on its way was published, and what comes back was answered.
MailIsReal ==
    /\ Len(events) <= MaxEvents
    /\ \A t \in Targets : \A i \in DOMAIN mailbox[t] : mailbox[t][i] \in EventIds
    /\ \A i \in DOMAIN inbox : inbox[i] \in answered
    /\ answered \subseteq EventIds
    /\ handlerPc # "idle" => handled \in answered

\* The foreign key of table 3: a row needs its credential.
RowsHaveCredential ==
    \A c \in Clients, t \in Targets :
        db.status[c][t] # "none" => db.plain[c] # NoRow

RowsAreReal == RowsHaveCredential /\ VerdictIsWitnessed

\* A pass marks a row only with an event in hand, the handler only with an
\* answer: that is what the rows rest on, whatever fails.
IInv == TypeOK /\ PassKnows /\ MailIsReal /\ RowsAreReal
=============================================================================
