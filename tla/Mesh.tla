-------------------------------- MODULE Mesh --------------------------------
(***************************************************************************)
(* Peers and the queues between them: what ensure, rotate and revoke at    *)
(* one peer do to the credential stores of the others, over each operator's*)
(* own tables (Management, and table 2, the targets) and Redis (AckStore,  *)
(* Cursor).  A pass is one action per awaited call, so that answers come   *)
(* back while it runs.  A handler and an operation are one action each, a  *)
(* peer runs one pass at a time and no call throws: what else interleaves  *)
(* and fails inside them is in Inbound, Source and Delivery.               *)
(*                                                                         *)
(* There is one credential; operation o brings plain secret o.  A hash is  *)
(* determined by the plain secret and the pepper of the peer that hashed   *)
(* it, and every peer has its own pepper.  An event is named by its place  *)
(* among all events, which is also its timestamp: the clocks of the peers  *)
(* agree as far as the order of their events goes.                         *)
(***************************************************************************)
EXTENDS Cursor, Sequences, SequencesExt, FiniteSets

CONSTANTS
    Peers,
    Full,               \* the peers with a management adapter
    Kinds,              \* what operators ask for
    MaxOps,             \* bound on the operations
    MaxEvents,          \* bound on the events
    MaxEdits,           \* bound on the changes of tables 2
    MaxFaults,          \* bound on the repeated deliveries
    OperatorsWait,      \* operators take turns
    Client,             \* the clientId
    NoPlain, NoRow,     \* as in Management
    Absent,             \* no credential in a peer's store
    None                \* no event in hand

Ops == 1..MaxOps

Ids == 1..MaxEvents

ASSUME MeshAssumption ==
    /\ Full \subseteq Peers
    /\ Kinds \subseteq {"ensure", "rotate", "revoke"}
    /\ {MaxOps, MaxEvents, MaxEdits, MaxFaults} \subseteq Nat
    /\ OperatorsWait \in BOOLEAN
    /\ {NoPlain, NoRow} \cap Ops = {} /\ NoPlain # NoRow
    /\ None \notin [to : Peers, id : Ids]

INSTANCE Management WITH Clients <- {Client}, Targets <- Peers, Secrets <- Ops
Acks == INSTANCE AckStore WITH Clients <- {Client}, Targets <- Peers

\* The entry of a target in table 2: absent, or with the secret the target
\* has in its environment, or with another one.
Entries == {"none", "right", "wrong"}

VARIABLES
    table2,             \* table2[p][q]: p's entry for q
    db,                 \* db[p]: p's tables 1 and 3
    redis,              \* redis[p]: p's ack store
    store,              \* store[p]: the hash in p's credential store
    cursor,             \* cursor[p]: p's durable cursor
    queue,              \* queue[p]: the messages in p's queue
    at,                 \* at[p]: the next call of p's pass
    plain,              \* plain[p]: the plain secret in its snapshot
    todo,               \* todo[p]: the targets it has not begun, with their keys
    sending,            \* sending[p]: the event it has in hand, and its target
    events,             \* the events made so far
    asked,              \* the operations so far
    edits,              \* the changes of tables 2 so far
    faults,             \* faults so far
    author,             \* history: the peer of the last operation
    told,               \* history: the peers that its events could reach
    edited,             \* history: the entries that were changed, from what to what
    hasty               \* history: the peers that were answered before their pass
                        \* had the event on record

pass == <<at, plain, todo, sending>>
history == <<author, told, edited, hasty>>
vars == <<table2, db, redis, store, cursor, queue, pass, events, asked, edits,
          faults, history>>

\* hashClientSecret with the pepper of peer p.
Hash(p, secret) == [pepper |-> p, plain |-> secret]

\* What a plain secret in p's table 1 means for a credential store.
Means(p, secret) == IF secret = NoPlain THEN Absent ELSE Hash(p, secret)

Init ==
    /\ table2 = [p \in Peers |-> [q \in Peers |->
                    IF p \in Full THEN "right" ELSE "none"]]
    /\ db = [p \in Peers |-> EmptyTables]
    /\ redis = [p \in Peers |-> Acks!EmptyKeyspace]
    /\ store = [p \in Peers |-> Absent]
    /\ cursor = [p \in Peers |-> NoCursor]
    /\ queue = [p \in Peers |-> <<>>]
    /\ at = [p \in Peers |-> "idle"]
    /\ plain = [p \in Peers |-> NoPlain]
    /\ todo = [p \in Peers |-> {}]
    /\ sending = [p \in Peers |-> None]
    /\ events = 0 /\ asked = 0 /\ edits = 0 /\ faults = 0
    /\ author \in Full
    /\ told = {}
    /\ edited = {}
    /\ hasty = {}

Owing(p) == PendingTargets(db[p], Client)

\* Nothing is on its way.
Quiet == \A p \in Peers : queue[p] = <<>> /\ Owing(p) = {} /\ at[p] = "idle"
-----------------------------------------------------------------------------
\* AdminController and the routes of the other peers: ensure, rotate and
\* revoke, with other peers that have an entry (a peer has one for itself as
\* well, which the pages do not offer).  rotate needs the credential in the
\* local store.
Operate(p, kind, targets) ==
    /\ asked < MaxOps
    /\ OperatorsWait => Quiet
    /\ kind = "rotate" => targets = {} /\ store[p] # Absent
    /\ p \notin targets /\ \A t \in targets : table2[p][t] # "none"
    /\ LET secret == IF kind = "revoke" THEN NoPlain ELSE asked + 1
       IN  /\ db' = [db EXCEPT ![p] =
                        IF kind = "rotate"
                        THEN Rotate(@, Client, secret)
                        ELSE Upsert(@, Client, secret, targets)]
           /\ store' = [store EXCEPT ![p] = Means(p, secret)]
    /\ asked' = asked + 1
    /\ author' = p
    /\ told' = {}
    /\ UNCHANGED <<table2, redis, cursor, queue, pass, events, edits, faults,
                   edited, hasty>>

\* Faulty variant of Event: it ships the hash that the target would make itself
\* (against InStep).
EventRehashed(p, x, id) ==
    [op |-> "apply", ts |-> id, eventId |-> id, from |-> p, key |-> x.key,
     hash |-> Means(x.to, plain[p])]

\* The event that the pass of p makes for one of its targets, as event number id.
Event(p, x, id) ==
    [op |-> "apply", ts |-> id, eventId |-> id, from |-> p, key |-> x.key,
     hash |-> Means(p, plain[p])]

\* fetchPendingPropagations: the snapshot has the plain secret and, of every
\* pending target, the secret in table 2.
Fetch(p) ==
    /\ p \in Full /\ at[p] = "idle" /\ Owing(p) # {}
    /\ at' = [at EXCEPT ![p] = "apply"]
    /\ plain' = [plain EXCEPT ![p] = db[p].plain[Client]]
    /\ todo' = [todo EXCEPT ![p] = {[to |-> t, key |-> table2[p][t]] : t \in Owing(p)}]
    /\ UNCHANGED <<table2, db, redis, store, cursor, queue, sending, events, asked,
                   edits, faults, history>>

ApplyLocal(p) ==
    /\ at[p] = "apply"
    /\ at' = [at EXCEPT ![p] = "publish"]
    /\ store' = [store EXCEPT ![p] = Means(p, plain[p])]
    /\ UNCHANGED <<table2, db, redis, cursor, queue, plain, todo, sending, events,
                   asked, edits, faults, history>>

\* publishToQueue for one of the targets.
Publish(p) ==
    /\ at[p] = "publish" /\ events < MaxEvents
    /\ \E x \in todo[p] :
          /\ queue' = [queue EXCEPT ![x.to] = Append(@, Event(p, x, events + 1))]
          /\ todo' = [todo EXCEPT ![p] = @ \ {x}]
          /\ sending' = [sending EXCEPT ![p] = [to |-> x.to, id |-> events + 1]]
          /\ told' = IF p = author /\ x.key = "right" THEN told \cup {x.to} ELSE told
    /\ events' = events + 1
    /\ at' = [at EXCEPT ![p] = "record"]
    /\ UNCHANGED <<table2, db, redis, store, cursor, plain, asked, edits, faults,
                   author, edited, hasty>>

\* recordPublishedEvent, in its two halves.
Record(p) ==
    /\ at[p] = "record"
    /\ at' = [at EXCEPT ![p] = "index"]
    /\ redis' = [redis EXCEPT ![p] = Acks!PutRecord(@, sending[p].id)]
    /\ UNCHANGED <<table2, db, store, cursor, queue, plain, todo, sending, events,
                   asked, edits, faults, history>>

Index(p) ==
    /\ at[p] = "index"
    /\ at' = [at EXCEPT ![p] = "mark"]
    /\ redis' = [redis EXCEPT ![p] = Acks!AddPending(@, Client, sending[p].id)]
    /\ UNCHANGED <<table2, db, store, cursor, queue, plain, todo, sending, events,
                   asked, edits, faults, history>>

\* markTargetSent, and on to the next target.
MarkSent(p) ==
    /\ at[p] = "mark"
    /\ at' = [at EXCEPT ![p] = IF todo[p] = {} THEN "idle" ELSE "publish"]
    /\ db' = [db EXCEPT ![p] = Mark(@, Client, sending[p].to, "sent")]
    /\ sending' = [sending EXCEPT ![p] = None]
    /\ plain' = [plain EXCEPT ![p] = IF todo[p] = {} THEN NoPlain ELSE @]
    /\ UNCHANGED <<table2, redis, store, cursor, queue, todo, events, asked, edits,
                   faults, history>>

Sync(p) ==
    \/ Fetch(p)
    \/ ApplyLocal(p)
    \/ Publish(p)
    \/ Record(p)
    \/ Index(p)
    \/ MarkSent(p)
-----------------------------------------------------------------------------
\* A message is done with; or the peer dies before it is settled, and the
\* same message is delivered again.
SettleOrRepeat(p) ==
    \/ queue' = [queue EXCEPT ![p] = Tail(@)] /\ UNCHANGED faults
    \/ faults < MaxFaults /\ faults' = faults + 1 /\ UNCHANGED queue

\* propagationSecretMatches fails, for an event or an acknowledgement: it is
\* settled all the same.
DropForeign(p) ==
    /\ Head(queue[p]).key # "right"
    /\ queue' = [queue EXCEPT ![p] = Tail(@)]
    /\ UNCHANGED <<table2, db, redis, store, cursor, pass, events, asked, edits,
                   faults, history>>

\* fetchSourcePropagationSecret: the secret an acknowledgement to q is signed
\* with, empty in receive-only mode.
AckKey(p, q) == IF p \in Full THEN table2[p][q] ELSE "none"

\* handleApplyEvent: applied if it is newer than the cursor, and answered.
TakeEvent(p) ==
    LET e == Head(queue[p])
        fresh == IsStrictlyNewer(cursor[p], PositionOf(e))
        ack == [op |-> "ack", eventId |-> e.eventId, from |-> p,
                key |-> AckKey(p, e.from)]
    IN  /\ e.key = "right" /\ e.op = "apply"
        /\ store' = IF fresh THEN [store EXCEPT ![p] = e.hash] ELSE store
        /\ cursor' = IF fresh THEN [cursor EXCEPT ![p] = PositionOf(e)] ELSE cursor
        /\ \/ /\ queue' = [queue EXCEPT ![p] = Tail(@), ![e.from] = Append(@, ack)]
              /\ UNCHANGED faults
           \/ /\ faults < MaxFaults /\ faults' = faults + 1
              /\ queue' = [queue EXCEPT ![e.from] = Append(@, ack)]
        /\ UNCHANGED <<table2, db, redis, pass, events, asked, edits, history>>

\* Faulty variant of LastAnswer: the credential is never finalized (against
\* PlainLeavesUnlessMended).
LastAnswerNever(p, id) == FALSE

\* No other event of the credential is pending.
LastAnswer(p, id) == redis[p].index[Client] \subseteq {id}

\* handleAckEvent for an event that is on record: its row gets the verdict,
\* and with the last one the plain secret goes.
TakeAck(p) ==
    LET a == Head(queue[p])
        recorded == Acks!PutResult(redis[p], Client, a.from, "success", a.eventId)
        marked == Mark(db[p], Client, a.from, "success")
    IN  /\ a.key = "right" /\ a.op = "ack"
        /\ IF Acks!Known(redis[p], a.eventId)
           THEN IF LastAnswer(p, a.eventId)
                THEN /\ db' = [db EXCEPT ![p] = ClearPlain(marked, Client)]
                     /\ redis' = [redis EXCEPT ![p] =
                                     Acks!ClearAggregates(recorded, Client)]
                ELSE /\ db' = [db EXCEPT ![p] = marked]
                     /\ redis' = [redis EXCEPT ![p] = recorded]
           ELSE UNCHANGED <<db, redis>>
        /\ hasty' = hasty \cup {q \in {p} : /\ at[q] \in {"record", "index"}
                                            /\ sending[q].id = a.eventId}
        /\ SettleOrRepeat(p)
        /\ UNCHANGED <<table2, store, cursor, pass, events, asked, edits, author,
                       told, edited>>

Receive(p) == queue[p] # <<>> /\ (DropForeign(p) \/ TakeEvent(p) \/ TakeAck(p))
-----------------------------------------------------------------------------
Edit(p, q, entry) ==
    /\ p \in Full /\ p # q
    /\ edits < MaxEdits
    /\ edits' = edits + 1
    /\ edited' = edited \cup {<<p, q, table2[p][q], entry>>}
    /\ UNCHANGED <<redis, store, cursor, queue, pass, events, asked, faults, author,
                   told, hasty>>

\* POST targets: the entry is made or replaced.
CreateTarget(p, q, entry) ==
    /\ Edit(p, q, entry)
    /\ table2' = [table2 EXCEPT ![p][q] = entry]
    /\ UNCHANGED db

\* DELETE targets/:queue: the rows go with the entry; the peer's own is kept.
DeleteTarget(p, q) ==
    /\ Edit(p, q, "none")
    /\ table2' = [table2 EXCEPT ![p][q] = "none"]
    /\ db' = [db EXCEPT ![p].status[Client][q] = "none"]

Next ==
    \/ \E p \in Full, kind \in Kinds, targets \in SUBSET Peers :
          Operate(p, kind, targets)
    \/ \E p \in Peers : Sync(p) \/ Receive(p)
    \/ \E p, q \in Peers :
          DeleteTarget(p, q) \/ \E entry \in {"right", "wrong"} :
                                   CreateTarget(p, q, entry)

Spec == Init /\ [][Next]_vars
-----------------------------------------------------------------------------
\* The echo route of peer q accepts a call signed with this hash.
EchoAccepts(q, hash) == store[q] # Absent /\ hash = store[q]

\* call-target of the reference peer signs with a plain secret and p's own
\* pepper; that of the other peers signs with the hash in p's store.
CallWithPlain(p, q, secret) == EchoAccepts(q, Hash(p, secret))

CallWithStored(p, q) == store[p] # Absent /\ EchoAccepts(q, store[p])

\* What a credential store may hold.
Hashes == [pepper : Peers, plain : Ops] \cup {Absent}

Message ==
    [op : {"apply"}, ts : Nat, eventId : Ids, from : Peers, key : Entries,
     hash : Hashes]
    \cup [op : {"ack"}, eventId : Ids, from : Peers, key : Entries]

\* Every variable keeps its shape.
TypeOK ==
    /\ table2 \in [Peers -> [Peers -> Entries]]
    /\ db \in [Peers -> Tables]
    /\ redis \in [Peers -> Acks!Keyspace]
    /\ store \in [Peers -> Hashes]
    /\ cursor \in [Peers -> Cursors]
    /\ queue \in [Peers -> Seq(Message)]
    /\ at \in [Peers -> {"idle", "apply", "publish", "record", "index", "mark"}]
    /\ plain \in [Peers -> Ops \cup {NoPlain}]
    /\ todo \in [Peers -> SUBSET [to : Peers, key : Entries]]
    /\ sending \in [Peers -> [to : Peers, id : Ids] \cup {None}]
    /\ events \in 0..MaxEvents /\ asked \in 0..MaxOps
    /\ edits \in 0..MaxEdits /\ faults \in 0..MaxFaults
    /\ author \in Full /\ told \subseteq Peers
    /\ edited \subseteq Peers \X Peers \X Entries \X Entries
    /\ hasty \subseteq Peers

\* architecture.md:126, "0 desync": when nothing is on its way, every peer that
\* the last operation was sent to does what its author does: a call signed
\* with the secret that was asked for passes there, an older one does not, and
\* after a revocation none does.
InStep ==
    Quiet => \A t \in told :
        /\ CallWithStored(author, t) = (store[author] # Absent)
        /\ \A o \in Ops : CallWithPlain(author, t, o) = CallWithPlain(author, author, o)

\* architecture.md:139: the plain secret of an operation that was sent out is
\* gone "once all targets are terminal", with nothing on its way any more.
PlainLeaves ==
    LET rows == RowsOf(db[author], Client)
    IN  /\ Quiet /\ told # {} /\ rows # {}
        /\ \A t \in rows : db[author].status[Client][t] \in Terminal
        => db[author].plain[Client] = NoPlain

\* A target was deleted, or its wrong entry was put right.
Mended == \E e \in edited : e[4] = "none" \/ (e[3] = "wrong" /\ e[4] = "right")

\* The same as long as no target was deleted, no wrong entry was put right and no
\* answer overtook its record: the event that a wrong secret made its receiver
\* drop is pending for ever, like the one that sync.ts adds to the pending set
\* when its answer was there before, and so a later answer never is the last.
PlainLeavesUnlessMended ==
    \/ PlainLeaves
    \/ Mended
    \/ author \in hasty
-----------------------------------------------------------------------------
(***************************************************************************)
(* The inductive invariant of MeshProofs                                   *)
(***************************************************************************)
In(p) == ToSet(queue[p])

Status(p, t) == db[p].status[Client][t]

Plain(p) == db[p].plain[Client]

PendingIds(p) == redis[p].index[Client]

\* The pass of p has an event in hand.
InHand(p) == at[p] \in {"record", "index", "mark"}

\* Whoever operates: rows have their credential, no peer is its own target,
\* and what is on record, in hand or on its way is one of the events made so far,
\* for another peer.
Grounded ==
    \A p \in Peers :
        /\ \A t \in Peers : Status(p, t) # "none" => Plain(p) # NoRow
        /\ Status(p, p) = "none"
        /\ redis[p].records \cup PendingIds(p) \subseteq 1..events
        /\ cursor[p] # NoCursor => cursor[p].ts <= events
        /\ \A m \in In(p) :
              m.op = "apply" => m.ts = m.eventId /\ m.ts <= events /\ m.from # p
        /\ at[p] # "idle" => p \in Full
        /\ at[p] = "idle" => todo[p] = {}
        /\ \A x \in todo[p] : x.to # p
        /\ InHand(p) => sending[p] # None /\ sending[p].id <= events

\* A message with an event that t will apply.
WillApply(t, m) ==
    m.op = "apply" /\ m.key = "right" /\ IsStrictlyNewer(cursor[t], PositionOf(m))

\* The last operation waits to be published.
Untold ==
    at[author] = "apply" \/ (at[author] = "idle" /\ Owing(author) # {})

\* With operators that take turns: only the last one's peer owes anything,
\* only its events are on their way, all with the hash that it uses itself, and
\* whom they can reach has that hash or is about to take it.
Turns ==
    /\ \A p \in Peers : Owing(p) # {} \/ at[p] # "idle" => p = author
    /\ Untold => told = {} /\ \A p \in Peers : queue[p] = <<>>
    /\ at[author] # "idle" =>
          \A t \in Owing(author) :
              \/ \E x \in todo[author] : x.to = t
              \/ InHand(author) /\ sending[author].to = t
    /\ at[author] = "publish" \/ InHand(author) =>
          store[author] = Means(author, plain[author])
    /\ \A p \in Peers : \A m \in In(p) :
          m.op = "apply" => m.from = author /\ m.hash = store[author]
    /\ author \notin told
    /\ \A t \in told :
          store[t] = store[author] \/ \E m \in In(t) : WillApply(t, m)

\* What is on its way from p to t and back, and will not be dropped.
LiveEvents(p, t) ==
    {m \in In(t) : m.op = "apply" /\ m.from = p /\ m.key = "right"}

LiveAcks(p, t) == {m \in In(p) : m.op = "ack" /\ m.from = t /\ m.key = "right"}

Live(p, t) == LiveEvents(p, t) \cup LiveAcks(p, t)

\* The row of t at p is not answered any more, by a wrong entry on one side.
Mute(p, t) ==
    /\ LiveAcks(p, t) = {}
    /\ \/ AckKey(t, p) # "right"
       \/ /\ table2[p][t] # "right" /\ LiveEvents(p, t) = {}
          /\ \A x \in todo[p] : x.to = t => x.key # "right"

\* The event that p is about to add to its pending set.
Coming(p) == {id \in Ids : at[p] \in {"record", "index"} /\ sending[p].id = id}

\* An event has a row that is not terminal, and an answer to come, unless the row
\* has gone mute.
Awaits(p, id) ==
    \E t \in Peers :
        /\ Status(p, t) \in {"pending", "sent"}
        /\ Mute(p, t) \/ \E m \in Live(p, t) : m.eventId = id

\* What a pass has left to do is not on its way yet.
TodoIsApart ==
    \A p \in Peers : \A x \in todo[p] :
        /\ Live(p, x.to) = {}
        /\ x.key # "right" => table2[p][x.to] # "right"
        /\ Status(p, x.to) \in {"pending", "sent"}
        /\ \A y \in todo[p] : x.to = y.to => x = y

\* The pending sets hold nothing that is not waited for, unless an answer overtook
\* its record; and without the last answer the plain secret is kept.
Accounted ==
    /\ \A p \in Full, t \in Peers : table2[p][t] # "none"
    /\ TodoIsApart
    /\ \A p, t \in Peers : \A m, n \in Live(p, t) : m.eventId = n.eventId
    /\ \A p \in Peers \ hasty :
          /\ PendingIds(p) \subseteq redis[p].records
          /\ at[p] = "index" => sending[p].id \in redis[p].records
          /\ \A id \in PendingIds(p) \cup Coming(p) : Awaits(p, id)
    /\ told # {} /\ author \notin hasty =>
          \/ PendingIds(author) \cup Coming(author) # {}
          \/ Plain(author) \in {NoPlain, NoRow}

IInv ==
    /\ TypeOK
    /\ Grounded
    /\ OperatorsWait => Turns
    /\ OperatorsWait /\ ~ Mended => Accounted
=============================================================================
