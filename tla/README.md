# Formal models of node-hmac-auth-core-propagation

The library keeps the HMAC credentials of a mesh of peers in step. A *source*
peer stores what its operator asks for (ensure, rotate, revoke) in its database,
and publishes one event per credential and target to the durable RabbitMQ queue
of each *target*; a target applies the event to its own credential store and
publishes an acknowledgement to the queue of the source. One peer may play both
roles. This directory holds TLA+ models of both roles, of the mesh they form, of
the transport under them and of the reference peers around them, TLC
configurations that check them on small instances, and TLAPS proofs of what is
safe in each of them for instances of any size.

Paths below are relative to the root of the repository.

## 1. Inventory

| Part | State | Operations | Talks to |
|---|---|---|---|
| Inbound handler, apply side (`src/consume.ts` 24-132) | none of its own; one message in hand | `onMessage`, `handleApplyEvent`, `publishAckBack` | transport, cursor, credential store, management |
| Cursor (`src/cursor.ts`) | one Redis hash per (track, clientId), no TTL | `readCursor`, `writeCursor`, `isStrictlyNewer` | Redis |
| Operations (`src/propagator.ts`) | none of its own | `ensure`, `rotate`, `revoke`, `sync`, `close` | management callbacks, credential store |
| Sync pass (`src/sync.ts`) | its snapshot of pending propagations | `runSync`, `applyLocal` | management, credential store, transport, ack store |
| Inbound handler, ack side (`src/consume.ts` 134-183) | one acknowledgement in hand | `handleAckEvent` | ack store, management |
| Ack store (`src/ack-store.ts`) | Redis: `ack:<eventId>`, `client-pending:<clientId>`, `client-results:<clientId>`, TTL 7 days | `recordPublishedEvent`, `readPublishedEvent`, `recordTargetResult`, `pendingCountForClient`, `readClientResults`, `clearClientAggregates`, `aggregateFinalStatus` | Redis |
| Transport (`src/transport.ts`) | connection, two channels, `stopped`, `consumeRequested`, reconnect timer, backoff, declared queues | `connect`, `scheduleReconnect`, `startConsume`, `publishToQueue`, `ackMessage`, `nackMessage`, `close` | RabbitMQ |
| Wire (`src/wire.ts`) | none | encoding, decoding, well-formedness, secret comparison, queue names | - |
| Management callbacks (the operator's; reference: `poc/management-nest`) | table 1 (credential, plain secret), table 2 (targets), table 3 (row per credential and target) | the eight callbacks of `PropagatorManagement` | MariaDB |
| Cron, admin API and verifier of the reference peer | none | calls to the operations and to `sync()`, targets added and deleted, signed calls | propagator, tables, credential store |
| SQL adapters and target routes of the Next and Nuxt peers | a pool of connections and their transactions | the callbacks again, `POST`/`DELETE targets` | MariaDB |
| Process of the Next and Nuxt peers | memoised services, boot hook, interval | `getHmacAuthService`, `getHmacPropagatorService`, `register`, routes | propagator, pages |
| Their pages (`page.tsx`, `index.vue`) | what is shown, `busy`, requests in flight | refresh, poll, submit | routes |
| DTOs, OpenAPI declarations, end-to-end runner | none | - | - |

What is hard in it:

* Everything is asynchronous and nothing is locked: operations, passes (a cron
  and explicit calls) and the inbound handler of one process interleave at every
  `await`, over two databases that share no transaction.
* A message is delivered again after any crash or exception, and each handler is
  a sequence of calls of which any may be the last.
* Events of one key come from several sources with their own clocks.
* Redis knows of an event only after the broker does; the tables know of it
  later still; and acknowledgements travel on another channel.
* The number of ids in a Redis set decides when the plain secret is erased.
* A channel may be replaced under a running handler, whose delivery tag then means
  nothing, or something else, on the new one.
* Two peers may write the same credential, and nothing orders their writes but the
  clocks that stamp their events.
* In the peers around the library, intervals, routes, polls and the boot run into
  each other, and pooled connections are handed on with whatever is left on them.

What makes each part correct: the receiving peer loses no event, applies the
newest one whatever the order, never goes back, and acknowledges truthfully; the
source never marks a row for something that did not happen, keeps the plain
secret for as long as a target is owed it, deletes only what was revoked,
publishes each secret once, and brings every row to a verdict. PROJECT.json lists
the hazards at their lines, with the properties that watch over them.

## 2. Modules

| Module | Models |
|---|---|
| `Cursor` | positions (timestamp, eventId), their order, a missing cursor |
| `LatestWins` | abstract: registers that are only overwritten by newer positions |
| `Inbound` | one peer working off its queue: `onMessage`, `handleApplyEvent`, `publishAckBack`, with failing calls, crashes and redelivery |
| `MCInbound` | instances of it |
| `Management` | the callbacks of the reference peer as functions of tables 1 and 3 |
| `AckStore` | the functions of `src/ack-store.ts` as functions of the Redis keys |
| `Source` | ensure, rotate, revoke, passes and `handleAckEvent`, over `Management` and `AckStore` |
| `Rounds` | abstract: propagation in rounds, in which each target is told once |
| `MCSource` | instances of it |
| `Transport` | the connection: `connect`, its retries, `startConsume`, `close` |
| `Delivery` | the consume channel and the handlers it starts: tags, prefetch, settling on another channel |
| `Mesh` | full and receive-only peers, their queues, tables, stores; operators, passes, handlers and changes of table 2, over `Management`, `AckStore` and `Cursor` |
| `MCMesh` | instances of it |
| `SqlAdapter` | transactions and queries of the Next and Nuxt peers over a pool |
| `PeerApp` | process, interval, routes and page of the Next or the Nuxt peer |
| `InboundProofs`, `SourceProofs`, `TransportProofs`, `DeliveryProofs`, `MeshProofs`, `SqlAdapterProofs`, `PeerAppProofs` | proofs about the module each is named after |
| `SourcePastProofs` | proofs about `Source` and its history `past`: what may have gone wrong, and nothing else |

Each module that code belongs to also holds, next to the definition they vary,
a few *faulty variants* (named so in their comments). Nothing refers to them:
they are plausible bugs that show that the properties would notice.

### Inbound

The handler is one step per awaited call: `pc` names the next one.

| Code | Action |
|---|---|
| malformed, secret mismatch, unknown op: ack and return | `DropInvalid` |
| `isApplyEvent` | `Deliver` |
| `readCursor` and the three ways on from it | `SkipStale`, `RejectUnserved`, `Accept` |
| `clients.delete` / `setSecretHash` | `Apply` |
| `writeCursor` | `WriteCursor` |
| `publishAckBack` | `PublishAck` |
| `ackMessage` | `Settle` |
| an exception: `nackMessage(msg, true)` | `HandlerFails` |
| the process dies | `Crash` |
| any source publishes to this peer | `Publish` |

RabbitMQ puts a message that was not acknowledged back at the head of its queue;
with prefetch=1 there is at most one. `credential.create` and `credential.update`
are handled alike and are one op here. A secret hash stands for the whole payload.
UUIDs are numbers, for only their order matters. An awaited call that fails after
it took effect is the same as a failure one step later, so one fault action covers
both. `published` and `installed` are history: what was ever sent, and the position
of the event behind each stored credential. The invariants speak of them; the
handler does not. Of an event that is dropped or refused only the form and the key
are ever looked at, so one stands for all that differ in the rest (`Representatives`).

When the credential store throws, the code requeues the event and answers nothing
(`src/consume.ts:53-56`), and so does the model; `docs/wire-contract.md:74` describes
an acknowledgement with `ackResult="error"` instead.

Left out: one handler at a time is assumed, which prefetch=1 only gives while the
channel lives (`Delivery` is about what happens otherwise). An `apply` event without a payload is not among the
forms of a message.

### Source

| Code | Action |
|---|---|
| `ensure`, `rotate`, `revoke`: called; the callback commits; the local store | `Request`, `Commit`, `ApplyOperation` |
| an exception in one of them | `OperationFails` |
| `fetchPendingPropagations` | `Fetch` |
| `applyLocal`, and its exception, which ends the pass | `ApplyLocal`, `ApplyLocalFails` |
| `publishToQueue` with its confirm | `Publish` |
| `recordPublishedEvent`: HSET, then SADD | `Record`, `Index` |
| `markTargetSent` | `MarkSent` |
| exceptions caught per target | `PublishFails` (the event may have arrived all the same), `BookkeepingFails` |
| an acknowledgement is delivered | `TakeAck` |
| `readPublishedEvent`: unknown | `DropUnknown` |
| `recordTargetResult` | `RecordResult` |
| `markTargetSuccess` / `markTargetError` | `MarkResult` |
| `pendingCountForClient` | `CountPending` |
| `markCredentialFullyPropagated` | `Finalize` |
| `clearClientAggregates` | `Clear` |
| a callback throws: logged, the message acknowledged | `CallbackFails` |
| Redis throws before: requeued | `HandlerFails` |
| a target answers, once or twice | `Answer` |
| TTL of `ack:<eventId>`; of `client-pending` or `client-results` | `Expire`; `ExpireAggregate` |
| the process dies | `Crash` |

A plain secret and its hash determine each other, so they are one value, and
operation `o` brings secret `o`. A pass takes its propagations and targets in any
order, the code in the order of the query. `recordTargetResult` is one step: only
the handler itself reads what it writes, and a pass only adds to the set it removes
from. Targets in `Refusing` (they have no auth instance for the track) answer
"error", the others "applied".

`wish`, `due`, `final`, `answered`, `counted` and `past` are history. `past` keeps what
came in between, for it is only seen much later: of an operation, that it committed
while another one (`overOperation`), a pass that had the client in hand (`overPass`) or an
event of the client (`overMail`) was on its way, that it threw after its commit
(`halted`), that its plain secret was erased while a row was pending (`early`), that
two passes had it in hand (`overlapped`); of a row, that a pass broke off on it
(`left`); of an event, that its pass broke off before the row was marked (`torn`) and
that its record expired (`expired`). The safety properties allow operations, passes,
handler and answers to come in any order, and name for each promise the entries of
`past` that are the only ways to break it.

`Rounds` is what all this amounts to when nothing gets in the way: a request opens a
round for some targets, each is told once with the secret of the round, gets its verdict
on an answer to that, and the plain secret is forgotten when all have theirs. Its `told`
is `events` and its `heard` is `answered`; a target counts as told (`RowPhase`) from the
moment the broker has its event, three awaits before `markTargetSent`.

### Transport

`connection`, `consumeCh`, `stopped`, `consumeRequested` and the reconnect timer are
variables shared by every call of `connect()` and by `close()`, and are read again
after each await. Each call of `connect()` is an attempt with a number: `stage[a]` is
the await it is in, `on[a]` the connection its call goes to.

| Code | Action |
|---|---|
| `amqplib.connect` resolves | `Dialled` |
| `createConfirmChannel`, `createChannel` resolve | `ConfirmChannelOpen`, `ConsumeChannelOpen` |
| `prefetch`, `assertQueue`, then `if (consumeRequested)` | `QueueDeclared` |
| `registerConsume` | `Registered` |
| the catch of `connect()` | `AttemptFails`, `CallRefused` |
| the "close" listener | `Drop` |
| `setTimeout` callback | `Fire` |
| `createTransport` returns, `startConsume` | `StartConsume`, `StartConsumeReturns` |
| `close()` in its three parts | `Close`, `CloseConnection`, `Forget` |

A timer, or another drop, only comes when no promise of a dead connection is left to
reject (`Busy`): the shortest timer is a second, and amqplib rejects at once.
`abandoned` is history: connections left open when an attempt failed on another
call. Nothing closes them, and when one drops later its listener starts a needless
reconnect that replaces a good connection, which goes on consuming; `OneConsumer`
therefore only speaks of histories without one.

### Delivery

One record of `handlers` is one call of `runHandler`, with the channel and the tag
it was started for; `consumeCh` is always the last channel. `broker` is what RabbitMQ
has: the queue and the unacknowledged deliveries of that channel.

| Code | Action |
|---|---|
| `connect()` has a new channel, `prefetch(1)`, `registerConsume` | `Reconnect` |
| the consumer's callback: `void runHandler(msg)` | `Deliver` |
| `readCursor`, `setSecretHash`, `writeCursor`, `publishAckBack` | `ReadCursor`, `Apply`, `WriteCursor`, `Answer` |
| a call throws | `Throw` |
| `consumeCh?.ack(msg)` / `nack` on a channel that has the tag outstanding | `Settle` |
| the same with a tag nobody has: the broker closes the channel | `SettleUnknown` |
| the same on a closed channel: `ack`, the `nack` of the catch and that of `runHandler` throw | `SettleClosed` |
| the connection closes; the process dies | `Drop`, `Crash` |

Whether an unknown tag ends the channel, the connection or the process depends on
listeners the library does not install: both outcomes are there. In principle each
handler of a closed channel can close the next one in turn; the bound on faults cuts
that chain by letting the process die instead. `overlapped` and `strays` are history.

### Mesh

| Code | Action |
|---|---|
| `POST ensure`, `rotate`, `revoke` of a full peer | `Operate` |
| `fetchPendingPropagations` | `Fetch` |
| `applyLocal` | `ApplyLocal` |
| `publishToQueue`; `recordPublishedEvent`: HSET, then SADD; `markTargetSent` | `Publish`; `Record`, `Index`; `MarkSent` |
| secret mismatch: ack and return | `DropForeign` |
| `handleApplyEvent` with its acknowledgement | `TakeEvent` |
| `handleAckEvent` | `TakeAck` |
| `POST targets`, `DELETE targets/:queue` | `CreateTarget`, `DeleteTarget` |
| `POST call-target` with a plain secret / with the stored hash, and the echo route's verifier | `CallWithPlain`, `CallWithStored`, `EchoAccepts` |

A pass is one step per awaited call, so that its targets answer while it runs. An
operation and a handler are one step each, a peer has one pass at a time and no call
throws: how they come apart is in `Source`, `Inbound` and `Delivery`. An entry of table 2 is right (the secret the target has in
its environment), wrong or absent. A hash is the pair of pepper and plain secret, and
every peer has its own pepper, as in `poc/docker-compose.yml`: the comment at
`src/sync.ts:121` speaks of one shared `secretToken`, but what keeps the mesh in step
is that the *source's* hash is shipped. The comment at `src/sync.ts:93-95` (the plain
is enriched with a random UUID) describes something the code does not do. Event
numbers serve as timestamps: the clocks agree on the order of events. `author`, `told`,
`edited` (which entry was changed, from what to what) and `hasty` (who was answered
before the pass had the event on record) are history. The TTL of the keys in Redis is
left out here: an answer may come late but not that late.

### SqlAdapter

A call is a sequence of statements, each on one row; a connection has the writes and
locks of its transaction.

| Code | Action |
|---|---|
| a callback or route is called | `Start` |
| `pool.getConnection()` | `Acquire` |
| `beginTransaction` | `Begin` |
| `conn.query` in a transaction; `pool.query` | `Query`; `PoolQuery` |
| `commit` with the `finally` | `Commit` |
| the `catch` and the `finally` | `Throw`, `Rollback` |
| connection lost; lost before the answer of a commit | `Die`, `CommitUnanswered` |

InnoDB's part (row locks until the end of the transaction, the foreign keys of
table 3, implicit commit at BEGIN, rollback of a lost connection) is modelled as the
code relies on it. A rollback that throws is modelled as one that works: either way
the connection is dead.

### PeerApp

| Code | Action |
|---|---|
| `getHmacAuthService`, `getHmacPropagatorService`, `build` | `Asked`, `Built`, `BuildThrows` |
| `register()`, `plugins/00.boot.ts` | `Boot`, `Booted` |
| `setInterval` callback | `Tick` |
| `sync()` in a route or a tick | `PassFetches`, `PassPublishes`, `PassFails` |
| the POST routes | `Arrive`, `Operate`, `Refuse` |
| the GET routes `state`, `local-clients` | `Read` |
| `refreshAll`, the polls | `Refresh`, `Poll` |
| `submitOp`, `submitTarget`, `deleteTarget` and their `finally` | `Submit`, `Answered`, `Refused` |
| data arrives on the page (Next: all of a refresh at once; Nuxt: each for itself) | `ShowTogether`, `ShowAlone` |

Pass and operation are those of `Source` cut down to one row. That `useFetch` drops an
older request for the same data is taken from how Nuxt documents it.

## 3. Runs

| Run | Instance | Shows |
|---|---|---|
| `inbound_order` | two keys, one not served, three events of all forms with timestamps 1..2, one failure, one crash | nothing is lost; the store converges to the newest event; neither cursor nor store regresses; acknowledgements are true; the store implements `LatestWins`; the queue drains |
| `source_storm` | one target, two operations one after the other and two overlapping passes, freely interleaved with acknowledgements and one fault of any kind | a row marked sent stands for an event with the secret asked for last, a verdict for the target's answer to it; deletions have a cause; a secret is published once; the local store follows the operator; first acknowledgements are known - each up to the causes in `past` that its statement names |
| `source_calm` | one client, two targets (one refuses), three operations one after the other, one pass at a time, answers between passes, one duplicate acknowledgement | when nothing gets in the way, `Source` implements `Rounds`, every propagation settles, the status reported is that of the rows, and nothing is left in Redis or of the plain secret |
| `transport_reconnect` | three faults (refused dials and calls, drops), five attempts, `close()` at any time | one consumer; retries exactly while needed; the peer consumes again in the end |
| `delivery_zombies` | three events of one key in every order, two faults at any step | one handler per channel; messages only go missing to a stray settlement; what was confirmed stands unless handlers overlapped; the consumer never freezes |
| `mesh_turns` | two full peers and a receive-only one, two operations in turns, answers during passes, one change of a table 2 and one repeated delivery at any time | peers end up in step with the last operation; its plain secret is erased, unless a target was deleted, a wrong entry put right or an answer overtook its record |
| `sql_adapter` | one target, three calls over two connections, one fault | calls are all or nothing; only faults and missing targets make them throw; every call ends |
| `peer_app` | Next or Nuxt, two POSTs, one tick and one poll beside them, one fault or restart | one build per service; an operation's own event is out before its answer, unless a tick crossed it; committed operations are retried; the Nuxt page does not fall back behind an answer |
| `early_clear` (violated) | two targets, one answers before the pass publishes to the other, no fault | the plain secret is kept until all targets are terminal; instead, it is cleared with a row pending |
| `deletions` (violated) | two targets, one failed publish | a deletion is only sent for a client that was revoked; instead, an ensured credential is deleted everywhere |
| `ack_during_pass` (violated) | one target that answers fast, no fault | every row gets its verdict; instead, a row stays `sent` for ever |
| `mesh_crossing` (violated) | two full peers, two operations at once | the peers end up in step; instead, they swap their secrets and both rows say success |

The passing runs fire every action. What `Source` is safe from is checked in
`source_storm`, in which no operation, pass or answer waits for a pass or an answer. `source_calm` is about what only
holds when nothing gets in the way: that propagation goes in rounds and settles, which
is what the documentation describes. Its conditions (one pass at a time, targets that
answer between passes, an operator who waits until everything has settled) are no
promises of the code, and three of the violated runs drop one each: `early_clear` and
`ack_during_pass` the answers between passes, `deletions` the absence of faults.
`mesh_turns` needs operators that take turns, and `mesh_crossing` shows why. The
findings in PROJECT.json quote the documents that promise it without conditions.

### Known disagreements without a run

Each of these can be had from a run above by changing one constant, leaving out one
excuse of a property or checking one more definition:

* `PublishOnce` without its excuse (`docs/architecture.md:135-137`): two overlapping
  passes, a timer's and a route's, publish the same secret twice (`overlapped`); so does
  a pass after one that broke off behind its publish (`torn`).
* `VerdictIsCurrent` without its excuse (`docs/diagrams/seq-rotate.puml:29`): the answer
  to an event from before a rotation marks the rotated row success (`overMail`).
* `SentMeansPublished` without its excuse (`docs/architecture.md:135`): a pass that read
  the tables before a rotation marks the rotated row sent (`overPass`), and the
  rotation's secret is never published.
* `LocalFollowsOperator` without its excuse (comment at `src/propagator.ts:123-124`):
  such a pass undoes the rotation in the local store.
* `AcksAreTrue` and `docs/wire-contract.md:74`: when the credential store throws, the
  event is requeued and nothing is answered, not an acknowledgement with an error. The
  half of `AcksAreTrue` that says when "error" is answered is checked as the code has it.
* `NothingOutlivesClose` in `Transport` (`README.md:147`): `close()` while `connect()`
  awaits the broker leaves a connection that consumes.
* `NoMessageLeftBehind` in `Delivery` (`docs/architecture.md:132`): a stray settlement
  takes out a message that nobody has handled.
* `PlainLeaves` in `Mesh` (`docs/architecture.md:139`), in the instance of `mesh_turns`
  (for the wrong entry, with `MaxEdits = 2`):
  an event that its receiver drops for a wrong secret is not answered and stays in the
  pending set (`src/consume.ts:168`). When the entry is put right and the credential
  ensured again, the new event is answered and the only row says success, but the set is
  not empty and the plain secret stays, until Redis drops the set seven days after the
  last publication and a later event is answered. Likewise when a target is deleted: its
  row goes, the id of an event that it will never answer does not. And when an answer
  comes between the confirm of the broker and SADD, the id is added after it was removed.
* `OwnMessageUnlessCrossed` without its exception
  (`poc/consumer-nuxt/server/api/ensure.post.ts:7-8`): a tick that has read the row
  before the operation marks it sent after it.
* The accessor shown in `docs/nextjs/README.md` sets its memo only when the build is
  done: `AskedLate` in `PeerApp`, which breaks `OneServiceEach`. The one in `poc` is right.

### Bounds, and why they are enough

* Three events of one key give every order of three positions, ties included: the
  newest can come first, in the middle or last, with a fault at any step. Keys only
  meet in the queue, and the second key is one that is not served. A second fault finds
  the handler where the first left it: at the head of the queue, with the store
  ahead of the cursor or not. And the safety properties are proved for every bound.
* Two targets are needed for one to be terminal while the other is pending. Three
  operations allow ensure, rotate, revoke and any repetition; six events are two
  targets times three operations. Two passes are enough to overlap.
* In `source_storm` an operation begins when the one before it has returned
  (`OperatorWaits = "operations"`), whatever passes and answers are doing, and a rotation
  stands for every operation that replaces a secret: with overlapping operations, or
  with a revocation, TLC does not finish in the time a run has. The theorems are for
  operations of every kind at any time.
* `MaxEvents` stops `Publish`, and that is only felt where faults or overlapping
  passes publish again; the liveness properties are checked where it is not reached
  without a verdict for every row (three operations, two targets, one pass), so
  no pass is kept from going on there.

* A backoff from 1 to 3 doubles once, is capped once and is reset, as one from 1000
  to 60000 does. Three faults let a second and a third one hit the attempt that the
  first one caused. Five attempts are never used up with three faults: otherwise
  `ConsumesInTheEnd` would fail.
* `Delivery`: two faults replace the channel twice, so three handlers can be under way
  and tags of three channels meet; three events let a stray tag be that of another
  message with one more behind it.
* `Mesh`: two operations allow an ensure with targets and its rotation, revocation or
  repetition by either peer; what an operation finds is what the one before it left when
  all was quiet. Four events are two targets for each, so `MaxEvents` is never the reason
  why a pass does not run. One change of a table 2 drops an event, mutes a row or
  deletes one at any await; the second change that puts a wrong entry right is left to the
  proof. Two full peers are the smallest mesh in which a peer is source and target; the
  third shows what a receive-only one changes. The safety properties are proved for every
  bound.
* `SqlAdapter`: two connections and three calls: one call always waits for a connection
  while two may hold locks. Two calls can only block each other over the rows of one
  target.
* `PeerApp`: one tick beside the route's own pass gives every overlap of two passes; one
  poll beside refreshes gives every overlap of two GETs; two edits order an older and
  a newer version of what is shown.

### Fairness

`Inbound`: weak fairness of the handler (the event loop runs it). `Source`: weak
fairness of the steps of an operation that was begun, of each pass (the cron starts
it again and again), of the handler, and of each target. Requests and faults are
never fair. `Transport`: weak fairness of each attempt (the broker answers or the
call throws), of the timer, of what `createPropagator` and `close()` go on to do;
calling `close()` is not fair. `Delivery`: weak fairness of reconnecting, of the broker,
and for each event of the handlers that have it. `Mesh`: none, for what is checked of it
is safety; that rows get their verdicts when passes and answers interleave is false
(`ack_during_pass`). `SqlAdapter`: strong fairness of each
call, for the pool serves waiters in turn and InnoDB grants locks in turn, so a call
that is let through again and again is served. `PeerApp`: weak fairness of the boot and
of each pass (the interval fires again and again); the page, the routes' requests and
the operator are not fair. In all of them the bounded number of faults is what the
liveness properties assume beyond that.

`CHECK_DEADLOCK FALSE` is set where a system with nothing left to do may rest; in
`PeerApp` the page can always poll, and deadlock is checked.

## 4. Proofs

Each theorem below holds for every value of the constants that satisfies the module's
assumption: any sets of peers, targets, keys and events, any number of operations,
calls, attempts and faults. Each proof has the same shape. `IInv`, defined at the end of
the module it is about (for `Inbound`, with its properties), is checked by TLC on a run's
instance first, and so was `PastInv`, at the head of `SourcePastProofs`; one lemma per
action shows that the action preserves it; `NextInv` (or the first step of the
invariant's theorem) puts them together; and the properties follow from `IInv` in a state.

| Module | Theorem | States |
|---|---|---|
| `InboundProofs` | `TypeCorrect`, `InvariantHolds` | `Spec => []TypeOK`, `Spec => []IInv` |
| | `NothingIsLost` | `Spec => []NothingLost` |
| | `AcknowledgementsAreTrue` | `Spec => []AcksAreTrue` |
| | `StoreConverges` | `Spec => []Converged` |
| | `CursorIsMonotonic` | `Spec => CursorNeverRegresses` |
| | `StoreRefinesLatestWins` | `Spec => StoreIsLatestWins` |
| `SourceProofs` | `SourceTypeCorrect`, `SourceInvariant` | `Spec => []TypeOK`, `Spec => []IInv` |
| | `VerdictsAreWitnessed` | `Spec => []VerdictIsWitnessed` |
| `SourcePastProofs` | `PastInvariant` | `Spec => []PastInv` |
| | `SentRowsArePublished` | `Spec => []SentMeansPublished` |
| | `VerdictsAreCurrent` | `Spec => []VerdictIsCurrent` |
| | `DeletionsAreExplained` | `Spec => []DeletionsHaveCause` |
| | `EventsArePublishedOnce` | `Spec => []PublishOnce` |
| | `LocalStoreFollows` | `Spec => []LocalFollowsOperator` |
| | `FirstAcksAreKnown` | `Spec => FirstAckIsKnown` |
| | `PlainSecretsAreKept` | `Spec => PlainKeptWhileOwed` |
| `TransportProofs` | `TransportTypeCorrect`, `TransportInvariant` | `Spec => []TypeOK`, `Spec => []IInv` |
| | `RetriesAreDisciplined` | `Spec => []RetryDiscipline` |
| | `ConsumesAtMostOnce` | `Spec => []OneConsumer` |
| `DeliveryProofs` | `DeliveryTypeCorrect`, `DeliveryInvariant` | `Spec => []TypeOK`, `Spec => []IInv` |
| | `HandlersPerChannel` | `Spec => []OneHandlerPerChannel` |
| | `OnlyStraysLose` | `Spec => []LostOnlyToStrays` |
| | `ConfirmedStays` | `Spec => []AnswersStand` |
| `MeshProofs` | `MeshTypeCorrect`, `MeshInvariant` | `Spec => []TypeOK`, `Spec => []IInv` |
| | `StaysInStep` | `Spec => []InStep`, if `OperatorsWait` |
| | `PlainSecretsLeave` | `Spec => []PlainLeavesUnlessMended`, if `OperatorsWait` |
| `SqlAdapterProofs` | `SqlTypeCorrect`, `SqlInvariant` | `Spec => []TypeOK`, `Spec => []IInv` |
| | `TransactionsAreWhole` | `Spec => []AllOrNothing` |
| | `ThrowsAreExcused` | `Spec => []OnlyFaultsThrow` |
| `PeerAppProofs` | `PeerAppTypeCorrect`, `PeerAppInvariant` | `Spec => []TypeOK`, `Spec => []IInv` |
| | `ServicesAreSingle` | `Spec => []OneServiceEach` |
| | `NuxtKeepsShowing` | `Spec => []OperationStaysShown` |
| | `AnswersAfterPublish` | `Spec => []OwnMessageUnlessCrossed` |

Every invariant and every action property that a passing run checks is among them, but
for the two that only hold in `source_calm` (`SettledIsClean`, `FinalStatusIsTrue`); so is
the refinement of `LatestWins`. `PlainKeptWhileOwed` is in no run's list: its runs would
need two targets, and the theorem stands for them. The type invariants of `Source` and
`Mesh` are in no list either: they are proved, so that their runs spend their time on what
the instances can show.

### From which assumptions

`NoCursorAssumption`, `InboundAssumption`, `SourceAssumption`, `TransportAssumption`,
`DeliveryAssumption`, `MeshAssumption`, `SqlAssumption`, `PeerAppAssumption`: bounds are
natural numbers, a first backoff is positive and not above the last one, a pool has a
connection, special values (no cursor, no row, no connection) are none of the ordinary
ones, subsets are subsets. Where an order is chosen out of a set (the statements per
target in `SqlAdapter`) the set is assumed finite. TLC evaluates each
assumption in the runs of its module.

One hypothesis on the behaviour is stated in the theorems that need it: `OperatorsWait` in
`MeshProofs`, whose absence `mesh_crossing` refutes. The theorems about `Source` have
none: operations, passes, handler and answers come in any order, with any number of
faults of every kind.

### Along which arguments

**Inbound.** The hard case is a crash between `setSecretHash` and `writeCursor`.
The store is then ahead of the cursor, and what saves the peer is that the broker
puts the message back at the *head*: the next event the handler sees is the one the
store already holds. `CursorLagsByCurrent` says so: wherever `installed[k]` and
`cursor[k]` differ, the message in turn is exactly the one installed, and it is
newer than the cursor. `HandlerKnows` carries the checks of the handler over its
awaits (nobody else moves the cursor of this peer), `StoreIsBacked` ties the store
to a published event, `UniqueIds` and `NothingInvented` tie acknowledgements to
events, and `UnservedUntouched` covers tracks without an auth instance. `Converged`
then follows because `NothingLost` and `AcksAreTrue` put the cursor at or past every
event that is no longer owed, and the order of positions is total (`NewerTotal`).
The refinement maps a register's stamp to `installed`; `Apply` either installs a newer
position or repeats the one already there.

**Source.** Rows change at six places, under operations, passes and the handler at
once. What makes `sent` and the verdicts true is what the one who writes has in hand
across its awaits: a pass that is past its publish holds an event of its propagation's
client that the broker has (`PassKnows`), the handler an answer its target gave
(`MailIsReal`), and neither is ever taken back, by a crash, a redelivery or an expired
record. That a row needs its credential (`RowsHaveCredential`) keeps the rows of a
rotation from appearing out of nothing.

**Source and its history.** `IInv` says that what somebody has in hand is real; `PastInv`
says whether it is *current*, that is, about the operation its row stands for, or else
names the entry of `past` that explains why it is not. Rows, and in particular pending
ones, stand for operations that committed (`OpsAreKnown`), and while a row is pending the
plain secret of that operation is in table 1 or was erased early (`PlainIsCurrent`). The
same is said of everything that outlives an await: the propagations of a pass
(`HandIsCurrent`), the event it has sent (`SendingIsCurrent`), events and answers on their
way (`MailIsCurrent`), the local store (`LocalIsCurrent`). An operation makes all of it
stale at once, and that is where `overPass`, `overMail` and `overOperation` are recorded.
`PlainKeptWhileOwed` rests on `PendingIsOwed`: a pending row was left, is in somebody's
hand, or will be found by a pass before anything of its client is on its way.
`PublishOnce` rests on `HandsAreApart` and `ToldOnce`: two passes never have the same
target of one operation in hand unless that is on record, and a row that is pending or in
hand has not been told before, or an event of its is torn. `DeletionsAreCaused` says where a NULL in a
snapshot comes from, `RecordsAreKept` where the record of an event may have gone, and
`SecretsAreCommitted` keeps secrets apart: an event has that of an operation that
committed. In the proof the actions are sorted by what they leave alone (only the
handler's, only the pass's, ...), a lemma for each kind says which parts that leaves
standing, and each action then has one lemma per part that it can disturb.

**Transport.** Two invariants of different strength. Always: while the peer is not closed
and has no live connection, a timer is set or an attempt will either make one or fail and
set one (`RetriesGoOn`); an attempt whose connection is dead counts (`WillRetry`), for
its promise rejects. As long as no connection was abandoned, moreover, at most one
connection is open or being made, none while a timer runs (`OneLine`); the shared
variables are those of that connection (`SharedIsOwn`), so `registerConsume` on the
shared channel is on its own; and until `createPropagator` goes on there is only the
first attempt (`BootFirst`), so the two places that register do not both do so.

**Delivery.** A handler's tag, on the channel it was started on, means the event it is
about (`TagsMeanEvents`); a settlement on a later channel is a stray, and only strays
remove what nobody answered. `OneHandlerPerChannel` needs that a channel that may deliver
still has room (`RoomForOne`): whatever tag a settlement names, it ends one handler, so
there is one less than channels whenever nothing is outstanding on an open one. While no two handlers overlapped, the one there is knows where it
left cursor and store (`OneAtATime`).

**Mesh.** `Turns` is why the peers end up in step: when operators wait, only the author
owes anything, every event on its way carries the hash the author itself uses, and each
peer its operation can reach has that hash or has an event in its queue that is newer than
its cursor. `Accounted` is why the plain secret leaves: every id in the author's pending
set belongs to a row that is not terminal, and either a message with that id is on its way
to or from that row's target, or no answer of that row will be accepted any more (`Mute`).
All live messages of a row are about one event, so an answer settles the id of its own row
and leaves the others accounted for; when all rows are terminal the set is empty, and
whoever emptied it erased the secret. The events that the pass has not yet added to the
set count as well (`Coming`), and what it has not begun has no live message
(`TodoIsApart`): an answer in the middle of a pass may erase the secret, which the pass
does not need any more, but leaves nothing behind. `Accounted` has two exceptions, and
each is one in the code. An event that its receiver dropped for a wrong secret stays in
the set when the entry is put right and the row is answered after all; that takes two
changes of tables 2 (or the deletion of a target). And an answer that comes before the
event is on record is not counted, or is added to the set after it was removed (`hasty`).
Both are in `PlainLeavesUnlessMended`.

**SqlAdapter.** The invariant speaks of one call at a time (`CallInv`), and `OthersKeep`
shows that a step of one leaves those of the others alone, since a connection is used by
the call that has it from the pool. Nothing of a call has taken effect before its commit,
at the commit everything it was asked is open on its connection (`NoneSkipped`), and a
connection goes back with nothing open (`FreeIsClean`). That deleting a target never meets
its foreign key is because its row in table 3 goes first, in the same transaction
(`PivotFirst`); hence the excuse of whoever throws (`HasExcuse`).

**PeerApp.** The accessors set their memo before they await, so the second caller finds
it (`BuiltOnce`). Until the pass of a route is over, and unless a tick crossed it, the row
is pending or already published for that operation (`PassSeesIt`). The Nuxt page drops a
request when it makes a newer one, so no GET of the tables in flight is older than what
the page was told (`NuxtCatchesUp`).

### What stays with TLC

* Liveness under fairness, and with it ENABLED: `QueueDrains` (of `Inbound` and of
  `Delivery`), `PropagationSettles`, `ConsumesInTheEnd`, `EveryCallEnds`,
  `RetriedByTimer`. The proof system has no rule for them.
* What only holds under the conditions of `source_calm`: `SettledIsClean`,
  `FinalStatusIsTrue` and the refinement `PropagatesInRounds`. A theorem would have to assume
  away the interleavings that the code has, so these are statements about an instance
  and are left as such.
* What the runs with `expect` "violation" refute, and the disagreements of section 3,
  need their counterexamples, which only TLC gives.

## 5. What the disagreements have in common

Rows are identified by client and target, acknowledgements are not tied to the
request a row stands for, and the plain secret is erased by counting the events
published so far, not the rows still owed. Between peers, only events move the cursor,
so a local operation is not ordered against those of others. Each is harmless while operator, passes
and targets take turns. They need not: the reference peers run `sync()` every ten
seconds without waiting for the pass before (`poc/management-nest`, `sync.cron.ts`;
`poc/consumer-next`, `setInterval`) and again after each operation
(`poc/consumer-next/src/app/api/rotate/route.ts`), and a target answers when it likes.

## 6. Not modelled, and what is left

* JSON encoding, constant-time comparison and hashing: pure functions, modelled by
  what they decide.
* The `call-target` buttons' traffic, the forms and markup of the pages, DTOs, OpenAPI
  declarations, the routes that list the Redis of all peers, and the end-to-end
  runner: they change no state.
* `POST /api/sync` of the Next and Nuxt peers has no action of its own: it is one more
  pass, like a tick, and the pages do not call it.
* Clocks that disagree between the peers of `Mesh` (`Inbound` has them for one
  receiver); a payload that is missing; several clients that share one Redis set.
* RabbitMQ's clustering, Redis failover, MariaDB's deadlock detection (one of two
  deadlocked transactions is rolled back, which is a `Throw`).

Left to do: `Mesh` takes an operation and a handler as single steps and has one pass per
peer; that the interleaved peers of `Source` and `Inbound` implement `Mesh` is not stated.
The lemmas on finite sets and queues that several proof modules state for themselves
could be kept in one place.
