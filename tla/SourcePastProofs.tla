-------------------------- MODULE SourcePastProofs --------------------------
(***************************************************************************)
(* Proofs about Source and its history: what a row, a message, a pass and  *)
(* the local store have of an operation is of the one that the row stands  *)
(* for, up to the causes on record in past, for every set of clients,      *)
(* targets and passes, any operations at any time, any interleaving and    *)
(* any number of faults of every kind.                                     *)
(***************************************************************************)
EXTENDS SourceProofs

Committed(o) == o \in Ops /\ opPc[o] \in {"local", "done"}

\* Rows stand for operations that committed, pending ones for the last of their
\* client.
OpsAreKnown ==
    /\ \A c \in Clients :
          wish[c] # NoRow => Committed(wish[c]) /\ ask[wish[c]].client = c
    /\ \A c \in Clients, t \in Targets :
          /\ due[c][t] # NoRow => Committed(due[c][t])
          /\ db.status[c][t] # "none" => due[c][t] # NoRow
          /\ db.status[c][t] = "pending" => due[c][t] = wish[c]
    /\ \A o \in past.early : Committed(o)

\* While a row is pending, table 1 has the plain secret of that operation, or it
\* was erased too early.
PlainIsCurrent ==
    \A c \in Clients :
        /\ db.plain[c] \in Ops => db.plain[c] = wish[c]
        /\ PendingTargets(db, c) # {} /\ wish[c] \notin past.early =>
              db.plain[c] = PlainOf(wish[c])

\* What a pass has in hand is what its rows stand for.
HandIsCurrent ==
    \A s \in Syncers : \A p \in InHand(s) :
        /\ wish[p.client] \in Ops
        /\ wish[p.client] \notin Overtaken => p.plain = PlainOf(wish[p.client])
        /\ \A t \in p.targets :
              /\ due[p.client][t] \in Ops
              /\ due[p.client][t] \notin Overtaken =>
                    p.plain = PlainOf(due[p.client][t])

\* The operation that the row of an event stands for.
DueOf(id) == due[ClientOf(id)][TargetOf(id)]

\* So is the event of which it has yet to mark the row.
SendingIsCurrent ==
    \A s \in Syncers : syncPc[s] \in AfterPublish =>
        /\ DueOf(sending[s]) \in Ops
        /\ DueOf(sending[s]) \notin Overtaken =>
              events[sending[s]].secret = PlainOf(DueOf(sending[s]))

\* So is what is on its way to a target or back.
MailIsCurrent ==
    \A id \in EventIds : Underway(id) =>
        /\ DueOf(id) \in Ops
        /\ DueOf(id) \notin Overtaken \cup past.overMail =>
              events[id].secret = PlainOf(DueOf(id))

\* The local store has what the last operation left there, or is about to.
LocalIsCurrent ==
    /\ \A c \in Clients :
          wish[c] \in Ops =>
              \/ opPc[wish[c]] = "local"
              \/ wish[c] \in Overtaken \cup past.overOperation \cup past.halted
              \/ local[c] = LocalAfter(wish[c])
    /\ \A o \in Ops :
          opPc[o] = "local" =>
              wish[ask[o].client] = o \/ wish[ask[o].client] \in past.overOperation

\* A pending row was taken by a pass, or nothing has happened since it was opened.
PendingIsOwed ==
    \A c \in Clients : \A t \in PendingTargets(db, c) :
        \/ \E s \in Syncers : Owes(s, c, t)
        \/ <<due[c][t], t>> \in past.left
        \/ due[c][t] \in past.overPass \cup past.overMail
        \/ (\A s \in Syncers : ~ Holds(s, c)) /\ MailOf(c) = {}

\* A plain secret is known to nobody before its operation commits.
SecretsAreCommitted ==
    /\ \A id \in EventIds : events[id].secret \in Ops => Committed(events[id].secret)
    /\ \A s \in Syncers : \A p \in InHand(s) : p.plain \in Ops => Committed(p.plain)

\* A pass has a target of a client in hand once; two passes have the same
\* propagation in hand only if that is on record.
HandsAreApart ==
    /\ \A s \in Syncers :
          /\ \A p, q \in InHand(s) : p.client = q.client => p = q
          /\ syncPc[s] \in AtTarget => \A p \in todo[s] : p.client # work[s].client
    /\ \A s, r \in Syncers : \A p \in InHand(s), q \in InHand(r) :
          s # r /\ p.client = q.client /\ p.plain = q.plain /\ p.plain \in Ops =>
              p.plain \in past.overlapped

\* What a pass has in hand, or may fetch, was not told before.
ToldOnce ==
    /\ \A c \in Clients : \A t \in PendingTargets(db, c) : \A id \in Sent(c, t) :
          events[id].secret = db.plain[c] /\ db.plain[c] \in Ops =>
              \/ id \in past.torn
              \/ \E s \in Syncers : syncPc[s] \in AfterPublish /\ sending[s] = id
    /\ \A s \in Syncers : \A p \in InHand(s) : \A t \in p.targets :
          \A id \in Sent(p.client, t) :
              events[id].secret = p.plain /\ p.plain \in Ops =>
                  id \in past.torn \/ p.plain \in past.overlapped

\* An event is on record until its result is, or that is about to be so.
RecordsAreKept ==
    \A id \in EventIds :
        \/ id \in redis.records \cup counted \cup past.torn \cup past.expired
        \/ \E s \in Syncers : syncPc[s] = "record" /\ sending[s] = id

\* Some operation revoked the client, or had its plain secret erased too early.
MayBeDeleted(c) ==
    \E o \in Ops : /\ Committed(o) /\ ask[o].client = c
                   /\ ask[o].kind = "revoke" \/ o \in past.early

DeletionsAreCaused ==
    /\ \A id \in EventIds : events[id].secret = NoPlain => MayBeDeleted(ClientOf(id))
    /\ \A s \in Syncers : \A p \in InHand(s) :
          p.plain = NoPlain => MayBeDeleted(p.client)

\* What a pass, a message or a row has of an operation is of the one that the
\* row stands for, up to the causes that the history names.
PastInv ==
    /\ OpsAreKnown /\ PlainIsCurrent /\ HandIsCurrent /\ SendingIsCurrent
    /\ MailIsCurrent /\ SentMeansPublished /\ VerdictIsCurrent /\ LocalIsCurrent
    /\ PendingIsOwed /\ SecretsAreCommitted /\ HandsAreApart /\ ToldOnce
    /\ PublishOnce /\ RecordsAreKept /\ DeletionsAreCaused
-----------------------------------------------------------------------------
(***************************************************************************)
(* What a step leaves alone                                                *)
(***************************************************************************)

\* The types of what the following speaks of.
LEMMA Basics ==
    ASSUME IInv
    PROVE  /\ Len(events) \in Nat /\ EventIds = 1..Len(events)
           /\ \A id \in EventIds : ClientOf(id) \in Clients /\ TargetOf(id) \in Targets
           /\ \A s \in Syncers : InHand(s) \subseteq Propagation
           /\ \A s \in Syncers : syncPc[s] \in AtTarget =>
                 work[s] \in InHand(s) /\ work[s] \in Propagation
           /\ \A s \in Syncers : syncPc[s] \in AfterPublish =>
                 /\ work[s] \in InHand(s) /\ work[s] \in Propagation
                 /\ sending[s] \in EventIds
                 /\ ClientOf(sending[s]) = work[s].client
           /\ \A o \in Ops : opPc[o] # "unused" =>
                 ask[o] \in Asks /\ ask[o].client \in Clients
                 /\ ask[o].targets \subseteq Targets
  <1>1. Len(events) \in Nat /\ EventIds = 1..Len(events)
    BY LenProperties DEF IInv, TypeOK, EventIds
  <1>2. \A id \in EventIds : ClientOf(id) \in Clients /\ TargetOf(id) \in Targets
    BY EventType DEF IInv
  <1>3. \A s \in Syncers : InHand(s) \subseteq Propagation
    BY DEF InHand, IInv, TypeOK, PassKnows
  <1>4. \A s \in Syncers : syncPc[s] \in AtTarget => work[s] \in InHand(s)
    BY DEF InHand
  <1>5. \A s \in Syncers : syncPc[s] \in AfterPublish => syncPc[s] \in AtTarget
    BY DEF AfterPublish, AtTarget
  <1>6. \A s \in Syncers : syncPc[s] \in AfterPublish =>
            /\ sending[s] \in EventIds /\ ClientOf(sending[s]) = work[s].client
    BY DEF IInv, PassKnows
  <1>7. \A o \in Ops : opPc[o] # "unused" =>
           ask[o] \in Asks /\ ask[o].client \in Clients
           /\ ask[o].targets \subseteq Targets
    BY DEF IInv, TypeOK, Asks
  <1> QED
    BY <1>1, <1>2, <1>3, <1>4, <1>5, <1>6, <1>7

\* An operation that committed stays committed, and what it asks for stays.
LEMMA OpsLast ==
    ASSUME IInv, [Next]_vars, NEW o \in Ops
    PROVE  /\ opPc[o] # "unused" => ask'[o] = ask[o]
           /\ Committed(o) => Committed(o)'
  <1>0. opPc \in [Ops -> {"unused", "commit", "local", "done"}] /\ ask \in [Ops -> Asks \cup {NoAsk}]
    BY DEF IInv, TypeOK
  <1>1. CASE UNCHANGED <<opPc, ask>>
    BY <1>1 DEF Committed
  <1>2. ASSUME NEW x \in Ops, NEW kind \in Kinds, NEW c \in Clients,
               NEW targets \in SUBSET Targets, Request(x, kind, c, targets)
        PROVE  /\ opPc[o] # "unused" => ask'[o] = ask[o]
               /\ Committed(o) => Committed(o)'
    BY <1>0, <1>2 DEF Request, Committed
  <1>3. ASSUME NEW x \in Ops, Commit(x) \/ ApplyOperation(x) \/ OperationFails(x)
        PROVE  /\ opPc[o] # "unused" => ask'[o] = ask[o]
               /\ Committed(o) => Committed(o)'
    BY <1>0, <1>3 DEF Commit, ApplyOperation, OperationFails, Committed
  <1>4. CASE Crash
    BY <1>0, <1>4 DEF Crash, Committed
  <1> QED
    BY <1>1, <1>2, <1>3, <1>4
       DEF Next, Operate, Sync, SyncFails, HandleAck, Fetch, ApplyLocal,
           ApplyLocalFails, Publish, Record, Index, MarkSent, PublishFails,
           BookkeepingFails, TakeAck, DropUnknown, RecordResult, MarkResult,
           CountPending, Finalize, Clear, CallbackFails, HandlerFails, Answer,
           Expire, ExpireAggregate, opVars, vars

\* The history only grows.
LEMMA PastGrows ==
    ASSUME IInv, [Next]_vars
    PROVE  /\ past.overOperation \subseteq past'.overOperation
           /\ past.overPass \subseteq past'.overPass
           /\ past.overMail \subseteq past'.overMail
           /\ past.halted \subseteq past'.halted
           /\ past.early \subseteq past'.early
           /\ past.overlapped \subseteq past'.overlapped
           /\ past.left \subseteq past'.left
           /\ past.torn \subseteq past'.torn
           /\ past.expired \subseteq past'.expired
           /\ counted \subseteq counted' /\ answered \subseteq answered'
           /\ Overtaken \subseteq Overtaken'
  <1> DEFINE Grows ==
           /\ past.overOperation \subseteq past'.overOperation
           /\ past.overPass \subseteq past'.overPass
           /\ past.overMail \subseteq past'.overMail
           /\ past.halted \subseteq past'.halted
           /\ past.early \subseteq past'.early
           /\ past.overlapped \subseteq past'.overlapped
           /\ past.left \subseteq past'.left
           /\ past.torn \subseteq past'.torn
           /\ past.expired \subseteq past'.expired
  <1>0. past \in Pasts
    BY DEF IInv, TypeOK
  <1>1. Grows
    <2>1. CASE past' = past
      BY <2>1
    <2>2. ASSUME NEW o \in Ops, Commit(o) \/ OperationFails(o)
          PROVE  Grows
      <3> DEFINE a == {x \in {o} : \E p \in Ops : ask[p].client = ask[o].client
                                                 /\ opPc[p] = "local"}
                 b == {x \in {o} : \E s \in Syncers : Holds(s, ask[o].client)}
                 d == {x \in {o} : MailOf(ask[o].client) # {}}
                 e == {x \in {o} : opPc[x] = "local"}
      <3>1. \/ past' = [past EXCEPT !.overOperation = @ \cup a,
                                    !.overPass = @ \cup b, !.overMail = @ \cup d]
            \/ past' = [past EXCEPT !.halted = @ \cup e]
        BY <2>2 DEF Commit, OperationFails
      <3> HIDE DEF a, b, d, e
      <3> QED
        BY <1>0, <3>1 DEF Pasts
    <2>3. ASSUME NEW s \in Syncers, Fetch(s) \/ ApplyLocalFails(s) \/ BookkeepingFails(s)
          PROVE  Grows
      <3>1. \/ \E a : past' = [past EXCEPT !.overlapped = @ \cup a]
            \/ \E a : past' = [past EXCEPT !.left = @ \cup a]
            \/ \E a, b : past' = [past EXCEPT !.left = @ \cup a, !.torn = @ \cup b]
        BY <2>3, Zenon DEF Fetch, ApplyLocalFails, BookkeepingFails
      <3> QED
        BY <1>0, <3>1 DEF Pasts
    <2>4. ASSUME NEW s \in Syncers, PublishFails(s)
          PROVE  Grows
      BY <1>0, <2>4 DEF PublishFails, Pasts
    <2>5. CASE Finalize
      BY <1>0, <2>5 DEF Finalize, Pasts
    <2>6. ASSUME NEW id \in Ids, Expire(id)
          PROVE  Grows
      BY <1>0, <2>6 DEF Expire, Pasts
    <2>7. CASE Crash
      BY <1>0, <2>7 DEF Crash, Pasts
    <2> HIDE DEF Grows
    <2> QED
      BY <2>1, <2>2, <2>3, <2>4, <2>5, <2>6, <2>7
         DEF Next, Operate, Sync, SyncFails, HandleAck, Request, ApplyOperation,
             ApplyLocal, Publish, Record, Index, MarkSent, TakeAck, DropUnknown,
             RecordResult, MarkResult, CountPending, Clear, CallbackFails,
             HandlerFails, Answer, ExpireAggregate, history, vars
  <1>2. counted \subseteq counted' /\ answered \subseteq answered'
    BY DEF Next, Operate, Sync, SyncFails, HandleAck, Request, Commit,
           ApplyOperation, OperationFails, Fetch, ApplyLocalFails,
           ApplyLocal, Publish, Record, Index, MarkSent, PublishFails,
           BookkeepingFails, TakeAck, DropUnknown, RecordResult, MarkResult,
           CountPending, Finalize, Clear, CallbackFails, HandlerFails, Answer,
           Expire, ExpireAggregate, Crash, history, vars
  <1> QED
    BY <1>1, <1>2 DEF Overtaken

\* Pass s publishes what it has in hand to target t, as event n.
Publishes(s, t, n) ==
    /\ syncPc[s] = "publish" /\ t \in work[s].targets
    /\ n = Len(events) + 1 /\ n \in Ids \ EventIds
    /\ EventIds' = EventIds \cup {n}
    /\ events'[n] = [client |-> work[s].client, target |-> t, secret |-> work[s].plain]
    /\ \A id \in EventIds : events'[id] = events[id]
    /\ \/ syncPc'[s] = "record" /\ sending'[s] = n
       \/ n \in past'.torn
    /\ todo' = todo
    /\ \A r \in Syncers \ {s} : work'[r] = work[r] /\ syncPc'[r] = syncPc[r]
    /\ syncPc'[s] \in AtTarget =>
          work'[s] = [work[s] EXCEPT !.targets = @ \ {t}]
    /\ UNCHANGED <<opPc, ask, db, redis, local, wish, due, answered, counted>>

\* A publish that reaches the broker, confirmed or not.
LEMMA PublishEffect ==
    ASSUME IInv, NEW s \in Syncers, Publish(s) \/ PublishFails(s)
    PROVE  \/ ~ Publish(s) /\ UNCHANGED events
           \/ \E t \in Targets, n \in Ids : Publishes(s, t, n)
  <1>0. /\ syncPc[s] = "publish"
        /\ UNCHANGED <<opPc, ask, todo, handlerPc, handled, db, redis, local, inbox,
                       wish, due, answered, counted>>
    BY ZenonT(40) DEF Publish, PublishFails, opVars, handlerVars, history
  <1>1. PICK t \in work[s].targets :
           /\ (~ Publish(s) /\ UNCHANGED events) \/ Enqueue(s, t)
           /\ \/ /\ work' = [work EXCEPT ![s].targets = @ \ {t}]
                 /\ sending' = [sending EXCEPT ![s] = Len(events) + 1]
                 /\ syncPc' = [syncPc EXCEPT ![s] = "record"]
              \/ /\ GoOn(s, work[s].targets \ {t})
                 /\ past' = [past EXCEPT
                       !.left = @ \cup {<<due[work[s].client][t], t>>},
                       !.torn = @ \cup (DOMAIN events' \ DOMAIN events)]
    BY DEF Publish, PublishFails
  <1>2. SUFFICES ASSUME Enqueue(s, t)
                 PROVE  \E u \in Targets, n \in Ids : Publishes(s, u, n)
    BY <1>1
  <1>3. work[s] \in Propagation /\ t \in Targets
    BY <1>0, Basics DEF AtTarget, Propagation
  <1>4. PICK n : n = Len(events) + 1
    OBVIOUS
  <1>5. /\ EventIds' = EventIds \cup {n} /\ n \in Ids
        /\ \A id \in EventIds : events'[id] = events[id]
    BY <1>0, <1>1, <1>2, <1>4, EventsGrow
  <1>6. n \notin EventIds
    BY <1>4, Basics
  <1>7. events'[n] = [client |-> work[s].client, target |-> t,
                      secret |-> work[s].plain]
    BY <1>2, <1>3, <1>4, AppendProperties DEF Enqueue, IInv, TypeOK, Propagation, Event
  <1>8. \/ syncPc'[s] = "record" /\ sending'[s] = n
        \/ n \in past'.torn
    <2>1. CASE past' = [past EXCEPT
                  !.left = @ \cup {<<due[work[s].client][t], t>>},
                  !.torn = @ \cup (DOMAIN events' \ DOMAIN events)]
      BY <1>5, <1>6, <2>1 DEF IInv, TypeOK, Pasts, EventIds
    <2>2. CASE /\ sending' = [sending EXCEPT ![s] = Len(events) + 1]
               /\ syncPc' = [syncPc EXCEPT ![s] = "record"]
      BY <1>4, <2>2 DEF IInv, TypeOK
    <2> QED
      BY <1>1, <2>1, <2>2
  <1>9. /\ \A r \in Syncers \ {s} : work'[r] = work[r] /\ syncPc'[r] = syncPc[r]
        /\ syncPc'[s] \in AtTarget => work'[s] = [work[s] EXCEPT !.targets = @ \ {t}]
    <2>1. CASE GoOn(s, work[s].targets \ {t})
      BY <1>3, <2>1 DEF GoOn, IInv, TypeOK, AtTarget
    <2>2. CASE /\ work' = [work EXCEPT ![s].targets = @ \ {t}]
               /\ syncPc' = [syncPc EXCEPT ![s] = "record"]
      BY <1>3, <2>2 DEF IInv, TypeOK
    <2> QED
      BY <1>1, <2>1, <2>2
  <1> QED
    BY <1>0, <1>3, <1>4, <1>5, <1>6, <1>7, <1>8, <1>9 DEF Publishes

\* Nothing is published but by a pass with the propagation in hand.
LEMMA EventKinds ==
    ASSUME IInv, [Next]_vars
    PROVE  \/ UNCHANGED events
           \/ \E s \in Syncers, t \in Targets, n \in Ids : Publishes(s, t, n)
  BY PublishEffect
     DEF Next, Operate, Sync, SyncFails, HandleAck, Request, Commit,
         ApplyOperation, OperationFails, Fetch, ApplyLocalFails,
         ApplyLocal, Record, Index, MarkSent,
         BookkeepingFails, TakeAck, DropUnknown, RecordResult, MarkResult,
         CountPending, Finalize, Clear, CallbackFails, HandlerFails, Answer,
         Expire, ExpireAggregate, Crash, brokerVars, vars

\* An event was there, or is published now.
LEMMA EventIsNew ==
    ASSUME IInv, [Next]_vars, NEW id \in EventIds'
    PROVE  \/ id \in EventIds
           \/ \E s \in Syncers, t \in Targets : Publishes(s, t, id)
  <1>1. UNCHANGED events => EventIds' = EventIds
    BY DEF EventIds
  <1>2. ASSUME NEW s \in Syncers, NEW t \in Targets, NEW n \in Ids,
               Publishes(s, t, n)
        PROVE  id \in EventIds \/ id = n
    BY <1>2 DEF Publishes
  <1> QED
    BY <1>1, <1>2, EventKinds

\* What was published stays.
LEMMA EventsLast ==
    ASSUME IInv, [Next]_vars
    PROVE  /\ EventIds \subseteq EventIds'
           /\ \A id \in EventIds : events'[id] = events[id]
           /\ \A c, t : Sent(c, t) \subseteq Sent(c, t)'
  <1>1. /\ EventIds \subseteq EventIds'
        /\ \A id \in EventIds : events'[id] = events[id]
    BY EventKinds DEF Publishes, EventIds
  <1> QED
    BY <1>1 DEF Sent, ClientOf, TargetOf

\* What a pass may do with its propagations: keep them, end or go on to the next,
\* go on with fewer targets, or take one in hand.
Keeps(s) ==
    /\ todo'[s] = todo[s] /\ work'[s] = work[s]
    /\ syncPc'[s] \in AtTarget => syncPc[s] \in AtTarget

Drops(s) ==
    todo'[s] \subseteq todo[s] /\ syncPc'[s] \notin AtTarget

Narrows(s) ==
    /\ todo'[s] = todo[s] /\ syncPc[s] \in AtTarget
    /\ work'[s].client = work[s].client /\ work'[s].plain = work[s].plain
    /\ work'[s].targets \subseteq work[s].targets

Takes(s) ==
    \E p \in todo[s] : todo'[s] = todo[s] \ {p} /\ work'[s] = p

\* Every step does one of these, or the pass fetches.
LEMMA PassKinds ==
    ASSUME IInv, [Next]_vars, NEW s \in Syncers
    PROVE  Keeps(s) \/ Drops(s) \/ Narrows(s) \/ Takes(s) \/ Fetch(s)
  <1> DEFINE Goal == Keeps(s) \/ Drops(s) \/ Narrows(s) \/ Takes(s) \/ Fetch(s)
  <1> SUFFICES Goal
    OBVIOUS
  <1>0. /\ syncPc \in [Syncers -> {"idle", "apply", "publish", "record", "index", "mark"}]
        /\ todo \in [Syncers -> SUBSET Propagation]
        /\ work \in [Syncers -> Propagation \cup {None}]
    BY DEF IInv, TypeOK
  <1>1. CASE UNCHANGED <<syncPc, todo, work>>
    BY <1>1 DEF Keeps
  <1>2. ASSUME NEW r \in Syncers, NEW targets, GoOn(r, targets), todo' = todo,
               syncPc[r] \in AtTarget, targets \subseteq work[r].targets
        PROVE  Goal
    <2>1. work[r] \in Propagation
      BY <1>2, Basics
    <2>2. CASE r # s
      BY <1>0, <1>2, <2>2 DEF GoOn, Keeps
    <2>3. CASE r = s /\ targets # {}
      BY <1>0, <1>2, <2>1, <2>3 DEF GoOn, Narrows, Propagation
    <2>4. CASE r = s /\ targets = {}
      BY <1>0, <1>2, <2>4 DEF GoOn, Drops, AtTarget
    <2> QED
      BY <2>2, <2>3, <2>4
  <1>3. ASSUME NEW r \in Syncers, Fetch(r)
        PROVE  Goal
    BY <1>0, <1>3 DEF Fetch, Keeps
  <1>4. ASSUME NEW r \in Syncers, ApplyLocal(r)
        PROVE  Goal
    <2>1. PICK p \in todo[r] : /\ todo' = [todo EXCEPT ![r] = @ \ {p}]
                               /\ work' = [work EXCEPT ![r] = p]
                               /\ syncPc' = [syncPc EXCEPT ![r] = "publish"]
      BY <1>4 DEF ApplyLocal
    <2>2. CASE r = s
      BY <1>0, <2>1, <2>2 DEF Takes
    <2>3. CASE r # s
      BY <1>0, <2>1, <2>3 DEF Keeps
    <2> QED
      BY <2>2, <2>3
  <1>5. ASSUME NEW r \in Syncers, ApplyLocalFails(r)
        PROVE  Goal
    BY <1>0, <1>5 DEF ApplyLocalFails, Keeps, Drops, AtTarget
  <1>6. ASSUME NEW r \in Syncers, Publish(r)
        PROVE  Goal
    <2>1. PICK t \in work[r].targets : work' = [work EXCEPT ![r].targets = @ \ {t}]
      BY <1>6 DEF Publish
    <2>2. syncPc[r] \in AtTarget /\ todo' = todo
          /\ syncPc' = [syncPc EXCEPT ![r] = "record"]
      BY <1>6 DEF Publish, AtTarget
    <2>3. work[r] \in Propagation
      BY <2>2, Basics
    <2>4. CASE r = s
      BY <1>0, <2>1, <2>2, <2>3, <2>4 DEF Narrows, Propagation
    <2>5. CASE r # s
      BY <1>0, <2>1, <2>2, <2>5 DEF Keeps
    <2> QED
      BY <2>4, <2>5
  <1>7. ASSUME NEW r \in Syncers, Record(r) \/ Index(r)
        PROVE  Goal
    BY <1>0, <1>7 DEF Record, Index, Keeps, AtTarget
  <1>8. ASSUME NEW r \in Syncers, MarkSent(r) \/ BookkeepingFails(r)
        PROVE  Goal
    BY <1>2, <1>8 DEF MarkSent, BookkeepingFails, AtTarget
  <1>9. ASSUME NEW r \in Syncers, PublishFails(r)
        PROVE  Goal
    <2>1. PICK t \in work[r].targets : GoOn(r, work[r].targets \ {t})
      BY <1>9 DEF PublishFails
    <2>2. syncPc[r] \in AtTarget /\ todo' = todo
      BY <1>9 DEF PublishFails, AtTarget
    <2>3. work[r].targets \ {t} \subseteq work[r].targets
      OBVIOUS
    <2> HIDE DEF Goal
    <2> QED
      BY <1>2, <2>1, <2>2, <2>3
  <1>10. CASE Crash
    BY <1>0, <1>10 DEF Crash, Drops, AtTarget
  <1> HIDE DEF Goal
  <1> QED
    BY <1>1, <1>3, <1>4, <1>5, <1>6, <1>7, <1>8, <1>9, <1>10
       DEF Next, Operate, Sync, SyncFails, HandleAck, Request, Commit,
           ApplyOperation, OperationFails, TakeAck, DropUnknown, RecordResult,
           MarkResult, CountPending, Finalize, Clear, CallbackFails, HandlerFails,
           Answer, Expire, ExpireAggregate, syncVars, vars

\* But for a fetch, what a pass has in hand is what it had, for fewer targets.
LEMMA HandsShrink ==
    ASSUME IInv, [Next]_vars, NEW s \in Syncers, ~ Fetch(s), NEW p \in InHand(s)'
    PROVE  \E q \in InHand(s) : /\ q.client = p.client /\ q.plain = p.plain
                                /\ p.targets \subseteq q.targets
  <1>1. p \in todo'[s] \/ (p = work'[s] /\ syncPc'[s] \in AtTarget)
    BY DEF InHand
  <1>2. CASE Keeps(s) \/ Drops(s)
    BY <1>1, <1>2 DEF Keeps, Drops, InHand
  <1>3. CASE Narrows(s)
    BY <1>1, <1>3 DEF Narrows, InHand
  <1>4. CASE Takes(s)
    BY <1>1, <1>4 DEF Takes, InHand
  <1> QED
    BY <1>2, <1>3, <1>4, PassKinds

\* A pass is past its publish with the event it had, or with a new one; it is
\* done with an event when it has marked the row, or breaks off.
LEMMA SendingKinds ==
    ASSUME IInv, [Next]_vars, NEW s \in Syncers
    PROVE  /\ syncPc'[s] \in AfterPublish =>
                 \/ syncPc[s] \in AfterPublish /\ sending'[s] = sending[s]
                 \/ Publish(s) /\ sending'[s] = Len(events) + 1
           /\ syncPc[s] \in AfterPublish =>
                 \/ syncPc'[s] \in AfterPublish /\ sending'[s] = sending[s]
                 \/ MarkSent(s)
                 \/ sending[s] \in past'.torn
  <1> DEFINE Goal ==
           /\ syncPc'[s] \in AfterPublish =>
                 \/ syncPc[s] \in AfterPublish /\ sending'[s] = sending[s]
                 \/ Publish(s) /\ sending'[s] = Len(events) + 1
           /\ syncPc[s] \in AfterPublish =>
                 \/ syncPc'[s] \in AfterPublish /\ sending'[s] = sending[s]
                 \/ MarkSent(s)
                 \/ sending[s] \in past'.torn
  <1> SUFFICES Goal
    OBVIOUS
  <1>0. /\ syncPc \in [Syncers -> {"idle", "apply", "publish", "record", "index", "mark"}]
        /\ sending \in [Syncers -> Ids \cup {None}]
        /\ past \in Pasts
    BY DEF IInv, TypeOK
  <1>1. CASE UNCHANGED <<syncPc, sending>>
    BY <1>1
  <1>2. ASSUME NEW r \in Syncers, Fetch(r) \/ ApplyLocal(r) \/ ApplyLocalFails(r)
        PROVE  Goal
    BY <1>0, <1>2 DEF Fetch, ApplyLocal, ApplyLocalFails, AfterPublish
  <1>3. ASSUME NEW r \in Syncers, Publish(r)
        PROVE  Goal
    BY <1>0, <1>3 DEF Publish, AfterPublish
  <1>4. ASSUME NEW r \in Syncers, Record(r) \/ Index(r)
        PROVE  Goal
    BY <1>0, <1>4 DEF Record, Index, AfterPublish
  <1>5. ASSUME NEW r \in Syncers, MarkSent(r)
        PROVE  Goal
    BY <1>0, <1>5 DEF MarkSent, GoOn, AfterPublish
  <1>6. ASSUME NEW r \in Syncers, PublishFails(r)
        PROVE  Goal
    <2>1. PICK t \in work[r].targets : GoOn(r, work[r].targets \ {t})
      BY <1>6 DEF PublishFails
    <2>2. syncPc[r] = "publish"
      BY <1>6 DEF PublishFails
    <2> QED
      BY <1>0, <2>1, <2>2 DEF GoOn, AfterPublish
  <1>7. ASSUME NEW r \in Syncers, BookkeepingFails(r)
        PROVE  Goal
    <2>1. sending[r] \in past'.torn
      BY <1>0, <1>7 DEF BookkeepingFails, Pasts
    <2>2. GoOn(r, work[r].targets)
      BY <1>7 DEF BookkeepingFails
    <2> QED
      BY <1>0, <2>1, <2>2 DEF GoOn, AfterPublish
  <1>8. CASE Crash
    <2> DEFINE a == {o \in Ops : opPc[o] = "local"}
               b == UNION {LeftBy(r) : r \in Syncers}
               d == {sending[r] : r \in {x \in Syncers : syncPc[x] \in AfterPublish}}
    <2>1. past' = [past EXCEPT !.halted = @ \cup a, !.left = @ \cup b,
                              !.torn = @ \cup d]
      BY <1>8 DEF Crash
    <2>2. syncPc[s] \in AfterPublish => sending[s] \in d
      OBVIOUS
    <2>3. syncPc'[s] = "idle"
      BY <1>8 DEF Crash
    <2> HIDE DEF a, b, d
    <2> QED
      BY <1>0, <2>1, <2>2, <2>3 DEF Pasts, AfterPublish
  <1> HIDE DEF Goal
  <1> QED
    BY <1>1, <1>2, <1>3, <1>4, <1>5, <1>6, <1>7, <1>8
       DEF Next, Operate, Sync, SyncFails, HandleAck, Request, Commit,
           ApplyOperation, OperationFails, TakeAck, DropUnknown, RecordResult,
           MarkResult, CountPending, Finalize, Clear, CallbackFails, HandlerFails,
           Answer, Expire, ExpireAggregate, syncVars, vars

\* Nothing is on its way that was not, but what is published.
LEMMA UnderwayShrinks ==
    ASSUME IInv, [Next]_vars, NEW id \in EventIds, Underway(id)'
    PROVE  Underway(id)
  <1>0. /\ mailbox \in [Targets -> Seq(Ids)] /\ inbox \in Seq(Ids)
        /\ Len(events) \in Nat /\ id # Len(events) + 1
        /\ handlerPc # "idle" => handled \in Ids
    BY Basics, SourceAssumption DEF IInv, TypeOK
  <1>1. /\ (\E t \in Targets : \E i \in DOMAIN mailbox'[t] : mailbox'[t][i] = id) =>
              \E t \in Targets : \E i \in DOMAIN mailbox[t] : mailbox[t][i] = id
    <2>1. CASE UNCHANGED mailbox
      BY <2>1
    <2>2. ASSUME NEW s \in Syncers, NEW t \in work[s].targets, Enqueue(s, t),
                 syncPc[s] = "publish",
                 NEW u \in Targets, NEW i \in DOMAIN mailbox'[u],
                 mailbox'[u][i] = id
          PROVE  \E j \in DOMAIN mailbox[u] : mailbox[u][j] = id
      <3>1. t \in Targets
        BY <2>2, Basics DEF AtTarget, Propagation
      <3>2. mailbox[u] \in Seq(Ids)
        BY <1>0
      <3>3. CASE u # t
        BY <1>0, <2>2, <3>3 DEF Enqueue
      <3>4. CASE u = t
        <4>1. mailbox'[u] = Append(mailbox[u], Len(events) + 1)
          BY <1>0, <2>2, <3>1, <3>4 DEF Enqueue
        <4>2. DOMAIN mailbox[u] = 1..Len(mailbox[u])
              /\ DOMAIN mailbox'[u] = 1..(Len(mailbox[u]) + 1)
              /\ Len(mailbox[u]) \in Nat
          BY <3>2, <4>1
        <4>3. \A j \in 1..Len(mailbox[u]) : mailbox'[u][j] = mailbox[u][j]
          BY <3>2, <4>1
        <4>4. mailbox'[u][Len(mailbox[u]) + 1] = Len(events) + 1
          BY <3>2, <4>1
        <4> QED
          BY <1>0, <2>2, <4>2, <4>3, <4>4
      <3> QED
        BY <3>3, <3>4
    <2>3. ASSUME NEW t \in Targets, Answer(t),
                 NEW u \in Targets, NEW i \in DOMAIN mailbox'[u],
                 mailbox'[u][i] = id
          PROVE  \E j \in DOMAIN mailbox[u] : mailbox[u][j] = id
      <3>1. mailbox[u] \in Seq(Ids)
        BY <1>0
      <3>2. \/ mailbox'[u] = mailbox[u]
            \/ mailbox[u] # <<>> /\ mailbox'[u] = Tail(mailbox[u])
        BY <1>0, <2>3 DEF Answer
      <3>3. CASE mailbox[u] # <<>> /\ mailbox'[u] = Tail(mailbox[u])
        <4>1. i + 1 \in DOMAIN mailbox[u] /\ Tail(mailbox[u])[i] = mailbox[u][i + 1]
          BY <2>3, <3>1, <3>3
        <4> QED
          BY <2>3, <3>3, <4>1
      <3> QED
        BY <2>3, <3>2, <3>3
    <2>4. ASSUME NEW s \in Syncers, Publish(s) \/ PublishFails(s)
          PROVE  \/ UNCHANGED mailbox
                 \/ syncPc[s] = "publish" /\ \E t \in work[s].targets : Enqueue(s, t)
      BY <2>4, ZenonT(40) DEF Publish, PublishFails
    <2> QED
      BY <2>1, <2>2, <2>3, <2>4
         DEF Next, Operate, Sync, SyncFails, HandleAck, Request, Commit,
             ApplyOperation, OperationFails, Fetch, ApplyLocal, ApplyLocalFails,
             Record, Index, MarkSent, BookkeepingFails, TakeAck, DropUnknown,
             RecordResult, MarkResult, CountPending, Finalize, Clear,
             CallbackFails, HandlerFails, Expire, ExpireAggregate, Crash,
             brokerVars, vars
  <1>2. \/ \E i \in DOMAIN inbox' : inbox'[i] = id
        \/ handlerPc' # "idle" /\ handled' = id
        => Underway(id)
    <2> SUFFICES ASSUME \/ \E i \in DOMAIN inbox' : inbox'[i] = id
                        \/ handlerPc' # "idle" /\ handled' = id
                 PROVE  Underway(id)
      OBVIOUS
    <2>1. CASE UNCHANGED inbox /\ (handlerPc' # "idle" => handlerPc # "idle" /\ handled' = handled)
      BY <2>1 DEF Underway
    <2>2. ASSUME NEW t \in Targets, Answer(t)
          PROVE  Underway(id)
      <3>1. mailbox[t] \in Seq(Ids) /\ mailbox[t] # <<>>
            /\ inbox' = Append(inbox, Head(mailbox[t]))
            /\ UNCHANGED <<handlerPc, handled>>
        BY <1>0, <2>2 DEF Answer, handlerVars
      <3>2. 1 \in DOMAIN mailbox[t] /\ Head(mailbox[t]) = mailbox[t][1]
        BY <3>1
      <3>3. ASSUME NEW i \in DOMAIN inbox', inbox'[i] = id
            PROVE  id = Head(mailbox[t]) \/ \E j \in DOMAIN inbox : inbox[j] = id
        <4>1. Head(mailbox[t]) \in Ids
          BY <3>1, <3>2
        <4> QED
          BY <1>0, <3>1, <3>3, <4>1
      <3> QED
        BY <3>1, <3>2, <3>3 DEF Underway
    <2>3. CASE TakeAck
      <3>1. /\ inbox # <<>> /\ inbox' = Tail(inbox) /\ handled' = Head(inbox)
        BY <2>3 DEF TakeAck
      <3>2. 1 \in DOMAIN inbox /\ Head(inbox) = inbox[1]
        BY <1>0, <3>1
      <3>3. \A i \in DOMAIN Tail(inbox) :
               i + 1 \in DOMAIN inbox /\ Tail(inbox)[i] = inbox[i + 1]
        BY <1>0, <3>1
      <3> QED
        BY <3>1, <3>2, <3>3 DEF Underway
    <2>4. CASE HandlerFails \/ Crash
      <3>1. /\ inbox' = inbox \/ (handlerPc # "idle" /\ inbox' = <<handled>> \o inbox)
            /\ handlerPc' = "idle"
        BY <2>4 DEF HandlerFails, Crash, Finish
      <3>2. ASSUME handlerPc # "idle", NEW i \in DOMAIN (<<handled>> \o inbox),
                   (<<handled>> \o inbox)[i] = id
            PROVE  handled = id \/ \E j \in DOMAIN inbox : inbox[j] = id
        <4>1. <<handled>> \in Seq(Ids) /\ Len(<<handled>>) = 1
          BY <1>0, <3>2
        <4>2. i = 1 \/ i - 1 \in DOMAIN inbox
          BY <1>0, <3>2, <4>1
        <4>3. (<<handled>> \o inbox)[i] = IF i = 1 THEN handled ELSE inbox[i - 1]
          BY <1>0, <3>2, <4>1
        <4> QED
          BY <3>2, <4>2, <4>3
      <3> QED
        BY <3>1, <3>2 DEF Underway
    <2> QED
      BY <2>1, <2>2, <2>3, <2>4
         DEF Next, Operate, Sync, SyncFails, HandleAck, Request, Commit,
             ApplyOperation, OperationFails, Fetch, ApplyLocal, ApplyLocalFails,
             Publish, Record, Index, MarkSent, PublishFails, BookkeepingFails,
             DropUnknown, RecordResult, MarkResult, CountPending, Finalize, Clear,
             CallbackFails, Expire, ExpireAggregate, Finish,
             handlerVars, brokerVars, vars
  <1> QED
    BY <1>1, <1>2 DEF Underway

\* A pass that goes on keeps what it has not told yet.
LEMMA GoOnKeeps ==
    ASSUME IInv, NEW s \in Syncers, NEW targets, GoOn(s, targets), todo' = todo,
           syncPc[s] \in AtTarget, NEW p \in InHand(s), NEW t \in p.targets,
           p = work[s] => t \in targets
    PROVE  \E q \in InHand(s)' : q.client = p.client /\ t \in q.targets
  <1>0. /\ syncPc \in [Syncers -> {"idle", "apply", "publish", "record", "index", "mark"}]
        /\ work \in [Syncers -> Propagation \cup {None}]
        /\ work[s] \in Propagation
    BY Basics DEF IInv, TypeOK
  <1>1. CASE p \in todo[s]
    BY <1>1 DEF InHand
  <1>2. CASE p = work[s]
    <2>1. syncPc'[s] = "publish" /\ work'[s] = [work[s] EXCEPT !.targets = targets]
      BY <1>0, <1>2 DEF GoOn
    <2> QED
      BY <1>0, <1>2, <2>1 DEF InHand, AtTarget, Propagation
  <1> QED
    BY <1>1, <1>2 DEF InHand

\* What a pass leaves when it breaks off is what it owes.
LEMMA LeftByOwed ==
    ASSUME NEW s \in Syncers, NEW c \in Clients, NEW t \in Targets, Owes(s, c, t)
    PROVE  <<due[c][t], t>> \in LeftBy(s)
  <1> DEFINE x == <<c, t>>
  <1>1. x[1] = c /\ x[2] = t
    OBVIOUS
  <1>2. x \in Clients \X Targets
    OBVIOUS
  <1> HIDE DEF x
  <1>3. x \in {y \in Clients \X Targets : Owes(s, y[1], y[2])}
    BY <1>1, <1>2
  <1>4. <<due[x[1]][x[2]], x[2]>> \in LeftBy(s)
    BY <1>3 DEF LeftBy
  <1> QED
    BY <1>1, <1>4

\* A pass is rid of a row when it has marked it, or breaks off on it.
LEMMA OwesKept ==
    ASSUME IInv, [Next]_vars, NEW s \in Syncers, ~ Fetch(s),
           NEW c \in Clients, NEW t \in Targets, Owes(s, c, t)
    PROVE  \/ Owes(s, c, t)'
           \/ <<due[c][t], t>> \in past'.left
           \/ MarkSent(s) /\ ClientOf(sending[s]) = c /\ TargetOf(sending[s]) = t
  <1> DEFINE Goal ==
           \/ Owes(s, c, t)'
           \/ <<due[c][t], t>> \in past'.left
           \/ MarkSent(s) /\ ClientOf(sending[s]) = c /\ TargetOf(sending[s]) = t
  <1> SUFFICES Goal
    OBVIOUS
  <1>0. /\ syncPc \in [Syncers -> {"idle", "apply", "publish", "record", "index", "mark"}]
        /\ sending \in [Syncers -> Ids \cup {None}]
        /\ todo \in [Syncers -> SUBSET Propagation]
        /\ work \in [Syncers -> Propagation \cup {None}]
        /\ past \in Pasts
    BY DEF IInv, TypeOK
  <1>1. syncPc[s] \in AfterPublish =>
           ClientOf(sending[s])' = ClientOf(sending[s])' /\ sending[s] \in EventIds
           /\ events'[sending[s]] = events[sending[s]]
    BY Basics, EventsLast
  <1>2. CASE UNCHANGED <<syncPc[s], todo[s], work[s], sending[s]>>
    BY <1>1, <1>2 DEF Owes, InHand, ClientOf, TargetOf
  <1>3. ASSUME NEW r \in Syncers, Fetch(r)
        PROVE  Goal
    BY <1>0, <1>2, <1>3 DEF Fetch
  <1>4. ASSUME NEW r \in Syncers, ApplyLocal(r)
        PROVE  Goal
    <2>1. PICK p \in todo[r] : /\ todo' = [todo EXCEPT ![r] = @ \ {p}]
                               /\ work' = [work EXCEPT ![r] = p]
      BY <1>4 DEF ApplyLocal
    <2>2. syncPc[r] = "apply" /\ syncPc' = [syncPc EXCEPT ![r] = "publish"]
          /\ sending' = sending
      BY <1>4 DEF ApplyLocal
    <2>3. CASE r = s
      <3>1. InHand(s) \subseteq InHand(s)'
        BY <1>0, <2>1, <2>2, <2>3 DEF InHand, AtTarget
      <3> QED
        BY <2>2, <2>3, <3>1 DEF Owes, AfterPublish
    <2>4. CASE r # s
      BY <1>0, <1>2, <2>1, <2>2, <2>4
    <2> QED
      BY <2>3, <2>4
  <1>5. ASSUME NEW r \in Syncers, ApplyLocalFails(r)
        PROVE  Goal
    <2>1. CASE r = s
      <3>1. <<due[c][t], t>> \in LeftBy(s)
        BY LeftByOwed
      <3> QED
        BY <1>0, <1>5, <2>1, <3>1 DEF ApplyLocalFails, Pasts
    <2>2. CASE r # s
      BY <1>0, <1>2, <1>5, <2>2 DEF ApplyLocalFails
    <2> QED
      BY <2>1, <2>2
  <1>6. ASSUME NEW r \in Syncers, Publish(r)
        PROVE  Goal
    <2>1. PICK u \in work[r].targets :
             work' = [work EXCEPT ![r].targets = @ \ {u}] /\ Enqueue(r, u)
      BY <1>6 DEF Publish
    <2>2. /\ syncPc[r] = "publish" /\ syncPc' = [syncPc EXCEPT ![r] = "record"]
          /\ todo' = todo /\ sending' = [sending EXCEPT ![r] = Len(events) + 1]
      BY <1>6 DEF Publish
    <2>3. work[r] \in Propagation
      BY <2>2, Basics DEF AtTarget
    <2>4. CASE r = s
      <3>1. \/ \E p \in InHand(s)' : p.client = c /\ t \in p.targets
            \/ work[s].client = c /\ t = u
        BY <1>0, <2>1, <2>2, <2>3, <2>4
           DEF Owes, InHand, AtTarget, AfterPublish, Propagation
      <3>2. ASSUME work[s].client = c, t = u
            PROVE  Owes(s, c, t)'
        <4>1. PICK n : n = Len(events) + 1
          OBVIOUS
        <4>2. events'[n] = [client |-> work[s].client, target |-> u,
                            secret |-> work[s].plain]
          BY <2>1, <2>3, <2>4, <3>2, <4>1, AppendProperties
             DEF Enqueue, IInv, TypeOK, Propagation, Event
        <4>3. sending'[s] = n /\ syncPc'[s] = "record"
          BY <1>0, <2>2, <2>4, <4>1
        <4> QED
          BY <3>2, <4>2, <4>3 DEF Owes, AfterPublish, ClientOf, TargetOf
      <3> QED
        BY <3>1, <3>2 DEF Owes
    <2>5. CASE r # s
      BY <1>0, <1>2, <2>1, <2>2, <2>5
    <2> QED
      BY <2>4, <2>5
  <1>7. ASSUME NEW r \in Syncers, Record(r) \/ Index(r)
        PROVE  Goal
    BY <1>0, <1>1, <1>7 DEF Record, Index, Owes, InHand, AtTarget, AfterPublish,
                            ClientOf, TargetOf
  <1>8. ASSUME NEW r \in Syncers, NEW targets, GoOn(r, targets), todo' = todo, r # s
        PROVE  Goal
    BY <1>0, <1>2, <1>8 DEF GoOn
  <1>9. ASSUME MarkSent(s) \/ BookkeepingFails(s)
        PROVE  Goal
    <2>1. GoOn(s, work[s].targets) /\ todo' = todo /\ syncPc[s] \in AtTarget
      BY <1>9 DEF MarkSent, BookkeepingFails, AtTarget
    <2>2. CASE \E p \in InHand(s) : p.client = c /\ t \in p.targets
      BY <2>1, <2>2, GoOnKeeps DEF Owes
    <2>3. ASSUME BookkeepingFails(s), ClientOf(sending[s]) = c,
                 TargetOf(sending[s]) = t
          PROVE  <<due[c][t], t>> \in past'.left
      BY <1>0, <2>3 DEF BookkeepingFails, Pasts
    <2> QED
      BY <1>9, <2>2, <2>3 DEF Owes
  <1>10. ASSUME PublishFails(s)
         PROVE  Goal
    <2>1. PICK u \in work[s].targets :
             /\ GoOn(s, work[s].targets \ {u})
             /\ past' = [past EXCEPT
                           !.left = @ \cup {<<due[work[s].client][u], u>>},
                           !.torn = @ \cup (DOMAIN events' \ DOMAIN events)]
      BY <1>10 DEF PublishFails
    <2>2. todo' = todo /\ syncPc[s] = "publish"
      BY <1>10 DEF PublishFails
    <2>3. PICK p \in InHand(s) : p.client = c /\ t \in p.targets
      BY <2>2 DEF Owes, AfterPublish
    <2>4. CASE p = work[s] /\ t = u
      <3>1. <<due[work[s].client][u], u>> \in past'.left
        BY <1>0, <2>1 DEF Pasts
      <3> QED
        BY <2>3, <2>4, <3>1
    <2>5. CASE ~ (p = work[s] /\ t = u)
      BY <2>1, <2>2, <2>3, <2>5, GoOnKeeps DEF Owes, AtTarget
    <2> QED
      BY <2>4, <2>5
  <1>11. CASE Crash
    <2> DEFINE a == {o \in Ops : opPc[o] = "local"}
               b == UNION {LeftBy(r) : r \in Syncers}
               d == {sending[r] : r \in {x \in Syncers : syncPc[x] \in AfterPublish}}
    <2>1. past' = [past EXCEPT !.halted = @ \cup a, !.left = @ \cup b,
                              !.torn = @ \cup d]
      BY <1>11 DEF Crash
    <2>2. <<due[c][t], t>> \in b
      BY LeftByOwed
    <2> HIDE DEF a, b, d
    <2> QED
      BY <1>0, <2>1, <2>2 DEF Pasts
  <1>12. ASSUME NEW r \in Syncers, MarkSent(r) \/ BookkeepingFails(r) \/ PublishFails(r)
         PROVE  Goal
    <2>1. todo' = todo /\ \E targets : GoOn(r, targets)
      BY <1>12 DEF MarkSent, BookkeepingFails, PublishFails
    <2> HIDE DEF Goal
    <2> QED
      BY <1>8, <1>9, <1>10, <1>12, <2>1
  <1> HIDE DEF Goal
  <1> QED
    BY <1>2, <1>3, <1>4, <1>5, <1>6, <1>7, <1>11, <1>12
       DEF Next, Operate, Sync, SyncFails, HandleAck, Request, Commit,
           ApplyOperation, OperationFails, TakeAck, DropUnknown, RecordResult,
           MarkResult, CountPending, Finalize, Clear, CallbackFails, HandlerFails,
           Answer, Expire, ExpireAggregate, syncVars, vars

\* The rows and plain secrets that a step other than a commit changes.
LEMMA RowKinds ==
    ASSUME IInv, [Next]_vars
    PROVE  \/ \E o \in Ops : Commit(o)
           \/ /\ UNCHANGED <<wish, due>>
              /\ \A c \in Clients :
                    \/ db'.plain[c] = db.plain[c]
                    \/ Finalize /\ c = ClientOf(handled) /\ db'.plain[c] = NoPlain
              /\ \A c \in Clients, t \in Targets :
                    \/ db'.status[c][t] = db.status[c][t]
                    \/ /\ db.status[c][t] # "none"
                       /\ \/ /\ db'.status[c][t] = "sent"
                             /\ \E s \in Syncers :
                                   /\ MarkSent(s) /\ work[s].client = c
                                   /\ TargetOf(sending[s]) = t
                          \/ /\ db'.status[c][t] = VerdictOf(handled)
                             /\ MarkResult
                             /\ ClientOf(handled) = c /\ TargetOf(handled) = t
  <1> DEFINE Kept ==
           /\ \A c \in Clients :
                 \/ db'.plain[c] = db.plain[c]
                 \/ Finalize /\ c = ClientOf(handled) /\ db'.plain[c] = NoPlain
           /\ \A c \in Clients, t \in Targets :
                 \/ db'.status[c][t] = db.status[c][t]
                 \/ /\ db.status[c][t] # "none"
                    /\ \/ /\ db'.status[c][t] = "sent"
                          /\ \E s \in Syncers :
                                /\ MarkSent(s) /\ work[s].client = c
                                /\ TargetOf(sending[s]) = t
                       \/ /\ db'.status[c][t] = VerdictOf(handled)
                          /\ MarkResult
                          /\ ClientOf(handled) = c /\ TargetOf(handled) = t
  <1>0. db \in Tables
    BY DEF IInv, TypeOK
  <1>1. ASSUME UNCHANGED db
        PROVE  Kept
    BY <1>1
  <1>2. ASSUME NEW s \in Syncers, MarkSent(s)
        PROVE  Kept
    <2>1. /\ syncPc[s] = "mark"
          /\ db' = Mark(db, work[s].client, TargetOf(sending[s]), "sent")
      BY <1>2 DEF MarkSent, MarkedSent, TargetOf
    <2>2. work[s].client \in Clients /\ TargetOf(sending[s]) \in Targets
      BY <2>1, Basics DEF AfterPublish
    <2>3. "sent" \in RowStatus
      BY DEF RowStatus
    <2> QED
      BY <1>0, <1>2, <2>1, <2>2, <2>3, MarkProperties
  <1>3. ASSUME MarkResult
        PROVE  Kept
    <2>1. db' = Mark(db, ClientOf(handled), TargetOf(handled), VerdictOf(handled))
      BY <1>3 DEF MarkResult
    <2>2. ClientOf(handled) \in Clients /\ TargetOf(handled) \in Targets
      BY <1>3, Basics DEF MarkResult, IInv, MailIsReal
    <2>3. VerdictOf(handled) \in RowStatus
      BY DEF RowStatus, VerdictOf
    <2> QED
      BY <1>0, <1>3, <2>1, <2>2, <2>3, MarkProperties
  <1>4. ASSUME Finalize
        PROVE  Kept
    <2>1. ClientOf(handled) \in Clients
      BY <1>4, Basics DEF Finalize, IInv, MailIsReal
    <2>2. db' = ClearPlain(db, ClientOf(handled))
      BY <1>4 DEF Finalize
    <2>3. /\ db'.status = db.status
          /\ \A c \in Clients :
                \/ db'.plain[c] = db.plain[c]
                \/ c = ClientOf(handled) /\ db'.plain[c] = NoPlain
      BY <1>0, <2>1, <2>2 DEF ClearPlain, Tables
    <2> QED
      BY <1>4, <2>3
  <1>5. \/ \E o \in Ops : Commit(o)
        \/ UNCHANGED <<wish, due>>
    BY ZenonT(40) DEF Next, Operate, Sync, SyncFails, HandleAck, Request,
           ApplyOperation, OperationFails, Fetch, ApplyLocal, ApplyLocalFails,
           Publish, Record, Index, MarkSent, PublishFails, BookkeepingFails,
           TakeAck, DropUnknown, RecordResult, MarkResult, CountPending, Finalize,
           Clear, CallbackFails, HandlerFails, Answer, Expire, ExpireAggregate,
           Crash, history, vars
  <1> HIDE DEF Kept
  <1>6. \/ \E o \in Ops : Commit(o)
        \/ Kept
    BY <1>1, <1>2, <1>3, <1>4
       DEF Next, Operate, Sync, SyncFails, HandleAck, Request,
           ApplyOperation, OperationFails, Fetch, ApplyLocal, ApplyLocalFails,
           Publish, Record, Index, PublishFails, BookkeepingFails,
           TakeAck, DropUnknown, RecordResult, CountPending,
           Clear, CallbackFails, HandlerFails, Answer, Expire, ExpireAggregate,
           Crash, vars
  <1> QED
    BY <1>5, <1>6 DEF Kept

\* What an operation leaves of a plain secret is settled when it is asked.
LEMMA PlainLasts ==
    ASSUME IInv, [Next]_vars, NEW o \in Ops, opPc[o] # "unused"
    PROVE  PlainOf(o)' = PlainOf(o) /\ LocalAfter(o)' = LocalAfter(o)
  BY OpsLast DEF PlainOf, LocalAfter

\* A fetch takes what is pending, and notes what another pass has in hand.
LEMMA FetchEffect ==
    ASSUME IInv, NEW s \in Syncers, Fetch(s)
    PROVE  /\ InHand(s)' = PendingPropagations(db)
           /\ \A r \in Syncers \ {s} : InHand(r)' = InHand(r)
           /\ syncPc[s] = "idle" /\ syncPc'[s] = "apply"
           /\ UNCHANGED <<opPc, ask, db, wish, due, events, local>>
           /\ \A c \in Clients, r \in Syncers \ {s} :
                 db.plain[c] \in Ops /\ Holds(r, c) => db.plain[c] \in past'.overlapped
  <1>0. /\ syncPc \in [Syncers -> {"idle", "apply", "publish", "record", "index", "mark"}]
        /\ todo \in [Syncers -> SUBSET Propagation]
        /\ past \in Pasts
    BY DEF IInv, TypeOK
  <1>1. InHand(s)' = PendingPropagations(db) /\ syncPc'[s] = "apply"
    BY <1>0 DEF Fetch, InHand, AtTarget
  <1>2. \A r \in Syncers \ {s} : InHand(r)' = InHand(r)
    BY <1>0 DEF Fetch, InHand
  <1>3. \A c \in Clients, r \in Syncers \ {s} :
           db.plain[c] \in Ops /\ Holds(r, c) => db.plain[c] \in past'.overlapped
    <2> DEFINE a == {o \in Ops : \E c \in Clients :
                        db.plain[c] = o /\ \E r \in Syncers \ {s} : Holds(r, c)}
    <2>1. past' = [past EXCEPT !.overlapped = @ \cup a]
      BY DEF Fetch
    <2>2. \A c \in Clients, r \in Syncers \ {s} :
             db.plain[c] \in Ops /\ Holds(r, c) => db.plain[c] \in a
      OBVIOUS
    <2> HIDE DEF a
    <2> QED
      BY <1>0, <2>1, <2>2 DEF Pasts
  <1> QED
    BY <1>1, <1>2, <1>3 DEF Fetch, opVars, brokerVars

\* The commit of an operation for client c: the rows it opens, and those that
\* were open, stand for it; it notes what it came upon.
Commits(o, c) ==
    /\ c \in Clients /\ c = ask[o].client /\ ask' = ask
    /\ opPc[o] = "commit" /\ opPc' = [opPc EXCEPT ![o] = "local"]
    /\ UNCHANGED <<syncPc, todo, work, sending, handlerPc, handled, redis, local,
                   events, mailbox, inbox, answered, counted>>
    /\ past'.early = past.early /\ past'.left = past.left
    /\ wish'[c] = o
    /\ \A d \in Clients \ {c} : /\ wish'[d] = wish[d] /\ db'.plain[d] = db.plain[d]
                                /\ due'[d] = due[d] /\ db'.status[d] = db.status[d]
    /\ \A t \in Targets :
          \/ due'[c][t] = o /\ db'.status[c][t] = "pending"
          \/ /\ due'[c][t] = due[c][t] /\ db'.status[c][t] = db.status[c][t]
             /\ db.status[c][t] # "pending"
    /\ \/ db'.plain[c] = PlainOf(o)
       \/ db'.plain[c] = NoRow /\ \A t \in Targets : db'.status[c][t] = "none"
    /\ \A p \in Ops : ask[p].client = c /\ opPc[p] = "local" => o \in past'.overOperation
    /\ \A s \in Syncers : Holds(s, c) => o \in past'.overPass
    /\ MailOf(c) # {} => o \in past'.overMail

\* A commit does just that.
LEMMA CommitEffect ==
    ASSUME IInv, NEW o \in Ops, Commit(o)
    PROVE  \E c \in Clients : Commits(o, c)
  <1> DEFINE c == ask[o].client
             after == IF ask[o].kind = "rotate" THEN Rotate(db, c, PlainOf(o))
                  ELSE Upsert(db, c, PlainOf(o), ask[o].targets)
             row == [t \in Targets |-> IF t \in Owed(o) \cup PendingTargets(db, c)
                                       THEN o ELSE due[c][t]]
  <1>0. /\ opPc \in [Ops -> {"unused", "commit", "local", "done"}]
        /\ db \in Tables /\ past \in Pasts
        /\ wish \in [Clients -> Ops \cup {NoRow}]
        /\ due \in [Clients -> [Targets -> Ops \cup {NoRow}]]
    BY DEF IInv, TypeOK
  <1>1. /\ opPc[o] = "commit" /\ opPc' = [opPc EXCEPT ![o] = "local"]
        /\ wish' = [wish EXCEPT ![c] = o] /\ db' = after
        /\ due' = [due EXCEPT ![c] = row]
    BY DEF Commit
  <1>2. c \in Clients /\ ask[o].targets \subseteq Targets
    BY <1>1, Basics
  <1>3. PlainOf(o) \in Ops \cup {NoPlain}
    BY DEF PlainOf
  <1>4. /\ past'.early = past.early /\ past'.left = past.left
        /\ \A p \in Ops : ask[p].client = c /\ opPc[p] = "local" => o \in past'.overOperation
        /\ \A s \in Syncers : Holds(s, c) => o \in past'.overPass
        /\ MailOf(c) # {} => o \in past'.overMail
    <2> DEFINE a == {x \in {o} : \E p \in Ops : ask[p].client = c /\ opPc[p] = "local"}
               b == {x \in {o} : \E s \in Syncers : Holds(s, c)}
               e == {x \in {o} : MailOf(c) # {}}
    <2>1. past' = [past EXCEPT !.overOperation = @ \cup a, !.overPass = @ \cup b,
                               !.overMail = @ \cup e]
      BY DEF Commit
    <2>2. /\ \A p \in Ops : ask[p].client = c /\ opPc[p] = "local" => o \in a
          /\ \A s \in Syncers : Holds(s, c) => o \in b
          /\ MailOf(c) # {} => o \in e
      OBVIOUS
    <2> HIDE DEF a, b, c, e
    <2> QED
      BY <1>0, <2>1, <2>2 DEF Pasts
  <1>5. db \in Tables
    BY <1>0
  <1>6. ask' = ask /\ UNCHANGED <<syncPc, todo, work, sending, handlerPc, handled, redis,
                                 local, events, mailbox, inbox, answered, counted>>
    BY DEF Commit, syncVars, handlerVars, brokerVars
  <1>7. CASE ask[o].kind # "rotate" \/ db.plain[c] # NoRow
    <2>1. PICK targets \in SUBSET Targets :
             targets = Owed(o) /\ after = Upsert(db, c, PlainOf(o), targets)
      BY <1>2, <1>7 DEF Owed, Rotate, RowsOf
    <2> HIDE DEF after, c, row
    <2>2. \A x \in Clients : after.plain[x] = IF x = c THEN PlainOf(o) ELSE db.plain[x]
      BY <1>2, <1>3, <1>5, <2>1, UpsertProperties
    <2>3. \A x \in Clients, y \in Targets :
             after.status[x][y] = IF x = c /\ y \in targets THEN "pending" ELSE db.status[x][y]
      <3>1. \A x \in Clients, y \in Targets :
               Upsert(db, c, PlainOf(o), targets).status[x][y] =
                  IF x = c /\ y \in targets THEN "pending" ELSE db.status[x][y]
        BY <1>2, <1>3, <1>5, UpsertProperties
      <3> QED
        BY <2>1, <3>1
    <2>4. after \in Tables
      BY <1>2, <1>3, <1>5, <2>1, UpsertProperties
    <2>5. \A x \in Clients \ {c} : after.status[x] = db.status[x]
      BY <1>0, <2>3, <2>4 DEF Tables
    <2>6. \A t \in Targets : row[t] = IF t \in targets \cup PendingTargets(db, c)
                                      THEN o ELSE due[c][t]
      BY <2>1 DEF row
    <2>7. \A t \in Targets :
             \/ due'[c][t] = o /\ db'.status[c][t] = "pending"
             \/ /\ due'[c][t] = due[c][t] /\ db'.status[c][t] = db.status[c][t]
                /\ db.status[c][t] # "pending"
      BY <1>0, <1>1, <1>2, <2>3, <2>6 DEF PendingTargets
    <2>8. \A x \in Clients \ {c} : due'[x] = due[x] /\ wish'[x] = wish[x]
      BY <1>0, <1>1
    <2>9. wish'[c] = o
      BY <1>0, <1>1, <1>2
    <2>10. /\ db'.plain[c] = PlainOf(o)
           /\ \A x \in Clients \ {c} : /\ db'.plain[x] = db.plain[x]
                                      /\ db'.status[x] = db.status[x]
      BY <1>1, <1>2, <2>2, <2>5
    <2>11. c = ask[o].client
      BY DEF c
    <2>12. Commits(o, c)
      BY <1>1, <1>2, <1>4, <1>6, <2>7, <2>8, <2>9, <2>10, <2>11 DEF Commits
    <2> QED
      BY <1>2, <2>12
  <1>8. CASE ask[o].kind = "rotate" /\ db.plain[c] = NoRow
    <2>1. after = db
      BY <1>8 DEF Rotate
    <2>2. \A t \in Targets : db.status[c][t] = "none"
      BY <1>2, <1>8 DEF IInv, RowsAreReal, RowsHaveCredential
    <2>3. Owed(o) = {} /\ PendingTargets(db, c) = {}
      BY <1>8, <2>2 DEF Owed, RowsOf, PendingTargets
    <2>4. \A t \in Targets : row[t] = due[c][t]
      BY <2>3
    <2> HIDE DEF after, c, row
    <2>5. \A t \in Targets : due'[c][t] = due[c][t]
      BY <1>0, <1>1, <1>2, <2>4
    <2>6. \A x \in Clients \ {c} : due'[x] = due[x] /\ wish'[x] = wish[x]
      BY <1>0, <1>1
    <2>7. wish'[c] = o
      BY <1>0, <1>1, <1>2
    <2>8. /\ db' = db /\ db.plain[c] = NoRow
          /\ c = ask[o].client
      BY <1>1, <1>8, <2>1 DEF c
    <2>9. Commits(o, c)
      BY <1>1, <1>2, <1>4, <1>6, <2>2, <2>5, <2>6, <2>7, <2>8 DEF Commits
    <2> QED
      BY <1>2, <2>9
  <1> QED
    BY <1>7, <1>8

\* A plain secret is erased too early only by the end of a credential.
LEMMA EarlyKinds ==
    ASSUME IInv, [Next]_vars
    PROVE  \/ past'.early = past.early
           \/ /\ Finalize
              /\ \A o \in past'.early \ past.early : wish[ClientOf(handled)] = o
  <1>0. past \in Pasts
    BY DEF IInv, TypeOK
  <1>1. ASSUME Finalize
        PROVE  \A o \in past'.early \ past.early : wish[ClientOf(handled)] = o
    BY <1>0, <1>1 DEF Finalize, Pasts
  <1>2. ASSUME NEW o \in Ops, Commit(o) \/ OperationFails(o)
        PROVE  past'.early = past.early
    <2>1. CASE Commit(o)
      BY <2>1, CommitEffect DEF Commits
    <2>2. CASE OperationFails(o)
      BY <1>0, <2>2 DEF OperationFails, Pasts
    <2> QED
      BY <1>2, <2>1, <2>2
  <1>3. ASSUME NEW s \in Syncers, Fetch(s) \/ SyncFails(s)
        PROVE  past'.early = past.early
    <2>1. \/ \E a : past' = [past EXCEPT !.overlapped = @ \cup a]
          \/ \E a : past' = [past EXCEPT !.left = @ \cup a]
          \/ \E a, b : past' = [past EXCEPT !.left = @ \cup a, !.torn = @ \cup b]
      BY <1>3, Zenon DEF Fetch, SyncFails, ApplyLocalFails, PublishFails, BookkeepingFails
    <2> QED
      BY <1>0, <2>1 DEF Pasts
  <1>4. ASSUME NEW id \in Ids, Expire(id)
        PROVE  past'.early = past.early
    BY <1>0, <1>4 DEF Expire, Pasts
  <1>5. ASSUME Crash
        PROVE  past'.early = past.early
    BY <1>0, <1>5 DEF Crash, Pasts
  <1> QED
    BY <1>1, <1>2, <1>3, <1>4, <1>5
       DEF Next, Operate, Sync, HandleAck, Request, ApplyOperation, ApplyLocal,
           Publish, Record, Index, MarkSent, TakeAck, DropUnknown, RecordResult,
           MarkResult, CountPending, Clear, CallbackFails, HandlerFails, Answer,
           ExpireAggregate, history, vars
-----------------------------------------------------------------------------
(***************************************************************************)
(* The parts of the invariant, one after the other                         *)
(***************************************************************************)

\* Rows go on standing for committed operations: only a commit changes which.
LEMMA OpsAreKnownKept ==
    ASSUME IInv, PastInv, [Next]_vars
    PROVE  OpsAreKnown'
  <1> DEFINE After(o) == o \in Ops /\ opPc'[o] \in {"local", "done"}
  <1>0. OpsAreKnown
    BY DEF PastInv
  <1>1. \A o : Committed(o) => After(o) /\ ask'[o] = ask[o]
    BY OpsLast DEF Committed
  <1>2. \A o \in past'.early : After(o)
    <2>1. CASE past'.early = past.early
      BY <1>0, <1>1, <2>1 DEF OpsAreKnown
    <2>2. ASSUME Finalize, \A o \in past'.early \ past.early : wish[ClientOf(handled)] = o,
                 NEW o \in past'.early
          PROVE  After(o)
      <3>1. ClientOf(handled) \in Clients
        BY <2>2, Basics DEF Finalize, IInv, MailIsReal
      <3>2. past' \in Pasts
        BY NextInv DEF IInv, TypeOK
      <3>3. o \in Ops
        BY <3>2 DEF Pasts
      <3>4. o # NoRow
        BY <3>3, SourceAssumption
      <3> QED
        BY <1>0, <1>1, <2>2, <3>1, <3>3, <3>4 DEF OpsAreKnown
    <2> QED
      BY <2>1, <2>2, EarlyKinds
  <1> HIDE DEF After
  <1>3. ASSUME NEW o \in Ops, NEW c \in Clients, Commits(o, c)
        PROVE  OpsAreKnown'
    <2>1. After(o) /\ ask'[o].client = c
      BY <1>3 DEF Commits, After, IInv, TypeOK
    <2>2. \A d \in Clients :
             wish'[d] # NoRow => After(wish'[d]) /\ ask'[wish'[d]].client = d
      <3>1. ASSUME NEW d \in Clients \ {c}, wish[d] # NoRow
            PROVE  After(wish[d]) /\ ask'[wish[d]].client = d
        BY <1>0, <1>1, <3>1 DEF OpsAreKnown
      <3> QED
        BY <1>3, <2>1, <3>1 DEF Commits
    <2>3. ASSUME NEW d \in Clients, NEW t \in Targets
          PROVE  /\ due'[d][t] # NoRow => After(due'[d][t])
                 /\ db'.status[d][t] # "none" => due'[d][t] # NoRow
                 /\ db'.status[d][t] = "pending" => due'[d][t] = wish'[d]
      <3>1. /\ due[d][t] # NoRow => After(due[d][t])
            /\ db.status[d][t] # "none" => due[d][t] # NoRow
            /\ db.status[d][t] = "pending" => due[d][t] = wish[d]
        BY <1>0, <1>1 DEF OpsAreKnown
      <3>2. CASE d # c
        BY <1>3, <3>1, <3>2 DEF Commits
      <3>3. CASE d = c
        BY <1>3, <2>1, <3>1, <3>3, SourceAssumption DEF Commits
      <3> QED
        BY <3>2, <3>3
    <2> QED
      BY <1>2, <2>2, <2>3 DEF OpsAreKnown, After, Committed
  <1>4. ASSUME UNCHANGED <<wish, due>>,
               \A c \in Clients, t \in Targets :
                  \/ db'.status[c][t] = db.status[c][t]
                  \/ db.status[c][t] # "none" /\ db'.status[c][t] # "pending"
        PROVE  OpsAreKnown'
    <2>1. /\ \A c \in Clients :
                wish'[c] # NoRow => After(wish'[c]) /\ ask'[wish'[c]].client = c
          /\ \A c \in Clients, t \in Targets :
                /\ due'[c][t] # NoRow => After(due'[c][t])
                /\ db'.status[c][t] # "none" => due'[c][t] # NoRow
                /\ db'.status[c][t] = "pending" => due'[c][t] = wish'[c]
      BY <1>0, <1>1, <1>4 DEF OpsAreKnown
    <2> QED
      BY <1>2, <2>1 DEF OpsAreKnown, After, Committed
  <1> QED
    BY <1>3, <1>4, CommitEffect, RowKinds DEF VerdictOf

\* Only a commit and the end of a credential change a plain secret.
LEMMA PlainIsCurrentKept ==
    ASSUME IInv, PastInv, [Next]_vars
    PROVE  PlainIsCurrent'
  <1>0. OpsAreKnown /\ PlainIsCurrent /\ NoPlain \notin Ops /\ NoRow \notin Ops
    BY SourceAssumption DEF PastInv
  <1>1. past.early \subseteq past'.early
    BY PastGrows
  <1>2. \A o : Committed(o) => PlainOf(o)' = PlainOf(o)
    BY PlainLasts DEF Committed
  <1>3. \A c \in Clients : PendingTargets(db, c) # {} => Committed(wish[c])
    BY <1>0 DEF OpsAreKnown, PendingTargets
  <1>4. ASSUME NEW c \in Clients, wish'[c] = wish[c], db'.plain[c] = db.plain[c],
               PendingTargets(db, c)' \subseteq PendingTargets(db, c)
        PROVE  /\ db'.plain[c] \in Ops => db'.plain[c] = wish'[c]
               /\ PendingTargets(db, c)' # {} /\ wish'[c] \notin past'.early =>
                     db'.plain[c] = PlainOf(wish[c])'
    BY <1>0, <1>1, <1>2, <1>3, <1>4 DEF PlainIsCurrent
  <1>5. ASSUME NEW o \in Ops, NEW c \in Clients, Commits(o, c)
        PROVE  PlainIsCurrent'
    <2>1. ASSUME NEW d \in Clients \ {c}
          PROVE  wish'[d] = wish[d] /\ db'.plain[d] = db.plain[d]
                 /\ PendingTargets(db, d)' = PendingTargets(db, d)
      BY <1>5 DEF Commits, PendingTargets
    <2>2. PlainOf(o)' = PlainOf(o) /\ PlainOf(o) \in {o, NoPlain}
      BY <1>5 DEF Commits, PlainOf
    <2>3. db'.plain[c] = NoRow => PendingTargets(db, c)' = {}
      <3>1. db'.plain[c] = PlainOf(o) => db'.plain[c] # NoRow
        BY <1>0, <2>2, SourceAssumption
      <3>2. (\A t \in Targets : db'.status[c][t] = "none") => PendingTargets(db, c)' = {}
        BY DEF PendingTargets
      <3> QED
        BY <1>5, <3>1, <3>2 DEF Commits
    <2> QED
      BY <1>0, <1>4, <1>5, <2>1, <2>2, <2>3 DEF Commits, PlainIsCurrent
  <1>6. ASSUME UNCHANGED <<wish, due>>,
               \A c \in Clients :
                  \/ db'.plain[c] = db.plain[c]
                  \/ Finalize /\ c = ClientOf(handled) /\ db'.plain[c] = NoPlain,
               \A c \in Clients, t \in Targets :
                  \/ db'.status[c][t] = db.status[c][t]
                  \/ db'.status[c][t] # "pending"
        PROVE  PlainIsCurrent'
    <2>1. \A c \in Clients : PendingTargets(db, c)' \subseteq PendingTargets(db, c)
      BY <1>6 DEF PendingTargets
    <2>2. ASSUME NEW c \in Clients, Finalize, c = ClientOf(handled),
                 db'.plain[c] = NoPlain, db.plain[c] # NoPlain,
                 PendingTargets(db, c)' # {}
          PROVE  wish[c] \in past'.early
      <3>1. wish[c] \in Ops /\ PendingTargets(db, c) # {}
        BY <1>3, <2>1, <2>2 DEF Committed
      <3>2. wish[c] \in past'.early
        BY <2>2, <3>1 DEF Finalize, IInv, TypeOK, Pasts
      <3> QED
        BY <3>2
    <2>3. ASSUME NEW c \in Clients, db'.plain[c] # db.plain[c]
          PROVE  /\ db'.plain[c] \in Ops => db'.plain[c] = wish'[c]
                 /\ PendingTargets(db, c)' # {} /\ wish'[c] \notin past'.early =>
                       db'.plain[c] = PlainOf(wish[c])'
      BY <1>0, <1>6, <2>2, <2>3
    <2> QED
      BY <1>4, <1>6, <2>1, <2>3 DEF PlainIsCurrent
  <1> QED
    BY <1>5, <1>6, CommitEffect, RowKinds DEF VerdictOf

\* A commit comes upon what is in hand or on its way, or leaves the rows of it.
LEMMA CommitNotes ==
    ASSUME IInv, NEW o \in Ops, NEW c \in Clients, Commits(o, c)
    PROVE  /\ PlainOf(o)' = PlainOf(o)
           /\ \A s \in Syncers : Holds(s, c) => o \in Overtaken'
           /\ \A d \in Clients, t \in Targets :
                 \/ due'[d][t] = due[d][t]
                 \/ d = c /\ due'[d][t] = o
           /\ \A s \in Syncers : InHand(s)' = InHand(s)
  BY DEF Commits, PlainOf, Overtaken, InHand

\* A pass takes what table 1 has; an operation that comes later notes the pass.
LEMMA HandIsCurrentKept ==
    ASSUME IInv, PastInv, [Next]_vars
    PROVE  HandIsCurrent'
  <1>0. OpsAreKnown /\ PlainIsCurrent /\ HandIsCurrent /\ NoRow \notin Ops
    BY SourceAssumption DEF PastInv
  <1>1. Overtaken \subseteq Overtaken' /\ past.early \subseteq past'.early
    BY PastGrows
  <1>2. \A o \in Ops : opPc[o] # "unused" => PlainOf(o)' = PlainOf(o)
    BY PlainLasts
  <1>3. /\ \A c \in Clients : wish[c] \in Ops => opPc[wish[c]] # "unused"
        /\ \A c \in Clients, t \in Targets :
              due[c][t] \in Ops => opPc[due[c][t]] # "unused"
    BY <1>0 DEF OpsAreKnown, Committed
  <1>4. /\ \A s \in Syncers : InHand(s) \subseteq Propagation
        /\ wish \in [Clients -> Ops \cup {NoRow}]
        /\ due \in [Clients -> [Targets -> Ops \cup {NoRow}]]
    BY Basics DEF IInv, TypeOK
  <1>5. ASSUME NEW s \in Syncers, NEW p \in InHand(s)'
        PROVE  /\ wish'[p.client] \in Ops
               /\ wish'[p.client] \notin Overtaken' => p.plain = PlainOf(wish[p.client])'
               /\ \A t \in p.targets :
                     /\ due'[p.client][t] \in Ops
                     /\ due'[p.client][t] \notin Overtaken' =>
                           p.plain = PlainOf(due[p.client][t])'
    <2>1. CASE Fetch(s)
      <3>1. p \in PendingPropagations(db) /\ UNCHANGED <<wish, due, opPc, ask>>
        BY <2>1, FetchEffect
      <3>2. PICK c \in Clients : /\ p.client = c /\ p.plain = db.plain[c]
                                 /\ p.targets = PendingTargets(db, c)
                                 /\ PendingTargets(db, c) # {}
        BY <3>1 DEF PendingPropagations
      <3>3. \A t \in PendingTargets(db, c) :
               t \in Targets /\ due[c][t] = wish[c] /\ wish[c] \in Ops
        BY <1>0, <3>2 DEF OpsAreKnown, PendingTargets, Committed
      <3>4. wish[c] \in Ops /\ PlainOf(wish[c])' = PlainOf(wish[c])
        BY <3>1, <3>2, <3>3 DEF PlainOf
      <3>5. wish[c] \notin Overtaken' => db.plain[c] = PlainOf(wish[c])
        BY <1>0, <1>1, <3>2 DEF PlainIsCurrent, Overtaken
      <3>6. \A t \in PendingTargets(db, c) : PlainOf(due[c][t])' = PlainOf(wish[c])
        BY <3>1, <3>3 DEF PlainOf
      <3> QED
        BY <3>1, <3>2, <3>3, <3>4, <3>5, <3>6
    <2>2. CASE ~ Fetch(s)
      <3>1. PICK q \in InHand(s) : /\ q.client = p.client /\ q.plain = p.plain
                                   /\ p.targets \subseteq q.targets
        BY <2>2, HandsShrink
      <3>2. q \in Propagation
        BY <1>4
      <3>3. PICK c \in Clients : c = q.client
        BY <3>2 DEF Propagation
      <3>4. /\ wish[c] \in Ops
            /\ wish[c] \notin Overtaken => q.plain = PlainOf(wish[c])
            /\ \A t \in q.targets :
                  /\ t \in Targets /\ due[c][t] \in Ops
                  /\ due[c][t] \notin Overtaken => q.plain = PlainOf(due[c][t])
        BY <1>0, <3>2, <3>3 DEF HandIsCurrent, Propagation
      <3>5. /\ wish'[c] \in Ops
            /\ wish'[c] \notin Overtaken' => wish'[c] = wish[c]
            /\ \A t \in q.targets :
                  /\ due'[c][t] \in Ops
                  /\ due'[c][t] \notin Overtaken' => due'[c][t] = due[c][t]
        <4>1. ASSUME NEW o \in Ops, NEW d \in Clients, Commits(o, d)
              PROVE  /\ wish'[c] \in Ops
                     /\ wish'[c] \notin Overtaken' => wish'[c] = wish[c]
                     /\ \A t \in q.targets :
                           /\ due'[c][t] \in Ops
                           /\ due'[c][t] \notin Overtaken' => due'[c][t] = due[c][t]
          <5>1. d = c => o \in Overtaken'
            BY <3>1, <3>3, <4>1, CommitNotes DEF Holds
          <5> QED
            BY <3>4, <4>1, <5>1, CommitNotes DEF Commits
        <4>2. CASE UNCHANGED <<wish, due>>
          BY <3>4, <4>2
        <4> QED
          BY <4>1, <4>2, RowKinds, CommitEffect
      <3>6. PICK w \in Ops : w = wish[c]
        BY <3>4
      <3>7. wish'[c] = wish[c] => PlainOf(wish[c])' = PlainOf(wish[c])
        <4>1. PlainOf(w)' = PlainOf(w)
          BY <1>2, <1>3, <3>6
        <4> QED
          BY <3>6, <4>1 DEF PlainOf
      <3>8. ASSUME NEW t \in q.targets, due'[c][t] = due[c][t]
            PROVE  PlainOf(due[c][t])' = PlainOf(due[c][t])
        <4>1. PICK x \in Ops : x = due[c][t]
          BY <3>4
        <4>2. PlainOf(x)' = PlainOf(x)
          BY <1>2, <1>3, <3>4, <4>1
        <4> QED
          BY <3>8, <4>1, <4>2 DEF PlainOf
      <3> QED
        BY <1>1, <3>1, <3>3, <3>4, <3>5, <3>7, <3>8
    <2> QED
      BY <2>1, <2>2
  <1> QED
    BY <1>5 DEF HandIsCurrent

\* A row stands for the operation it did, or for one that commits.
LEMMA DueKept ==
    ASSUME IInv, PastInv, [Next]_vars, NEW c \in Clients, NEW t \in Targets,
           due[c][t] \in Ops
    PROVE  /\ due'[c][t] \in Ops
           /\ \/ due'[c][t] = due[c][t] /\ PlainOf(due[c][t])' = PlainOf(due[c][t])
              \/ \E o \in Ops : Commits(o, c) /\ due'[c][t] = o
  <1>1. PICK o \in Ops : o = due[c][t]
    OBVIOUS
  <1>2. PlainOf(o)' = PlainOf(o)
    BY <1>1, PlainLasts, SourceAssumption DEF PastInv, OpsAreKnown, Committed
  <1>3. due'[c][t] = due[c][t] => PlainOf(due[c][t])' = PlainOf(due[c][t])
    BY <1>1, <1>2 DEF PlainOf
  <1>4. CASE UNCHANGED <<wish, due>>
    BY <1>3, <1>4
  <1>5. ASSUME NEW p \in Ops, NEW d \in Clients, Commits(p, d)
        PROVE  \/ due'[c][t] = due[c][t]
               \/ due'[c][t] = p /\ Commits(p, c)
    BY <1>5, CommitNotes
  <1> QED
    BY <1>3, <1>4, <1>5, RowKinds, CommitEffect

\* What is published is of the operation that the row of it stands for.
LEMMA PublishedIsCurrent ==
    ASSUME IInv, PastInv, [Next]_vars, NEW s \in Syncers, NEW t \in Targets,
           NEW n \in Ids, Publishes(s, t, n)
    PROVE  /\ DueOf(n)' \in Ops
           /\ DueOf(n)' \notin Overtaken' => events'[n].secret = PlainOf(DueOf(n))'
  <1>1. work[s] \in InHand(s) /\ work[s] \in Propagation
    BY Basics DEF Publishes, AtTarget
  <1>2. PICK c \in Clients : c = work[s].client
    BY <1>1 DEF Propagation
  <1>3. PICK o \in Ops : o = due[c][t]
    BY <1>1, <1>2 DEF Publishes, PastInv, HandIsCurrent
  <1>4. o \notin Overtaken => work[s].plain = PlainOf(o)
    <2>1. due[c][t] \notin Overtaken => work[s].plain = PlainOf(due[c][t])
      BY <1>1, <1>2 DEF Publishes, PastInv, HandIsCurrent
    <2> QED
      BY <1>3, <2>1
  <1>5. DueOf(n)' = o
    BY <1>2, <1>3 DEF Publishes, DueOf, ClientOf, TargetOf
  <1>6. PlainOf(DueOf(n))' = PlainOf(o)
    BY <1>5 DEF Publishes, PlainOf
  <1> QED
    BY <1>4, <1>5, <1>6, PastGrows DEF Publishes

\* An event is published from what is in hand.
LEMMA SendingIsCurrentKept ==
    ASSUME IInv, PastInv, [Next]_vars
    PROVE  SendingIsCurrent'
  <1>1. ASSUME NEW s \in Syncers, syncPc'[s] \in AfterPublish
        PROVE  /\ DueOf(sending[s])' \in Ops
               /\ DueOf(sending[s])' \notin Overtaken' =>
                     events'[sending'[s]].secret = PlainOf(DueOf(sending[s]))'
    <2>1. CASE syncPc[s] \in AfterPublish /\ sending'[s] = sending[s]
      <3>1. PICK id \in EventIds : id = sending[s]
        BY <2>1, Basics
      <3>2. PICK c \in Clients, t \in Targets : c = ClientOf(id) /\ t = TargetOf(id)
        BY Basics
      <3>3. PICK p \in InHand(s) : p.client = c
        BY <2>1, <3>1, <3>2, Basics
      <3>4. /\ due[c][t] \in Ops
            /\ due[c][t] \notin Overtaken => events[id].secret = PlainOf(due[c][t])
        BY <2>1, <3>1, <3>2 DEF PastInv, SendingIsCurrent, DueOf, PlainOf
      <3>5. events'[id] = events[id]
        BY EventsLast
      <3>6. DueOf(sending[s])' = due'[c][t]
        BY <2>1, <3>1, <3>2, <3>5 DEF DueOf, ClientOf, TargetOf
      <3>7. \A o \in Ops : Commits(o, c) => o \in Overtaken'
        BY <3>3, CommitNotes DEF Holds
      <3>8. PlainOf(DueOf(sending[s]))' = PlainOf(due[c][t])'
        BY <3>6 DEF PlainOf
      <3> QED
        BY <2>1, <3>1, <3>4, <3>5, <3>6, <3>7, <3>8, DueKept, PastGrows
    <2>2. CASE Publish(s) /\ sending'[s] = Len(events) + 1
      <3>1. PICK t \in Targets, n \in Ids : Publishes(s, t, n)
        BY <2>2, PublishEffect
      <3>2. sending'[s] = n
        BY <2>2, <3>1 DEF Publishes
      <3>3. DueOf(sending[s])' = DueOf(n)'
        BY <3>2 DEF DueOf, ClientOf, TargetOf
      <3>4. PlainOf(DueOf(sending[s]))' = PlainOf(DueOf(n))'
        BY <3>3 DEF PlainOf
      <3> QED
        BY <3>1, <3>2, <3>3, <3>4, PublishedIsCurrent
    <2> QED
      BY <1>1, <2>1, <2>2, SendingKinds
  <1> QED
    BY <1>1 DEF SendingIsCurrent

\* So is what goes into the queue of a target; a later operation notes it.
LEMMA MailIsCurrentKept ==
    ASSUME IInv, PastInv, [Next]_vars
    PROVE  MailIsCurrent'
  <1>1. ASSUME NEW id \in EventIds', Underway(id)'
        PROVE  /\ DueOf(id)' \in Ops
               /\ DueOf(id)' \notin (Overtaken \cup past.overMail)' =>
                     events'[id].secret = PlainOf(DueOf(id))'
    <2>1. CASE id \in EventIds
      <3>1. Underway(id)
        BY <1>1, <2>1, UnderwayShrinks
      <3>2. PICK c \in Clients, t \in Targets : c = ClientOf(id) /\ t = TargetOf(id)
        BY <2>1, Basics
      <3>3. id \in MailOf(c)
        BY <2>1, <3>1, <3>2 DEF MailOf, EventIds
      <3>4. /\ due[c][t] \in Ops
            /\ due[c][t] \notin Overtaken \cup past.overMail =>
                  events[id].secret = PlainOf(due[c][t])
        BY <2>1, <3>1, <3>2 DEF PastInv, MailIsCurrent, DueOf, PlainOf
      <3>5. events'[id] = events[id]
        BY <2>1, EventsLast
      <3>6. DueOf(id)' = due'[c][t]
        BY <3>2, <3>5 DEF DueOf, ClientOf, TargetOf
      <3>7. \A o \in Ops : Commits(o, c) => o \in past'.overMail
        BY <3>3 DEF Commits
      <3>8. PlainOf(DueOf(id))' = PlainOf(due[c][t])'
        BY <3>6 DEF PlainOf
      <3> QED
        BY <3>4, <3>5, <3>6, <3>7, <3>8, DueKept, PastGrows
    <2>2. ASSUME NEW s \in Syncers, NEW t \in Targets, Publishes(s, t, id)
          PROVE  /\ DueOf(id)' \in Ops
                 /\ DueOf(id)' \notin Overtaken' =>
                       events'[id].secret = PlainOf(DueOf(id))'
      <3>1. id \in Ids
        BY <2>2 DEF Publishes
      <3> QED
        BY <2>2, <3>1, PublishedIsCurrent
    <2> QED
      BY <2>1, <2>2, EventIsNew
  <1> QED
    BY <1>1 DEF MailIsCurrent

\* The operation that a row with a status stands for, and the row, after a step.
LEMMA RowKept ==
    ASSUME IInv, PastInv, [Next]_vars, NEW c \in Clients, NEW t \in Targets,
           db'.status[c][t] \notin {"none", "pending"}
    PROVE  /\ due[c][t] \in Ops /\ due'[c][t] = due[c][t]
           /\ PlainOf(due[c][t])' = PlainOf(due[c][t])
           /\ \/ db'.status[c][t] = db.status[c][t]
              \/ /\ db'.status[c][t] = "sent"
                 /\ \E s \in Syncers : /\ MarkSent(s) /\ work[s].client = c
                                       /\ TargetOf(sending[s]) = t
              \/ /\ db'.status[c][t] = VerdictOf(handled) /\ MarkResult
                 /\ ClientOf(handled) = c /\ TargetOf(handled) = t
  <1>1. db.status[c][t] # "none" => due[c][t] \in Ops
    BY DEF PastInv, OpsAreKnown, Committed
  <1>2. ASSUME NEW o \in Ops, NEW d \in Clients, Commits(o, d)
        PROVE  db'.status[c][t] = db.status[c][t] /\ due'[c][t] = due[c][t]
    BY <1>2 DEF Commits
  <1>3. due[c][t] \in Ops /\ due'[c][t] = due[c][t]
    BY <1>1, <1>2, RowKinds, CommitEffect
  <1>4. PICK o \in Ops : o = due[c][t]
    BY <1>3
  <1>5. PlainOf(o)' = PlainOf(o)
    BY <1>4, PlainLasts, SourceAssumption DEF PastInv, OpsAreKnown, Committed
  <1>6. PlainOf(due[c][t])' = PlainOf(due[c][t])
    BY <1>3, <1>4, <1>5 DEF PlainOf
  <1> QED
    BY <1>2, <1>3, <1>6, RowKinds, CommitEffect

\* A row is marked sent with the event in hand.
LEMMA SentMeansPublishedKept ==
    ASSUME IInv, PastInv, [Next]_vars
    PROVE  SentMeansPublished'
  <1>1. ASSUME NEW c \in Clients, NEW t \in Targets, db'.status[c][t] = "sent",
               due'[c][t] \notin Overtaken'
        PROVE  \E id \in Sent(c, t)' : events'[id].secret = PlainOf(due[c][t])'
    <2>1. /\ due[c][t] \in Ops /\ due[c][t] \notin Overtaken
          /\ PlainOf(due[c][t])' = PlainOf(due[c][t])
      BY <1>1, RowKept, PastGrows
    <2>2. \A id \in Sent(c, t) : id \in Sent(c, t)' /\ events'[id] = events[id]
      BY EventsLast DEF Sent
    <2>3. CASE db.status[c][t] = "sent"
      BY <2>1, <2>2, <2>3 DEF PastInv, SentMeansPublished
    <2>4. ASSUME NEW s \in Syncers, MarkSent(s), work[s].client = c,
                 TargetOf(sending[s]) = t
          PROVE  \E id \in Sent(c, t) : events[id].secret = PlainOf(due[c][t])
      <3>1. syncPc[s] \in AfterPublish
        BY <2>4 DEF MarkSent, AfterPublish
      <3>2. PICK id \in EventIds : id = sending[s] /\ ClientOf(id) = c /\ TargetOf(id) = t
        BY <2>4, <3>1, Basics
      <3>3. events[id].secret = PlainOf(due[c][t])
        BY <2>1, <3>1, <3>2 DEF PastInv, SendingIsCurrent, DueOf, PlainOf
      <3> QED
        BY <3>2, <3>3 DEF Sent
    <2>5. db'.status[c][t] # VerdictOf(handled)
      BY <1>1 DEF VerdictOf
    <2> QED
      BY <1>1, <2>1, <2>2, <2>3, <2>4, <2>5, RowKept
  <1> QED
    BY <1>1 DEF SentMeansPublished

\* A row gets its verdict with the acknowledgement in hand, which is on its way.
LEMMA VerdictIsCurrentKept ==
    ASSUME IInv, PastInv, [Next]_vars
    PROVE  VerdictIsCurrent'
  <1>1. ASSUME NEW c \in Clients, NEW t \in Targets, db'.status[c][t] \in Terminal,
               due'[c][t] \notin (Overtaken \cup past.overMail)'
        PROVE  \E id \in (Sent(c, t) \cap answered)' :
                  events'[id].secret = PlainOf(due[c][t])'
    <2>0. db'.status[c][t] \notin {"none", "pending", "sent"}
      BY <1>1 DEF Terminal
    <2>1. /\ due[c][t] \in Ops /\ due[c][t] \notin Overtaken \cup past.overMail
          /\ PlainOf(due[c][t])' = PlainOf(due[c][t])
      BY <1>1, <2>0, RowKept, PastGrows
    <2>2. \A id \in Sent(c, t) \cap answered :
             id \in (Sent(c, t) \cap answered)' /\ events'[id] = events[id]
      BY EventsLast, PastGrows DEF Sent
    <2>3. CASE db.status[c][t] = db'.status[c][t]
      BY <1>1, <2>1, <2>2, <2>3 DEF PastInv, VerdictIsCurrent
    <2>4. ASSUME MarkResult, ClientOf(handled) = c, TargetOf(handled) = t
          PROVE  \E id \in Sent(c, t) \cap answered :
                    events[id].secret = PlainOf(due[c][t])
      <3>1. handlerPc # "idle"
        BY <2>4 DEF MarkResult
      <3>2. handled \in answered /\ handled \in EventIds /\ Underway(handled)
        BY <3>1 DEF IInv, MailIsReal, Underway
      <3>3. PICK id \in EventIds : id = handled
        BY <3>2
      <3>4. Underway(id) /\ ClientOf(id) = c /\ TargetOf(id) = t
        BY <2>4, <3>2, <3>3 DEF Underway
      <3>5. events[id].secret = PlainOf(due[c][t])
        BY <2>1, <3>3, <3>4 DEF PastInv, MailIsCurrent, DueOf, PlainOf
      <3> QED
        BY <3>2, <3>3, <3>4, <3>5 DEF Sent
    <2> QED
      BY <2>0, <2>1, <2>2, <2>3, <2>4, RowKept
  <1> QED
    BY <1>1 DEF VerdictIsCurrent

\* What becomes of an operation between its commit and its local call, and of
\* the local store.
LEMMA OpKinds ==
    ASSUME IInv, [Next]_vars
    PROVE  \/ \E o \in Ops, c \in Clients : Commits(o, c)
           \/ /\ \A o \in Ops : opPc'[o] = "local" => opPc[o] = "local"
              /\ \A o \in Ops : opPc[o] = "local" =>
                    opPc'[o] = "local" \/ ApplyOperation(o) \/ o \in past'.halted
              /\ \/ UNCHANGED local
                 \/ \E o \in Ops : ApplyOperation(o)
                 \/ \E s \in Syncers : ApplyLocal(s)
  <1> DEFINE Left ==
           /\ \A o \in Ops : opPc'[o] = "local" => opPc[o] = "local"
           /\ \A o \in Ops : opPc[o] = "local" =>
                 opPc'[o] = "local" \/ ApplyOperation(o) \/ o \in past'.halted
  <1>0. /\ opPc \in [Ops -> {"unused", "commit", "local", "done"}]
        /\ past \in Pasts
    BY DEF IInv, TypeOK
  <1>1. ASSUME UNCHANGED opPc
        PROVE  Left
    BY <1>1
  <1>2. ASSUME NEW o \in Ops, NEW kind \in Kinds, NEW c \in Clients,
               NEW targets \in SUBSET Targets, Request(o, kind, c, targets)
        PROVE  Left
    BY <1>0, <1>2 DEF Request
  <1>3. ASSUME NEW o \in Ops, ApplyOperation(o)
        PROVE  Left
    <2>1. opPc' = [opPc EXCEPT ![o] = "done"]
      BY <1>3 DEF ApplyOperation
    <2> QED
      BY <1>0, <1>3, <2>1
  <1>4. ASSUME NEW o \in Ops, OperationFails(o)
        PROVE  Left
    <2>1. opPc[o] = "local" => o \in past'.halted
      BY <1>0, <1>4 DEF OperationFails, Pasts
    <2>2. opPc' = [opPc EXCEPT ![o] = "done"]
      BY <1>4 DEF OperationFails
    <2> QED
      BY <1>0, <2>1, <2>2
  <1>5. ASSUME Crash
        PROVE  Left
    <2> DEFINE a == {o \in Ops : opPc[o] = "local"}
               b == UNION {LeftBy(r) : r \in Syncers}
               d == {sending[r] : r \in {x \in Syncers : syncPc[x] \in AfterPublish}}
    <2>1. past' = [past EXCEPT !.halted = @ \cup a, !.left = @ \cup b,
                              !.torn = @ \cup d]
      BY <1>5 DEF Crash
    <2>2. \A o \in Ops : opPc[o] = "local" => o \in a
      OBVIOUS
    <2>3. \A o \in Ops : opPc'[o] # "local"
      BY <1>5 DEF Crash
    <2> HIDE DEF a, b, d
    <2> QED
      BY <1>0, <2>1, <2>2, <2>3 DEF Pasts
  <1> HIDE DEF Left
  <1>6. \/ \E o \in Ops : Commit(o)
        \/ Left
    BY <1>1, <1>2, <1>3, <1>4, <1>5, ZenonT(40)
       DEF Next, Operate, Sync, SyncFails, HandleAck, Fetch, ApplyLocal,
           ApplyLocalFails, Publish, Record, Index, MarkSent, PublishFails,
           BookkeepingFails, TakeAck, DropUnknown, RecordResult, MarkResult,
           CountPending, Finalize, Clear, CallbackFails, HandlerFails, Answer,
           Expire, ExpireAggregate, opVars, vars
  <1>7. \/ UNCHANGED local
        \/ \E o \in Ops : ApplyOperation(o)
        \/ \E s \in Syncers : ApplyLocal(s)
    BY DEF Next, Operate, Sync, SyncFails, HandleAck, Request, Commit,
           OperationFails, Fetch,
           ApplyLocalFails, Publish, Record, Index, MarkSent, PublishFails,
           BookkeepingFails, TakeAck, DropUnknown, RecordResult, MarkResult,
           CountPending, Finalize, Clear, CallbackFails, HandlerFails, Answer,
           Expire, ExpireAggregate, Crash, vars
  <1> QED
    BY <1>6, <1>7, CommitEffect DEF Left

\* The local store is written by an operation between its commit and its end, and
\* by a pass with what it has in hand.
LEMMA LocalIsCurrentKept ==
    ASSUME IInv, PastInv, [Next]_vars
    PROVE  LocalIsCurrent'
  <1> DEFINE Current(c, o) ==
           \/ opPc'[o] = "local"
           \/ o \in (Overtaken \cup past.overOperation \cup past.halted)'
           \/ local'[c] = LocalAfter(o)
  <1>0. /\ LocalIsCurrent /\ OpsAreKnown /\ HandIsCurrent /\ NoRow \notin Ops
        /\ opPc \in [Ops -> {"unused", "commit", "local", "done"}]
        /\ local \in [Clients -> Ops \cup {Absent}]
        /\ wish \in [Clients -> Ops \cup {NoRow}]
    BY SourceAssumption DEF PastInv, IInv, TypeOK
  <1>1. /\ Overtaken \subseteq Overtaken' /\ past.halted \subseteq past'.halted
        /\ past.overOperation \subseteq past'.overOperation
    BY PastGrows
  <1>2. \A o \in Ops : opPc[o] # "unused" =>
           LocalAfter(o)' = LocalAfter(o) /\ ask'[o] = ask[o]
    BY PlainLasts, OpsLast
  <1>3. \A c \in Clients : wish[c] \in Ops =>
           opPc[wish[c]] \in {"local", "done"} /\ ask[wish[c]].client = c
    BY <1>0 DEF OpsAreKnown, Committed
  <1>4. ASSUME NEW o \in Ops, NEW c \in Clients, Commits(o, c)
        PROVE  LocalIsCurrent'
    <2>1. opPc'[o] = "local" /\ \A p \in Ops \ {o} : opPc'[p] = opPc[p]
      BY <1>0, <1>4 DEF Commits
    <2>2. ASSUME NEW d \in Clients \ {c}, wish[d] \in Ops
          PROVE  Current(d, wish[d])
      <3>1. wish[d] # o
        BY <1>3, <1>4, <2>2 DEF Commits
      <3>2. local' = local
        BY <1>4 DEF Commits
      <3> QED
        BY <1>0, <1>1, <2>1, <2>2, <3>1, <3>2 DEF LocalIsCurrent
    <2>3. ASSUME NEW d \in Clients, wish'[d] \in Ops
          PROVE  \/ opPc'[wish'[d]] = "local"
                 \/ wish'[d] \in (Overtaken \cup past.overOperation \cup past.halted)'
                 \/ local'[d] = LocalAfter(wish[d])'
      <3>1. CASE d = c
        BY <1>4, <2>1, <3>1 DEF Commits
      <3>2. CASE d # c
        <4>1. wish'[d] = wish[d]
          BY <1>4, <3>2 DEF Commits
        <4>2. LocalAfter(wish[d])' = LocalAfter(wish[d])
          BY <1>4, <4>1 DEF Commits, LocalAfter, PlainOf
        <4> QED
          BY <2>2, <2>3, <3>2, <4>1, <4>2
      <3> QED
        BY <3>1, <3>2
    <2>4. ASSUME NEW p \in Ops, opPc'[p] = "local"
          PROVE  \/ wish'[ask'[p].client] = p
                 \/ wish'[ask'[p].client] \in past'.overOperation
      <3>1. ask' = ask
        BY <1>4 DEF Commits
      <3>2. CASE p = o
        BY <1>4, <3>1, <3>2 DEF Commits
      <3>3. CASE p # o
        <4>1. opPc[p] = "local" /\ ask[p].client \in Clients
          BY <2>1, <2>4, <3>3, Basics
        <4> QED
          BY <1>0, <1>1, <1>4, <3>1, <4>1 DEF Commits, LocalIsCurrent
      <3> QED
        BY <3>2, <3>3
    <2> QED
      BY <2>3, <2>4 DEF LocalIsCurrent
  <1>5. ASSUME UNCHANGED wish,
               \A o \in Ops : opPc'[o] = "local" => opPc[o] = "local",
               \A o \in Ops : opPc[o] = "local" =>
                  opPc'[o] = "local" \/ ApplyOperation(o) \/ o \in past'.halted,
               \/ UNCHANGED local
               \/ \E o \in Ops : ApplyOperation(o)
               \/ \E s \in Syncers : ApplyLocal(s)
        PROVE  LocalIsCurrent'
    <2>1. ASSUME NEW c \in Clients, NEW w \in Ops, w = wish[c]
          PROVE  Current(c, w)
      <3>1. CASE opPc[w] = "local"
        <4>1. ApplyOperation(w) => local'[c] = LocalAfter(w)
          BY <1>0, <1>3, <2>1 DEF ApplyOperation
        <4> QED
          BY <1>5, <3>1, <4>1
      <3>2. CASE w \in Overtaken \cup past.overOperation \cup past.halted
        BY <1>1, <3>2
      <3>3. ASSUME NEW o \in Ops, ApplyOperation(o), local[c] = LocalAfter(w),
                   opPc[w] # "local", w \notin past.overOperation
            PROVE  Current(c, w)
        <4>1. opPc[o] = "local" /\ local' = [local EXCEPT ![ask[o].client] = LocalAfter(o)]
          BY <3>3 DEF ApplyOperation
        <4>2. ask[o].client # c
          BY <1>0, <2>1, <3>3, <4>1 DEF LocalIsCurrent
        <4> QED
          BY <1>0, <3>3, <4>1, <4>2
      <3>4. ASSUME NEW s \in Syncers, ApplyLocal(s), local[c] = LocalAfter(w),
                   w \notin Overtaken
            PROVE  Current(c, w)
        <4>1. PICK p \in todo[s] : local' = [local EXCEPT ![p.client] =
                                      IF p.plain = NoPlain THEN Absent ELSE p.plain]
          BY <3>4 DEF ApplyLocal
        <4>2. CASE p.client = c
          <5>1. p.plain = PlainOf(wish[c])
            BY <1>0, <2>1, <3>4, <4>2 DEF HandIsCurrent, InHand
          <5>2. p.plain = PlainOf(w)
            BY <2>1, <5>1
          <5>3. LocalAfter(w) = IF p.plain = NoPlain THEN Absent ELSE p.plain
            BY <5>2, SourceAssumption DEF LocalAfter, PlainOf
          <5> QED
            BY <1>0, <4>1, <4>2, <5>3
        <4>3. CASE p.client # c
          BY <1>0, <3>4, <4>1, <4>3
        <4> QED
          BY <4>2, <4>3
      <3>5. \/ opPc[w] = "local"
            \/ w \in Overtaken \cup past.overOperation \cup past.halted
            \/ local[c] = LocalAfter(w)
        <4>1. \/ opPc[wish[c]] = "local"
              \/ wish[c] \in Overtaken \cup past.overOperation \cup past.halted
              \/ local[c] = LocalAfter(wish[c])
          BY <1>0, <2>1 DEF LocalIsCurrent
        <4> QED
          BY <2>1, <4>1
      <3> QED
        BY <1>5, <3>1, <3>2, <3>3, <3>4, <3>5
    <2>2. ASSUME NEW c \in Clients, wish[c] \in Ops
          PROVE  \/ opPc'[wish[c]] = "local"
                 \/ wish[c] \in (Overtaken \cup past.overOperation \cup past.halted)'
                 \/ local'[c] = LocalAfter(wish[c])'
      <3>1. PICK w \in Ops : w = wish[c]
        BY <2>2
      <3>2. LocalAfter(wish[c])' = LocalAfter(w)
        <4>1. LocalAfter(w)' = LocalAfter(w)
          BY <1>2, <1>3, <3>1
        <4> QED
          BY <1>5, <3>1, <4>1 DEF LocalAfter, PlainOf
      <3> QED
        BY <2>1, <3>1, <3>2
    <2>3. ASSUME NEW o \in Ops, opPc'[o] = "local"
          PROVE  \/ wish[ask'[o].client] = o
                 \/ wish[ask'[o].client] \in past'.overOperation
      <3>1. opPc[o] = "local" /\ ask'[o] = ask[o]
        BY <1>2, <1>5, <2>3
      <3> QED
        BY <1>0, <1>1, <3>1 DEF LocalIsCurrent
    <2> QED
      BY <1>5, <2>2, <2>3 DEF LocalIsCurrent
  <1> QED
    BY <1>4, <1>5, OpKinds, RowKinds, CommitEffect

\* A row is pending after a step if the operation of it has just committed, or if
\* it was, and the step did not mark it.
LEMMA PendingKept ==
    ASSUME IInv, PastInv, [Next]_vars, NEW c \in Clients, NEW t \in Targets,
           db'.status[c][t] = "pending"
    PROVE  \/ \E o \in Ops : Commits(o, c) /\ due'[c][t] = o
           \/ /\ db.status[c][t] = "pending"
              /\ due'[c][t] = due[c][t] /\ wish'[c] = wish[c]
              /\ db'.plain[c] = db.plain[c] \/ db'.plain[c] = NoPlain
              /\ \A s \in Syncers : MarkSent(s) =>
                    ~ (ClientOf(sending[s]) = c /\ TargetOf(sending[s]) = t)
  <1>1. ASSUME NEW s \in Syncers, MarkSent(s), ClientOf(sending[s]) = c,
               TargetOf(sending[s]) = t, db.status[c][t] = "pending"
        PROVE  FALSE
    <2>1. /\ syncPc[s] = "mark"
          /\ db' = Mark(db, work[s].client, TargetOf(sending[s]), "sent")
      BY <1>1 DEF MarkSent, MarkedSent, TargetOf
    <2>2. work[s].client = c
      BY <1>1, <2>1, Basics DEF AfterPublish
    <2>3. "sent" \in RowStatus /\ db \in Tables
      BY DEF RowStatus, IInv, TypeOK
    <2>4. db'.status[c][t] = "sent"
      BY <1>1, <2>1, <2>2, <2>3, MarkProperties
    <2> QED
      BY <2>4
  <1>2. ASSUME NEW o \in Ops, NEW d \in Clients, Commits(o, d)
        PROVE  \/ Commits(o, c) /\ due'[c][t] = o
               \/ /\ db.status[c][t] = "pending" /\ due'[c][t] = due[c][t]
                  /\ wish'[c] = wish[c] /\ db'.plain[c] = db.plain[c]
    BY <1>2 DEF Commits
  <1>3. db.status[c][t] = "pending" =>
           \A s \in Syncers : MarkSent(s) =>
              ~ (ClientOf(sending[s]) = c /\ TargetOf(sending[s]) = t)
    BY <1>1
  <1>4. \/ \E o \in Ops : Commit(o)
        \/ /\ db.status[c][t] = "pending"
           /\ due'[c][t] = due[c][t] /\ wish'[c] = wish[c]
           /\ db'.plain[c] = db.plain[c] \/ db'.plain[c] = NoPlain
    BY RowKinds DEF VerdictOf
  <1> QED
    BY <1>2, <1>3, <1>4, CommitEffect

\* A pending row is taken by a pass before anything of its client is on its way.
LEMMA PendingIsOwedKept ==
    ASSUME IInv, PastInv, [Next]_vars
    PROVE  PendingIsOwed'
  <1>0. PendingIsOwed
    BY DEF PastInv
  <1>1. ASSUME NEW c \in Clients, NEW t \in Targets, db'.status[c][t] = "pending"
        PROVE  \/ \E s \in Syncers : Owes(s, c, t)'
               \/ <<due'[c][t], t>> \in past'.left
               \/ due'[c][t] \in (past.overPass \cup past.overMail)'
               \/ (\A s \in Syncers : ~ Holds(s, c)') /\ MailOf(c)' = {}
    <2>1. ASSUME NEW o \in Ops, Commits(o, c), due'[c][t] = o
          PROVE  \/ o \in (past.overPass \cup past.overMail)'
                 \/ (\A s \in Syncers : ~ Holds(s, c)') /\ MailOf(c)' = {}
      <3>1. MailOf(c)' = MailOf(c)
        BY <2>1 DEF Commits, MailOf, Underway, ClientOf
      <3>2. \A s \in Syncers : Holds(s, c)' <=> Holds(s, c)
        BY <2>1, CommitNotes DEF Holds
      <3> QED
        BY <2>1, <3>1, <3>2 DEF Commits
    <2>2. ASSUME NEW s \in Syncers, Fetch(s), db.status[c][t] = "pending"
          PROVE  Owes(s, c, t)'
      <3>1. t \in PendingTargets(db, c)
        BY <2>2 DEF PendingTargets
      <3>2. \E p \in PendingPropagations(db) :
               p.client = c /\ p.targets = PendingTargets(db, c)
        <4> DEFINE x == [client |-> c, plain |-> db.plain[c],
                         targets |-> PendingTargets(db, c)]
        <4>1. x \in PendingPropagations(db)
          BY <3>1 DEF PendingPropagations
        <4> QED
          BY <4>1
      <3> QED
        BY <2>2, <3>1, <3>2, FetchEffect DEF Owes
    <2>3. ASSUME db.status[c][t] = "pending", due'[c][t] = due[c][t],
                 \A s \in Syncers : MarkSent(s) =>
                    ~ (ClientOf(sending[s]) = c /\ TargetOf(sending[s]) = t),
                 \A s \in Syncers : ~ Fetch(s)
          PROVE  \/ \E s \in Syncers : Owes(s, c, t)'
                 \/ <<due'[c][t], t>> \in past'.left
                 \/ due'[c][t] \in (past.overPass \cup past.overMail)'
                 \/ (\A s \in Syncers : ~ Holds(s, c)') /\ MailOf(c)' = {}
      <3>1. \/ \E s \in Syncers : Owes(s, c, t)
            \/ <<due[c][t], t>> \in past.left
            \/ due[c][t] \in past.overPass \cup past.overMail
            \/ (\A s \in Syncers : ~ Holds(s, c)) /\ MailOf(c) = {}
        BY <1>0, <2>3 DEF PendingIsOwed, PendingTargets
      <3>2. ASSUME NEW s \in Syncers, Owes(s, c, t)
            PROVE  Owes(s, c, t)' \/ <<due[c][t], t>> \in past'.left
        BY <2>3, <3>2, OwesKept
      <3>3. ASSUME \A s \in Syncers : ~ Holds(s, c), MailOf(c) = {}
            PROVE  (\A s \in Syncers : ~ Holds(s, c)') /\ MailOf(c)' = {}
        <4>1. \A s \in Syncers : ~ Holds(s, c)'
          BY <2>3, <3>3, HandsShrink DEF Holds
        <4>2. ASSUME NEW id \in EventIds', ClientOf(id)' = c, Underway(id)'
              PROVE  FALSE
          <5>1. CASE id \in EventIds
            <6>1. Underway(id) /\ ClientOf(id) = c
              BY <4>2, <5>1, UnderwayShrinks, EventsLast DEF ClientOf
            <6> QED
              BY <3>3, <5>1, <6>1 DEF MailOf, EventIds
          <5>2. ASSUME NEW s \in Syncers, NEW u \in Targets, Publishes(s, u, id)
                PROVE  FALSE
            <6>1. work[s] \in InHand(s)
              BY <5>2, Basics DEF Publishes, AtTarget
            <6>2. work[s].client = c
              BY <4>2, <5>2 DEF Publishes, ClientOf
            <6> QED
              BY <3>3, <6>1, <6>2 DEF Holds
          <5> QED
            BY <4>2, <5>1, <5>2, EventIsNew
        <4>3. MailOf(c)' = {}
          BY <4>2 DEF MailOf, EventIds
        <4> QED
          BY <4>1, <4>3
      <3> QED
        BY <2>3, <3>1, <3>2, <3>3, PastGrows
    <2> QED
      BY <1>1, <2>1, <2>2, <2>3, PendingKept
  <1> QED
    BY <1>1 DEF PendingIsOwed, PendingTargets

\* What is fetched is in table 1, and was committed.
LEMMA SecretsAreCommittedKept ==
    ASSUME IInv, PastInv, [Next]_vars
    PROVE  SecretsAreCommitted'
  <1>0. SecretsAreCommitted /\ PlainIsCurrent /\ OpsAreKnown
    BY DEF PastInv
  <1>1. \A o : Committed(o) => Committed(o)'
    BY OpsLast DEF Committed
  <1>2. ASSUME NEW id \in EventIds', NEW o \in Ops, o = events'[id].secret
        PROVE  Committed(o)
    <2>1. CASE id \in EventIds
      BY <1>0, <1>2, <2>1, EventsLast DEF SecretsAreCommitted
    <2>2. ASSUME NEW s \in Syncers, NEW t \in Targets, Publishes(s, t, id)
          PROVE  Committed(o)
      <3>1. work[s] \in InHand(s) /\ work[s].plain = o
        BY <1>2, <2>2, Basics DEF Publishes, AtTarget
      <3> QED
        BY <1>0, <3>1 DEF SecretsAreCommitted
    <2> QED
      BY <2>1, <2>2, EventIsNew
  <1>3. ASSUME NEW s \in Syncers, NEW p \in InHand(s)', NEW o \in Ops, o = p.plain
        PROVE  Committed(o)
    <2>1. CASE Fetch(s)
      <3>1. p \in PendingPropagations(db)
        BY <2>1, FetchEffect
      <3>2. PICK c \in Clients : o = db.plain[c]
        BY <1>3, <3>1 DEF PendingPropagations
      <3> QED
        BY <1>0, <3>2, SourceAssumption DEF PlainIsCurrent, OpsAreKnown
    <2>2. CASE ~ Fetch(s)
      BY <1>0, <1>3, <2>2, HandsShrink DEF SecretsAreCommitted
    <2> QED
      BY <2>1, <2>2
  <1>4. \A id \in EventIds' : events'[id].secret \in Ops =>
           opPc'[events'[id].secret] \in {"local", "done"}
    BY <1>1, <1>2 DEF Committed
  <1>5. \A s \in Syncers : \A p \in InHand(s)' : p.plain \in Ops => Committed(p.plain)'
    BY <1>1, <1>3
  <1> QED
    BY <1>4, <1>5 DEF SecretsAreCommitted, Committed

\* A fetch of what another pass has in hand is noted.
LEMMA HandsAreApartKept ==
    ASSUME IInv, PastInv, [Next]_vars
    PROVE  HandsAreApart'
  <1>0. HandsAreApart
    BY DEF PastInv
  <1>1. \A c, d \in PendingPropagations(db) : c.client = d.client => c = d
    BY DEF PendingPropagations
  <1>2. ASSUME NEW s \in Syncers
        PROVE  /\ \A p, q \in InHand(s)' : p.client = q.client => p = q
               /\ syncPc'[s] \in AtTarget => \A p \in todo'[s] : p.client # work'[s].client
    <2>1. /\ \A p, q \in InHand(s) : p.client = q.client => p = q
          /\ syncPc[s] \in AtTarget => \A p \in todo[s] : p.client # work[s].client
      BY <1>0 DEF HandsAreApart
    <2>2. CASE Fetch(s)
      BY <1>1, <2>2, FetchEffect DEF AtTarget
    <2>3. CASE Keeps(s)
      BY <2>1, <2>3 DEF Keeps, InHand
    <2>4. CASE Drops(s)
      BY <2>1, <2>4 DEF Drops, InHand
    <2>5. CASE Narrows(s)
      BY <2>1, <2>5 DEF Narrows, InHand
    <2>6. CASE Takes(s)
      BY <2>1, <2>6 DEF Takes, InHand
    <2> QED
      BY <2>2, <2>3, <2>4, <2>5, <2>6, PassKinds
  <1>3. ASSUME NEW s \in Syncers, NEW r \in Syncers, s # r,
               NEW p \in InHand(s)', NEW q \in InHand(r)',
               p.client = q.client, p.plain = q.plain, p.plain \in Ops, Fetch(s)
        PROVE  p.plain \in past'.overlapped
    <2>1. p \in PendingPropagations(db) /\ q \in InHand(r)
      BY <1>3, FetchEffect
    <2>2. PICK c \in Clients : p.client = c /\ p.plain = db.plain[c]
      BY <2>1 DEF PendingPropagations
    <2>3. Holds(r, c)
      BY <1>3, <2>1, <2>2 DEF Holds
    <2> QED
      BY <1>3, <2>2, <2>3, FetchEffect
  <1>4. ASSUME NEW s \in Syncers, NEW r \in Syncers, s # r,
               NEW p \in InHand(s)', NEW q \in InHand(r)',
               p.client = q.client, p.plain = q.plain, p.plain \in Ops,
               ~ Fetch(s), ~ Fetch(r)
        PROVE  p.plain \in past'.overlapped
    <2>1. PICK x \in InHand(s) : x.client = p.client /\ x.plain = p.plain
      BY <1>4, HandsShrink
    <2>2. PICK y \in InHand(r) : y.client = q.client /\ y.plain = q.plain
      BY <1>4, HandsShrink
    <2> QED
      BY <1>0, <1>4, <2>1, <2>2, PastGrows DEF HandsAreApart
  <1> QED
    BY <1>2, <1>3, <1>4 DEF HandsAreApart

\* A row is pending with its event published only until the pass marks it, or
\* breaks off.
LEMMA ToldOnceKept ==
    ASSUME IInv, PastInv, [Next]_vars
    PROVE  ToldOnce'
  <1>0. /\ ToldOnce /\ SecretsAreCommitted /\ HandsAreApart
        /\ NoPlain \notin Ops /\ NoRow \notin Ops
    BY SourceAssumption DEF PastInv
  <1>1. past.torn \subseteq past'.torn /\ past.overlapped \subseteq past'.overlapped
    BY PastGrows
  <1>2. \A c, t : \A id \in Sent(c, t)' :
           \/ id \in Sent(c, t) /\ events'[id] = events[id]
           \/ /\ id \notin EventIds
              /\ \E s \in Syncers, u \in Targets : Publishes(s, u, id)
    <2>1. ASSUME NEW c, NEW t, NEW id \in Sent(c, t)', id \in EventIds
          PROVE  id \in Sent(c, t) /\ events'[id] = events[id]
      BY <2>1, EventsLast DEF Sent, ClientOf, TargetOf
    <2> QED
      BY <2>1, EventIsNew DEF Sent
  <1>3. ASSUME NEW c \in Clients, NEW t \in Targets, db'.status[c][t] = "pending",
               NEW id \in Sent(c, t)', events'[id].secret = db'.plain[c],
               db'.plain[c] \in Ops
        PROVE  \/ id \in past'.torn
               \/ \E s \in Syncers : syncPc'[s] \in AfterPublish /\ sending'[s] = id
    <2>1. ASSUME NEW o \in Ops, Commits(o, c)
          PROVE  FALSE
      <3>1. db'.plain[c] = o
        BY <1>0, <1>3, <2>1 DEF Commits, PlainOf
      <3>2. events' = events /\ id \in EventIds
        BY <1>3, <2>1 DEF Commits, Sent, EventIds
      <3>3. Committed(o)
        BY <1>0, <1>3, <3>1, <3>2 DEF SecretsAreCommitted
      <3> QED
        BY <2>1, <3>3 DEF Commits, Committed
    <2>2. ASSUME NEW s \in Syncers, NEW u \in Targets, Publishes(s, u, id)
          PROVE  \/ id \in past'.torn
                 \/ syncPc'[s] \in AfterPublish /\ sending'[s] = id
      BY <2>2 DEF Publishes, AfterPublish
    <2>3. ASSUME db.status[c][t] = "pending", db'.plain[c] = db.plain[c],
                 \A s \in Syncers : MarkSent(s) =>
                    ~ (ClientOf(sending[s]) = c /\ TargetOf(sending[s]) = t),
                 id \in Sent(c, t), events'[id] = events[id]
          PROVE  \/ id \in past'.torn
                 \/ \E s \in Syncers : syncPc'[s] \in AfterPublish /\ sending'[s] = id
      <3>1. \/ id \in past.torn
            \/ \E s \in Syncers : syncPc[s] \in AfterPublish /\ sending[s] = id
        BY <1>0, <1>3, <2>3 DEF ToldOnce, PendingTargets
      <3>2. ASSUME NEW s \in Syncers, syncPc[s] \in AfterPublish, sending[s] = id
            PROVE  \/ id \in past'.torn
                   \/ syncPc'[s] \in AfterPublish /\ sending'[s] = id
        <4>1. ~ MarkSent(s)
          BY <2>3, <3>2 DEF Sent
        <4> QED
          BY <3>2, <4>1, SendingKinds
      <3> QED
        BY <1>1, <3>1, <3>2
    <2> QED
      BY <1>0, <1>2, <1>3, <2>1, <2>2, <2>3, PendingKept
  <1>4. ASSUME NEW s \in Syncers, NEW p \in InHand(s)', NEW t \in p.targets,
               NEW id \in Sent(p.client, t)', events'[id].secret = p.plain,
               p.plain \in Ops
        PROVE  id \in past'.torn \/ p.plain \in past'.overlapped
    <2>1. CASE Fetch(s)
      <3>1. p \in PendingPropagations(db) /\ UNCHANGED <<db, events>>
            /\ syncPc[s] = "idle"
        BY <2>1, FetchEffect
      <3>2. PICK c \in Clients : /\ p.client = c /\ p.plain = db.plain[c]
                                 /\ p.targets = PendingTargets(db, c)
        BY <3>1 DEF PendingPropagations
      <3>3. id \in Sent(c, t) /\ events[id].secret = p.plain /\ id \in EventIds
        BY <1>4, <3>1, <3>2 DEF Sent, EventIds, ClientOf, TargetOf
      <3>4. \/ id \in past.torn
            \/ \E r \in Syncers : syncPc[r] \in AfterPublish /\ sending[r] = id
        BY <1>0, <1>4, <3>2, <3>3 DEF ToldOnce
      <3>5. ASSUME NEW r \in Syncers, syncPc[r] \in AfterPublish, sending[r] = id
            PROVE  p.plain \in past'.overlapped
        <4>1. r # s
          BY <3>1, <3>5 DEF AfterPublish
        <4>2. Holds(r, c)
          BY <3>3, <3>5, Basics DEF Holds, Sent
        <4> QED
          BY <1>4, <2>1, <3>2, <4>1, <4>2, FetchEffect
      <3> QED
        BY <1>1, <3>4, <3>5
    <2>2. CASE ~ Fetch(s)
      <3>1. PICK q \in InHand(s) : /\ q.client = p.client /\ q.plain = p.plain
                                   /\ p.targets \subseteq q.targets
        BY <2>2, HandsShrink
      <3>2. ASSUME id \in Sent(p.client, t), events'[id] = events[id]
            PROVE  id \in past'.torn \/ p.plain \in past'.overlapped
        BY <1>0, <1>1, <1>4, <3>1, <3>2 DEF ToldOnce
      <3>3. ASSUME NEW r \in Syncers, NEW u \in Targets, Publishes(r, u, id)
            PROVE  p.plain \in past'.overlapped
        <4>1. work[r] \in InHand(r) /\ work[r] \in Propagation
          BY <3>3, Basics DEF Publishes, AtTarget
        <4>2. u = t /\ work[r].client = p.client /\ work[r].plain = p.plain
          BY <1>4, <3>3 DEF Publishes, Sent, ClientOf, TargetOf
        <4>3. CASE r # s
          BY <1>0, <1>1, <1>4, <3>1, <4>1, <4>2, <4>3 DEF HandsAreApart
        <4>4. CASE r = s
          <5>1. p \in todo[s] \/ (syncPc'[s] \in AtTarget /\ p = work'[s])
            BY <1>4, <3>3 DEF Publishes, InHand
          <5>2. syncPc[s] \in AtTarget
            BY <3>3, <4>4 DEF Publishes, AtTarget
          <5>3. p \notin todo[s]
            BY <1>0, <4>2, <4>4, <5>2 DEF HandsAreApart
          <5>4. p.targets = work[s].targets \ {t}
            BY <3>3, <4>1, <4>2, <4>4, <5>1, <5>3 DEF Publishes, Propagation
          <5> QED
            BY <1>4, <5>4
        <4> QED
          BY <4>3, <4>4
      <3> QED
        BY <1>2, <1>4, <3>2, <3>3
    <2> QED
      BY <2>1, <2>2
  <1> QED
    BY <1>3, <1>4 DEF ToldOnce, PendingTargets

\* So a second event with the secret has one of the two causes.
LEMMA PublishOnceKept ==
    ASSUME IInv, PastInv, [Next]_vars
    PROVE  PublishOnce'
  <1> DEFINE Twice(i, j) ==
           /\ i # j /\ events'[i].client = events'[j].client
           /\ events'[i].target = events'[j].target
           /\ events'[i].secret = events'[j].secret /\ events'[i].secret \in Ops
  <1>0. PublishOnce /\ ToldOnce
    BY DEF PastInv
  <1>1. ASSUME NEW s \in Syncers, NEW t \in Targets, NEW i \in EventIds',
               Publishes(s, t, i), NEW j \in EventIds, Twice(i, j)
        PROVE  events'[i].secret \in past'.overlapped \/ j \in past'.torn
    <2>1. work[s] \in InHand(s) /\ t \in work[s].targets
      BY <1>1, Basics DEF Publishes, AtTarget
    <2>2. /\ events'[i].secret = work[s].plain /\ work[s].plain \in Ops
          /\ j \in Sent(work[s].client, t) /\ events[j].secret = work[s].plain
      BY <1>1 DEF Publishes, Sent, ClientOf, TargetOf
    <2> QED
      BY <1>0, <2>1, <2>2, PastGrows DEF ToldOnce
  <1>2. ASSUME NEW i \in EventIds, NEW j \in EventIds, Twice(i, j)
        PROVE  events'[i].secret \in past'.overlapped \/ {i, j} \cap past'.torn # {}
    <2>1. events'[i] = events[i] /\ events'[j] = events[j]
      BY EventsLast
    <2> QED
      BY <1>0, <1>2, <2>1, PastGrows DEF PublishOnce, ClientOf, TargetOf
  <1>3. ASSUME NEW i \in EventIds', NEW j \in EventIds', i \notin EventIds,
               j \notin EventIds
        PROVE  i = j
    <2>1. i = Len(events) + 1
      BY <1>3, EventIsNew DEF Publishes
    <2>2. j = Len(events) + 1
      BY <1>3, EventIsNew DEF Publishes
    <2> QED
      BY <2>1, <2>2
  <1>4. ASSUME NEW i \in EventIds', NEW j \in EventIds', Twice(i, j)
        PROVE  events'[i].secret \in past'.overlapped \/ {i, j} \cap past'.torn # {}
    <2>1. Twice(j, i)
      BY <1>4
    <2> HIDE DEF Twice
    <2>2. i # j /\ events'[j].secret = events'[i].secret
      BY <1>4 DEF Twice
    <2> QED
      BY <1>1, <1>2, <1>3, <1>4, <2>1, <2>2, EventIsNew
  <1> QED
    BY <1>4 DEF PublishOnce, ClientOf, TargetOf

\* A pass about to record an event does so, unless it breaks off.
LEMMA RecordKinds ==
    ASSUME IInv, [Next]_vars, NEW s \in Syncers, syncPc[s] = "record"
    PROVE  \/ syncPc'[s] = "record" /\ sending'[s] = sending[s]
           \/ sending[s] \in redis'.records
           \/ sending[s] \in past'.torn
  <1>0. /\ syncPc \in [Syncers -> {"idle", "apply", "publish", "record", "index", "mark"}]
        /\ redis \in Acks!Keyspace
    BY DEF IInv, TypeOK
  <1>1. \/ syncPc'[s] \in AfterPublish /\ sending'[s] = sending[s]
        \/ sending[s] \in past'.torn
    BY SendingKinds DEF AfterPublish, MarkSent
  <1>2. syncPc'[s] \in AfterPublish => syncPc'[s] = "record" \/ Record(s)
    <2>1. ASSUME NEW r \in Syncers, NEW targets, GoOn(r, targets)
          PROVE  syncPc'[s] = "record" \/ syncPc'[s] \notin AfterPublish
      BY <1>0, <2>1 DEF GoOn, AfterPublish
    <2>2. ASSUME NEW r \in Syncers, Fetch(r) \/ ApplyLocal(r) \/ ApplyLocalFails(r)
                                    \/ Publish(r) \/ Index(r)
          PROVE  syncPc'[s] = "record" \/ syncPc'[s] \notin AfterPublish
      BY <1>0, <2>2 DEF Fetch, ApplyLocal, ApplyLocalFails, Publish, Index, AfterPublish
    <2>3. ASSUME NEW r \in Syncers, Record(r), r # s
          PROVE  syncPc'[s] = "record"
      BY <1>0, <2>3 DEF Record
    <2>4. CASE Crash
      BY <2>4 DEF Crash, AfterPublish
    <2>5. ASSUME NEW r \in Syncers, MarkSent(r) \/ PublishFails(r) \/ BookkeepingFails(r)
          PROVE  \E targets : GoOn(r, targets)
      BY <2>5 DEF MarkSent, PublishFails, BookkeepingFails
    <2> QED
      BY <2>1, <2>2, <2>3, <2>4, <2>5
         DEF Next, Operate, Sync, SyncFails, HandleAck, Request, Commit,
             ApplyOperation, OperationFails, TakeAck, DropUnknown, RecordResult,
             MarkResult, CountPending, Finalize, Clear, CallbackFails, HandlerFails,
             Answer, Expire, ExpireAggregate, syncVars, vars
  <1>3. Record(s) => sending[s] \in redis'.records
    BY <1>0 DEF Record, Acks!PutRecord, Acks!Keyspace
  <1> QED
    BY <1>1, <1>2, <1>3

\* A record goes with its result, or by its TTL.
LEMMA RecordsAreKeptKept ==
    ASSUME IInv, PastInv, [Next]_vars
    PROVE  RecordsAreKept'
  <1>0. RecordsAreKept /\ redis \in Acks!Keyspace /\ past \in Pasts
    BY DEF PastInv, IInv, TypeOK
  <1>1. ASSUME NEW id \in redis.records
        PROVE  id \in redis'.records \cup counted' \cup past'.expired
    <2>1. CASE UNCHANGED redis
      BY <2>1
    <2>2. ASSUME NEW s \in Syncers, Record(s) \/ Index(s)
          PROVE  id \in redis'.records
      BY <1>0, <1>1, <2>2 DEF Record, Index, Acks!PutRecord, Acks!AddPending, Acks!Keyspace
    <2>3. CASE RecordResult
      BY <1>0, <1>1, <2>3 DEF RecordResult, Acks!PutResult, Acks!Keyspace
    <2>4. CASE Clear
      BY <1>0, <1>1, <2>4 DEF Clear, Acks!ClearAggregates, Acks!Keyspace
    <2>5. ASSUME NEW x \in Ids, Expire(x)
          PROVE  id \in redis'.records \cup past'.expired
      BY <1>0, <1>1, <2>5 DEF Expire, Acks!Expire, Acks!Keyspace, Pasts
    <2>6. ASSUME NEW c \in Clients, ExpireAggregate(c)
          PROVE  id \in redis'.records
      BY <1>0, <1>1, <2>6
         DEF ExpireAggregate, Acks!ExpirePending, Acks!ExpireResults, Acks!Keyspace
    <2> QED
      BY <2>1, <2>2, <2>3, <2>4, <2>5, <2>6
         DEF Next, Operate, Sync, SyncFails, HandleAck, Request, Commit,
             ApplyOperation, OperationFails, Fetch, ApplyLocal, ApplyLocalFails,
             Publish, MarkSent, PublishFails, BookkeepingFails, TakeAck,
             DropUnknown, MarkResult, CountPending, Finalize, CallbackFails,
             HandlerFails, Answer, Crash, vars
  <1>2. ASSUME NEW id \in EventIds'
        PROVE  \/ id \in redis'.records \cup counted' \cup past'.torn \cup past'.expired
               \/ \E s \in Syncers : syncPc'[s] = "record" /\ sending'[s] = id
    <2>1. CASE id \in EventIds
      <3>1. \/ id \in redis.records \cup counted \cup past.torn \cup past.expired
            \/ \E s \in Syncers : syncPc[s] = "record" /\ sending[s] = id
        BY <1>0, <2>1 DEF RecordsAreKept
      <3> QED
        BY <1>1, <3>1, RecordKinds, PastGrows
    <2>2. ASSUME NEW s \in Syncers, NEW t \in Targets, Publishes(s, t, id)
          PROVE  id \in past'.torn \/ (syncPc'[s] = "record" /\ sending'[s] = id)
      BY <2>2 DEF Publishes
    <2> QED
      BY <2>1, <2>2, EventIsNew
  <1> QED
    BY <1>2 DEF RecordsAreKept

\* A deletion is fetched from a plain secret that is NULL.
LEMMA DeletionsAreCausedKept ==
    ASSUME IInv, PastInv, [Next]_vars
    PROVE  DeletionsAreCaused'
  <1>0. DeletionsAreCaused /\ PlainIsCurrent /\ OpsAreKnown /\ NoPlain \notin Ops
    BY SourceAssumption DEF PastInv
  <1>1. \A c : MayBeDeleted(c) => MayBeDeleted(c)'
    <2>1. \A o : Committed(o) => Committed(o)' /\ ask'[o] = ask[o]
      BY OpsLast DEF Committed
    <2>2. past.early \subseteq past'.early
      BY PastGrows
    <2> QED
      BY <2>1, <2>2 DEF MayBeDeleted
  <1>2. ASSUME NEW id \in EventIds', events'[id].secret = NoPlain
        PROVE  \E c : c = ClientOf(id)' /\ MayBeDeleted(c)
    <2>1. CASE id \in EventIds
      BY <1>0, <1>2, <2>1, EventsLast DEF DeletionsAreCaused, ClientOf
    <2>2. ASSUME NEW s \in Syncers, NEW t \in Targets, Publishes(s, t, id)
          PROVE  \E c : c = ClientOf(id)' /\ MayBeDeleted(c)
      <3>1. work[s] \in InHand(s) /\ work[s].plain = NoPlain
            /\ ClientOf(id)' = work[s].client
        BY <1>2, <2>2, Basics DEF Publishes, AtTarget, ClientOf
      <3> QED
        BY <1>0, <3>1 DEF DeletionsAreCaused
    <2> QED
      BY <2>1, <2>2, EventIsNew
  <1>3. ASSUME NEW s \in Syncers, NEW p \in InHand(s)', p.plain = NoPlain
        PROVE  MayBeDeleted(p.client)
    <2>1. CASE Fetch(s)
      <3>1. p \in PendingPropagations(db)
        BY <2>1, FetchEffect
      <3>2. PICK c \in Clients : /\ p.client = c /\ db.plain[c] = NoPlain
                                 /\ PendingTargets(db, c) # {}
        BY <1>3, <3>1 DEF PendingPropagations
      <3>3. Committed(wish[c]) /\ ask[wish[c]].client = c
        BY <1>0, <3>2 DEF OpsAreKnown, PendingTargets, Committed
      <3>4. wish[c] \in past.early \/ ask[wish[c]].kind = "revoke"
        BY <1>0, <3>2, <3>3 DEF PlainIsCurrent, PlainOf, Committed
      <3> QED
        BY <3>2, <3>3, <3>4 DEF MayBeDeleted, Committed
    <2>2. CASE ~ Fetch(s)
      BY <1>0, <1>3, <2>2, HandsShrink DEF DeletionsAreCaused
    <2> QED
      BY <2>1, <2>2
  <1>4. \A id \in EventIds' : events'[id].secret = NoPlain => MayBeDeleted(ClientOf(id))'
    <2>1. ASSUME NEW id \in EventIds', events'[id].secret = NoPlain
          PROVE  MayBeDeleted(ClientOf(id))'
      <3>1. PICK c : c = ClientOf(id)' /\ MayBeDeleted(c)
        BY <1>2, <2>1
      <3>2. MayBeDeleted(c)'
        BY <1>1, <3>1
      <3> QED
        BY <3>1, <3>2 DEF MayBeDeleted
    <2> QED
      BY <2>1
  <1>5. \A s \in Syncers : \A p \in InHand(s)' : p.plain = NoPlain => MayBeDeleted(p.client)'
    BY <1>1, <1>3
  <1> QED
    BY <1>4, <1>5 DEF DeletionsAreCaused
-----------------------------------------------------------------------------
(***************************************************************************)
(* The theorems                                                            *)
(***************************************************************************)

\* Nothing has happened yet.
LEMMA InitPast == Init => PastInv
  <1> SUFFICES ASSUME Init
               PROVE  PastInv
    OBVIOUS
  <1>1. /\ \A c \in Clients : wish[c] = NoRow /\ db.plain[c] = NoRow
        /\ \A c \in Clients, t \in Targets :
              due[c][t] = NoRow /\ db.status[c][t] = "none"
        /\ \A s \in Syncers : InHand(s) = {} /\ syncPc[s] = "idle"
        /\ \A o \in Ops : opPc[o] = "unused"
        /\ EventIds = {} /\ past.early = {} /\ NoRow \notin Ops
    BY SourceAssumption
       DEF Init, EmptyTables, InHand, AtTarget, EventIds, NothingPast
  <1>2. \A c \in Clients : PendingTargets(db, c) = {}
    BY <1>1 DEF PendingTargets
  <1>3. OpsAreKnown /\ PlainIsCurrent
    BY <1>1, <1>2 DEF OpsAreKnown, PlainIsCurrent
  <1>4. /\ HandIsCurrent /\ SendingIsCurrent /\ MailIsCurrent /\ LocalIsCurrent
        /\ SentMeansPublished /\ VerdictIsCurrent
    BY <1>1 DEF HandIsCurrent, SendingIsCurrent, MailIsCurrent, LocalIsCurrent,
                AfterPublish, SentMeansPublished, VerdictIsCurrent, Terminal
  <1>5. PendingIsOwed /\ SecretsAreCommitted /\ HandsAreApart
    BY <1>1, <1>2 DEF PendingIsOwed, SecretsAreCommitted, HandsAreApart, AtTarget
  <1>6. ToldOnce /\ PublishOnce /\ RecordsAreKept /\ DeletionsAreCaused
    BY <1>1, <1>2 DEF ToldOnce, PublishOnce, RecordsAreKept, DeletionsAreCaused
  <1> QED
    BY <1>3, <1>4, <1>5, <1>6 DEF PastInv

\* Every step keeps all parts.
LEMMA NextPast == IInv /\ PastInv /\ [Next]_vars => PastInv'
  <1> SUFFICES ASSUME IInv, PastInv, [Next]_vars
               PROVE  PastInv'
    OBVIOUS
  <1>1. /\ OpsAreKnown' /\ PlainIsCurrent' /\ HandIsCurrent' /\ SendingIsCurrent'
        /\ MailIsCurrent' /\ SentMeansPublished' /\ VerdictIsCurrent'
        /\ LocalIsCurrent'
    BY OpsAreKnownKept, PlainIsCurrentKept, HandIsCurrentKept,
       SendingIsCurrentKept, MailIsCurrentKept, SentMeansPublishedKept,
       VerdictIsCurrentKept, LocalIsCurrentKept
  <1>2. /\ PendingIsOwed' /\ SecretsAreCommitted' /\ HandsAreApart' /\ ToldOnce'
        /\ PublishOnce' /\ RecordsAreKept' /\ DeletionsAreCaused'
    BY PendingIsOwedKept, SecretsAreCommittedKept, HandsAreApartKept,
       ToldOnceKept, PublishOnceKept, RecordsAreKeptKept, DeletionsAreCausedKept
  <1> QED
    BY <1>1, <1>2 DEF PastInv

\* What a pass, a message, a row or the local store has of an operation is of the
\* one it should be, up to the causes that the history names.
THEOREM PastInvariant == Spec => []PastInv
  BY SourceInvariant, InitPast, NextPast, PTL DEF Spec

\* Zero loss at the source (src/sync.ts:54-82): a row that says "sent" stands for
\* an event that the broker has, with the secret that was asked for last, unless
\* the operation came while a pass had an older propagation of the client in
\* hand, or its plain secret was erased while a row was pending.
THEOREM SentRowsArePublished == Spec => []SentMeansPublished
  <1>1. PastInv => SentMeansPublished
    BY DEF PastInv
  <1> QED
    BY <1>1, PastInvariant, PTL

\* A verdict is one that the target gave for the secret its row stands for
\* (src/consume.ts:160-163), unless the operation came while a pass, an event or
\* an acknowledgement of the client was on its way, or its plain secret was
\* erased while a row was pending.
THEOREM VerdictsAreCurrent == Spec => []VerdictIsCurrent
  <1>1. PastInv => VerdictIsCurrent
    BY DEF PastInv
  <1> QED
    BY <1>1, PastInvariant, PTL

\* A deletion is sent out only for a client that was revoked, or whose plain
\* secret was erased while a row was pending (the NULL of table 1 that
\* fetchPendingPropagations takes for a deletion).
THEOREM DeletionsAreExplained == Spec => []DeletionsHaveCause
  <1>1. PastInv => DeletionsHaveCause
    BY DEF PastInv, DeletionsAreCaused, MayBeDeleted, DeletionsHaveCause, Committed
  <1> QED
    BY <1>1, PastInvariant, PTL

\* A target is told of a secret once (architecture.md:135), unless two passes had
\* the propagation in hand, or one broke off before it marked the row.
THEOREM EventsArePublishedOnce == Spec => []PublishOnce
  <1>1. PastInv => PublishOnce
    BY DEF PastInv
  <1> QED
    BY <1>1, PastInvariant, PTL

\* What the operator asked for last is in effect on this peer
\* (src/propagator.ts:123-124), whatever passes do, unless the operation threw
\* after its commit, ran into another one, or was overtaken.
THEOREM LocalStoreFollows == Spec => []LocalFollowsOperator
  <1>1. PastInv => LocalFollowsOperator
    BY DEF PastInv, LocalIsCurrent, LocalFollowsOperator, LocalAfter
  <1> QED
    BY <1>1, PastInvariant, PTL

\* An acknowledgement is only dropped as unknown (src/consume.ts:136-139) when its
\* result was recorded before, or the record of the event is lost or about to be
\* written.
THEOREM FirstAcksAreKnown == Spec => FirstAckIsKnown
  <1>1. ASSUME IInv, PastInv, DropUnknown
        PROVE  \/ handled \in counted \cup past.torn \cup past.expired
               \/ \E s \in Syncers : syncPc[s] = "record" /\ sending[s] = handled
    <2>1. handled \in EventIds /\ handled \notin redis.records
      BY <1>1 DEF DropUnknown, Acks!Known, IInv, MailIsReal
    <2> QED
      BY <1>1, <2>1 DEF PastInv, RecordsAreKept
  <1> QED
    BY <1>1, SourceInvariant, PastInvariant, PTL DEF FirstAckIsKnown

\* The plain secret is erased while a row is pending (against architecture.md:139)
\* only if a pass has yet to tell that target, or broke off on it, or the
\* operation came while something of the client was on its way.
THEOREM PlainSecretsAreKept == Spec => PlainKeptWhileOwed
  <1> DEFINE Kept ==
           LET c == ClientOf(handled)
           IN  db.plain[c] # NoPlain => \A t \in PendingTargets(db, c) :
                   \/ \E s \in Syncers : Owes(s, c, t)
                   \/ <<due[c][t], t>> \in past.left
                   \/ due[c][t] \in past.overPass \cup past.overMail
  <1>1. ASSUME IInv, PastInv, Finalize
        PROVE  Kept
    <2>1. handled \in EventIds /\ Underway(handled) /\ ClientOf(handled) \in Clients
      BY <1>1, Basics DEF Finalize, IInv, MailIsReal, Underway
    <2>2. MailOf(ClientOf(handled)) # {}
      BY <2>1 DEF MailOf, EventIds
    <2> QED
      BY <1>1, <2>1, <2>2 DEF PastInv, PendingIsOwed
  <1> QED
    BY <1>1, SourceInvariant, PastInvariant, PTL DEF PlainKeptWhileOwed
=============================================================================
