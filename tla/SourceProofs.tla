---------------------------- MODULE SourceProofs ----------------------------
(***************************************************************************)
(* Proofs about Source, for every set of clients, targets and passes, any  *)
(* operations at any time and any number of faults of every kind: the type *)
(* invariant, and that a verdict was given by its target.                  *)
(***************************************************************************)
EXTENDS Source, SequenceTheorems, TLAPS

(***************************************************************************)
(* The operator's tables                                                   *)
(***************************************************************************)

\* A mark sets one row that is there, and nothing else.
LEMMA MarkProperties ==
    ASSUME NEW d \in Tables, NEW c \in Clients, NEW t \in Targets,
           NEW st \in RowStatus
    PROVE  /\ Mark(d, c, t, st) \in Tables
           /\ Mark(d, c, t, st).plain = d.plain
           /\ \A x \in Clients, y \in Targets :
                 Mark(d, c, t, st).status[x][y] =
                    IF x = c /\ y = t /\ d.status[c][t] # "none"
                    THEN st ELSE d.status[x][y]
  BY DEF Mark, RowsOf, Tables

\* The rows of the listed targets are pending afterwards; others keep theirs.
LEMMA UpsertProperties ==
    ASSUME NEW d \in Tables, NEW c \in Clients, NEW plain \in Ops \cup {NoPlain},
           NEW targets \in SUBSET Targets
    PROVE  /\ Upsert(d, c, plain, targets) \in Tables
           /\ \A x \in Clients :
                 Upsert(d, c, plain, targets).plain[x] =
                    IF x = c THEN plain ELSE d.plain[x]
           /\ \A x \in Clients, y \in Targets :
                 Upsert(d, c, plain, targets).status[x][y] =
                    IF x = c /\ y \in targets THEN "pending" ELSE d.status[x][y]
  <1> DEFINE row == [t \in Targets |-> IF t \in targets THEN "pending"
                                       ELSE d.status[c][t]]
  <1>1. row \in [Targets -> RowStatus]
    BY DEF Tables, RowStatus
  <1>2. /\ Upsert(d, c, plain, targets).plain = [d.plain EXCEPT ![c] = plain]
        /\ Upsert(d, c, plain, targets).status = [d.status EXCEPT ![c] = row]
    BY DEF Upsert
  <1>3. /\ d.plain \in [Clients -> Ops \cup {NoPlain, NoRow}]
        /\ d.status \in [Clients -> [Targets -> RowStatus]]
    BY DEF Tables
  <1>4. Upsert(d, c, plain, targets) \in Tables
    BY <1>1, <1>3 DEF Upsert, Tables
  <1> QED
    BY <1>1, <1>2, <1>3, <1>4

\* A rotation only ever sets rows to pending.
LEMMA RotateProperties ==
    ASSUME NEW d \in Tables, NEW c \in Clients, NEW plain \in Ops \cup {NoPlain}
    PROVE  /\ Rotate(d, c, plain) \in Tables
           /\ \A x \in Clients, y \in Targets :
                 Rotate(d, c, plain).status[x][y] \in {"pending", d.status[x][y]}
  <1>1. RowsOf(d, c) \in SUBSET Targets
    BY DEF RowsOf
  <1> QED
    BY <1>1, UpsertProperties DEF Rotate

\* Erasing a plain secret leaves the rows alone.
LEMMA ClearPlainProperties ==
    ASSUME NEW d \in Tables, NEW c \in Clients
    PROVE  /\ ClearPlain(d, c) \in Tables
           /\ ClearPlain(d, c).status = d.status
  BY DEF ClearPlain, Tables

\* A snapshot is made of propagations.
LEMMA SnapshotType ==
    ASSUME NEW d \in Tables
    PROVE  \A propagation \in PendingPropagations(d) :
              /\ propagation.client \in Clients
              /\ propagation.targets \in SUBSET Targets
              /\ propagation.plain = d.plain[propagation.client]
  BY DEF PendingPropagations, PendingTargets, Tables
-----------------------------------------------------------------------------
(***************************************************************************)
(* The keys in Redis                                                       *)
(***************************************************************************)

\* What the operators on the keys return are keys again.
LEMMA KeyspaceClosed ==
    ASSUME NEW r \in Acks!Keyspace, NEW id \in Ids, NEW c \in Clients
    PROVE  /\ Acks!PutRecord(r, id) \in Acks!Keyspace
           /\ Acks!AddPending(r, c, id) \in Acks!Keyspace
           /\ Acks!ClearAggregates(r, c) \in Acks!Keyspace
           /\ Acks!Expire(r, id) \in Acks!Keyspace
  <1> USE DEF Acks!Keyspace
  <1>1. Acks!PutRecord(r, id) \in Acks!Keyspace
    BY DEF Acks!PutRecord
  <1>2. Acks!AddPending(r, c, id) \in Acks!Keyspace
    BY DEF Acks!AddPending
  <1>3. Acks!ClearAggregates(r, c) \in Acks!Keyspace
    BY DEF Acks!ClearAggregates, Acks!NoResults
  <1>4. Acks!Expire(r, id) \in Acks!Keyspace
    BY DEF Acks!Expire
  <1> QED
    BY <1>1, <1>2, <1>3, <1>4

\* Bookkeeping of a result keeps the shape of the aggregates.
LEMMA PutResultType ==
    ASSUME NEW r \in Acks!Keyspace, NEW id \in Ids, NEW c \in Clients,
           NEW t \in Targets, NEW result \in {"success", "error"}
    PROVE  Acks!PutResult(r, c, t, result, id) \in Acks!Keyspace
  <1> USE DEF Acks!Keyspace, Acks!Result
  <1>1. [r.index EXCEPT ![c] = @ \ {id}] \in [Clients -> SUBSET Ids]
    OBVIOUS
  <1>2. [r.results EXCEPT ![c][t] = result]
           \in [Clients -> [Targets -> {"success", "error"} \cup {"none"}]]
    OBVIOUS
  <1> QED
    BY <1>1, <1>2 DEF Acks!PutResult

\* Results add up to one of three statuses.
LEMMA AggregateType ==
    ASSUME NEW results
    PROVE  Acks!AggregateFinalStatus(results) \in {"success", "partial", "error"}
  BY DEF Acks!AggregateFinalStatus
-----------------------------------------------------------------------------
(***************************************************************************)
(* What steps that do not touch them leave of the parts of the invariant   *)
(***************************************************************************)

\* PassKnows only depends on the passes and on what was published.
LEMMA PassFrame ==
    ASSUME PassKnows, UNCHANGED <<events, syncPc, work, sending>>
    PROVE  PassKnows'
  BY DEF PassKnows, EventIds, ClientOf

\* MailIsReal stays while the mail does and the handler takes nothing new in hand.
LEMMA MailFrame ==
    ASSUME MailIsReal, UNCHANGED <<events, mailbox, inbox, answered>>,
           handlerPc' # "idle" => handlerPc # "idle" /\ handled' = handled
    PROVE  MailIsReal'
  BY DEF MailIsReal, EventIds

\* The tables stay, or a step only resets rows to pending.
LEMMA RowsFrame ==
    ASSUME RowsAreReal, UNCHANGED <<events, db>>, answered \subseteq answered'
    PROVE  RowsAreReal'
  BY DEF RowsAreReal, RowsHaveCredential, VerdictIsWitnessed, Sent, EventIds,
         ClientOf, TargetOf

\* A callback that opens rows again takes verdicts away and gives none.
LEMMA RowsReset ==
    ASSUME RowsAreReal, RowsHaveCredential', UNCHANGED <<events, answered>>,
           \A c \in Clients, t \in Targets :
              db'.status[c][t] \in {"pending", db.status[c][t]}
    PROVE  RowsAreReal'
  BY DEF RowsAreReal, VerdictIsWitnessed, Terminal, Sent, EventIds, ClientOf,
         TargetOf

\* An event is for a target and about a client.
LEMMA EventType ==
    ASSUME TypeOK, NEW id \in EventIds
    PROVE  events[id] \in Event /\ ClientOf(id) \in Clients /\ TargetOf(id) \in Targets
  <1>1. events \in Seq(Event) /\ id \in 1..Len(events)
    BY LenProperties DEF TypeOK, EventIds
  <1>2. events[id] \in Event
    BY <1>1, ElementOfSeq
  <1> QED
    BY <1>2 DEF ClientOf, TargetOf, Event

\* A mark with an event in hand, and a verdict that its target gave.
LEMMA RowsMarked ==
    ASSUME IInv, NEW id \in EventIds, NEW st \in {"sent", "success", "error"},
           db' = Mark(db, ClientOf(id), TargetOf(id), st),
           st # "sent" => id \in answered /\ st = VerdictOf(id),
           UNCHANGED <<events, answered>>
    PROVE  RowsAreReal' /\ db' \in Tables
  <1>1. ClientOf(id) \in Clients /\ TargetOf(id) \in Targets
    BY EventType DEF IInv
  <1>2. db \in Tables /\ st \in RowStatus
    BY DEF IInv, TypeOK, RowStatus
  <1>3. /\ db' \in Tables
        /\ db'.plain = db.plain
        /\ \A c \in Clients, t \in Targets :
              db'.status[c][t] =
                 IF /\ c = ClientOf(id) /\ t = TargetOf(id)
                    /\ db.status[ClientOf(id)][TargetOf(id)] # "none"
                 THEN st ELSE db.status[c][t]
    BY <1>1, <1>2, MarkProperties
  <1>4. \A c \in Clients, t \in Targets : Sent(c, t)' = Sent(c, t)
    BY DEF Sent, EventIds, ClientOf, TargetOf
  <1>5. id \in Sent(ClientOf(id), TargetOf(id))
    BY DEF Sent
  <1>6. RowsHaveCredential'
    BY <1>3 DEF IInv, RowsAreReal, RowsHaveCredential
  <1>8. VerdictIsWitnessed'
    <2> SUFFICES ASSUME NEW c \in Clients, NEW t \in Targets,
                        db'.status[c][t] \in Terminal
                 PROVE  /\ Sent(c, t) \cap answered # {}
                        /\ (db'.status[c][t] = "error") = (t \in Refusing)
      BY <1>4 DEF VerdictIsWitnessed
    <2>1. CASE db'.status[c][t] = db.status[c][t]
      BY <2>1 DEF IInv, RowsAreReal, VerdictIsWitnessed
    <2>2. CASE c = ClientOf(id) /\ t = TargetOf(id) /\ db'.status[c][t] = st
      <3>1. id \in Sent(c, t) \cap answered
        BY <1>5, <2>2 DEF Terminal
      <3>2. (st = "error") = (t \in Refusing)
        BY <2>2 DEF Terminal, VerdictOf
      <3> QED
        BY <2>2, <3>1, <3>2
    <2> QED
      BY <1>3, <2>1, <2>2
  <1> QED
    BY <1>3, <1>6, <1>8 DEF RowsAreReal

\* The broker takes one event more.
LEMMA EventsGrow ==
    ASSUME IInv, NEW s \in Syncers, NEW t \in work[s].targets,
           syncPc[s] = "publish", Enqueue(s, t),
           UNCHANGED <<db, inbox, answered, handlerPc, handled>>
    PROVE  /\ events' \in Seq(Event) /\ mailbox' \in [Targets -> Seq(Ids)]
           /\ EventIds' = EventIds \cup {Len(events) + 1}
           /\ Len(events) + 1 \in Ids
           /\ \A id \in EventIds : events'[id] = events[id]
           /\ events'[Len(events) + 1].client = work[s].client
           /\ RowsAreReal' /\ MailIsReal'
  <1> DEFINE e == [client |-> work[s].client, target |-> t,
                   secret |-> work[s].plain]
             n == Len(events)
  <1>1. e \in Event /\ t \in Targets
    BY DEF IInv, PassKnows, AtTarget, Propagation, Event
  <1>2. events \in Seq(Event) /\ n \in Nat /\ n < MaxEvents /\ MaxEvents \in Nat
    BY SourceAssumption DEF IInv, TypeOK, Enqueue
  <1>3. /\ events' \in Seq(Event)
        /\ Len(events') = n + 1
        /\ \A id \in 1..n : events'[id] = events[id]
        /\ events'[n + 1] = e
    BY <1>1, <1>2, AppendProperties DEF Enqueue
  <1>4. EventIds = 1..n /\ EventIds' = 1..(n + 1) /\ n + 1 \in Ids
    BY <1>2, <1>3, LenProperties DEF EventIds, Ids
  <1>5. EventIds' = EventIds \cup {n + 1}
    BY <1>2, <1>4
  <1>6. \A c \in Clients, u \in Targets : Sent(c, u) \subseteq Sent(c, u)'
    BY <1>3, <1>4, <1>5 DEF Sent, ClientOf, TargetOf
  <1>7. RowsAreReal'
    BY <1>6 DEF IInv, RowsAreReal, RowsHaveCredential, VerdictIsWitnessed
  <1>8. mailbox \in [Targets -> Seq(Ids)]
    BY DEF IInv, TypeOK
  <1>9. /\ mailbox' \in [Targets -> Seq(Ids)]
        /\ \A u \in Targets : \A i \in DOMAIN mailbox'[u] :
              mailbox'[u][i] \in EventIds \cup {n + 1}
    <2>1. /\ Append(mailbox[t], n + 1) \in Seq(Ids)
          /\ \A i \in DOMAIN Append(mailbox[t], n + 1) :
                Append(mailbox[t], n + 1)[i] \in EventIds \cup {n + 1}
      <3>1. mailbox[t] \in Seq(Ids)
        BY <1>1, <1>8
      <3>2. \A i \in 1..Len(mailbox[t]) : mailbox[t][i] \in EventIds
        BY <1>1, <3>1, LenProperties DEF IInv, MailIsReal
      <3> QED
        BY <1>4, <3>1, <3>2, AppendProperties, LenProperties
    <2>2. mailbox' = [mailbox EXCEPT ![t] = Append(mailbox[t], n + 1)]
      BY DEF Enqueue
    <2> QED
      BY <1>1, <1>8, <2>1, <2>2 DEF IInv, MailIsReal
  <1>10. MailIsReal'
    BY <1>2, <1>3, <1>5, <1>9 DEF IInv, MailIsReal
  <1> QED
    BY <1>3, <1>4, <1>5, <1>7, <1>9, <1>10
-----------------------------------------------------------------------------
(***************************************************************************)
(* The steps of an operation                                               *)
(***************************************************************************)

\* Nothing was published, answered or marked at first.
LEMMA InitInv == Init => IInv
  <1> SUFFICES ASSUME Init
               PROVE  IInv
    OBVIOUS
  <1> USE SourceAssumption DEF Init
  <1>1. <<>> \in Seq(Ids) /\ <<>> \in Seq(Event) /\ Len(<<>>) = 0 /\ DOMAIN <<>> = {}
    OBVIOUS
  <1>2. EmptyTables \in Tables /\ Acks!EmptyKeyspace \in Acks!Keyspace
    BY DEF EmptyTables, Tables, RowStatus, Acks!EmptyKeyspace, Acks!Keyspace,
           Acks!NoResults, Acks!Result
  <1>3. TypeOK
    BY <1>1, <1>2 DEF TypeOK, NothingPast, Pasts
  <1>4. PassKnows /\ MailIsReal
    BY <1>1 DEF PassKnows, MailIsReal, AtTarget, AfterPublish
  <1>5. RowsAreReal
    BY DEF RowsAreReal, RowsHaveCredential, VerdictIsWitnessed, EmptyTables,
           Terminal
  <1> QED
    BY <1>3, <1>4, <1>5 DEF IInv

\* Calling ensure, rotate or revoke only begins an operation.
LEMMA RequestInv ==
    ASSUME IInv, NEW o \in Ops, NEW kind \in Kinds, NEW c \in Clients,
           NEW targets \in SUBSET Targets, Request(o, kind, c, targets)
    PROVE  IInv'
  <1>1. TypeOK'
    <2>1. [kind |-> kind, client |-> c, targets |-> targets] \in Asks
      BY DEF Asks
    <2>2. [kind |-> kind, client |-> c, targets |-> targets] # NoAsk
      BY SourceAssumption DEF NoAsk, AllKinds
    <2> QED
      BY <2>1, <2>2 DEF IInv, TypeOK, Request, syncVars, handlerVars, brokerVars,
                        history
  <1> QED
    BY <1>1, PassFrame, MailFrame, RowsFrame
       DEF IInv, Request, syncVars, handlerVars, brokerVars, history

\* The callback of an operation opens rows: none becomes sent or terminal.
LEMMA CommitInv ==
    ASSUME IInv, NEW o \in Ops, Commit(o), past' \in Pasts
    PROVE  IInv'
  <1> DEFINE c == ask[o].client
  <1>1. ask[o] \in Asks
    BY DEF IInv, TypeOK, Commit
  <1>2. c \in Clients /\ ask[o].targets \in SUBSET Targets
    BY <1>1 DEF Asks
  <1>3. PlainOf(o) \in Ops \cup {NoPlain} /\ db \in Tables
    BY DEF PlainOf, IInv, TypeOK
  <1>4. /\ db' \in Tables
        /\ \A x \in Clients, y \in Targets :
              db'.status[x][y] \in {"pending", db.status[x][y]}
        /\ RowsHaveCredential'
    <2>1. CASE ask[o].kind = "rotate"
      <3>1. db' = Rotate(db, c, PlainOf(o))
        BY <2>1 DEF Commit
      <3>2. RowsHaveCredential'
        <4>1. RowsOf(db, c) \in SUBSET Targets
          BY DEF RowsOf
        <4>2. PlainOf(o) # NoRow
          BY <1>3, SourceAssumption
        <4>3. CASE db.plain[c] = NoRow
          BY <3>1, <4>3 DEF Rotate, IInv, RowsAreReal, RowsHaveCredential
        <4>4. CASE db.plain[c] # NoRow
          <5>1. db' = Upsert(db, c, PlainOf(o), RowsOf(db, c))
            BY <3>1, <4>4 DEF Rotate
          <5>2. /\ \A x \in Clients :
                      db'.plain[x] = IF x = c THEN PlainOf(o) ELSE db.plain[x]
                /\ \A x \in Clients \ {c}, y \in Targets :
                      db'.status[x][y] = db.status[x][y]
            BY <1>2, <1>3, <4>1, <5>1, UpsertProperties
          <5> QED
            BY <4>2, <5>2 DEF IInv, RowsAreReal, RowsHaveCredential
        <4> QED
          BY <4>3, <4>4
      <3>3. /\ db' \in Tables
            /\ \A x \in Clients, y \in Targets :
                  db'.status[x][y] \in {"pending", db.status[x][y]}
        BY <1>2, <1>3, <3>1, RotateProperties
      <3> QED
        BY <3>1, <3>2, <3>3
    <2>2. CASE ask[o].kind # "rotate"
      <3>1. db' = Upsert(db, c, PlainOf(o), ask[o].targets)
        BY <2>2 DEF Commit
      <3>2. PlainOf(o) # NoRow
        BY <1>3, SourceAssumption
      <3>3. /\ db' \in Tables
            /\ \A x \in Clients :
                  db'.plain[x] = IF x = c THEN PlainOf(o) ELSE db.plain[x]
            /\ \A x \in Clients, y \in Targets :
                  db'.status[x][y] =
                     IF x = c /\ y \in ask[o].targets THEN "pending" ELSE db.status[x][y]
        BY <1>2, <1>3, <3>1, UpsertProperties
      <3>4. RowsHaveCredential'
        BY <3>2, <3>3 DEF IInv, RowsAreReal, RowsHaveCredential
      <3> QED
        BY <3>3, <3>4
    <2> QED
      BY <2>1, <2>2
  <1>5. TypeOK'
    <2>1. /\ wish' = [wish EXCEPT ![c] = o]
          /\ due' = [due EXCEPT ![c] = [t \in Targets |->
                        IF t \in Owed(o) \cup PendingTargets(db, c)
                        THEN o ELSE due[c][t]]]
          /\ opPc' = [opPc EXCEPT ![o] = "local"]
          /\ opPc[o] = "commit"
      BY DEF Commit
    <2>2. [t \in Targets |-> IF t \in Owed(o) \cup PendingTargets(db, c)
                             THEN o ELSE due[c][t]]
             \in [Targets -> Ops \cup {NoRow}]
      BY <1>2 DEF IInv, TypeOK
    <2>3. due' \in [Clients -> [Targets -> Ops \cup {NoRow}]]
      BY <1>2, <2>1, <2>2 DEF IInv, TypeOK
    <2> QED
      BY <1>2, <1>4, <2>1, <2>3
         DEF IInv, TypeOK, Commit, syncVars, handlerVars, brokerVars
  <1>6. RowsAreReal'
    BY <1>4, RowsReset DEF IInv, Commit, brokerVars
  <1> QED
    BY <1>5, <1>6, PassFrame, MailFrame
       DEF IInv, Commit, syncVars, handlerVars, brokerVars

\* The local store is none of the three parts of the invariant.
LEMMA ApplyOperationInv ==
    ASSUME IInv, NEW o \in Ops, ApplyOperation(o)
    PROVE  IInv'
  <1>1. ask[o] \in Asks
    BY DEF IInv, TypeOK, ApplyOperation
  <1>2. LocalAfter(o) \in Ops \cup {Absent}
    BY DEF LocalAfter
  <1>3. TypeOK'
    BY <1>1, <1>2 DEF IInv, TypeOK, ApplyOperation, Asks, syncVars, handlerVars,
                      brokerVars, history
  <1> QED
    BY <1>3, PassFrame, MailFrame, RowsFrame
       DEF IInv, ApplyOperation, syncVars, handlerVars, brokerVars, history

\* Nor is an exception in an operation.
LEMMA OperationFailsInv ==
    ASSUME IInv, NEW o \in Ops, OperationFails(o), past' \in Pasts
    PROVE  IInv'
  <1>1. TypeOK'
    BY SourceAssumption
       DEF IInv, TypeOK, OperationFails, Fault, syncVars, handlerVars, brokerVars,
           history
  <1> QED
    BY <1>1, PassFrame, MailFrame, RowsFrame
       DEF IInv, OperationFails, syncVars, handlerVars, brokerVars, history
-----------------------------------------------------------------------------
(***************************************************************************)
(* The steps of a pass                                                     *)
(***************************************************************************)

\* Going on with a propagation, or with the next one.
LEMMA GoOnType ==
    ASSUME IInv, NEW s \in Syncers, NEW targets \in SUBSET Targets,
           work[s] \in Propagation, GoOn(s, targets),
           EventIds \subseteq EventIds',
           \A id \in EventIds : events'[id] = events[id]
    PROVE  /\ syncPc' \in [Syncers -> {"idle", "apply", "publish", "record",
                                      "index", "mark"}]
           /\ work' \in [Syncers -> Propagation \cup {None}]
           /\ sending' \in [Syncers -> Ids \cup {None}]
           /\ PassKnows'
  <1> DEFINE left == [work[s] EXCEPT !.targets = targets]
  <1>1. left \in Propagation /\ left.client = work[s].client
    BY DEF Propagation
  <1>2. CASE targets # {}
    <2>1. /\ syncPc' = [syncPc EXCEPT ![s] = "publish"]
          /\ work' = [work EXCEPT ![s] = left]
          /\ sending' = [sending EXCEPT ![s] = None]
      BY <1>2 DEF GoOn
    <2> HIDE DEF left
    <2> QED
      BY <1>1, <2>1
         DEF IInv, TypeOK, PassKnows, AtTarget, AfterPublish, ClientOf
  <1>3. CASE targets = {}
    <2>1. /\ syncPc' = [syncPc EXCEPT ![s] = IF todo[s] = {} THEN "idle" ELSE "apply"]
          /\ work' = [work EXCEPT ![s] = None]
          /\ sending' = [sending EXCEPT ![s] = None]
      BY <1>3 DEF GoOn
    <2> QED
      BY <2>1
         DEF IInv, TypeOK, PassKnows, AtTarget, AfterPublish, ClientOf
  <1> QED
    BY <1>2, <1>3

\* A pass starts without an event in hand.
LEMMA FetchInv ==
    ASSUME IInv, NEW s \in Syncers, Fetch(s), past' \in Pasts
    PROVE  IInv'
  <1>1. PendingPropagations(db) \in SUBSET Propagation
    <2> SUFFICES ASSUME NEW p \in PendingPropagations(db)
                 PROVE  p \in Propagation
      OBVIOUS
    <2>1. PICK c \in Clients :
             /\ PendingTargets(db, c) # {}
             /\ p = [client |-> c, plain |-> db.plain[c],
                     targets |-> PendingTargets(db, c)]
      BY DEF PendingPropagations
    <2>2. db.plain[c] \in Ops \cup {NoPlain}
      BY <2>1 DEF PendingTargets, IInv, TypeOK, Tables, RowsAreReal,
                  RowsHaveCredential
    <2> QED
      BY <2>1, <2>2 DEF PendingTargets, Propagation
  <1>2. TypeOK'
    BY <1>1 DEF IInv, TypeOK, Fetch, opVars, handlerVars, brokerVars, history
  <1>3. PassKnows'
    BY DEF IInv, TypeOK, PassKnows, AtTarget, AfterPublish, Fetch, EventIds,
           ClientOf, brokerVars
  <1> QED
    BY <1>2, <1>3, MailFrame, RowsFrame
       DEF IInv, Fetch, opVars, handlerVars, brokerVars, history

\* The pass goes on to its targets.
LEMMA ApplyLocalInv ==
    ASSUME IInv, NEW s \in Syncers, ApplyLocal(s)
    PROVE  IInv'
  <1>1. PICK p \in todo[s] :
           /\ todo' = [todo EXCEPT ![s] = @ \ {p}]
           /\ work' = [work EXCEPT ![s] = p]
           /\ local' = [local EXCEPT ![p.client] =
                           IF p.plain = NoPlain THEN Absent ELSE p.plain]
    BY DEF ApplyLocal
  <1>2. p \in Propagation
    BY DEF IInv, TypeOK
  <1>3. p.client \in Clients /\ p.plain \in Ops \cup {NoPlain}
    BY <1>2 DEF Propagation
  <1>4. TypeOK'
    BY <1>1, <1>2, <1>3
       DEF IInv, TypeOK, ApplyLocal, opVars, handlerVars, brokerVars, history
  <1>5. PassKnows'
    BY <1>1, <1>2 DEF IInv, TypeOK, PassKnows, AtTarget, AfterPublish, ApplyLocal,
                      EventIds, ClientOf, brokerVars
  <1> QED
    BY <1>4, <1>5, MailFrame, RowsFrame
       DEF IInv, ApplyLocal, opVars, handlerVars, brokerVars, history

\* The pass ends.
LEMMA ApplyLocalFailsInv ==
    ASSUME IInv, NEW s \in Syncers, ApplyLocalFails(s), past' \in Pasts
    PROVE  IInv'
  <1>1. TypeOK'
    BY SourceAssumption DEF IInv, TypeOK, ApplyLocalFails, Fault, opVars,
                            handlerVars, brokerVars, history
  <1>2. PassKnows'
    BY DEF IInv, TypeOK, PassKnows, AtTarget, AfterPublish, ApplyLocalFails,
           EventIds, ClientOf, brokerVars
  <1> QED
    BY <1>1, <1>2, MailFrame, RowsFrame
       DEF IInv, ApplyLocalFails, opVars, handlerVars, brokerVars, history

\* The broker has the event that the pass takes in hand.
LEMMA PublishInv ==
    ASSUME IInv, NEW s \in Syncers, Publish(s)
    PROVE  IInv'
  <1>1. PICK t \in work[s].targets :
           /\ Enqueue(s, t)
           /\ work' = [work EXCEPT ![s].targets = @ \ {t}]
    BY DEF Publish
  <1> DEFINE n == Len(events) + 1
             left == [work[s] EXCEPT !.targets = work[s].targets \ {t}]
  <1>2. work[s] \in Propagation
    BY DEF IInv, PassKnows, AtTarget, Publish
  <1>3. left \in Propagation /\ left.client = work[s].client
    BY <1>2 DEF Propagation
  <1>4. /\ events' \in Seq(Event) /\ mailbox' \in [Targets -> Seq(Ids)]
        /\ EventIds' = EventIds \cup {n}
        /\ n \in Ids
        /\ \A id \in EventIds : events'[id] = events[id]
        /\ events'[n].client = work[s].client
        /\ RowsAreReal' /\ MailIsReal'
    BY <1>1, EventsGrow DEF Publish, handlerVars, history
  <1>5. /\ work' = [work EXCEPT ![s] = left]
        /\ sending' = [sending EXCEPT ![s] = n]
        /\ syncPc' = [syncPc EXCEPT ![s] = "record"]
    BY <1>1 DEF Publish
  <1> HIDE DEF n, left
  <1>6. TypeOK'
    <2>1. UNCHANGED <<opPc, ask, todo, handlerPc, handled, db, redis, local, inbox,
                      faults, wish, due, final, answered, counted, past>>
      BY DEF Publish, opVars, handlerVars, history
    <2> QED
      BY <1>3, <1>4, <1>5, <2>1 DEF IInv, TypeOK
  <1>7. PassKnows'
    BY <1>3, <1>4, <1>5
       DEF IInv, TypeOK, PassKnows, AtTarget, AfterPublish, ClientOf
  <1> QED
    BY <1>4, <1>6, <1>7 DEF IInv

\* HSET: the record names an event the broker has.
LEMMA RecordInv ==
    ASSUME IInv, NEW s \in Syncers, Record(s) \/ Index(s)
    PROVE  IInv'
  <1>1. /\ sending[s] \in EventIds /\ ClientOf(sending[s]) = work[s].client
        /\ work[s].client \in Clients
        /\ sending[s] \in Ids
    <2>1. sending[s] \in EventIds /\ ClientOf(sending[s]) = work[s].client
      BY DEF IInv, PassKnows, AfterPublish, Record, Index
    <2>2. work[s].client \in Clients
      BY <2>1, EventType DEF IInv
    <2>3. EventIds \subseteq Ids
      BY SourceAssumption, LenProperties DEF IInv, TypeOK, MailIsReal, EventIds, Ids
    <2> QED
      BY <2>1, <2>2, <2>3
  <1>2. redis' \in Acks!Keyspace
    <2>1. redis \in Acks!Keyspace
      BY DEF IInv, TypeOK
    <2>2. /\ Acks!PutRecord(redis, sending[s]) \in Acks!Keyspace
          /\ Acks!AddPending(redis, work[s].client, sending[s]) \in Acks!Keyspace
      BY <1>1, <2>1, KeyspaceClosed
    <2> QED
      BY <2>2 DEF Record, Index
  <1>3. TypeOK'
    BY <1>2 DEF IInv, TypeOK, Record, Index, opVars, handlerVars, brokerVars,
                history
  <1>4. PassKnows'
    BY DEF IInv, TypeOK, PassKnows, AtTarget, AfterPublish, Record, Index,
           EventIds, ClientOf, brokerVars
  <1> QED
    BY <1>3, <1>4, MailFrame, RowsFrame
       DEF IInv, Record, Index, opVars, handlerVars, brokerVars, history

\* A row becomes sent while its event is in hand.
LEMMA MarkSentInv ==
    ASSUME IInv, NEW s \in Syncers, MarkSent(s)
    PROVE  IInv'
  <1>1. /\ sending[s] \in EventIds /\ ClientOf(sending[s]) = work[s].client
        /\ work[s] \in Propagation
    BY DEF IInv, PassKnows, AtTarget, AfterPublish, MarkSent
  <1>2. db' = Mark(db, ClientOf(sending[s]), TargetOf(sending[s]), "sent")
    BY <1>1 DEF MarkSent, MarkedSent, TargetOf
  <1>3. RowsAreReal' /\ db' \in Tables
    BY <1>1, <1>2, RowsMarked DEF MarkSent, brokerVars, history
  <1>4. work[s].targets \in SUBSET Targets
    BY <1>1 DEF Propagation
  <1>5. /\ syncPc' \in [Syncers -> {"idle", "apply", "publish", "record",
                                    "index", "mark"}]
        /\ work' \in [Syncers -> Propagation \cup {None}]
        /\ sending' \in [Syncers -> Ids \cup {None}]
        /\ PassKnows'
    BY <1>1, <1>4, GoOnType DEF MarkSent, EventIds, brokerVars
  <1>6. TypeOK'
    BY <1>3, <1>5 DEF IInv, TypeOK, MarkSent, opVars, handlerVars, brokerVars,
                      history
  <1> QED
    BY <1>3, <1>5, <1>6, MailFrame
       DEF IInv, MarkSent, opVars, handlerVars, brokerVars, history

\* A publish that fails, whether or not the broker has the event.
LEMMA PublishFailsInv ==
    ASSUME IInv, NEW s \in Syncers, PublishFails(s), past' \in Pasts
    PROVE  IInv'
  <1>1. PICK t \in work[s].targets :
           /\ \/ Fault("publish") /\ UNCHANGED <<events, mailbox>>
              \/ Fault("unconfirmed") /\ Enqueue(s, t)
           /\ GoOn(s, work[s].targets \ {t})
    BY DEF PublishFails
  <1> DEFINE rest == work[s].targets \ {t}
  <1>2. /\ work[s] \in Propagation /\ rest \in SUBSET Targets
        /\ syncPc[s] = "publish"
    BY DEF IInv, PassKnows, AtTarget, PublishFails, Propagation
  <1>3. UNCHANGED <<opPc, ask, todo, handlerPc, handled, db, redis, local, inbox,
                    wish, due, final, answered, counted>>
    BY DEF PublishFails, opVars, handlerVars, history
  <1>4. faults' \in 0..MaxFaults
    BY <1>1, SourceAssumption DEF Fault, IInv, TypeOK
  <1>5. /\ events' \in Seq(Event) /\ mailbox' \in [Targets -> Seq(Ids)]
        /\ EventIds \subseteq EventIds'
        /\ \A id \in EventIds : events'[id] = events[id]
        /\ RowsAreReal' /\ MailIsReal'
    <2>1. CASE UNCHANGED <<events, mailbox>>
      BY <1>3, <2>1, MailFrame, RowsFrame DEF IInv, TypeOK, EventIds
    <2>2. CASE Enqueue(s, t)
      BY <1>2, <1>3, <2>2, EventsGrow
    <2> QED
      BY <1>1, <2>1, <2>2
  <1>6. /\ syncPc' \in [Syncers -> {"idle", "apply", "publish", "record",
                                    "index", "mark"}]
        /\ work' \in [Syncers -> Propagation \cup {None}]
        /\ sending' \in [Syncers -> Ids \cup {None}]
        /\ PassKnows'
    <2>1. GoOn(s, rest)
      BY <1>1
    <2> HIDE DEF rest
    <2> QED
      BY <1>2, <1>5, <2>1, GoOnType
  <1>7. TypeOK'
    BY <1>3, <1>4, <1>5, <1>6 DEF IInv, TypeOK
  <1> QED
    BY <1>5, <1>6, <1>7 DEF IInv

\* A later call for the same target fails.
LEMMA BookkeepingFailsInv ==
    ASSUME IInv, NEW s \in Syncers, BookkeepingFails(s), past' \in Pasts
    PROVE  IInv'
  <1>1. work[s] \in Propagation /\ work[s].targets \in SUBSET Targets
    BY DEF IInv, PassKnows, AtTarget, BookkeepingFails, Propagation
  <1>2. UNCHANGED <<opPc, ask, todo, handlerPc, handled, db, redis, local, events,
                    mailbox, inbox, wish, due, final, answered, counted>>
    BY DEF BookkeepingFails, opVars, handlerVars, brokerVars, history
  <1>3. faults' \in 0..MaxFaults
    BY SourceAssumption DEF BookkeepingFails, Fault, IInv, TypeOK
  <1>4. /\ syncPc' \in [Syncers -> {"idle", "apply", "publish", "record",
                                    "index", "mark"}]
        /\ work' \in [Syncers -> Propagation \cup {None}]
        /\ sending' \in [Syncers -> Ids \cup {None}]
        /\ PassKnows'
    BY <1>1, <1>2, GoOnType DEF BookkeepingFails, EventIds
  <1>5. TypeOK'
    BY <1>2, <1>3, <1>4 DEF IInv, TypeOK
  <1> QED
    BY <1>2, <1>4, <1>5, MailFrame, RowsFrame DEF IInv
-----------------------------------------------------------------------------
(***************************************************************************)
(* The acknowledgement handler                                             *)
(***************************************************************************)

\* The handler takes an answer that the target gave.
LEMMA TakeAckInv ==
    ASSUME IInv, TakeAck
    PROVE  IInv'
  <1>1. inbox \in Seq(Ids) /\ inbox # <<>> /\ inbox' = Tail(inbox) /\ handled' = Head(inbox)
    BY DEF IInv, TypeOK, TakeAck
  <1>2. /\ Head(inbox) \in Ids /\ Tail(inbox) \in Seq(Ids)
        /\ Head(inbox) = inbox[1] /\ 1 \in DOMAIN inbox
        /\ \A i \in DOMAIN Tail(inbox) :
              i + 1 \in DOMAIN inbox /\ Tail(inbox)[i] = inbox[i + 1]
    <2>1. Len(inbox) \in Nat \ {0} /\ DOMAIN inbox = 1..Len(inbox)
      BY <1>1, EmptySeq, LenProperties
    <2>2. /\ Head(inbox) \in Ids /\ Tail(inbox) \in Seq(Ids)
          /\ Len(Tail(inbox)) = Len(inbox) - 1
          /\ \A i \in 1..Len(Tail(inbox)) : Tail(inbox)[i] = inbox[i + 1]
      BY <1>1, HeadTailProperties
    <2>3. DOMAIN Tail(inbox) = 1..Len(Tail(inbox))
      BY <2>2, LenProperties
    <2> QED
      BY <1>1, <2>1, <2>2, <2>3
  <1>3. TypeOK'
    BY <1>1, <1>2, SourceAssumption
       DEF IInv, TypeOK, TakeAck, opVars, syncVars, history
  <1>4. MailIsReal'
    BY <1>1, <1>2 DEF IInv, MailIsReal, TakeAck, EventIds, history
  <1> QED
    BY <1>3, <1>4, PassFrame, RowsFrame DEF IInv, TakeAck, syncVars, history

\* The handler returns and the message is settled.
LEMMA FinishInv ==
    ASSUME IInv, Finish, faults' \in 0..MaxFaults, redis' \in Acks!Keyspace,
           UNCHANGED <<opVars, syncVars, db, local, brokerVars, history>>
    PROVE  IInv'
  <1> USE DEF Finish, opVars, syncVars, brokerVars, history
  <1>1. TypeOK'
    BY DEF IInv, TypeOK
  <1> QED
    BY <1>1, PassFrame, MailFrame, RowsFrame DEF IInv

\* In the middle of an acknowledgement, what is handled is an event.
LEMMA HandledIsEvent ==
    ASSUME IInv, handlerPc # "idle"
    PROVE  /\ handled \in answered /\ handled \in EventIds /\ handled \in Ids
           /\ ClientOf(handled) \in Clients /\ TargetOf(handled) \in Targets
           /\ VerdictOf(handled) \in {"success", "error"}
  <1>1. handled \in answered /\ handled \in EventIds /\ handled \in Ids
    BY DEF IInv, TypeOK, MailIsReal
  <1>2. ClientOf(handled) \in Clients /\ TargetOf(handled) \in Targets
    BY <1>1, EventType DEF IInv
  <1> QED
    BY <1>1, <1>2 DEF VerdictOf

\* The handler keeps that answer over the awaits that follow.
LEMMA RecordResultInv ==
    ASSUME IInv, RecordResult
    PROVE  IInv'
  <1>1. handlerPc = "lookup"
    BY DEF RecordResult
  <1>2. redis' \in Acks!Keyspace
    BY <1>1, HandledIsEvent, PutResultType DEF RecordResult, IInv, TypeOK
  <1>3. TypeOK'
    BY <1>1, <1>2, HandledIsEvent
       DEF IInv, TypeOK, RecordResult, opVars, syncVars, brokerVars
  <1> QED
    BY <1>1, <1>3, PassFrame, MailFrame, RowsFrame
       DEF IInv, RecordResult, opVars, syncVars, brokerVars

\* A row gets the verdict of the answer in hand.
LEMMA MarkResultInv ==
    ASSUME IInv, MarkResult
    PROVE  IInv'
  <1>1. handlerPc = "mark"
    BY DEF MarkResult
  <1>2. RowsAreReal' /\ db' \in Tables
    BY <1>1, HandledIsEvent, RowsMarked DEF MarkResult, brokerVars, history
  <1>3. TypeOK'
    BY <1>1, <1>2 DEF IInv, TypeOK, MarkResult, opVars, syncVars, brokerVars,
                      history
  <1> QED
    BY <1>1, <1>2, <1>3, PassFrame, MailFrame
       DEF IInv, MarkResult, opVars, syncVars, brokerVars, history

\* Counting what is pending changes no row.
LEMMA CountPendingInv ==
    ASSUME IInv, CountPending
    PROVE  IInv'
  <1>1. CASE Finish
    BY <1>1, FinishInv DEF CountPending, IInv, TypeOK
  <1>2. CASE handlerPc' = "finalize" /\ UNCHANGED handled
    <2>1. TypeOK'
      BY <1>2 DEF IInv, TypeOK, CountPending, opVars, syncVars, brokerVars, history
    <2> QED
      BY <1>2, <2>1, PassFrame, MailFrame, RowsFrame
         DEF IInv, CountPending, syncVars, brokerVars, history
  <1> QED
    BY <1>1, <1>2 DEF CountPending

\* Neither does erasing the plain secret.
LEMMA FinalizeInv ==
    ASSUME IInv, Finalize, past' \in Pasts
    PROVE  IInv'
  <1>1. handlerPc = "finalize"
    BY DEF Finalize
  <1>2. db' \in Tables /\ db'.status = db.status
    BY <1>1, HandledIsEvent, ClearPlainProperties DEF Finalize, IInv, TypeOK
  <1>3. RowsHaveCredential'
    BY <1>1, HandledIsEvent, SourceAssumption
       DEF Finalize, ClearPlain, IInv, TypeOK, Tables, RowsAreReal,
           RowsHaveCredential
  <1>4. RowsAreReal'
    BY <1>2, <1>3, RowsReset DEF IInv, Finalize, brokerVars
  <1>5. TypeOK'
    <2>1. final' \in [Clients -> {"none", "success", "partial", "error"}]
      BY AggregateType DEF Finalize, IInv, TypeOK
    <2> QED
      BY <1>1, <1>2, <2>1 DEF IInv, TypeOK, Finalize, opVars, syncVars, brokerVars
  <1> QED
    BY <1>1, <1>4, <1>5, PassFrame, MailFrame
       DEF IInv, Finalize, opVars, syncVars, brokerVars

\* The last step of the handler settles the answer.
LEMMA ClearInv ==
    ASSUME IInv, Clear
    PROVE  IInv'
  <1>1. handlerPc = "clear"
    BY DEF Clear
  <1>2. redis' \in Acks!Keyspace
    BY <1>1, HandledIsEvent, KeyspaceClosed DEF Clear, IInv, TypeOK
  <1> QED
    BY <1>2, FinishInv DEF Clear, IInv, TypeOK

\* An answer to an event Redis does not know is settled.
LEMMA DropUnknownInv ==
    ASSUME IInv, DropUnknown
    PROVE  IInv'
  BY FinishInv DEF DropUnknown, IInv, TypeOK

\* A callback that throws has its message acknowledged.
LEMMA CallbackFailsInv ==
    ASSUME IInv, CallbackFails
    PROVE  IInv'
  <1>1. faults' \in 0..MaxFaults
    BY SourceAssumption DEF CallbackFails, Fault, IInv, TypeOK
  <1> QED
    BY <1>1, FinishInv DEF CallbackFails, IInv, TypeOK

\* A message that was in hand is put back at the head.
LEMMA PutBack ==
    ASSUME IInv, handlerPc # "idle"
    PROVE  /\ <<handled>> \o inbox \in Seq(Ids)
           /\ \A i \in DOMAIN (<<handled>> \o inbox) :
                 (<<handled>> \o inbox)[i] \in answered
  <1>1. handled \in Ids /\ handled \in answered /\ inbox \in Seq(Ids)
    BY HandledIsEvent DEF IInv, TypeOK
  <1>2. <<handled>> \in Seq(Ids) /\ Len(<<handled>>) = 1 /\ <<handled>>[1] = handled
    BY <1>1
  <1>3. Len(inbox) \in Nat /\ DOMAIN inbox = 1..Len(inbox)
    BY <1>1, LenProperties
  <1>4. /\ <<handled>> \o inbox \in Seq(Ids)
        /\ Len(<<handled>> \o inbox) = 1 + Len(inbox)
        /\ \A i \in 1..(1 + Len(inbox)) : (<<handled>> \o inbox)[i] =
              IF i <= 1 THEN <<handled>>[i] ELSE inbox[i - 1]
    BY <1>1, <1>2, ConcatProperties
  <1>5. DOMAIN (<<handled>> \o inbox) = 1..(1 + Len(inbox))
    BY <1>4, LenProperties
  <1>6. \A i \in DOMAIN inbox : inbox[i] \in answered
    BY DEF IInv, MailIsReal
  <1> HIDE DEF IInv
  <1>7. ASSUME NEW i \in 1..(1 + Len(inbox))
        PROVE  (<<handled>> \o inbox)[i] \in answered
    <2>1. CASE i = 1
      BY <1>1, <1>2, <1>3, <1>4, <2>1
    <2>2. CASE i # 1
      <3>1. i - 1 \in DOMAIN inbox /\ ~ (i <= 1)
        BY <1>3, <2>2
      <3> QED
        BY <1>4, <1>6, <3>1
    <2> QED
      BY <2>1, <2>2
  <1> QED
    BY <1>4, <1>5, <1>7

\* A failing Redis puts the answer back.
LEMMA HandlerFailsInv ==
    ASSUME IInv, HandlerFails
    PROVE  IInv'
  <1>1. /\ inbox' = <<handled>> \o inbox
        /\ inbox' \in Seq(Ids)
        /\ \A i \in DOMAIN inbox' : inbox'[i] \in answered
    BY PutBack DEF HandlerFails
  <1>2. faults' \in 0..MaxFaults
    BY SourceAssumption DEF HandlerFails, Fault, IInv, TypeOK
  <1>3. TypeOK'
    BY <1>1, <1>2 DEF IInv, TypeOK, HandlerFails, Finish, opVars, syncVars, history
  <1>4. MailIsReal'
    BY <1>1 DEF IInv, MailIsReal, HandlerFails, Finish, EventIds, history
  <1> QED
    BY <1>3, <1>4, PassFrame, RowsFrame DEF IInv, HandlerFails, syncVars, history
-----------------------------------------------------------------------------
(***************************************************************************)
(* The environment                                                         *)
(***************************************************************************)

\* A target answers an event that the broker has.
LEMMA AnswerInv ==
    ASSUME IInv, NEW t \in Targets, Answer(t)
    PROVE  IInv'
  <1> DEFINE id == Head(mailbox[t])
  <1>1. /\ mailbox[t] \in Seq(Ids) /\ mailbox[t] # <<>>
        /\ \A i \in DOMAIN mailbox[t] : mailbox[t][i] \in EventIds
        /\ mailbox \in [Targets -> Seq(Ids)]
    BY DEF IInv, TypeOK, MailIsReal, Answer
  <1>2. /\ Len(mailbox[t]) \in Nat \ {0}
        /\ DOMAIN mailbox[t] = 1..Len(mailbox[t])
    BY <1>1, EmptySeq, LenProperties
  <1>3. /\ id \in Ids /\ Tail(mailbox[t]) \in Seq(Ids)
        /\ Len(Tail(mailbox[t])) = Len(mailbox[t]) - 1
        /\ \A i \in 1..Len(Tail(mailbox[t])) : Tail(mailbox[t])[i] = mailbox[t][i + 1]
    BY <1>1, HeadTailProperties
  <1>4. id \in EventIds
    BY <1>1, <1>2
  <1>5. \A i \in DOMAIN Tail(mailbox[t]) : Tail(mailbox[t])[i] \in EventIds
    <2>1. DOMAIN Tail(mailbox[t]) = 1..(Len(mailbox[t]) - 1)
      BY <1>3, LenProperties
    <2> QED
      BY <1>1, <1>2, <1>3, <2>1
  <1>6. /\ mailbox' \in [Targets -> Seq(Ids)]
        /\ \A u \in Targets : \A i \in DOMAIN mailbox'[u] : mailbox'[u][i] \in EventIds
    <2>1. \/ mailbox' = mailbox
          \/ mailbox' = [mailbox EXCEPT ![t] = Tail(mailbox[t])]
      BY DEF Answer
    <2>2. \A u \in Targets : \A i \in DOMAIN mailbox[u] : mailbox[u][i] \in EventIds
      BY DEF IInv, MailIsReal
    <2> QED
      BY <1>1, <1>3, <1>5, <2>1, <2>2
  <1>7. /\ inbox' = Append(inbox, id)
        /\ answered' = answered \cup {id}
        /\ UNCHANGED <<opPc, ask, syncPc, todo, work, sending, handlerPc, handled,
                       db, redis, local, events, wish, due, final, counted, past>>
    BY DEF Answer, opVars, syncVars, handlerVars
  <1>8. faults' \in 0..MaxFaults
    BY SourceAssumption DEF Answer, Fault, IInv, TypeOK
  <1> HIDE DEF id
  <1>9. /\ inbox' \in Seq(Ids)
        /\ \A i \in DOMAIN inbox' : inbox'[i] \in answered'
    <2>1. inbox \in Seq(Ids) /\ \A i \in DOMAIN inbox : inbox[i] \in answered
      BY DEF IInv, TypeOK, MailIsReal
    <2>2. /\ Append(inbox, id) \in Seq(Ids)
          /\ Len(Append(inbox, id)) = Len(inbox) + 1
          /\ \A i \in 1..Len(inbox) : Append(inbox, id)[i] = inbox[i]
          /\ Append(inbox, id)[Len(inbox) + 1] = id
      BY <1>3, <2>1, AppendProperties
    <2>3. DOMAIN inbox = 1..Len(inbox) /\ Len(inbox) \in Nat
      BY <2>1, LenProperties
    <2>4. DOMAIN Append(inbox, id) = 1..(Len(inbox) + 1)
      BY <2>2, LenProperties
    <2> QED
      BY <1>7, <2>1, <2>2, <2>3, <2>4
  <1>10. TypeOK'
    BY <1>3, <1>6, <1>7, <1>8, <1>9 DEF IInv, TypeOK
  <1>11. MailIsReal'
    BY <1>4, <1>6, <1>7, <1>9 DEF IInv, MailIsReal, EventIds
  <1> QED
    BY <1>7, <1>10, <1>11, PassFrame, RowsFrame DEF IInv

\* A record that expires takes nothing else along.
LEMMA ExpireInv ==
    ASSUME IInv, NEW id \in Ids, Expire(id), past' \in Pasts
    PROVE  IInv'
  <1>1. redis' \in Acks!Keyspace
    BY DEF Expire, Acks!Expire, Acks!Keyspace, IInv, TypeOK
  <1>2. faults' \in 0..MaxFaults
    BY SourceAssumption DEF Expire, Fault, IInv, TypeOK
  <1>3. TypeOK'
    BY <1>1, <1>2 DEF IInv, TypeOK, Expire, opVars, syncVars, handlerVars,
                      brokerVars, history
  <1> QED
    BY <1>3, PassFrame, MailFrame, RowsFrame
       DEF IInv, Expire, syncVars, handlerVars, brokerVars, history

\* Nor do the aggregates of a client.
LEMMA ExpireAggregateInv ==
    ASSUME IInv, NEW c \in Clients, ExpireAggregate(c)
    PROVE  IInv'
  <1>1. redis' \in Acks!Keyspace
    <2>1. redis \in Acks!Keyspace
      BY DEF IInv, TypeOK
    <2>2. Acks!ExpirePending(redis, c) \in Acks!Keyspace
      BY <2>1 DEF Acks!ExpirePending, Acks!Keyspace
    <2>3. Acks!ExpireResults(redis, c) \in Acks!Keyspace
      BY <2>1 DEF Acks!ExpireResults, Acks!NoResults, Acks!Keyspace
    <2> QED
      BY <2>2, <2>3 DEF ExpireAggregate
  <1>2. faults' \in 0..MaxFaults
    BY SourceAssumption DEF ExpireAggregate, Fault, IInv, TypeOK
  <1>3. TypeOK'
    BY <1>1, <1>2 DEF IInv, TypeOK, ExpireAggregate, opVars, syncVars, handlerVars,
                      brokerVars, history
  <1> QED
    BY <1>3, PassFrame, MailFrame, RowsFrame
       DEF IInv, ExpireAggregate, syncVars, handlerVars, brokerVars, history

\* A crash ends passes, operations and the handler, and keeps the rest.
LEMMA CrashInv ==
    ASSUME IInv, Crash, past' \in Pasts
    PROVE  IInv'
  <1>1. /\ inbox' \in Seq(Ids)
        /\ \A i \in DOMAIN inbox' : inbox'[i] \in answered
    BY PutBack DEF Crash, IInv, TypeOK, MailIsReal
  <1>2. faults' \in 0..MaxFaults
    BY SourceAssumption DEF Crash, Fault, IInv, TypeOK
  <1>3. TypeOK'
    BY <1>1, <1>2 DEF IInv, TypeOK, Crash, Finish, history
  <1>4. PassKnows'
    BY DEF Crash, PassKnows, AtTarget, AfterPublish
  <1>5. MailIsReal'
    BY <1>1 DEF IInv, MailIsReal, Crash, Finish, EventIds, history
  <1> QED
    BY <1>3, <1>4, <1>5, RowsFrame DEF IInv, Crash, history
-----------------------------------------------------------------------------
(***************************************************************************)
(* The theorems                                                            *)
(***************************************************************************)

\* The rows that a pass leaves behind.
LEMMA LeftByType ==
    ASSUME IInv, NEW s \in Syncers
    PROVE  LeftBy(s) \subseteq (Ops \cup {NoRow}) \X Targets
  BY DEF LeftBy, IInv, TypeOK

\* The history keeps its shape.
LEMMA PastType ==
    ASSUME IInv, Next
    PROVE  past' \in Pasts
  <1>1. past \in Pasts
    BY DEF IInv, TypeOK
  <1>2. CASE past' = past
    BY <1>1, <1>2
  <1>3. ASSUME NEW o \in Ops, Commit(o) \/ OperationFails(o)
        PROVE  past' \in Pasts
    <2> DEFINE a == {x \in {o} : \E p \in Ops : ask[p].client = ask[o].client
                                               /\ opPc[p] = "local"}
               b == {x \in {o} : \E s \in Syncers : Holds(s, ask[o].client)}
               d == {x \in {o} : MailOf(ask[o].client) # {}}
               e == {x \in {o} : opPc[x] = "local"}
    <2>1. a \in SUBSET Ops /\ b \in SUBSET Ops /\ d \in SUBSET Ops /\ e \in SUBSET Ops
      OBVIOUS
    <2>2. \/ past' = [past EXCEPT !.overOperation = @ \cup a, !.overPass = @ \cup b,
                                  !.overMail = @ \cup d]
          \/ past' = [past EXCEPT !.halted = @ \cup e]
      BY <1>3 DEF Commit, OperationFails
    <2> HIDE DEF a, b, d, e
    <2> QED
      BY <1>1, <2>1, <2>2 DEF Pasts
  <1>4. ASSUME NEW s \in Syncers, Fetch(s)
        PROVE  past' \in Pasts
    BY <1>1, <1>4 DEF Fetch, Pasts
  <1>5. ASSUME NEW s \in Syncers, ApplyLocalFails(s)
        PROVE  past' \in Pasts
    BY <1>1, <1>5, LeftByType DEF ApplyLocalFails, Pasts
  <1>6. ASSUME NEW s \in Syncers, PublishFails(s)
        PROVE  past' \in Pasts
    <2>1. PICK t \in work[s].targets :
             /\ \/ UNCHANGED events
                \/ Enqueue(s, t)
             /\ past' = [past EXCEPT
                            !.left = @ \cup {<<due[work[s].client][t], t>>},
                            !.torn = @ \cup (DOMAIN events' \ DOMAIN events)]
      BY <1>6 DEF PublishFails
    <2>2. work[s] \in Propagation /\ t \in Targets
      BY <1>6, <2>1 DEF IInv, PassKnows, AtTarget, PublishFails, Propagation
    <2>3. <<due[work[s].client][t], t>> \in (Ops \cup {NoRow}) \X Targets
      BY <2>2 DEF IInv, TypeOK, Propagation
    <2>4. DOMAIN events' \ DOMAIN events \subseteq Ids
      <3>1. CASE UNCHANGED events
        BY <3>1
      <3>2. CASE Enqueue(s, t)
        <4>1. /\ EventIds' = EventIds \cup {Len(events) + 1}
              /\ Len(events) + 1 \in Ids
          BY <1>6, <2>1, <3>2, EventsGrow
             DEF PublishFails, handlerVars
        <4> QED
          BY <4>1 DEF EventIds
      <3> QED
        BY <2>1, <3>1, <3>2
    <2> QED
      BY <1>1, <2>1, <2>3, <2>4 DEF Pasts
  <1>7. ASSUME NEW s \in Syncers, BookkeepingFails(s)
        PROVE  past' \in Pasts
    <2>1. sending[s] \in EventIds
      BY <1>7 DEF BookkeepingFails, IInv, PassKnows, AfterPublish
    <2>2. ClientOf(sending[s]) \in Clients /\ TargetOf(sending[s]) \in Targets
      BY <2>1, EventType DEF IInv
    <2>3. sending[s] \in Ids
      BY <2>1, SourceAssumption, LenProperties
         DEF IInv, TypeOK, MailIsReal, EventIds, Ids
    <2>4. <<due[ClientOf(sending[s])][TargetOf(sending[s])], TargetOf(sending[s])>>
             \in (Ops \cup {NoRow}) \X Targets
      BY <2>2 DEF IInv, TypeOK
    <2> QED
      BY <1>1, <1>7, <2>3, <2>4 DEF BookkeepingFails, Pasts
  <1>8. CASE Finalize
    BY <1>1, <1>8 DEF Finalize, Pasts
  <1>9. ASSUME NEW id \in Ids, Expire(id)
        PROVE  past' \in Pasts
    BY <1>1, <1>9 DEF Expire, Pasts
  <1>10. CASE Crash
    <2> DEFINE a == {o \in Ops : opPc[o] = "local"}
               b == UNION {LeftBy(s) : s \in Syncers}
               d == {sending[s] : s \in {r \in Syncers : syncPc[r] \in AfterPublish}}
    <2>1. b \subseteq (Ops \cup {NoRow}) \X Targets
      BY LeftByType
    <2>2. d \subseteq Ids
      BY SourceAssumption, LenProperties
         DEF IInv, TypeOK, PassKnows, MailIsReal, EventIds, Ids
    <2>3. past' = [past EXCEPT !.halted = @ \cup a, !.left = @ \cup b,
                              !.torn = @ \cup d]
      BY <1>10 DEF Crash
    <2>4. a \subseteq Ops
      OBVIOUS
    <2> HIDE DEF a, b, d
    <2> QED
      BY <1>1, <2>1, <2>2, <2>3, <2>4 DEF Pasts
  <1> QED
    BY <1>2, <1>3, <1>4, <1>5, <1>6, <1>7, <1>8, <1>9, <1>10
       DEF Next, Operate, Sync, SyncFails, HandleAck, Request, ApplyOperation,
           ApplyLocal, Publish, Record, Index, MarkSent, TakeAck, DropUnknown,
           RecordResult, MarkResult, CountPending, Clear, CallbackFails,
           HandlerFails, Answer, ExpireAggregate, history

\* Every step keeps the invariant.
LEMMA NextInv == IInv /\ [Next]_vars => IInv'
  <1> SUFFICES ASSUME IInv, [Next]_vars
               PROVE  IInv'
    OBVIOUS
  <1>1. CASE UNCHANGED vars
    <2>1. TypeOK'
      BY <1>1 DEF IInv, TypeOK, vars
    <2> QED
      BY <1>1, <2>1, PassFrame, MailFrame, RowsFrame DEF IInv, vars
  <1>10. Next => past' \in Pasts
    BY PastType
  <1>2. CASE Operate
    BY <1>2, <1>10, RequestInv, CommitInv, ApplyOperationInv, OperationFailsInv
       DEF Operate, Next
  <1>3. ASSUME NEW s \in Syncers, Sync(s)
        PROVE  IInv'
    BY <1>3, <1>10, FetchInv, ApplyLocalInv, PublishInv, RecordInv, MarkSentInv
       DEF Sync, Next
  <1>4. ASSUME NEW s \in Syncers, SyncFails(s)
        PROVE  IInv'
    BY <1>4, <1>10, ApplyLocalFailsInv, PublishFailsInv, BookkeepingFailsInv
       DEF SyncFails, Next
  <1>5. CASE HandleAck
    BY <1>5, <1>10, TakeAckInv, DropUnknownInv, RecordResultInv, MarkResultInv,
       CountPendingInv, FinalizeInv, ClearInv DEF HandleAck, Next
  <1>6. CASE CallbackFails \/ HandlerFails
    BY <1>6, CallbackFailsInv, HandlerFailsInv
  <1>7. ASSUME NEW t \in Targets, Answer(t)
        PROVE  IInv'
    BY <1>7, AnswerInv
  <1>8. ASSUME NEW id \in Ids, Expire(id)
        PROVE  IInv'
    BY <1>8, <1>10, ExpireInv DEF Next
  <1>11. ASSUME NEW c \in Clients, ExpireAggregate(c)
        PROVE  IInv'
    BY <1>11, ExpireAggregateInv
  <1>9. CASE Crash
    BY <1>9, <1>10, CrashInv DEF Next
  <1> QED
    BY <1>1, <1>2, <1>3, <1>4, <1>5, <1>6, <1>7, <1>8, <1>9, <1>11 DEF Next

\* The inductive invariant holds whatever is asked for, whatever interleaves
\* and whatever fails.
THEOREM SourceInvariant == Spec => []IInv
  BY InitInv, NextInv, PTL DEF Spec

\* Every variable of the source keeps its shape.
THEOREM SourceTypeCorrect == Spec => []TypeOK
  <1>1. IInv => TypeOK
    BY DEF IInv
  <1> QED
    BY <1>1, SourceInvariant, PTL

\* A verdict in table 3 is one that its target gave for an event of that
\* credential, however acknowledgements are delayed, repeated or retried
\* (src/consume.ts, handleAckEvent).
THEOREM VerdictsAreWitnessed == Spec => []VerdictIsWitnessed
  <1>1. IInv => VerdictIsWitnessed
    BY DEF IInv, RowsAreReal
  <1> QED
    BY <1>1, SourceInvariant, PTL
=============================================================================
