----------------------------- MODULE MeshProofs -----------------------------
(***************************************************************************)
(* Proofs about Mesh, for every set of peers and any number of operations, *)
(* events, changes of tables 2 and repeated deliveries: the type invariant *)
(* and, for operators that take turns, that the peers end up in step and   *)
(* that plain secrets leave.                                               *)
(***************************************************************************)
EXTENDS Mesh, Integers, TLAPS

(***************************************************************************)
(* Sets and queues                                                         *)
(***************************************************************************)

\* A queue is its head and what is behind it.
LEMMA HeadTail ==
    ASSUME NEW S, NEW s \in Seq(S), s # <<>>
    PROVE  /\ Head(s) \in S /\ Tail(s) \in Seq(S)
           /\ ToSet(s) = {Head(s)} \cup ToSet(Tail(s))
  <1>1. Head(s) = s[1] /\ 1 \in DOMAIN s
    OBVIOUS
  <1>2. \A i \in DOMAIN Tail(s) : i + 1 \in DOMAIN s /\ Tail(s)[i] = s[i + 1]
    OBVIOUS
  <1>3. \A k \in DOMAIN s : k = 1 \/ (k - 1 \in DOMAIN Tail(s)
                                      /\ s[k] = Tail(s)[k - 1])
    OBVIOUS
  <1>4. ToSet(Tail(s)) \subseteq ToSet(s)
    BY <1>2 DEF ToSet
  <1>5. ToSet(s) \subseteq {Head(s)} \cup ToSet(Tail(s))
    BY <1>1, <1>3, ZenonT(40) DEF ToSet
  <1>6. Head(s) \in ToSet(s)
    BY <1>1 DEF ToSet
  <1> QED
    BY <1>4, <1>5, <1>6

\* What is put into a queue is added to it.
LEMMA ToSetAppend ==
    ASSUME NEW S, NEW s \in Seq(S), NEW m \in S
    PROVE  Append(s, m) \in Seq(S) /\ ToSet(Append(s, m)) = ToSet(s) \cup {m}
  <1>1. /\ DOMAIN Append(s, m) = DOMAIN s \cup {Len(s) + 1}
        /\ \A i \in DOMAIN s : Append(s, m)[i] = s[i] /\ i # Len(s) + 1
        /\ Append(s, m)[Len(s) + 1] = m
    OBVIOUS
  <1> QED
    BY <1>1 DEF ToSet

\* An empty queue holds nothing, and what is in a queue has its type.
LEMMA ToSetType ==
    ASSUME NEW S, NEW s \in Seq(S)
    PROVE  ToSet(s) \subseteq S /\ (s = <<>> <=> ToSet(s) = {})
  <1>1. ToSet(s) \subseteq S
    BY DEF ToSet
  <1>2. s # <<>> => 1 \in DOMAIN s
    OBVIOUS
  <1>3. s = <<>> => DOMAIN s = {}
    OBVIOUS
  <1> QED
    BY <1>1, <1>2, <1>3 DEF ToSet
-----------------------------------------------------------------------------
(***************************************************************************)
(* The operator's tables                                                   *)
(***************************************************************************)

\* Listed targets have a pending row afterwards, others keep theirs.
LEMMA UpsertProperties ==
    ASSUME NEW d \in Tables, NEW secret \in Ops \cup {NoPlain},
           NEW targets \in SUBSET Peers
    PROVE  /\ Upsert(d, Client, secret, targets) \in Tables
           /\ Upsert(d, Client, secret, targets).plain[Client] = secret
           /\ \A t \in Peers :
                 Upsert(d, Client, secret, targets).status[Client][t] =
                    IF t \in targets THEN "pending" ELSE d.status[Client][t]
  <1> DEFINE row == [t \in Peers |-> IF t \in targets THEN "pending"
                                     ELSE d.status[Client][t]]
             u == Upsert(d, Client, secret, targets)
  <1>1. /\ d.plain \in [{Client} -> Ops \cup {NoPlain, NoRow}]
        /\ d.status \in [{Client} -> [Peers -> RowStatus]]
    BY DEF Tables
  <1>2. row \in [Peers -> RowStatus]
    BY <1>1 DEF RowStatus
  <1>3. u = [plain |-> [d.plain EXCEPT ![Client] = secret],
             status |-> [d.status EXCEPT ![Client] = row]]
    BY DEF Upsert
  <1> HIDE DEF row, u
  <1>4. u \in Tables /\ u.plain[Client] = secret /\ u.status[Client] = row
    BY <1>1, <1>2, <1>3 DEF Tables
  <1> QED
    BY <1>4 DEF u, row

\* A rotation only sets rows to pending, and makes none.
LEMMA RotateProperties ==
    ASSUME NEW d \in Tables, NEW secret \in Ops
    PROVE  LET r == Rotate(d, Client, secret)
           IN  /\ r \in Tables
               /\ d.plain[Client] # NoRow => r.plain[Client] = secret
               /\ d.plain[Client] = NoRow => r = d
               /\ \A t \in Peers :
                     /\ r.status[Client][t] \in {"pending", d.status[Client][t]}
                     /\ d.status[Client][t] = "none" => r.status[Client][t] = "none"
  <1>1. RowsOf(d, Client) \in SUBSET Peers
    BY DEF RowsOf
  <1> QED
    BY <1>1, UpsertProperties DEF Rotate, RowsOf

\* A mark sets one row that is there, and nothing else.
LEMMA MarkProperties ==
    ASSUME NEW d \in Tables, NEW t \in Peers, NEW st \in RowStatus
    PROVE  LET m == Mark(d, Client, t, st)
           IN  /\ m \in Tables
               /\ m.plain[Client] = d.plain[Client]
               /\ \A q \in Peers :
                     m.status[Client][q] =
                        IF q = t /\ d.status[Client][t] # "none"
                        THEN st ELSE d.status[Client][q]
  BY DEF Mark, RowsOf, Tables

\* Erasing the plain secret of a credential leaves the rows alone.
LEMMA ClearPlainProperties ==
    ASSUME NEW d \in Tables
    PROVE  LET c == ClearPlain(d, Client)
           IN  /\ c \in Tables /\ c.status = d.status
               /\ c.plain[Client] \in {NoPlain, NoRow}
               /\ d.plain[Client] # NoRow => c.plain[Client] # NoRow
  BY MeshAssumption DEF ClearPlain, Tables
-----------------------------------------------------------------------------
(***************************************************************************)
(* The state                                                               *)
(***************************************************************************)

\* The types of what the invariants speak of.
LEMMA Shapes ==
    ASSUME TypeOK, NEW p \in Peers
    PROVE  /\ \A t \in Peers : Status(p, t) \in RowStatus
           /\ Plain(p) \in Ops \cup {NoPlain, NoRow}
           /\ PendingIds(p) \subseteq Ids /\ redis[p].records \subseteq Ids
           /\ queue[p] \in Seq(Message) /\ In(p) \subseteq Message
           /\ queue[p] = <<>> <=> In(p) = {}
           /\ Owing(p) = {t \in Peers : Status(p, t) = "pending"}
           /\ store[p] \in Hashes /\ cursor[p] \in Cursors
           /\ db[p] \in Tables /\ redis[p] \in Acks!Keyspace
           /\ plain[p] \in Ops \cup {NoPlain}
           /\ todo[p] \subseteq [to : Peers, key : Entries]
           /\ Grounded /\ InHand(p) =>
                 sending[p] \in [to : Peers, id : Ids] /\ sending[p].id \in 1..events
  <1>1. db[p] \in Tables /\ redis[p] \in Acks!Keyspace
    BY DEF TypeOK
  <1>2. \A t \in Peers : Status(p, t) \in RowStatus
    BY <1>1 DEF Tables, Status
  <1>3. Plain(p) \in Ops \cup {NoPlain, NoRow}
    BY <1>1 DEF Tables, Plain
  <1>4. PendingIds(p) \subseteq Ids /\ redis[p].records \subseteq Ids
    BY <1>1 DEF Acks!Keyspace, PendingIds
  <1>5. queue[p] \in Seq(Message)
    BY DEF TypeOK
  <1>6. In(p) \subseteq Message /\ (queue[p] = <<>> <=> In(p) = {})
    BY <1>5, ToSetType DEF In
  <1>7. Owing(p) = {t \in Peers : Status(p, t) = "pending"}
    BY DEF Owing, PendingTargets, Status
  <1>8. /\ plain[p] \in Ops \cup {NoPlain}
        /\ todo[p] \subseteq [to : Peers, key : Entries]
    BY DEF TypeOK
  <1>9. Grounded /\ InHand(p) =>
           sending[p] \in [to : Peers, id : Ids] /\ sending[p].id \in 1..events
    <2>1. sending[p] \in [to : Peers, id : Ids] \cup {None} /\ events \in Nat
      BY DEF TypeOK
    <2>2. Grounded /\ InHand(p) => sending[p] # None /\ sending[p].id <= events
      BY DEF Grounded
    <2> QED
      BY <2>1, <2>2 DEF Ids
  <1> QED
    BY <1>1, <1>2, <1>3, <1>4, <1>5, <1>6, <1>7, <1>8, <1>9 DEF TypeOK

\* Bounds are numbers.
LEMMA BoundsAreNumbers ==
    /\ MaxOps \in Nat /\ MaxEvents \in Nat /\ MaxEdits \in Nat /\ MaxFaults \in Nat
    /\ Full \subseteq Peers
  BY MeshAssumption

\* What a plain secret of table 1 means is a hash or nothing.
LEMMA MeansType ==
    ASSUME NEW p \in Peers, NEW secret \in Ops \cup {NoPlain}
    PROVE  Means(p, secret) \in Hashes
  BY DEF Means, Hash, Hashes
-----------------------------------------------------------------------------
(***************************************************************************)
(* The inductive invariant                                                 *)
(***************************************************************************)

\* At first there is no credential, no message and nothing on record.
LEMMA InitInv == Init => IInv
  <1> SUFFICES ASSUME Init
               PROVE  IInv
    OBVIOUS
  <1> USE BoundsAreNumbers DEF Init
  <1>1. EmptyTables \in Tables /\ Acks!EmptyKeyspace \in Acks!Keyspace
    BY DEF EmptyTables, Tables, RowStatus, Acks!EmptyKeyspace, Acks!Keyspace,
           Acks!NoResults
  <1>2. <<>> \in Seq(Message)
    OBVIOUS
  <1>3. TypeOK
    BY <1>1, <1>2 DEF TypeOK, Entries, Hashes, Cursors, Message
  <1>4. \A p, t \in Peers : Status(p, t) = "none" /\ Plain(p) = NoRow
    BY DEF Status, Plain, EmptyTables
  <1>5. \A p \in Peers : PendingIds(p) = {} /\ redis[p].records = {} /\ In(p) = {}
    BY <1>2, ToSetType DEF PendingIds, Acks!EmptyKeyspace, In
  <1>6. Grounded
    BY <1>4, <1>5 DEF Grounded, InHand
  <1>7. \A p \in Peers : Owing(p) = {}
    BY <1>3, <1>4, Shapes
  <1>8. author \in Peers
    BY DEF TypeOK
  <1>9. Turns
    BY <1>5, <1>7, <1>8 DEF Turns, Untold, InHand
  <1>10. Accounted
    BY <1>5 DEF Accounted, TodoIsApart, Live, LiveEvents, LiveAcks, Coming
  <1> QED
    BY <1>3, <1>6, <1>9, <1>10 DEF IInv

\* ensure, rotate, revoke: rows become pending, and new ones come with the
\* credential.
LEMMA OperateEffect ==
    ASSUME TypeOK, Grounded, NEW p \in Full, NEW kind \in Kinds,
           NEW targets \in SUBSET Peers, Operate(p, kind, targets)
    PROVE  /\ db' \in [Peers -> Tables] /\ store' \in [Peers -> Hashes]
           /\ asked' \in 0..MaxOps
           /\ \A q \in Peers \ {p} : db'[q] = db[q]
           /\ \A t \in Peers :
                 /\ Status(p, t)' \in {"pending", Status(p, t)}
                 /\ Status(p, t)' # "none" => Plain(p)' # NoRow
           /\ Status(p, p)' = "none"
  <1> DEFINE secret == IF kind = "revoke" THEN NoPlain ELSE asked + 1
  <1> USE BoundsAreNumbers DEF Operate
  <1>1. p \in Peers /\ db \in [Peers -> Tables] /\ db[p] \in Tables
    BY DEF TypeOK
  <1>2. /\ asked' \in 0..MaxOps /\ secret \in Ops \cup {NoPlain}
        /\ kind = "rotate" => secret \in Ops
    BY DEF TypeOK, Ops
  <1>3. secret # NoRow
    BY <1>2, MeshAssumption
  <1>4. store' \in [Peers -> Hashes]
    BY <1>1, <1>2, MeansType DEF TypeOK
  <1> HIDE DEF secret
  <1>5. CASE kind = "rotate"
    <2>1. db' = [db EXCEPT ![p] = Rotate(db[p], Client, secret)]
      BY <1>5 DEF secret
    <2>2. /\ Rotate(db[p], Client, secret) \in Tables
          /\ db'[p] = Rotate(db[p], Client, secret)
      BY <1>1, <1>2, <1>5, <2>1, RotateProperties
    <2>3. /\ \A t \in Peers : Status(p, t)' \in {"pending", Status(p, t)}
          /\ Status(p, p) = "none" => Status(p, p)' = "none"
      BY <1>1, <1>2, <1>5, <2>2, RotateProperties DEF Status
    <2>4. \A t \in Peers : Status(p, t)' # "none" => Plain(p)' # NoRow
      <3> SUFFICES ASSUME NEW t \in Peers, Status(p, t)' # "none"
                   PROVE  Plain(p)' # NoRow
        OBVIOUS
      <3>1. Status(p, t) # "none"
        BY <1>1, <1>2, <1>5, <2>2, RotateProperties DEF Status
      <3>2. db[p].plain[Client] # NoRow
        BY <1>1, <3>1 DEF Grounded, Plain
      <3> QED
        BY <1>1, <1>2, <1>3, <1>5, <2>2, <3>2, RotateProperties DEF Plain
    <2> QED
      BY <1>1, <1>2, <1>4, <2>1, <2>2, <2>3, <2>4 DEF Grounded
  <1>6. CASE kind # "rotate"
    <2>1. db' = [db EXCEPT ![p] = Upsert(db[p], Client, secret, targets)]
      BY <1>6 DEF secret
    <2>2. /\ Upsert(db[p], Client, secret, targets) \in Tables
          /\ db'[p] = Upsert(db[p], Client, secret, targets)
      BY <1>1, <1>2, <2>1, UpsertProperties
    <2>3. Plain(p)' = secret
      BY <1>1, <1>2, <2>2, UpsertProperties DEF Plain
    <2>4. \A t \in Peers :
             Status(p, t)' = IF t \in targets THEN "pending" ELSE Status(p, t)
      BY <1>1, <1>2, <2>2, UpsertProperties DEF Status
    <2>5. p \notin targets /\ Status(p, p) = "none"
      BY <1>1 DEF Grounded
    <2> QED
      BY <1>1, <1>2, <1>3, <1>4, <2>1, <2>2, <2>3, <2>4, <2>5
  <1> QED
    BY <1>5, <1>6

LEMMA OperateInv ==
    ASSUME IInv, NEW p \in Full, NEW kind \in Kinds,
           NEW targets \in SUBSET Peers, Operate(p, kind, targets)
    PROVE  IInv'
  <1>1. /\ db' \in [Peers -> Tables] /\ store' \in [Peers -> Hashes]
        /\ asked' \in 0..MaxOps
        /\ \A q \in Peers \ {p} : db'[q] = db[q]
        /\ \A t \in Peers :
              /\ Status(p, t)' \in {"pending", Status(p, t)}
              /\ Status(p, t)' # "none" => Plain(p)' # NoRow
        /\ Status(p, p)' = "none"
    BY OperateEffect DEF IInv
  <1>2. /\ UNCHANGED <<table2, redis, cursor, queue, at, plain, todo, sending,
                       events, edits, faults, edited, hasty>>
        /\ author' = p /\ told' = {} /\ p \in Peers
        /\ OperatorsWait => Quiet
    BY BoundsAreNumbers DEF Operate, pass
  <1>3. TypeOK'
    BY <1>1, <1>2 DEF IInv, TypeOK
  <1>4. \A q \in Peers \ {p} : \A t \in Peers :
           Status(q, t)' = Status(q, t) /\ Plain(q)' = Plain(q)
    BY <1>1 DEF Status, Plain
  <1>5. \A q \in Peers : In(q)' = In(q) /\ PendingIds(q)' = PendingIds(q)
    BY <1>2 DEF In, PendingIds
  <1>6. Grounded'
    BY <1>1, <1>2, <1>4, <1>5 DEF IInv, Grounded, InHand
  <1>7. ASSUME OperatorsWait
        PROVE  /\ Turns' /\ \A q \in Peers : In(q) = {}
    <2>1. \A q \in Peers : queue'[q] = <<>> /\ In(q)' = {} /\ In(q) = {}
      BY <1>2, <1>5, <1>7, Shapes DEF IInv, Quiet
    <2>2. \A q \in Peers \ {p} : Owing(q)' = {}
      BY <1>1, <1>2, <1>7 DEF Quiet, Owing, PendingTargets
    <2>3. \A q \in Peers : at'[q] = "idle"
      BY <1>2, <1>7 DEF Quiet
    <2> QED
      BY <1>2, <2>1, <2>2, <2>3 DEF Turns, Untold, InHand
  <1>8. ASSUME OperatorsWait, ~ Mended'
        PROVE  Accounted'
    <2>1. Accounted
      BY <1>2, <1>8 DEF IInv, Mended
    <2>2. \A q, t \in Peers : Live(q, t)' = {} /\ LiveAcks(q, t)' = {}
                              /\ LiveEvents(q, t)' = {} /\ Live(q, t) = {}
      BY <1>5, <1>7, <1>8 DEF Live, LiveEvents, LiveAcks
    <2>3. \A q \in Peers : at'[q] = "idle" /\ todo'[q] = {} /\ Coming(q)' = {}
      BY <1>2, <1>8 DEF Quiet, IInv, Grounded, Coming
    <2>4. \A q, t \in Peers : Mute(q, t) => Mute(q, t)'
      BY <1>2, <2>2 DEF Mute, AckKey
    <2>5. \A q, t \in Peers :
             Status(q, t) \in {"pending", "sent"} => Status(q, t)' \in {"pending", "sent"}
      BY <1>1, <1>4
    <2>6. \A q \in Peers : \A id \in Ids : Awaits(q, id) => Awaits(q, id)'
      BY <2>2, <2>4, <2>5 DEF Awaits
    <2>7. \A q \in Peers \ hasty : \A id \in PendingIds(q)' : Awaits(q, id)'
      BY <1>5, <2>1, <2>6, Shapes DEF Accounted, IInv
    <2> QED
      BY <1>2, <1>5, <2>1, <2>2, <2>3, <2>7 DEF Accounted, TodoIsApart
  <1> QED
    BY <1>3, <1>6, <1>7, <1>8 DEF IInv
-----------------------------------------------------------------------------
(***************************************************************************)
(* What steps that do not touch them leave of the parts of the invariant   *)
(***************************************************************************)

\* Tables 1 and 3, Redis, the queues and the stores stay as they are.
LEMMA ReadFrame ==
    ASSUME UNCHANGED <<db, redis, queue>>
    PROVE  \A q \in Peers :
              /\ In(q)' = In(q) /\ Owing(q)' = Owing(q)
              /\ PendingIds(q)' = PendingIds(q) /\ Plain(q)' = Plain(q)
              /\ \A t \in Peers : Status(q, t)' = Status(q, t)
  BY DEF In, Owing, PendingTargets, PendingIds, Plain, Status

\* Turns stays while passes stand still, nobody comes to owe anything, and what
\* there is of the last operation is only moved on.
LEMMA TurnsFrame ==
    ASSUME TypeOK, Turns, UNCHANGED <<at, plain, todo, sending, author, told>>,
           \A q \in Peers : Owing(q)' \subseteq Owing(q),
           Untold => UNCHANGED queue,
           store'[author] = store[author],
           \A q \in Peers : \A m \in In(q)' :
              m.op = "apply" => m.from = author /\ m.hash = store[author],
           \A t \in told :
              store'[t] = store[author] \/ \E m \in In(t)' : WillApply(t, m)'
    PROVE  Turns'
  <1>1. author \in Peers /\ told \subseteq Peers
    BY BoundsAreNumbers DEF TypeOK
  <1>2. /\ Owing(author)' \subseteq Owing(author)
        /\ Untold' => Untold
    BY <1>1 DEF Untold
  <1>3. Untold' => told' = {} /\ \A q \in Peers : queue'[q] = <<>>
    BY <1>2 DEF Turns
  <1> QED
    BY <1>1, <1>2, <1>3 DEF Turns, InHand

\* Accounted stays while passes stand still, entries do not come right, and
\* whatever is waited for is waited for still.
LEMMA AccountedFrame ==
    ASSUME TypeOK, Accounted, UNCHANGED <<at, plain, todo, sending, author, told>>,
           hasty \subseteq hasty',
           \A q \in Full, t \in Peers : table2'[q][t] # "none",
           \A q, t \in Peers : table2'[q][t] = "right" => table2[q][t] = "right",
           \A q, t \in Peers : Live(q, t) = {} =>
              /\ Live(q, t)' = {}
              /\ Status(q, t) \in {"pending", "sent"} =>
                    Status(q, t)' \in {"pending", "sent"},
           \A q, t \in Peers : \A m, n \in Live(q, t)' : m.eventId = n.eventId,
           \A q \in Peers \ hasty' :
              /\ PendingIds(q)' \subseteq redis'[q].records
              /\ at[q] = "index" => sending[q].id \in redis'[q].records
              /\ \A id \in PendingIds(q)' \cup Coming(q) : Awaits(q, id)',
           author \notin hasty' =>
              \/ Plain(author)' \in {NoPlain, NoRow}
              \/ /\ Plain(author)' = Plain(author)
                 /\ PendingIds(author) # {} => PendingIds(author)' # {}
    PROVE  Accounted'
  <1>1. author \in Peers
    BY BoundsAreNumbers DEF TypeOK
  <1>2. \A q \in Peers : Coming(q)' = Coming(q)
    BY DEF Coming
  <1>3. TodoIsApart'
    <2> SUFFICES ASSUME NEW q \in Peers, NEW x \in todo[q]
                 PROVE  /\ Live(q, x.to)' = {}
                        /\ x.key # "right" => table2'[q][x.to] # "right"
                        /\ Status(q, x.to)' \in {"pending", "sent"}
                        /\ \A y \in todo[q] : x.to = y.to => x = y
      BY DEF TodoIsApart
    <2>1. x.to \in Peers
      BY Shapes
    <2> QED
      BY <2>1 DEF Accounted, TodoIsApart
  <1>4. told' # {} /\ author' \notin hasty' =>
           \/ PendingIds(author)' \cup Coming(author)' # {}
           \/ Plain(author)' \in {NoPlain, NoRow}
    BY <1>1, <1>2 DEF Accounted
  <1> QED
    BY <1>2, <1>3, <1>4 DEF Accounted
-----------------------------------------------------------------------------
(***************************************************************************)
(* A pass                                                                  *)
(***************************************************************************)

\* A snapshot is taken before anything of the operation was told.
LEMMA FetchInv ==
    ASSUME IInv, NEW p \in Peers, Fetch(p)
    PROVE  IInv'
  <1> DEFINE new == {[to |-> t, key |-> table2[p][t]] : t \in Owing(p)}
  <1>1. /\ p \in Full /\ at[p] = "idle" /\ Owing(p) # {}
        /\ at' = [at EXCEPT ![p] = "apply"]
        /\ plain' = [plain EXCEPT ![p] = Plain(p)]
        /\ todo' = [todo EXCEPT ![p] = new]
        /\ UNCHANGED <<table2, db, redis, store, cursor, queue, sending, events,
                       asked, edits, faults, author, told, edited, hasty>>
    BY DEF Fetch, history, Plain
  <1>2. TypeOK /\ Grounded /\ author \in Peers
    BY BoundsAreNumbers DEF IInv, TypeOK
  <1>3. /\ Owing(p) = {t \in Peers : Status(p, t) = "pending"}
        /\ Plain(p) \in Ops \cup {NoPlain, NoRow}
    BY <1>2, Shapes
  <1>4. Plain(p) \in Ops \cup {NoPlain} /\ p \notin Owing(p)
    BY <1>1, <1>2, <1>3 DEF Grounded
  <1>5. /\ new \subseteq [to : Peers, key : Entries]
        /\ \A x \in new : x.to \in Owing(p) /\ x.key = table2[p][x.to]
        /\ \A t \in Owing(p) : \E x \in new : x.to = t
    <2>1. \A t \in Owing(p) : t \in Peers /\ table2[p][t] \in Entries
      BY <1>2, <1>3 DEF TypeOK
    <2>2. ASSUME NEW x \in new
          PROVE  /\ x \in [to : Peers, key : Entries]
                 /\ x.to \in Owing(p) /\ x.key = table2[p][x.to]
      BY <2>1
    <2>3. ASSUME NEW t \in Owing(p)
          PROVE  \E x \in new : x.to = t
      <3>1. [to |-> t, key |-> table2[p][t]] \in new
        OBVIOUS
      <3> QED
        BY <3>1
    <2> HIDE DEF new
    <2> QED
      BY <2>2, <2>3
  <1>6. \A x, y \in new : x.to = y.to => x = y
    OBVIOUS
  <1> HIDE DEF new
  <1>7. /\ at \in [Peers -> {"idle", "apply", "publish", "record", "index", "mark"}]
        /\ todo \in [Peers -> SUBSET [to : Peers, key : Entries]]
        /\ plain \in [Peers -> Ops \cup {NoPlain}]
    BY <1>2 DEF TypeOK
  <1>8. /\ at'[p] = "apply" /\ todo'[p] = new
        /\ \A q \in Peers \ {p} : at'[q] = at[q] /\ todo'[q] = todo[q]
    BY <1>1, <1>7
  <1>9. TypeOK'
    BY <1>1, <1>2, <1>4, <1>5, <1>7 DEF TypeOK
  <1>10. \A q \in Peers :
            /\ In(q)' = In(q) /\ Owing(q)' = Owing(q)
            /\ PendingIds(q)' = PendingIds(q) /\ Plain(q)' = Plain(q)
            /\ \A t \in Peers : Status(q, t)' = Status(q, t)
    BY <1>1, ReadFrame
  <1>11. Grounded'
    BY <1>1, <1>2, <1>4, <1>5, <1>8, <1>10 DEF Grounded, InHand
  <1>12. ASSUME OperatorsWait
         PROVE  /\ Turns' /\ p = author /\ \A q \in Peers : queue[q] = <<>>
    <2>1. Turns /\ p = author
      BY <1>1, <1>12 DEF IInv, Turns
    <2>2. told = {} /\ \A q \in Peers : queue[q] = <<>>
      BY <1>1, <2>1 DEF Turns, Untold
    <2>3. \A q \in Peers : In(q)' = {}
      BY <1>2, <1>10, <2>2, Shapes
    <2> QED
      BY <1>1, <1>5, <1>8, <1>10, <2>1, <2>2, <2>3 DEF Turns, Untold, InHand
  <1>13. ASSUME OperatorsWait, ~ Mended'
         PROVE  Accounted'
    <2>1. Accounted
      BY <1>1, <1>13 DEF IInv, Mended
    <2>2. \A q, t \in Peers :
             /\ Live(q, t) = {} /\ Live(q, t)' = {}
             /\ LiveAcks(q, t)' = {} /\ LiveEvents(q, t)' = {}
      <3>1. \A q \in Peers : In(q) = {} /\ In(q)' = {}
        BY <1>2, <1>10, <1>12, <1>13, Shapes
      <3> QED
        BY <3>1 DEF Live, LiveAcks, LiveEvents
    <2>3. \A q, t \in Peers : Mute(q, t) => Mute(q, t)'
      BY <1>1, <1>5, <1>8, <2>2 DEF Mute, AckKey
    <2>4. \A q \in Peers : \A id \in Ids : Awaits(q, id) => Awaits(q, id)'
      BY <1>10, <2>2, <2>3 DEF Awaits
    <2>5. \A q \in Peers : Coming(q)' = Coming(q) /\ Coming(q) \subseteq Ids
      BY <1>1, <1>8 DEF Coming
    <2>6. TodoIsApart'
      <3> SUFFICES ASSUME NEW q \in Peers, NEW x \in todo'[q]
                   PROVE  /\ Live(q, x.to)' = {}
                          /\ x.key # "right" => table2[q][x.to] # "right"
                          /\ Status(q, x.to)' \in {"pending", "sent"}
                          /\ \A y \in todo'[q] : x.to = y.to => x = y
        BY <1>1 DEF TodoIsApart
      <3>1. CASE q = p
        <4>1. x \in new /\ x.to \in Owing(p) /\ x.to \in Peers
          BY <1>3, <1>5, <1>8, <3>1
        <4>2. Status(q, x.to)' = "pending"
          BY <1>3, <1>10, <3>1, <4>1
        <4> QED
          BY <1>5, <1>6, <1>8, <2>2, <3>1, <4>1, <4>2
      <3>2. CASE q # p
        <4>1. x \in todo[q] /\ x.to \in Peers /\ todo'[q] = todo[q]
          BY <1>2, <1>8, <3>2, Shapes
        <4> QED
          BY <1>10, <2>1, <2>2, <4>1 DEF TodoIsApart, Accounted
      <3> QED
        BY <3>1, <3>2
    <2>7. \A q \in Peers \ hasty : \A id \in PendingIds(q)' \cup Coming(q)' : Awaits(q, id)'
      BY <1>2, <1>10, <2>1, <2>4, <2>5, Shapes DEF Accounted
    <2>8. \A q \in Peers \ hasty : at'[q] = "index" => sending[q].id \in redis[q].records
      BY <1>8, <2>1 DEF Accounted
    <2>9. told' # {} /\ author \notin hasty =>
             \/ PendingIds(author)' \cup Coming(author)' # {}
             \/ Plain(author)' \in {NoPlain, NoRow}
      BY <1>1, <1>2, <1>10, <2>1, <2>5 DEF Accounted
    <2> QED
      BY <1>1, <1>10, <2>1, <2>2, <2>6, <2>7, <2>8, <2>9 DEF Accounted
  <1> QED
    BY <1>9, <1>11, <1>12, <1>13 DEF IInv

\* The author takes the hash that its events are about to carry.
LEMMA ApplyLocalInv ==
    ASSUME IInv, NEW p \in Peers, ApplyLocal(p)
    PROVE  IInv'
  <1>1. /\ at[p] = "apply" /\ at' = [at EXCEPT ![p] = "publish"]
        /\ store' = [store EXCEPT ![p] = Means(p, plain[p])]
        /\ UNCHANGED <<table2, db, redis, cursor, queue, plain, todo, sending, events,
                       asked, edits, faults, author, told, edited, hasty>>
    BY DEF ApplyLocal, history
  <1>2. TypeOK /\ Grounded /\ author \in Peers
    BY BoundsAreNumbers DEF IInv, TypeOK
  <1>3. /\ at \in [Peers -> {"idle", "apply", "publish", "record", "index", "mark"}]
        /\ store \in [Peers -> Hashes] /\ Means(p, plain[p]) \in Hashes
    BY <1>2, MeansType DEF TypeOK
  <1>4. /\ at'[p] = "publish" /\ store'[p] = Means(p, plain[p])
        /\ \A q \in Peers \ {p} : at'[q] = at[q] /\ store'[q] = store[q]
    BY <1>1, <1>3
  <1>5. TypeOK'
    BY <1>1, <1>2, <1>3 DEF TypeOK
  <1>6. \A q \in Peers :
           /\ In(q)' = In(q) /\ Owing(q)' = Owing(q)
           /\ PendingIds(q)' = PendingIds(q) /\ Plain(q)' = Plain(q)
           /\ \A t \in Peers : Status(q, t)' = Status(q, t)
    BY <1>1, ReadFrame
  <1>7. Grounded'
    BY <1>1, <1>2, <1>4, <1>6 DEF Grounded, InHand
  <1>8. ASSUME OperatorsWait
        PROVE  Turns'
    <2>1. Turns /\ p = author
      BY <1>1, <1>8 DEF IInv, Turns
    <2>2. told = {} /\ \A q \in Peers : queue[q] = <<>>
      BY <1>1, <2>1 DEF Turns, Untold
    <2>3. \A q \in Peers : In(q)' = {}
      BY <1>2, <1>6, <2>2, Shapes
    <2> QED
      BY <1>1, <1>4, <1>6, <2>1, <2>2, <2>3 DEF Turns, Untold, InHand
  <1>9. ASSUME OperatorsWait, ~ Mended'
        PROVE  Accounted'
    <2>1. Accounted
      BY <1>1, <1>9 DEF IInv, Mended
    <2>2. \A q, t \in Peers :
             /\ Live(q, t)' = Live(q, t) /\ LiveAcks(q, t)' = LiveAcks(q, t)
             /\ LiveEvents(q, t)' = LiveEvents(q, t)
      BY <1>6 DEF Live, LiveAcks, LiveEvents
    <2>3. \A q \in Peers : \A id : Awaits(q, id)' = Awaits(q, id)
      BY <1>1, <1>6, <2>2 DEF Awaits, Mute, AckKey
    <2>4. \A q \in Peers : Coming(q)' = Coming(q)
      BY <1>1, <1>4 DEF Coming
    <2>5. TodoIsApart'
      <3>1. \A q \in Peers : \A x \in todo[q] : x.to \in Peers
        BY <1>2, Shapes
      <3> QED
        BY <1>1, <1>6, <2>1, <2>2, <3>1 DEF Accounted, TodoIsApart
    <2>6. \A q \in Peers \ hasty : at'[q] = "index" => sending[q].id \in redis[q].records
      BY <1>4, <2>1 DEF Accounted
    <2>7. \A q \in Peers \ hasty : \A id \in PendingIds(q)' \cup Coming(q)' : Awaits(q, id)'
      BY <1>6, <2>1, <2>3, <2>4 DEF Accounted
    <2>8. told' # {} /\ author \notin hasty =>
             \/ PendingIds(author)' \cup Coming(author)' # {}
             \/ Plain(author)' \in {NoPlain, NoRow}
      BY <1>1, <1>2, <1>6, <2>1, <2>4 DEF Accounted
    <2> QED
      BY <1>1, <1>6, <2>1, <2>2, <2>5, <2>6, <2>7, <2>8 DEF Accounted
  <1> QED
    BY <1>5, <1>7, <1>8, <1>9 DEF IInv

\* An event is a message that its receiver has not seen.
LEMMA EventProperties ==
    ASSUME TypeOK, Grounded, NEW p \in Peers, NEW x \in todo[p], events < MaxEvents
    PROVE  LET e == Event(p, x, events + 1)
           IN  /\ e \in Message /\ e.op = "apply" /\ e.from = p
               /\ e.eventId = events + 1 /\ e.ts = events + 1 /\ e.key = x.key
               /\ e.hash = Means(p, plain[p])
               /\ IsStrictlyNewer(cursor[x.to], PositionOf(e))
               /\ x.to \in Peers \ {p} /\ x.key \in Entries /\ events + 1 \in Ids
  <1> DEFINE id == events + 1
             e == Event(p, x, id)
  <1>1. /\ e.op = "apply" /\ e.from = p /\ e.eventId = id /\ e.ts = id
        /\ e.key = x.key /\ e.hash = Means(p, plain[p])
    BY DEF Event
  <1>2. events \in Nat /\ id \in Nat /\ id \in Ids
    BY BoundsAreNumbers DEF TypeOK, Ids
  <1>3. x.to \in Peers /\ x.key \in Entries /\ x.to # p
    BY Shapes DEF Grounded
  <1>4. Means(p, plain[p]) \in Hashes
    BY Shapes, MeansType
  <1>5. e \in Message
    BY <1>2, <1>3, <1>4 DEF Message, Event
  <1>6. IsStrictlyNewer(cursor[x.to], PositionOf(e))
    <2>1. cursor[x.to] \in Cursors
      BY <1>3, Shapes
    <2>2. cursor[x.to] # NoCursor =>
             cursor[x.to].ts \in Nat /\ cursor[x.to].ts <= events
      BY <1>3, <2>1 DEF Cursors, Position, Grounded
    <2> HIDE DEF e
    <2>3. PositionOf(e).ts = id
      BY <1>1 DEF PositionOf
    <2> QED
      BY <1>2, <2>1, <2>2, <2>3 DEF IsStrictlyNewer
  <1> QED
    BY <1>1, <1>2, <1>3, <1>5, <1>6

\* What is published is live, unless its entry is wrong and the row mute.
LEMMA PublishInv ==
    ASSUME IInv, NEW p \in Peers, Publish(p)
    PROVE  IInv'
  <1> DEFINE n == events + 1
  <1>1. PICK x \in todo[p] :
           /\ at[p] = "publish" /\ events < MaxEvents
           /\ queue' = [queue EXCEPT ![x.to] = Append(@, Event(p, x, n))]
           /\ todo' = [todo EXCEPT ![p] = @ \ {x}]
           /\ sending' = [sending EXCEPT ![p] = [to |-> x.to, id |-> n]]
           /\ told' = IF p = author /\ x.key = "right" THEN told \cup {x.to} ELSE told
           /\ events' = n /\ at' = [at EXCEPT ![p] = "record"]
           /\ UNCHANGED <<table2, db, redis, store, cursor, plain, asked, edits,
                          faults, author, edited, hasty>>
    BY DEF Publish
  <1>2. TypeOK /\ Grounded /\ author \in Peers /\ events \in Nat
    BY BoundsAreNumbers DEF IInv, TypeOK
  <1>3. PICK e : e = Event(p, x, n)
    OBVIOUS
  <1>4. /\ e \in Message /\ e.op = "apply" /\ e.from = p
        /\ e.eventId = n /\ e.ts = n /\ e.key = x.key
        /\ e.hash = Means(p, plain[p])
        /\ IsStrictlyNewer(cursor[x.to], PositionOf(e))
        /\ x.to \in Peers \ {p} /\ x.key \in Entries /\ n \in Ids
    BY <1>1, <1>2, <1>3, EventProperties
  <1> DEFINE t0 == x.to
  <1>5. /\ queue' \in [Peers -> Seq(Message)]
        /\ \A q \in Peers : In(q)' = IF q = t0 THEN In(q) \cup {e} ELSE In(q)
    <2>1. queue \in [Peers -> Seq(Message)]
      BY <1>2 DEF TypeOK
    <2>2. /\ Append(queue[t0], e) \in Seq(Message)
          /\ ToSet(Append(queue[t0], e)) = ToSet(queue[t0]) \cup {e}
      BY <1>4, <2>1, ToSetAppend
    <2>3. queue' = [queue EXCEPT ![t0] = Append(queue[t0], e)]
      BY <1>1, <1>3
    <2> QED
      BY <1>4, <2>1, <2>2, <2>3 DEF In
  <1>6. /\ at'[p] = "record" /\ todo'[p] = todo[p] \ {x}
        /\ sending'[p] = [to |-> t0, id |-> n]
        /\ \A q \in Peers \ {p} :
              at'[q] = at[q] /\ todo'[q] = todo[q] /\ sending'[q] = sending[q]
    BY <1>1, <1>2 DEF TypeOK
  <1>7. [to |-> t0, id |-> n] \in [to : Peers, id : Ids] /\ sending'[p] # None
    BY <1>4, <1>6, MeshAssumption
  <1>8. TypeOK'
    <2>1. told' \subseteq Peers /\ events' \in 0..MaxEvents
      BY <1>1, <1>2, <1>4, BoundsAreNumbers DEF TypeOK
    <2> QED
      BY <1>1, <1>2, <1>5, <1>7, <2>1 DEF TypeOK
  <1>9. \A q \in Peers :
           /\ Owing(q)' = Owing(q) /\ PendingIds(q)' = PendingIds(q)
           /\ Plain(q)' = Plain(q) /\ \A t \in Peers : Status(q, t)' = Status(q, t)
    BY <1>1 DEF Owing, PendingTargets, PendingIds, Plain, Status
  <1>10. Grounded'
    <2> SUFFICES ASSUME NEW q \in Peers
                 PROVE  /\ \A t \in Peers : Status(q, t)' # "none" => Plain(q)' # NoRow
                        /\ Status(q, q)' = "none"
                        /\ redis'[q].records \cup PendingIds(q)' \subseteq 1..events'
                        /\ cursor'[q] # NoCursor => cursor'[q].ts <= events'
                        /\ \A m \in In(q)' : m.op = "apply" =>
                              m.ts = m.eventId /\ m.ts <= events' /\ m.from # q
                        /\ at'[q] # "idle" => q \in Full
                        /\ at'[q] = "idle" => todo'[q] = {}
                        /\ \A y \in todo'[q] : y.to # q
                        /\ InHand(q)' => sending'[q] # None /\ sending'[q].id <= events'
      BY DEF Grounded
    <2>1. /\ redis'[q].records \cup PendingIds(q)' \subseteq 1..events'
          /\ cursor'[q] # NoCursor => cursor'[q].ts <= events'
      <3>1. cursor[q] # NoCursor => cursor[q].ts \in Nat
        BY <1>2, Shapes DEF Cursors, Position
      <3> QED
        BY <1>1, <1>2, <1>9, <3>1 DEF Grounded
    <2>2. \A m \in In(q)' : m.op = "apply" =>
             m.ts = m.eventId /\ m.ts <= events' /\ m.from # q
      <3>1. \A m \in In(q) : m.op = "apply" => m.ts \in Nat
        <4>1. In(q) \subseteq Message
          BY <1>2, Shapes
        <4> QED
          BY <4>1 DEF Message
      <3> QED
        BY <1>1, <1>2, <1>4, <1>5, <3>1 DEF Grounded
    <2>3. InHand(q)' => sending'[q] # None /\ sending'[q].id <= events'
      <3>1. CASE q = p
        BY <1>1, <1>2, <1>6, <1>7, <3>1
      <3>2. CASE q # p
        <4>1. InHand(q)' => InHand(q)
          BY <1>6, <3>2 DEF InHand
        <4>2. InHand(q) => sending[q].id \in 1..events /\ sending[q] # None
          BY <1>2, Shapes DEF Grounded
        <4> QED
          BY <1>1, <1>2, <1>6, <3>2, <4>1, <4>2
      <3> QED
        BY <3>1, <3>2
    <2> QED
      BY <1>1, <1>2, <1>6, <1>9, <2>1, <2>2, <2>3 DEF Grounded
  <1>11. ASSUME OperatorsWait
         PROVE  /\ Turns' /\ p = author
    <2>1. Turns /\ p = author
      BY <1>1, <1>11 DEF IInv, Turns
    <2>2. /\ ~ Untold'
          /\ store[author] = Means(author, plain[author])
          /\ \A q \in Peers : Owing(q)' # {} \/ at'[q] # "idle" => q = author
      BY <1>1, <1>6, <1>9, <2>1 DEF Turns, Untold
    <2>3. \A t \in Owing(author)' :
             \/ \E y \in todo'[author] : y.to = t
             \/ InHand(author)' /\ sending'[author].to = t
      <3> SUFFICES ASSUME NEW t \in Owing(p)
                   PROVE  \/ \E y \in todo'[p] : y.to = t
                          \/ InHand(p)' /\ sending'[p].to = t
        BY <1>1, <1>2, <1>9, <2>1
      <3>1. \E y \in todo[p] : y.to = t
        BY <1>1, <2>1 DEF Turns, InHand
      <3> QED
        BY <1>6, <3>1 DEF InHand
    <2>4. \A q \in Peers : \A m \in In(q)' :
             m.op = "apply" => m.from = author /\ m.hash = store[author]
      BY <1>4, <1>5, <2>1, <2>2 DEF Turns
    <2>5. ASSUME NEW t \in told'
          PROVE  store'[t] = store[author] \/ \E m \in In(t)' : WillApply(t, m)'
      <3>1. CASE t \in told
        <4>1. t \in Peers
          BY <1>2, <3>1 DEF TypeOK
        <4> QED
          BY <1>1, <1>5, <2>1, <3>1, <4>1 DEF Turns, WillApply
      <3>2. CASE t = t0 /\ x.key = "right"
        BY <1>1, <1>4, <1>5, <3>2 DEF WillApply
      <3> QED
        BY <1>1, <2>5, <3>1, <3>2
    <2>6. author \notin told'
      BY <1>1, <1>4, <2>1 DEF Turns
    <2> QED
      BY <1>1, <2>1, <2>2, <2>3, <2>4, <2>5, <2>6 DEF Turns
  <1>12. ASSUME OperatorsWait, ~ Mended'
         PROVE  Accounted'
    <2>1. Accounted
      BY <1>1, <1>12 DEF IInv, Mended
    <2>2. /\ Live(p, t0) = {} /\ (x.key # "right" => table2[p][t0] # "right")
          /\ Status(p, t0) \in {"pending", "sent"}
          /\ \A y \in todo[p] : t0 = y.to => x = y
      BY <2>1 DEF Accounted, TodoIsApart
    <2>3. \A q, t \in Peers :
             /\ LiveAcks(q, t)' = LiveAcks(q, t)
             /\ LiveEvents(q, t)' = IF q = p /\ t = t0 /\ x.key = "right"
                                    THEN LiveEvents(q, t) \cup {e}
                                    ELSE LiveEvents(q, t)
      BY <1>4, <1>5 DEF LiveEvents, LiveAcks
    <2>4. \A q, t \in Peers : Live(q, t)' = IF q = p /\ t = t0 /\ x.key = "right"
                                            THEN {e} ELSE Live(q, t)
      BY <2>2, <2>3 DEF Live
    <2>5. \A q, t \in Peers : \A m, k \in Live(q, t)' : m.eventId = k.eventId
      BY <2>1, <2>4 DEF Accounted
    <2>6. TodoIsApart'
      <3> SUFFICES ASSUME NEW q \in Peers, NEW y \in todo'[q]
                   PROVE  /\ Live(q, y.to)' = {}
                          /\ y.key # "right" => table2[q][y.to] # "right"
                          /\ Status(q, y.to)' \in {"pending", "sent"}
                          /\ \A z \in todo'[q] : y.to = z.to => y = z
        BY <1>1 DEF TodoIsApart
      <3>1. y \in todo[q] /\ y.to \in Peers /\ todo'[q] \subseteq todo[q]
        BY <1>2, <1>6, Shapes
      <3>2. ~ (q = p /\ y.to = t0)
        BY <1>6, <2>2, <3>1
      <3> QED
        BY <1>9, <2>1, <2>4, <3>1, <3>2 DEF Accounted, TodoIsApart
    <2>7. ASSUME NEW q \in Peers, NEW t \in Peers, Mute(q, t)
          PROVE  Mute(q, t)'
      <3>1. LiveAcks(q, t)' = {} /\ AckKey(t, q)' = AckKey(t, q)
        BY <1>1, <2>3, <2>7 DEF Mute, AckKey
      <3>2. CASE AckKey(t, q) # "right"
        BY <3>1, <3>2 DEF Mute
      <3>3. CASE /\ table2[q][t] # "right" /\ LiveEvents(q, t) = {}
                 /\ \A y \in todo[q] : y.to = t => y.key # "right"
        <4>1. ~ (q = p /\ t = t0 /\ x.key = "right")
          BY <3>3
        <4>2. LiveEvents(q, t)' = {} /\ todo'[q] \subseteq todo[q]
          BY <1>6, <2>3, <3>3, <4>1
        <4> QED
          BY <1>1, <3>1, <3>3, <4>2 DEF Mute
      <3> QED
        BY <2>7, <3>2, <3>3 DEF Mute
    <2>8. \A q \in Peers : \A id : Awaits(q, id) => Awaits(q, id)'
      <3> SUFFICES ASSUME NEW q \in Peers, NEW id, NEW t \in Peers,
                          Status(q, t) \in {"pending", "sent"},
                          Mute(q, t) \/ \E m \in Live(q, t) : m.eventId = id
                   PROVE  Mute(q, t)' \/ \E m \in Live(q, t)' : m.eventId = id
        BY <1>9, ZenonT(40) DEF Awaits
      <3>1. Live(q, t) \subseteq Live(q, t)'
        BY <2>2, <2>4
      <3> QED
        BY <2>7, <3>1
    <2>9. Awaits(p, e.eventId)'
      <3>1. CASE x.key = "right"
        BY <1>4, <1>9, <2>2, <2>4, <3>1 DEF Awaits
      <3>2. CASE x.key # "right"
        <4>1. LiveAcks(p, t0)' = {} /\ LiveEvents(p, t0)' = {}
          BY <1>4, <2>2, <2>3, <3>2 DEF Live
        <4>2. \A y \in todo'[p] : y.to # t0
          BY <1>6, <2>2
        <4>3. Mute(p, t0)'
          BY <1>1, <2>2, <3>2, <4>1, <4>2 DEF Mute
        <4> QED
          BY <1>4, <1>9, <2>2, <4>3 DEF Awaits
      <3> QED
        BY <3>1, <3>2
    <2>10. /\ Coming(p)' = {e.eventId} /\ Coming(p) = {}
           /\ \A q \in Peers \ {p} : Coming(q)' = Coming(q)
      BY <1>1, <1>4, <1>6 DEF Coming
    <2>11. \A q \in Peers \ hasty : \A id \in PendingIds(q)' \cup Coming(q)' : Awaits(q, id)'
      <3> SUFFICES ASSUME NEW q \in Peers \ hasty,
                          NEW id \in PendingIds(q)' \cup Coming(q)'
                   PROVE  Awaits(q, id)'
        OBVIOUS
      <3>1. CASE q = p /\ id = e.eventId
        BY <2>9, <3>1
      <3>2. CASE id \in PendingIds(q) \cup Coming(q)
        BY <2>1, <2>8, <3>2 DEF Accounted
      <3> QED
        BY <1>9, <2>10, <3>1, <3>2
    <2>12. \A q \in Peers \ hasty : /\ PendingIds(q)' \subseteq redis[q].records
                                    /\ at'[q] = "index" => sending'[q].id \in redis[q].records
      BY <1>6, <1>9, <2>1 DEF Accounted
    <2>13. PendingIds(author)' \cup Coming(author)' # {}
      BY <1>1, <1>2, <1>11, <1>12, <2>10
    <2>14. \A q \in Full, t \in Peers : table2'[q][t] # "none"
      BY <1>1, <2>1 DEF Accounted
    <2> QED
      BY <1>1, <2>5, <2>6, <2>11, <2>12, <2>13, <2>14 DEF Accounted
  <1> QED
    BY <1>8, <1>10, <1>11, <1>12 DEF IInv

\* The first half of the record.
LEMMA RecordInv ==
    ASSUME IInv, NEW p \in Peers, Record(p)
    PROVE  IInv'
  <1>1. /\ at[p] = "record" /\ at' = [at EXCEPT ![p] = "index"]
        /\ redis' = [redis EXCEPT ![p] = Acks!PutRecord(redis[p], sending[p].id)]
        /\ UNCHANGED <<table2, db, store, cursor, queue, plain, todo, sending, events,
                       asked, edits, faults, author, told, edited, hasty>>
    BY DEF Record, history
  <1>2. TypeOK /\ Grounded /\ author \in Peers
    BY BoundsAreNumbers DEF IInv, TypeOK
  <1>3. sending[p].id \in Ids /\ sending[p].id \in 1..events
    BY <1>1, <1>2, Shapes DEF InHand
  <1>4. /\ redis' \in [Peers -> Acks!Keyspace]
        /\ redis'[p].records = redis[p].records \cup {sending[p].id}
        /\ redis'[p].index = redis[p].index
        /\ \A q \in Peers \ {p} : redis'[q] = redis[q]
    <2> DEFINE k == Acks!PutRecord(redis[p], sending[p].id)
    <2>1. redis[p] \in Acks!Keyspace
      BY <1>2, Shapes
    <2>2. /\ k \in Acks!Keyspace /\ k.records = redis[p].records \cup {sending[p].id}
          /\ k.index = redis[p].index
      BY <1>3, <2>1 DEF Acks!PutRecord, Acks!Keyspace
    <2> HIDE DEF k
    <2>3. redis \in [Peers -> Acks!Keyspace] /\ redis' = [redis EXCEPT ![p] = k]
      BY <1>1, <1>2 DEF TypeOK, k
    <2> QED
      BY <2>2, <2>3
  <1>5. at'[p] = "index" /\ \A q \in Peers \ {p} : at'[q] = at[q]
    BY <1>1, <1>2 DEF TypeOK
  <1>6. TypeOK'
    BY <1>1, <1>2, <1>4 DEF TypeOK
  <1>7. \A q \in Peers :
           /\ In(q)' = In(q) /\ Owing(q)' = Owing(q)
           /\ PendingIds(q)' = PendingIds(q) /\ Plain(q)' = Plain(q)
           /\ \A t \in Peers : Status(q, t)' = Status(q, t)
    BY <1>1, <1>4 DEF In, Owing, PendingTargets, PendingIds, Plain, Status
  <1>8. Grounded'
    <2>1. \A q \in Peers : redis'[q].records \cup PendingIds(q)' \subseteq 1..events
      BY <1>2, <1>3, <1>4, <1>7 DEF Grounded
    <2>2. \A q \in Peers : InHand(q)' = InHand(q) /\ (at'[q] = "idle" <=> at[q] = "idle")
      BY <1>1, <1>5 DEF InHand
    <2> QED
      BY <1>1, <1>2, <1>7, <2>1, <2>2 DEF Grounded
  <1>9. Turns => Turns'
    <2>1. \A q \in Peers : InHand(q)' = InHand(q) /\ (at'[q] = "idle" <=> at[q] = "idle")
                           /\ (at'[q] = "apply" <=> at[q] = "apply")
                           /\ (at'[q] = "publish" <=> at[q] = "publish")
      BY <1>1, <1>5 DEF InHand
    <2>2. \A t \in Peers : \A m : WillApply(t, m)' = WillApply(t, m)
      BY <1>1 DEF WillApply
    <2>3. told \subseteq Peers /\ Owing(author)' = Owing(author) /\ In(author)' = In(author)
      BY <1>1, <1>2, <1>7 DEF TypeOK
    <2> QED
      BY <1>1, <1>2, <1>7, <2>1, <2>2, <2>3 DEF Turns, Untold
  <1>10. ASSUME Accounted
         PROVE  Accounted'
    <2>1. \A q, t \in Peers :
             /\ Live(q, t)' = Live(q, t) /\ LiveAcks(q, t)' = LiveAcks(q, t)
             /\ LiveEvents(q, t)' = LiveEvents(q, t)
      BY <1>7 DEF Live, LiveAcks, LiveEvents
    <2>2. \A q \in Peers : \A id : Awaits(q, id)' = Awaits(q, id)
      BY <1>1, <1>7, <2>1 DEF Awaits, Mute, AckKey
    <2>3. \A q \in Peers : Coming(q)' = Coming(q)
      BY <1>1, <1>5 DEF Coming
    <2>4. TodoIsApart'
      <3>1. \A q \in Peers : \A x \in todo[q] : x.to \in Peers
        BY <1>2, Shapes
      <3> QED
        BY <1>1, <1>7, <1>10, <2>1, <3>1 DEF Accounted, TodoIsApart
    <2>5. \A q \in Peers \ hasty :
             /\ PendingIds(q)' \subseteq redis'[q].records
             /\ at'[q] = "index" => sending[q].id \in redis'[q].records
      BY <1>4, <1>5, <1>7, <1>10 DEF Accounted
    <2>6. told' # {} /\ author \notin hasty =>
             \/ PendingIds(author)' \cup Coming(author)' # {}
             \/ Plain(author)' \in {NoPlain, NoRow}
      BY <1>1, <1>2, <1>7, <1>10, <2>3 DEF Accounted
    <2>7. \A q \in Peers \ hasty : \A id \in PendingIds(q)' \cup Coming(q)' : Awaits(q, id)'
      BY <1>7, <1>10, <2>2, <2>3 DEF Accounted
    <2> QED
      BY <1>1, <1>7, <1>10, <2>1, <2>4, <2>5, <2>6, <2>7 DEF Accounted
  <1>11. Mended' = Mended
    BY <1>1 DEF Mended
  <1> QED
    BY <1>6, <1>8, <1>9, <1>10, <1>11 DEF IInv

\* The second half: the event that was coming is pending now.
LEMMA IndexInv ==
    ASSUME IInv, NEW p \in Peers, Index(p)
    PROVE  IInv'
  <1>1. /\ at[p] = "index" /\ at' = [at EXCEPT ![p] = "mark"]
        /\ redis' = [redis EXCEPT ![p] = Acks!AddPending(redis[p], Client, sending[p].id)]
        /\ UNCHANGED <<table2, db, store, cursor, queue, plain, todo, sending, events,
                       asked, edits, faults, author, told, edited, hasty>>
    BY DEF Index, history
  <1>2. TypeOK /\ Grounded /\ author \in Peers
    BY BoundsAreNumbers DEF IInv, TypeOK
  <1>3. sending[p].id \in Ids /\ sending[p].id \in 1..events
    BY <1>1, <1>2, Shapes DEF InHand
  <1>4. /\ redis' \in [Peers -> Acks!Keyspace]
        /\ redis'[p].records = redis[p].records
        /\ PendingIds(p)' = PendingIds(p) \cup {sending[p].id}
        /\ \A q \in Peers \ {p} : redis'[q] = redis[q]
    <2> DEFINE k == Acks!AddPending(redis[p], Client, sending[p].id)
    <2>1. redis[p] \in Acks!Keyspace
      BY <1>2, Shapes
    <2>2. /\ k \in Acks!Keyspace /\ k.records = redis[p].records
          /\ k.index[Client] = PendingIds(p) \cup {sending[p].id}
      BY <1>3, <2>1 DEF Acks!AddPending, Acks!Keyspace, PendingIds
    <2> HIDE DEF k
    <2>3. redis \in [Peers -> Acks!Keyspace] /\ redis' = [redis EXCEPT ![p] = k]
      BY <1>1, <1>2 DEF TypeOK, k
    <2> QED
      BY <2>2, <2>3 DEF PendingIds
  <1>5. at'[p] = "mark" /\ \A q \in Peers \ {p} : at'[q] = at[q]
    BY <1>1, <1>2 DEF TypeOK
  <1>6. TypeOK'
    BY <1>1, <1>2, <1>4 DEF TypeOK
  <1>7. \A q \in Peers :
           /\ In(q)' = In(q) /\ Owing(q)' = Owing(q) /\ Plain(q)' = Plain(q)
           /\ \A t \in Peers : Status(q, t)' = Status(q, t)
           /\ q # p => PendingIds(q)' = PendingIds(q)
    BY <1>1, <1>4 DEF In, Owing, PendingTargets, PendingIds, Plain, Status
  <1>8. Grounded'
    <2>1. \A q \in Peers : redis'[q].records \cup PendingIds(q)' \subseteq 1..events
      BY <1>2, <1>3, <1>4, <1>7 DEF Grounded
    <2>2. \A q \in Peers : InHand(q)' = InHand(q) /\ (at'[q] = "idle" <=> at[q] = "idle")
      BY <1>1, <1>5 DEF InHand
    <2> QED
      BY <1>1, <1>2, <1>7, <2>1, <2>2 DEF Grounded
  <1>9. Turns => Turns'
    <2>1. \A q \in Peers : InHand(q)' = InHand(q) /\ (at'[q] = "idle" <=> at[q] = "idle")
                           /\ (at'[q] = "apply" <=> at[q] = "apply")
                           /\ (at'[q] = "publish" <=> at[q] = "publish")
      BY <1>1, <1>5 DEF InHand
    <2>2. \A t \in Peers : \A m : WillApply(t, m)' = WillApply(t, m)
      BY <1>1 DEF WillApply
    <2>3. told \subseteq Peers /\ Owing(author)' = Owing(author) /\ In(author)' = In(author)
      BY <1>1, <1>2, <1>7 DEF TypeOK
    <2> QED
      BY <1>1, <1>2, <1>7, <2>1, <2>2, <2>3 DEF Turns, Untold
  <1>10. ASSUME Accounted
         PROVE  Accounted'
    <2>1. \A q, t \in Peers :
             /\ Live(q, t)' = Live(q, t) /\ LiveAcks(q, t)' = LiveAcks(q, t)
             /\ LiveEvents(q, t)' = LiveEvents(q, t)
      BY <1>7 DEF Live, LiveAcks, LiveEvents
    <2>2. \A q \in Peers : \A id : Awaits(q, id)' = Awaits(q, id)
      BY <1>1, <1>7, <2>1 DEF Awaits, Mute, AckKey
    <2>3. \A q \in Peers : PendingIds(q)' \cup Coming(q)' = PendingIds(q) \cup Coming(q)
      <3>1. Coming(p) = {sending[p].id} /\ Coming(p)' = {}
        BY <1>1, <1>3, <1>5 DEF Coming
      <3>2. \A q \in Peers \ {p} : Coming(q)' = Coming(q)
        BY <1>1, <1>5 DEF Coming
      <3> QED
        BY <1>4, <1>7, <3>1, <3>2
    <2>4. TodoIsApart'
      <3>1. \A q \in Peers : \A x \in todo[q] : x.to \in Peers
        BY <1>2, Shapes
      <3> QED
        BY <1>1, <1>7, <1>10, <2>1, <3>1 DEF Accounted, TodoIsApart
    <2>5. \A q \in Peers \ hasty :
             /\ PendingIds(q)' \subseteq redis'[q].records
             /\ at'[q] = "index" => sending[q].id \in redis'[q].records
      BY <1>1, <1>4, <1>5, <1>7, <1>10 DEF Accounted
    <2>6. told' # {} /\ author \notin hasty =>
             \/ PendingIds(author)' \cup Coming(author)' # {}
             \/ Plain(author)' \in {NoPlain, NoRow}
      BY <1>1, <1>2, <1>7, <1>10, <2>3 DEF Accounted
    <2>7. \A q \in Peers \ hasty : \A id \in PendingIds(q)' \cup Coming(q)' : Awaits(q, id)'
      BY <1>10, <2>2, <2>3 DEF Accounted
    <2> QED
      BY <1>1, <1>7, <1>10, <2>1, <2>4, <2>5, <2>6, <2>7 DEF Accounted
  <1>11. Mended' = Mended
    BY <1>1 DEF Mended
  <1> QED
    BY <1>6, <1>8, <1>9, <1>10, <1>11 DEF IInv

\* The row is sent, and the pass owes its target nothing any more.
LEMMA MarkSentInv ==
    ASSUME IInv, NEW p \in Peers, MarkSent(p)
    PROVE  IInv'
  <1> DEFINE t0 == sending[p].to
             m0 == Mark(db[p], Client, t0, "sent")
  <1>1. /\ at[p] = "mark"
        /\ at' = [at EXCEPT ![p] = IF todo[p] = {} THEN "idle" ELSE "publish"]
        /\ db' = [db EXCEPT ![p] = m0]
        /\ sending' = [sending EXCEPT ![p] = None]
        /\ plain' = [plain EXCEPT ![p] = IF todo[p] = {} THEN NoPlain ELSE @]
        /\ UNCHANGED <<table2, redis, store, cursor, queue, todo, events, asked, edits,
                       faults, author, told, edited, hasty>>
    BY DEF MarkSent, history
  <1>2. TypeOK /\ Grounded /\ author \in Peers
    BY BoundsAreNumbers DEF IInv, TypeOK
  <1>3. t0 \in Peers
    BY <1>1, <1>2, Shapes DEF InHand
  <1>4. /\ m0 \in Tables /\ m0.plain[Client] = Plain(p)
        /\ \A q \in Peers : m0.status[Client][q] =
              IF q = t0 /\ Status(p, t0) # "none" THEN "sent" ELSE Status(p, q)
    <2>1. db[p] \in Tables /\ "sent" \in RowStatus
      BY <1>2, Shapes DEF RowStatus
    <2> QED
      BY <1>3, <2>1, MarkProperties DEF Plain, Status
  <1> HIDE DEF m0
  <1>5. /\ db' \in [Peers -> Tables] /\ db'[p] = m0
        /\ \A q \in Peers \ {p} : db'[q] = db[q]
    BY <1>1, <1>2, <1>4 DEF TypeOK
  <1>6. /\ at'[p] = (IF todo[p] = {} THEN "idle" ELSE "publish")
        /\ todo[p] # {} => plain'[p] = plain[p]
        /\ \A q \in Peers \ {p} :
              at'[q] = at[q] /\ sending'[q] = sending[q] /\ plain'[q] = plain[q]
    BY <1>1, <1>2 DEF TypeOK
  <1>7. TypeOK'
    BY <1>1, <1>2, <1>5 DEF TypeOK
  <1>8. \A q \in Peers :
           /\ In(q)' = In(q) /\ PendingIds(q)' = PendingIds(q) /\ Plain(q)' = Plain(q)
           /\ \A t \in Peers :
                 Status(q, t)' = IF q = p /\ t = t0 /\ Status(q, t) # "none"
                                 THEN "sent" ELSE Status(q, t)
    BY <1>1, <1>4, <1>5 DEF In, PendingIds, Plain, Status
  <1>9. Grounded'
    <2>1. \A q \in Peers : InHand(q)' => q # p /\ InHand(q)
      BY <1>6 DEF InHand
    <2> QED
      BY <1>1, <1>2, <1>6, <1>8, <2>1 DEF Grounded
  <1>10. \A q \in Peers :
            /\ Owing(q)' \subseteq Owing(q)
            /\ q = p => t0 \notin Owing(q)'
    <2>1. \A q \in Peers : Owing(q) = {t \in Peers : Status(q, t) = "pending"}
      BY <1>2, Shapes
    <2>2. \A q \in Peers : \A t \in Owing(q)' : t \in Peers /\ Status(q, t)' = "pending"
      BY DEF Owing, PendingTargets, Status
    <2> HIDE DEF t0
    <2> QED
      BY <1>8, <2>1, <2>2
  <1>11. ASSUME OperatorsWait
         PROVE  Turns'
    <2>1. Turns /\ p = author
      BY <1>1, <1>11 DEF IInv, Turns
    <2>2. \A t \in Owing(p)' : \E x \in todo[p] : x.to = t
      <3>1. \A t \in Owing(p) : \/ \E x \in todo[p] : x.to = t
                                \/ t0 = t
        BY <1>1, <2>1 DEF Turns
      <3> QED
        BY <1>10, <3>1
    <2>3. ~ Untold' /\ ~ InHand(p)'
      BY <1>1, <1>6, <2>1, <2>2 DEF Untold, InHand
    <2>4. \A q \in Peers : Owing(q)' # {} \/ at'[q] # "idle" => q = author
      BY <1>6, <1>10, <2>1 DEF Turns
    <2>5. at'[author] = "publish" => store[author] = Means(author, plain'[author])
      BY <1>1, <1>6, <2>1 DEF Turns, InHand
    <2>6. \A t \in Peers : \A m : WillApply(t, m)' = WillApply(t, m)
      BY <1>1 DEF WillApply
    <2>7. told \subseteq Peers
      BY <1>2 DEF TypeOK
    <2>8. /\ \A t \in told : store[t] = store[author] \/ \E m \in In(t)' : WillApply(t, m)'
          /\ \A q \in Peers : \A m \in In(q)' :
                m.op = "apply" => m.from = author /\ m.hash = store[author]
          /\ author \notin told
      BY <1>8, <2>1, <2>6, <2>7 DEF Turns
    <2> QED
      BY <1>1, <2>1, <2>2, <2>3, <2>4, <2>5, <2>8 DEF Turns
  <1>12. ASSUME Accounted
         PROVE  Accounted'
    <2>1. \A q, t \in Peers :
             /\ Live(q, t)' = Live(q, t) /\ LiveAcks(q, t)' = LiveAcks(q, t)
             /\ LiveEvents(q, t)' = LiveEvents(q, t)
      BY <1>8 DEF Live, LiveAcks, LiveEvents
    <2>2. \A q, t \in Peers :
             Status(q, t) \in {"pending", "sent"} => Status(q, t)' \in {"pending", "sent"}
      BY <1>8
    <2>3. \A q \in Peers : \A id : Awaits(q, id) => Awaits(q, id)'
      BY <1>1, <2>1, <2>2 DEF Awaits, Mute, AckKey
    <2>4. \A q \in Peers : Coming(q)' = Coming(q)
      BY <1>1, <1>6 DEF Coming
    <2>5. TodoIsApart'
      <3>1. \A q \in Peers : \A x \in todo[q] : x.to \in Peers
        BY <1>2, Shapes
      <3> QED
        BY <1>1, <1>12, <2>1, <2>2, <3>1 DEF Accounted, TodoIsApart
    <2>6. \A q \in Peers \ hasty : at'[q] = "index" => sending'[q].id \in redis[q].records
      BY <1>6, <1>12 DEF Accounted
    <2>7. \A q \in Peers \ hasty : \A id \in PendingIds(q)' \cup Coming(q)' : Awaits(q, id)'
      BY <1>8, <1>12, <2>3, <2>4 DEF Accounted
    <2>8. told' # {} /\ author \notin hasty =>
             \/ PendingIds(author)' \cup Coming(author)' # {}
             \/ Plain(author)' \in {NoPlain, NoRow}
      BY <1>1, <1>2, <1>8, <1>12, <2>4 DEF Accounted
    <2> QED
      BY <1>1, <1>8, <1>12, <2>1, <2>5, <2>6, <2>7, <2>8 DEF Accounted
  <1>13. Mended' = Mended
    BY <1>1 DEF Mended
  <1> QED
    BY <1>7, <1>9, <1>11, <1>12, <1>13 DEF IInv
-----------------------------------------------------------------------------
(***************************************************************************)
(* Messages                                                                *)
(***************************************************************************)

\* The message at hand is the one that leaves the queue, if any does.
LEMMA MessageAtHand ==
    ASSUME TypeOK, NEW p \in Peers, queue[p] # <<>>
    PROVE  /\ Head(queue[p]) \in Message /\ Head(queue[p]) \in In(p)
           /\ Tail(queue[p]) \in Seq(Message)
           /\ In(p) = {Head(queue[p])} \cup ToSet(Tail(queue[p]))
  <1>1. queue[p] \in Seq(Message)
    BY Shapes
  <1> QED
    BY <1>1, HeadTail DEF In

\* A message that fails the comparison of secrets was no live one.
LEMMA DropForeignInv ==
    ASSUME IInv, NEW p \in Peers, queue[p] # <<>>, DropForeign(p)
    PROVE  IInv'
  <1> DEFINE h == Head(queue[p])
  <1>1. /\ queue' = [queue EXCEPT ![p] = Tail(queue[p])]
        /\ h.key # "right"
        /\ UNCHANGED <<table2, db, redis, store, cursor, at, plain, todo, sending,
                       events, asked, edits, faults, author, told, edited, hasty>>
    BY DEF DropForeign, pass, history
  <1> HIDE DEF h
  <1>2. /\ Tail(queue[p]) \in Seq(Message)
        /\ In(p) = {h} \cup ToSet(Tail(queue[p]))
        /\ queue \in [Peers -> Seq(Message)] /\ TypeOK
    BY MessageAtHand DEF IInv, TypeOK, h
  <1>3. /\ queue' \in [Peers -> Seq(Message)] /\ queue'[p] = Tail(queue[p])
        /\ \A q \in Peers \ {p} : queue'[q] = queue[q]
    BY <1>1, <1>2
  <1>4. /\ \A q \in Peers : In(q)' \subseteq In(q)
        /\ \A q \in Peers : \A m \in In(q) : m.key = "right" => m \in In(q)'
    BY <1>1, <1>2, <1>3 DEF In
  <1>5. \A q \in Peers : /\ Owing(q)' = Owing(q) /\ PendingIds(q)' = PendingIds(q)
                         /\ Plain(q)' = Plain(q)
                         /\ \A t \in Peers : Status(q, t)' = Status(q, t)
    BY <1>1 DEF Owing, PendingTargets, PendingIds, Plain, Status
  <1>6. TypeOK'
    BY <1>1, <1>3 DEF IInv, TypeOK
  <1>7. Grounded'
    BY <1>1, <1>4, <1>5 DEF IInv, Grounded, InHand
  <1>8. ASSUME OperatorsWait
        PROVE  Turns'
    <2>1. Turns /\ author \in Peers
      BY <1>2, <1>8, BoundsAreNumbers DEF IInv, TypeOK
    <2>2. \A t \in told : store[t] = store[author] \/ \E m \in In(t)' : WillApply(t, m)'
      BY <1>1, <1>2, <1>4, <2>1 DEF Turns, TypeOK, WillApply
    <2>3. ~ Untold
      BY <2>1 DEF Turns
    <2>4. \A q \in Peers : \A m \in In(q)' :
             m.op = "apply" => m.from = author /\ m.hash = store[author]
      BY <1>4, <2>1 DEF Turns
    <2> QED
      BY <1>1, <1>2, <1>5, <2>1, <2>2, <2>3, <2>4, TurnsFrame
  <1>9. ASSUME OperatorsWait, ~ Mended'
        PROVE  Accounted'
    <2>1. Accounted /\ author \in Peers
      BY <1>1, <1>2, <1>9, BoundsAreNumbers DEF IInv, Mended, TypeOK
    <2>2. \A q, t \in Peers : /\ LiveEvents(q, t)' = LiveEvents(q, t)
                              /\ LiveAcks(q, t)' = LiveAcks(q, t)
      BY <1>4 DEF LiveEvents, LiveAcks
    <2>3. \A q, t \in Peers : Live(q, t)' = Live(q, t) /\ Mute(q, t)' = Mute(q, t)
      BY <1>1, <2>2 DEF Live, Mute, AckKey
    <2>4. \A q \in Peers : \A id : Awaits(q, id)' = Awaits(q, id)
      BY <1>5, <2>3 DEF Awaits
    <2>5. \A q \in Peers \ hasty :
             /\ PendingIds(q)' \subseteq redis'[q].records
             /\ at[q] = "index" => sending[q].id \in redis'[q].records
             /\ \A id \in PendingIds(q)' \cup Coming(q) : Awaits(q, id)'
      BY <1>1, <1>5, <2>1, <2>4 DEF Accounted
    <2>6. /\ \A q \in Full, t \in Peers : table2'[q][t] # "none"
          /\ \A q, t \in Peers : \A m, n \in Live(q, t)' : m.eventId = n.eventId
      BY <1>1, <2>1, <2>3 DEF Accounted
    <2> QED
      BY <1>1, <1>2, <1>5, <2>1, <2>3, <2>5, <2>6, AccountedFrame
  <1> QED
    BY <1>6, <1>7, <1>8, <1>9 DEF IInv

\* What taking an event does to the queues: the event leaves, if it is settled,
\* and its answer goes to where it came from.
LEMMA TakeEventEffect ==
    ASSUME TypeOK, Grounded, NEW p \in Peers, queue[p] # <<>>, TakeEvent(p),
           NEW e, e = Head(queue[p])
    PROVE  LET ack == [op |-> "ack", eventId |-> e.eventId, from |-> p,
                       key |-> AckKey(p, e.from)]
           IN  /\ e \in In(p) /\ e \in Message /\ e.op = "apply" /\ e.key = "right"
               /\ e.from \in Peers \ {p} /\ e.ts = e.eventId /\ e.ts <= events
               /\ ack \in Message
               /\ queue' \in [Peers -> Seq(Message)]
               /\ In(p)' \subseteq In(p) /\ In(p) \subseteq In(p)' \cup {e}
               /\ In(e.from)' = In(e.from) \cup {ack}
               /\ \A q \in Peers \ {p, e.from} : In(q)' = In(q)
               /\ faults' \in 0..MaxFaults
  <1> DEFINE ack == [op |-> "ack", eventId |-> e.eventId, from |-> p,
                     key |-> AckKey(p, e.from)]
             T == Tail(queue[p])
             A == Append(queue[e.from], ack)
  <1>1. /\ e \in Message /\ e \in In(p) /\ e.op = "apply" /\ e.key = "right"
        /\ T \in Seq(Message) /\ In(p) = {e} \cup ToSet(T)
        /\ queue \in [Peers -> Seq(Message)]
    BY MessageAtHand DEF TakeEvent, TypeOK
  <1>2. e.from \in Peers /\ e.eventId \in Ids
    BY <1>1 DEF Message
  <1>3. e.from # p /\ e.ts = e.eventId /\ e.ts <= events
    BY <1>1 DEF Grounded
  <1>4. ack \in Message
    BY <1>2 DEF Message, AckKey, Entries, TypeOK
  <1>5. \/ /\ queue' = [queue EXCEPT ![p] = T, ![e.from] = A]
           /\ UNCHANGED faults
        \/ /\ faults < MaxFaults /\ faults' = faults + 1
           /\ queue' = [queue EXCEPT ![e.from] = A]
    BY <1>2, <1>3 DEF TakeEvent
  <1> HIDE DEF ack, T
  <1>6. A \in Seq(Message) /\ ToSet(A) = ToSet(queue[e.from]) \cup {ack}
    BY <1>1, <1>2, <1>4, ToSetAppend
  <1> HIDE DEF A
  <1>7. /\ queue' \in [Peers -> Seq(Message)]
        /\ queue'[p] \in {T, queue[p]} /\ queue'[e.from] = A
        /\ \A q \in Peers \ {p, e.from} : queue'[q] = queue[q]
    BY <1>1, <1>2, <1>3, <1>5, <1>6, ZenonT(40)
  <1>8. /\ In(p)' \subseteq In(p) /\ In(p) \subseteq In(p)' \cup {e}
        /\ In(e.from)' = In(e.from) \cup {ack}
        /\ \A q \in Peers \ {p, e.from} : In(q)' = In(q)
    BY <1>1, <1>6, <1>7 DEF In
  <1>9. faults' \in 0..MaxFaults
    BY <1>5, BoundsAreNumbers DEF TypeOK
  <1> QED
    BY <1>1, <1>2, <1>3, <1>4, <1>7, <1>8, <1>9 DEF ack

\* A target takes the hash of the author, and its answer replaces the event.
LEMMA TakeEventInv ==
    ASSUME IInv, NEW p \in Peers, queue[p] # <<>>, TakeEvent(p)
    PROVE  IInv'
  <1>0. PICK e : e = Head(queue[p])
    OBVIOUS
  <1> DEFINE ack == [op |-> "ack", eventId |-> e.eventId, from |-> p,
                     key |-> AckKey(p, e.from)]
             fresh == IsStrictlyNewer(cursor[p], PositionOf(e))
  <1>1. /\ e \in In(p) /\ e \in Message /\ e.op = "apply" /\ e.key = "right"
        /\ e.from \in Peers \ {p} /\ e.ts = e.eventId /\ e.ts <= events
        /\ ack \in Message
        /\ queue' \in [Peers -> Seq(Message)]
        /\ In(p)' \subseteq In(p) /\ In(p) \subseteq In(p)' \cup {e}
        /\ In(e.from)' = In(e.from) \cup {ack}
        /\ \A q \in Peers \ {p, e.from} : In(q)' = In(q)
        /\ faults' \in 0..MaxFaults
    BY <1>0, TakeEventEffect DEF IInv
  <1>2. /\ store' = IF fresh THEN [store EXCEPT ![p] = e.hash] ELSE store
        /\ cursor' = IF fresh THEN [cursor EXCEPT ![p] = PositionOf(e)] ELSE cursor
        /\ UNCHANGED <<table2, db, redis, at, plain, todo, sending, events, asked,
                       edits, author, told, edited, hasty>>
    BY <1>0 DEF TakeEvent, pass, history
  <1>3. ack.op = "ack" /\ ack.from = p /\ ack.key = AckKey(p, e.from)
        /\ ack.eventId = e.eventId
    OBVIOUS
  <1> HIDE DEF ack, fresh
  <1>4. /\ TypeOK /\ Grounded /\ author \in Peers
        /\ store \in [Peers -> Hashes] /\ cursor \in [Peers -> Cursors]
    BY BoundsAreNumbers DEF IInv, TypeOK
  <1>5. e.hash \in Hashes /\ PositionOf(e) \in Position /\ PositionOf(e).ts = e.ts
    BY <1>1 DEF Message, PositionOf, Position, Ids
  <1>6. /\ store' \in [Peers -> Hashes] /\ cursor' \in [Peers -> Cursors]
        /\ \A q \in Peers \ {p} : store'[q] = store[q] /\ cursor'[q] = cursor[q]
        /\ IF fresh THEN store'[p] = e.hash /\ cursor'[p] = PositionOf(e)
           ELSE store'[p] = store[p] /\ cursor'[p] = cursor[p]
    BY <1>2, <1>4, <1>5 DEF Cursors
  <1>7. TypeOK'
    BY <1>1, <1>2, <1>4, <1>6 DEF TypeOK
  <1>8. \A q \in Peers : /\ Owing(q)' = Owing(q) /\ PendingIds(q)' = PendingIds(q)
                         /\ Plain(q)' = Plain(q)
                         /\ \A t \in Peers : Status(q, t)' = Status(q, t)
    BY <1>2 DEF Owing, PendingTargets, PendingIds, Plain, Status
  <1>9. \A q \in Peers : \A m \in In(q)' : m \in In(q) \/ (q = e.from /\ m = ack)
    BY <1>1
  <1>10. \A q \in Peers : \A m \in In(q) : m \in In(q)' \/ (q = p /\ m = e)
    BY <1>1
  <1>11. Grounded'
    <2>1. \A q \in Peers : cursor'[q] # NoCursor => cursor'[q].ts <= events'
      BY <1>1, <1>2, <1>4, <1>5, <1>6 DEF Grounded
    <2>2. \A q \in Peers : \A m \in In(q)' : m.op = "apply" =>
             m.ts = m.eventId /\ m.ts <= events' /\ m.from # q
      BY <1>2, <1>3, <1>4, <1>9 DEF Grounded
    <2> QED
      BY <1>2, <1>4, <1>8, <2>1, <2>2 DEF Grounded, InHand
  <1>12. ASSUME OperatorsWait
         PROVE  Turns'
    <2>1. Turns
      BY <1>12 DEF IInv
    <2>2. e.from = author /\ e.hash = store[author] /\ author # p
          /\ store'[author] = store[author]
      BY <1>1, <1>4, <1>6, <2>1 DEF Turns
    <2>3. ~ Untold
      BY <1>1, <2>1, Shapes, <1>4 DEF Turns
    <2>4. \A q \in Peers : \A m \in In(q)' :
             m.op = "apply" => m.from = author /\ m.hash = store[author]
      BY <1>3, <1>9, <2>1 DEF Turns
    <2>5. ASSUME NEW t \in told
          PROVE  store'[t] = store[author] \/ \E m \in In(t)' : WillApply(t, m)'
      <3>1. t \in Peers /\ (store[t] = store[author]
                            \/ \E m \in In(t) : WillApply(t, m))
        BY <1>4, <2>1 DEF Turns, TypeOK
      <3>2. CASE t = p /\ fresh
        BY <1>2, <1>6, <2>2, <3>2
      <3>3. CASE ~ (t = p /\ fresh)
        <4>1. store'[t] = store[t] /\ cursor'[t] = cursor[t]
          BY <1>6, <3>1, <3>3
        <4>2. CASE store[t] = store[author]
          BY <1>2, <2>2, <4>1, <4>2
        <4>3. ASSUME NEW m \in In(t), WillApply(t, m)
              PROVE  m \in In(t)' /\ WillApply(t, m)'
          <5>1. ~ (t = p /\ m = e)
            BY <3>3, <4>3 DEF WillApply, fresh
          <5> QED
            BY <1>10, <3>1, <4>1, <4>3, <5>1 DEF WillApply
        <4> QED
          BY <3>1, <4>2, <4>3
      <3> QED
        BY <3>2, <3>3
    <2> QED
      BY <1>2, <1>4, <1>8, <2>1, <2>2, <2>3, <2>4, <2>5, TurnsFrame
  <1>13. ASSUME OperatorsWait, ~ Mended'
         PROVE  Accounted'
    <2>1. Accounted
      BY <1>2, <1>13 DEF IInv, Mended
    <2>2. e \in LiveEvents(e.from, p)
      BY <1>1 DEF LiveEvents
    <2>3. \A q, t \in Peers :
             /\ LiveEvents(q, t)' \subseteq LiveEvents(q, t)
             /\ \A m \in LiveEvents(q, t) :
                   m \in LiveEvents(q, t)' \/ (q = e.from /\ t = p /\ m = e)
      BY <1>3, <1>9, <1>10 DEF LiveEvents
    <2>4. \A q, t \in Peers :
             /\ LiveAcks(q, t) \subseteq LiveAcks(q, t)'
             /\ \A m \in LiveAcks(q, t)' :
                   m \in LiveAcks(q, t) \/ (q = e.from /\ t = p /\ m = ack /\ m.key = "right")
      BY <1>1, <1>3, <1>9, <1>10 DEF LiveAcks
    <2>5. \A q, t \in Peers : \A m \in Live(q, t)' :
             \E n \in Live(q, t) : n.eventId = m.eventId
      BY <1>3, <2>2, <2>3, <2>4 DEF Live
    <2>6. \A q, t \in Peers : \A m, n \in Live(q, t)' : m.eventId = n.eventId
      BY <2>1, <2>5 DEF Accounted
    <2>7. \A q, t \in Peers : AckKey(t, q)' = AckKey(t, q) /\ table2'[q][t] = table2[q][t]
      BY <1>2 DEF AckKey
    <2>8. ASSUME NEW q \in Peers, NEW t \in Peers, Mute(q, t)
          PROVE  Mute(q, t)'
      <3>1. LiveAcks(q, t)' = {}
        BY <1>3, <2>2, <2>4, <2>8 DEF Mute
      <3> QED
        BY <1>2, <2>3, <2>7, <2>8, <3>1 DEF Mute
    <2>9. ASSUME NEW q \in Peers, NEW t \in Peers, NEW m \in Live(q, t)
          PROVE  Mute(q, t)' \/ \E n \in Live(q, t)' : n.eventId = m.eventId
      <3>1. CASE m \in Live(q, t)'
        BY <3>1
      <3>2. CASE m \notin Live(q, t)'
        <4>1. q = e.from /\ t = p /\ m = e
          BY <2>3, <2>4, <2>9, <3>2 DEF Live
        <4>2. CASE AckKey(p, e.from) = "right"
          <5>1. ack \in LiveAcks(q, t)'
            BY <1>1, <1>3, <4>1, <4>2 DEF LiveAcks
          <5> QED
            BY <1>3, <4>1, <5>1 DEF Live
        <4>3. CASE AckKey(p, e.from) # "right" /\ LiveAcks(q, t)' = {}
          BY <2>7, <4>1, <4>3 DEF Mute
        <4>4. ASSUME NEW n \in LiveAcks(q, t)'
              PROVE  n \in Live(q, t)' /\ n.eventId = m.eventId
          BY <1>3, <2>1, <2>4, <4>1, <4>4 DEF Live, Accounted
        <4> QED
          BY <4>2, <4>3, <4>4
      <3> QED
        BY <3>1, <3>2
    <2>10. \A q \in Peers \ hasty : \A id \in PendingIds(q)' \cup Coming(q) : Awaits(q, id)'
      <3> SUFFICES ASSUME NEW q \in Peers \ hasty, NEW id \in PendingIds(q) \cup Coming(q)
                   PROVE  Awaits(q, id)'
        BY <1>8
      <3>1. PICK t \in Peers : /\ Status(q, t) \in {"pending", "sent"}
                               /\ Mute(q, t) \/ \E m \in Live(q, t) : m.eventId = id
        BY <2>1 DEF Accounted, Awaits
      <3>2. Mute(q, t)' \/ \E n \in Live(q, t)' : n.eventId = id
        BY <2>8, <2>9, <3>1
      <3> QED
        BY <1>8, <3>1, <3>2 DEF Awaits
    <2>11. \A q \in Peers \ hasty : /\ PendingIds(q)' \subseteq redis'[q].records
                                    /\ at[q] = "index" => sending[q].id \in redis'[q].records
      BY <1>2, <1>8, <2>1 DEF Accounted
    <2>12. \A q \in Full, t \in Peers : table2'[q][t] # "none"
      BY <1>2, <2>1 DEF Accounted
    <2>13. \A q, t \in Peers : Live(q, t) = {} => Live(q, t)' = {}
      BY <2>5
    <2> QED
      BY <1>2, <1>4, <1>8, <2>1, <2>6, <2>10, <2>11, <2>12, <2>13, AccountedFrame
  <1> QED
    BY <1>7, <1>11, <1>12, <1>13 DEF IInv

\* What taking an acknowledgement does: the answered row has its verdict and
\* the event is off the record; the plain secret goes with the last one.
LEMMA TakeAckEffect ==
    ASSUME TypeOK, Grounded, NEW p \in Peers, queue[p] # <<>>, TakeAck(p),
           NEW a, a = Head(queue[p])
    PROVE  /\ a \in In(p) /\ a.op = "ack" /\ a.key = "right" /\ a.from \in Peers
           /\ queue' \in [Peers -> Seq(Message)] /\ faults' \in 0..MaxFaults
           /\ In(p)' \subseteq In(p) /\ In(p) \subseteq In(p)' \cup {a}
           /\ \A q \in Peers \ {p} : In(q)' = In(q)
           /\ db' \in [Peers -> Tables] /\ redis' \in [Peers -> Acks!Keyspace]
           /\ \A q \in Peers \ {p} : db'[q] = db[q] /\ redis'[q] = redis[q]
           /\ \A t \in Peers : \/ Status(p, t)' = Status(p, t)
                               \/ /\ t = a.from /\ Status(p, t) # "none"
                                  /\ Status(p, t)' = "success"
           /\ Plain(p)' = Plain(p) \/ (Plain(p)' \in {NoPlain, NoRow}
                                       /\ (Plain(p)' = NoRow => Plain(p) = NoRow))
           /\ redis'[p].records \subseteq redis[p].records
           /\ redis[p].records \ {a.eventId} \subseteq redis'[p].records
           /\ PendingIds(p)' \subseteq PendingIds(p)
           /\ PendingIds(p) \subseteq redis[p].records => a.eventId \notin PendingIds(p)'
           /\ \/ Plain(p)' \in {NoPlain, NoRow}
              \/ Plain(p)' = Plain(p) /\ (PendingIds(p) # {} => PendingIds(p)' # {})
  <1>1. /\ a \in Message /\ a \in In(p) /\ a.op = "ack" /\ a.key = "right"
        /\ Tail(queue[p]) \in Seq(Message) /\ In(p) = {a} \cup ToSet(Tail(queue[p]))
        /\ queue \in [Peers -> Seq(Message)] /\ db \in [Peers -> Tables]
        /\ redis \in [Peers -> Acks!Keyspace] /\ faults \in 0..MaxFaults
    BY MessageAtHand DEF TakeAck, TypeOK
  <1>2. a.from \in Peers /\ a.eventId \in Ids
    BY <1>1 DEF Message
  <1>3. /\ queue' \in [Peers -> Seq(Message)] /\ faults' \in 0..MaxFaults
        /\ In(p)' \subseteq In(p) /\ In(p) \subseteq In(p)' \cup {a}
        /\ \A q \in Peers \ {p} : In(q)' = In(q)
    <2>1. SettleOrRepeat(p)
      BY DEF TakeAck
    <2>2. CASE queue' = [queue EXCEPT ![p] = Tail(queue[p])] /\ UNCHANGED faults
      BY <1>1, <2>2 DEF In
    <2>3. CASE faults < MaxFaults /\ faults' = faults + 1 /\ UNCHANGED queue
      BY <1>1, <2>3, BoundsAreNumbers DEF In
    <2> QED
      BY <2>1, <2>2, <2>3 DEF SettleOrRepeat
  <1> DEFINE recorded == Acks!PutResult(redis[p], Client, a.from, "success", a.eventId)
             marked == Mark(db[p], Client, a.from, "success")
  <1>4. IF Acks!Known(redis[p], a.eventId)
        THEN IF LastAnswer(p, a.eventId)
             THEN /\ db' = [db EXCEPT ![p] = ClearPlain(marked, Client)]
                  /\ redis' = [redis EXCEPT ![p] = Acks!ClearAggregates(recorded, Client)]
             ELSE /\ db' = [db EXCEPT ![p] = marked]
                  /\ redis' = [redis EXCEPT ![p] = recorded]
        ELSE UNCHANGED <<db, redis>>
    BY DEF TakeAck
  <1>5. /\ marked \in Tables /\ marked.plain[Client] = Plain(p)
        /\ \A t \in Peers : marked.status[Client][t] =
              IF t = a.from /\ Status(p, t) # "none" THEN "success" ELSE Status(p, t)
    <2>1. db[p] \in Tables /\ "success" \in RowStatus
      BY <1>1 DEF RowStatus
    <2> QED
      BY <1>2, <2>1, MarkProperties DEF Plain, Status
  <1>6. /\ recorded \in Acks!Keyspace
        /\ recorded.records = redis[p].records \ {a.eventId}
        /\ recorded.index[Client] = PendingIds(p) \ {a.eventId}
    <2>1. /\ redis[p].records \subseteq Ids
          /\ redis[p].index \in [{Client} -> SUBSET Ids]
          /\ redis[p].results \in [{Client} -> [Peers -> Acks!Result \cup {"none"}]]
      BY <1>1 DEF Acks!Keyspace
    <2>2. [redis[p].results EXCEPT ![Client][a.from] = "success"]
             \in [{Client} -> [Peers -> Acks!Result \cup {"none"}]]
      BY <1>2, <2>1 DEF Acks!Result
    <2> QED
      BY <2>1, <2>2 DEF Acks!PutResult, Acks!Keyspace, PendingIds
  <1> HIDE DEF recorded, marked
  <1>8. CASE ~ Acks!Known(redis[p], a.eventId)
    <2>1. UNCHANGED <<db, redis>> /\ a.eventId \notin redis[p].records
      BY <1>4, <1>8 DEF Acks!Known
    <2> QED
      BY <1>1, <1>2, <1>3, <2>1 DEF Status, Plain, PendingIds
  <1>9. CASE Acks!Known(redis[p], a.eventId) /\ ~ LastAnswer(p, a.eventId)
    <2>1. /\ db' = [db EXCEPT ![p] = marked]
          /\ redis' = [redis EXCEPT ![p] = recorded]
      BY <1>4, <1>9
    <2>2. /\ db' \in [Peers -> Tables] /\ db'[p] = marked
          /\ redis' \in [Peers -> Acks!Keyspace] /\ redis'[p] = recorded
          /\ \A q \in Peers \ {p} : db'[q] = db[q] /\ redis'[q] = redis[q]
      BY <1>1, <1>5, <1>6, <2>1
    <2>3. PendingIds(p)' = PendingIds(p) \ {a.eventId} /\ PendingIds(p)' # {}
      BY <1>6, <1>9, <2>2 DEF LastAnswer, PendingIds
    <2> QED
      BY <1>1, <1>2, <1>3, <1>5, <1>6, <2>2, <2>3 DEF Status, Plain
  <1>10. CASE Acks!Known(redis[p], a.eventId) /\ LastAnswer(p, a.eventId)
    <2> DEFINE c == ClearPlain(marked, Client)
               k == Acks!ClearAggregates(recorded, Client)
    <2>1. /\ db' = [db EXCEPT ![p] = c] /\ redis' = [redis EXCEPT ![p] = k]
      BY <1>4, <1>10
    <2>2. /\ c \in Tables /\ c.status = marked.status
          /\ c.plain[Client] \in {NoPlain, NoRow}
          /\ marked.plain[Client] # NoRow => c.plain[Client] # NoRow
      BY <1>5, ClearPlainProperties
    <2>3. /\ k \in Acks!Keyspace /\ k.records = recorded.records
          /\ k.index[Client] = {}
      BY <1>6 DEF Acks!ClearAggregates, Acks!Keyspace, Acks!NoResults
    <2> HIDE DEF c, k
    <2>4. /\ db' \in [Peers -> Tables] /\ db'[p] = c
          /\ redis' \in [Peers -> Acks!Keyspace] /\ redis'[p] = k
          /\ \A q \in Peers \ {p} : db'[q] = db[q] /\ redis'[q] = redis[q]
      BY <1>1, <2>1, <2>2, <2>3
    <2> QED
      BY <1>1, <1>2, <1>3, <1>5, <1>6, <2>2, <2>3, <2>4 DEF Status, Plain, PendingIds
  <1> QED
    BY <1>8, <1>9, <1>10

\* An answer settles its own event and no other.
LEMMA TakeAckInv ==
    ASSUME IInv, NEW p \in Peers, queue[p] # <<>>, TakeAck(p)
    PROVE  IInv'
  <1>0. PICK a : a = Head(queue[p])
    OBVIOUS
  <1>1. /\ a \in In(p) /\ a.op = "ack" /\ a.key = "right" /\ a.from \in Peers
        /\ queue' \in [Peers -> Seq(Message)] /\ faults' \in 0..MaxFaults
        /\ In(p)' \subseteq In(p) /\ In(p) \subseteq In(p)' \cup {a}
        /\ \A q \in Peers \ {p} : In(q)' = In(q)
        /\ db' \in [Peers -> Tables] /\ redis' \in [Peers -> Acks!Keyspace]
        /\ \A q \in Peers \ {p} : db'[q] = db[q] /\ redis'[q] = redis[q]
        /\ \A t \in Peers : \/ Status(p, t)' = Status(p, t)
                            \/ /\ t = a.from /\ Status(p, t) # "none"
                               /\ Status(p, t)' = "success"
        /\ Plain(p)' = Plain(p) \/ (Plain(p)' \in {NoPlain, NoRow}
                                    /\ (Plain(p)' = NoRow => Plain(p) = NoRow))
        /\ redis'[p].records \subseteq redis[p].records
        /\ redis[p].records \ {a.eventId} \subseteq redis'[p].records
        /\ PendingIds(p)' \subseteq PendingIds(p)
        /\ PendingIds(p) \subseteq redis[p].records => a.eventId \notin PendingIds(p)'
        /\ \/ Plain(p)' \in {NoPlain, NoRow}
           \/ Plain(p)' = Plain(p) /\ (PendingIds(p) # {} => PendingIds(p)' # {})
    BY <1>0, TakeAckEffect DEF IInv
  <1>2. /\ UNCHANGED <<table2, store, cursor, at, plain, todo, sending, events, asked,
                       edits, author, told, edited>>
        /\ hasty' = hasty \cup {q \in {p} : /\ at[q] \in {"record", "index"}
                                            /\ sending[q].id = a.eventId}
    BY <1>0 DEF TakeAck, pass
  <1>3. TypeOK /\ Grounded /\ author \in Peers
    BY BoundsAreNumbers DEF IInv, TypeOK
  <1>4. TypeOK'
    <2>1. hasty' \subseteq Peers
      BY <1>2, <1>3 DEF TypeOK
    <2> QED
      BY <1>1, <1>2, <1>3, <2>1 DEF TypeOK
  <1>5. \A q \in Peers : /\ In(q)' \subseteq In(q)
                         /\ \A m \in In(q) : m \in In(q)' \/ (q = p /\ m = a)
    BY <1>1
  <1>6. \A q \in Peers \ {p} : /\ PendingIds(q)' = PendingIds(q) /\ Plain(q)' = Plain(q)
                               /\ \A t \in Peers : Status(q, t)' = Status(q, t)
    BY <1>1 DEF PendingIds, Plain, Status
  <1>7. Grounded'
    <2> SUFFICES ASSUME NEW q \in Peers
                 PROVE  /\ \A t \in Peers : Status(q, t)' # "none" => Plain(q)' # NoRow
                        /\ Status(q, q)' = "none"
                        /\ redis'[q].records \cup PendingIds(q)' \subseteq 1..events'
                        /\ cursor'[q] # NoCursor => cursor'[q].ts <= events'
                        /\ \A m \in In(q)' : m.op = "apply" =>
                              m.ts = m.eventId /\ m.ts <= events' /\ m.from # q
      BY <1>2, <1>3 DEF Grounded, InHand
    <2>1. /\ \A t \in Peers : Status(q, t) # "none" => Plain(q) # NoRow
          /\ Status(q, q) = "none"
          /\ redis[q].records \cup PendingIds(q) \subseteq 1..events
          /\ cursor[q] # NoCursor => cursor[q].ts <= events
          /\ \A m \in In(q) : m.op = "apply" =>
                m.ts = m.eventId /\ m.ts <= events /\ m.from # q
      BY <1>3 DEF Grounded
    <2>2. CASE q = p
      BY <1>1, <1>2, <2>1, <2>2
    <2>3. CASE q # p
      BY <1>1, <1>2, <1>6, <2>1, <2>3
    <2> QED
      BY <2>2, <2>3
  <1>8. \A q \in Peers : Owing(q)' \subseteq Owing(q)
    <2>1. \A q \in Peers : Owing(q) = {t \in Peers : Status(q, t) = "pending"}
      BY <1>3, Shapes
    <2>2. \A q \in Peers : \A t \in Owing(q)' : t \in Peers /\ Status(q, t)' = "pending"
      BY DEF Owing, PendingTargets, Status
    <2>3. \A q, t \in Peers : Status(q, t)' = "pending" => Status(q, t) = "pending"
      BY <1>1, <1>6
    <2> QED
      BY <2>1, <2>2, <2>3
  <1>9. ASSUME OperatorsWait
        PROVE  Turns'
    <2>1. Turns
      BY <1>9 DEF IInv
    <2>2. ~ Untold
      BY <1>1, <1>3, <2>1, Shapes DEF Turns
    <2>3. ASSUME NEW t \in told
          PROVE  store[t] = store[author] \/ \E m \in In(t)' : WillApply(t, m)'
      <3>1. t \in Peers
        BY <1>3 DEF TypeOK
      <3>2. ASSUME NEW m \in In(t), WillApply(t, m)
            PROVE  m \in In(t)' /\ WillApply(t, m)'
        BY <1>1, <1>2, <1>5, <3>1, <3>2 DEF WillApply
      <3> QED
        BY <2>1, <3>2 DEF Turns
    <2>4. \A q \in Peers : \A m \in In(q)' :
             m.op = "apply" => m.from = author /\ m.hash = store[author]
      BY <1>5, <2>1 DEF Turns
    <2> QED
      BY <1>2, <1>3, <1>8, <2>1, <2>2, <2>3, <2>4, TurnsFrame
  <1>10. ASSUME OperatorsWait, ~ Mended'
         PROVE  Accounted'
    <2>1. Accounted
      BY <1>2, <1>10 DEF IInv, Mended
    <2>2. \A q, t \in Peers :
             /\ LiveEvents(q, t)' = LiveEvents(q, t)
             /\ LiveAcks(q, t)' \subseteq LiveAcks(q, t)
             /\ ~ (q = p /\ t = a.from) => LiveAcks(q, t)' = LiveAcks(q, t)
      BY <1>1, <1>5 DEF LiveEvents, LiveAcks
    <2>3. \A q, t \in Peers : \A m, n \in Live(q, t)' : m.eventId = n.eventId
      BY <2>1, <2>2 DEF Live, Accounted
    <2>4. \A q, t \in Peers : AckKey(t, q)' = AckKey(t, q) /\ table2'[q][t] = table2[q][t]
      BY <1>2 DEF AckKey
    <2>5. a \in LiveAcks(p, a.from)
      BY <1>1 DEF LiveAcks
    <2>6. ASSUME NEW q \in Peers \ hasty', NEW id \in PendingIds(q)' \cup Coming(q)
          PROVE  Awaits(q, id)'
      <3>0. q \in Peers \ hasty /\ PendingIds(q) \subseteq redis[q].records
        BY <1>2, <2>1, <2>6 DEF Accounted
      <3>1. id \in PendingIds(q) \cup Coming(q) /\ (q = p => id # a.eventId)
        BY <1>1, <1>2, <1>6, <2>6, <3>0 DEF Coming
      <3>2. PICK t \in Peers : /\ Status(q, t) \in {"pending", "sent"}
                               /\ Mute(q, t) \/ \E n \in Live(q, t) : n.eventId = id
        BY <2>1, <3>0, <3>1 DEF Accounted, Awaits
      <3>3. ~ (q = p /\ t = a.from)
        <4> SUFFICES ASSUME q = p, t = a.from
                     PROVE  FALSE
          OBVIOUS
        <4>1. ~ Mute(q, t)
          BY <2>5 DEF Mute
        <4>2. PICK n \in Live(q, t) : n.eventId = id
          BY <3>2, <4>1
        <4>3. a \in Live(q, t)
          BY <2>5 DEF Live
        <4> QED
          BY <2>1, <3>1, <4>2, <4>3 DEF Accounted
      <3>4. Live(q, t)' = Live(q, t) /\ LiveAcks(q, t)' = LiveAcks(q, t)
        BY <2>2, <3>3 DEF Live
      <3>5. Status(q, t)' = Status(q, t)
        BY <1>1, <1>6, <3>3
      <3>6. Mute(q, t)' = Mute(q, t)
        BY <1>2, <2>2, <2>4, <3>4 DEF Mute
      <3> QED
        BY <3>2, <3>4, <3>5, <3>6 DEF Awaits
    <2>7. \A q \in Peers \ hasty' :
             /\ PendingIds(q)' \subseteq redis'[q].records
             /\ at[q] = "index" => sending[q].id \in redis'[q].records
      <3> SUFFICES ASSUME NEW q \in Peers \ hasty'
                   PROVE  /\ PendingIds(q)' \subseteq redis'[q].records
                          /\ at[q] = "index" => sending[q].id \in redis'[q].records
        OBVIOUS
      <3>1. /\ q \in Peers \ hasty /\ PendingIds(q) \subseteq redis[q].records
            /\ at[q] = "index" => sending[q].id \in redis[q].records
        BY <1>2, <2>1 DEF Accounted
      <3>2. q = p /\ at[q] = "index" => sending[q].id # a.eventId
        BY <1>2
      <3> QED
        BY <1>1, <1>6, <3>1, <3>2
    <2>8. \/ Plain(author)' \in {NoPlain, NoRow}
          \/ /\ Plain(author)' = Plain(author)
             /\ PendingIds(author) # {} => PendingIds(author)' # {}
      <3>1. CASE author = p
        <4>1. /\ PendingIds(author)' = PendingIds(p)' /\ Plain(author)' = Plain(p)'
              /\ PendingIds(author) = PendingIds(p) /\ Plain(author) = Plain(p)
          BY <1>2, <3>1
        <4> QED
          BY <1>1, <4>1
      <3>2. CASE author # p
        BY <1>1, <1>2, <1>3, <3>2 DEF PendingIds, Plain
      <3> QED
        BY <3>1, <3>2
    <2>9. /\ \A q \in Full, t \in Peers : table2'[q][t] # "none"
          /\ \A q, t \in Peers : table2'[q][t] = "right" => table2[q][t] = "right"
          /\ hasty \subseteq hasty'
      BY <1>2, <2>1 DEF Accounted
    <2>10. \A q, t \in Peers : Live(q, t) = {} =>
              /\ Live(q, t)' = {}
              /\ Status(q, t) \in {"pending", "sent"} =>
                    Status(q, t)' \in {"pending", "sent"}
      <3> SUFFICES ASSUME NEW q \in Peers, NEW t \in Peers, Live(q, t) = {}
                   PROVE  Live(q, t)' = {} /\ Status(q, t)' = Status(q, t)
        OBVIOUS
      <3>1. ~ (q = p /\ t = a.from)
        BY <2>5 DEF Live
      <3> QED
        BY <1>1, <1>6, <2>2, <3>1 DEF Live
    <2> QED
      BY <1>2, <1>3, <2>1, <2>3, <2>6, <2>7, <2>8, <2>9, <2>10, AccountedFrame
  <1> QED
    BY <1>4, <1>7, <1>9, <1>10 DEF IInv
-----------------------------------------------------------------------------
(***************************************************************************)
(* Changes of tables 2                                                     *)
(***************************************************************************)

\* An edit is on record, and mends nothing unless it is one of those that
\* Mended speaks of.
LEMMA EditProperties ==
    ASSUME TypeOK, NEW p \in Peers, NEW q \in Peers, NEW entry \in Entries,
           Edit(p, q, entry)
    PROVE  /\ p \in Full /\ edits' \in 0..MaxEdits
           /\ edited' \subseteq Peers \X Peers \X Entries \X Entries
           /\ UNCHANGED <<redis, store, cursor, queue, at, plain, todo, sending,
                          events, asked, faults, author, told, hasty>>
           /\ ~ Mended' => /\ ~ Mended /\ entry # "none"
                           /\ table2[p][q] = "wrong" => entry # "right"
  <1> DEFINE new == <<p, q, table2[p][q], entry>>
  <1>1. /\ p \in Full /\ edits < MaxEdits /\ edits' = edits + 1
        /\ edited' = edited \cup {new}
        /\ UNCHANGED <<redis, store, cursor, queue, at, plain, todo, sending,
                       events, asked, faults, author, told, hasty>>
    BY DEF Edit, pass
  <1>2. edits' \in 0..MaxEdits
    BY <1>1, BoundsAreNumbers DEF TypeOK
  <1>3. /\ new \in Peers \X Peers \X Entries \X Entries
        /\ new[3] = table2[p][q] /\ new[4] = entry
    BY DEF TypeOK
  <1> HIDE DEF new
  <1>4. edited' \subseteq Peers \X Peers \X Entries \X Entries
    BY <1>1, <1>3 DEF TypeOK
  <1>5. ~ Mended' => /\ ~ Mended /\ entry # "none"
                     /\ table2[p][q] = "wrong" => entry # "right"
    BY <1>1, <1>3 DEF Mended
  <1> QED
    BY <1>1, <1>2, <1>4, <1>5

\* A row that has gone mute stays mute when an entry goes wrong.
LEMMA CreateTargetInv ==
    ASSUME IInv, NEW p \in Peers, NEW q \in Peers, NEW entry \in {"right", "wrong"},
           CreateTarget(p, q, entry)
    PROVE  IInv'
  <1>1. entry \in Entries /\ Edit(p, q, entry)
        /\ table2' = [table2 EXCEPT ![p][q] = entry] /\ UNCHANGED db
    BY DEF CreateTarget, Entries
  <1>2. /\ p \in Full /\ edits' \in 0..MaxEdits
        /\ edited' \subseteq Peers \X Peers \X Entries \X Entries
        /\ UNCHANGED <<redis, store, cursor, queue, at, plain, todo, sending,
                       events, asked, faults, author, told, hasty>>
        /\ ~ Mended' => /\ ~ Mended /\ entry # "none"
                        /\ table2[p][q] = "wrong" => entry # "right"
    BY <1>1, EditProperties DEF IInv
  <1>3. /\ table2 \in [Peers -> [Peers -> Entries]]
        /\ table2' \in [Peers -> [Peers -> Entries]]
        /\ \A a, b \in Peers : table2'[a][b] = IF a = p /\ b = q THEN entry
                                               ELSE table2[a][b]
    BY <1>1 DEF IInv, TypeOK
  <1>4. TypeOK'
    BY <1>1, <1>2, <1>3 DEF IInv, TypeOK
  <1>5. \A a \in Peers : /\ In(a)' = In(a) /\ Owing(a)' = Owing(a)
                         /\ PendingIds(a)' = PendingIds(a) /\ Plain(a)' = Plain(a)
                         /\ \A t \in Peers : Status(a, t)' = Status(a, t)
    BY <1>1, <1>2 DEF In, Owing, PendingTargets, PendingIds, Plain, Status
  <1>6. author \in Peers /\ author' = author /\ told' = told /\ told \subseteq Peers
    BY <1>2, BoundsAreNumbers DEF IInv, TypeOK
  <1>7. Grounded'
    BY <1>2, <1>5 DEF IInv, Grounded, InHand
  <1>8. Turns => Turns'
    <2> SUFFICES ASSUME Turns
                 PROVE  Turns'
      OBVIOUS
    <2>1. \A t \in Peers : \A m : WillApply(t, m)' = WillApply(t, m)
      BY <1>2 DEF WillApply
    <2> QED
      BY <1>2, <1>5, <1>6, <2>1, TurnsFrame DEF IInv, Turns
  <1>9. ASSUME Accounted, ~ Mended'
        PROVE  Accounted'
    <2>1. /\ \A a, b \in Peers : table2'[a][b] = "right" => table2[a][b] = "right"
          /\ \A a \in Full, b \in Peers : table2'[a][b] # "none"
      <3>1. /\ entry # "none" /\ (table2[p][q] = "wrong" => entry # "right")
            /\ \A a \in Full, b \in Peers : table2[a][b] # "none"
        BY <1>2, <1>9 DEF Accounted
      <3>2. table2[p][q] \in {"right", "wrong"}
        BY <1>2, <1>3, <3>1 DEF Entries
      <3> QED
        BY <1>3, <3>1, <3>2, BoundsAreNumbers
    <2>2. \A a, t \in Peers : /\ LiveEvents(a, t)' = LiveEvents(a, t)
                              /\ LiveAcks(a, t)' = LiveAcks(a, t)
                              /\ Live(a, t)' = Live(a, t)
      BY <1>5 DEF Live, LiveEvents, LiveAcks
    <2>3. \A a, t \in Peers : Mute(a, t) => Mute(a, t)'
      BY <1>2, <2>1, <2>2 DEF Mute, AckKey
    <2>4. \A a \in Peers : \A id : Awaits(a, id) => Awaits(a, id)'
      BY <1>5, <2>2, <2>3 DEF Awaits
    <2>5. \A a \in Peers \ hasty :
             /\ PendingIds(a)' \subseteq redis'[a].records
             /\ at[a] = "index" => sending[a].id \in redis'[a].records
             /\ \A id \in PendingIds(a)' \cup Coming(a) : Awaits(a, id)'
      BY <1>2, <1>5, <1>9, <2>4 DEF Accounted
    <2>6. \A a, t \in Peers : \A m, n \in Live(a, t)' : m.eventId = n.eventId
      BY <1>9, <2>2 DEF Accounted
    <2> QED
      BY <1>2, <1>5, <1>6, <1>9, <2>1, <2>2, <2>5, <2>6, AccountedFrame DEF IInv
  <1> QED
    BY <1>2, <1>4, <1>7, <1>8, <1>9 DEF IInv

\* A deleted target leaves with its row.
LEMMA DeleteTargetInv ==
    ASSUME IInv, NEW p \in Peers, NEW q \in Peers, DeleteTarget(p, q)
    PROVE  IInv'
  <1>1. /\ "none" \in Entries /\ Edit(p, q, "none")
        /\ table2' = [table2 EXCEPT ![p][q] = "none"]
        /\ db' = [db EXCEPT ![p].status[Client][q] = "none"]
    BY DEF DeleteTarget, Entries
  <1>2. /\ p \in Full /\ edits' \in 0..MaxEdits
        /\ edited' \subseteq Peers \X Peers \X Entries \X Entries
        /\ UNCHANGED <<redis, store, cursor, queue, at, plain, todo, sending,
                       events, asked, faults, author, told, hasty>>
        /\ Mended'
    BY <1>1, EditProperties DEF IInv
  <1>3. table2' \in [Peers -> [Peers -> Entries]]
    BY <1>1 DEF IInv, TypeOK
  <1>4. /\ db' \in [Peers -> Tables]
        /\ \A a \in Peers \ {p} : db'[a] = db[a]
        /\ db'[p].plain = db[p].plain
        /\ \A t \in Peers :
              db'[p].status[Client][t] = IF t = q THEN "none"
                                         ELSE db[p].status[Client][t]
    <2> DEFINE d == [db[p] EXCEPT !.status[Client][q] = "none"]
    <2>1. db \in [Peers -> Tables] /\ db' = [db EXCEPT ![p] = d]
      BY <1>1 DEF IInv, TypeOK
    <2>2. /\ d \in Tables /\ d.plain = db[p].plain
          /\ \A t \in Peers : d.status[Client][t] = IF t = q THEN "none"
                                                    ELSE db[p].status[Client][t]
      <3>1. db[p] \in Tables
        BY <2>1
      <3> QED
        BY <3>1 DEF Tables, RowStatus
    <2> HIDE DEF d
    <2> QED
      BY <2>1, <2>2
  <1>5. TypeOK'
    BY <1>2, <1>3, <1>4 DEF IInv, TypeOK
  <1>6. \A a \in Peers : /\ In(a)' = In(a) /\ PendingIds(a)' = PendingIds(a)
                         /\ Plain(a)' = Plain(a)
                         /\ \A t \in Peers : Status(a, t)' \in {"none", Status(a, t)}
    BY <1>2, <1>4 DEF In, PendingIds, Plain, Status
  <1>7. \A a \in Peers : Owing(a)' \subseteq Owing(a)
    BY <1>6 DEF Owing, PendingTargets, Status
  <1>8. author \in Peers /\ author' = author /\ told' = told /\ told \subseteq Peers
    BY <1>2, BoundsAreNumbers DEF IInv, TypeOK
  <1>9. Grounded'
    BY <1>2, <1>6 DEF IInv, Grounded, InHand
  <1>10. Turns => Turns'
    <2> SUFFICES ASSUME Turns
                 PROVE  Turns'
      OBVIOUS
    <2>1. \A t \in Peers : \A m : WillApply(t, m)' = WillApply(t, m)
      BY <1>2 DEF WillApply
    <2> QED
      BY <1>2, <1>6, <1>7, <1>8, <2>1, TurnsFrame DEF IInv, Turns
  <1> QED
    BY <1>2, <1>5, <1>9, <1>10 DEF IInv
-----------------------------------------------------------------------------
(***************************************************************************)
(* The theorems                                                            *)
(***************************************************************************)

\* Nothing changes when nothing happens.
LEMMA StutterInv ==
    ASSUME IInv, UNCHANGED vars
    PROVE  IInv'
  <1>1. UNCHANGED <<table2, db, redis, store, cursor, queue, at, plain, todo, sending,
                    events, asked, edits, faults, author, told, edited, hasty>>
    BY DEF vars, pass, history
  <1>2. TypeOK'
    BY <1>1 DEF IInv, TypeOK
  <1>3. \A p \in Peers : /\ In(p)' = In(p) /\ Owing(p)' = Owing(p)
                         /\ PendingIds(p)' = PendingIds(p) /\ Plain(p)' = Plain(p)
                         /\ \A t \in Peers : Status(p, t)' = Status(p, t)
    BY <1>1, ReadFrame
  <1>4. Grounded'
    BY <1>1, <1>3 DEF IInv, Grounded, InHand
  <1>5. TypeOK /\ author \in Peers
    BY BoundsAreNumbers DEF IInv, TypeOK
  <1>6. Turns => Turns'
    <2>1. \A t \in Peers : \A m : WillApply(t, m)' = WillApply(t, m)
      BY <1>1 DEF WillApply
    <2> QED
      BY <1>1, <1>3, <1>5, <2>1, TurnsFrame DEF Turns, TypeOK
  <1>7. Mended' = Mended
    BY <1>1 DEF Mended
  <1>8. Accounted => Accounted'
    <2> SUFFICES ASSUME Accounted
                 PROVE  Accounted'
      OBVIOUS
    <2>1. \A p, t \in Peers : /\ LiveAcks(p, t)' = LiveAcks(p, t)
                              /\ LiveEvents(p, t)' = LiveEvents(p, t)
                              /\ Live(p, t)' = Live(p, t)
      BY <1>3 DEF Live, LiveAcks, LiveEvents
    <2>2. \A p \in Peers : \A id : Awaits(p, id)' = Awaits(p, id)
      BY <1>1, <1>3, <2>1 DEF Mute, AckKey, Awaits
    <2>3. \A p \in Peers \ hasty :
             /\ PendingIds(p)' \subseteq redis'[p].records
             /\ at[p] = "index" => sending[p].id \in redis'[p].records
             /\ \A id \in PendingIds(p)' \cup Coming(p) : Awaits(p, id)'
      BY <1>1, <1>3, <2>2 DEF Accounted
    <2>4. /\ \A q \in Full, t \in Peers : table2'[q][t] # "none"
          /\ \A q, t \in Peers : \A m, n \in Live(q, t)' : m.eventId = n.eventId
      BY <1>1, <2>1 DEF Accounted
    <2> QED
      BY <1>1, <1>3, <1>5, <2>1, <2>3, <2>4, AccountedFrame
  <1> QED
    BY <1>2, <1>4, <1>6, <1>7, <1>8 DEF IInv

\* Every step preserves the invariant.
LEMMA NextInv == IInv /\ [Next]_vars => IInv'
  <1> SUFFICES ASSUME IInv, [Next]_vars
               PROVE  IInv'
    OBVIOUS
  <1>1. CASE UNCHANGED vars
    BY <1>1, StutterInv
  <1>2. ASSUME NEW p \in Full, NEW kind \in Kinds, NEW targets \in SUBSET Peers,
               Operate(p, kind, targets)
        PROVE  IInv'
    BY <1>2, OperateInv
  <1>3. ASSUME NEW p \in Peers, Sync(p)
        PROVE  IInv'
    BY <1>3, FetchInv, ApplyLocalInv, PublishInv, RecordInv, IndexInv, MarkSentInv DEF Sync
  <1>4. ASSUME NEW p \in Peers, Receive(p)
        PROVE  IInv'
    BY <1>4, DropForeignInv, TakeEventInv, TakeAckInv DEF Receive
  <1>5. ASSUME NEW p \in Peers, NEW q \in Peers, DeleteTarget(p, q)
        PROVE  IInv'
    BY <1>5, DeleteTargetInv
  <1>6. ASSUME NEW p \in Peers, NEW q \in Peers, NEW entry \in {"right", "wrong"},
               CreateTarget(p, q, entry)
        PROVE  IInv'
    BY <1>6, CreateTargetInv
  <1> QED
    BY <1>1, <1>2, <1>3, <1>4, <1>5, <1>6 DEF Next

\* The inductive invariant holds throughout.
THEOREM MeshInvariant == Spec => []IInv
  <1> QED
    BY InitInv, NextInv, PTL DEF Spec

\* Whatever operators, crons, consumers and repeated deliveries do to each
\* other, the tables, Redis, the stores and the queues keep their shape.
THEOREM MeshTypeCorrect == Spec => []TypeOK
  <1>1. IInv => TypeOK
    BY DEF IInv
  <1> QED
    BY <1>1, MeshInvariant, PTL

\* architecture.md:126, "0 desync", for operators that take turns: once nothing
\* is on its way, every peer that the last operation could reach accepts what
\* its author accepts.  Its events carry the hash that the author stored in the
\* same pass, and each of them is newer than whatever its receiver has applied
\* (src/sync.ts, src/consume.ts).
THEOREM StaysInStep ==
    ASSUME OperatorsWait
    PROVE  Spec => []InStep
  <1>1. IInv => InStep
    <2> SUFFICES ASSUME IInv, Quiet, NEW t \in told
                 PROVE  /\ CallWithStored(author, t) = (store[author] # Absent)
                        /\ \A o \in Ops :
                              CallWithPlain(author, t, o) = CallWithPlain(author, author, o)
      BY DEF InStep
    <2>1. t \in Peers
      BY DEF IInv, TypeOK
    <2>2. In(t) = {}
      BY <2>1, Shapes DEF IInv, Quiet
    <2>3. store[t] = store[author]
      BY <2>2 DEF IInv, Turns
    <2> QED
      BY <2>3 DEF CallWithStored, CallWithPlain, EchoAccepts
  <1> QED
    BY <1>1, MeshInvariant, PTL

\* architecture.md:139, for operators that take turns, entries that nobody deletes
\* or puts right and answers that overtake no record: when all rows of the author's credential are terminal,
\* the answer that made the last of them so erased the plain secret
\* (handleAckEvent, src/consume.ts).
THEOREM PlainSecretsLeave ==
    ASSUME OperatorsWait
    PROVE  Spec => []PlainLeavesUnlessMended
  <1>1. IInv => PlainLeavesUnlessMended
    <2> SUFFICES ASSUME IInv, ~ Mended, author \notin hasty, Quiet, told # {},
                        RowsOf(db[author], Client) # {},
                        \A t \in RowsOf(db[author], Client) :
                            db[author].status[Client][t] \in Terminal
                 PROVE  db[author].plain[Client] = NoPlain
      BY DEF PlainLeavesUnlessMended, PlainLeaves
    <2>1. Accounted /\ Grounded /\ author \in Peers
      BY BoundsAreNumbers DEF IInv, TypeOK
    <2>2. PendingIds(author) = {}
      <3> SUFFICES ASSUME NEW id \in PendingIds(author)
                   PROVE  FALSE
        OBVIOUS
      <3>1. PICK t \in Peers : Status(author, t) \in {"pending", "sent"}
        BY <2>1 DEF Accounted, Awaits
      <3>2. t \in RowsOf(db[author], Client)
        BY <3>1 DEF RowsOf, Status
      <3> QED
        BY <3>1, <3>2 DEF Status, Terminal
    <2>3. Plain(author) \in {NoPlain, NoRow}
      <3>1. Coming(author) = {}
        BY <2>1 DEF Coming, Quiet
      <3> QED
        BY <2>1, <2>2, <3>1 DEF Accounted
    <2>4. PICK t \in Peers : Status(author, t) # "none"
      BY DEF RowsOf, Status
    <2>5. Plain(author) # NoRow
      BY <2>1, <2>4 DEF Grounded
    <2> QED
      BY <2>3, <2>5 DEF Plain
  <1> QED
    BY <1>1, MeshInvariant, PTL
=============================================================================
