--------------------------- MODULE SqlAdapterProofs --------------------------
(***************************************************************************)
(* Proofs about SqlAdapter, for every set of targets, pool size, number of *)
(* calls and of faults: the type invariant, that a callback takes effect   *)
(* as a whole or not at all, and that only faults and unknown targets make *)
(* one throw.                                                              *)
(***************************************************************************)
EXTENDS SqlAdapter, Integers, FiniteSetTheorems, TLAPS

\* SetToSeq lists a finite set: nothing else, and all of it.
LEMMA SetToSeqProperties ==
    ASSUME NEW S, IsFiniteSet(S)
    PROVE  SetToSeq(S) \in Seq(S)
  <1> DEFINE n == Cardinality(S)
  <1>1. n \in Nat /\ ExistsBijection(1..n, S)
    BY FS_CardinalityType
  <1>2. SetToSeq(S) \in [1..n -> S]
    BY <1>1 DEF SetToSeq, ExistsBijection, Bijection, Injection
  <1> QED
    BY <1>1, <1>2

\* What is appended is added.
LEMMA ToSetConcat ==
    ASSUME NEW S, NEW s \in Seq(S), NEW t \in Seq(S)
    PROVE  s \o t \in Seq(S) /\ ToSet(s \o t) \subseteq ToSet(s) \cup ToSet(t)
  <1>1. ASSUME NEW k \in DOMAIN (s \o t)
        PROVE  \/ k \in DOMAIN s /\ (s \o t)[k] = s[k]
               \/ k - Len(s) \in DOMAIN t /\ (s \o t)[k] = t[k - Len(s)]
    OBVIOUS
  <1> QED
    BY <1>1 DEF ToSet

\* A sequence is its head and what is behind it.
LEMMA ToSetHeadTail ==
    ASSUME NEW S, NEW s \in Seq(S), s # <<>>
    PROVE  /\ Head(s) \in S /\ Tail(s) \in Seq(S)
           /\ ToSet(s) = {Head(s)} \cup ToSet(Tail(s))
  <1>1. Head(s) = s[1] /\ 1 \in DOMAIN s
    OBVIOUS
  <1>2. \A i \in DOMAIN Tail(s) : i + 1 \in DOMAIN s /\ Tail(s)[i] = s[i + 1]
    OBVIOUS
  <1>3. \A k \in DOMAIN s : k = 1 \/ (k - 1 \in DOMAIN Tail(s)
                                      /\ s[k] = Tail(s)[k - 1])
    OBVIOUS
  <1>4. ToSet(Tail(s)) \subseteq ToSet(s)
    BY <1>2 DEF ToSet
  <1>5. ToSet(s) \subseteq {Head(s)} \cup ToSet(Tail(s))
    BY <1>1, <1>3 DEF ToSet
  <1>6. Head(s) \in ToSet(s)
    BY <1>1 DEF ToSet
  <1> QED
    BY <1>4, <1>5, <1>6
\* Behind the head there is one less.
LEMMA TailLength ==
    ASSUME NEW S, NEW s \in Seq(S), s # <<>>
    PROVE  /\ Len(s) = 1 => ToSet(Tail(s)) = {}
           /\ Len(s) # 1 => Tail(s) # <<>>
  <1>1. /\ Tail(s) \in Seq(S) /\ Len(s) \in Nat /\ Len(s) > 0
        /\ Len(Tail(s)) = Len(s) - 1
    OBVIOUS
  <1>2. Len(s) # 1 => Len(Tail(s)) > 0
    BY <1>1
  <1>3. Len(s) = 1 => DOMAIN Tail(s) = {}
    BY <1>1
  <1>4. Len(s) = 1 => ToSet(Tail(s)) = {}
    BY <1>3 DEF ToSet
  <1>5. Len(s) # 1 => Tail(s) # <<>>
    <2>1. ASSUME NEW t \in Seq(S), Len(t) > 0
          PROVE  t # <<>>
      BY <2>1
    <2> QED
      BY <1>1, <1>2, <2>1, Zenon
  <1> QED
    BY <1>4, <1>5
-----------------------------------------------------------------------------
(***************************************************************************)
(* The statements of the calls                                             *)
(***************************************************************************)

\* The rows by their kind.
LEMMA RowsProperties ==
    /\ <<"credential">> \in Rows
    /\ \A t \in Targets : <<"target", t>> \in Rows /\ <<"pivot", t>> \in Rows
  BY DEF Rows

\* Statements about the rows are statements, and only the DELETE of an entry
\* of table 2 deletes a target.
LEMMA StatementTypes ==
    ASSUME NEW r \in Rows
    PROVE  /\ Put(r) \in Statement /\ ~ DeletesTarget(Put(r))
           /\ Update(r) \in Statement /\ ~ DeletesTarget(Update(r))
           /\ Delete(r) \in Statement
  BY DEF Statement, Put, Update, Delete, DeletesTarget

\* The order of the targets in a loop over them.
LEMMA OrderProperties ==
    ASSUME NEW targets \in SUBSET Targets
    PROVE  LET order == SetToSeq(targets)
           IN  /\ order \in Seq(Targets)
               /\ \A i \in DOMAIN order : <<"pivot", order[i]>> \in Rows
  <1> DEFINE order == SetToSeq(targets)
  <1>1. order \in Seq(targets)
    BY SqlAssumption, FS_Subset, SetToSeqProperties
  <1> HIDE DEF order
  <1>2. order \in Seq(Targets)
    BY <1>1
  <1>3. \A i \in DOMAIN order : order[i] \in Targets
    BY <1>2
  <1> QED
    BY <1>2, <1>3, RowsProperties DEF order

\* The statements that a call makes for each of its targets.
LEMMA ForEachPut ==
    ASSUME NEW targets \in SUBSET Targets
    PROVE  LET s == ForEach(Put, "pivot", targets)
           IN  s \in Seq(Statement) /\ \A x \in ToSet(s) : ~ DeletesTarget(x)
  <1> DEFINE order == SetToSeq(targets)
             f == [i \in DOMAIN order |-> Put(<<"pivot", order[i]>>)]
  <1>1. order \in Seq(Targets) /\ \A i \in DOMAIN order : <<"pivot", order[i]>> \in Rows
    BY OrderProperties
  <1>2. Len(order) \in Nat /\ DOMAIN order = 1..Len(order)
    BY <1>1
  <1> HIDE DEF order
  <1>3. \A i \in DOMAIN order : f[i] \in Statement /\ ~ DeletesTarget(f[i])
    BY <1>1, StatementTypes
  <1>4. f \in [1..Len(order) -> Statement]
    BY <1>2, <1>3
  <1>5. \A i \in 1..Len(order) : ~ DeletesTarget(f[i])
    BY <1>2, <1>3
  <1> HIDE DEF f
  <1>6. f \in Seq(Statement)
    BY <1>2, <1>4
  <1>7. \A x \in ToSet(f) : ~ DeletesTarget(x)
    BY <1>4, <1>5 DEF ToSet
  <1> QED
    BY <1>6, <1>7 DEF ForEach, f, order

\* ForEach with Update makes statements, none of which deletes a target.
LEMMA ForEachUpdate ==
    ASSUME NEW targets \in SUBSET Targets
    PROVE  LET s == ForEach(Update, "pivot", targets)
           IN  s \in Seq(Statement) /\ \A x \in ToSet(s) : ~ DeletesTarget(x)
  <1> DEFINE order == SetToSeq(targets)
             f == [i \in DOMAIN order |-> Update(<<"pivot", order[i]>>)]
  <1>1. order \in Seq(Targets) /\ \A i \in DOMAIN order : <<"pivot", order[i]>> \in Rows
    BY OrderProperties
  <1>2. Len(order) \in Nat /\ DOMAIN order = 1..Len(order)
    BY <1>1
  <1> HIDE DEF order
  <1>3. \A i \in DOMAIN order : f[i] \in Statement /\ ~ DeletesTarget(f[i])
    BY <1>1, StatementTypes
  <1>4. f \in [1..Len(order) -> Statement]
    BY <1>2, <1>3
  <1>5. \A i \in 1..Len(order) : ~ DeletesTarget(f[i])
    BY <1>2, <1>3
  <1> HIDE DEF f
  <1>6. f \in Seq(Statement)
    BY <1>2, <1>4
  <1>7. \A x \in ToSet(f) : ~ DeletesTarget(x)
    BY <1>4, <1>5 DEF ToSet
  <1> QED
    BY <1>6, <1>7 DEF ForEach, f, order

\* A statement, and more of them.
LEMMA WithFirst ==
    ASSUME NEW x \in Statement, NEW s \in Seq(Statement),
           ~ DeletesTarget(x), \A y \in ToSet(s) : ~ DeletesTarget(y)
    PROVE  /\ <<x>> \o s \in Seq(Statement) /\ <<x>> \o s # <<>>
           /\ \A y \in ToSet(<<x>> \o s) : ~ DeletesTarget(y)
  <1>1. <<x>> \in Seq(Statement) /\ ToSet(<<x>>) = {x}
    BY DEF ToSet
  <1>2. <<x>> \o s \in Seq(Statement)
        /\ ToSet(<<x>> \o s) \subseteq ToSet(<<x>>) \cup ToSet(s)
    BY <1>1, ToSetConcat
  <1>3. Len(<<x>> \o s) > 0
    BY <1>1
  <1> QED
    BY <1>1, <1>2, <1>3

\* Every call that opens a transaction has statements, and only DeleteTarget
\* deletes an entry of table 2.
LEMMA TransactionProperties ==
    ASSUME NEW s \in Transactions
    PROVE  /\ s \in Seq(Statement) /\ s # <<>>
           /\ \/ \A x \in ToSet(s) : ~ DeletesTarget(x)
              \/ \E t \in Targets : s = DeleteTarget(t)
  <1>1. ASSUME NEW targets \in SUBSET Targets,
               s = UpsertCredentialWithTargets(targets)
        PROVE  /\ s \in Seq(Statement) /\ s # <<>>
               /\ \A x \in ToSet(s) : ~ DeletesTarget(x)
    BY <1>1, RowsProperties, StatementTypes, ForEachPut, WithFirst
       DEF UpsertCredentialWithTargets
  <1>2. CASE s = RotateCredentialSecret
    BY <1>2, RowsProperties, StatementTypes, ForEachUpdate, WithFirst
       DEF RotateCredentialSecret
  <1>3. ASSUME NEW t \in Targets, s = DeleteTarget(t)
        PROVE  s \in Seq(Statement) /\ s # <<>>
    BY <1>3, RowsProperties, StatementTypes DEF DeleteTarget
  <1> QED
    BY <1>1, <1>2, <1>3 DEF Transactions

\* A query on the pool is one statement.
LEMMA QueryProperties ==
    ASSUME NEW s \in Queries
    PROVE  /\ s \in Seq(Statement) /\ s # <<>>
           /\ \A x \in ToSet(s) : ~ DeletesTarget(x)
           /\ ToSet(s) = {Head(s)}
  <1>1. \E x \in Statement : s = <<x>> /\ ~ DeletesTarget(x)
    BY RowsProperties, StatementTypes DEF Queries
  <1> QED
    BY <1>1 DEF ToSet
-----------------------------------------------------------------------------
(***************************************************************************)
(* Calls and connections                                                   *)
(***************************************************************************)

ConnRecord == [user : Calls \cup {None}, dead : BOOLEAN, open : BOOLEAN,
               writes : Writes, locks : SUBSET Rows,
               done : SUBSET (Calls \X Statement)]

CallRecord == [at : Stages, tx : BOOLEAN, on : Connections \cup {None},
               asked : Seq(Statement), todo : Seq(Statement)]

\* The records of connections and calls.
LEMMA RecordTypes ==
    ASSUME TypeOK
    PROVE  /\ \A k \in Connections : conn[k] \in ConnRecord
           /\ \A c \in Calls : call[c] \in CallRecord
  BY DEF TypeOK, ConnRecord, CallRecord

\* A connection that is not in a transaction is one.
LEMMA CleanType ==
    ASSUME NEW u \in Calls \cup {None}, NEW dead \in BOOLEAN, NEW open \in BOOLEAN
    PROVE  LET r == [user |-> u, dead |-> dead, open |-> open, writes |-> <<>>,
                     locks |-> {}, done |-> {}]
           IN  r \in ConnRecord /\ DOMAIN r.writes \subseteq r.locks
  <1>1. <<>> \in [{} -> Calls \cup {Absent}] /\ DOMAIN <<>> = {}
    OBVIOUS
  <1>2. <<>> \in Writes
    BY <1>1 DEF Writes
  <1> QED
    BY <1>1, <1>2 DEF ConnRecord

\* A connection without a transaction has nothing written, locked or done.
LEMMA CleanRecord ==
    /\ Clean \in ConnRecord /\ DOMAIN Clean.writes = {}
    /\ Clean.user = None /\ ~ Clean.dead /\ Clean.done = {}
  <1>1. DOMAIN <<>> = {}
    OBVIOUS
  <1> QED
    BY <1>1, CleanType DEF Clean

\* What a call has from the pool is its own.
LEMMA Connected ==
    ASSUME IInv, NEW c \in Calls, On(c) # None
    PROVE  On(c) \in Connections /\ conn[On(c)].user = c
  BY DEF IInv, TypeOK, On

\* What a statement sees is a row's value.
LEMMA ViewType ==
    ASSUME TypeOK, NEW k \in Connections, NEW r \in Rows
    PROVE  View(k, r) \in Calls \cup {0, Absent}
  <1>1. conn[k].writes \in Writes /\ table[r] \in Calls \cup {0, Absent}
    BY RecordTypes DEF ConnRecord, TypeOK
  <1>2. PICK R \in SUBSET Rows : conn[k].writes \in [R -> Calls \cup {Absent}]
    BY <1>1 DEF Writes
  <1> QED
    BY <1>1, <1>2 DEF View

\* What takes effect at BEGIN and at COMMIT.
LEMMA CommitsType ==
    ASSUME TypeOK, NEW k \in Connections, Commits(k)
    PROVE  /\ table' \in [Rows -> Calls \cup {0, Absent}]
           /\ applied' \subseteq Calls \X Statement
  <1>1. conn[k].done \subseteq Calls \X Statement
    BY RecordTypes DEF ConnRecord
  <1> QED
    BY <1>1, ViewType DEF Commits, TypeOK

\* A fault is counted within its bound.
LEMMA FaultType ==
    ASSUME TypeOK, NEW c \in Calls, Fault(c)
    PROVE  faults' \in 0..MaxFaults /\ excused' = excused \cup {c}
           /\ excused' \subseteq Calls
  BY SqlAssumption DEF TypeOK, Fault

\* A call is not concerned by what others do on their connections.
LEMMA OthersKeep ==
    ASSUME IInv, NEW d \in Calls, call'[d] = call[d],
           On(d) # None => conn'[On(d)] = conn[On(d)],
           \A s \in Statement : <<d, s>> \in applied' <=> <<d, s>> \in applied,
           excused \subseteq excused'
    PROVE  CallInv(d)'
  <1>1. CallInv(d)
    BY DEF IInv
  <1>2. On(d)' = On(d) /\ AppliedOf(d)' = AppliedOf(d)
    BY DEF On, AppliedOf
  <1>3. Holds(d)' /\ TodoIsAsked(d)'
    BY <1>1, <1>2 DEF CallInv, Holds, TodoIsAsked
  <1>4. AppliedAsAWhole(d)'
    BY <1>1, <1>2 DEF CallInv, AppliedAsAWhole
  <1>5. OpenIsOwn(d)'
    BY <1>1, <1>2 DEF CallInv, OpenIsOwn
  <1>6. NoneSkipped(d)'
    BY <1>1, <1>2 DEF CallInv, NoneSkipped, Holds
  <1>7. PivotFirst(d)'
    BY <1>1, <1>2 DEF CallInv, PivotFirst, Holds
  <1>8. HasExcuse(d)'
    BY <1>1, <1>2 DEF CallInv, HasExcuse
  <1> QED
    BY <1>3, <1>4, <1>5, <1>6, <1>7, <1>8 DEF CallInv

\* A step of call c on connection k, which it has, takes or gives back: what
\* is left to show is the invariant for c itself.
LEMMA StepInv ==
    ASSUME IInv, NEW c \in Calls, NEW k \in Connections,
           NEW K \in ConnRecord, NEW C \in CallRecord,
           conn' = [conn EXCEPT ![k] = K], call' = [call EXCEPT ![c] = C],
           On(c) = k \/ (On(c) = None /\ conn[k].user = None),
           C.on \in {k, None}, K.user = IF C.on = k THEN c ELSE None,
           DOMAIN K.writes \subseteq K.locks,
           K.user = None => ~ K.dead /\ K.done = {},
           table' \in [Rows -> Calls \cup {0, Absent}],
           applied' \subseteq Calls \X Statement,
           \A d \in Calls \ {c}, s \in Statement :
              <<d, s>> \in applied' <=> <<d, s>> \in applied,
           faults' \in 0..MaxFaults,
           excused \subseteq excused', excused' \subseteq Calls,
           CallInv(c)'
    PROVE  IInv'
  <1>1. None \notin Calls /\ None \notin Connections
    BY SqlAssumption
  <1>2. /\ conn \in [Connections -> ConnRecord] /\ call \in [Calls -> CallRecord]
        /\ \A a \in Calls, j \in Connections : call[a].on = j <=> conn[j].user = a
    BY DEF IInv, TypeOK, ConnRecord, CallRecord
  <1>3. /\ conn' \in [Connections -> ConnRecord] /\ conn'[k] = K
        /\ \A j \in Connections \ {k} : conn'[j] = conn[j]
        /\ call' \in [Calls -> CallRecord] /\ call'[c] = C
        /\ \A d \in Calls \ {c} : call'[d] = call[d]
    BY <1>2
  <1>4. \A d \in Calls \ {c} : On(d) # k
    BY <1>1, <1>2 DEF On
  <1>5. \A a \in Calls, j \in Connections : call'[a].on = j <=> conn'[j].user = a
    <2> SUFFICES ASSUME NEW a \in Calls, NEW j \in Connections
                 PROVE  call'[a].on = j <=> conn'[j].user = a
      OBVIOUS
    <2>1. CASE a = c /\ j = k
      BY <1>1, <1>3, <2>1
    <2>2. CASE a = c /\ j # k
      BY <1>1, <1>2, <1>3, <2>2 DEF On
    <2>3. CASE a # c /\ j = k
      BY <1>1, <1>3, <1>4, <2>3 DEF On
    <2>4. CASE a # c /\ j # k
      BY <1>2, <1>3, <2>4
    <2> QED
      BY <2>1, <2>2, <2>3, <2>4
  <1>6. \A j \in Connections : DOMAIN conn'[j].writes \subseteq conn'[j].locks
    BY <1>3 DEF IInv, TypeOK
  <1>7. TypeOK'
    BY <1>3, <1>5, <1>6 DEF TypeOK, ConnRecord, CallRecord
  <1>8. FreeIsClean'
    BY <1>3 DEF IInv, FreeIsClean
  <1>9. ASSUME NEW d \in Calls, d # c
        PROVE  CallInv(d)'
    <2>1. call'[d] = call[d]
      BY <1>3, <1>9
    <2>2. On(d) # None => conn'[On(d)] = conn[On(d)]
      BY <1>2, <1>3, <1>4, <1>9, Connected
    <2>3. \A s \in Statement : <<d, s>> \in applied' <=> <<d, s>> \in applied
      BY <1>9
    <2> QED
      BY <2>1, <2>2, <2>3, OthersKeep
  <1> QED
    BY <1>7, <1>8, <1>9 DEF IInv
-----------------------------------------------------------------------------
\* No call was made, and every connection is free.
LEMMA InitInv == Init => IInv
  <1> SUFFICES ASSUME Init
               PROVE  IInv
    OBVIOUS
  <1> USE DEF Init
  <1>1. None \notin Calls /\ None \notin Connections /\ 0 \in 0..MaxFaults
    BY SqlAssumption
  <1>2. Clean \in ConnRecord /\ DOMAIN Clean.writes \subseteq Clean.locks
    BY CleanType DEF Clean
  <1>3. TypeOK
    <2>1. table \in [Rows -> Calls \cup {0, Absent}]
      OBVIOUS
    <2>2. conn \in [Connections -> ConnRecord]
          /\ \A k \in Connections : DOMAIN conn[k].writes \subseteq conn[k].locks
      BY <1>2
    <2>3. call \in [Calls -> CallRecord]
      BY DEF CallRecord, Stages
    <2>4. \A c \in Calls, k \in Connections : call[c].on = k <=> conn[k].user = c
      BY <1>1 DEF Clean
    <2> QED
      BY <1>1, <2>1, <2>2, <2>3, <2>4 DEF TypeOK, ConnRecord, CallRecord
  <1>4. FreeIsClean
    BY DEF FreeIsClean, Clean
  <1>5. ASSUME NEW c \in Calls
        PROVE  CallInv(c)
    <2>1. /\ call[c] = [at |-> "unused", tx |-> FALSE, on |-> None,
                        asked |-> <<>>, todo |-> <<>>]
          /\ AppliedOf(c) = {} /\ On(c) = None
      BY DEF AppliedOf, On
    <2>2. ToSet(call[c].asked) = {} /\ ToSet(call[c].todo) = {}
      BY <2>1 DEF ToSet
    <2> QED
      BY <2>1, <2>2 DEF CallInv, Holds, AppliedAsAWhole, OpenIsOwn, TodoIsAsked,
                        NoneSkipped, PivotFirst, HasExcuse
  <1> QED
    BY <1>3, <1>4, <1>5 DEF IInv

\* A call begins, with statements of one of the callbacks or routes.
LEMMA StartInv ==
    ASSUME IInv, NEW c \in Calls, NEW statements, NEW tx \in BOOLEAN,
           tx => statements \in Transactions,
           ~ tx => statements \in Queries,
           Start(c, statements, tx)
    PROVE  IInv'
  <1> DEFINE C == [at |-> "wait", tx |-> tx, on |-> None,
                   asked |-> statements, todo |-> statements]
  <1>1. /\ call[c].at = "unused" /\ call' = [call EXCEPT ![c] = C]
        /\ UNCHANGED <<table, conn, applied, faults, excused>>
    BY DEF Start
  <1>2. /\ statements \in Seq(Statement) /\ statements # <<>>
        /\ ~ tx => ToSet(statements) = {Head(statements)}
        /\ \/ \A x \in ToSet(statements) : ~ DeletesTarget(x)
           \/ \E t \in Targets : statements = DeleteTarget(t)
    BY TransactionProperties, QueryProperties
  <1>3. C \in CallRecord
    BY <1>2 DEF CallRecord, Stages
  <1>4. call \in [Calls -> CallRecord]
    BY DEF IInv, TypeOK, CallRecord
  <1>5. /\ call' \in [Calls -> CallRecord] /\ call'[c] = C
        /\ \A d \in Calls \ {c} : call'[d] = call[d]
    BY <1>1, <1>3, <1>4
  <1>6. On(c) = None /\ None \notin Calls /\ None \notin Connections
    BY <1>1, SqlAssumption DEF IInv, CallInv, Holds
  <1>7. TypeOK'
    <2>1. \A d \in Calls, k \in Connections : call'[d].on = k <=> conn[k].user = d
      BY <1>5, <1>6 DEF IInv, TypeOK, On
    <2> QED
      BY <1>1, <1>5, <2>1 DEF IInv, TypeOK, CallRecord
  <1>8. FreeIsClean'
    BY <1>1 DEF IInv, FreeIsClean
  <1>9. CallInv(c)'
    <2>1. AppliedOf(c)' = {} /\ On(c)' = None
      BY <1>1, <1>5 DEF AppliedOf, On, IInv, CallInv, AppliedAsAWhole
    <2> HIDE DEF C
    <2>2. /\ call'[c].at = "wait" /\ call'[c].tx = tx
          /\ call'[c].asked = statements /\ call'[c].todo = statements
      BY <1>5 DEF C
    <2> QED
      BY <1>2, <2>1, <2>2 DEF CallInv, Holds, AppliedAsAWhole, OpenIsOwn,
             TodoIsAsked, NoneSkipped, PivotFirst, HasExcuse
  <1>10. ASSUME NEW d \in Calls, d # c
         PROVE  CallInv(d)'
    BY <1>1, <1>5, <1>10, OthersKeep
  <1> QED
    BY <1>7, <1>8, <1>9, <1>10 DEF IInv

\* getConnection.
LEMMA AcquireInv ==
    ASSUME IInv, NEW c \in Calls, Acquire(c)
    PROVE  IInv'
  <1>1. PICK k \in Connections :
           /\ conn[k].user = None
           /\ conn' = [conn EXCEPT ![k].user = c]
           /\ call' = [call EXCEPT ![c].on = k,
                          ![c].at = IF call[c].tx THEN "begin" ELSE "run"]
    BY DEF Acquire
  <1>2. call[c].at = "wait" /\ UNCHANGED <<table, applied, faults, excused>>
    BY DEF Acquire
  <1> DEFINE K == [conn[k] EXCEPT !.user = c]
             C == [call[c] EXCEPT !.on = k,
                                  !.at = IF call[c].tx THEN "begin" ELSE "run"]
  <1>3. conn[k] \in ConnRecord /\ call[c] \in CallRecord /\ CallInv(c) /\ TypeOK
    BY RecordTypes DEF IInv
  <1>4. /\ K \in ConnRecord /\ K.user = c /\ K.dead = conn[k].dead
        /\ K.writes = conn[k].writes /\ K.locks = conn[k].locks
        /\ K.done = conn[k].done
    BY <1>3 DEF ConnRecord
  <1>5. /\ C \in CallRecord /\ C.on = k /\ C.tx = call[c].tx
        /\ C.at = IF call[c].tx THEN "begin" ELSE "run"
        /\ C.asked = call[c].asked /\ C.todo = call[c].todo
    BY <1>3 DEF CallRecord, Stages
  <1>6. conn' = [conn EXCEPT ![k] = K] /\ call' = [call EXCEPT ![c] = C]
    BY <1>1
  <1> HIDE DEF K, C
  <1>7. conn'[k] = K /\ call'[c] = C
    BY <1>3, <1>6 DEF TypeOK
  <1>8. On(c) = None /\ None \notin Calls /\ None \notin Connections
    BY <1>2, <1>3, SqlAssumption DEF CallInv, Holds
  <1>9. ~ K.dead /\ K.done = {}
    BY <1>1, <1>4 DEF IInv, FreeIsClean
  <1>10. CallInv(c)'
    <2>1. AppliedOf(c)' = AppliedOf(c) /\ On(c)' = k
      BY <1>2, <1>5, <1>7 DEF AppliedOf, On
    <2>2. Holds(c)' /\ AppliedAsAWhole(c)' /\ OpenIsOwn(c)' /\ TodoIsAsked(c)'
      BY <1>2, <1>3, <1>5, <1>7, <1>8, <1>9, <2>1
         DEF CallInv, Holds, AppliedAsAWhole, OpenIsOwn, TodoIsAsked
    <2>3. NoneSkipped(c)'
      BY <1>2, <1>3, <1>5, <1>7, <2>1 DEF CallInv, NoneSkipped
    <2>4. PivotFirst(c)' /\ HasExcuse(c)'
      BY <1>2, <1>3, <1>5, <1>7, <1>9, <2>1 DEF CallInv, PivotFirst, HasExcuse
    <2> QED
      BY <2>2, <2>3, <2>4 DEF CallInv
  <1>11. DOMAIN K.writes \subseteq K.locks
    BY <1>3, <1>4 DEF TypeOK
  <1>12. /\ table' \in [Rows -> Calls \cup {0, Absent}]
         /\ applied' \subseteq Calls \X Statement
         /\ \A d \in Calls \ {c}, s \in Statement :
               <<d, s>> \in applied' <=> <<d, s>> \in applied
         /\ faults' \in 0..MaxFaults
         /\ excused \subseteq excused' /\ excused' \subseteq Calls
    BY <1>2, <1>3 DEF TypeOK
  <1>13. On(c) = k \/ (On(c) = None /\ conn[k].user = None)
    BY <1>1, <1>8
  <1>14. /\ C.on \in {k, None} /\ K.user = IF C.on = k THEN c ELSE None
         /\ K.user = None => ~ K.dead /\ K.done = {}
    BY <1>4, <1>5, <1>9
  <1> QED
    BY <1>4, <1>5, <1>6, <1>10, <1>11, <1>12, <1>13, <1>14, StepInv
\* What the pool gets back.
LEMMA ReleasedType ==
    ASSUME TypeOK, NEW k \in Connections
    PROVE  LET K == Released(k)
           IN  /\ K \in ConnRecord /\ DOMAIN K.writes \subseteq K.locks
               /\ K.user = None /\ ~ K.dead
               /\ conn[k].done = {} => K.done = {}
  <1>1. conn[k] \in ConnRecord /\ DOMAIN conn[k].writes \subseteq conn[k].locks
    BY RecordTypes DEF TypeOK
  <1>2. CASE conn[k].dead
    BY <1>2, CleanType DEF Released, Clean
  <1>3. CASE ~ conn[k].dead
    <2>1. Released(k) = [conn[k] EXCEPT !.user = None]
      BY <1>3 DEF Released
    <2> QED
      BY <1>1, <1>3, <2>1 DEF ConnRecord
  <1> QED
    BY <1>2, <1>3

\* beginTransaction: nothing of an earlier transaction is left to take effect.
LEMMA BeginInv ==
    ASSUME IInv, NEW c \in Calls, Begin(c)
    PROVE  IInv'
  <1> DEFINE k == On(c)
             K == [Clean EXCEPT !.user = c, !.open = TRUE]
             C == [call[c] EXCEPT !.at = "run"]
  <1>1. /\ call[c].at = "begin" /\ Commits(k) /\ UNCHANGED <<faults, excused>>
        /\ conn' = [conn EXCEPT ![k] = [Clean EXCEPT !.user = c, !.open = TRUE]]
        /\ call' = [call EXCEPT ![c].at = "run"]
    BY DEF Begin
  <1>2. On(c) # None /\ call[c].tx
    BY <1>1 DEF IInv, CallInv, Holds
  <1>3. conn[k] \in ConnRecord /\ call[c] \in CallRecord /\ CallInv(c) /\ TypeOK
    BY <1>2, Connected, RecordTypes DEF IInv
  <1>4. k \in Connections /\ conn[k].user = c
    BY <1>2, Connected
  <1>5. /\ K \in ConnRecord /\ DOMAIN K.writes \subseteq K.locks
        /\ K.user = c /\ K.dead = FALSE /\ K.done = {}
    BY CleanRecord DEF ConnRecord
  <1>6. /\ C \in CallRecord /\ C.on = k /\ C.at = "run"
        /\ C.tx = call[c].tx /\ C.asked = call[c].asked /\ C.todo = call[c].todo
    BY <1>3 DEF CallRecord, Stages, On
  <1>7. conn' = [conn EXCEPT ![k] = K] /\ call' = [call EXCEPT ![c] = C]
    BY <1>1
  <1> HIDE DEF K, C, k
  <1>8. conn'[k] = K /\ call'[c] = C /\ None \notin Calls /\ None \notin Connections
    BY <1>3, <1>4, <1>7, SqlAssumption DEF TypeOK
  <1>9. applied' = applied
    BY <1>1, <1>2, <1>3 DEF Commits, CallInv, OpenIsOwn, k
  <1>10. /\ table' \in [Rows -> Calls \cup {0, Absent}]
         /\ applied' \subseteq Calls \X Statement
         /\ \A d \in Calls \ {c}, s \in Statement :
               <<d, s>> \in applied' <=> <<d, s>> \in applied
         /\ faults' \in 0..MaxFaults
         /\ excused \subseteq excused' /\ excused' \subseteq Calls
    BY <1>1, <1>3, <1>4, <1>9, CommitsType DEF TypeOK
  <1>11. CallInv(c)'
    <2>1. AppliedOf(c)' = AppliedOf(c) /\ On(c)' = k
      BY <1>6, <1>8, <1>9 DEF AppliedOf, On
    <2>2. Holds(c)' /\ AppliedAsAWhole(c)' /\ OpenIsOwn(c)' /\ TodoIsAsked(c)'
      BY <1>1, <1>2, <1>3, <1>4, <1>5, <1>6, <1>8, <2>1
         DEF CallInv, Holds, AppliedAsAWhole, OpenIsOwn, TodoIsAsked
    <2>3. NoneSkipped(c)'
      BY <1>1, <1>2, <1>3, <1>6, <1>8, <2>1 DEF CallInv, NoneSkipped
    <2>4. PivotFirst(c)' /\ HasExcuse(c)'
      BY <1>1, <1>3, <1>5, <1>6, <1>8, <2>1 DEF CallInv, PivotFirst, HasExcuse
    <2> QED
      BY <2>2, <2>3, <2>4 DEF CallInv
  <1>12. /\ C.on \in {k, None} /\ K.user = IF C.on = k THEN c ELSE None
         /\ K.user = None => ~ K.dead /\ K.done = {}
    BY <1>4, <1>5, <1>6, <1>8
  <1>13. On(c) = k \/ (On(c) = None /\ conn[k].user = None)
    BY DEF k
  <1> QED
    BY <1>4, <1>5, <1>6, <1>7, <1>10, <1>11, <1>12, <1>13, StepInv

\* A statement about a pivot also locks its target, which is a row.
LEMMA LockedRows ==
    ASSUME NEW s \in Statement
    PROVE  LockedBy(s) \subseteq Rows /\ s.row \in LockedBy(s)
  <1>1. s.row \in Rows
    BY DEF Statement
  <1>2. s.row[1] = "pivot" => s.row[2] \in Targets
    BY <1>1 DEF Rows
  <1> QED
    BY <1>1, <1>2, RowsProperties DEF LockedBy

\* The next query of a transaction.
LEMMA QueryInv ==
    ASSUME IInv, NEW c \in Calls, Query(c)
    PROVE  IInv'
  <1> DEFINE k == On(c)
             s == Head(call[c].todo)
             W == [r \in DOMAIN conn[k].writes \cup {s.row} |->
                      IF r = s.row THEN Value(k, s, c) ELSE conn[k].writes[r]]
             K == [conn[k] EXCEPT !.writes = W, !.locks = @ \cup LockedBy(s),
                                   !.done = @ \cup {<<c, s>>}]
             C == [call[c] EXCEPT !.todo = Tail(@),
                                   !.at = IF Len(call[c].todo) = 1
                                          THEN "commit" ELSE "run"]
  <1>1. /\ call[c].at = "run" /\ call[c].tx /\ ~ conn[k].dead
        /\ UNCHANGED <<table, applied, faults, excused>>
    BY DEF Query
  <1>2. On(c) # None
    BY <1>1 DEF IInv, CallInv, Holds
  <1>3. conn[k] \in ConnRecord /\ call[c] \in CallRecord /\ CallInv(c) /\ TypeOK
    BY <1>2, Connected, RecordTypes DEF IInv
  <1>4. k \in Connections /\ conn[k].user = c
    BY <1>2, Connected
  <1>5. /\ s \in Statement /\ Tail(call[c].todo) \in Seq(Statement)
        /\ ToSet(call[c].todo) = {s} \cup ToSet(Tail(call[c].todo))
        /\ Len(call[c].todo) = 1 => ToSet(Tail(call[c].todo)) = {}
        /\ Len(call[c].todo) # 1 => Tail(call[c].todo) # <<>>
    <2>1. call[c].todo \in Seq(Statement) /\ call[c].todo # <<>>
      BY <1>1, <1>3 DEF CallRecord, CallInv, NoneSkipped
    <2>2. /\ s \in Statement /\ Tail(call[c].todo) \in Seq(Statement)
          /\ ToSet(call[c].todo) = {s} \cup ToSet(Tail(call[c].todo))
      BY <2>1, ToSetHeadTail
    <2> QED
      BY <2>1, <2>2, TailLength
  <1> HIDE DEF s
  <1>6. s.row \in Rows /\ LockedBy(s) \subseteq Rows /\ s.row \in LockedBy(s)
    BY <1>5, RowsProperties, LockedRows
  <1>7. W \in Writes /\ DOMAIN W = DOMAIN conn[k].writes \cup {s.row}
    <2>1. PICK R \in SUBSET Rows : conn[k].writes \in [R -> Calls \cup {Absent}]
      BY <1>3 DEF ConnRecord, Writes
    <2>2. Value(k, s, c) \in Calls \cup {Absent}
      BY DEF Value
    <2>3. \A r \in R : conn[k].writes[r] \in Calls \cup {Absent}
      BY <2>1
    <2>4. DOMAIN conn[k].writes = R
      BY <2>1
    <2>5. W \in [R \cup {s.row} -> Calls \cup {Absent}]
      BY <2>2, <2>3, <2>4
    <2>6. DOMAIN W = R \cup {s.row}
      BY <2>4
    <2> HIDE DEF W
    <2>7. R \cup {s.row} \in SUBSET Rows
      BY <1>6
    <2> QED
      BY <2>4, <2>5, <2>6, <2>7 DEF Writes
  <1> HIDE DEF W
  <1>8. /\ K \in ConnRecord /\ DOMAIN K.writes \subseteq K.locks
        /\ K.user = c /\ K.dead = FALSE /\ K.writes = W
        /\ K.done = conn[k].done \cup {<<c, s>>}
    <2>1. DOMAIN conn[k].writes \subseteq conn[k].locks
      BY <1>3, <1>4 DEF TypeOK
    <2>2. <<c, s>> \in Calls \X Statement
      BY <1>5
    <2>3. /\ K.user = c /\ K.dead = FALSE /\ K.open = conn[k].open
          /\ K.writes = W /\ K.locks = conn[k].locks \cup LockedBy(s)
          /\ K.done = conn[k].done \cup {<<c, s>>}
      BY <1>1, <1>3, <1>4 DEF ConnRecord
    <2>4. K \in ConnRecord
      BY <1>3, <1>6, <1>7, <2>2 DEF ConnRecord
    <2> QED
      BY <1>6, <1>7, <2>1, <2>3, <2>4
  <1>9. /\ C \in CallRecord /\ C.on = k
        /\ C.at = IF Len(call[c].todo) = 1 THEN "commit" ELSE "run"
        /\ C.tx = call[c].tx /\ C.asked = call[c].asked
        /\ C.todo = Tail(call[c].todo)
    BY <1>3, <1>5 DEF CallRecord, Stages, On
  <1>10. conn' = [conn EXCEPT ![k] = K] /\ call' = [call EXCEPT ![c] = C]
    BY DEF Query, W, s
  <1> HIDE DEF K, C, k
  <1>11. conn'[k] = K /\ call'[c] = C /\ None \notin Calls /\ None \notin Connections
    BY <1>3, <1>4, <1>10, SqlAssumption DEF TypeOK
  <1>12. /\ table' \in [Rows -> Calls \cup {0, Absent}]
         /\ applied' \subseteq Calls \X Statement
         /\ \A d \in Calls \ {c}, x \in Statement :
               <<d, x>> \in applied' <=> <<d, x>> \in applied
         /\ faults' \in 0..MaxFaults
         /\ excused \subseteq excused' /\ excused' \subseteq Calls
    BY <1>1, <1>3 DEF TypeOK
  <1>13. CallInv(c)'
    <2>1. AppliedOf(c)' = AppliedOf(c) /\ On(c)' = k
      BY <1>1, <1>9, <1>11 DEF AppliedOf, On
    <2>2. Holds(c)' /\ AppliedAsAWhole(c)'
      BY <1>1, <1>2, <1>3, <1>4, <1>9, <1>11, <2>1
         DEF CallInv, Holds, AppliedAsAWhole
    <2>3. OpenIsOwn(c)' /\ TodoIsAsked(c)'
      <3>1. s \in ToSet(call[c].asked)
            /\ ToSet(Tail(call[c].todo)) \subseteq ToSet(call[c].asked)
        BY <1>3, <1>5 DEF CallInv, TodoIsAsked
      <3>2. conn[k].done \subseteq {c} \X ToSet(call[c].asked)
        BY <1>2, <1>3 DEF CallInv, OpenIsOwn, k
      <3>3. K.done \subseteq {c} \X ToSet(call[c].asked)
        BY <1>8, <3>1, <3>2
      <3> QED
        BY <1>1, <1>9, <1>11, <2>1, <3>1, <3>3 DEF OpenIsOwn, TodoIsAsked, On
    <2>4. NoneSkipped(c)'
      <3>1. \A a \in ToSet(call[c].asked) :
               <<c, a>> \in conn[k].done \/ a \in ToSet(call[c].todo)
        BY <1>1, <1>3 DEF CallInv, NoneSkipped, k
      <3>2. \A a \in ToSet(call[c].asked) :
               <<c, a>> \in K.done \/ a \in ToSet(C.todo)
        BY <1>8, <1>9, <1>5, <3>1
      <3>3. C.at = "commit" => {c} \X ToSet(call[c].asked) \subseteq K.done
        BY <1>9, <1>5, <3>2
      <3> QED
        BY <1>1, <1>9, <1>11, <1>5, <2>1, <3>2, <3>3 DEF NoneSkipped, On
    <2>5. PivotFirst(c)'
      <3>1. CASE \A x \in ToSet(call[c].todo) : ~ DeletesTarget(x)
        BY <1>9, <1>11, <1>5, <3>1 DEF PivotFirst
      <3>2. ASSUME NEW t \in Targets, call[c].todo = DeleteTarget(t)
            PROVE  PivotFirst(c)'
        <4>1. /\ s = Delete(<<"pivot", t>>)
              /\ Tail(call[c].todo) = <<Delete(<<"target", t>>)>>
          BY <3>2 DEF DeleteTarget, s
        <4>2. s.row = <<"pivot", t>> /\ Value(k, s, c) = Absent
          BY <4>1 DEF Delete, Value
        <4>3. /\ <<"pivot", t>> \in DOMAIN K.writes
              /\ K.writes[<<"pivot", t>>] = Absent
          BY <1>8, <4>2 DEF W
        <4> QED
          BY <1>9, <1>11, <2>1, <4>1, <4>3 DEF PivotFirst
      <3>3. ASSUME NEW t \in Targets, call[c].todo = <<Delete(<<"target", t>>)>>
            PROVE  PivotFirst(c)'
        <4>1. Len(call[c].todo) = 1
          BY <3>3
        <4> QED
          BY <1>9, <1>11, <4>1 DEF PivotFirst
      <3> QED
        BY <1>1, <1>3, <3>1, <3>2, <3>3 DEF CallInv, PivotFirst, k
    <2>6. HasExcuse(c)'
      BY <1>1, <1>3, <1>8, <1>9, <1>11, <2>1 DEF CallInv, HasExcuse
    <2> QED
      BY <2>2, <2>3, <2>4, <2>5, <2>6 DEF CallInv
  <1>14. /\ C.on \in {k, None} /\ K.user = IF C.on = k THEN c ELSE None
         /\ K.user = None => ~ K.dead /\ K.done = {}
    BY <1>4, <1>8, <1>9, <1>11
  <1>15. On(c) = k \/ (On(c) = None /\ conn[k].user = None)
    BY DEF k
  <1> QED
    BY <1>4, <1>8, <1>9, <1>10, <1>12, <1>13, <1>14, <1>15, StepInv

\* pool.query: the one statement takes effect and the call returns.
LEMMA PoolQueryInv ==
    ASSUME IInv, NEW c \in Calls, PoolQuery(c)
    PROVE  IInv'
  <1> DEFINE k == On(c)
             s == Head(call[c].todo)
             K == Released(k)
             C == [call[c] EXCEPT !.at = "returned", !.on = None]
  <1>1. /\ call[c].at = "run" /\ ~ call[c].tx /\ ~ conn[k].dead
        /\ table' = [table EXCEPT ![s.row] = Value(k, s, c)]
        /\ applied' = applied \cup {<<c, s>>}
        /\ UNCHANGED <<faults, excused>>
    BY DEF PoolQuery
  <1>2. On(c) # None
    BY <1>1 DEF IInv, CallInv, Holds
  <1>3. conn[k] \in ConnRecord /\ call[c] \in CallRecord /\ CallInv(c) /\ TypeOK
    BY <1>2, Connected, RecordTypes DEF IInv
  <1>4. k \in Connections /\ conn[k].user = c
    BY <1>2, Connected
  <1>5. s \in Statement /\ ToSet(call[c].asked) = {s}
    <2>1. call[c].todo \in Seq(Statement) /\ call[c].todo # <<>>
      BY <1>1, <1>3 DEF CallRecord, CallInv, NoneSkipped
    <2> QED
      BY <1>1, <1>3, <2>1, ToSetHeadTail DEF CallInv, NoneSkipped
  <1> HIDE DEF s
  <1>6. /\ K \in ConnRecord /\ DOMAIN K.writes \subseteq K.locks
        /\ K.user = None /\ ~ K.dead /\ K.done = {}
    BY <1>1, <1>2, <1>3, <1>4, ReleasedType DEF CallInv, OpenIsOwn, k
  <1>7. /\ C \in CallRecord /\ C.on = None /\ C.at = "returned"
        /\ C.tx = call[c].tx /\ C.asked = call[c].asked /\ C.todo = call[c].todo
    BY <1>3 DEF CallRecord, Stages
  <1>8. conn' = [conn EXCEPT ![k] = K] /\ call' = [call EXCEPT ![c] = C]
    BY DEF PoolQuery, Ends, k, s
  <1> HIDE DEF K, C, k
  <1>9. conn'[k] = K /\ call'[c] = C /\ None \notin Calls /\ None \notin Connections
    BY <1>3, <1>4, <1>8, SqlAssumption DEF TypeOK
  <1>10. /\ table' \in [Rows -> Calls \cup {0, Absent}]
         /\ applied' \subseteq Calls \X Statement
         /\ \A d \in Calls \ {c}, x \in Statement :
               <<d, x>> \in applied' <=> <<d, x>> \in applied
         /\ faults' \in 0..MaxFaults
         /\ excused \subseteq excused' /\ excused' \subseteq Calls
    <2>1. Value(k, s, c) \in Calls \cup {0, Absent}
      BY DEF Value
    <2>2. s.row \in Rows
      BY <1>5 DEF Statement
    <2>3. table' \in [Rows -> Calls \cup {0, Absent}]
      BY <1>1, <1>3, <2>1, <2>2 DEF TypeOK
    <2>4. applied' \subseteq Calls \X Statement
      BY <1>1, <1>3, <1>5 DEF TypeOK
    <2>5. \A d \in Calls \ {c}, x \in Statement :
             <<d, x>> \in applied' <=> <<d, x>> \in applied
      BY <1>1
    <2> QED
      BY <1>1, <1>3, <2>3, <2>4, <2>5 DEF TypeOK
  <1>11. CallInv(c)'
    <2>1. AppliedOf(c)' = {s} /\ On(c)' = None
      BY <1>1, <1>3, <1>7, <1>9, <1>5
         DEF AppliedOf, On, CallInv, AppliedAsAWhole
    <2>2. /\ call'[c].at = "returned" /\ call'[c].todo = call[c].todo
          /\ call'[c].asked = call[c].asked
      BY <1>7, <1>9
    <2>3. TodoIsAsked(c)
      BY <1>3 DEF CallInv
    <2> QED
      BY <1>5, <2>1, <2>2, <2>3 DEF CallInv, Holds, AppliedAsAWhole, OpenIsOwn,
             TodoIsAsked, NoneSkipped, PivotFirst, HasExcuse
  <1>12. /\ C.on \in {k, None} /\ K.user = IF C.on = k THEN c ELSE None
         /\ K.user = None => ~ K.dead /\ K.done = {}
    BY <1>4, <1>6, <1>7, <1>9
  <1>13. On(c) = k \/ (On(c) = None /\ conn[k].user = None)
    BY DEF k
  <1> QED
    BY <1>4, <1>6, <1>7, <1>8, <1>10, <1>11, <1>12, <1>13, StepInv

\* commit, and the finally: all that was asked takes effect.
LEMMA CommitInv ==
    ASSUME IInv, NEW c \in Calls, Commit(c)
    PROVE  IInv'
  <1> DEFINE k == On(c)
             K == Clean
             C == [call[c] EXCEPT !.at = "returned", !.on = None]
  <1>1. /\ call[c].at = "commit" /\ ~ conn[k].dead /\ Commits(k)
        /\ UNCHANGED <<faults, excused>>
    BY DEF Commit
  <1>2. On(c) # None
    BY <1>1 DEF IInv, CallInv, Holds
  <1>3. conn[k] \in ConnRecord /\ call[c] \in CallRecord /\ CallInv(c) /\ TypeOK
    BY <1>2, Connected, RecordTypes DEF IInv
  <1>4. k \in Connections /\ conn[k].user = c
    BY <1>2, Connected
  <1>5. /\ applied' = applied \cup ({c} \X ToSet(call[c].asked))
        /\ ToSet(call[c].asked) \subseteq Statement
    <2>1. conn[k].done = {c} \X ToSet(call[c].asked)
      BY <1>1, <1>2, <1>3 DEF CallInv, OpenIsOwn, NoneSkipped, k
    <2>2. call[c].asked \in Seq(Statement)
      BY <1>3 DEF CallRecord
    <2>3. ToSet(call[c].asked) \subseteq Statement
      BY <2>2 DEF ToSet
    <2> QED
      BY <1>1, <2>1, <2>3 DEF Commits
  <1>6. /\ K \in ConnRecord /\ DOMAIN K.writes \subseteq K.locks
        /\ K.user = None /\ ~ K.dead /\ K.done = {}
    BY CleanRecord
  <1>7. /\ C \in CallRecord /\ C.on = None /\ C.at = "returned"
        /\ C.tx = call[c].tx /\ C.asked = call[c].asked /\ C.todo = call[c].todo
    BY <1>3 DEF CallRecord, Stages
  <1>8. conn' = [conn EXCEPT ![k] = K] /\ call' = [call EXCEPT ![c] = C]
    BY DEF Commit, Ends, k
  <1> HIDE DEF K, C, k
  <1>9. conn'[k] = K /\ call'[c] = C /\ None \notin Calls /\ None \notin Connections
    BY <1>3, <1>4, <1>8, SqlAssumption DEF TypeOK
  <1>10. /\ table' \in [Rows -> Calls \cup {0, Absent}]
         /\ applied' \subseteq Calls \X Statement
         /\ \A d \in Calls \ {c}, s \in Statement :
               <<d, s>> \in applied' <=> <<d, s>> \in applied
         /\ faults' \in 0..MaxFaults
         /\ excused \subseteq excused' /\ excused' \subseteq Calls
    <2>1. /\ table' \in [Rows -> Calls \cup {0, Absent}]
          /\ applied' \subseteq Calls \X Statement
      BY <1>1, <1>3, <1>4, CommitsType
    <2> QED
      BY <1>1, <1>3, <1>5, <2>1 DEF TypeOK
  <1>11. CallInv(c)'
    <2>1. AppliedOf(c)' = ToSet(call[c].asked) /\ On(c)' = None
      BY <1>1, <1>3, <1>7, <1>9, <1>5
         DEF AppliedOf, On, CallInv, AppliedAsAWhole
    <2>2. /\ call'[c].at = "returned" /\ call'[c].todo = call[c].todo
          /\ call'[c].asked = call[c].asked
      BY <1>7, <1>9
    <2>3. TodoIsAsked(c)
      BY <1>3 DEF CallInv
    <2> QED
      BY <2>1, <2>2, <2>3 DEF CallInv, Holds, AppliedAsAWhole, OpenIsOwn,
             TodoIsAsked, NoneSkipped, PivotFirst, HasExcuse
  <1>12. /\ C.on \in {k, None} /\ K.user = IF C.on = k THEN c ELSE None
         /\ K.user = None => ~ K.dead /\ K.done = {}
    BY <1>4, <1>6, <1>7, <1>9
  <1>13. On(c) = k \/ (On(c) = None /\ conn[k].user = None)
    BY DEF k
  <1> QED
    BY <1>4, <1>6, <1>7, <1>8, <1>10, <1>11, <1>12, <1>13, StepInv

\* The commit takes effect, but its answer is lost with the connection.
LEMMA CommitUnansweredInv ==
    ASSUME IInv, NEW c \in Calls, CommitUnanswered(c)
    PROVE  IInv'
  <1> DEFINE k == On(c)
             K == [Clean EXCEPT !.user = c, !.dead = TRUE]
             C == [call[c] EXCEPT !.at = "rollback"]
  <1>1. /\ call[c].at = "commit" /\ ~ conn[k].dead /\ Commits(k) /\ Fault(c)
    BY DEF CommitUnanswered
  <1>2. On(c) # None /\ call[c].tx
    BY <1>1 DEF IInv, CallInv, Holds
  <1>3. conn[k] \in ConnRecord /\ call[c] \in CallRecord /\ CallInv(c) /\ TypeOK
    BY <1>2, Connected, RecordTypes DEF IInv
  <1>4. k \in Connections /\ conn[k].user = c
    BY <1>2, Connected
  <1>5. /\ applied' = applied \cup ({c} \X ToSet(call[c].asked))
        /\ ToSet(call[c].asked) \subseteq Statement
    <2>1. conn[k].done = {c} \X ToSet(call[c].asked)
      BY <1>1, <1>2, <1>3 DEF CallInv, OpenIsOwn, NoneSkipped, k
    <2>2. call[c].asked \in Seq(Statement)
      BY <1>3 DEF CallRecord
    <2>3. ToSet(call[c].asked) \subseteq Statement
      BY <2>2 DEF ToSet
    <2> QED
      BY <1>1, <2>1, <2>3 DEF Commits
  <1>6. /\ faults' \in 0..MaxFaults /\ excused' = excused \cup {c}
        /\ excused' \subseteq Calls
    BY <1>1, <1>3, FaultType
  <1>7. /\ K \in ConnRecord /\ DOMAIN K.writes \subseteq K.locks
        /\ K.user = c /\ K.dead /\ K.done = {}
    BY CleanRecord DEF ConnRecord
  <1>8. /\ C \in CallRecord /\ C.on = k /\ C.at = "rollback"
        /\ C.tx = call[c].tx /\ C.asked = call[c].asked /\ C.todo = call[c].todo
    BY <1>3 DEF CallRecord, Stages, On
  <1>9. conn' = [conn EXCEPT ![k] = K] /\ call' = [call EXCEPT ![c] = C]
    BY DEF CommitUnanswered, k
  <1> HIDE DEF K, C, k
  <1>10. conn'[k] = K /\ call'[c] = C /\ None \notin Calls /\ None \notin Connections
    BY <1>3, <1>4, <1>9, SqlAssumption DEF TypeOK
  <1>11. /\ table' \in [Rows -> Calls \cup {0, Absent}]
         /\ applied' \subseteq Calls \X Statement
         /\ \A d \in Calls \ {c}, s \in Statement :
               <<d, s>> \in applied' <=> <<d, s>> \in applied
         /\ faults' \in 0..MaxFaults
         /\ excused \subseteq excused' /\ excused' \subseteq Calls
    <2>1. /\ table' \in [Rows -> Calls \cup {0, Absent}]
          /\ applied' \subseteq Calls \X Statement
      BY <1>1, <1>3, <1>4, CommitsType
    <2> QED
      BY <1>3, <1>5, <1>6, <2>1 DEF TypeOK
  <1>12. CallInv(c)'
    <2>1. AppliedOf(c)' = ToSet(call[c].asked) /\ On(c)' = k
      BY <1>1, <1>3, <1>8, <1>10, <1>5
         DEF AppliedOf, On, CallInv, AppliedAsAWhole
    <2>2. /\ call'[c].at = "rollback" /\ call'[c].todo = call[c].todo
          /\ call'[c].asked = call[c].asked /\ call'[c].tx /\ conn'[k] = K
      BY <1>2, <1>8, <1>10
    <2>3. TodoIsAsked(c)
      BY <1>3 DEF CallInv
    <2> QED
      BY <1>4, <1>7, <1>10, <1>6, <2>1, <2>2, <2>3
         DEF CallInv, Holds, AppliedAsAWhole, OpenIsOwn, TodoIsAsked,
             NoneSkipped, PivotFirst, HasExcuse
  <1>13. /\ C.on \in {k, None} /\ K.user = IF C.on = k THEN c ELSE None
         /\ K.user = None => ~ K.dead /\ K.done = {}
    BY <1>4, <1>7, <1>8, <1>10
  <1>14. On(c) = k \/ (On(c) = None /\ conn[k].user = None)
    BY DEF k
  <1> QED
    BY <1>4, <1>7, <1>8, <1>9, <1>11, <1>12, <1>13, <1>14, StepInv

\* The catch and the finally: what was open never takes effect.
LEMMA RollbackInv ==
    ASSUME IInv, NEW c \in Calls, Rollback(c)
    PROVE  IInv'
  <1> DEFINE k == On(c)
             K == Clean
             C == [call[c] EXCEPT !.at = "threw", !.on = None]
  <1>1. call[c].at = "rollback" /\ UNCHANGED <<table, applied, faults, excused>>
    BY DEF Rollback
  <1>2. On(c) # None
    BY <1>1 DEF IInv, CallInv, Holds
  <1>3. conn[k] \in ConnRecord /\ call[c] \in CallRecord /\ CallInv(c) /\ TypeOK
    BY <1>2, Connected, RecordTypes DEF IInv
  <1>4. k \in Connections /\ conn[k].user = c
    BY <1>2, Connected
  <1>5. /\ K \in ConnRecord /\ DOMAIN K.writes \subseteq K.locks
        /\ K.user = None /\ ~ K.dead /\ K.done = {}
    BY CleanRecord
  <1>6. /\ C \in CallRecord /\ C.on = None /\ C.at = "threw"
        /\ C.tx = call[c].tx /\ C.asked = call[c].asked /\ C.todo = call[c].todo
    BY <1>3 DEF CallRecord, Stages
  <1>7. conn' = [conn EXCEPT ![k] = K] /\ call' = [call EXCEPT ![c] = C]
    BY DEF Rollback, Ends, k
  <1> HIDE DEF K, C, k
  <1>8. conn'[k] = K /\ call'[c] = C /\ None \notin Calls /\ None \notin Connections
    BY <1>3, <1>4, <1>7, SqlAssumption DEF TypeOK
  <1>9. /\ table' \in [Rows -> Calls \cup {0, Absent}]
        /\ applied' \subseteq Calls \X Statement
        /\ \A d \in Calls \ {c}, s \in Statement :
              <<d, s>> \in applied' <=> <<d, s>> \in applied
        /\ faults' \in 0..MaxFaults
        /\ excused \subseteq excused' /\ excused' \subseteq Calls
    BY <1>1, <1>3 DEF TypeOK
  <1>10. CallInv(c)'
    <2>1. AppliedOf(c)' = AppliedOf(c) /\ On(c)' = None
      BY <1>1, <1>6, <1>8 DEF AppliedOf, On
    <2>2. /\ call'[c].at = "threw" /\ call'[c].todo = call[c].todo
          /\ call'[c].asked = call[c].asked
      BY <1>6, <1>8
    <2> QED
      BY <1>1, <1>3, <2>1, <2>2 DEF CallInv, Holds, AppliedAsAWhole, OpenIsOwn,
             TodoIsAsked, NoneSkipped, PivotFirst, HasExcuse
  <1>11. /\ C.on \in {k, None} /\ K.user = IF C.on = k THEN c ELSE None
         /\ K.user = None => ~ K.dead /\ K.done = {}
    BY <1>4, <1>5, <1>6, <1>8
  <1>12. On(c) = k \/ (On(c) = None /\ conn[k].user = None)
    BY DEF k
  <1> QED
    BY <1>4, <1>5, <1>6, <1>7, <1>9, <1>10, <1>11, <1>12, StepInv

\* A call throws for a fault, its own or its connection's, or for a pivot
\* without its target: the target that it deletes itself has no pivot any more.
LEMMA ThrowExcuse ==
    ASSUME IInv, NEW c \in Calls, Throw(c), On(c) # None
    PROVE  /\ excused \subseteq excused' /\ excused' \subseteq Calls
           /\ faults' \in 0..MaxFaults
           /\ c \in excused' \/ \E s \in ToSet(call[c].asked) : PutsPivot(s)
  <1> DEFINE k == On(c)
             s == Head(call[c].todo)
  <1>1. CallInv(c) /\ TypeOK /\ call[c] \in CallRecord
    BY RecordTypes DEF IInv
  <1>2. CASE Fault(c)
    BY <1>1, <1>2, FaultType
  <1>3. CASE conn[k].dead /\ UNCHANGED <<faults, excused>>
    BY <1>1, <1>3 DEF CallInv, HasExcuse, TypeOK
  <1>4. CASE call[c].at = "run" /\ Refuses(k, s) /\ UNCHANGED <<faults, excused>>
    <2> SUFFICES ASSUME ~ conn[k].dead
                 PROVE  PutsPivot(s) /\ s \in ToSet(call[c].asked)
      BY <1>1, <1>3, <1>4 DEF TypeOK
    <2>1. call[c].todo \in Seq(Statement) /\ call[c].todo # <<>>
      BY <1>1, <1>4 DEF CallRecord, CallInv, NoneSkipped
    <2>2. s \in ToSet(call[c].todo)
      BY <2>1, ToSetHeadTail
    <2>3. s \in ToSet(call[c].asked)
      BY <1>1, <2>2 DEF CallInv, TodoIsAsked
    <2>4. ~ DeletesTarget(s) \/ ~ Refuses(k, s)
      <3>1. CASE \A x \in ToSet(call[c].todo) : ~ DeletesTarget(x)
        BY <2>2, <3>1
      <3>2. ASSUME NEW t \in Targets, call[c].todo = DeleteTarget(t)
            PROVE  ~ DeletesTarget(s)
        BY <3>2 DEF DeleteTarget, Delete, DeletesTarget
      <3>3. ASSUME NEW t \in Targets, call[c].todo = <<Delete(<<"target", t>>)>>,
                   <<"pivot", t>> \in DOMAIN conn[k].writes,
                   conn[k].writes[<<"pivot", t>>] = Absent
            PROVE  ~ Refuses(k, s)
        <4>1. s.op = "delete" /\ s.row = <<"target", t>>
          BY <3>3 DEF Delete
        <4>2. View(k, <<"pivot", t>>) = Absent
          BY <3>3 DEF View
        <4> HIDE DEF k, s
        <4> QED
          BY <4>1, <4>2 DEF Refuses
      <3> QED
        BY <1>1, <1>4, <3>1, <3>2, <3>3 DEF CallInv, PivotFirst
    <2> QED
      BY <1>4, <2>3, <2>4 DEF Refuses, DeletesTarget, PutsPivot
  <1> QED
    BY <1>2, <1>3, <1>4 DEF Throw

\* The awaited call of a transaction throws, and the catch runs.
LEMMA ThrowInTransactionInv ==
    ASSUME IInv, NEW c \in Calls, Throw(c), call[c].tx
    PROVE  IInv'
  <1> DEFINE k == On(c)
             K == conn[k]
             C == [call[c] EXCEPT !.at = "rollback"]
  <1>1. call[c].at \in {"begin", "run", "commit"} /\ UNCHANGED <<table, applied>>
    BY DEF Throw
  <1>2. On(c) # None
    BY <1>1 DEF IInv, CallInv, Holds
  <1>3. conn[k] \in ConnRecord /\ call[c] \in CallRecord /\ CallInv(c) /\ TypeOK
    BY <1>2, Connected, RecordTypes DEF IInv
  <1>4. k \in Connections /\ conn[k].user = c
    BY <1>2, Connected
  <1>5. /\ excused \subseteq excused' /\ excused' \subseteq Calls
        /\ faults' \in 0..MaxFaults
        /\ c \in excused' \/ \E s \in ToSet(call[c].asked) : PutsPivot(s)
    BY <1>1, <1>2, <1>3, ThrowExcuse
  <1>6. /\ K \in ConnRecord /\ DOMAIN K.writes \subseteq K.locks
        /\ K.user = c /\ K = conn[k]
    BY <1>3, <1>4 DEF TypeOK
  <1>7. /\ C \in CallRecord /\ C.on = k /\ C.at = "rollback"
        /\ C.tx = call[c].tx /\ C.asked = call[c].asked /\ C.todo = call[c].todo
    BY <1>3 DEF CallRecord, Stages, On
  <1>8. conn' = [conn EXCEPT ![k] = K] /\ call' = [call EXCEPT ![c] = C]
    BY <1>3, <1>4 DEF Throw, TypeOK, k
  <1> HIDE DEF K, C, k
  <1>9. conn'[k] = K /\ call'[c] = C /\ None \notin Calls /\ None \notin Connections
    BY <1>3, <1>4, <1>8, SqlAssumption DEF TypeOK
  <1>10. /\ table' \in [Rows -> Calls \cup {0, Absent}]
         /\ applied' \subseteq Calls \X Statement
         /\ \A d \in Calls \ {c}, s \in Statement :
               <<d, s>> \in applied' <=> <<d, s>> \in applied
         /\ faults' \in 0..MaxFaults
         /\ excused \subseteq excused' /\ excused' \subseteq Calls
    BY <1>1, <1>3, <1>5 DEF TypeOK
  <1>11. CallInv(c)'
    <2>1. AppliedOf(c)' = AppliedOf(c) /\ On(c)' = k
      BY <1>1, <1>7, <1>9 DEF AppliedOf, On
    <2>2. /\ call'[c].at = "rollback" /\ call'[c].todo = call[c].todo
          /\ call'[c].asked = call[c].asked /\ call'[c].tx
          /\ conn'[k] = conn[k]
      BY <1>6, <1>7, <1>9
    <2>3. OpenIsOwn(c)'
      BY <1>2, <1>3, <2>1, <2>2 DEF CallInv, OpenIsOwn, k
    <2>4. HasExcuse(c)'
      BY <1>2, <1>3, <1>5, <2>1, <2>2 DEF CallInv, HasExcuse, k
    <2> QED
      BY <1>1, <1>3, <1>4, <1>9, <2>1, <2>2, <2>3, <2>4
         DEF CallInv, Holds, AppliedAsAWhole, TodoIsAsked, NoneSkipped, PivotFirst
  <1>12. /\ C.on \in {k, None} /\ K.user = IF C.on = k THEN c ELSE None
         /\ K.user = None => ~ K.dead /\ K.done = {}
    BY <1>4, <1>6, <1>7, <1>9
  <1>13. On(c) = k \/ (On(c) = None /\ conn[k].user = None)
    BY DEF k
  <1> QED
    BY <1>4, <1>6, <1>7, <1>8, <1>10, <1>11, <1>12, <1>13, StepInv

\* The query of a call without a transaction throws, and so does the call.
LEMMA ThrowAloneInv ==
    ASSUME IInv, NEW c \in Calls, Throw(c), ~ call[c].tx
    PROVE  IInv'
  <1> DEFINE k == On(c)
             K == Released(k)
             C == [call[c] EXCEPT !.at = "threw", !.on = None]
  <1>1. call[c].at \in {"begin", "run", "commit"} /\ UNCHANGED <<table, applied>>
    BY DEF Throw
  <1>2. On(c) # None
    BY <1>1 DEF IInv, CallInv, Holds
  <1>3. conn[k] \in ConnRecord /\ call[c] \in CallRecord /\ CallInv(c) /\ TypeOK
    BY <1>2, Connected, RecordTypes DEF IInv
  <1>4. k \in Connections /\ conn[k].user = c
    BY <1>2, Connected
  <1>5. /\ excused \subseteq excused' /\ excused' \subseteq Calls
        /\ faults' \in 0..MaxFaults
        /\ c \in excused' \/ \E s \in ToSet(call[c].asked) : PutsPivot(s)
    BY <1>1, <1>2, <1>3, ThrowExcuse
  <1>6. /\ K \in ConnRecord /\ DOMAIN K.writes \subseteq K.locks
        /\ K.user = None /\ ~ K.dead /\ K.done = {}
    BY <1>2, <1>3, <1>4, ReleasedType DEF CallInv, OpenIsOwn, k
  <1>7. /\ C \in CallRecord /\ C.on = None /\ C.at = "threw"
        /\ C.tx = call[c].tx /\ C.asked = call[c].asked /\ C.todo = call[c].todo
    BY <1>3 DEF CallRecord, Stages
  <1>8. conn' = [conn EXCEPT ![k] = K] /\ call' = [call EXCEPT ![c] = C]
    BY DEF Throw, Ends, k
  <1> HIDE DEF K, C, k
  <1>9. conn'[k] = K /\ call'[c] = C /\ None \notin Calls /\ None \notin Connections
    BY <1>3, <1>4, <1>8, SqlAssumption DEF TypeOK
  <1>10. /\ table' \in [Rows -> Calls \cup {0, Absent}]
         /\ applied' \subseteq Calls \X Statement
         /\ \A d \in Calls \ {c}, s \in Statement :
               <<d, s>> \in applied' <=> <<d, s>> \in applied
         /\ faults' \in 0..MaxFaults
         /\ excused \subseteq excused' /\ excused' \subseteq Calls
    BY <1>1, <1>3, <1>5 DEF TypeOK
  <1>11. CallInv(c)'
    <2>1. AppliedOf(c)' = AppliedOf(c) /\ On(c)' = None
      BY <1>1, <1>7, <1>9 DEF AppliedOf, On
    <2>2. /\ call'[c].at = "threw" /\ call'[c].todo = call[c].todo
          /\ call'[c].asked = call[c].asked
      BY <1>7, <1>9
    <2>3. HasExcuse(c)'
      BY <1>5, <2>1, <2>2 DEF HasExcuse
    <2> QED
      BY <1>1, <1>3, <2>1, <2>2, <2>3 DEF CallInv, Holds, AppliedAsAWhole,
             OpenIsOwn, TodoIsAsked, NoneSkipped, PivotFirst
  <1>12. /\ C.on \in {k, None} /\ K.user = IF C.on = k THEN c ELSE None
         /\ K.user = None => ~ K.dead /\ K.done = {}
    BY <1>4, <1>6, <1>7, <1>9
  <1>13. On(c) = k \/ (On(c) = None /\ conn[k].user = None)
    BY DEF k
  <1> QED
    BY <1>4, <1>6, <1>7, <1>8, <1>10, <1>11, <1>12, <1>13, StepInv

\* A connection dies with what it had open; the call that uses it has its
\* excuse.
LEMMA DieInv ==
    ASSUME IInv, NEW k \in Connections, Die(k)
    PROVE  IInv'
  <1>1. PICK c \in Calls : c = conn[k].user
    BY DEF Die, IInv, TypeOK
  <1> DEFINE K == [Clean EXCEPT !.user = c, !.dead = TRUE]
             C == call[c]
  <1>2. /\ c # None /\ Fault(c) /\ UNCHANGED <<table, call, applied>>
        /\ conn' = [conn EXCEPT ![k] = K]
    BY <1>1, SqlAssumption DEF Die
  <1>3. c \in Calls /\ On(c) = k /\ None \notin Calls /\ None \notin Connections
    BY <1>1, SqlAssumption DEF IInv, TypeOK, On
  <1>4. C \in CallRecord /\ CallInv(c) /\ TypeOK
    BY <1>3, RecordTypes DEF IInv
  <1>5. C.on = k
    BY <1>3 DEF On
  <1>6. /\ K \in ConnRecord /\ DOMAIN K.writes \subseteq K.locks
        /\ K.user = c /\ K.dead /\ K.done = {}
    BY <1>3, CleanRecord DEF ConnRecord
  <1> HIDE DEF K
  <1>7. call' = [call EXCEPT ![c] = C]
    BY <1>2, <1>3, <1>4 DEF TypeOK
  <1>8. conn'[k] = K /\ call'[c] = call[c]
    BY <1>2, <1>4 DEF TypeOK
  <1> HIDE DEF C
  <1>9. /\ faults' \in 0..MaxFaults /\ excused' = excused \cup {c}
        /\ excused' \subseteq Calls
    BY <1>2, <1>3, <1>4, FaultType
  <1>10. /\ table' \in [Rows -> Calls \cup {0, Absent}]
         /\ applied' \subseteq Calls \X Statement
         /\ \A d \in Calls \ {c}, s \in Statement :
               <<d, s>> \in applied' <=> <<d, s>> \in applied
         /\ excused \subseteq excused'
    BY <1>2, <1>4, <1>9 DEF TypeOK
  <1>11. CallInv(c)'
    <2>1. AppliedOf(c)' = AppliedOf(c) /\ On(c)' = On(c)
      BY <1>2, <1>8 DEF AppliedOf, On
    <2>2. Holds(c)' /\ AppliedAsAWhole(c)' /\ TodoIsAsked(c)'
      BY <1>4, <1>8, <2>1 DEF CallInv, Holds, AppliedAsAWhole, TodoIsAsked
    <2>3. OpenIsOwn(c)'
      BY <1>3, <1>6, <1>8, <2>1 DEF OpenIsOwn
    <2>4. NoneSkipped(c)'
      BY <1>3, <1>4, <1>6, <1>8, <2>1 DEF CallInv, NoneSkipped
    <2>5. PivotFirst(c)'
      BY <1>3, <1>4, <1>6, <1>8, <2>1 DEF CallInv, PivotFirst
    <2>6. HasExcuse(c)'
      BY <1>3, <1>4, <1>8, <1>9, <2>1 DEF CallInv, HasExcuse
    <2> QED
      BY <2>2, <2>3, <2>4, <2>5, <2>6 DEF CallInv
  <1>12. /\ C.on \in {k, None} /\ K.user = IF C.on = k THEN c ELSE None
         /\ K.user = None => ~ K.dead /\ K.done = {}
    BY <1>3, <1>5, <1>6
  <1> QED
    BY <1>2, <1>3, <1>4, <1>6, <1>7, <1>9, <1>10, <1>11, <1>12, StepInv

\* A step that leaves the variables alone leaves the invariant alone.
LEMMA StutterInv == IInv /\ UNCHANGED vars => IInv'
  <1> SUFFICES ASSUME IInv, UNCHANGED vars
               PROVE  IInv'
    OBVIOUS
  <1>1. \A d \in Calls : CallInv(d)'
    BY OthersKeep DEF vars
  <1> QED
    BY <1>1 DEF IInv, TypeOK, FreeIsClean, vars
-----------------------------------------------------------------------------
\* The invariant holds at every moment, whatever the targets, the pool and the
\* faults: of the callbacks of management.ts in the Next and Nuxt peers.
THEOREM SqlInvariant == Spec => []IInv
  <1>1. IInv /\ [Next]_vars => IInv'
    <2> SUFFICES ASSUME IInv, [Next]_vars
                 PROVE  IInv'
      OBVIOUS
    <2>1. ASSUME NEW c \in Calls, NEW statements \in Transactions,
                 Start(c, statements, TRUE)
          PROVE  IInv'
      BY <2>1, StartInv
    <2>2. ASSUME NEW c \in Calls, NEW statements \in Queries,
                 Start(c, statements, FALSE)
          PROVE  IInv'
      BY <2>2, StartInv
    <2>3. ASSUME NEW c \in Calls, GoOn(c)
          PROVE  IInv'
      BY <2>3, AcquireInv, BeginInv, QueryInv, PoolQueryInv, CommitInv,
         ThrowInTransactionInv, ThrowAloneInv, RollbackInv DEF GoOn
    <2>4. ASSUME NEW c \in Calls, CommitUnanswered(c)
          PROVE  IInv'
      BY <2>4, CommitUnansweredInv
    <2>5. ASSUME NEW k \in Connections, Die(k)
          PROVE  IInv'
      BY <2>5, DieInv
    <2>6. CASE UNCHANGED vars
      BY <2>6, StutterInv
    <2> QED
      BY <2>1, <2>2, <2>3, <2>4, <2>5, <2>6 DEF Next
  <1> QED
    BY InitInv, <1>1, PTL DEF Spec

\* Every variable keeps its shape, and a connection is used by the call that
\* has it from the pool.
THEOREM SqlTypeCorrect == Spec => []TypeOK
  <1>1. IInv => TypeOK
    BY DEF IInv
  <1> QED
    BY SqlInvariant, <1>1, PTL

\* A callback takes effect as a whole or not at all, and as a whole when it
\* returned, whatever else is under way on the pool.
THEOREM TransactionsAreWhole == Spec => []AllOrNothing
  <1>1. IInv => AllOrNothing
    <2> SUFFICES ASSUME IInv, NEW c \in Calls
                 PROVE  LET effects == {s \in ToSet(call[c].asked) :
                                           <<c, s>> \in applied}
                        IN  /\ effects \in {{}, ToSet(call[c].asked)}
                            /\ call[c].at = "returned" =>
                                  effects = ToSet(call[c].asked)
      BY DEF AllOrNothing
    <2>1. call[c].asked \in Seq(Statement)
      BY RecordTypes DEF IInv, CallRecord
    <2>2. ToSet(call[c].asked) \subseteq Statement
      BY <2>1 DEF ToSet
    <2>3. {s \in ToSet(call[c].asked) : <<c, s>> \in applied} = AppliedOf(c)
      BY <2>2 DEF AppliedOf, IInv, CallInv, AppliedAsAWhole
    <2> QED
      BY <2>3 DEF IInv, CallInv, AppliedAsAWhole
  <1> QED
    BY SqlInvariant, <1>1, PTL

\* A call only throws for a fault or for a target without an entry, never for
\* the foreign key that the deletion of a target has to respect.
THEOREM ThrowsAreExcused == Spec => []OnlyFaultsThrow
  <1>1. IInv => OnlyFaultsThrow
    BY DEF IInv, CallInv, HasExcuse, OnlyFaultsThrow
  <1> QED
    BY SqlInvariant, <1>1, PTL
=============================================================================
