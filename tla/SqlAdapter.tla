----------------------------- MODULE SqlAdapter -----------------------------
(***************************************************************************)
(* The management callbacks and the target routes of the Next and Nuxt     *)
(* peers, which write their SQL transactions out over a pool of            *)
(* connections: getConnection, beginTransaction, one query after the       *)
(* other, commit, rollback in the catch and release in the finally.  What  *)
(* the statements mean for a pass is module Management; here it matters    *)
(* which of them take effect together, and what a call that throws leaves  *)
(* in the tables, on its connection and in the pool.                       *)
(*                                                                         *)
(* There is one credential.  A transaction keeps its writes to itself      *)
(* until it commits and holds its row locks until it ends; BEGIN commits   *)
(* what the connection still has open, as MariaDB does.                    *)
(***************************************************************************)
EXTENDS Naturals, Sequences, SequencesExt, FiniteSets

CONSTANTS
    Targets,            \* amqpQueues
    MaxCalls,           \* bound on the calls
    PoolSize,           \* connectionLimit
    MaxFaults,          \* bound on the faults
    Absent,             \* no such row
    None                \* nobody

Calls == 1..MaxCalls

Connections == 1..PoolSize

ASSUME SqlAssumption ==
    /\ MaxCalls \in Nat /\ PoolSize \in Nat \ {0} /\ MaxFaults \in Nat
    /\ IsFiniteSet(Targets)
    /\ None \notin Calls \cup Connections /\ Absent \notin Calls \cup {0}

\* The rows: the credential, and for each target its entry in table 2 and its
\* row in table 3.
Rows == {<<"credential">>} \cup ({"target", "pivot"} \X Targets)

VARIABLES
    table,              \* table[r]: the call that last wrote row r, or Absent
    conn,               \* conn[k]: connection k as the pool and the server see it
    call,               \* call[c]: call c
    applied,            \* history: the statements that took effect
    faults,             \* faults so far
    excused             \* history: the calls that a fault has hit

vars == <<table, conn, call, applied, faults, excused>>

\* A connection that is not in a transaction.
Clean == [user |-> None, dead |-> FALSE, open |-> FALSE, writes |-> <<>>,
          locks |-> {}, done |-> {}]

Init ==
    /\ table = [r \in Rows |-> IF r[1] = "target" THEN 0 ELSE Absent]
    /\ conn = [k \in Connections |-> Clean]
    /\ call = [c \in Calls |-> [at |-> "unused", tx |-> FALSE, on |-> None,
                                asked |-> <<>>, todo |-> <<>>]]
    /\ applied = {}
    /\ faults = 0
    /\ excused = {}
-----------------------------------------------------------------------------
(***************************************************************************)
(* The statements of each call, in their order.  A statement names the row *)
(* it is about and what it does to it.                                     *)
(***************************************************************************)

Put(r) == [op |-> "put", row |-> r]         \* INSERT ... ON DUPLICATE KEY UPDATE
Update(r) == [op |-> "update", row |-> r]   \* UPDATE, of a row that is there
Delete(r) == [op |-> "delete", row |-> r]

ForEach(Op(_), kind, targets) ==
    LET order == SetToSeq(targets)
    IN  [i \in DOMAIN order |-> Op(<<kind, order[i]>>)]

UpsertCredentialWithTargets(targets) ==
    <<Put(<<"credential">>)>> \o ForEach(Put, "pivot", targets)

\* The second UPDATE is one for all rows; row by row it is no different, for
\* the credential stays locked.
RotateCredentialSecret ==
    <<Update(<<"credential">>)>> \o ForEach(Update, "pivot", Targets)

\* Faulty variant of DeleteTarget: the entry goes first (against
\* OnlyFaultsThrow).
DeleteTargetFirst(t) == <<Delete(<<"target", t>>), Delete(<<"pivot", t>>)>>

DeleteTarget(t) == <<Delete(<<"pivot", t>>), Delete(<<"target", t>>)>>

\* The calls that open a transaction.
Transactions ==
    {UpsertCredentialWithTargets(targets) : targets \in SUBSET Targets}
    \cup {RotateCredentialSecret}
    \cup {DeleteTarget(t) : t \in Targets}

\* Those that are one query on the pool: the three markTarget callbacks,
\* markCredentialFullyPropagated, and POST targets (whose SELECT before it only
\* decides the wording of the answer).
Queries ==
    {<<Update(<<"pivot", t>>)>> : t \in Targets}
    \cup {<<Update(<<"credential">>)>>}
    \cup {<<Put(<<"target", t>>)>> : t \in Targets}

\* A callback or a route is called and asks the pool for a connection.
Start(c, statements, tx) ==
    /\ call[c].at = "unused"
    /\ \A d \in Calls : d < c => call[d].at # "unused"
    /\ call' = [call EXCEPT ![c] = [at |-> "wait", tx |-> tx, on |-> None,
                                    asked |-> statements, todo |-> statements]]
    /\ UNCHANGED <<table, conn, applied, faults, excused>>
-----------------------------------------------------------------------------
(***************************************************************************)
(* The server's side                                                       *)
(***************************************************************************)

\* What the connection sees of row r: its own writes over what is committed.
View(k, r) == IF r \in DOMAIN conn[k].writes THEN conn[k].writes[r] ELSE table[r]

\* The rows a statement locks; inserting a pivot locks its target.
LockedBy(s) ==
    {s.row} \cup (IF s.op = "put" /\ s.row[1] = "pivot"
                  THEN {<<"target", s.row[2]>>} ELSE {})

Blocked(k, s) == \E j \in Connections \ {k} : conn[j].locks \cap LockedBy(s) # {}

\* The foreign keys of table 3: a pivot needs its target, and RESTRICT keeps
\* the target of a pivot.
Refuses(k, s) ==
    \/ /\ s.op = "put" /\ s.row[1] = "pivot"
       /\ View(k, <<"target", s.row[2]>>) = Absent
    \/ /\ s.op = "delete" /\ s.row[1] = "target"
       /\ View(k, <<"pivot", s.row[2]>>) # Absent

\* The value that statement s of call c gives its row.
Value(k, s, c) ==
    IF s.op = "delete" \/ (s.op = "update" /\ View(k, s.row) = Absent)
    THEN Absent ELSE c

\* What connection k has open takes effect.
Commits(k) ==
    /\ table' = [r \in Rows |-> View(k, r)]
    /\ applied' = applied \cup conn[k].done

Fault(c) == faults < MaxFaults /\ faults' = faults + 1 /\ excused' = excused \cup {c}

\* A connection in use dies; the server rolls back what it had open.
Die(k) ==
    /\ conn[k].user # None /\ ~ conn[k].dead
    /\ Fault(conn[k].user)
    /\ conn' = [conn EXCEPT ![k] = [Clean EXCEPT !.user = conn[k].user,
                                                   !.dead = TRUE]]
    /\ UNCHANGED <<table, call, applied>>
-----------------------------------------------------------------------------
(***************************************************************************)
(* One call                                                                *)
(***************************************************************************)

On(c) == call[c].on

\* Faulty variant of Ends: the connection is still used after its release
\* (against TypeOK).
EndsHolding(c, at) == call' = [call EXCEPT ![c].at = at]

\* The call goes back to its caller; its connection to the pool, which
\* replaces it when it is dead.
Ends(c, at) == call' = [call EXCEPT ![c].at = at, ![c].on = None]

Released(k) == IF conn[k].dead THEN Clean ELSE [conn[k] EXCEPT !.user = None]

\* getConnection.
Acquire(c) ==
    /\ call[c].at = "wait"
    /\ \E k \in Connections :
          /\ conn[k].user = None
          /\ \A j \in Connections : j < k => conn[j].user # None
          /\ conn' = [conn EXCEPT ![k].user = c]
          /\ call' = [call EXCEPT ![c].on = k,
                                  ![c].at = IF call[c].tx THEN "begin" ELSE "run"]
    /\ UNCHANGED <<table, applied, faults, excused>>

\* beginTransaction.
Begin(c) ==
    /\ call[c].at = "begin" /\ ~ conn[On(c)].dead
    /\ Commits(On(c))
    /\ conn' = [conn EXCEPT ![On(c)] = [Clean EXCEPT !.user = c, !.open = TRUE]]
    /\ call' = [call EXCEPT ![c].at = "run"]
    /\ UNCHANGED <<faults, excused>>

\* The next query of a transaction.
Query(c) ==
    LET k == On(c)
        s == Head(call[c].todo)
    IN  /\ call[c].at = "run" /\ call[c].tx
        /\ ~ conn[k].dead /\ ~ Blocked(k, s) /\ ~ Refuses(k, s)
        /\ conn' = [conn EXCEPT
              ![k].writes = [r \in DOMAIN @ \cup {s.row} |->
                                IF r = s.row THEN Value(k, s, c) ELSE @[r]],
              ![k].locks = @ \cup LockedBy(s),
              ![k].done = @ \cup {<<c, s>>}]
        /\ call' = [call EXCEPT ![c].todo = Tail(@),
                                ![c].at = IF Len(call[c].todo) = 1
                                          THEN "commit" ELSE "run"]
        /\ UNCHANGED <<table, applied, faults, excused>>

\* pool.query: the one statement of the call, on a connection of its own for
\* as long as it takes.
PoolQuery(c) ==
    LET k == On(c)
        s == Head(call[c].todo)
    IN  /\ call[c].at = "run" /\ ~ call[c].tx
        /\ ~ conn[k].dead /\ ~ Blocked(k, s)
        /\ table' = [table EXCEPT ![s.row] = Value(k, s, c)]
        /\ applied' = applied \cup {<<c, s>>}
        /\ conn' = [conn EXCEPT ![k] = Released(k)]
        /\ Ends(c, "returned")
        /\ UNCHANGED <<faults, excused>>

\* commit, then the finally.
Commit(c) ==
    /\ call[c].at = "commit" /\ ~ conn[On(c)].dead
    /\ Commits(On(c))
    /\ conn' = [conn EXCEPT ![On(c)] = Clean]
    /\ Ends(c, "returned")
    /\ UNCHANGED <<faults, excused>>

\* The commit takes effect but the connection dies before the answer.
CommitUnanswered(c) ==
    /\ call[c].at = "commit" /\ ~ conn[On(c)].dead
    /\ Fault(c)
    /\ Commits(On(c))
    /\ conn' = [conn EXCEPT ![On(c)] = [Clean EXCEPT !.user = c, !.dead = TRUE]]
    /\ call' = [call EXCEPT ![c].at = "rollback"]

\* The awaited call throws: the server refuses the statement, an error hits
\* it, or the connection is dead.  Without a transaction that is all.
Throw(c) ==
    LET k == On(c)
    IN  /\ call[c].at \in {"begin", "run", "commit"}
        /\ \/ conn[k].dead /\ UNCHANGED <<faults, excused>>
           \/ /\ call[c].at = "run" /\ ~ Blocked(k, Head(call[c].todo))
              /\ Refuses(k, Head(call[c].todo))
              /\ UNCHANGED <<faults, excused>>
           \/ Fault(c)
        /\ IF call[c].tx
           THEN call' = [call EXCEPT ![c].at = "rollback"] /\ UNCHANGED conn
           ELSE Ends(c, "threw") /\ conn' = [conn EXCEPT ![k] = Released(k)]
        /\ UNCHANGED <<table, applied>>

\* Faulty variants of Rollback: the finally alone, so that the transaction
\* stays open on the connection (against AllOrNothing); no finally (against
\* EveryCallEnds).
ReleaseOnly(c) ==
    /\ call[c].at = "rollback"
    /\ conn' = [conn EXCEPT ![On(c)] = Released(On(c))]
    /\ Ends(c, "threw")
    /\ UNCHANGED <<table, applied, faults, excused>>

RollbackOnly(c) ==
    /\ call[c].at = "rollback"
    /\ conn' = [conn EXCEPT ![On(c)] = [Clean EXCEPT !.user = c]]
    /\ Ends(c, "threw")
    /\ UNCHANGED <<table, applied, faults, excused>>

\* The catch, which may throw itself on a dead connection, and the finally.
Rollback(c) ==
    /\ call[c].at = "rollback"
    /\ conn' = [conn EXCEPT ![On(c)] = Clean]
    /\ Ends(c, "threw")
    /\ UNCHANGED <<table, applied, faults, excused>>
-----------------------------------------------------------------------------
GoOn(c) ==
    \/ Acquire(c)
    \/ Begin(c)
    \/ Query(c)
    \/ PoolQuery(c)
    \/ Commit(c)
    \/ Throw(c)
    \/ Rollback(c)

Next ==
    \/ \E c \in Calls :
          \/ \E statements \in Transactions : Start(c, statements, TRUE)
          \/ \E statements \in Queries : Start(c, statements, FALSE)
          \/ GoOn(c)
          \/ CommitUnanswered(c)
    \/ \E k \in Connections : Die(k)

Spec == Init /\ [][Next]_vars

\* The pool serves who waits for it, the server answers, and the event loop
\* goes on.
FairSpec == Spec /\ \A c \in Calls : SF_vars(GoOn(c))
-----------------------------------------------------------------------------
Statement == [op : {"put", "update", "delete"}, row : Rows]

Stages == {"unused", "wait", "begin", "run", "commit", "rollback",
           "returned", "threw"}

\* What a transaction may have written.
Writes == UNION {[R -> Calls \cup {Absent}] : R \in SUBSET Rows}

\* Every variable keeps its shape, a row that is written is locked, and a
\* connection is used by the call that has it from the pool.
TypeOK ==
    /\ table \in [Rows -> Calls \cup {0, Absent}]
    /\ conn \in [Connections ->
                    [user : Calls \cup {None}, dead : BOOLEAN, open : BOOLEAN,
                     writes : Writes, locks : SUBSET Rows,
                     done : SUBSET (Calls \X Statement)]]
    /\ \A k \in Connections : DOMAIN conn[k].writes \subseteq conn[k].locks
    /\ call \in [Calls ->
                    [at : Stages, tx : BOOLEAN, on : Connections \cup {None},
                     asked : Seq(Statement), todo : Seq(Statement)]]
    /\ \A c \in Calls, k \in Connections : call[c].on = k <=> conn[k].user = c
    /\ applied \subseteq Calls \X Statement
    /\ faults \in 0..MaxFaults
    /\ excused \subseteq Calls

\* A callback takes effect as a whole or not at all, at every moment at which a
\* pass may read the tables, and as a whole when it returned; not even the
\* next user of its connection completes what a failed one has begun.
AllOrNothing ==
    \A c \in Calls :
        LET effects == {s \in ToSet(call[c].asked) : <<c, s>> \in applied}
        IN  /\ effects \in {{}, ToSet(call[c].asked)}
            /\ call[c].at = "returned" => effects = ToSet(call[c].asked)

PutsPivot(s) == s.op = "put" /\ s.row[1] = "pivot"

\* A call only throws when a fault hit it or when it adds rows of targets, whose
\* entries may be gone: a rotation, a mark and above all the deletion of a target
\* never run into a foreign key, whoever adds rows for that target meanwhile.
OnlyFaultsThrow ==
    \A c \in Calls :
        call[c].at = "threw" =>
            \/ c \in excused
            \/ \E s \in ToSet(call[c].asked) : PutsPivot(s)

\* Every call ends, with whatever faults and with fewer connections than
\* calls: none waits for a lock or a connection for ever.
EveryCallEnds ==
    <>[](\A c \in Calls : call[c].at \in {"unused", "returned", "threw"})
-----------------------------------------------------------------------------
(***************************************************************************)
(* What the proofs of SqlAdapterProofs need to be inductive: for each call *)
(* its connection, its statements, and its excuse should it throw.         *)
(***************************************************************************)

\* A connection that is back in the pool is alive and has nothing open.
FreeIsClean ==
    \A k \in Connections : conn[k].user = None => ~ conn[k].dead /\ conn[k].done = {}

\* A call has a connection from getConnection to the finally, and only a
\* transaction begins and ends.
Holds(c) ==
    /\ call[c].at \in {"begin", "run", "commit", "rollback"} <=> On(c) # None
    /\ call[c].at \in {"begin", "commit", "rollback"} => call[c].tx

\* The statements of call c that took effect.
AppliedOf(c) == {s \in Statement : <<c, s>> \in applied}

AppliedAsAWhole(c) ==
    /\ AppliedOf(c) \in {{}, ToSet(call[c].asked)}
    /\ call[c].at \in {"unused", "wait", "begin", "run", "commit"} => AppliedOf(c) = {}
    /\ call[c].at = "returned" => AppliedOf(c) = ToSet(call[c].asked)

\* What the connection has open is the call's own, and nothing before BEGIN.
OpenIsOwn(c) ==
    On(c) # None =>
        /\ conn[On(c)].done \subseteq {c} \X ToSet(call[c].asked)
        /\ call[c].at = "begin" \/ ~ call[c].tx => conn[On(c)].done = {}

\* No statement is skipped: what is asked is open or to come, all of it open
\* at the commit.
NoneSkipped(c) ==
    LET asked == ToSet(call[c].asked)
    IN  /\ call[c].at \in {"wait", "begin", "run"} => call[c].todo # <<>>
        /\ call[c].at \in {"wait", "begin"} => call[c].todo = call[c].asked
        /\ call[c].at \in {"wait", "run"} /\ ~ call[c].tx => asked = {Head(call[c].todo)}
        /\ call[c].at = "run" /\ call[c].tx /\ ~ conn[On(c)].dead =>
               \A s \in asked : <<c, s>> \in conn[On(c)].done \/ s \in ToSet(call[c].todo)
        /\ call[c].at = "commit" /\ ~ conn[On(c)].dead =>
               {c} \X asked \subseteq conn[On(c)].done

DeletesTarget(s) == s.op = "delete" /\ s.row[1] = "target"

\* Where an entry of table 2 is deleted, its row in table 3 goes first.
PivotFirst(c) ==
    call[c].at \in {"wait", "begin", "run"} =>
        \/ \A s \in ToSet(call[c].todo) : ~ DeletesTarget(s)
        \/ \E t \in Targets : call[c].todo = DeleteTarget(t)
        \/ /\ call[c].at = "run"
           /\ \/ conn[On(c)].dead
              \/ \E t \in Targets :
                    /\ call[c].todo = <<Delete(<<"target", t>>)>>
                    /\ <<"pivot", t>> \in DOMAIN conn[On(c)].writes
                    /\ conn[On(c)].writes[<<"pivot", t>>] = Absent

\* A call that throws has an excuse, and so has one whose connection is dead.
HasExcuse(c) ==
    /\ call[c].at \in {"rollback", "threw"} =>
          c \in excused \/ \E s \in ToSet(call[c].asked) : PutsPivot(s)
    /\ On(c) # None /\ conn[On(c)].dead => c \in excused

\* What is still to be done was asked.
TodoIsAsked(c) == ToSet(call[c].todo) \subseteq ToSet(call[c].asked)

CallInv(c) ==
    /\ Holds(c)
    /\ AppliedAsAWhole(c)
    /\ OpenIsOwn(c)
    /\ TodoIsAsked(c)
    /\ NoneSkipped(c)
    /\ PivotFirst(c)
    /\ HasExcuse(c)

IInv ==
    /\ TypeOK
    /\ FreeIsClean
    /\ \A c \in Calls : CallInv(c)
=============================================================================
