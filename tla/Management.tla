----------------------------- MODULE Management -----------------------------
(***************************************************************************)
(* The operator's database behind the management callbacks: table 1 (one   *)
(* credential per clientId with its plain secret) and table 3 (one row per *)
(* credential and target).  The callbacks are the operator's code; these   *)
(* are the ones of the reference peer src/poc/management-nest, each a      *)
(* single SQL transaction, written as a function of the tables.            *)
(***************************************************************************)
CONSTANTS
    Clients,            \* clientIds
    Targets,            \* the amqpQueues of the peers to propagate to
    Secrets,            \* plain secrets
    NoPlain,            \* a credential whose secret_plain is NULL
    NoRow               \* no credential in table 1

\* "none": table 3 has no such row.
RowStatus == {"none", "pending", "sent", "success", "error"}

Terminal == {"success", "error"}

Tables == [plain : [Clients -> Secrets \cup {NoPlain, NoRow}],
           status : [Clients -> [Targets -> RowStatus]]]

EmptyTables == [plain |-> [c \in Clients |-> NoRow],
                status |-> [c \in Clients |-> [t \in Targets |-> "none"]]]

\* The targets that have a row for the credential.
RowsOf(db, c) == {t \in Targets : db.status[c][t] # "none"}

\* upsertCredentialWithTargets: rows of targets not listed keep their status.
Upsert(db, c, plain, targets) ==
    [plain |-> [db.plain EXCEPT ![c] = plain],
     status |-> [db.status EXCEPT ![c] =
                    [t \in Targets |-> IF t \in targets THEN "pending" ELSE @[t]]]]

\* Faulty variant of Rotate: the rows are not reset (against
\* VerdictIsCurrent).
RotatePlainOnly(db, c, plain) ==
    IF db.plain[c] = NoRow THEN db ELSE [db EXCEPT !.plain[c] = plain]

\* rotateCredentialSecret: two UPDATEs, which match nothing without a row.
Rotate(db, c, plain) ==
    IF db.plain[c] = NoRow THEN db ELSE Upsert(db, c, plain, RowsOf(db, c))

\* Faulty variant of PendingTargets: rows that wait for their acknowledgement are
\* published again (against DeletionsHaveCause and PropagatesInRounds).
PendingOrSentTargets(db, c) ==
    {t \in Targets : db.status[c][t] \in {"pending", "sent"}}

PendingTargets(db, c) == {t \in Targets : db.status[c][t] = "pending"}

\* fetchPendingPropagations: every credential with pending rows; the op is
\* derived from the plain secret, and a NULL one reads as a deletion.
PendingPropagations(db) ==
    {[client |-> c, plain |-> db.plain[c], targets |-> PendingTargets(db, c)] :
        c \in {d \in Clients : PendingTargets(db, d) # {}}}

\* markTargetSent, markTargetSuccess, markTargetError: an UPDATE by key,
\* whatever the row said before.
Mark(db, c, t, status) ==
    IF t \in RowsOf(db, c)
    THEN [db EXCEPT !.status[c][t] = status]
    ELSE db

\* Faulty variant of ClearPlain: kept while a target refused it (against
\* SettledIsClean).
ClearPlainUnlessRefused(db, c) ==
    IF "error" \in {db.status[c][t] : t \in Targets} THEN db
    ELSE [db EXCEPT !.plain[c] = NoPlain]

\* markCredentialFullyPropagated.
ClearPlain(db, c) ==
    IF db.plain[c] = NoRow THEN db ELSE [db EXCEPT !.plain[c] = NoPlain]
=============================================================================
