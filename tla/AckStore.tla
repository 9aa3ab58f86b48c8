------------------------------ MODULE AckStore ------------------------------
(***************************************************************************)
(* The book-keeping in Redis of the events a source published and awaits   *)
(* an acknowledgement for (src/ack-store.ts), as functions of the keys it  *)
(* keeps.  Each operator is one Redis command, or several that no other    *)
(* process of the source can tell from one.                                *)
(***************************************************************************)
EXTENDS FiniteSets

CONSTANTS
    Clients,            \* clientIds
    Targets,            \* amqpQueues of the targets
    Ids                 \* eventIds

Result == {"success", "error"}

\* records: the ack:<eventId> hashes that exist (an event's client and target
\* never change); index: the client-pending sets; results: the client-results
\* hashes, where "none" is an absent field.
Keyspace == [records : SUBSET Ids,
             index : [Clients -> SUBSET Ids],
             results : [Clients -> [Targets -> Result \cup {"none"}]]]

NoResults == [t \in Targets |-> "none"]

EmptyKeyspace == [records |-> {},
                  index |-> [c \in Clients |-> {}],
                  results |-> [c \in Clients |-> NoResults]]

\* Faulty variant of PutRecord: no record is kept (against FirstAckIsKnown).
PutNothing(redis, id) == redis

\* recordPublishedEvent, in its two halves: HSET of the record, then SADD to
\* the client's pending set.
PutRecord(redis, id) == [redis EXCEPT !.records = @ \cup {id}]

AddPending(redis, c, id) == [redis EXCEPT !.index[c] = @ \cup {id}]

\* readPublishedEvent finds a record.
Known(redis, id) == id \in redis.records

\* Faulty variant of PutResult: without the SREM (against PropagationSettles).
PutResultKeepingPending(redis, c, t, result, id) ==
    [redis EXCEPT !.records = @ \ {id}, !.results[c][t] = result]

\* recordTargetResult: HSET of the result, SREM, and DEL of the record.
PutResult(redis, c, t, result, id) ==
    [records |-> redis.records \ {id},
     index |-> [redis.index EXCEPT ![c] = @ \ {id}],
     results |-> [redis.results EXCEPT ![c][t] = result]]

\* pendingCountForClient.
PendingCount(redis, c) == Cardinality(redis.index[c])

\* clearClientAggregates.  Faulty variant: the results stay (against
\* FinalStatusIsTrue).
ClearPendingOnly(redis, c) == [redis EXCEPT !.index[c] = {}]

ClearAggregates(redis, c) ==
    [redis EXCEPT !.index[c] = {}, !.results[c] = NoResults]

\* The TTL of an ack:<eventId> hash, a client-pending set or a client-results
\* hash elapses.
Expire(redis, id) == [redis EXCEPT !.records = @ \ {id}]

ExpirePending(redis, c) == [redis EXCEPT !.index[c] = {}]

ExpireResults(redis, c) == [redis EXCEPT !.results[c] = NoResults]

\* aggregateFinalStatus over the values of a client-results hash.
AggregateFinalStatus(results) ==
    LET values == {results[t] : t \in Targets} \ {"none"}
    IN  IF "error" \notin values THEN "success"
        ELSE IF "success" \notin values THEN "error"
        ELSE "partial"
=============================================================================
