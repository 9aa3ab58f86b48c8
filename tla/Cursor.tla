------------------------------- MODULE Cursor -------------------------------
(***************************************************************************)
(* The cursor that a receiving peer keeps per (track, clientId): the       *)
(* position of the last event it applied (src/cursor.ts).  A position is   *)
(* the event's timestamp followed by its eventId as a tie-break.  Event    *)
(* identifiers are UUID strings that the code compares with ">"; only      *)
(* their total order matters here, so they are natural numbers.            *)
(***************************************************************************)
EXTENDS Naturals

CONSTANT NoCursor       \* what readCursor returns when nothing was stored

Position == [ts : Nat, eventId : Nat]

ASSUME NoCursorAssumption == NoCursor \notin Position

Cursors == Position \cup {NoCursor}

\* The position that an event claims.  Faulty variant: the whole event is kept
\* (against Inbound's TypeOK).
PositionWithPayload(event) == event

PositionOf(event) == [ts |-> event.ts, eventId |-> event.eventId]

\* isStrictlyNewer: a missing cursor is older than everything, then the
\* timestamp decides, then the identifier.
IsStrictlyNewer(current, incoming) ==
    \/ current = NoCursor
    \/ /\ current # NoCursor
       /\ \/ incoming.ts > current.ts
          \/ /\ incoming.ts = current.ts
             /\ incoming.eventId > current.eventId

\* A position that the cursor has reached or passed.
Reached(cursor, position) == ~ IsStrictlyNewer(cursor, position)
=============================================================================
