----------------------------- MODULE LatestWins -----------------------------
(***************************************************************************)
(* What a receiving peer promises about the credentials it stores: every   *)
(* entry is a register stamped with the position of the event that wrote   *)
(* it, and a register is only ever overwritten by an event of a strictly   *)
(* newer position.  Redelivery, crashes and the order in which the         *)
(* sources' events arrive are invisible at this level.                     *)
(***************************************************************************)
EXTENDS Cursor

CONSTANTS
    Keys,               \* the (track, clientId) pairs
    Values              \* what the credential store can hold for a key

VARIABLES
    value,              \* value[k]: what the store answers for k
    stamp               \* stamp[k]: the position of the event that wrote it

registers == <<value, stamp>>

LWInit ==
    /\ value \in [Keys -> Values]
    /\ stamp = [k \in Keys |-> NoCursor]

\* The register k is overwritten; its new stamp is newer than its old one.
LWInstall(k) ==
    /\ stamp'[k] \in Position
    /\ value'[k] \in Values
    /\ IsStrictlyNewer(stamp[k], stamp'[k])
    /\ value' = [value EXCEPT ![k] = value'[k]]
    /\ stamp' = [stamp EXCEPT ![k] = stamp'[k]]

LWNext == \E k \in Keys : LWInstall(k)

LWSpec == LWInit /\ [][LWNext]_registers
=============================================================================
