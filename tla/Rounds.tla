------------------------------- MODULE Rounds -------------------------------
(***************************************************************************)
(* What the source promises about the propagation of credentials: it goes  *)
(* in rounds.  A request opens a round for some targets; each of them is   *)
(* told once, with the secret of the round; a row gets its verdict for     *)
(* what it was told in this round; and the plain secret is forgotten when  *)
(* all have theirs.  Passes, the book-keeping in Redis, queues, repeated   *)
(* acknowledgements and the order of all these are invisible at this level.*)
(***************************************************************************)
EXTENDS Sequences

CONSTANTS
    Clients,            \* clientIds
    Targets,            \* who may have to be told
    Secrets,            \* plain secrets
    NoPlain,            \* a plain secret that was forgotten, or revoked
    NoRow               \* no credential

VARIABLES
    secret,             \* secret[c]: the plain secret the source still keeps
    phase,              \* phase[c][t]: how far t is in the round of c
    told,               \* everything the targets were ever told, in order
    heard               \* which of it was answered

rounds == <<secret, phase, told, heard>>

RoundsInit ==
    /\ secret = [c \in Clients |-> NoRow]
    /\ phase = [c \in Clients |-> [t \in Targets |-> "none"]]
    /\ told = <<>>
    /\ heard = {}

Verdicts == {"success", "error"}

\* No target of c is waiting, to be told or for its verdict.
RoundIsOver(c) == \A t \in Targets : phase[c][t] \notin {"pending", "sent"}

\* A new round begins, never before the last one is over.
Ask(c) ==
    /\ RoundIsOver(c)
    /\ \E s \in Secrets \cup {NoPlain}, asked \in SUBSET Targets :
          /\ secret' = [secret EXCEPT ![c] = s]
          /\ phase' = [phase EXCEPT ![c] =
                          [t \in Targets |-> IF t \in asked THEN "pending" ELSE @[t]]]
    /\ UNCHANGED <<told, heard>>

\* A target is told, once in a round.
Tell(c, t) ==
    /\ phase[c][t] = "pending"
    /\ phase' = [phase EXCEPT ![c][t] = "sent"]
    /\ told' = Append(told, [client |-> c, target |-> t, secret |-> secret[c]])
    /\ UNCHANGED <<secret, heard>>

\* A target answers what it was told.
Hear(i) ==
    /\ i \in DOMAIN told
    /\ heard' = heard \cup {i}
    /\ UNCHANGED <<secret, phase, told>>

\* A target gets its verdict, for the secret of this round.
Settle(c, t) ==
    /\ phase[c][t] = "sent"
    /\ \E i \in heard : told[i] = [client |-> c, target |-> t, secret |-> secret[c]]
    /\ \E verdict \in Verdicts : phase' = [phase EXCEPT ![c][t] = verdict]
    /\ UNCHANGED <<secret, told, heard>>

\* The plain secret is forgotten when a round is over.
Forget(c) ==
    /\ RoundIsOver(c)
    /\ \E t \in Targets : phase[c][t] \in Verdicts
    /\ secret' = [secret EXCEPT ![c] = NoPlain]
    /\ UNCHANGED <<phase, told, heard>>

RoundsNext ==
    \/ \E c \in Clients : Ask(c) \/ Forget(c)
    \/ \E c \in Clients, t \in Targets : Tell(c, t) \/ Settle(c, t)
    \/ \E i \in DOMAIN told : Hear(i)

RoundsSpec == RoundsInit /\ [][RoundsNext]_rounds
=============================================================================
