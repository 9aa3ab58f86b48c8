----------------------------- MODULE Transport ------------------------------
(***************************************************************************)
(* The AMQP connection of one peer (src/transport.ts): connect() and its   *)
(* retries, the registration of the consumer, and close().                 *)
(*                                                                         *)
(* Each call of connect() is an attempt of its own; the variables of       *)
(* createTransport are shared by all of them and by close(), and are read  *)
(* again after every await.  The confirm channel is opened on the way but  *)
(* only publishing uses it (module Source), so no variable stands for it.  *)
(*                                                                         *)
(* JavaScript runs what is ready before it takes the next event, so no     *)
(* timer fires and no connection drops while a call that cannot succeed    *)
(* has not thrown yet: amqplib fails the outstanding calls of a connection *)
(* that dies.                                                              *)
(***************************************************************************)
EXTENDS Naturals, FiniteSets

CONSTANTS
    MaxAttempts,        \* bound on the attempts to connect
    MaxFaults,          \* bound on the faults
    FirstBackoff,       \* 1000 ms
    LastBackoff,        \* 60000 ms
    None                \* null

Attempts == 1..MaxAttempts

ASSUME TransportAssumption ==
    /\ MaxAttempts \in Nat \ {0}
    /\ MaxFaults \in Nat
    /\ FirstBackoff \in Nat \ {0} /\ LastBackoff \in Nat
    /\ FirstBackoff <= LastBackoff
    /\ None \notin Attempts

VARIABLES
    boot,               \* where createPropagator stands
    stage,              \* stage[a]: the await attempt a is in
    on,                 \* on[a]: the connection that its call goes to
    bootOn,             \* the connection that startConsume's call goes to
    connection,         \* the shared connection, by the attempt that made it
    consumeCh,          \* the connection of the shared consume channel
    stopped,
    consumeRequested,
    timers,             \* reconnect timers that are set
    backoff,            \* backoffMs
    closing,            \* where close() stands
    alive,              \* the broker's side: the connections that are open
    consumers,          \* consumers[a]: registrations on connection a
    faults,             \* faults so far
    abandoned           \* history: connections left open by a failed attempt

attemptVars == <<stage, on>>
retryVars   == <<timers, backoff>>
brokerVars  == <<alive, consumers>>
vars == <<boot, stage, on, bootOn, connection, consumeCh, stopped,
          consumeRequested, timers, backoff, closing, alive, consumers, faults,
          abandoned>>

Init ==
    /\ boot = "connecting"
    /\ stage = [a \in Attempts |-> IF a = 1 THEN "dial" ELSE "unused"]
    /\ on = [a \in Attempts |-> None]
    /\ bootOn = None
    /\ connection = None
    /\ consumeCh = None
    /\ stopped = FALSE
    /\ consumeRequested = FALSE
    /\ timers = 0
    /\ backoff = FirstBackoff
    /\ closing = "no"
    /\ alive = {}
    /\ consumers = [a \in Attempts |-> 0]
    /\ faults = 0
    /\ abandoned = {}

Fault ==
    /\ faults < MaxFaults
    /\ faults' = faults + 1

\* The awaits of connect(), in their order.
Awaits == {"dial", "confirmChannel", "consumeChannel", "declare", "register"}

\* The call attempt a awaits has nothing to go to any more.
Doomed(a) ==
    \/ stage[a] \in {"confirmChannel", "consumeChannel", "declare", "register"}
       /\ on[a] \notin alive
    \/ stage[a] = "confirmChannel" /\ connection = None

\* createPropagator awaits the first attempt.
BootReady == boot = "connecting" /\ stage[1] \in {"up", "failed"}

\* Something that is ready has not run yet.
Busy ==
    \/ BootReady
    \/ boot = "registering" /\ bootOn \notin alive
    \/ \E a \in Attempts : Doomed(a)
-----------------------------------------------------------------------------
(***************************************************************************)
(* Retries                                                                 *)
(***************************************************************************)

\* Faulty variant of Longer: no cap (against TypeOK).
TwiceAsLong(ms) == 2 * ms

Longer(ms) == IF 2 * ms > LastBackoff THEN LastBackoff ELSE 2 * ms

\* scheduleReconnect.  Faulty variants: one timer per call (against
\* OneConsumer); after close() as well (against RetryDiscipline).
ScheduleAnyway ==
    IF stopped
    THEN UNCHANGED retryVars
    ELSE timers' = timers + 1 /\ backoff' = Longer(backoff)

ScheduleStopped ==
    IF timers > 0
    THEN UNCHANGED retryVars
    ELSE timers' = timers + 1 /\ backoff' = Longer(backoff)

ScheduleReconnect ==
    IF stopped \/ timers > 0
    THEN UNCHANGED retryVars
    ELSE timers' = timers + 1 /\ backoff' = Longer(backoff)

\* The timer fires and connect() is called.
Fire ==
    /\ timers > 0
    /\ ~ Busy
    /\ timers' = timers - 1
    /\ IF stopped
       THEN UNCHANGED stage
       ELSE \E a \in Attempts :
               /\ stage[a] = "unused"
               /\ \A b \in Attempts : b < a => stage[b] # "unused"
               /\ stage' = [stage EXCEPT ![a] = "dial"]
    /\ UNCHANGED <<boot, on, bootOn, connection, consumeCh, stopped,
                   consumeRequested, backoff, closing, brokerVars, faults,
                   abandoned>>
-----------------------------------------------------------------------------
(***************************************************************************)
(* connect()                                                               *)
(***************************************************************************)

\* amqplib.connect succeeds; the confirm channel is asked for.
Dialled(a) ==
    /\ stage[a] = "dial"
    /\ alive' = alive \cup {a}
    /\ connection' = a
    /\ on' = [on EXCEPT ![a] = a]
    /\ stage' = [stage EXCEPT ![a] = "confirmChannel"]
    /\ UNCHANGED <<boot, bootOn, consumeCh, stopped, consumeRequested,
                   retryVars, closing, consumers, faults, abandoned>>

\* The confirm channel is open; the consume channel is asked for on whatever
\* the shared connection is by now.
ConfirmChannelOpen(a) ==
    /\ stage[a] = "confirmChannel"
    /\ ~ Doomed(a)
    /\ on' = [on EXCEPT ![a] = connection]
    /\ stage' = [stage EXCEPT ![a] = "consumeChannel"]
    /\ UNCHANGED <<boot, bootOn, connection, consumeCh, stopped,
                   consumeRequested, retryVars, closing, brokerVars, faults,
                   abandoned>>

\* The consume channel is open; prefetch(1) and the own queue come next.
ConsumeChannelOpen(a) ==
    /\ stage[a] = "consumeChannel"
    /\ ~ Doomed(a)
    /\ consumeCh' = on[a]
    /\ stage' = [stage EXCEPT ![a] = "declare"]
    /\ UNCHANGED <<boot, on, bootOn, connection, stopped, consumeRequested,
                   retryVars, closing, brokerVars, faults, abandoned>>

\* Faulty variant of MustRegister: only startConsume registers (against
\* ConsumesInTheEnd).
NeverRegister == FALSE

\* registerConsume has a channel to register on.
MustRegister == consumeRequested /\ consumeCh # None

\* The own queue is declared; the consumer is registered if it was asked for.
QueueDeclared(a) ==
    /\ stage[a] = "declare"
    /\ ~ Doomed(a)
    /\ IF MustRegister
       THEN /\ on' = [on EXCEPT ![a] = consumeCh]
            /\ stage' = [stage EXCEPT ![a] = "register"]
            /\ UNCHANGED backoff
       ELSE /\ stage' = [stage EXCEPT ![a] = "up"]
            /\ backoff' = FirstBackoff
            /\ UNCHANGED on
    /\ UNCHANGED <<boot, bootOn, connection, consumeCh, stopped,
                   consumeRequested, timers, closing, brokerVars, faults,
                   abandoned>>

\* basic.consume is registered.
Registered(a) ==
    /\ stage[a] = "register"
    /\ ~ Doomed(a)
    /\ consumers' = [consumers EXCEPT ![on[a]] = @ + 1]
    /\ stage' = [stage EXCEPT ![a] = "up"]
    /\ backoff' = FirstBackoff
    /\ UNCHANGED <<boot, on, bootOn, connection, consumeCh, stopped,
                   consumeRequested, timers, closing, alive, faults, abandoned>>

\* The catch of connect().
Throws(a) ==
    /\ stage' = [stage EXCEPT ![a] = "failed"]
    /\ ScheduleReconnect

\* The awaited call is refused (dial), or it has nothing to go to any more:
\* the connection died, the shared variable is that of an attempt that failed
\* meanwhile, or close() has set it to null.
AttemptFails(a) ==
    /\ \/ stage[a] = "dial" /\ Fault
       \/ Doomed(a) /\ UNCHANGED faults
       \/ stage[a] = "declare" /\ consumeCh = None /\ UNCHANGED faults
    /\ Throws(a)
    /\ abandoned' = abandoned \cup ({a} \cap alive)
    /\ UNCHANGED <<boot, on, bootOn, connection, consumeCh, stopped,
                   consumeRequested, closing, brokerVars>>

\* The awaited call is refused although the connection lives, which nobody
\* closes then.
CallRefused(a) ==
    /\ stage[a] \in Awaits \ {"dial"}
    /\ ~ Doomed(a)
    /\ Fault
    /\ Throws(a)
    /\ abandoned' = abandoned \cup {a}
    /\ UNCHANGED <<boot, on, bootOn, connection, consumeCh, stopped,
                   consumeRequested, closing, brokerVars>>

\* A connection dies, with its channels, and its "close" listener runs.
Drop(a) ==
    /\ a \in alive
    /\ ~ Busy
    /\ Fault
    /\ alive' = alive \ {a}
    /\ consumers' = [consumers EXCEPT ![a] = 0]
    /\ ScheduleReconnect
    /\ UNCHANGED <<boot, attemptVars, bootOn, connection, consumeCh, stopped,
                   consumeRequested, closing, abandoned>>
-----------------------------------------------------------------------------
(***************************************************************************)
(* startConsume() and close()                                              *)
(***************************************************************************)

\* createTransport returns when its first attempt is over, whatever became of
\* it, and createPropagator calls startConsume.
StartConsume ==
    /\ BootReady
    /\ consumeRequested' = TRUE
    /\ bootOn' = consumeCh
    /\ boot' = IF consumeCh = None THEN "running" ELSE "registering"
    /\ UNCHANGED <<attemptVars, connection, consumeCh, stopped, retryVars,
                   closing, brokerVars, faults, abandoned>>

\* Its registration is done, or throws, and createPropagator with it.
StartConsumeReturns ==
    /\ boot = "registering"
    /\ IF bootOn \in alive
       THEN /\ boot' = "running"
            /\ consumers' = [consumers EXCEPT ![bootOn] = @ + 1]
       ELSE boot' = "failed" /\ UNCHANGED consumers
    /\ UNCHANGED <<attemptVars, bootOn, connection, consumeCh, stopped,
                   consumeRequested, retryVars, closing, alive, faults,
                   abandoned>>

\* close() begins: no more retries.
Close ==
    /\ boot = "running" /\ closing = "no"
    /\ stopped' = TRUE
    /\ timers' = 0
    /\ closing' = "connection"
    /\ UNCHANGED <<boot, attemptVars, bootOn, connection, consumeCh,
                   consumeRequested, backoff, brokerVars, faults, abandoned>>

\* The channels are closed, then the connection; what throws is ignored.
CloseConnection ==
    /\ closing = "connection"
    /\ alive' = alive \ {connection}
    /\ consumers' = [a \in Attempts |->
                        IF a \in {connection, consumeCh} THEN 0 ELSE consumers[a]]
    /\ closing' = "forget"
    /\ UNCHANGED <<boot, attemptVars, bootOn, connection, consumeCh, stopped,
                   consumeRequested, retryVars, faults, abandoned>>

\* The shared variables are set to null and close() returns.
Forget ==
    /\ closing = "forget"
    /\ connection' = None
    /\ consumeCh' = None
    /\ closing' = "done"
    /\ UNCHANGED <<boot, attemptVars, bootOn, stopped, consumeRequested,
                   retryVars, brokerVars, faults, abandoned>>
-----------------------------------------------------------------------------
Connect(a) ==
    \/ Dialled(a)
    \/ ConfirmChannelOpen(a)
    \/ ConsumeChannelOpen(a)
    \/ QueueDeclared(a)
    \/ Registered(a)

Boot == StartConsume \/ StartConsumeReturns

Shutdown == CloseConnection \/ Forget

Next ==
    \/ \E a \in Attempts :
          Connect(a) \/ AttemptFails(a) \/ CallRefused(a) \/ Drop(a)
    \/ Fire
    \/ Boot
    \/ Close
    \/ Shutdown

Spec == Init /\ [][Next]_vars

\* The broker answers in the end, calls on dead connections throw, timers
\* fire, and what is ready runs.  Nobody has to call close().
FairSpec ==
    /\ Spec
    /\ \A a \in Attempts : WF_vars(Connect(a) \/ AttemptFails(a))
    /\ WF_vars(Fire)
    /\ WF_vars(Boot)
    /\ WF_vars(Shutdown)
-----------------------------------------------------------------------------
(***************************************************************************)
(* Properties                                                              *)
(***************************************************************************)

Connections == Attempts \cup {None}

\* Every variable keeps its shape; the backoff stays within its bounds.
TypeOK ==
    /\ boot \in {"connecting", "registering", "running", "failed"}
    /\ stage \in [Attempts -> Awaits \cup {"unused", "up", "failed"}]
    /\ on \in [Attempts -> Connections]
    /\ bootOn \in Connections
    /\ connection \in Connections
    /\ consumeCh \in Connections
    /\ stopped \in BOOLEAN
    /\ consumeRequested \in BOOLEAN
    /\ timers \in Nat
    /\ backoff \in FirstBackoff..LastBackoff
    /\ closing \in {"no", "connection", "forget", "done"}
    /\ alive \subseteq Attempts
    /\ consumers \in [Attempts -> Nat]
    /\ faults \in 0..MaxFaults
    /\ abandoned \subseteq Attempts

InProgress == {a \in Attempts : stage[a] \in Awaits}

\* This peer consumes its queue at most once at a time: with prefetch=1 that
\* is what makes its handler the only one (src/transport.ts:9, module
\* Inbound).  A connection that a failed attempt left open breaks it.
OneConsumer ==
    abandoned = {} =>
        /\ \A a \in Attempts : consumers[a] <= 1
        /\ \A a, b \in Attempts :
              consumers[a] > 0 /\ consumers[b] > 0 => a = b

\* Retries go on as long as they are needed: before close() a peer whose
\* connection is not alive has a timer or an attempt under way, and after it no
\* timer is left to keep the process alive.  (An abandoned connection that drops
\* later asks for a retry that is not needed.)
RetryDiscipline ==
    /\ stopped => timers = 0
    /\ ~ stopped /\ connection \notin alive => timers > 0 \/ InProgress # {}

\* Unless it is closed, the peer is consuming in the end, however often the
\* broker went away and whichever step of connect() that interrupted.
ConsumesInTheEnd ==
    <>[](stopped \/ \E a \in alive : consumers[a] > 0)

\* README.md:147: close() is a "Graceful shutdown of the AMQP connection and
\* the consume loop".
NothingOutlivesClose ==
    closing = "done" => \A a \in Attempts : consumers[a] = 0
-----------------------------------------------------------------------------
(***************************************************************************)
(* The inductive invariant of TransportProofs                              *)
(***************************************************************************)

\* Attempts that are past the dial.
OnConnection == {a \in Attempts : stage[a] \in Awaits \ {"dial"}}

\* An attempt that will make the connection, or fail and set a timer: unlike
\* one that may come up on a connection that is no longer the shared one.
WillRetry(a) == stage[a] = "dial" \/ (a \in OnConnection /\ on[a] \notin alive)

RetriesGoOn ==
    /\ stopped => timers = 0
    /\ closing # "no" => stopped
    /\ ~ stopped /\ connection \notin alive =>
          timers > 0 \/ \E a \in Attempts : WillRetry(a)

\* Until createPropagator goes on, there is no attempt but the first.
BootFirst ==
    /\ boot = "connecting" =>
          /\ ~ consumeRequested
          /\ consumeCh \in {None, 1}
          /\ stage[1] \notin {"unused", "register"}
          /\ \A a \in Attempts : consumers[a] = 0
          /\ \A a \in Attempts \ {1} : stage[a] = "unused"
    /\ boot = "registering" =>
          /\ bootOn = 1
          /\ consumers[1] = 0
          /\ stage[1] \in {"up", "failed"}

\* At most one connection is open or being made, and none while a timer is
\* set.
OneLine ==
    LET active == alive \cup {a \in Attempts : stage[a] = "dial"}
    IN  /\ \A a, b \in active : a = b
        /\ timers > 0 => timers = 1 /\ active = {}

\* The shared variables are those of the connection that is open, or null.
SharedIsOwn ==
    /\ \A a \in alive :
          /\ connection \in {a, None}
          /\ stage[a] = "declare" => consumeCh \in {a, None}
    /\ \A a \in OnConnection :
          /\ on[a] = a
          /\ ~ stopped /\ a \notin alive => timers > 0

\* Who has no connection, or has not come up yet, does not consume.
ConsumersAreUp ==
    \A a \in Attempts :
        /\ stage[a] \in {"unused", "dial", "failed"} => a \notin alive
        /\ stage[a] \in Awaits \cup {"unused"} => consumers[a] = 0
        /\ consumers[a] <= 1
        /\ consumers[a] > 0 => a \in alive

IInv ==
    /\ TypeOK
    /\ RetriesGoOn
    /\ abandoned = {} => BootFirst /\ OneLine /\ SharedIsOwn /\ ConsumersAreUp
=============================================================================
