--------------------------- MODULE TransportProofs --------------------------
(***************************************************************************)
(* Proofs about Transport, for every number of attempts and faults and     *)
(* every pair of backoffs: the type invariant, that retries go on exactly  *)
(* as long as they are needed, and that the peer consumes its queue at     *)
(* most once at a time.                                                    *)
(***************************************************************************)
EXTENDS Transport, TLAPS

\* There is a first attempt, and null is none.
LEMMA FirstAttempt == 1 \in Attempts /\ None \notin Attempts
  BY TransportAssumption DEF Attempts

\* The backoff grows, up to its cap.
LEMMA LongerType ==
    ASSUME NEW ms \in FirstBackoff..LastBackoff
    PROVE  Longer(ms) \in FirstBackoff..LastBackoff
  BY TransportAssumption DEF Longer

\* scheduleReconnect sets at most one timer, and one unless close() was called.
LEMMA ScheduleProperties ==
    ASSUME TypeOK, ScheduleReconnect
    PROVE  /\ timers' \in Nat
           /\ backoff' \in FirstBackoff..LastBackoff
           /\ ~ stopped => timers' > 0
           /\ timers' = timers \/ (~ stopped /\ timers = 0 /\ timers' = 1)
  BY LongerType DEF TypeOK, ScheduleReconnect, retryVars

\* A registration more.
LEMMA RegisterType ==
    ASSUME TypeOK, NEW k \in Connections,
           consumers' = [consumers EXCEPT ![k] = @ + 1]
    PROVE  /\ consumers' \in [Attempts -> Nat]
           /\ \A a \in Attempts :
                 consumers'[a] = IF a = k THEN consumers[k] + 1 ELSE consumers[a]
  <1>1. consumers \in [Attempts -> Nat]
    BY DEF TypeOK
  <1>2. CASE k \in Attempts
    BY <1>1, <1>2
  <1>3. CASE k \notin Attempts
    BY <1>1, <1>3
  <1> QED
    BY <1>2, <1>3

\* A fault is counted within its bound.
LEMMA FaultType ==
    ASSUME TypeOK, Fault
    PROVE  faults' \in 0..MaxFaults
  BY TransportAssumption DEF TypeOK, Fault

\* The backoff starts within its bounds.
LEMMA FirstBackoffType == FirstBackoff \in FirstBackoff..LastBackoff
  BY TransportAssumption
-----------------------------------------------------------------------------
\* What the invariant says while no attempt has left its connection open.
Line == BootFirst /\ OneLine /\ SharedIsOwn /\ ConsumersAreUp

\* No attempt, no timer and no connection at first, and the boot is still to come.
LEMMA InitInv == Init => IInv
  <1> SUFFICES ASSUME Init
               PROVE  IInv
    OBVIOUS
  <1> USE FirstAttempt DEF Init
  <1>1. TypeOK
    <2>1. 0 \in 0..MaxFaults
      BY TransportAssumption
    <2>2. consumers \in [Attempts -> Nat] /\ on \in [Attempts -> Connections]
      BY DEF Connections
    <2>3. stage \in [Attempts -> Awaits \cup {"unused", "up", "failed"}]
      BY DEF Awaits
    <2> QED
      BY <2>1, <2>2, <2>3, FirstBackoffType DEF TypeOK, Connections
  <1>2. RetriesGoOn
    BY DEF RetriesGoOn, WillRetry
  <1>3. BootFirst /\ OneLine
    BY DEF BootFirst, OneLine
  <1>4. SharedIsOwn /\ ConsumersAreUp
    BY DEF SharedIsOwn, ConsumersAreUp, OnConnection, Awaits
  <1> QED
    BY <1>1, <1>2, <1>3, <1>4 DEF IInv

\* The timer starts an attempt, which then is what will retry.
LEMMA FireInv ==
    ASSUME IInv, Fire
    PROVE  IInv'
  <1> USE FirstAttempt DEF IInv, TypeOK, Fire, brokerVars
  <1>1. TypeOK'
    BY DEF Awaits, Connections
  <1>2. RetriesGoOn'
    BY DEF RetriesGoOn, WillRetry, OnConnection, Doomed, Awaits
  <1> SUFFICES ASSUME abandoned' = {}
               PROVE  Line'
    BY <1>1, <1>2 DEF Line
  <1> USE DEF BootFirst, OneLine, SharedIsOwn, ConsumersAreUp, OnConnection,
              Awaits, Busy, BootReady, Doomed
  <1>3. BootFirst'
    OBVIOUS
  <1>4. OneLine'
    OBVIOUS
  <1>5. SharedIsOwn'
    OBVIOUS
  <1>6. ConsumersAreUp'
    OBVIOUS
  <1> QED
    BY <1>3, <1>4, <1>5, <1>6 DEF Line

\* amqplib.connect resolves, perhaps after close().
LEMMA DialledInv ==
    ASSUME IInv, NEW a \in Attempts, Dialled(a)
    PROVE  IInv'
  <1> USE FirstAttempt DEF IInv, TypeOK, Dialled, retryVars
  <1>1. TypeOK'
    BY DEF Awaits, Connections
  <1>2. RetriesGoOn'
    BY DEF RetriesGoOn, WillRetry, OnConnection, Doomed, Awaits
  <1> SUFFICES ASSUME abandoned' = {}
               PROVE  Line'
    BY <1>1, <1>2 DEF Line
  <1> USE DEF BootFirst, OneLine, SharedIsOwn, ConsumersAreUp, OnConnection,
              Awaits
  <1>3. BootFirst'
    OBVIOUS
  <1>4. OneLine'
    OBVIOUS
  <1>5. SharedIsOwn'
    OBVIOUS
  <1>6. ConsumersAreUp'
    OBVIOUS
  <1> QED
    BY <1>3, <1>4, <1>5, <1>6 DEF Line

\* The first channel is open.
LEMMA ConfirmChannelOpenInv ==
    ASSUME IInv, NEW a \in Attempts, ConfirmChannelOpen(a)
    PROVE  IInv'
  <1> USE FirstAttempt DEF IInv, TypeOK, ConfirmChannelOpen, retryVars, brokerVars
  <1>1. TypeOK'
    BY DEF Awaits, Connections
  <1>2. RetriesGoOn'
    BY DEF RetriesGoOn, WillRetry, OnConnection, Doomed, Awaits
  <1> SUFFICES ASSUME abandoned' = {}
               PROVE  Line'
    BY <1>1, <1>2 DEF Line
  <1> USE DEF BootFirst, OneLine, SharedIsOwn, ConsumersAreUp, OnConnection,
              Awaits, Doomed
  <1>3. BootFirst'
    OBVIOUS
  <1>4. OneLine'
    OBVIOUS
  <1>5. SharedIsOwn'
    OBVIOUS
  <1>6. ConsumersAreUp'
    OBVIOUS
  <1> QED
    BY <1>3, <1>4, <1>5, <1>6 DEF Line

\* The second channel is open.
LEMMA ConsumeChannelOpenInv ==
    ASSUME IInv, NEW a \in Attempts, ConsumeChannelOpen(a)
    PROVE  IInv'
  <1> USE FirstAttempt DEF IInv, TypeOK, ConsumeChannelOpen, retryVars, brokerVars
  <1>1. TypeOK'
    BY DEF Awaits, Connections
  <1>2. RetriesGoOn'
    BY DEF RetriesGoOn, WillRetry, OnConnection, Doomed, Awaits
  <1> SUFFICES ASSUME abandoned' = {}
               PROVE  Line'
    BY <1>1, <1>2 DEF Line
  <1> USE DEF BootFirst, OneLine, SharedIsOwn, ConsumersAreUp, OnConnection,
              Awaits, Doomed
  <1>3. BootFirst'
    OBVIOUS
  <1>4. OneLine'
    OBVIOUS
  <1>5. SharedIsOwn'
    OBVIOUS
  <1>6. ConsumersAreUp'
    OBVIOUS
  <1> QED
    BY <1>3, <1>4, <1>5, <1>6 DEF Line

\* The attempt ends here or goes on to registerConsume.
LEMMA QueueDeclaredInv ==
    ASSUME IInv, NEW a \in Attempts, QueueDeclared(a)
    PROVE  IInv'
  <1> USE FirstAttempt, FirstBackoffType DEF IInv, TypeOK, QueueDeclared, brokerVars, MustRegister
  <1>1. TypeOK'
    BY DEF Awaits, Connections
  <1>2. RetriesGoOn'
    BY DEF RetriesGoOn, WillRetry, OnConnection, Doomed, Awaits
  <1> SUFFICES ASSUME abandoned' = {}
               PROVE  Line'
    BY <1>1, <1>2 DEF Line
  <1> USE DEF BootFirst, OneLine, SharedIsOwn, ConsumersAreUp, OnConnection,
              Awaits, Doomed
  <1>3. BootFirst'
    OBVIOUS
  <1>4. OneLine'
    OBVIOUS
  <1>5. SharedIsOwn'
    OBVIOUS
  <1>6. ConsumersAreUp'
    OBVIOUS
  <1> QED
    BY <1>3, <1>4, <1>5, <1>6 DEF Line

\* The consumer of an attempt is on the connection it has just opened.
LEMMA RegisteredInv ==
    ASSUME IInv, NEW a \in Attempts, Registered(a)
    PROVE  IInv'
  <1> USE FirstAttempt, FirstBackoffType, RegisterType DEF IInv, TypeOK, Registered
  <1>1. TypeOK'
    BY DEF Awaits, Connections
  <1>2. RetriesGoOn'
    BY DEF RetriesGoOn, WillRetry, OnConnection, Doomed, Awaits
  <1> SUFFICES ASSUME abandoned' = {}
               PROVE  Line'
    BY <1>1, <1>2 DEF Line
  <1> USE DEF BootFirst, OneLine, SharedIsOwn, ConsumersAreUp, OnConnection,
              Awaits, Doomed
  <1>3. BootFirst'
    OBVIOUS
  <1>4. OneLine'
    OBVIOUS
  <1>5. SharedIsOwn'
    OBVIOUS
  <1>6. ConsumersAreUp'
    OBVIOUS
  <1> QED
    BY <1>3, <1>4, <1>5, <1>6 DEF Line

\* An attempt that fails leaves a timer, or close() has been called.
LEMMA AttemptFailsInv ==
    ASSUME IInv, NEW a \in Attempts, AttemptFails(a)
    PROVE  IInv'
  <1> USE FirstAttempt, ScheduleProperties, FaultType DEF IInv, TypeOK, AttemptFails, brokerVars, Throws
  <1>1. TypeOK'
    BY DEF Awaits, Connections
  <1>2. RetriesGoOn'
    BY DEF RetriesGoOn, WillRetry, OnConnection, Doomed, Awaits
  <1> SUFFICES ASSUME abandoned' = {}
               PROVE  Line'
    BY <1>1, <1>2 DEF Line
  <1> USE DEF BootFirst, OneLine, SharedIsOwn, ConsumersAreUp, OnConnection,
              Awaits, Doomed
  <1>3. BootFirst'
    OBVIOUS
  <1>4. OneLine'
    OBVIOUS
  <1>5. SharedIsOwn'
    OBVIOUS
  <1>6. ConsumersAreUp'
    OBVIOUS
  <1> QED
    BY <1>3, <1>4, <1>5, <1>6 DEF Line

\* A refused call does so too, and abandons its connection.
LEMMA CallRefusedInv ==
    ASSUME IInv, NEW a \in Attempts, CallRefused(a)
    PROVE  IInv'
  <1> USE FirstAttempt, ScheduleProperties, FaultType DEF IInv, TypeOK, CallRefused, brokerVars, Throws
  <1>1. TypeOK'
    BY DEF Awaits, Connections
  <1>2. RetriesGoOn'
    BY DEF RetriesGoOn, WillRetry, OnConnection, Doomed, Awaits
  <1> SUFFICES ASSUME abandoned' = {}
               PROVE  Line'
    BY <1>1, <1>2 DEF Line
  <1> USE DEF BootFirst, OneLine, SharedIsOwn, ConsumersAreUp, OnConnection,
              Awaits, Doomed
  <1>3. BootFirst'
    OBVIOUS
  <1>4. OneLine'
    OBVIOUS
  <1>5. SharedIsOwn'
    OBVIOUS
  <1>6. ConsumersAreUp'
    OBVIOUS
  <1> QED
    BY <1>3, <1>4, <1>5, <1>6 DEF Line

\* The listener of a connection leaves a timer.
LEMMA DropInv ==
    ASSUME IInv, NEW a \in Attempts, Drop(a)
    PROVE  IInv'
  <1> USE FirstAttempt, ScheduleProperties, FaultType DEF IInv, TypeOK, Drop, attemptVars
  <1>1. TypeOK'
    BY DEF Awaits, Connections
  <1>2. RetriesGoOn'
    BY DEF RetriesGoOn, WillRetry, OnConnection, Doomed, Awaits
  <1> SUFFICES ASSUME abandoned' = {}
               PROVE  Line'
    BY <1>1, <1>2 DEF Line
  <1> USE DEF BootFirst, OneLine, SharedIsOwn, ConsumersAreUp, OnConnection,
              Awaits, Busy, BootReady, Doomed
  <1>3. BootFirst'
    OBVIOUS
  <1>4. OneLine'
    OBVIOUS
  <1>5. SharedIsOwn'
    OBVIOUS
  <1>6. ConsumersAreUp'
    OBVIOUS
  <1> QED
    BY <1>3, <1>4, <1>5, <1>6 DEF Line

\* startConsume registers on a connection without a consumer.
LEMMA StartConsumeInv ==
    ASSUME IInv, StartConsume
    PROVE  IInv'
  <1> USE FirstAttempt DEF IInv, TypeOK, StartConsume, attemptVars, retryVars, brokerVars
  <1>1. TypeOK'
    BY DEF Awaits, Connections
  <1>2. RetriesGoOn'
    BY DEF RetriesGoOn, WillRetry, OnConnection, Doomed, Awaits
  <1> SUFFICES ASSUME abandoned' = {}
               PROVE  Line'
    BY <1>1, <1>2 DEF Line
  <1> USE DEF BootFirst, OneLine, SharedIsOwn, ConsumersAreUp, OnConnection,
              Awaits, BootReady
  <1>3. BootFirst'
    OBVIOUS
  <1>4. OneLine'
    OBVIOUS
  <1>5. SharedIsOwn'
    OBVIOUS
  <1>6. ConsumersAreUp'
    OBVIOUS
  <1> QED
    BY <1>3, <1>4, <1>5, <1>6 DEF Line

\* It returns.
LEMMA StartConsumeReturnsInv ==
    ASSUME IInv, StartConsumeReturns
    PROVE  IInv'
  <1> USE FirstAttempt, RegisterType DEF IInv, TypeOK, StartConsumeReturns, attemptVars, retryVars
  <1>1. TypeOK'
    BY DEF Awaits, Connections
  <1>2. RetriesGoOn'
    BY DEF RetriesGoOn, WillRetry, OnConnection, Doomed, Awaits
  <1> SUFFICES ASSUME abandoned' = {}
               PROVE  Line'
    BY <1>1, <1>2 DEF Line
  <1> USE DEF BootFirst, OneLine, SharedIsOwn, ConsumersAreUp, OnConnection,
              Awaits
  <1>3. BootFirst'
    OBVIOUS
  <1>4. OneLine'
    OBVIOUS
  <1>5. SharedIsOwn'
    OBVIOUS
  <1>6. ConsumersAreUp'
    OBVIOUS
  <1> QED
    BY <1>3, <1>4, <1>5, <1>6 DEF Line

\* close() clears the timer.
LEMMA CloseInv ==
    ASSUME IInv, Close
    PROVE  IInv'
  <1> USE FirstAttempt DEF IInv, TypeOK, Close, attemptVars, brokerVars
  <1>1. TypeOK'
    BY DEF Awaits, Connections
  <1>2. RetriesGoOn'
    BY DEF RetriesGoOn, WillRetry, OnConnection, Doomed, Awaits
  <1> SUFFICES ASSUME abandoned' = {}
               PROVE  Line'
    BY <1>1, <1>2 DEF Line
  <1> USE DEF BootFirst, OneLine, SharedIsOwn, ConsumersAreUp, OnConnection,
              Awaits
  <1>3. BootFirst'
    OBVIOUS
  <1>4. OneLine'
    OBVIOUS
  <1>5. SharedIsOwn'
    OBVIOUS
  <1>6. ConsumersAreUp'
    OBVIOUS
  <1> QED
    BY <1>3, <1>4, <1>5, <1>6 DEF Line

\* The connection goes, with its consumers.
LEMMA CloseConnectionInv ==
    ASSUME IInv, CloseConnection
    PROVE  IInv'
  <1> USE FirstAttempt DEF IInv, TypeOK, CloseConnection, attemptVars, retryVars
  <1>1. TypeOK'
    BY DEF Awaits, Connections
  <1>2. RetriesGoOn'
    BY DEF RetriesGoOn, WillRetry, OnConnection, Doomed, Awaits
  <1> SUFFICES ASSUME abandoned' = {}
               PROVE  Line'
    BY <1>1, <1>2 DEF Line
  <1> USE DEF BootFirst, OneLine, SharedIsOwn, ConsumersAreUp, OnConnection,
              Awaits
  <1>3. BootFirst'
    OBVIOUS
  <1>4. OneLine'
    OBVIOUS
  <1>5. SharedIsOwn'
    BY DEF RetriesGoOn, Awaits
  <1>6. ConsumersAreUp'
    OBVIOUS
  <1> QED
    BY <1>3, <1>4, <1>5, <1>6 DEF Line

\* The last part of close() forgets it.
LEMMA ForgetInv ==
    ASSUME IInv, Forget
    PROVE  IInv'
  <1> USE FirstAttempt DEF IInv, TypeOK, Forget, attemptVars, retryVars, brokerVars
  <1>1. TypeOK'
    BY DEF Awaits, Connections
  <1>2. RetriesGoOn'
    BY DEF RetriesGoOn, WillRetry, OnConnection, Doomed, Awaits
  <1> SUFFICES ASSUME abandoned' = {}
               PROVE  Line'
    BY <1>1, <1>2 DEF Line
  <1> USE DEF BootFirst, OneLine, SharedIsOwn, ConsumersAreUp, OnConnection,
              Awaits
  <1>3. BootFirst'
    OBVIOUS
  <1>4. OneLine'
    OBVIOUS
  <1>5. SharedIsOwn'
    OBVIOUS
  <1>6. ConsumersAreUp'
    OBVIOUS
  <1> QED
    BY <1>3, <1>4, <1>5, <1>6 DEF Line

-----------------------------------------------------------------------------
\* Every step keeps the invariant.
LEMMA NextInv == IInv /\ [Next]_vars => IInv'
  <1> SUFFICES ASSUME IInv, [Next]_vars
               PROVE  IInv'
    OBVIOUS
  <1>1. CASE UNCHANGED vars
    <2> USE <1>1 DEF vars, IInv
    <2>1. TypeOK' /\ RetriesGoOn'
      BY DEF TypeOK, RetriesGoOn, WillRetry, OnConnection
    <2>2. abandoned = {} => BootFirst' /\ OneLine'
      BY DEF BootFirst, OneLine
    <2>3. abandoned = {} => SharedIsOwn' /\ ConsumersAreUp'
      BY DEF SharedIsOwn, ConsumersAreUp, OnConnection
    <2> QED
      BY <2>1, <2>2, <2>3
  <1>2. ASSUME NEW a \in Attempts,
               Connect(a) \/ AttemptFails(a) \/ CallRefused(a) \/ Drop(a)
        PROVE  IInv'
    BY <1>2, DialledInv, ConfirmChannelOpenInv, ConsumeChannelOpenInv,
       QueueDeclaredInv, RegisteredInv, AttemptFailsInv, CallRefusedInv, DropInv
       DEF Connect
  <1>3. CASE Fire
    BY <1>3, FireInv
  <1>4. CASE Boot
    BY <1>4, StartConsumeInv, StartConsumeReturnsInv DEF Boot
  <1>5. CASE Close \/ Shutdown
    BY <1>5, CloseInv, CloseConnectionInv, ForgetInv DEF Shutdown
  <1> QED
    BY <1>1, <1>2, <1>3, <1>4, <1>5 DEF Next

\* The inductive invariant holds of every interleaving of attempts, timers,
\* drops, the boot and close().
THEOREM TransportInvariant == Spec => []IInv
  BY InitInv, NextInv, PTL DEF Spec

\* Every variable of the transport keeps its shape, the backoff its bounds.
THEOREM TransportTypeCorrect == Spec => []TypeOK
  <1>1. IInv => TypeOK
    BY DEF IInv
  <1> QED
    BY <1>1, TransportInvariant, PTL

\* scheduleReconnect in src/transport.ts: no peer that is not closed is left
\* without a connection, a timer and an attempt, and no timer outlives close().
THEOREM RetriesAreDisciplined == Spec => []RetryDiscipline
  <1>1. IInv => RetryDiscipline
    BY DEF IInv, RetriesGoOn, RetryDiscipline, WillRetry, OnConnection, InProgress,
           Awaits
  <1> QED
    BY <1>1, TransportInvariant, PTL

\* startConsume and connect() of src/transport.ts never register two consumers
\* on the own queue, unless a refused call has left a connection open.
THEOREM ConsumesAtMostOnce == Spec => []OneConsumer
  <1>1. IInv => OneConsumer
    BY DEF IInv, TypeOK, OneLine, ConsumersAreUp, OneConsumer
  <1> QED
    BY <1>1, TransportInvariant, PTL
=============================================================================
