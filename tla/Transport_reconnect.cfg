\* Refused dials and calls, and connections that drop, three in all, with
\* close() at any time.
SPECIFICATION FairSpec
CONSTANTS
    MaxAttempts = 5
    MaxFaults = 3
    FirstBackoff = 1
    LastBackoff = 3
    None = None
INVARIANTS
    TypeOK
    OneConsumer
    RetryDiscipline
PROPERTIES
    ConsumesInTheEnd
CHECK_DEADLOCK FALSE
