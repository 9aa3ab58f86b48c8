\* Two faults at any step: connections that drop, calls that throw, crashes.
SPECIFICATION FairSpec
CONSTANTS
    Newest = 3
    MaxFaults = 2
INVARIANTS TypeOK OneHandlerPerChannel LostOnlyToStrays AnswersStand
PROPERTIES QueueDrains
CHECK_DEADLOCK FALSE
