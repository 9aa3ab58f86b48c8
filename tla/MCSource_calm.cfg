\* One pass at a time, acknowledgements between passes, operations one after
\* the other; one target refuses, one acknowledgement may be repeated.
SPECIFICATION FairSpec
CONSTANTS
    c1 = c1
    t1 = t1
    t2 = t2
    s1 = s1
    s2 = s2
    Clients = {c1}
    Targets <- TwoTargets
    Refusing <- SecondTarget
    Syncers <- OnePass
    Kinds = {"ensure", "rotate", "revoke"}
    FaultKinds = {"duplicate"}
    MaxOps = 3
    MaxEvents = 6
    MaxFaults = 1
    OperatorWaits = "all"
    PatientTargets = TRUE
    NoPlain = NoPlain
    NoRow = NoRow
    Absent = Absent
    None = None
INVARIANTS
    SettledIsClean
PROPERTIES
    FinalStatusIsTrue
    PropagationSettles
    PropagatesInRounds
CHECK_DEADLOCK FALSE
