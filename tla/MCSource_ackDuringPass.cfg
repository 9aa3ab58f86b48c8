\* One ensure for one target, no fault; the target answers while the pass is
\* still recording the event.
SPECIFICATION FairSpec
CONSTANTS
    c1 = c1
    t1 = t1
    t2 = t2
    s1 = s1
    s2 = s2
    Clients = {c1}
    Targets <- OneTarget
    Refusing = {}
    Syncers <- OnePass
    Kinds = {"ensure"}
    FaultKinds = {}
    MaxOps = 1
    MaxEvents = 3
    MaxFaults = 0
    OperatorWaits = "all"
    PatientTargets = FALSE
    NoPlain = NoPlain
    NoRow = NoRow
    Absent = Absent
    None = None
PROPERTIES
    RowsBecomeTerminal
CHECK_DEADLOCK FALSE
