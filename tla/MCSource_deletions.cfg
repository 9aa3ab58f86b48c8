\* One ensure for two targets; one publish fails.
SPECIFICATION FairSpec
CONSTANTS
    c1 = c1
    t1 = t1
    t2 = t2
    s1 = s1
    s2 = s2
    Clients = {c1}
    Targets <- TwoTargets
    Refusing = {}
    Syncers <- OnePass
    Kinds = {"ensure"}
    FaultKinds = {"publish"}
    MaxOps = 1
    MaxEvents = 3
    MaxFaults = 1
    OperatorWaits = "all"
    PatientTargets = TRUE
    NoPlain = NoPlain
    NoRow = NoRow
    Absent = Absent
    None = None
INVARIANTS
    DeletionsAreAsked
CHECK_DEADLOCK FALSE
