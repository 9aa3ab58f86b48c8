\* One ensure for two targets, no fault; a target answers while the pass has the
\* other one still to tell.
SPECIFICATION Spec
CONSTANTS
    c1 = c1
    t1 = t1
    t2 = t2
    s1 = s1
    s2 = s2
    Clients = {c1}
    Targets <- TwoTargets
    Refusing = {}
    Syncers <- OnePass
    Kinds = {"ensure"}
    FaultKinds = {}
    MaxOps = 1
    MaxEvents = 3
    MaxFaults = 0
    OperatorWaits = "all"
    PatientTargets = FALSE
    NoPlain = NoPlain
    NoRow = NoRow
    Absent = Absent
    None = None
INVARIANTS
    PlainKeptUntilTerminal
CHECK_DEADLOCK FALSE
