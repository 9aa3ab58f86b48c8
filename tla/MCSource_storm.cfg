\* Two passes at the same time, acknowledgements at any time, operations one
\* after the other but at any time, for one target, and a fault of any kind.
SPECIFICATION Spec
CONSTANTS
    c1 = c1
    t1 = t1
    t2 = t2
    s1 = s1
    s2 = s2
    Clients = {c1}
    Targets <- OneTarget
    Refusing = {}
    Syncers <- TwoPasses
    Kinds = {"ensure", "rotate"}
    FaultKinds = {"publish", "unconfirmed", "redis", "mark", "callback", "store",
                  "crash", "expire", "duplicate"}
    MaxOps = 2
    MaxEvents = 2
    MaxFaults = 1
    OperatorWaits = "operations"
    PatientTargets = FALSE
    NoPlain = NoPlain
    NoRow = NoRow
    Absent = Absent
    None = None
INVARIANTS
    SentMeansPublished
    VerdictIsWitnessed
    VerdictIsCurrent
    DeletionsHaveCause
    PublishOnce
    LocalFollowsOperator
PROPERTIES
    FirstAckIsKnown
SYMMETRY Passes
CHECK_DEADLOCK FALSE
