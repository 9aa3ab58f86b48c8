\* Operators take turns; a target is added, replaced or deleted at any time,
\* and a delivery is repeated.
SPECIFICATION Spec
CONSTANTS
    n1 = n1
    n2 = n2
    n3 = n3
    Peers <- ThreePeers
    Full <- TwoPeers
    Kinds = {"ensure", "rotate", "revoke"}
    MaxOps = 2
    MaxEvents = 4
    MaxEdits = 1
    MaxFaults = 1
    OperatorsWait = TRUE
    Client = Client
    NoPlain = NoPlain
    NoRow = NoRow
    Absent = Absent
    NoCursor = NoCursor
    None = None
INVARIANTS InStep PlainLeavesUnlessMended
SYMMETRY Both
CHECK_DEADLOCK FALSE
