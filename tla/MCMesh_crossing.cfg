SPECIFICATION Spec
CONSTANTS
    n1 = n1
    n2 = n2
    n3 = n3
    Peers <- TwoPeers
    Full <- TwoPeers
    Kinds = {"ensure", "rotate", "revoke"}
    MaxOps = 2
    MaxEvents = 4
    MaxEdits = 0
    MaxFaults = 0
    OperatorsWait = FALSE
    Client = Client
    NoPlain = NoPlain
    NoRow = NoRow
    Absent = Absent
    NoCursor = NoCursor
    None = None
INVARIANT InStep
CHECK_DEADLOCK FALSE
