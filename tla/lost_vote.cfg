SPECIFICATION Spec
CONSTANTS
    Server = {s1, s2, s3}
    Nil = Nil
    Noop = Noop
    NoEntry = NoEntry
    NoValue = NoValue
    Empty = Empty
    s1 = s1
    s2 = s2
    s3 = s3
    k1 = k1
    v1 = v1
    v2 = v2
    c1 = c1
    c2 = c2
    Key = {k1}
    Value = {Empty, v1, v2}
    Client = {}
    CmdOf <- MCCmdOf
    DurableStore = FALSE
    SnapshotThreshold = 10
    MaxTerm = 1
    MaxIndex = 2
    MaxElections = 2
    MaxRestarts = 1
    MaxFaults = 1
    MaxRpcs = 0
SYMMETRY Symmetry
INVARIANT OneLeaderPerTerm
CHECK_DEADLOCK FALSE
