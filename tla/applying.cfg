SPECIFICATION SpecElected
CONSTANTS
    Server = {s1, s2}
    Nil = Nil
    Noop = Noop
    NoEntry = NoEntry
    NoValue = NoValue
    Empty = Empty
    s1 = s1
    s2 = s2
    s3 = s3
    k1 = k1
    v1 = v1
    v2 = v2
    c1 = c1
    c2 = c2
    Key = {k1}
    Value = {Empty, v1, v2}
    Client = {c1, c2}
    CmdOf <- MCCmdOf
    DurableStore = FALSE
    SnapshotThreshold = 10
    MaxTerm = 2
    MaxIndex = 4
    MaxElections = 2
    MaxRestarts = 1
    MaxFaults = 0
    MaxRpcs = 1
INVARIANTS
    ReplicasAgree
    PendingMatchesWaiting
    AppliedWithinCommit
CHECK_DEADLOCK FALSE
