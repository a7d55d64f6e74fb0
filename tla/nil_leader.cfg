SPECIFICATION SpecCompacted
CONSTANTS
    Server = {s1, s2}
    Nil = Nil
    Noop = Noop
    NoEntry = NoEntry
    NoValue = NoValue
    Empty = Empty
    s1 = s1
    s2 = s2
    s3 = s3
    k1 = k1
    v1 = v1
    v2 = v2
    c1 = c1
    c2 = c2
    Key = {k1}
    Value = {Empty, v1, v2}
    Client = {c1}
    CmdOf <- MCCmdOf
    DurableStore = TRUE
    SnapshotThreshold = 1
    MaxTerm = 4
    MaxIndex = 3
    MaxElections = 4
    MaxRestarts = 2
    MaxFaults = 0
    MaxRpcs = 1
INVARIANT
    ReplyMeetsLeader
CHECK_DEADLOCK FALSE
