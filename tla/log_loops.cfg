SPECIFICATION Spec
CONSTANTS
    MaxTerm = 3
    MaxIndex = 4
    Client = {}
    Noop = Noop
    NoEntry = NoEntry
    MaxReopens = 2
INVARIANTS
    MergeIsLoop
    ScanFindsFirst
