SPECIFICATION Spec
CONSTANTS
    p1 = p1
    p2 = p2
    kept = kept
    extra = extra
    rules = rules
    Proc <- OneRun
    Modes <- ChannelModes
    File <- Paths
    Pack <- Packs
    Body <- Bodies
    Tombstones <- Removed
    Tracked <- OwnRules
    Index <- IndexBytes
    Junk = 9
    CodeUnitOrder <- PlainOrder
    LocaleOrder <- UpperLast
    TTL = 1
    MaxClock = 1
    MaxMoves = 2
    MaxFaults = 0
    AllowLoss = FALSE
INVARIANT WholePackVerifies
