SPECIFICATION FairSpec
CONSTANTS
    p1 = p1
    p2 = p2
    kept = kept
    extra = extra
    rules = rules
    Proc <- TwoRuns
    Modes <- ChannelModes
    File <- Paths
    Pack <- Packs
    Body <- Bodies
    Tombstones <- Removed
    Tracked <- OwnRules
    Index <- IndexBytes
    Junk = 9
    CodeUnitOrder <- PlainOrder
    LocaleOrder <- PlainOrder
    TTL = 1
    MaxClock = 1
    MaxMoves = 1
    MaxFaults = 1
    AllowLoss = FALSE
PROPERTIES EventuallySynced AppliedNeverRollsBack
