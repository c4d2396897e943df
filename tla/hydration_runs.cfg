SPECIFICATION McSpec
CONSTANTS
    p1 = p1
    p2 = p2
    kept = kept
    extra = extra
    rules = rules
    Proc <- TwoRuns
    Modes <- AllModes
    File <- Paths
    Pack <- Packs
    Body <- Bodies
    Tombstones <- Removed
    Tracked <- OwnRules
    Index <- IndexBytes
    Junk = 9
    CodeUnitOrder <- PlainOrder
    LocaleOrder <- PlainOrder
    TTL = 1
    MaxClock = 2
    MaxMoves = 2
    MaxFaults = 1
    AllowLoss = TRUE
SYMMETRY RunSymmetry
INVARIANTS InstalledPackVerifies RecordCoversPlaced VerifiedPackIsWhole
PROPERTIES ReceiptNeverRollsBack TrackedPathsKept
