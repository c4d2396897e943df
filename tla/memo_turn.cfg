SPECIFICATION FairSpec
CONSTANTS
    p1 = p1
    p2 = p2
    Proc <- TwoPushes
    Fixer = Fixer
    None = None
    File <- Files
    Version <- TwoVersions
    Rank <- ApiFirst
    Staged <- UseOnly
    Origin <- Old
    Heads <- EitherHead
    Errors <- ErrorFiles
    Torn = Torn
    MaxEdits = 0
    MaxPushes = 3
    MaxPolls = 1
    MaxCrashes = 1
INVARIANTS HolderRunsAlone NothingLeftHeld PassedCommitChecks
PROPERTIES PushEnds
