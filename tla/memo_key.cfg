SPECIFICATION Spec
CONSTANTS
    p1 = p1
    p2 = p2
    Proc <- OnePush
    Fixer = Fixer
    None = None
    File <- Files
    Version <- ThreeVersions
    Rank <- ApiFirst
    Staged <- Nothing
    Origin <- Old
    Heads <- OnlyChanged
    Errors <- ErrorFiles
    Torn = Torn
    MaxEdits = 2
    MaxPushes = 2
    MaxPolls = 1
    MaxCrashes = 0
INVARIANTS SameKeySameTree
