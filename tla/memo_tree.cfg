SPECIFICATION Spec
CONSTANTS
    p1 = p1
    p2 = p2
    Proc <- TwoPushes
    Fixer = Fixer
    None = None
    File <- Files
    Version <- TwoVersions
    Rank <- ApiFirst
    Staged <- UseOnly
    Origin <- Old
    Heads <- OnlyChanged
    Errors <- ErrorFiles
    Torn = Torn
    MaxEdits = 1
    MaxPushes = 2
    MaxPolls = 0
    MaxCrashes = 0
SYMMETRY PushSymmetry
INVARIANTS VerdictFitsTree
