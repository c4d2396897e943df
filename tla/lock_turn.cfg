SPECIFICATION FairSpec
CONSTANTS
    p1 = p1
    p2 = p2
    p3 = p3
    Proc <- ThreeRuns
    None = None
    StaleAge = 1
    LockAttempts = 2
    CrashAt <- OwnedSteps
    MaxCrashes = 1
INVARIANTS TypeOK MutexUnlessStolen HolderOwnsLock
PROPERTIES ImplementsInstallTurn TurnComesRound
