SPECIFICATION McSpec
CONSTANTS
  None = None
  NoTarball = NoTarball
  MaxScans = 1
  Targets <- McTargets
  Commits <- McCommits
  Heads = {"head"}
  Parents <- McParents
  BumpOf <- McBumpOf
  MaxBuilds = 1
  MaxRuns = 2
  MaxScanJobs = 1
  Main = "main"
  Members = {"member"}
  StagedBefore = {}
  MaxCommands = 1
CHECK_DEADLOCK FALSE
INVARIANTS PublicWasScanned NativesOfOneBuild
PROPERTIES NoneAbandonedIfPublic RejectedAfterRecorded
