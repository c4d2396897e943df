SPECIFICATION MCSpec
CONSTANTS
  Target = 12
  SwapLimit = 8
  Header = 1
  Headroom = 5
  Unlimited = 100
  MaxForeign = 2
  Jobs = {"a", "b"}
  MaxAttempts = 3
  Hosts <- McHosts
  JobPlans <- McJobPlans
  Docs <- McDocs
  MaxAge = 2
  Strict = FALSE
  MaxCancelled = 1
  ProbeAttempts = 3
  MaxEntries = 2
  Scenes <- McScenes
  HardFloor <- McHardFloor
  Nothing = Nothing
  None = None
  Null = Null
  Upstreams = {"agentshield", "gitleaks", "trufflehog"}
  Moving = {"gitleaks"}
  Touched = {"manifests"}
  Parse <- RulesOf
  MaxEdits = 1
  MaxKills = 1
  MaxTag = 2
  MaxOverlap = 2
  Bootstraps = {"x", "y"}
  Placeholder = Placeholder
  Foundation <- McFoundation
  Projects <- McProjects
  Registry <- McRegistry
  Flagged <- McFlagged
  Leftovers <- McLeftovers
  MaxBumps = 1
  MaxStopped = 1
INVARIANTS FoundationIsPinned SwapIsOwned InstalledToolIsPinned SetupIsCoherent TablesAreVouched
