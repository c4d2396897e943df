SPECIFICATION McSpec
CONSTANTS
  Hydrations = {"h1", "h2"}
  Rules = {"rules", "older"}
  Reach = 2
  Histories <- McHistories
  MaxCrashes = 1
  Paths = {"a", "b", "w1", "w2", "w3"}
  Workflows = {"w1", "w2", "w3"}
  FileTexts <- McFileTexts
  Titles = {"", "a", "b", "w1", "w2", "w3"}
  MoveLists <- McMoveLists
  Trees <- McTrees
  MaxKills = 1
  Names = {"a", "b", "own", "release", "modules"}
  Declared = {"own"}
  ReleaseOnly = {"release"}
  Unlisted = {"modules"}
  MaxShrink = 1
  MaxEdits = 1
  MaxDeaths = 1
  Documents <- McDocuments
  Ignores <- McIgnores
  Attributes <- McAttributes
  MaxInstalls = 3
  Bundle <- McBundle
  FleetKeys <- McFleetKeys
  Package <- McPackage
  Conditional = {"p", "q"}
  FleetPackages <- McFleetPackages
  Workspaces <- McWorkspaces
  FleetSettings <- McFleetSettings
  MemberSettings <- McMemberSettings
  Prepares <- McPrepares
  MaxMerges = 2
  Manifests <- McManifests
  Altered <- McAltered
  Credentials = {"workflow"}
  Refusals <- McRefusals
  MaxPushes = 1
  MaxBadAnswers = 2
  MaxFetches = 1
  Ecosystem = {"cargo"}
  Plain = {"package"}
  Wordings = {"one", "two"}
  MaxChanges = 2
CHECK_DEADLOCK FALSE
INVARIANTS PlacementKeepsFiles SharedFilesKept FetchedIsGreen InstallSeesItsInputs
PROPERTIES RulesSurvive
