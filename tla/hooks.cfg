SPECIFICATION McSpec
CONSTANTS
  Path <- McPath
  Texts <- McTexts
  Messages <- McMessages
  Keys = {"listed", "none"}
  Identities = {"allowed"}
  Checkout = "own"
  Others = 1
  DeleteFloor = 1
  HasAllowedSigners = TRUE
  RefSets <- McRefSets
  MaxCommits = 1
  MaxPushes = 2
  MaxPeer = 1
  Budget = 2
  Workers = {w1, w2}
  FleetTexts = {"a", "b"}
  OwnTexts = {"own"}
  Marked = TRUE
  Recipes <- McRecipes
  MaxCanonical = 2
  MaxCopies = 2
INVARIANTS HookedCommitIsClean MainIsVouched PushedTipWasRead
INVARIANTS StepFailureBlocks
PROPERTIES ForkedTextIsVouched
CHECK_DEADLOCK FALSE
