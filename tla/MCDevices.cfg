SPECIFICATION MCSpec
CONSTANTS
  Parts = {"watch", "cook", "order", "gate", "print", "box", "reopened"}
  KdsLines = {l1, l2}
  KdsPage = 3
  KdsChanges = 2
  KdsQueue = 2
  MobileLines = 2
  Plans = 1
  Attempts = 2
  MobileVersions = 5
  Operators = {ana, eva}
  NoOne = NoOne
  Generations = 6
  JobIds = {j1, j2, j3}
  MaxAttempts = 2
  Drafts = {a, b}
  NoDraft = NoDraft
  BoxTexts = 2
  BoxRequests = 5
  BoxVisits = 2
INVARIANTS NothingUnseen WritesUnbroken SentMeansWhole NoConflictWithItself SignedOutStaysOut PrintsOnce
INVARIANT SavedMeansStored
PROPERTIES HintsAreShown
CHECK_DEADLOCK FALSE
