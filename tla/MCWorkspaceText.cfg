SPECIFICATION MCSpec
CONSTANTS
  Parts = {"box"}
  KdsLines = {l1, l2}
  KdsPage = 3
  KdsChanges = 2
  KdsQueue = 2
  MobileLines = 1
  Plans = 1
  Attempts = 2
  MobileVersions = 5
  Operators = {ana, eva}
  NoOne = NoOne
  Generations = 2
  JobIds = {j1}
  MaxAttempts = 1
  Drafts = {a, b}
  NoDraft = NoDraft
  BoxTexts = 1
  BoxRequests = 6
  BoxVisits = 1
INVARIANT TypedTextStays
CHECK_DEADLOCK FALSE
