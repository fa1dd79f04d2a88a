SPECIFICATION FairSpec
CONSTANTS
  Ids = {a, b, c}
  PageSize = 2
  MaxEdits = 3
  MaxFailures = 1
  MaxPings = 1
INVARIANTS TypeOK PagesContiguous
PROPERTIES AppliedCatalog NeverCleared Settles
