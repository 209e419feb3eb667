CONSTANTS
  Queries <- Texts
  Filters <- StatusOptions
  Pages = {1, 2}
  Fields = {make, price}
  Slots = {s1, s2}
  Attempts = {a1, a2}
  MaxCommits = 2
  MaxGestures = 3
  NoTimer = NoTimer
SYMMETRY Symmetry
SPECIFICATION Spec
INVARIANTS
  TypeOK
  TableMatchesFilters
  OwnChangesAreShown
  RefusalMeansStale
PROPERTIES
  SaveKeepsOthers
CHECK_DEADLOCK FALSE
