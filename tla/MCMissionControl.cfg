CONSTANTS
  Runs = {p1, p2}
  Reports = {e1, e2}
  NoReport = NoReport
  NoRun = NoRun
  FetchLimit = 1
  MaxSteps = 1
SYMMETRY Symmetry
SPECIFICATION Spec
INVARIANTS TypeOK TimelineIsComplete EventsAreTrue
PROPERTIES FeedNeverGoesBack
