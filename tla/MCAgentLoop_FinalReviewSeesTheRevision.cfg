CONSTANTS
  Code = {c0, c1}
  BaseCode = c0
  NoTree = NoTree
  PyTests = {t1}
  E2ETests = {}
  Modes <- FeatureModes
  MaxRetries = 1
  SessionCap = 9
SPECIFICATION Spec
INVARIANT FinalReviewSeesTheRevision
