CONSTANTS
  Code = {c0, c1}
  BaseCode = c0
  NoTree = NoTree
  PyTests = {t1}
  E2ETests = {}
  Modes <- MCModes
  MaxRetries = 1
  SessionCap = 9
SPECIFICATION Spec
INVARIANTS
  TypeOK
  PushedIsReviewed
  PushedIsGated
  ReproBeforeFix
  JournalIsTrue
  EveryRunJournaled
  NoDebris
  SessionsBounded
PROPERTIES
  Terminates
  ImplementsContract
