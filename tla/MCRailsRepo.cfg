CONSTANTS
  Tasks = {t1, t2}
  ShortIds = {i1, i2}
  NoTask = NoTask
  NoId = NoId
  NoFile = NoFile
  Heritages <- MCHeritages
  REQUIRED_ENV_KEYS <- Keys
  TriageKeys <- MCTriageKeys
  EnvFiles <- UpToTwoLines
SYMMETRY Symmetry
SPECIFICATION Spec
INVARIANTS TypeOK WorkIsKept VerdictIsTheTrees JournalReadsBack DoctorIsHonest
