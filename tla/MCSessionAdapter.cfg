CONSTANTS
  Engines <- AllEngines
  Said <- VerdictsOnly
  MaxLines = 2
  PipeCap = 1
SPECIFICATION ReviewSpec
INVARIANTS
  TypeOK
  
  GoodRunIsGood
  ApprovalIsTheLastWord
PROPERTIES
  ReviewAnswers
