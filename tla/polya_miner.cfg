SPECIFICATION FairSpec
CONSTANTS
  N = 2
  NProbs = 3
  Kind = "miner"
  Hopeless <- SecondInVain
  RealTime = TRUE
  JobControl = TRUE
  Base = 3
  NonceSize = 3
INVARIANTS TypeOK StatusSound NobodyKilled
PROPERTIES AnswersCount MasterReturns WorkersEnd
