SPECIFICATION FairSpec
CONSTANTS
  N = 2
  NProbs = 1
  Kind = "miner"
  Hopeless = {}
  RealTime = TRUE
  JobControl = FALSE
  Base = 3
  NonceSize = 3
PROPERTIES WorkersEnd
