SPECIFICATION FairSpec
CONSTANTS
  Entries = {a, b}
  InitialDelay = 1
  Period = 2
  FailureThreshold = 3
  MaxFetch = 7
  FailOnError = TRUE
INVARIANT Paced
  
