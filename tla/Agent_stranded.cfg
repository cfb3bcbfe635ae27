SPECIFICATION FairSpec
CONSTANTS
  Records = {"db"}
  Paths = {"p1"}
  NumSecrets = 1
  NumJobs = 1
  Name <- OneName
  Path <- OnePath
  FolderFiles <- NoFolder
  MaxAttempts = 2
  MaxAge = 0
  FailOnError = TRUE
  InitOnly = FALSE
  MaxVersion = 2
  MaxFaults = 1
  Absent = Absent
  Partial = Partial
PROPERTY EventuallyFresh
