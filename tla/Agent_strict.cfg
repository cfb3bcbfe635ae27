SPECIFICATION FairSpec
CONSTANTS
  Records = {"db", "tls"}
  Paths = {"p1", "p2", "p3"}
  NumSecrets = 1
  NumJobs = 2
  Name <- OneName
  Path <- OnePath
  FolderFiles <- FolderTwo
  MaxAttempts = 2
  MaxAge = 0
  FailOnError = TRUE
  InitOnly = FALSE
  MaxVersion = 2
  MaxFaults = 0
  Absent = Absent
  Partial = Partial
PROPERTIES EventuallyFresh FilesPromise PodStarts
