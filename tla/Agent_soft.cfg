SPECIFICATION FairSpec
CONSTANTS
  Records = {"db", "tls"}
  Paths = {"p1", "p2"}
  NumSecrets = 1
  NumJobs = 2
  Name <- OneName
  Path <- OnePath
  FolderFiles <- FolderOther
  MaxAttempts = 2
  MaxAge = 0
  FailOnError = FALSE
  InitOnly = FALSE
  MaxVersion = 2
  MaxFaults = 1
  Absent = Absent
  Partial = Partial
INVARIANT TypeOK
PROPERTIES FilesPromise FreshOrStranded PodStarts
