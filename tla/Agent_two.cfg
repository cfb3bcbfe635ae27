SPECIFICATION Spec
CONSTANTS
  Records = {"db", "tls"}
  Paths = {"p1", "p2"}
  NumSecrets = 2
  NumJobs = 2
  Name <- TwoNames
  Path <- TwoPaths
  FolderFiles <- NoFolder
  MaxAttempts = 2
  MaxAge = 1
  FailOnError = TRUE
  InitOnly = FALSE
  MaxVersion = 2
  MaxFaults = 1
  Absent = Absent
  Partial = Partial
INVARIANTS Inductive AppStartsWithSecrets OwnContent ReportedIsWritten
PROPERTIES SurvivesRefreshErrors FilesPromise
