SPECIFICATION Spec
CONSTANTS
  Records = {"db"}
  Paths = {"p1", "p2"}
  NumSecrets = 2
  NumJobs = 2
  Name <- SameName
  Path <- TwoPaths
  FolderFiles <- NoFolder
  MaxAttempts = 2
  MaxAge = 1
  FailOnError = TRUE
  InitOnly = FALSE
  MaxVersion = 1
  MaxFaults = 0
  Absent = Absent
  Partial = Partial
INVARIANT EachShowsItself
