CONSTANTS
  Tokens <- MCTokens
  Words <- MCWords
  Upper <- MCUpper
  Lower <- MCLower
  Requests = {q1, q2}
  Workloads <- All
  Apps = {"app", "web"}
  FieldsOf <- MCFieldsOf
SPECIFICATION Spec
INVARIANTS TypeOK EnvComplete PodsAlike WrittenAsMeant AdmittedRuns
CHECK_DEADLOCK FALSE
