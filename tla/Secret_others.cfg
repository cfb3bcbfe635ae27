SPECIFICATION Spec
CONSTANTS
  a = a
  b = b
  c = c
  c1 = c1
  c2 = c2
  s1 = s1
  k1 = k1
  k2 = k2
  k3 = k3
  Requests = {a, b, c}
  Replicas = {c1, c2}
  Names = {s1}
  Keys = {k1, k2, k3}
  Handler <- MCHandler
  Plan <- MCPlan
  InjectAll <- MCInjectAll
  ModesOf <- MCModesOf
  FailOnError <- MCFailOnError
  OwnersOf <- MCOwnersOf
  MaxDeletes = 0
  MaxErrors = 0
  Absent = Absent
CHECK_DEADLOCK FALSE
INVARIANT ToleratesOthers
