\* Three workers with room for one task each.
SPECIFICATION Spec
CONSTANTS
  c1 = c1
  c2 = c2
  Callers = {c1, c2}
  Workers = {w1, w2, w3}
  kSize = 1
  Scenarios <- MCScenarios
INVARIANTS EachOnce ParentWaits WaitsForWork
PROPERTIES Completes
