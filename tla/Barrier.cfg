SPECIFICATION FairSpec
CONSTANTS
  Notifiers = {n1, n2, n3, b}
  Waiters = {w1, w2, b}
INVARIANTS NotEarly NobodyStranded Destroyable
PROPERTIES Opens
