\* What test_parallelism says of idle threads.
SPECIFICATION Spec
CONSTANTS
  w1 = w1
  w2 = w2
  w3 = w3
  Waiters = {w1, w2, w3}
  main = main
  t1 = t1
  t2 = t2
  t3 = t3
  Tasks = {t1, t2, t3}
  Scenarios <- Parallel
SYMMETRY Symmetry
INVARIANTS NeverUnmatched
