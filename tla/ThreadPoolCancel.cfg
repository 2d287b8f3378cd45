\* What the comment in Cancel says of the threads without work.
SPECIFICATION FairSpec
CONSTANTS
  w1 = w1
  w2 = w2
  w3 = w3
  Waiters = {w1, w2}
  main = main
  t1 = t1
  t2 = t2
  t3 = t3
  Tasks = {t1, t2, t3}
  Scenarios <- Hang
CHECK_DEADLOCK FALSE
PROPERTIES CancelReleases
