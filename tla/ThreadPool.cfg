\* Safety, liveness and the promise.  A cancelled pool really may hang, so the end of
\* a behaviour is the business of ComesDown.
SPECIFICATION FairSpec
CONSTANTS
  w1 = w1
  w2 = w2
  w3 = w3
  Waiters = {w1, w2, w3}
  main = main
  t1 = t1
  t2 = t2
  t3 = t3
  Tasks = {t1, t2, t3}
  Scenarios <- Pools
CHECK_DEADLOCK FALSE
INVARIANTS TypeOK CountersExact Conserved NoStall
PROPERTIES ComesDown PromiseSpec
