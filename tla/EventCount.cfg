\* Two threads on each side; EpochMod above the number of pushes a notifier can
\* be overtaken by.
SPECIFICATION FairSpec
CONSTANTS
  Waiters = {w1, w2}
  Notifiers = {n1, n2}
  kStackMask = kStackMask
  EpochMod = 4
  MaxEvents = 2
INVARIANTS TypeOK CountersExact NoneStranded NoLostWakeup
PROPERTIES Released AtomicSpec
