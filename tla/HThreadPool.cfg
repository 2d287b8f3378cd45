\* Two threads that commit a task each or one that commits both, a pool of at least none, one
\* or two and at most two threads (and one more, see ThreadBound) that is paused and resumed at
\* will, and stopped or waited for twice in all.
SPECIFICATION Spec
CONSTANTS
  Owner = owner
  Committers = {c1, c2}
  Threads = {1, 2, 3, 4, 5}
  MinSizes = {0, 1, 2}
  MaxSizes = {2}
  Tasks = {1, 2}
  MaxCalls = 2
INVARIANTS CountersExact ThreadBound WaitHonest
PROPERTIES TasksRun StopReturns
\* With min_thread_num 0 a pool that nobody calls any more has no threads and stands still.
CHECK_DEADLOCK FALSE
