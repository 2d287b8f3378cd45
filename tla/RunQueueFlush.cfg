\* The destructor's thread flushes the queue while its owner pushes two items
\* and pops.
SPECIFICATION FlushSpec
CONSTANTS
  owner = owner
  flusher = flusher
  Remotes = {}
  Observers = {flusher}
  None = None
  kSize = 4
  Modulus = 512
  Prefill = {1}
  MaxWork = 3
CHECK_DEADLOCK FALSE
PROPERTY FlushEnds
