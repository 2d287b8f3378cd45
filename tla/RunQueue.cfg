\* The owner against two threads at the back, from a queue that is nearly full:
\* both ends meet, pushes fail, the indices wrap.
SPECIFICATION Spec
CONSTANTS
  owner = owner
  Remotes = {r1, r2}
  Observers = {r1, r2}
  None = None
  kSize = 4
  Modulus = 512
  Prefill = {3}
  MaxWork = 5
SYMMETRY Symmetry
INVARIANTS TypeOK Exclusive Conserved NothingToPop EmptyIsTrueInARound
PROPERTIES DequeSpec
