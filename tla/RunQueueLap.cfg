\* An Empty() during which the owner pops and the others push, all the way round.
SPECIFICATION LapSpec
CONSTANTS
  owner = owner
  Remotes = {r1}
  Observers = {o1}
  None = None
  kSize = 4
  Modulus = 512
  Prefill = {2}
  MaxWork = 10
INVARIANT EmptyIsTrue
