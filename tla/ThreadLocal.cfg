\* More threads than slots and every hash: collisions, the race for the last
\* record, the map.
SPECIFICATION FairSpec
CONSTANTS
  Threads = {t1, t2, t3}
  capacity_ = 2
  Null = Null
  MaxCalls = 2
INVARIANTS OneEach RoomLeft AllVisited
PROPERTIES Returns
