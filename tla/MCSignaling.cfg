SPECIFICATION FairSpec
CONSTANTS
  Peers = {p1, p2, p3}
  Infos = {i1, i2}
  MAX_CONNECTIONS = 3
  MAX_REQUESTS = 1
  Capacity = 2
  Hours = 2
CHECK_DEADLOCK FALSE
INVARIANTS
  MembersKnown
  GhostsOnlyFromRaces
  InfoCurrent
PROPERTY GreetedUnlessOverrun
