SPECIFICATION Spec
CONSTANTS
  Requests = {r1, r2}
  Downloads = {d1}
  Files = {f1}
  None = None
  Size = 1
  Ips = {i1}
  Pins = {}
  NoPin = NoPin
  RequiredPin = NoPin
  CacheSize = 1
  Capacity = 1
  OnAndroid = TRUE
  UnguardedDrops = FALSE
CHECK_DEADLOCK FALSE
PROPERTY ListMeansSession
