SPECIFICATION FairSpec
CONSTANTS
  Requests = {r1, r2}
  Uploads = {u1}
  Cancels = {c1}
  Files = {f1}
  Ips = {i1}
  Pins = {good}
  NoPin = NoPin
  RequiredPin = good
  CacheSize = 1
  None = None
  Pending = Pending
  Capacity = 1
  UnguardedDrops = FALSE
CHECK_DEADLOCK FALSE
PROPERTIES
  ClaimReleased
  UploadsEnd
  SessionEndDelivered
