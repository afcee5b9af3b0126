SPECIFICATION Spec
CONSTANTS
  Requests = {r1, r2}
  Uploads = {u1, u2}
  Cancels = {c1}
  Files = {f1, f2}
  Ips = {i1, i2}
  Pins = {}
  NoPin = NoPin
  RequiredPin = NoPin
  CacheSize = 1
  None = None
  Pending = Pending
  Capacity = 1
  UnguardedDrops = TRUE
SYMMETRY Symmetry
CHECK_DEADLOCK FALSE
INVARIANTS
  PendingHasOneOwner
  TokenUsedOnce
  FileStatusMatchesUploads
  SessionEndReportedOnce
PROPERTIES
  SessionNeverReplaced
  ImplementsTransferSlot
