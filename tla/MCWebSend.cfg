SPECIFICATION Spec
CONSTANTS
  Requests = {r1, r2}
  Downloads = {d1, d2}
  Files = {f1}
  None = None
  Size = 1
  Ips = {i1, i2}
  Pins = {good, bad}
  NoPin = NoPin
  RequiredPin = good
  CacheSize = 2
  Capacity = 1
  OnAndroid = TRUE
  UnguardedDrops = TRUE
SYMMETRY Symmetry
CHECK_DEADLOCK FALSE
INVARIANTS
  GuessesBounded
  OnlyAcceptedClientsDownload
  PendingHasRequest
  DownloadedWhole
