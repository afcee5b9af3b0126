SPECIFICATION FairSpec
CONSTANTS
  Calls = {c1, c2}
  Devices = {d1, d2}
  Me = me
  Files = {f1}
  None = None
  RsaKeys = {}
  NoKey = NoKey
  Capacity = 1
  V2On = TRUE
  ShowOn = TRUE
  WebOn = FALSE
CHECK_DEADLOCK FALSE
INVARIANTS
  RefusedMeansNoSession
  AnsweredMeansDelivered
PROPERTIES
  CallsReturn
