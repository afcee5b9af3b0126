SPECIFICATION FairSpec
CONSTANTS
  Files = {f1, f2}
  Size = 1
  MaxChunks = 2
  Pins = {p1, p2}
  Configs = {p1, NoPin, EmptyPin}
  EmptyPin = EmptyPin
  NoPin = NoPin
  MaxTries = 2
  None = None
  RsaKeys = {}
  NoKey = NoKey
CHECK_DEADLOCK FALSE
INVARIANTS
  FilesOnlyAfterPins
  PeersInStep
  StatusOfItsFile
PROPERTY EndsUnlessLeftOpen
