SPECIFICATION ClientFairSpec
CONSTANTS
  Offers = {o1, o2}
  MaxOthers = 2
  ListenerCap = 2
CHECK_DEADLOCK FALSE
INVARIANTS
  ShownInOrder
PROPERTIES
  ConnectReturns
  AnswerArrives
