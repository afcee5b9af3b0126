CONSTANTS
  x1 = x1
  x2 = x2
  x3 = x3
  x4 = x4
  c1 = c1
  c2 = c2
  c3 = c3
  ip1 = ip1
  ip2 = ip2
  Exchanges = {x1, x2, x3, x4}
  Clients = {c1, c2, c3}
  ClientOf <- MCClientOf
  IpOf <- MCIpOf
  Server = server
  Lengths = {15, 32}
  CacheSize = 2
  MaxRestarts = 1
  NoExchange = NoExchange
  RsaKeys = {}
  NoKey = NoKey
SPECIFICATION ExchangeSpec
INVARIANT PairsFromOneExchange
PROPERTY EndsAgree
CHECK_DEADLOCK FALSE
