SPECIFICATION HttpFairSpec
CONSTANTS
  c1 = c1
  s1 = s1
  Clients = {c1}
  Accepted = {s1}
  Peer <- MCPeer
  Programs <- MCPrograms
INVARIANTS HttpTypeOK ExchangeSafe
PROPERTY ExchangeEnds
CHECK_DEADLOCK FALSE
