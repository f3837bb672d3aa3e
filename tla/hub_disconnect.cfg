\* tcp_core.go:287 and README.md:242: the node survives a disconnection.
SPECIFICATION Spec
CONSTANTS
  d1 = d1
  d2 = d2
  i1 = i1
  i2 = i2
  peerAddr = peerAddr
  clientAddr = clientAddr
  Conns = {d1, d2, i1}
  Dialed = {d1, d2}
  Addrs = {peerAddr, clientAddr}
  AddrOf <- AddrOfAll
  NoConn = NoConn
  Writers = {w}
  MaxConns = 2
  SendChanSize = 1
  InboxSize = 1
  MaxRetries = 1
  RetryBound = 2
  MayInterrupt = TRUE
INVARIANTS SurvivesDisconnect
CHECK_DEADLOCK FALSE
