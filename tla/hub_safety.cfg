\* A peer that is dialed twice and one client; the hub has room for two, so
\* that it is full at times.  The process stops when it crashes and may stop
\* after the signal, hence no deadlock check here and in the other hub runs.
SPECIFICATION Spec
CONSTANTS
  d1 = d1
  d2 = d2
  i1 = i1
  i2 = i2
  peerAddr = peerAddr
  clientAddr = clientAddr
  Conns = {d1, d2, i1}
  Dialed = {d1, d2}
  Addrs = {peerAddr, clientAddr}
  AddrOf <- AddrOfAll
  NoConn = NoConn
  Writers = {w}
  MaxConns = 2
  SendChanSize = 1
  InboxSize = 1
  MaxRetries = 1
  RetryBound = 2
  MayInterrupt = TRUE
INVARIANTS HubMatchesReceivers RegisteredIsDrained
PROPERTIES PeerKeepsTrying
CHECK_DEADLOCK FALSE
