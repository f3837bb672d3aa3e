\* A client that comes back from the same port, and unlimited retries; what is
\* to happen must happen without the help of the signal.
SPECIFICATION FairSpec
CONSTANTS
  d1 = d1
  d2 = d2
  i1 = i1
  i2 = i2
  peerAddr = peerAddr
  clientAddr = clientAddr
  Conns = {d1, i1, i2}
  Dialed = {d1}
  Addrs = {peerAddr, clientAddr}
  AddrOf <- AddrOfAll
  NoConn = NoConn
  Writers = {w}
  MaxConns = 2
  SendChanSize = 1
  InboxSize = 1
  MaxRetries <- Unlimited
  RetryBound = 1
  MayInterrupt = FALSE
PROPERTIES BrokenIsReaped WritersProgress
CHECK_DEADLOCK FALSE
