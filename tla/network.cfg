\* Rings, parallel connections and lines, with and without faults.  A
\* behaviour ends when nothing travels any more, hence no deadlock check.
SPECIFICATION FairSpec
CONSTANTS
  a = a
  b = b
  c = c
  ab = ab
  ba = ba
  bc = bc
  ca = ca
  m1 = m1
  m2 = m2
  m3 = m3
  Nodes = {a, b, c}
  Links = {ab, ba, bc, ca}
  NoLink = NoLink
  Dialer <- DialedBy
  Acceptor <- AcceptedBy
  Msgs = {m1, m2, m3}
  Origin <- OriginOf
  Periodic = {m2, m3}
  Private = {m1, m2}
  LoungeSize = 2
  TTLMod = 16
  CountBound = 3
  Instances <- SomeNetworks
INVARIANTS CrossesOnce ToldOnce NobodyMissed
PROPERTIES Quiesces Converges
CHECK_DEADLOCK FALSE
