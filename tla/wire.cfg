\* The timeouts of configs/net.go in units of about 2.5 s, rounded so that
\* their order stays: a beat, a write and a stall together are shorter than
\* the read timeout.  Each end has the key or none.  A behaviour ends when the
\* receiver closes the connection, hence no deadlock check.
SPECIFICATION WireFairSpec
CONSTANTS
  MaxMsgs = 2
  Garbage = Garbage
  SendKeys = {k1}
  RecvKeys = {k1}
  NoKey = NoKey
  BufferSize = 2
  ReceiveChanSize = 1
  ReadTimeout = 6
  BeatInterval = 3
  WriteTimeout = 1
  MaxStall = 1
INVARIANTS InOrder HealthyStaysUp
PROPERTIES TornEnds WholeArrives
CHECK_DEADLOCK FALSE
