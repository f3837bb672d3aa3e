\* main.go:283: all goroutines can exit after the signal.  The forwarder is
\* enough to stop them.
SPECIFICATION ExitSpec
CONSTANTS
  Ports = {p1, p2}
  Readers = {"forwarder"}
  Quitters = {"forwarder"}
  Adders = {"main"}
  Nobody = Nobody
  Lifetime = 1
  ChanSize = 1
  MaxSends = 1
  MaxClock = 0
  MayInterrupt = TRUE
PROPERTIES CleanupEnds
CHECK_DEADLOCK FALSE
