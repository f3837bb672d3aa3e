\* One client, whose lifetime passes, and both readers; the signal may come.
\* The run ends after the signal, hence no deadlock check.
SPECIFICATION FairSpec
CONSTANTS
  Ports = {p1}
  Readers = {"forwarder", "broadcaster"}
  Quitters = {"forwarder"}
  Adders = {"main"}
  Nobody = Nobody
  Lifetime = 1
  ChanSize = 1
  MaxSends = 1
  MaxClock = 2
  MayInterrupt = TRUE
INVARIANTS RoundIsSnapshot NothingAfterClose FreshIsKnown
PROPERTIES AddsGetThrough RoundsComplete ExpiredIsDropped
CHECK_DEADLOCK FALSE
