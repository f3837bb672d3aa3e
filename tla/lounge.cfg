\* Expiry, eviction and a full channel all happen; admissions may share a
\* timestamp, and the reader may be late or not.
SPECIFICATION FairSpec
CONSTANTS
  Ids = {a, b, c, d}
  MaxEntries = 3
  LoungeSize = 2
  CacheLifetime = 1
  ClockStep = 0
  MaxClock = 3
INVARIANTS CacheConsistent
PROPERTIES ForgettingIsOrdered ExpiredIdsAreDropped CloseEndsCleaner ForwardsOnce
PROPERTIES PendingOnce
