\* Timeouts, unreadable bodies, a client that changes, a channel of one that
\* the forwarder keeps full, and the signal at any moment.  The run ends after
\* the signal, hence no deadlock check.
SPECIFICATION FollowSpec
CONSTANTS
  Workers = {w1, w2}
  QueueSize = 1
  MayInterrupt = TRUE
INVARIANTS NoLeftovers OnlyBodiesGetLost
PROPERTIES FollowsClient WorkersExit CheckerExits
CHECK_DEADLOCK FALSE
