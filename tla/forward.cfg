\* One relayed message and one of the broadcaster, over three connections,
\* with channels of one message so that the writers block.  The run ends
\* when the messages are used up, hence no deadlock check.
SPECIFICATION FairSpec
CONSTANTS
  Conns = {c1, c2, c3}
  NoConn = NoConn
  Relayed = {r1}
  Adverts = {a1}
  NoMsg = NoMsg
  SendChanSize = 1
  MaxTTL = 5
  TTLMod = 16
  ArrivingTTLs <- SomeTTLs
INVARIANTS OncePerConnection HopIsTurn
PROPERTIES AllServed
CHECK_DEADLOCK FALSE
