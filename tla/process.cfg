\* A behaviour ends when the process does, hence no deadlock check.
SPECIFICATION FairSpec
CONSTANTS
  Options <- SomeOptions
  Unset = Unset
  Junk = Junk
  Addrs = {a1, a2}
  NoAddr = NoAddr
  Foreign = Foreign
  ChanSize = 1
  SocketSize = 1
  MaxFaults = 2
 
PROPERTIES SignalEnds HearsClients
CHECK_DEADLOCK FALSE
