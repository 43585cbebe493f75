SPECIFICATION FairSpec
CONSTANTS
  eth0 = eth0  eth1 = eth1
  tor1 = tor1  tor2 = tor2
  nobody = nobody
  Interfaces <- MCInterfaces
  Switches <- MCSwitches
  Nothing = nobody
  Callers = {"library"}
  Wait = 2
  TicksPerMicro = 2
  MaxClock = 3
  MaxFrames = 0
CHECK_DEADLOCK FALSE
PROPERTY
  Returns
