SPECIFICATION FairSpec
CONSTANTS
  eth0 = eth0  eth1 = eth1
  tor1 = tor1  tor2 = tor2
  nobody = nobody
  Interfaces <- MCInterfaces
  Switches <- MCSwitches
  Nothing = nobody
  Callers = {"run", "library"}
  Wait = 2
  TicksPerMicro = 2
  MaxClock = 3
  MaxFrames = 1
CHECK_DEADLOCK FALSE
INVARIANTS
  TypeOK
  WrongOnlyBeforeBind
  OneWriter
  EveryAnswerReported
PROPERTY
  ResultIsFinal
  ReturnsUnlessCutShort
