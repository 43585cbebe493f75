SPECIFICATION Spec
CONSTANTS
  Machines <- MCMachines
  Consoles <- MCConsoles
  Configs <- MCConfigs
  Capacity <- MCCapacity
  Tag = 12
  Quiet = 2
  Footer = 60
INVARIANTS
  TypeOK
  FitsUnlessSaid
  BestDrawn
PROPERTY EventuallyDrawn
CHECK_DEADLOCK FALSE
