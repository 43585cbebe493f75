SPECIFICATION Spec
CONSTANTS
  NicNames <- MCNicNames
  DiskNames <- MCDiskNames
  Virtual = {"veth0"}
  Skipped = {"sr0"}
  NvmeNames = {"nvme0n1"}
  Devices <- MCDevices
  Local <- MCLocal
  AtStart <- MCAtStart
  Boards <- MCBoards
  Hypervisors <- MCHypervisors
  Settings <- MCSettings
  Failures <- MCFailures
  Neighbours <- MCNeighbours
  Placeholders <- MCPlaceholders
  MaxChanges = 2
INVARIANTS
  UntouchedAsItIs
  NoStrangers
  DecodedIsCollected
CHECK_DEADLOCK FALSE
