SPECIFICATION Spec
CONSTANTS
  f1 = f1
  f2 = f2
  Files = {f1, f2}
  Lengths = {0, 1, 2}
  SectorBlocks = 2
  Reserved = 3
  MbrMax = 19
  Volumes = {4}
  ArrayLengths = {0, 1, 2, 4}
  Slacks = {0, 2, 4}
  Payloads = {0, 3}
CHECK_DEADLOCK FALSE
INVARIANTS
  TypeOK
  GrownConsistently
  AddedKept
  OriginalKept
  ValidatedAgree
  NoStaleBackup
