SPECIFICATION Spec
CONSTANTS
  m1 = m1  m2 = m2
  Machines <- MCMachines
  Payloads <- MCPayloads
  MaxParts = 4
  MaxScans = 4
INVARIANTS
  TypeOK
  OwnPayloadOrError
  IncompleteRefused
  UnevenNeverMixed
  CompleteDecodes
