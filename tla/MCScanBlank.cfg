SPECIFICATION Spec
CONSTANTS
  m1 = m1  m2 = m2
  Machines <- MCMachines
  Payloads <- PlainOnly
  MaxParts = 2
  MaxScans = 2
INVARIANTS
  BlanksSurvive
