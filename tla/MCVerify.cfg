SPECIFICATION Spec
CONSTANTS
  Sector = 4
  Walk = 4
  MagicByte = 81
  VersionByte = 1
  GzipByte = 31
  LabelByte = 7
  NL = 10
  SP = 32
  Chunk = 8
  Near = 2
  MaxDamage = 1
  Damaging = {0, 9}
  Originals <- MCOriginals
  Payloads <- MCPayloads
  Extras <- MCExtras
INVARIANTS
  TypeOK
  AcceptedIsUntouched
  TrailerReadBack
  ArgsAppended
  UndamagedAccepted
CHECK_DEADLOCK FALSE
