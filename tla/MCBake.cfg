SPECIFICATION Spec
CONSTANTS
  p1 = p1  p2 = p2
  a = a  b = b  c = c
  f = f  g = g
  coreos = coreos  near = near  bare = bare  plain = plain  junk = junk
  Earlier = Earlier  Nobody = Nobody  Torn = Torn
  NoInode = NoInode
  Isos <- MCIsos
  Parseable <- MCParseable
  CoreOS <- MCCoreOS
  WithKargs <- MCWithKargs
  Intact <- MCIntact
  Close <- MCClose
  Unfindable = {p2}
  NumAreas = 2
  Paths = {a, b, c}
  OldInodes = {f, g}
  Bakers = {p1, p2}
  Disks <- MCDisks
  Jobs <- JobsOfTwo
CHECK_DEADLOCK FALSE
INVARIANTS
  TypeOK
  PublishedIsBaked
  LauncherNeverDangles
  ErrorLeavesNoPatch
  VerifierAccepts
PROPERTIES
  OthersKept
  ForceNeeded
  ImplementsPromise
