SPECIFICATION Spec
CONSTANTS
  p1 = p1  p2 = p2
  a = a  b = b  c = c
  f = f  g = g
  coreos = coreos  near = near  bare = bare  plain = plain  junk = junk
  Earlier = Earlier  Nobody = Nobody  Torn = Torn
  NoInode = NoInode
  Isos <- MCIsos
  Parseable <- MCParseable
  CoreOS <- MCCoreOS
  WithKargs <- MCWithKargs
  Intact <- MCIntact
  Close <- MCClose
  Unfindable = {}
  NumAreas = 2
  Paths = {a, b, c}
  OldInodes = {f, g}
  Bakers = {p1}
  Disks <- MCDisks
  Jobs <- JobsApart
CHECK_DEADLOCK FALSE
INVARIANT ErrorLeavesNothing
