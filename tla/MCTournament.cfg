CONSTANTS
  a = a
  b = b
  c = c
  s1 = s1
  s2 = s2
  f1 = f1
  None = None
  Players = {a, b, c}
  Early = {b, c}
  Requests <- MCRequests
  Calls = {s1, s2}
  Finalizers = {f1}
  BuyIn = 3
  PerEntryRake = 1
  Guarantee = 0
  Funds = 6
  Ladder <- MCLadder
  SeatCap = 2
  MaxSeats = 3
  MaxSeatDifference = 0
  BreakTableAtOrBelow = 2
  SitsWhile = {"running"}
  MaxTables = 2
  MaxSits = 1
  MaxFaults = 1
SYMMETRY Alike
SPECIFICATION Spec
INVARIANTS
  TypeOK
  MoneyIsAccounted
  OneDirector
PROPERTIES
  StacksAreMovedWhole
CHECK_DEADLOCK FALSE
