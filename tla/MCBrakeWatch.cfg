SPECIFICATION MCSpec
CONSTANTS
  p1 = p1
  All = All
  None = None
  NoMap = NoMap
  Position = {p1}
  Price = {5, 8, 10}
  Lie = {5, 8}
  Stop <- Nine
  JumpPct = 20
  Confirmations = 2
  FamineTicks = 3
  MaxLies = 1
  MaxFaults = 1
  MaxRestarts = 1
  Quantity = {0, 1, 2, 3, 4, 6}
  Level = {0, 1}
  Symbol = {aapl, msft}
  Account = {cash, margin}
  Map <- Maps
  aapl = aapl
  msft = msft
  cash = cash
  margin = margin
INVARIANTS FiresOnTrueTouch ExitUndoesEntry GuardedCanExit
PROPERTIES BlindIsAnnounced StopIsActedOn
CHECK_DEADLOCK FALSE
