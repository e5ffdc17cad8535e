SPECIFICATION Spec
CONSTANTS
  s1 = s1
  p1 = p1
  p2 = p2
  NoPosition = NoPosition
  Position = {p1}
  Blocked = {}
  Symbol = {s1}
  SymbolOf <- OneSymbol
  EntryQty <- Twos
  FirstCeilings = {2}
  MaxHeld = 0
  MaxTrades = 0
  MaxRestarts = 0
  MaxFaults = 0
INVARIANT FiredMeansExited
