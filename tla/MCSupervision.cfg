SPECIFICATION Spec
CONSTANTS
  s1 = s1
  p1 = p1
  p2 = p2
  NoPosition = NoPosition
  Position = {p1, p2}
  Blocked = {p2}
  Symbol = {s1}
  SymbolOf <- OneSymbol
  EntryQty <- Twos
  FirstCeilings = {2}
  MaxHeld = 0
  MaxTrades = 0
  MaxRestarts = 1
  MaxFaults = 1
INVARIANTS ExitPerRecord BlockedNeverSold ExitWithinEntry ClosedCarriesNoRisk
PROPERTIES ClosedStaysClosed KeepsExitPromise
