SPECIFICATION FairSpec
CONSTANTS
  o1 = o1
  o2 = o2
  c1 = c1
  c2 = c2
  Order = {o1, o2}
  Account = {c1, c2}
  AccountOf <- EachItsOwn
  Listed <- FirstFilters
  Limit = 1
  FaultKinds = {"append", "anchor", "watermark", "garbled"}
  MaxFaults = 1
  MaxCrashes = 1
INVARIANTS JournalHoldsNews NothingSkipped
PROPERTIES NewReachesPlatform NothingStranded
