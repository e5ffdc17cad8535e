SPECIFICATION Spec
CONSTANTS
  a1 = a1
  a2 = a2
  p1 = p1
  NoApproval = NoApproval
  Approval = {a1, a2}
  Proposal = {p1}
  ProposalOf <- SameProposal
  Sound = {a1, a2}
  MaxCrashes = 1
  MaxFileFails = 1
INVARIANTS LedgerSound AtMostOnceUnlessInterrupted RefusalIsHonestUnlessInterrupted
PROPERTIES KeepsPromise
SYMMETRY Swap
