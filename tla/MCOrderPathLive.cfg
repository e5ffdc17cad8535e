SPECIFICATION FairSpec
CONSTANTS
  a1 = a1
  a2 = a2
  p1 = p1
  NoApproval = NoApproval
  Approval = {a1, a2}
  Proposal = {a1, a2}
  ProposalOf <- OwnProposal
  Sound = {a1}
  MaxCrashes = 0
  MaxFileFails = 0
PROPERTIES AdoptedIsResolved FillIsReconciled
