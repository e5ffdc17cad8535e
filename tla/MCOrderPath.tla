---------------------------- MODULE MCOrderPath ----------------------------
(***************************************************************************)
(* Small instances of OrderPath for TLC.  Two approvals are enough: every   *)
(* hazard of the module is about one order or about two approvals of the    *)
(* same proposal.                                                          *)
(***************************************************************************)
EXTENDS OrderPath, TLC

CONSTANTS a1, a2, p1

\* Two approvals of one proposal: the owner grants it a second time.
SameProposal == [a \in Approval |-> p1]

\* Two unrelated proposals, handled in the same pass, each named by its approval.
OwnProposal == [a \in Approval |-> a]

\* Both maps are the same after the approvals change places, and so is Sound
\* where it holds both or neither.
Swap == Permutations({a1, a2})

=============================================================================
