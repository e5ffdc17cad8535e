---------------------------- MODULE OrderPromise ----------------------------
(***************************************************************************)
(* What an edge promises about granted proposals, without the machinery:    *)
(* no ledger, no intents, no passes.  Each proposal is carried out by at    *)
(* most one of its approvals, an approval is placed once, and a refusal     *)
(* told to the platform is final and true.  An approval that was broken     *)
(* (its submission was cut short before it could be recorded) is exempt     *)
(* from the last two, and from nothing else.                                *)
(***************************************************************************)
EXTENDS Naturals

CONSTANTS Approval, ProposalOf

VARIABLES
  placed,     \* how many orders the broker took, per approval
  verdicts,   \* what the platform was told, per approval
  broken      \* approvals whose submission was cut short

vars == <<placed, verdicts, broken>>

Init ==
  /\ placed = [a \in Approval |-> 0]
  /\ verdicts = [a \in Approval |-> {}]
  /\ broken = {}

\* The broker takes an order.
Place(a) ==
  /\ \A b \in Approval : placed[b] > 0 /\ ProposalOf[b] = ProposalOf[a] => b = a
  /\ a \in broken \/ (placed[a] = 0 /\ "refused" \notin verdicts[a])
  /\ placed' = [placed EXCEPT ![a] = @ + 1]
  /\ UNCHANGED <<verdicts, broken>>

\* The platform hears a verdict.
Tell(a, verdict) ==
  /\ verdict = "refused" => a \in broken \/ placed[a] = 0
  /\ verdicts' = [verdicts EXCEPT ![a] = @ \cup {verdict}]
  /\ UNCHANGED <<placed, broken>>

\* A submission is cut short before it is recorded.
Break(a) ==
  /\ broken' = broken \cup {a}
  /\ UNCHANGED <<placed, verdicts>>

Next ==
  \E a \in Approval :
    \/ Place(a) \/ Break(a)
    \/ \E verdict \in {"refused", "unknown", "executed"} : Tell(a, verdict)

Spec == Init /\ [][Next]_vars

=============================================================================
