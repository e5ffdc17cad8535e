---------------------------- MODULE ExitPromise ----------------------------
(***************************************************************************)
(* What the brake promises about a supervised position, without ledger,     *)
(* loops or crashes: writing a position's record gives at most one permit   *)
(* to exit it, a blocked position gets none, an exit uses a permit up, and  *)
(* a permit can be withdrawn but never comes back by itself.                *)
(***************************************************************************)
EXTENDS Naturals

CONSTANTS Position, Blocked

VARIABLES
  permits,    \* exits that may still happen, per position
  exits,      \* exits the broker accepted, per position
  records     \* how often each position was recorded

vars == <<permits, exits, records>>

Init ==
  /\ permits = [p \in Position |-> 0]
  /\ exits = [p \in Position |-> 0]
  /\ records = [p \in Position |-> 0]

\* A position is recorded; the other records may be lost over it.
Record(p) ==
  /\ records' = [records EXCEPT ![p] = @ + 1]
  /\ permits'[p] <= IF p \in Blocked THEN 0 ELSE permits[p] + 1
  /\ \A q \in Position \ {p} : permits'[q] <= permits[q]
  /\ exits' = exits

\* Releases, failed calls, restarts and lost ledgers only take permits away.
Withdraw ==
  /\ \A q \in Position : permits'[q] <= permits[q]
  /\ UNCHANGED <<exits, records>>

\* The broker takes an exit.
Exit(p) ==
  /\ permits[p] > 0
  /\ exits' = [exits EXCEPT ![p] = @ + 1]
  /\ permits'[p] = permits[p] - 1
  /\ \A q \in Position \ {p} : permits'[q] <= permits[q]
  /\ records' = records

Next == Withdraw \/ \E p \in Position : Record(p) \/ Exit(p)

Spec == Init /\ [][Next]_vars

=============================================================================
