--------------------------- MODULE MCSupervision ---------------------------
(***************************************************************************)
(* Small instances of Supervision for TLC: all positions are of one symbol, *)
(* where they can take from each other, and each entry bought 2.            *)
(***************************************************************************)
EXTENDS Supervision

CONSTANTS s1, p1, p2

OneSymbol == [p \in Position |-> s1]
Twos == [p \in Position |-> 2]

=============================================================================
