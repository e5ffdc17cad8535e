-------------------------- MODULE MCApprovalQueue --------------------------
(***************************************************************************)
(* One approval, asked for here or by an edge, of either queue: two threads, *)
(* one write that fails and two deaths.  Threads are interchangeable.       *)
(***************************************************************************)
EXTENDS ApprovalQueue, TLC

CONSTANTS a1, t1, t2

Threads == Permutations(Thread)

=============================================================================
