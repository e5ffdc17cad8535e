----------------------------- MODULE MCDaemon -----------------------------
(***************************************************************************)
(* Three processes and two overlapping `restart` commands of one edge root, *)
(* the default port and one other, and a pidfile that may once not be       *)
(* writable.  Processes are alike, and so are commands.                     *)
(***************************************************************************)
EXTENDS Daemon, TLC

CONSTANTS p1, p2, p3, r1, r2

MCPid == {p1, p2, p3}
MCCommand == {r1, r2}
MCPort == {8330, 9000}
MCSymmetry == Permutations(MCPid) \cup Permutations(MCCommand)
============================================================================
