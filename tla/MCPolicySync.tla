--------------------------- MODULE MCPolicySync ---------------------------
(***************************************************************************)
(* The daemon and one `sync` on the command line, three bundles of which    *)
(* the second is not readable, and one each of what can go wrong: a         *)
(* platform that goes back, a write that raises, a writer that is killed.   *)
(***************************************************************************)
EXTENDS PolicySync

CONSTANTS daemon, cli
============================================================================
