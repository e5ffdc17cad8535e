--------------------------- MODULE MCSignalStream ---------------------------
(***************************************************************************)
(* Two processes that take turns on one root.  A gap of three or four does  *)
(* not fit the buffer of two, and is longer than the catch-up's requests.   *)
(***************************************************************************)
EXTENDS SignalStream

CONSTANTS l1, l2

=============================================================================
