--------------------------- MODULE MCConnection ---------------------------
(***************************************************************************)
(* Two callers and the closing of the hub share one connection, of which   *)
(* one more may be left behind at a time; and every setting of the gate    *)
(* that one tool and two accounts can tell apart.  Connection and gate share*)
(* no variable, so either is explored while the other is at rest.          *)
(***************************************************************************)
EXTENDS Connection, Gate

CONSTANTS c1, c2, closer, k1, k2, a1, a2, t1, t2

OneTool == {{}, {t1}}
Settings ==
  [enabled : BOOLEAN, deny_tools : OneTool, allow_tools : {{}, {t1}, {t2}},
   read_only_tools : OneTool, write_tools : OneTool, prefixed : OneTool,
   unknown_is_write : BOOLEAN, allow_writes : BOOLEAN, require_for : OneTool,
   allow : SUBSET {a1, a2}, read : SUBSET {a1, a2}, require_account_arg : BOOLEAN,
   broker : BOOLEAN]

ConnectionMoves == GateInit /\ Next /\ UNCHANGED spec
GateMoves ==
  /\ \A c \in Tasks : pc[c] = "idle"
  /\ \A k \in Conn : task[k] = "none"
  /\ (ReadSpec \/ CallOver) /\ UNCHANGED vars

MCInit == Init /\ GateInit
MCSpec ==
  /\ MCInit
  /\ [][ConnectionMoves \/ GateMoves]_<<vars, spec>>
  /\ Fairness
============================================================================
