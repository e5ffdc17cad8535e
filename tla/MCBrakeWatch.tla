---------------------------- MODULE MCBrakeWatch ----------------------------
(***************************************************************************)
(* A stop at 9 and a market that touches it at 8 and gaps under it at 5; a *)
(* bad print is as low as the gap or a little under the stop.  Positions   *)
(* meet only in that a tick which breaks off is over for all of them.      *)
(* Connector maps: each side spelled in one or two ways, or in none, with  *)
(* the canonical word first, last or nowhere.  Watch and map share no      *)
(* variable, so either is explored while the other is at rest.             *)
(***************************************************************************)
EXTENDS BrakeWatch, ExitOrder

CONSTANTS p1, aapl, msft, cash, margin

Nine == [p \in Position |-> 9]

Strings == [f \in Field |-> "string"]
Maps ==
  [side : [buy  : {<<>>, <<"buy">>, <<"buy", "b">>, <<"b", "buy">>, <<"b">>},
           sell : {<<>>, <<"sell">>, <<"sell", "s">>, <<"s", "sell">>, <<"s">>, <<"b">>}],
   kind : [limit : {<<"l">>}, market : {<<>>, <<"m">>}],
   type : {Strings, [Strings EXCEPT !["account"] = "number"],
           [Strings EXCEPT !["quantity"] = "number"]}]

WatchMoves == ExitOrderInit /\ Next /\ UNCHANGED map
MapMoves ==
  /\ pc = "idle" /\ off = {} /\ restarts = 0 /\ \A p \in Position : record[p] = "absent"
  /\ ReadMap /\ UNCHANGED vars

MCInit == Init /\ ExitOrderInit
MCSpec ==
  /\ MCInit
  /\ [][WatchMoves \/ MapMoves]_<<vars, map>>
  /\ Fairness

=============================================================================
