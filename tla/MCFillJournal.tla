--------------------------- MODULE MCFillJournal ---------------------------
(***************************************************************************)
(* Two accounts with an order each, so that one can be anchored while the   *)
(* other is not.  The connector of the first declares its word for a filled *)
(* order, the second lists what it pleases: its order gives two rows.       *)
(***************************************************************************)
EXTENDS FillJournal

CONSTANTS o1, o2, c1, c2

EachItsOwn == [o \in Order |-> IF o = o1 THEN c1 ELSE c2]
FirstFilters == [a \in Account |-> IF a = c1 THEN {"filled"} ELSE {"working", "filled"}]

=============================================================================
