----------------------------- MODULE ExitOrder -----------------------------
(***************************************************************************)
(* How an order is put in a broker's words (capability.resolve), and how   *)
(* the exit of a position is derived from the order that opened it         *)
(* (warrant.exit_order_args).  Pure functions of the connector's map, which*)
(* the executor and the brake read from the registry when they need it.    *)
(*                                                                         *)
(* A registry that parses maps every order field to a key of its own, so an*)
(* order is written over the canonical fields.  Words stand for themselves *)
(* up to case, and quantities are in halves of a share.                    *)
(***************************************************************************)
EXTENDS Integers, Sequences

CONSTANTS
  Map,      \* connector maps for place_order, as declared by registries
  Symbol,
  Account,
  Quantity, \* bound: what is asked for, in halves of a share
  Level,    \* bound: limit and stop prices
  NoMap

VARIABLE map  \* the connector's, NoMap before it is read

ExitOrderInit == map = NoMap
ReadMap == map = NoMap /\ map' \in Map

Field == {"symbol", "side", "order_type", "quantity", "limit_price", "stop_price",
          "time_in_force", "account"}
Priced == {"limit_price", "stop_price"}
Words(s) == {s[i] : i \in 1..Len(s)}

\* CapabilityError: nothing to send.
Refused == [f \in {} |-> f]

\* The validators of place_order: a map spells each side and each order type in any
\* number of ways, the first of which is sent, and sends each field as a string or
\* as a number.
WellMapped(m) ==
  /\ m.side \in [{"buy", "sell"} -> Seq(STRING)]
  /\ m.kind \in [{"limit", "market"} -> Seq(STRING)]
  /\ m.type \in [Field -> {"string", "number"}]

ASSUME MapAssumption ==
  /\ \A m \in Map : WellMapped(m)
  /\ Quantity \subseteq Int /\ Level \subseteq Int

ExitOrderSpec == ExitOrderInit /\ [][ReadMap]_map

\* _normalize_order_args and the required fields of a canonical order.
Canonical(order) ==
  /\ order.side \in {"buy", "sell"} /\ order.order_type \in {"limit", "market"}
  /\ Field \ Priced \subseteq DOMAIN order
  /\ IF order.order_type = "limit" THEN Priced \subseteq DOMAIN order
                                   ELSE Priced \cap DOMAIN order = {}

\* Mutant of Whole: a single share is no order.
MoreThanOne(qty) == qty > 2 /\ qty % 2 = 0

Whole(qty) == qty > 0 /\ qty % 2 = 0

\* _outbound_enum: the map's spellings of a canonical value.
Spellings(m, f, v) == IF f = "side" THEN m.side[v] ELSE m.kind[v]

\* _outbound_value: what can be sent as which type.
Sendable(m, f, v) ==
  CASE f \in {"side", "order_type"} -> Spellings(m, f, v) # <<>> /\ m.type[f] = "string"
    [] f = "quantity" -> Whole(v)
    [] f \in Priced -> v > 0
    [] OTHER -> m.type[f] = "string"

Outbound(m, f, v) == IF f \in {"side", "order_type"} THEN Head(Spellings(m, f, v)) ELSE v

Resolve(m, order) ==
  IF Canonical(order) /\ \A f \in DOMAIN order : Sendable(m, f, order[f])
    THEN [f \in DOMAIN order |-> Outbound(m, f, order[f])]
    ELSE Refused

\* Mutant of ClosingSide: the side the position was opened on.
OpeningSide(m, word) ==
  CASE word \in Words(m.side.buy) -> m.side.buy
    [] word \in Words(m.side.sell) -> m.side.sell
    [] OTHER -> <<>>

\* closing_side: the spellings of the side that reduces the position.
ClosingSide(m, word) ==
  CASE word \in Words(m.side.buy) -> m.side.sell
    [] word \in Words(m.side.sell) -> m.side.buy
    [] OTHER -> <<>>

\* read_entry: an order without a stop cannot be supervised.
Readable(sent) == {"symbol", "side", "quantity"} \cup Priced \subseteq DOMAIN sent

\* exit_order_args: the first spelling of the closing side is put through Resolve a
\* second time, as if it were canonical.
ExitOf(m, sent, qty) ==
  LET words == ClosingSide(m, sent.side)
      exit  == [f \in Field \ Priced |->
                  CASE f = "side" -> Head(words)
                    [] f = "order_type" -> "market"
                    [] f = "quantity" -> qty
                    [] OTHER -> sent[f]]
  IN IF Readable(sent) /\ words # <<>> THEN Resolve(m, exit) ELSE Refused

----------------------------------------------------------------------------
(* Properties.                                                             *)

Entry == [symbol : Symbol, side : {"buy", "sell"}, order_type : {"limit"},
          quantity : Quantity, limit_price : Level, stop_price : Level,
          time_in_force : {"day"}, account : Account]

\* The map's spellings of the two sides are told apart, and neither is spelled with
\* the canonical word of the other: ExitOf resolves a spelling as if it were one.
Distinct(m) ==
  /\ Words(m.side.buy) \cap Words(m.side.sell) = {}
  /\ "sell" \notin Words(m.side.buy) /\ "buy" \notin Words(m.side.sell)

\* What an exit says, read back in the connector's own words, is the opposite of
\* what the entry said of its side and the same of everything else, at the market
\* and for the quantity asked: it can only reduce the position it was derived from.
ExitUndoesEntry ==
  map # NoMap /\ Distinct(map) => \A entry \in Entry, qty \in Quantity :
    LET sent == Resolve(map, entry)  exit == ExitOf(map, sent, qty)
        other == IF entry.side = "buy" THEN "sell" ELSE "buy"
    IN sent # Refused /\ exit # Refused =>
         /\ exit.side \in Words(map.side[other])
         /\ exit.order_type \in Words(map.kind.market) /\ Priced \cap DOMAIN exit = {}
         /\ exit.symbol = entry.symbol /\ exit.account = entry.account
         /\ exit.quantity = qty

\* A position is recorded as guarded when an exit of its whole entry can be put in
\* the broker's words; then the exit of any whole number of shares can be, however
\* many of them are left when the stop is touched.
GuardedCanExit ==
  map # NoMap => \A entry \in Entry :
    LET sent == Resolve(map, entry)
    IN sent # Refused /\ ExitOf(map, sent, entry.quantity) # Refused =>
         \A qty \in Quantity : qty > 0 /\ qty % 2 = 0 => ExitOf(map, sent, qty) # Refused
============================================================================
