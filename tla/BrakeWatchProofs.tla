------------------------- MODULE BrakeWatchProofs -------------------------
(***************************************************************************)
(* Proofs about BrakeWatch for any positions, prices, stops and bounds, and *)
(* about ExitOrder for any connector maps and orders.                       *)
(***************************************************************************)
EXTENDS BrakeWatch, ExitOrder, FiniteSetTheorems, TLAPS

(***************************************************************************)
(* The inductive invariant.                                                 *)
(***************************************************************************)

\* A quote under the stop that the tick has yet to judge.
Pending(p) == p \in todo /\ quote[p] # None /\ quote[p] <= Stop[p]

\* The run of a position whose market never was at its stop is made of bad prints,
\* the one in hand included.
RunIsLies ==
  \A p \in Position \ touched :
    run[p] <= lies /\ (Pending(p) => run[p] + 1 <= lies)

\* What fires was seen at its stop, or had a bad print for every confirmation.
FireInv ==
  pc = "firing" => firing \in Position /\ (firing \in touched \/ lies >= Confirmations)

IInv == TypeOK /\ RunIsLies /\ FireInv

----------------------------------------------------------------------------

\* The stop of a position and a price can be compared.
LEMMA Prices ==
  /\ \A p \in Position : Stop[p] \in Nat
  /\ \A x \in Observed : x # None => x \in Nat
  BY BrakeWatchAssumption DEF Observed

\* A quote that is not the market's is counted as a lie.
LEMMA LiesAreCounted ==
  ASSUME TypeOK, NEW told \in Told, QuotesArrive(told)
  PROVE  /\ lies' \in Nat /\ lies <= lies'
         /\ \A p \in asked : told[p] \notin {None, market[p]} => lies + 1 <= lies'
  <1> DEFINE L == {p \in asked : told[p] \notin {None, market[p]}}
  <1>1. IsFiniteSet(L)
    BY BrakeWatchAssumption, FS_Subset DEF TypeOK
  <1>2. Cardinality(L) \in Nat /\ (L # {} => Cardinality(L) # 0)
    BY <1>1, FS_CardinalityType, FS_EmptySet
  <1>3. lies' = lies + Cardinality(L)
    BY DEF QuotesArrive
  <1>4. lies \in Nat
    BY BrakeWatchAssumption DEF TypeOK
  <1>5. QED
    BY <1>2, <1>3, <1>4

(***************************************************************************)
(* The types.                                                               *)
(***************************************************************************)
LEMMA TypeStep ==
  ASSUME TypeOK, FireInv, [Next]_vars PROVE TypeOK'
  <1> USE BrakeWatchAssumption DEF TypeOK, Observed, Armed, Blank, Zero, memory, tick, said, bounds
  <1>1. CASE World
    BY <1>1 DEF World, MarketMoves, Supervise, Release, Disarm, Rearm
  <1>2. CASE Ask
    BY <1>2 DEF Ask
  <1>3. ASSUME NEW told \in Told, QuotesArrive(told) PROVE TypeOK'
    <2>1. quote' \in [Position -> Observed]
      BY <1>3 DEF QuotesArrive, Told
    <2>2. lies' \in 0 .. MaxLies
      BY <1>3, LiesAreCounted DEF QuotesArrive
    <2>3. QED
      BY <1>3, <2>1, <2>2 DEF QuotesArrive
  <1>5. ASSUME NEW p \in Position, Blind(p) PROVE TypeOK'
    BY <1>5 DEF Blind, Announced
  <1>6. ASSUME NEW p \in Position, AlarmFails(p) PROVE TypeOK'
    BY <1>6 DEF AlarmFails
  <1>7. ASSUME NEW p \in Position, Sighted(p) PROVE TypeOK'
    <2>1. run' \in [Position -> 0 .. Confirmations - 1]
      BY <1>7 DEF Sighted, Advanced
    <2>2. QED
      BY <1>7, <2>1 DEF Sighted
  <1>8. CASE Fire
    BY <1>8 DEF Fire, FireEnds, FireBreaks
  <1>9. CASE TickDone \/ Restart
    BY <1>9 DEF TickDone, Restart
  <1>10. CASE UNCHANGED vars
    BY <1>10 DEF vars
  <1>11. QED
    BY <1>1, <1>2, <1>3, <1>5, <1>6, <1>7, <1>8, <1>9, <1>10 DEF Next, Quotes, Judge

(***************************************************************************)
(* A run grows by one with every quote at the stop that is believed.        *)
(***************************************************************************)
LEMMA RunStep ==
  ASSUME IInv, [Next]_vars PROVE RunIsLies' /\ FireInv'
  <1> USE BrakeWatchAssumption, Prices DEF IInv, TypeOK, RunIsLies, FireInv, Pending, Armed,
          Blank, Zero, memory, tick, said, bounds
  <1>1. CASE World
    BY <1>1 DEF World, MarketMoves, Supervise, Release, Disarm, Rearm
  <1>2. CASE Ask
    BY <1>2 DEF Ask
  <1>3. ASSUME NEW told \in Told, QuotesArrive(told) PROVE RunIsLies' /\ FireInv'
    <2>1. ASSUME NEW p \in Position \ touched' PROVE RunIsLies!(p)'
      BY <1>3, <2>1, LiesAreCounted DEF QuotesArrive
    <2>2. FireInv'
      BY <1>3 DEF QuotesArrive
    <2>3. QED
      BY <2>1, <2>2
  <1>5. ASSUME NEW p \in Position, Blind(p) PROVE RunIsLies' /\ FireInv'
    BY <1>5 DEF Blind, Judging
  <1>6. ASSUME NEW p \in Position, AlarmFails(p) PROVE RunIsLies' /\ FireInv'
    BY <1>6 DEF AlarmFails
  <1>7. ASSUME NEW p \in Position, Sighted(p) PROVE RunIsLies' /\ FireInv'
    BY <1>7 DEF Sighted, Advanced, Judging, Usable
  <1>8. CASE Fire
    BY <1>8 DEF Fire, FireEnds, FireBreaks
  <1>9. CASE TickDone \/ Restart
    BY <1>9 DEF TickDone, Restart
  <1>10. CASE UNCHANGED vars
    BY <1>10 DEF vars
  <1>11. QED
    BY <1>1, <1>2, <1>3, <1>5, <1>6, <1>7, <1>8, <1>9, <1>10 DEF Next, Quotes, Judge

LEMMA InitInv == Init => IInv
  BY BrakeWatchAssumption DEF Init, IInv, TypeOK, RunIsLies, FireInv, Pending, Observed, Blank, Zero

----------------------------------------------------------------------------

(***************************************************************************)
(* The invariant holds however quotes, lies, switches, faults and restarts  *)
(* follow one another.                                                      *)
(***************************************************************************)
THEOREM Inductive == Spec => []IInv
  <1>1. Init => IInv
    BY InitInv
  <1>2. IInv /\ [Next]_vars => IInv'
    BY TypeStep, RunStep DEF IInv
  <1>3. QED
    BY <1>1, <1>2, PTL DEF Spec

(***************************************************************************)
(* Fewer bad prints than BREACH_CONFIRMATIONS start no exit.                *)
(***************************************************************************)
THEOREM LiesSellNothing == Spec => []FiresOnTrueTouch
  <1>1. IInv => FiresOnTrueTouch
    BY DEF IInv, FireInv, FiresOnTrueTouch
  <1>2. QED
    BY <1>1, Inductive, PTL

----------------------------------------------------------------------------
(* The orders.                                                              *)

\* A map that was read is one of the maps.
MapInv == map = NoMap \/ map \in Map

LEMMA MapRead == ExitOrderSpec => []MapInv
  <1>1. ExitOrderInit => MapInv
    BY DEF ExitOrderInit, MapInv
  <1>2. MapInv /\ [ReadMap]_map => MapInv'
    BY DEF MapInv, ReadMap
  <1>3. QED
    BY <1>1, <1>2, PTL DEF ExitOrderSpec

\* The first of the words is one of them.
LEMMA FirstWord ==
  ASSUME NEW s \in Seq(STRING), s # <<>> PROVE Head(s) \in Words(s)
  BY DEF Words

\* What is not refused is canonical and can be sent, and is sent field by field; an
\* order that can be sent is not refused.
LEMMA Resolved ==
  ASSUME NEW m, NEW order
  PROVE  /\ Resolve(m, order) # Refused =>
              /\ Canonical(order) /\ \A f \in DOMAIN order : Sendable(m, f, order[f])
              /\ Resolve(m, order) = [f \in DOMAIN order |-> Outbound(m, f, order[f])]
         /\ Canonical(order) /\ (\A f \in DOMAIN order : Sendable(m, f, order[f]))
              => Resolve(m, order) # Refused
  <1>1. DOMAIN Refused = {}
    BY DEF Refused
  <1>2. Canonical(order) => "symbol" \in DOMAIN order
    BY DEF Canonical, Field, Priced
  <1>3. [f \in DOMAIN order |-> Outbound(m, f, order[f])] = Refused => DOMAIN order = {}
    BY <1>1
  <1>4. QED
    BY <1>2, <1>3 DEF Resolve

\* The canonical exit of what was sent.
Exit(m, sent, qty) ==
  [f \in Field \ Priced |->
     CASE f = "side" -> Head(ClosingSide(m, sent.side))
       [] f = "order_type" -> "market"
       [] f = "quantity" -> qty
       [] OTHER -> sent[f]]

LEMMA ExitIs ==
  ASSUME NEW m, NEW sent, NEW qty
  PROVE  ExitOf(m, sent, qty) = IF Readable(sent) /\ ClosingSide(m, sent.side) # <<>>
                                  THEN Resolve(m, Exit(m, sent, qty)) ELSE Refused
  BY DEF ExitOf, Exit

(***************************************************************************)
(* Whether an exit can be sent depends on its quantity only in that it must *)
(* be a whole number of shares.                                             *)
(***************************************************************************)
THEOREM ExitOfAnyShares ==
  ASSUME NEW m, NEW sent, NEW held, NEW qty \in Int,
         ExitOf(m, sent, held) # Refused, qty > 0, qty % 2 = 0
  PROVE  ExitOf(m, sent, qty) # Refused
  <1> DEFINE old == Exit(m, sent, held)  new == Exit(m, sent, qty)
  <1>1. /\ Readable(sent) /\ ClosingSide(m, sent.side) # <<>>
        /\ Resolve(m, old) # Refused
    BY ExitIs
  <1>2. Canonical(old) /\ \A f \in DOMAIN old : Sendable(m, f, old[f])
    BY <1>1, Resolved
  <1>3. /\ DOMAIN new = DOMAIN old /\ DOMAIN new = Field \ Priced
        /\ \A f \in DOMAIN new : f # "quantity" => new[f] = old[f]
        /\ "quantity" \in DOMAIN new => new["quantity"] = qty
    BY DEF Exit
  <1>4. Canonical(new)
    BY <1>2, <1>3 DEF Canonical, Field, Priced
  <1>5. \A f \in DOMAIN new : Sendable(m, f, new[f])
    BY <1>2, <1>3 DEF Sendable, Whole
  <1>6. Resolve(m, new) # Refused
    BY <1>4, <1>5, Resolved
  <1>7. QED
    BY <1>1, <1>6, ExitIs

(***************************************************************************)
(* What was guarded with its whole entry stays guarded for what is left.    *)
(***************************************************************************)
THEOREM GuardHolds == ExitOrderSpec => []GuardedCanExit
  <1>1. MapInv => GuardedCanExit
    BY ExitOfAnyShares, MapAssumption DEF GuardedCanExit
  <1>2. QED
    BY <1>1, MapRead, PTL

(***************************************************************************)
(* The exit of an entry is its opposite, in the connector's own words.      *)
(***************************************************************************)
THEOREM ExitReduces == ExitOrderSpec => []ExitUndoesEntry
  <1>1. ASSUME NEW m \in Map, Distinct(m), NEW entry \in Entry, NEW qty \in Quantity,
               Resolve(m, entry) # Refused, ExitOf(m, Resolve(m, entry), qty) # Refused
        PROVE  LET sent == Resolve(m, entry)  exit == ExitOf(m, sent, qty)
                   other == IF entry.side = "buy" THEN "sell" ELSE "buy"
               IN /\ exit.side \in Words(m.side[other])
                  /\ exit.order_type \in Words(m.kind.market) /\ Priced \cap DOMAIN exit = {}
                  /\ exit.symbol = entry.symbol /\ exit.account = entry.account
                  /\ exit.quantity = qty
    <2> DEFINE sent  == Resolve(m, entry)
               exit  == ExitOf(m, sent, qty)
               other == IF entry.side = "buy" THEN "sell" ELSE "buy"
               draft == Exit(m, sent, qty)
    <2>1. /\ m.side \in [{"buy", "sell"} -> Seq(STRING)]
          /\ m.kind \in [{"limit", "market"} -> Seq(STRING)]
      BY MapAssumption DEF WellMapped
    <2>2. /\ entry.side \in {"buy", "sell"} /\ "side" \in DOMAIN entry
          /\ \A f \in {"symbol", "account"} : f \in DOMAIN entry
      BY DEF Entry
    <2>3. /\ \A f \in DOMAIN entry : Sendable(m, f, entry[f])
          /\ sent = [f \in DOMAIN entry |-> Outbound(m, f, entry[f])]
      BY <1>1, Resolved
    <2>4. /\ sent.side = Head(m.side[entry.side]) /\ m.side[entry.side] # <<>>
          /\ sent.symbol = entry.symbol /\ sent.account = entry.account
      <3>1. sent.side = Outbound(m, "side", entry["side"]) /\ Sendable(m, "side", entry["side"])
        BY <2>2, <2>3
      <3>2. sent.side = Head(m.side[entry.side]) /\ m.side[entry.side] # <<>>
        BY <3>1 DEF Sendable, Outbound, Spellings, Priced
      <3>3. /\ sent.symbol = Outbound(m, "symbol", entry["symbol"])
            /\ sent.account = Outbound(m, "account", entry["account"])
        BY <2>2, <2>3
      <3>4. QED
        BY <3>2, <3>3 DEF Outbound
    <2>5. ClosingSide(m, sent.side) = m.side[other]
      <3>1. sent.side \in Words(m.side[entry.side])
        BY <2>1, <2>2, <2>4, FirstWord
      <3>2. QED
        BY <1>1, <2>2, <3>1 DEF ClosingSide, Distinct
    <2>6. m.side[other] # <<>> /\ exit = Resolve(m, draft) /\ Resolve(m, draft) # Refused
      BY <1>1, <2>5, ExitIs
    <2>7. /\ Canonical(draft) /\ \A f \in DOMAIN draft : Sendable(m, f, draft[f])
          /\ exit = [f \in DOMAIN draft |-> Outbound(m, f, draft[f])]
      BY <2>6, Resolved
    <2>8. /\ DOMAIN draft = Field \ Priced
          /\ draft["side"] = Head(m.side[other]) /\ draft["order_type"] = "market"
          /\ draft["quantity"] = qty
          /\ draft["symbol"] = sent.symbol /\ draft["account"] = sent.account
      BY <2>5 DEF Exit, Field, Priced
    <2>9. Head(m.side[other]) = other
      <3>1. Head(m.side[other]) \in Words(m.side[other])
        BY <2>1, <2>2, <2>6, FirstWord
      <3>2. Head(m.side[other]) \in {"buy", "sell"}
        BY <2>7, <2>8 DEF Canonical
      <3>3. QED
        BY <1>1, <2>2, <3>1, <3>2 DEF Distinct
    <2>10. exit.side \in Words(m.side[other])
      <3>1. exit.side = Head(m.side[other])
        BY <2>7, <2>8, <2>9 DEF Outbound, Spellings, Field, Priced
      <3>2. QED
        BY <2>1, <2>2, <2>6, <3>1, FirstWord
    <2>11. exit.order_type \in Words(m.kind.market)
      <3>1. exit.order_type = Head(m.kind["market"])
        BY <2>7, <2>8 DEF Outbound, Spellings, Field, Priced
      <3>2. m.kind["market"] # <<>>
        BY <2>7, <2>8 DEF Sendable, Spellings, Field, Priced
      <3>3. QED
        BY <2>1, <3>1, <3>2, FirstWord
    <2>12. /\ DOMAIN exit = Field \ Priced /\ exit.symbol = entry.symbol
           /\ exit.account = entry.account /\ exit.quantity = qty
      BY <2>4, <2>7, <2>8 DEF Outbound, Field, Priced
    <2>13. QED
      BY <2>10, <2>11, <2>12
  <1>2. MapInv => ExitUndoesEntry
    BY <1>1 DEF MapInv, ExitUndoesEntry
  <1>3. QED
    BY <1>2, MapRead, PTL
=============================================================================
