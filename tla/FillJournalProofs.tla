------------------------- MODULE FillJournalProofs -------------------------
(***************************************************************************)
(* Proofs about FillJournal for any orders, accounts, faults and crashes.   *)
(***************************************************************************)
EXTENDS FillJournal, SequenceTheorems, FiniteSetTheorems, TLAPS

(***************************************************************************)
(* The inductive invariant.                                                 *)
(***************************************************************************)

AccountIn(k) == AccountOf[k[1]]

\* The order of a row has the row's status, or has left it behind for good.
Passed(k)  == k[2] = "working" /\ order[k[1]] = "filled"
Reached(k) == order[k[1]] = k[2] \/ Passed(k)

\* What was answered was shown; what was journaled was anchored.
RowsInv ==
  /\ \A a \in Account : \A k \in rows[a] : AccountIn(k) = a /\ Reached(k) /\ k[2] \in Listed[a]
  /\ \A k \in past : Reached(k) /\ k[2] \in Listed[AccountIn(k)]
  /\ \A k \in Readable : AccountIn(k) \in ever
  /\ anchored \subseteq ever
  /\ pc # "asking" => answered = {}

\* The sweep holds an answer of the account.
Heard(a) == (pc = "asking" /\ a \in answered) \/ (pc = "absorbing" /\ a \in left)

\* Of an account's history, whatever its answer does not show is over, and what it
\* may show stands in the anchor.
HistoryInv ==
  "garbled" \notin faults =>
    \A k \in past :
      /\ Heard(AccountIn(k)) /\ k \notin rows[AccountIn(k)] => Passed(k)
      /\ AccountIn(k) \in anchored =>
           k \in anchor \/ (Passed(k) /\ k \notin rows[AccountIn(k)])

\* What the journal says was seen.
SeenInv == Readable \subseteq seen /\ JournaledOnce

\* An append raised at most once.  Before it nothing is lost; the line it left open
\* is not among what was appended, and closing it loses one row.
LossInv ==
  /\ "append" \notin faults => ~open /\ appended \subseteq Readable
  /\ open => lines # <<>> /\ appended \subseteq Readable \ {lines[Len(lines)]}
  /\ \A j, k \in appended \ Readable : j = k

\* The batch is what follows the watermark, and the platform has it before it is
\* marked.
MarkInv ==
  "watermark" \notin faults =>
    /\ mark <= Len(lines)
    /\ pc \in {"shipping", "marking"} =>
         /\ mark + Len(batch) <= Len(lines)
         /\ \A i \in 1..Len(batch) : batch[i] = lines[mark + i]
    /\ pc = "marking" => \A i \in 1..Len(batch) : batch[i] = Torn \/ batch[i] \in received

IInv ==
  /\ TypeOK /\ RowsInv /\ HistoryInv /\ HistoryStaysPrivate
  /\ SeenInv /\ LossInv /\ MarkInv /\ NothingSkipped

----------------------------------------------------------------------------
(* The file.                                                                *)

\* A torn line is no row.
LEMMA TornIsNoKey == Torn \notin Key
  BY DEF Torn, Key

\* The account of a row is one.
LEMMA KeyHasAccount == \A k \in Key : AccountIn(k) \in Account /\ k[1] \in Order
                                      /\ k[2] \in {"working", "filled"}
  BY FillJournalAssumption DEF Key, AccountIn

\* What the file holds, line by line.
LEMMA ReadableIs ==
  ASSUME TypeOK
  PROVE  /\ DOMAIN lines = 1..Len(lines) /\ Len(lines) \in Nat
         /\ \A i \in 1..Len(lines) : lines[i] \in Key \cup {Torn}
         /\ \A k : k \in Readable <=> k # Torn /\ \E i \in 1..Len(lines) : lines[i] = k
         /\ Readable \subseteq Key
  BY LenProperties DEF TypeOK, Readable, ToSet

\* A line that is appended.
LEMMA LineAppended ==
  ASSUME TypeOK, NEW x \in Key \cup {Torn}, lines' = Append(lines, x)
  PROVE  /\ lines' \in Seq(Key \cup {Torn}) /\ Len(lines') = Len(lines) + 1
         /\ DOMAIN lines' = 1..Len(lines')
         /\ \A i \in 1..Len(lines) : lines'[i] = lines[i]
         /\ lines'[Len(lines) + 1] = x
         /\ Readable' = Readable \cup ({x} \ {Torn})
  <1>1. lines \in Seq(Key \cup {Torn})
    BY DEF TypeOK
  <1>2. lines' \in Seq(Key \cup {Torn}) /\ Len(lines') = Len(lines) + 1
        /\ \A i \in 1..Len(lines) : lines'[i] = lines[i]
        /\ lines'[Len(lines) + 1] = x
    BY <1>1
  <1>3. DOMAIN lines' = 1..Len(lines') /\ DOMAIN lines = 1..Len(lines) /\ Len(lines) \in Nat
    BY <1>1, <1>2, LenProperties
  <1>4. \A i \in DOMAIN lines' : i \in DOMAIN lines \/ i = Len(lines) + 1
    BY <1>2, <1>3
  <1>5. Len(lines) + 1 \in DOMAIN lines'
    BY <1>2, <1>3
  <1>6. ToSet(lines)' = ToSet(lines) \cup {x}
    BY <1>2, <1>3, <1>4, <1>5 DEF ToSet
  <1>7. QED
    BY <1>2, <1>3, <1>6 DEF Readable

\* A line that tears the one it continues.
LEMMA LineTorn ==
  ASSUME TypeOK, JournaledOnce, lines # <<>>,
         lines' = [lines EXCEPT ![Len(lines)] = Torn]
  PROVE  /\ lines' \in Seq(Key \cup {Torn}) /\ Len(lines') = Len(lines)
         /\ DOMAIN lines' = 1..Len(lines')
         /\ \A i \in 1..Len(lines) : lines'[i] = IF i = Len(lines) THEN Torn ELSE lines[i]
         /\ Readable' = Readable \ {lines[Len(lines)]}
  <1>1. lines \in Seq(Key \cup {Torn}) /\ Len(lines) \in 1..Len(lines) /\ Len(lines) \in Nat
    BY EmptySeq DEF TypeOK
  <1>2. /\ lines' \in Seq(Key \cup {Torn}) /\ Len(lines') = Len(lines)
        /\ \A i \in 1..Len(lines) : lines'[i] = IF i = Len(lines) THEN Torn ELSE lines[i]
    BY <1>1, ExceptSeq
  <1>3. DOMAIN lines' = 1..Len(lines) /\ DOMAIN lines = 1..Len(lines)
    BY <1>1, <1>2, LenProperties
  <1>4. Readable' \subseteq Readable \ {lines[Len(lines)]}
    <2>1. ASSUME NEW k \in Readable' PROVE k \in Readable /\ k # lines[Len(lines)]
      <3>1. PICK i \in 1..Len(lines) : lines'[i] = k /\ k # Torn
        BY <1>3 DEF Readable, ToSet
      <3>2. i # Len(lines) /\ lines[i] = k
        BY <1>2, <3>1
      <3>3. QED
        BY <1>1, <1>3, <3>1, <3>2 DEF JournaledOnce, Readable, ToSet
    <2>2. QED
      BY <2>1
  <1>5. Readable \ {lines[Len(lines)]} \subseteq Readable'
    <2>1. ASSUME NEW k \in Readable, k # lines[Len(lines)] PROVE k \in Readable'
      <3>1. PICK i \in 1..Len(lines) : lines[i] = k /\ k # Torn
        BY <1>3 DEF Readable, ToSet
      <3>2. lines'[i] = k
        BY <1>2, <2>1, <3>1
      <3>3. QED
        BY <1>3, <3>1, <3>2 DEF Readable, ToSet
    <2>2. QED
      BY <2>1
  <1>6. QED
    BY <1>2, <1>3, <1>4, <1>5

\* What the shipper sends starts at the watermark.
LEMMA PendingIs ==
  ASSUME TypeOK, NEW from \in Nat
  PROVE  /\ Pending(from) \in Seq(Key \cup {Torn})
         /\ from <= Len(lines) => from + Len(Pending(from)) <= Len(lines)
         /\ \A i \in 1..Len(Pending(from)) : Pending(from)[i] = lines[from + i]
  <1> DEFINE to == IF from + Limit < Len(lines) THEN from + Limit ELSE Len(lines)
  <1>1. to \in Nat /\ Len(lines) \in Nat /\ to <= Len(lines)
    BY ReadableIs, FillJournalAssumption
  <1>2. \A i \in from + 1 .. to : lines[i] \in Key \cup {Torn}
    BY <1>1, ReadableIs
  <1>3. /\ SubSeq(lines, from + 1, to) \in Seq(Key \cup {Torn})
        /\ Len(SubSeq(lines, from + 1, to)) = IF from + 1 <= to THEN to - (from + 1) + 1 ELSE 0
        /\ \A i \in 1 .. to - (from + 1) + 1 :
             SubSeq(lines, from + 1, to)[i] = lines[from + 1 + i - 1]
    BY <1>1, <1>2, SubSeqProperties
  <1>4. Pending(from) = SubSeq(lines, from + 1, to)
    BY DEF Pending
  <1> HIDE DEF to
  <1>5. QED
    BY <1>1, <1>3, <1>4

----------------------------------------------------------------------------
(* The steps.                                                               *)

\* What an account shows are its own rows, of a status it lists, and all of them that
\* are not passed.
LEMMA ShownIs ==
  ASSUME NEW a \in Account
  PROVE  /\ Shown(a) \subseteq Key
         /\ \A k \in Shown(a) : AccountIn(k) = a /\ order[k[1]] = k[2] /\ k[2] \in Listed[a]
         /\ \A k \in Key : AccountIn(k) = a /\ order[k[1]] = k[2] /\ k[2] \in Listed[a]
                             => k \in Shown(a)
  BY DEF Shown, AccountIn

(***************************************************************************)
(* The types.                                                               *)
(***************************************************************************)
LEMMA TypeStep ==
  ASSUME TypeOK, LossInv, [Next]_vars PROVE TypeOK'
  <1> USE FillJournalAssumption, ShownIs, KeyHasAccount, ReadableIs DEF TypeOK, AllFaults, Nothing,
          fileVars, sweepVars, bounds
  <1>1. ASSUME NEW o \in Order, OrderMoves(o) PROVE TypeOK'
    BY <1>1 DEF OrderMoves
  <1>2. CASE SweepStart
    BY <1>2 DEF SweepStart
  <1>3. ASSUME NEW a \in Account, AccountAnswers(a) PROVE TypeOK'
    BY <1>3 DEF AccountAnswers
  <1>4. ASSUME NEW a \in Account, AccountGarbled(a) PROVE TypeOK'
    BY <1>4 DEF AccountGarbled, Fault
  <1>5. ASSUME NEW a \in Account, AccountFails(a) PROVE TypeOK'
    BY <1>5 DEF AccountFails
  <1>6. CASE AskDone
    BY <1>6 DEF AskDone
  <1>7. ASSUME NEW a \in Account, AnchorAccount(a) PROVE TypeOK'
    BY <1>7 DEF AnchorAccount, Done, Remember
  <1>8. ASSUME NEW a \in Account, AnchorUnreadable(a) PROVE TypeOK'
    BY <1>8 DEF AnchorUnreadable, Remember, Done, Fault
  <1>9. ASSUME NEW a \in Account, JournalRow(a) PROVE TypeOK'
    <2>1. PICK k \in New(a) : /\ seen' = seen \cup {k} /\ appended' = appended \cup {k}
                             /\ Written(k)
      BY <1>9 DEF JournalRow
    <2>2. k \in Key
      BY DEF New
    <2>3. lines' \in Seq(Key \cup {Torn})
      <3>1. CASE open
        BY <2>1, <3>1, EmptySeq, ExceptSeq DEF Written, LossInv
      <3>2. CASE ~open
        BY <2>1, <2>2, <3>2, LineAppended DEF Written
      <3>3. QED
        BY <3>1, <3>2
    <2>4. /\ seen' \subseteq Key /\ appended' \subseteq Key /\ open' \in BOOLEAN
      BY <2>1, <2>2 DEF Written
    <2>5. UNCHANGED <<order, anchored, anchor, mark, pc, sweepVars, batch, received, past, ever, bounds>>
      BY <1>9 DEF JournalRow
    <2>6. QED
      BY <2>3, <2>4, <2>5
  <1>10. ASSUME NEW a \in Account, JournalFails(a) PROVE TypeOK'
    <2>1. PICK k \in New(a) :
           /\ seen' = seen \cup {k}
           /\ \/ UNCHANGED <<lines, open>>
              \/ \E written \in {k, Torn} : lines' = Append(lines, written) /\ open' = TRUE
      BY <1>10 DEF JournalFails
    <2>2. k \in Key
      BY DEF New
    <2>3. lines' \in Seq(Key \cup {Torn}) /\ open' \in BOOLEAN
      BY <2>1, <2>2, LineAppended
    <2>4. QED
      BY <1>10, <2>1, <2>2, <2>3 DEF JournalFails, Fault, SweepOver
  <1>11. ASSUME NEW a \in Account, AccountAbsorbed(a) PROVE TypeOK'
    BY <1>11 DEF AccountAbsorbed, Done
  <1>12. CASE ShipStart
    BY <1>12, PendingIs DEF ShipStart, Ship
  <1>13. CASE ShipUnreadable
    BY <1>13, PendingIs DEF ShipUnreadable, Ship, Fault
  <1>14. CASE Taken
    <2>1. ToSet(batch) \ {Torn} \subseteq Key
      BY LenProperties DEF ToSet
    <2>2. QED
      BY <1>14, <2>1 DEF Taken
  <1>15. CASE ShipFails
    <2>1. ToSet(batch) \ {Torn} \subseteq Key
      BY LenProperties DEF ToSet
    <2>2. QED
      BY <1>15, <2>1, EmptySeq DEF ShipFails
  <1>16. CASE MarkShipped
    BY <1>16, LenProperties DEF MarkShipped
  <1>17. CASE MarkUnreadable
    BY <1>17, LenProperties DEF MarkUnreadable, Fault
  <1>18. CASE Restart
    BY <1>18 DEF Restart, SweepOver
  <1>19. CASE UNCHANGED vars
    BY <1>19 DEF vars
  <1>20. QED
    BY <1>1, <1>2, <1>3, <1>4, <1>5, <1>6, <1>7, <1>8, <1>9, <1>10,
       <1>11, <1>12, <1>13, <1>14, <1>15, <1>16, <1>17, <1>18, <1>19
    DEF Next, Broker, Ask, Absorb, Shipper

\* A row that is written, and what it may cost.
LEMMA WrittenIs ==
  ASSUME TypeOK, SeenInv, LossInv, NEW k \in Key, Written(k)
  PROVE  /\ ~open => Readable' = Readable \cup {k}
         /\ open => lines # <<>> /\ Readable' = Readable \ {lines[Len(lines)]}
         /\ Readable' \subseteq Readable \cup {k}
  <1>1. CASE open
    BY <1>1, LineTorn DEF Written, LossInv, SeenInv
  <1>2. CASE ~open
    <2>1. Readable' = Readable \cup ({k} \ {Torn})
      BY <1>2, LineAppended DEF Written
    <2>2. QED
      BY <1>2, <2>1, TornIsNoKey
  <1>3. QED
    BY <1>1, <1>2

\* Rows that no line is added to stay readable.
LEMMA SameLines == UNCHANGED lines => Readable' = Readable
  BY DEF Readable

(***************************************************************************)
(* An order only moves on, and what is journaled was anchored.              *)
(***************************************************************************)
LEMMA RowsStep ==
  ASSUME TypeOK, RowsInv, SeenInv, LossInv, [Next]_vars PROVE RowsInv'
  <1> USE FillJournalAssumption, ShownIs, KeyHasAccount, ReadableIs, SameLines DEF TypeOK, RowsInv, Nothing, Reached, Passed,
          fileVars, sweepVars, bounds
  <1>1. ASSUME NEW o \in Order, OrderMoves(o) PROVE RowsInv'
    <2>1. \A k \in Key : Reached(k) => Reached(k)'
      BY <1>1 DEF OrderMoves, Key
    <2>2. UNCHANGED <<rows, past, ever, anchored, lines, pc, answered>> /\ past \subseteq Key
          /\ \A a \in Account : rows[a] \subseteq Key
      BY <1>1 DEF OrderMoves
    <2>3. Readable' = Readable
      BY <2>2, SameLines
    <2>4. QED
      BY <2>1, <2>2, <2>3 DEF AccountIn
  <1>2. CASE SweepStart
    BY <1>2 DEF SweepStart
  <1>3. ASSUME NEW a \in Account, AccountAnswers(a) PROVE RowsInv'
    BY <1>3 DEF AccountAnswers
  <1>4. ASSUME NEW a \in Account, AccountGarbled(a) PROVE RowsInv'
    BY <1>4 DEF AccountGarbled, Fault
  <1>5. ASSUME NEW a \in Account, AccountFails(a) PROVE RowsInv'
    BY <1>5 DEF AccountFails
  <1>6. CASE AskDone
    BY <1>6 DEF AskDone
  <1>7. ASSUME NEW a \in Account, AnchorAccount(a) PROVE RowsInv'
    BY <1>7 DEF AnchorAccount, Done, Remember
  <1>8. ASSUME NEW a \in Account, AnchorUnreadable(a) PROVE RowsInv'
    BY <1>8 DEF AnchorUnreadable, Remember, Done, Fault
  <1>9. ASSUME NEW a \in Account, JournalRow(a) PROVE RowsInv'
    <2>1. PICK k \in New(a) : /\ seen' = seen \cup {k} /\ appended' = appended \cup {k}
                             /\ Written(k)
      BY <1>9 DEF JournalRow
    <2>2. k \in Key /\ k \in rows[a] /\ k \notin seen /\ k \notin anchor
      BY DEF New, TypeOK
    <2>3. /\ UNCHANGED <<order, anchored, anchor, mark, pc, left, rows, answered, batch, received,
                         past, ever, faults, crashes>>
          /\ a \in left /\ a \in anchored /\ pc = "absorbing"
      BY <1>9 DEF JournalRow, sweepVars, bounds
    <2>4. Readable' \subseteq Readable \cup {k}
      BY <2>1, <2>2, WrittenIs
    <2>5. AccountIn(k) \in ever
      BY <2>2, <2>3
    <2>6. QED
      BY <2>3, <2>4, <2>5 DEF AccountIn
  <1>10. ASSUME NEW a \in Account, JournalFails(a) PROVE RowsInv'
    <2>1. PICK k \in New(a) :
           /\ seen' = seen \cup {k}
           /\ \/ UNCHANGED <<lines, open>>
              \/ \E written \in {k, Torn} : lines' = Append(lines, written) /\ open' = TRUE
      BY <1>10 DEF JournalFails
    <2>2. k \in Key /\ k \in rows[a] /\ k \notin seen /\ k \notin anchor
      BY DEF New, TypeOK
    <2>3. Readable' \subseteq Readable \cup {k}
      <3>1. CASE UNCHANGED <<lines, open>>
        BY <3>1, SameLines
      <3>2. CASE \E written \in {k, Torn} : lines' = Append(lines, written) /\ open' = TRUE
        BY <2>2, <3>2, LineAppended
      <3>3. QED
        BY <2>1, <3>1, <3>2
    <2>4. AccountIn(k) \in ever
      BY <1>10, <2>2 DEF JournalFails
    <2>5. QED
      BY <1>10, <2>3, <2>4 DEF JournalFails, SweepOver, AccountIn
  <1>11. ASSUME NEW a \in Account, AccountAbsorbed(a) PROVE RowsInv'
    BY <1>11 DEF AccountAbsorbed, Done
  <1>12. CASE ShipStart
    BY <1>12 DEF ShipStart, Ship
  <1>13. CASE ShipUnreadable
    BY <1>13 DEF ShipUnreadable, Ship, Fault
  <1>14. CASE Taken
    BY <1>14 DEF Taken
  <1>15. CASE ShipFails
    BY <1>15 DEF ShipFails
  <1>16. CASE MarkShipped
    BY <1>16 DEF MarkShipped
  <1>17. CASE MarkUnreadable
    BY <1>17 DEF MarkUnreadable, Fault
  <1>18. CASE Restart
    BY <1>18 DEF Restart, SweepOver
  <1>19. CASE UNCHANGED vars
    BY <1>19 DEF vars
  <1>20. QED
    BY <1>1, <1>2, <1>3, <1>4, <1>5, <1>6, <1>7, <1>8, <1>9, <1>10,
       <1>11, <1>12, <1>13, <1>14, <1>15, <1>16, <1>17, <1>18, <1>19
    DEF Next, Broker, Ask, Absorb, Shipper

(***************************************************************************)
(* The history of an account that is anchored stands in the anchor or is over,*)
(* and none of it is journaled.                                             *)
(***************************************************************************)
LEMMA HistoryStep ==
  ASSUME TypeOK, RowsInv, HistoryInv, HistoryStaysPrivate, SeenInv, LossInv, [Next]_vars PROVE HistoryInv' /\ HistoryStaysPrivate'
  <1> USE FillJournalAssumption, ShownIs, KeyHasAccount, ReadableIs, SameLines DEF TypeOK, RowsInv, HistoryInv, HistoryStaysPrivate, Nothing,
          Reached, Passed, Heard,
          fileVars, sweepVars, bounds
  <1>1. ASSUME NEW o \in Order, OrderMoves(o) PROVE HistoryInv' /\ HistoryStaysPrivate'
    BY <1>1 DEF OrderMoves
  <1>2. CASE SweepStart
    BY <1>2 DEF SweepStart
  <1>3. ASSUME NEW a \in Account, AccountAnswers(a) PROVE HistoryInv' /\ HistoryStaysPrivate'
    BY <1>3 DEF AccountAnswers
  <1>4. ASSUME NEW a \in Account, AccountGarbled(a) PROVE HistoryInv' /\ HistoryStaysPrivate'
    BY <1>4 DEF AccountGarbled, Fault
  <1>5. ASSUME NEW a \in Account, AccountFails(a) PROVE HistoryInv' /\ HistoryStaysPrivate'
    BY <1>5 DEF AccountFails
  <1>6. CASE AskDone
    BY <1>6 DEF AskDone
  <1>7. ASSUME NEW a \in Account, AnchorAccount(a) PROVE HistoryInv' /\ HistoryStaysPrivate'
    BY <1>7 DEF AnchorAccount, Done, Remember
  <1>8. ASSUME NEW a \in Account, AnchorUnreadable(a) PROVE HistoryInv' /\ HistoryStaysPrivate'
    BY <1>8 DEF AnchorUnreadable, Remember, Done, Fault
  <1>9. ASSUME NEW a \in Account, JournalRow(a) PROVE HistoryInv' /\ HistoryStaysPrivate'
    <2>1. PICK k \in New(a) : /\ seen' = seen \cup {k} /\ appended' = appended \cup {k}
                             /\ Written(k)
      BY <1>9 DEF JournalRow
    <2>2. k \in Key /\ k \in rows[a] /\ k \notin seen /\ k \notin anchor
      BY DEF New, TypeOK
    <2>3. /\ UNCHANGED <<order, anchored, anchor, mark, pc, left, rows, answered, batch, received,
                         past, ever, faults, crashes>>
          /\ a \in left /\ a \in anchored /\ pc = "absorbing"
      BY <1>9 DEF JournalRow, sweepVars, bounds
    <2>4. Readable' \subseteq Readable \cup {k}
      BY <2>1, <2>2, WrittenIs
    <2>5. "garbled" \notin faults => k \notin past
      BY <2>2, <2>3
    <2>6. QED
      BY <2>3, <2>4, <2>5 DEF AccountIn
  <1>10. ASSUME NEW a \in Account, JournalFails(a) PROVE HistoryInv' /\ HistoryStaysPrivate'
    <2>1. PICK k \in New(a) :
           /\ seen' = seen \cup {k}
           /\ \/ UNCHANGED <<lines, open>>
              \/ \E written \in {k, Torn} : lines' = Append(lines, written) /\ open' = TRUE
      BY <1>10 DEF JournalFails
    <2>2. k \in Key /\ k \in rows[a] /\ k \notin seen /\ k \notin anchor
      BY DEF New, TypeOK
    <2>3. Readable' \subseteq Readable \cup {k}
      <3>1. CASE UNCHANGED <<lines, open>>
        BY <3>1, SameLines
      <3>2. CASE \E written \in {k, Torn} : lines' = Append(lines, written) /\ open' = TRUE
        BY <2>2, <3>2, LineAppended
      <3>3. QED
        BY <2>1, <3>1, <3>2
    <2>4. "garbled" \notin faults => k \notin past
      BY <1>10, <2>2 DEF JournalFails
    <2>5. QED
      BY <1>10, <2>3, <2>4 DEF JournalFails, SweepOver, Fault, AccountIn
  <1>11. ASSUME NEW a \in Account, AccountAbsorbed(a) PROVE HistoryInv' /\ HistoryStaysPrivate'
    BY <1>11 DEF AccountAbsorbed, Done
  <1>12. CASE ShipStart
    BY <1>12 DEF ShipStart, Ship
  <1>13. CASE ShipUnreadable
    BY <1>13 DEF ShipUnreadable, Ship, Fault
  <1>14. CASE Taken
    BY <1>14 DEF Taken
  <1>15. CASE ShipFails
    BY <1>15 DEF ShipFails
  <1>16. CASE MarkShipped
    BY <1>16 DEF MarkShipped
  <1>17. CASE MarkUnreadable
    BY <1>17 DEF MarkUnreadable, Fault
  <1>18. CASE Restart
    BY <1>18 DEF Restart, SweepOver
  <1>19. CASE UNCHANGED vars
    BY <1>19 DEF vars
  <1>20. QED
    BY <1>1, <1>2, <1>3, <1>4, <1>5, <1>6, <1>7, <1>8, <1>9, <1>10,
       <1>11, <1>12, <1>13, <1>14, <1>15, <1>16, <1>17, <1>18, <1>19
    DEF Next, Broker, Ask, Absorb, Shipper

(***************************************************************************)
(* A row that is written was not seen, and what a restart forgets is not in *)
(* the journal.                                                             *)
(***************************************************************************)
LEMMA SeenStep ==
  ASSUME TypeOK, SeenInv, LossInv, [Next]_vars PROVE SeenInv'
  <1> USE FillJournalAssumption, ReadableIs, SameLines DEF TypeOK, SeenInv, JournaledOnce,
          fileVars, sweepVars, bounds
  <1>1. ASSUME NEW o \in Order, OrderMoves(o) PROVE SeenInv'
    BY <1>1 DEF OrderMoves
  <1>2. CASE SweepStart
    BY <1>2 DEF SweepStart
  <1>3. ASSUME NEW a \in Account, AccountAnswers(a) PROVE SeenInv'
    BY <1>3 DEF AccountAnswers
  <1>4. ASSUME NEW a \in Account, AccountGarbled(a) PROVE SeenInv'
    BY <1>4 DEF AccountGarbled, Fault
  <1>5. ASSUME NEW a \in Account, AccountFails(a) PROVE SeenInv'
    BY <1>5 DEF AccountFails
  <1>6. CASE AskDone
    BY <1>6 DEF AskDone
  <1>7. ASSUME NEW a \in Account, AnchorAccount(a) PROVE SeenInv'
    BY <1>7 DEF AnchorAccount, Done, Remember
  <1>8. ASSUME NEW a \in Account, AnchorUnreadable(a) PROVE SeenInv'
    BY <1>8 DEF AnchorUnreadable, Remember, Done, Fault
  <1>9. ASSUME NEW a \in Account, JournalRow(a) PROVE SeenInv'
    <2>1. PICK k \in New(a) : /\ seen' = seen \cup {k} /\ appended' = appended \cup {k}
                             /\ Written(k)
      BY <1>9 DEF JournalRow
    <2>2. k \in Key /\ k \in rows[a] /\ k \notin seen /\ k \notin anchor
      BY DEF New, TypeOK
    <2>3. /\ UNCHANGED <<order, anchored, anchor, mark, pc, left, rows, answered, batch, received,
                         past, ever, faults, crashes>>
          /\ a \in left /\ a \in anchored /\ pc = "absorbing"
      BY <1>9 DEF JournalRow, sweepVars, bounds
    <2>4. Readable' \subseteq seen'
      BY <2>1, <2>2, WrittenIs
    <2>5. k \notin Readable
      BY <2>2
    <2>6. JournaledOnce'
      <3>1. CASE open
        BY <2>1, <3>1, LineTorn DEF Written, LossInv
      <3>2. CASE ~open
        <4>1. lines' = Append(lines, k)
          BY <2>1, <3>2 DEF Written
        <4>2. \A i \in 1..Len(lines) : lines[i] # Torn => lines[i] \in Readable
          OBVIOUS
        <4>3. QED
          BY <2>2, <2>5, <4>1, <4>2, LineAppended
      <3>3. QED
        BY <3>1, <3>2
    <2>7. QED
      BY <2>4, <2>6
  <1>10. ASSUME NEW a \in Account, JournalFails(a) PROVE SeenInv'
    <2>1. PICK k \in New(a) :
           /\ seen' = seen \cup {k}
           /\ \/ UNCHANGED <<lines, open>>
              \/ \E written \in {k, Torn} : lines' = Append(lines, written) /\ open' = TRUE
      BY <1>10 DEF JournalFails
    <2>2. k \in Key /\ k \in rows[a] /\ k \notin seen /\ k \notin anchor
      BY DEF New, TypeOK
    <2>3. Readable' \subseteq Readable \cup {k}
      <3>1. CASE UNCHANGED <<lines, open>>
        BY <3>1, SameLines
      <3>2. CASE \E written \in {k, Torn} : lines' = Append(lines, written) /\ open' = TRUE
        BY <2>2, <3>2, LineAppended
      <3>3. QED
        BY <2>1, <3>1, <3>2
    <2>4. JournaledOnce'
      <3>1. CASE UNCHANGED <<lines, open>>
        BY <3>1
      <3>2. CASE \E written \in {k, Torn} : lines' = Append(lines, written) /\ open' = TRUE
        <4>1. PICK x \in {k, Torn} : lines' = Append(lines, x)
          BY <3>2
        <4>2. \A i \in 1..Len(lines) : lines[i] # Torn => lines[i] \in Readable
          OBVIOUS
        <4>3. k \notin Readable
          BY <2>2
        <4>4. QED
          BY <2>2, <4>1, <4>2, <4>3, LineAppended
      <3>3. QED
        BY <2>1, <3>1, <3>2
    <2>5. QED
      BY <2>1, <2>3, <2>4
  <1>11. ASSUME NEW a \in Account, AccountAbsorbed(a) PROVE SeenInv'
    BY <1>11 DEF AccountAbsorbed, Done
  <1>12. CASE ShipStart
    BY <1>12 DEF ShipStart, Ship
  <1>13. CASE ShipUnreadable
    BY <1>13 DEF ShipUnreadable, Ship, Fault
  <1>14. CASE Taken
    BY <1>14 DEF Taken
  <1>15. CASE ShipFails
    BY <1>15 DEF ShipFails
  <1>16. CASE MarkShipped
    BY <1>16 DEF MarkShipped
  <1>17. CASE MarkUnreadable
    BY <1>17 DEF MarkUnreadable, Fault
  <1>18. CASE Restart
    BY <1>18 DEF Restart, SweepOver
  <1>19. CASE UNCHANGED vars
    BY <1>19 DEF vars
  <1>20. QED
    BY <1>1, <1>2, <1>3, <1>4, <1>5, <1>6, <1>7, <1>8, <1>9, <1>10,
       <1>11, <1>12, <1>13, <1>14, <1>15, <1>16, <1>17, <1>18, <1>19
    DEF Next, Broker, Ask, Absorb, Shipper

(***************************************************************************)
(* One append raises at most, so one line is torn at most.                  *)
(***************************************************************************)
LEMMA LossStep ==
  ASSUME TypeOK, SeenInv, LossInv, [Next]_vars PROVE LossInv'
  <1> USE FillJournalAssumption, ReadableIs, SameLines DEF TypeOK, LossInv,
          fileVars, sweepVars, bounds
  <1>1. ASSUME NEW o \in Order, OrderMoves(o) PROVE LossInv'
    BY <1>1 DEF OrderMoves
  <1>2. CASE SweepStart
    BY <1>2 DEF SweepStart
  <1>3. ASSUME NEW a \in Account, AccountAnswers(a) PROVE LossInv'
    BY <1>3 DEF AccountAnswers
  <1>4. ASSUME NEW a \in Account, AccountGarbled(a) PROVE LossInv'
    BY <1>4 DEF AccountGarbled, Fault
  <1>5. ASSUME NEW a \in Account, AccountFails(a) PROVE LossInv'
    BY <1>5 DEF AccountFails
  <1>6. CASE AskDone
    BY <1>6 DEF AskDone
  <1>7. ASSUME NEW a \in Account, AnchorAccount(a) PROVE LossInv'
    BY <1>7 DEF AnchorAccount, Done, Remember
  <1>8. ASSUME NEW a \in Account, AnchorUnreadable(a) PROVE LossInv'
    BY <1>8 DEF AnchorUnreadable, Remember, Done, Fault
  <1>9. ASSUME NEW a \in Account, JournalRow(a) PROVE LossInv'
    <2>1. PICK k \in New(a) : /\ seen' = seen \cup {k} /\ appended' = appended \cup {k}
                             /\ Written(k)
      BY <1>9 DEF JournalRow
    <2>2. k \in Key /\ k \in rows[a] /\ k \notin seen /\ k \notin anchor
      BY DEF New, TypeOK
    <2>3. /\ UNCHANGED <<order, anchored, anchor, mark, pc, left, rows, answered, batch, received,
                         past, ever, faults, crashes>>
          /\ a \in left /\ a \in anchored /\ pc = "absorbing"
      BY <1>9 DEF JournalRow, sweepVars, bounds
    <2>4. open' = FALSE
      BY <2>1 DEF Written
    <2>5. CASE open
      <3>1. Readable' = Readable \ {lines[Len(lines)]}
        BY <2>1, <2>2, <2>5, WrittenIs
      <3>2. appended' \ Readable' \subseteq {k} /\ "append" \in faults
        BY <2>1, <2>5, <3>1
      <3>3. QED
        BY <2>3, <2>4, <3>2
    <2>6. CASE ~open
      <3>1. Readable' = Readable \cup {k}
        BY <2>1, <2>2, <2>6, WrittenIs
      <3>2. appended' \ Readable' \subseteq appended \ Readable
        BY <2>1, <3>1
      <3>3. QED
        BY <2>3, <2>4, <3>2
    <2>7. QED
      BY <2>5, <2>6
  <1>10. ASSUME NEW a \in Account, JournalFails(a) PROVE LossInv'
    <2>1. PICK k \in New(a) :
           /\ seen' = seen \cup {k}
           /\ \/ UNCHANGED <<lines, open>>
              \/ \E written \in {k, Torn} : lines' = Append(lines, written) /\ open' = TRUE
      BY <1>10 DEF JournalFails
    <2>2. k \in Key /\ k \in rows[a] /\ k \notin seen /\ k \notin anchor
      BY DEF New, TypeOK
    <2>3. Readable' \subseteq Readable \cup {k}
      <3>1. CASE UNCHANGED <<lines, open>>
        BY <3>1, SameLines
      <3>2. CASE \E written \in {k, Torn} : lines' = Append(lines, written) /\ open' = TRUE
        BY <2>2, <3>2, LineAppended
      <3>3. QED
        BY <2>1, <3>1, <3>2
    <2>4. "append" \notin faults /\ "append" \in faults' /\ UNCHANGED appended
      BY <1>10 DEF JournalFails, Fault
    <2>5. k \notin appended /\ k \notin Readable /\ appended \subseteq Readable /\ ~open
      BY <2>2, <2>4 DEF SeenInv
    <2>6. CASE UNCHANGED <<lines, open>>
      BY <2>4, <2>5, <2>6, SameLines
    <2>7. CASE \E written \in {k, Torn} : lines' = Append(lines, written) /\ open' = TRUE
      <3>1. PICK x \in {k, Torn} : lines' = Append(lines, x) /\ open' = TRUE
        BY <2>7
      <3>2. /\ Len(lines') = Len(lines) + 1 /\ lines'[Len(lines')] = x
            /\ Readable' = Readable \cup ({x} \ {Torn}) /\ lines' \in Seq(Key \cup {Torn})
        BY <2>2, <3>1, LineAppended
      <3>3. lines' # <<>>
        BY <3>2, EmptySeq
      <3>4. x \notin appended
        BY <2>5, TornIsNoKey
      <3>5. QED
        BY <2>4, <2>5, <3>1, <3>2, <3>3, <3>4
    <2>8. QED
      BY <2>1, <2>6, <2>7
  <1>11. ASSUME NEW a \in Account, AccountAbsorbed(a) PROVE LossInv'
    BY <1>11 DEF AccountAbsorbed, Done
  <1>12. CASE ShipStart
    BY <1>12 DEF ShipStart, Ship
  <1>13. CASE ShipUnreadable
    BY <1>13 DEF ShipUnreadable, Ship, Fault
  <1>14. CASE Taken
    BY <1>14 DEF Taken
  <1>15. CASE ShipFails
    BY <1>15 DEF ShipFails
  <1>16. CASE MarkShipped
    BY <1>16 DEF MarkShipped
  <1>17. CASE MarkUnreadable
    BY <1>17 DEF MarkUnreadable, Fault
  <1>18. CASE Restart
    BY <1>18 DEF Restart, SweepOver
  <1>19. CASE UNCHANGED vars
    BY <1>19 DEF vars
  <1>20. QED
    BY <1>1, <1>2, <1>3, <1>4, <1>5, <1>6, <1>7, <1>8, <1>9, <1>10,
       <1>11, <1>12, <1>13, <1>14, <1>15, <1>16, <1>17, <1>18, <1>19
    DEF Next, Broker, Ask, Absorb, Shipper

\* The lines of a batch.
LEMMA InToSet ==
  ASSUME NEW s \in Seq(Key \cup {Torn})
  PROVE  \A i \in 1..Len(s) : s[i] \in ToSet(s)
  <1>1. DOMAIN s = 1..Len(s)
    BY LenProperties
  <1>2. QED
    BY <1>1 DEF ToSet

(***************************************************************************)
(* The watermark passes what the platform has, line by line.                *)
(***************************************************************************)
LEMMA MarkStep ==
  ASSUME TypeOK, SeenInv, LossInv, MarkInv, NothingSkipped, [Next]_vars PROVE MarkInv' /\ NothingSkipped'
  <1> USE FillJournalAssumption, ReadableIs DEF TypeOK, MarkInv, NothingSkipped,
          fileVars, sweepVars, bounds
  <1>1. ASSUME NEW o \in Order, OrderMoves(o) PROVE MarkInv' /\ NothingSkipped'
    BY <1>1 DEF OrderMoves
  <1>2. CASE SweepStart
    BY <1>2 DEF SweepStart
  <1>3. ASSUME NEW a \in Account, AccountAnswers(a) PROVE MarkInv' /\ NothingSkipped'
    BY <1>3 DEF AccountAnswers
  <1>4. ASSUME NEW a \in Account, AccountGarbled(a) PROVE MarkInv' /\ NothingSkipped'
    BY <1>4 DEF AccountGarbled, Fault
  <1>5. ASSUME NEW a \in Account, AccountFails(a) PROVE MarkInv' /\ NothingSkipped'
    BY <1>5 DEF AccountFails
  <1>6. CASE AskDone
    BY <1>6 DEF AskDone
  <1>7. ASSUME NEW a \in Account, AnchorAccount(a) PROVE MarkInv' /\ NothingSkipped'
    BY <1>7 DEF AnchorAccount, Done, Remember
  <1>8. ASSUME NEW a \in Account, AnchorUnreadable(a) PROVE MarkInv' /\ NothingSkipped'
    BY <1>8 DEF AnchorUnreadable, Remember, Done, Fault
  <1>9. ASSUME NEW a \in Account, JournalRow(a) PROVE MarkInv' /\ NothingSkipped'
    <2>1. PICK k \in New(a) : /\ seen' = seen \cup {k} /\ appended' = appended \cup {k}
                             /\ Written(k)
      BY <1>9 DEF JournalRow
    <2>2. k \in Key /\ k \in rows[a] /\ k \notin seen /\ k \notin anchor
      BY DEF New, TypeOK
    <2>3. /\ UNCHANGED <<order, anchored, anchor, mark, pc, left, rows, answered, batch, received,
                         past, ever, faults, crashes>>
          /\ a \in left /\ a \in anchored /\ pc = "absorbing"
      BY <1>9 DEF JournalRow, sweepVars, bounds
    <2>4. CASE open
      BY <2>1, <2>3, <2>4, LineTorn DEF Written, LossInv, SeenInv
    <2>5. CASE ~open
      <3>1. lines' = Append(lines, k)
        BY <2>1, <2>5 DEF Written
      <3>2. QED
        BY <2>2, <2>3, <3>1, LineAppended
    <2>6. QED
      BY <2>4, <2>5
  <1>10. ASSUME NEW a \in Account, JournalFails(a) PROVE MarkInv' /\ NothingSkipped'
    <2>1. PICK k \in New(a) :
           /\ seen' = seen \cup {k}
           /\ \/ UNCHANGED <<lines, open>>
              \/ \E written \in {k, Torn} : lines' = Append(lines, written) /\ open' = TRUE
      BY <1>10 DEF JournalFails
    <2>2. k \in Key /\ k \in rows[a] /\ k \notin seen /\ k \notin anchor
      BY DEF New, TypeOK
    <2>3. Readable' \subseteq Readable \cup {k}
      <3>1. CASE UNCHANGED <<lines, open>>
        BY <3>1, SameLines
      <3>2. CASE \E written \in {k, Torn} : lines' = Append(lines, written) /\ open' = TRUE
        BY <2>2, <3>2, LineAppended
      <3>3. QED
        BY <2>1, <3>1, <3>2
    <2>4. UNCHANGED <<mark, received>> /\ pc' = "idle" /\ ("watermark" \in faults => "watermark" \in faults')
      BY <1>10 DEF JournalFails, SweepOver, Fault
    <2>5. CASE UNCHANGED <<lines, open>>
      BY <2>4, <2>5
    <2>6. CASE \E written \in {k, Torn} : lines' = Append(lines, written) /\ open' = TRUE
      <3>1. PICK x \in {k, Torn} : lines' = Append(lines, x)
        BY <2>6
      <3>2. QED
        BY <2>2, <2>4, <3>1, LineAppended
    <2>7. QED
      BY <2>1, <2>5, <2>6
  <1>11. ASSUME NEW a \in Account, AccountAbsorbed(a) PROVE MarkInv' /\ NothingSkipped'
    BY <1>11 DEF AccountAbsorbed, Done
  <1>12. CASE ShipStart
    <2>1. pc' = "marking" => \A i \in 1..Len(batch') : batch'[i] = Torn
      <3> SUFFICES ASSUME pc' = "marking" PROVE \A i \in 1..Len(batch') : batch'[i] = Torn
        OBVIOUS
      <3>1. ToSet(Pending(mark)) = {Torn}
        BY <1>12 DEF ShipStart, Ship
      <3>2. \A i \in 1..Len(Pending(mark)) : Pending(mark)[i] = Torn
        <4>1. Pending(mark) \in Seq(Key \cup {Torn})
          BY PendingIs
        <4>2. \A i \in 1..Len(Pending(mark)) : Pending(mark)[i] \in ToSet(Pending(mark))
          BY <4>1, InToSet
        <4>3. QED
          BY <3>1, <4>2
      <3>3. QED
        BY <1>12, <3>2 DEF ShipStart, Ship
    <2>2. batch' = Pending(mark) /\ UNCHANGED <<lines, mark, received, faults>>
      BY <1>12 DEF ShipStart, Ship
    <2>3. /\ mark <= Len(lines) => mark + Len(batch') <= Len(lines)
          /\ \A i \in 1..Len(batch') : batch'[i] = lines[mark + i]
      BY <2>2, PendingIs
    <2>4. MarkInv'
      BY <2>1, <2>2, <2>3
    <2>5. NothingSkipped'
      BY <2>2
    <2>6. QED
      BY <2>4, <2>5
  <1>13. CASE ShipUnreadable
    BY <1>13 DEF ShipUnreadable, Ship, Fault
  <1>14. CASE Taken
    <2>1. DOMAIN batch = 1..Len(batch)
      BY LenProperties
    <2>2. QED
      BY <1>14, <2>1 DEF Taken, ToSet
  <1>15. CASE ShipFails
    <2>1. UNCHANGED <<lines, mark, faults>> /\ received \subseteq received' /\ pc' = "idle"
      BY <1>15 DEF ShipFails
    <2>2. QED
      BY <2>1
  <1>16. CASE MarkShipped
    <2>1. Len(batch) \in Nat /\ mark' = mark + Len(batch) /\ pc' = "idle"
          /\ UNCHANGED <<lines, received, faults>> /\ pc = "marking"
      BY <1>16, LenProperties DEF MarkShipped
    <2>2. ASSUME "watermark" \notin faults, NEW i \in DOMAIN lines, i <= mark', lines[i] # Torn
          PROVE  lines[i] \in received
      <3>1. CASE i <= mark
        BY <2>2, <3>1
      <3>2. CASE i > mark
        <4>1. i - mark \in 1..Len(batch) /\ mark + (i - mark) = i
          BY <2>1, <2>2, <3>2
        <4>2. batch[i - mark] = lines[i]
          BY <2>1, <2>2, <4>1
        <4>3. QED
          BY <2>1, <2>2, <4>1, <4>2
      <3>3. QED
        BY <2>2, <3>1, <3>2
    <2>3. "watermark" \notin faults => mark' <= Len(lines)
      BY <2>1
    <2>4. QED
      BY <2>1, <2>2, <2>3
  <1>17. CASE MarkUnreadable
    BY <1>17 DEF MarkUnreadable, Fault
  <1>18. CASE Restart
    BY <1>18 DEF Restart, SweepOver
  <1>19. CASE UNCHANGED vars
    BY <1>19 DEF vars
  <1>20. QED
    BY <1>1, <1>2, <1>3, <1>4, <1>5, <1>6, <1>7, <1>8, <1>9, <1>10,
       <1>11, <1>12, <1>13, <1>14, <1>15, <1>16, <1>17, <1>18, <1>19
    DEF Next, Broker, Ask, Absorb, Shipper

LEMMA InitInv == Init => IInv
  <1> SUFFICES ASSUME Init PROVE IInv
    OBVIOUS
  <1>1. lines \in Seq(Key \cup {Torn}) /\ batch \in Seq(Key \cup {Torn}) /\ Len(lines) = 0
        /\ DOMAIN lines = {}
    BY EmptySeq DEF Init
  <1>2. Readable = {}
    BY <1>1 DEF Readable, ToSet
  <1>3. TypeOK
    BY <1>1 DEF Init, TypeOK, Nothing
  <1>4. RowsInv /\ HistoryInv /\ HistoryStaysPrivate
    BY <1>2 DEF Init, RowsInv, HistoryInv, HistoryStaysPrivate, Nothing
  <1>5. SeenInv /\ LossInv /\ MarkInv /\ NothingSkipped
    BY <1>1, <1>2 DEF Init, SeenInv, JournaledOnce, LossInv, MarkInv, NothingSkipped
  <1>6. QED
    BY <1>3, <1>4, <1>5 DEF IInv

----------------------------------------------------------------------------

(***************************************************************************)
(* The invariant holds however sweeps, faults, crashes and shipping mix.    *)
(***************************************************************************)
THEOREM Inductive == Spec => []IInv
  <1>1. Init => IInv
    BY InitInv
  <1>2. IInv /\ [Next]_vars => IInv'
    BY TypeStep, RowsStep, HistoryStep, SeenStep, LossStep, MarkStep DEF IInv
  <1>3. QED
    BY <1>1, <1>2, PTL DEF Spec

(***************************************************************************)
(* The fill journal holds the news: no history of the owner's, no row       *)
(* twice, and one row lost to a torn append at most.                        *)
(***************************************************************************)
THEOREM HoldsNews == Spec => []JournalHoldsNews
  <1>1. IInv => LossBounded
    <2> SUFFICES ASSUME IInv PROVE LossBounded
      OBVIOUS
    <2> DEFINE Lost == appended \ Readable
    <2>1. \A j, k \in Lost : j = k
      BY DEF IInv, LossInv
    <2>2. CASE Lost = {}
      BY <2>2, FS_EmptySet DEF LossBounded
    <2>3. CASE Lost # {}
      <3>1. PICK k \in Lost : Lost = {k}
        BY <2>1, <2>3
      <3>2. Cardinality(Lost) = 1
        BY <3>1, FS_Singleton
      <3>3. "append" \in faults
        BY <2>3 DEF IInv, LossInv
      <3>4. QED
        BY <3>2, <3>3 DEF LossBounded
    <2>4. QED
      BY <2>2, <2>3
  <1>2. IInv => JournalHoldsNews
    BY <1>1 DEF IInv, SeenInv, JournalHoldsNews
  <1>3. QED
    BY <1>2, Inductive, PTL

(***************************************************************************)
(* The watermark never passes a row the platform does not have.             *)
(***************************************************************************)
THEOREM SkipsNothing == Spec => []NothingSkipped
  <1>1. IInv => NothingSkipped
    BY DEF IInv
  <1>2. QED
    BY <1>1, Inductive, PTL
============================================================================
