---------------------------- MODULE FillJournal ----------------------------
(***************************************************************************)
(* The fill journal: a sweep reads each account's order rows, anchors an    *)
(* account it sees for the first time and journals what is new              *)
(* (edge/fills.py), into an append-only file whose watermark says how much  *)
(* of it the platform has (edge/journal.py).  The decision journal          *)
(* (edge/audit.py) is the same file format behind another shipper.          *)
(*                                                                         *)
(* A step runs from one await or durable write to the next.  The            *)
(* reconciliation that a sweep calls in between is SettleOrder of OrderPath  *)
(* and MatchFill of Supervision; to the journal it is a pause.              *)
(***************************************************************************)
EXTENDS Integers, Sequences, FiniteSets, SequencesExt

CONSTANTS
  Order,      \* broker orders
  Account,    \* (connector, account) pairs
  AccountOf,  \* where each order is placed
  Listed,     \* the statuses list_orders answers with: the filled ones, if the
              \* connector declares its word for filled, or its default
  Limit,      \* SHIP_LIMIT: lines per request
  FaultKinds, \* bound: the file faults considered, each of which happens once
  MaxFaults,  \* bound: how many of them happen
  MaxCrashes  \* bound: how often the process dies and comes back

\* An append that raises, with any part of its line written; an anchor file and
\* a watermark that cannot be read for a moment; an answer that is not a list.
AllFaults == {"append", "anchor", "watermark", "garbled"}

ASSUME FillJournalAssumption ==
  /\ AccountOf \in [Order -> Account]
  /\ Listed \in [Account -> SUBSET {"working", "filled"}]
  /\ \A a \in Account : "filled" \in Listed[a]
  /\ Limit \in Nat \ {0}
  /\ FaultKinds \subseteq AllFaults
  /\ MaxFaults \in Nat /\ MaxCrashes \in Nat

VARIABLES
  order,       \* broker: none, working or filled
  anchored,    \* fills-anchor.json: the accounts it names
  anchor,      \* fills-anchor.json: the keys it holds, of all accounts
  seen,        \* FillsReporter._seen
  lines,       \* fills.jsonl: keys, or Torn for a line that does not parse
  open,        \* fills.jsonl: the last line has no end yet
  mark,        \* fills.shipped: how many lines are shipped
  pc,          \* the sweep: where it is
  left,        \* the sweep: accounts to ask, then accounts to absorb
  rows,        \* the sweep: the keys each account answered with
  answered,    \* the sweep: the accounts that answered
  batch,       \* the shipper: the lines it sends
  received,    \* platform: the keys it has
  past,        \* history: what the accounts held when they were first anchored
  ever,        \* history: the accounts that were anchored at some point
  appended,    \* history: keys whose append returned
  faults, crashes

fileVars  == <<anchored, anchor, lines, open, mark>>
sweepVars == <<left, rows, answered>>
bounds    == <<faults, crashes>>
vars == <<order, fileVars, seen, pc, sweepVars, batch, received, past, ever, appended, bounds>>

Torn == <<"torn", "torn">>

\* A row's identity in the seen-set: its order and its status.
Key == Order \X {"working", "filled"}
Shown(a) == {k \in Key : AccountOf[k[1]] = a /\ order[k[1]] = k[2] /\ k[2] \in Listed[a]}
Readable == ToSet(lines) \ {Torn}

TypeOK ==
  /\ order \in [Order -> {"none", "working", "filled"}]
  /\ anchored \subseteq Account /\ anchor \subseteq Key /\ seen \subseteq Key
  /\ lines \in Seq(Key \cup {Torn}) /\ open \in BOOLEAN /\ mark \in Nat
  /\ pc \in {"idle", "asking", "absorbing", "shipping", "marking"}
  /\ left \subseteq Account /\ answered \subseteq Account
  /\ rows \in [Account -> SUBSET Key]
  /\ batch \in Seq(Key \cup {Torn})
  /\ received \subseteq Key /\ past \subseteq Key /\ ever \subseteq Account /\ appended \subseteq Key
  /\ faults \subseteq AllFaults /\ crashes \in Nat

Nothing == [a \in Account |-> {}]

Init ==
  /\ order \in [Order -> {"none", "working", "filled"}]
  /\ anchored = {} /\ anchor = {} /\ seen = {}
  /\ lines = <<>> /\ open = FALSE /\ mark = 0
  /\ pc = "idle" /\ left = {} /\ rows = Nothing /\ answered = {} /\ batch = <<>>
  /\ received = {} /\ past = {} /\ ever = {} /\ appended = {}
  /\ faults = {} /\ crashes = 0

Fault(kind) ==
  /\ kind \in FaultKinds \ faults /\ Cardinality(faults) < MaxFaults
  /\ faults' = faults \cup {kind}
  /\ crashes' = crashes

----------------------------------------------------------------------------
(* The broker.                                                              *)

OrderMoves(o) ==
  /\ order[o] # "filled"
  /\ order' = [order EXCEPT ![o] = IF @ = "none" THEN "working" ELSE "filled"]
  /\ UNCHANGED <<fileVars, seen, pc, sweepVars, batch, received, past, ever, appended, bounds>>

----------------------------------------------------------------------------
(* FillsReporter.sweep.                                                     *)

SweepStart ==
  /\ pc = "idle" /\ pc' = "asking"
  /\ left' = Account
  /\ UNCHANGED <<order, fileVars, seen, rows, answered, batch, received, past, ever, appended, bounds>>

SweepOver == pc' = "idle" /\ left' = {} /\ rows' = Nothing /\ answered' = {}

AccountAnswers(a) ==
  /\ pc = "asking" /\ a \in left
  /\ left' = left \ {a} /\ answered' = answered \cup {a}
  /\ rows' = [rows EXCEPT ![a] = Shown(a)]
  /\ UNCHANGED <<order, fileVars, seen, pc, batch, received, past, ever, appended, bounds>>

\* account_rows takes an answer that is not the list the map declares for an
\* account without orders.
AccountGarbled(a) ==
  /\ pc = "asking" /\ a \in left
  /\ Fault("garbled")
  /\ left' = left \ {a} /\ answered' = answered \cup {a}
  /\ rows' = [rows EXCEPT ![a] = {}]
  /\ past' = IF a \in ever THEN past ELSE past \cup Shown(a)
  /\ UNCHANGED <<order, fileVars, seen, pc, batch, received, ever, appended>>

\* A failed read proves nothing about the account: it is left out.
AccountFails(a) ==
  /\ pc = "asking" /\ a \in left
  /\ left' = left \ {a}
  /\ UNCHANGED <<order, fileVars, seen, pc, rows, answered, batch, received, past, ever,
                 appended, bounds>>

AskDone ==
  /\ pc = "asking" /\ left = {}
  /\ pc' = "absorbing" /\ left' = answered /\ answered' = {}
  /\ UNCHANGED <<order, fileVars, seen, rows, batch, received, past, ever,
                 appended, bounds>>

\* The sweep is through with an account.
Done(a) == left' = left \ {a} /\ rows' = [rows EXCEPT ![a] = {}]

\* What an account holds when it is first anchored is the owner's history.
Remember(a) ==
  /\ ever' = ever \cup {a}
  /\ past' = IF a \in ever THEN past ELSE past \cup rows[a]

\* First sight of an account: its keys are recorded and nothing is journaled.
AnchorAccount(a) ==
  /\ pc = "absorbing" /\ a \in left \ anchored
  /\ Done(a)
  /\ anchored' = anchored \cup {a} /\ anchor' = anchor \cup rows[a]
  /\ seen' = seen \cup rows[a]
  /\ Remember(a)
  /\ UNCHANGED <<order, lines, open, mark, pc, answered, batch, received,
                 appended, bounds>>

\* _load answered {} for a file it could not read: the account passes for a new
\* one, if it is not one.  Read again inside anchor, the file is whole and keeps an
\* entry it has, or it is not and is replaced by one that names this account alone.
AnchorUnreadable(a) ==
  /\ pc = "absorbing" /\ a \in left
  /\ Fault("anchor")
  /\ Done(a)
  /\ seen' = seen \cup rows[a]
  /\ \/ a \in anchored /\ UNCHANGED <<anchored, anchor>>
     \/ anchored' = {a} /\ anchor' = rows[a]
  /\ Remember(a)
  /\ UNCHANGED <<order, lines, open, mark, pc, answered, batch, received, appended>>

\* A line written after an unfinished one becomes part of it, and neither parses.
Written(k) ==
  /\ lines' = IF open THEN [lines EXCEPT ![Len(lines)] = Torn] ELSE Append(lines, k)
  /\ open' = FALSE

\* Mutant: what is in the anchor is only remembered through the seen-set.
NewSinceStart(a) == {k \in rows[a] : k \notin seen}

\* Mutant: an order is known by its id alone.
NewByOrder(a) == {k \in rows[a] : \A s \in {"working", "filled"} : <<k[1], s>> \notin seen \cup anchor}

New(a) == {k \in rows[a] : k \notin seen /\ k \notin anchor}

JournalRow(a) ==
  /\ pc = "absorbing" /\ a \in left \cap anchored
  /\ \E k \in New(a) :
       /\ seen' = seen \cup {k} /\ appended' = appended \cup {k}
       /\ Written(k)
  /\ UNCHANGED <<order, anchored, anchor, mark, pc, sweepVars, batch, received, past, ever,
                 bounds>>

\* append raised, or the process is about to die in it: nothing, a piece or all of
\* the line but its end was written, and the sweep is over.  It happens once, so
\* the line before it has its end.
JournalFails(a) ==
  /\ pc = "absorbing" /\ a \in left \cap anchored
  /\ Fault("append")
  /\ SweepOver
  /\ \E k \in New(a) :
       /\ seen' = seen \cup {k}
       /\ \/ UNCHANGED <<lines, open>>
          \/ \E written \in {k, Torn} : lines' = Append(lines, written) /\ open' = TRUE
  /\ UNCHANGED <<order, anchored, anchor, mark, batch, received, past, ever, appended>>

AccountAbsorbed(a) ==
  /\ pc = "absorbing" /\ a \in left \cap anchored /\ New(a) = {}
  /\ Done(a)
  /\ UNCHANGED <<order, fileVars, seen, pc, answered, batch, received, past, ever,
                 appended, bounds>>

----------------------------------------------------------------------------
(* FillsReporter._ship and the Journal's watermark.  A batch without a row   *)
(* is not sent, only marked.                                                *)

Pending(from) == SubSeq(lines, from + 1, IF from + Limit < Len(lines) THEN from + Limit
                                         ELSE Len(lines))

Ship(from) ==
  /\ pc = "absorbing" /\ left = {}
  /\ batch' = Pending(from)
  /\ pc' = CASE Pending(from) = <<>>                 -> "idle"
             [] ToSet(Pending(from)) = {Torn}        -> "marking"
             [] OTHER                                -> "shipping"
  /\ UNCHANGED <<order, fileVars, seen, sweepVars, received, past, ever, appended>>

ShipStart == Ship(mark) /\ UNCHANGED bounds

\* shipped() answers zero for a watermark it cannot read.
ShipUnreadable == mark > 0 /\ Ship(0) /\ Fault("watermark")

\* The platform takes the rows that parse; the answer returns ...
Taken ==
  /\ pc = "shipping" /\ pc' = "marking"
  /\ received' = received \cup (ToSet(batch) \ {Torn})
  /\ UNCHANGED <<order, fileVars, seen, sweepVars, batch, past, ever, appended, bounds>>

\* Mutant: an exception is taken for an acceptance.
ShipFailsMarked ==
  /\ pc = "shipping" /\ pc' = "marking"
  /\ UNCHANGED <<order, fileVars, seen, sweepVars, batch, received, past, ever, appended, bounds>>

\* ... or it is lost, before or after the platform had them.
ShipFails ==
  /\ pc = "shipping" /\ pc' = "idle" /\ batch' = <<>>
  /\ \/ UNCHANGED received
     \/ received' = received \cup (ToSet(batch) \ {Torn})
  /\ UNCHANGED <<order, fileVars, seen, sweepVars, past, ever, appended, bounds>>

\* Mutant: the watermark counts rows, not lines.
MarkRows ==
  /\ pc = "marking" /\ pc' = "idle" /\ batch' = <<>>
  /\ mark' = mark + Cardinality({i \in DOMAIN batch : batch[i] # Torn})
  /\ UNCHANGED <<order, anchored, anchor, lines, open, seen, sweepVars, received, past, ever,
                 appended, bounds>>

MarkShipped ==
  /\ pc = "marking" /\ pc' = "idle" /\ batch' = <<>>
  /\ mark' = mark + Len(batch)
  /\ UNCHANGED <<order, anchored, anchor, lines, open, seen, sweepVars, received, past, ever,
                 appended, bounds>>

\* The same read inside mark_shipped; or write_text died between truncating and
\* writing, and the watermark is empty.
MarkUnreadable ==
  /\ pc = "marking" /\ pc' = "idle" /\ batch' = <<>>
  /\ Fault("watermark")
  /\ mark' \in {0, Len(batch)}
  /\ UNCHANGED <<order, anchored, anchor, lines, open, seen, sweepVars, received, past, ever,
                 appended>>

----------------------------------------------------------------------------

\* The process dies and comes back: the seen-set is what the journal still says.
Restart ==
  /\ crashes < MaxCrashes /\ crashes' = crashes + 1 /\ faults' = faults
  /\ SweepOver /\ batch' = <<>>
  /\ seen' = Readable
  /\ UNCHANGED <<order, fileVars, received, past, ever, appended>>

Broker  == \E o \in Order : OrderMoves(o)
Ask     == \E a \in Account : AccountAnswers(a) \/ AccountGarbled(a) \/ AccountFails(a)
Absorb  == \E a \in Account : \/ AnchorAccount(a) \/ AnchorUnreadable(a)
                              \/ JournalRow(a) \/ JournalFails(a) \/ AccountAbsorbed(a)
Shipper == ShipStart \/ ShipUnreadable \/ Taken \/ ShipFails
           \/ MarkShipped \/ MarkUnreadable

Next == Broker \/ SweepStart \/ Ask \/ AskDone \/ Absorb \/ Shipper \/ Restart

Spec == Init /\ [][Next]_vars

(***************************************************************************)
(* Fairness.  The loop sweeps for ever and its steps end, a hub call and a  *)
(* request at their timeouts.  An account asked again and again answers at  *)
(* some point, and so does the platform.                                    *)
(***************************************************************************)
Fairness ==
  /\ WF_vars(SweepStart) /\ WF_vars(Ask) /\ WF_vars(AskDone) /\ WF_vars(Absorb)
  /\ WF_vars(Shipper) /\ SF_vars(Taken)
  /\ \A a \in Account : SF_vars(AccountAnswers(a))

FairSpec == Spec /\ Fairness

----------------------------------------------------------------------------
(* Properties.                                                              *)

\* What an account held when it was first swept is never journaled, through
\* restarts, a torn journal and an anchor that is written anew, as long as an
\* answer that parses is the broker's (Anchor, FillsReporter._absorb).
HistoryStaysPrivate == "garbled" \notin faults => past \cap Readable = {}

\* No order is journaled twice in one status, although the seen-set dies with the
\* process and torn lines give their rows up (FillsReporter.__init__, _absorb).
JournaledOnce ==
  \A i, j \in DOMAIN lines : lines[i] = lines[j] /\ lines[i] # Torn => i = j

\* The watermark never passes a row the platform does not have, whatever is torn,
\* lost or interrupted, as long as the watermark itself can be read
\* (Journal.pending and mark_shipped count lines; _ship marks after the answer).
NothingSkipped ==
  "watermark" \notin faults =>
    \A i \in DOMAIN lines : i <= mark /\ lines[i] # Torn => lines[i] \in received

\* One torn append costs one other row at most, and it is a row that was written
\* next to it (Journal.append's line at a time).
LossBounded ==
  Cardinality(appended \ Readable) <= IF "append" \in faults THEN 1 ELSE 0

\* The journal holds the news, each once, and little of it is ever lost.
JournalHoldsNews == TypeOK /\ HistoryStaysPrivate /\ JournaledOnce /\ LossBounded

\* What happens after the anchor reaches the platform: a fill is journaled and
\* shipped, across restarts and lost answers, unless a file fault took the row or
\* the watermark with it.
NewReachesPlatform ==
  \A o \in Order :
    (order[o] = "filled" /\ AccountOf[o] \in anchored /\ <<o, "filled">> \notin past)
      ~> (<<o, "filled">> \in received \/ ~(faults \subseteq {"garbled"}))

\* A journal with an unreadable line does not hold up what is behind it: every
\* readable line is shipped (Journal.mark_shipped counts lines).
NothingStranded ==
  \A k \in Key : k \in Readable ~> (k \in received \/ k \notin Readable
                                    \/ "watermark" \in faults)

=============================================================================
