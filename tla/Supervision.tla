---------------------------- MODULE Supervision ----------------------------
(***************************************************************************)
(* The life of a supervised position: a filled entry is recorded            *)
(* (edge/executor.py, _verify_supervision and supervise), the sweep folds   *)
(* what the broker holds into the ledger (edge/supervision.py, reconcile),  *)
(* warrants are renewed (apply_renewals), and the brake exits               *)
(* (edge/brake.py, fire).  Which records a tick finds breached is left      *)
(* open here; BrakeWatch is about that.                                     *)
(*                                                                         *)
(* Four loops share one ledger file on one event loop.  A step below runs   *)
(* from one await to the next; where a loop can also die or a write can     *)
(* raise, the step is cut there.  Positions are long: protocol 1 carries    *)
(* only buys.                                                               *)
(***************************************************************************)
EXTENDS Integers, FiniteSets

CONSTANTS
  Position,       \* position ids, which are the ids of the approvals behind them
  Symbol,         \* (connector, account, symbol) triples
  SymbolOf,       \* where each position is held
  EntryQty,       \* what each entry bought
  Blocked,        \* entries nothing may act on: no account, no market exit
  FirstCeilings,  \* max_qty of the warrants the platform may sign at the grant
  NoPosition,     \* no position is being handled
  MaxHeld,        \* bound: the owner trades by hand up to this quantity
  MaxTrades,      \* bound: how often the owner trades by hand
  MaxRestarts,    \* bound: how often the process dies and comes back
  MaxFaults       \* bound: how many file operations may raise

ASSUME SupervisionAssumption ==
  /\ SymbolOf \in [Position -> Symbol]
  /\ EntryQty \in [Position -> Nat \ {0}]
  /\ Blocked \subseteq Position
  /\ FirstCeilings \subseteq Nat
  /\ NoPosition \notin Position
  /\ MaxHeld \in Nat /\ MaxTrades \in Nat /\ MaxRestarts \in Nat /\ MaxFaults \in Nat

VARIABLES
  held,           \* broker: the quantity held of each symbol
  resting,        \* broker: accepted exits of each position, not yet filled
  entry,          \* the entry's intent: open, filled at the broker, or dropped
  state,          \* ledger: the record's state, or absent
  ceiling,        \* ledger: the stored warrant's max_qty, where there is a warrant
  confirmed,      \* ledger: confirmed_qty
  fpc, fcur,      \* the fills loop: where it is and whose fill it matched
  snap, readable, \* the sweep in hand: quantities, and the symbols it could read
  sweeping,       \* a sweep was taken and is not reconciled yet
  bpc, bcur,      \* the brake: where it is and whom it fires
  due, seen,      \* the brake: the tick's breached records, and their ceilings then
  answer, qty,    \* the brake: what the broker said is held, and what it sells
  exits,          \* history: exits the broker accepted, per position
  records,        \* history: how often the position's record was written
  unrecorded,     \* history: claims whose end could not be written, since the start
  trades, restarts, faults

brokerVars  == <<held, resting>>
ledgerVars  == <<state, ceiling, confirmed>>
fillVars    == <<fpc, fcur>>
sweepVars   == <<snap, readable, sweeping>>
brakeVars   == <<bpc, bcur, due, seen, answer, qty>>
history     == <<exits, records, unrecorded>>
bounds      == <<trades, restarts, faults>>
vars == <<brokerVars, entry, ledgerVars, fillVars, sweepVars, brakeVars,
          history, bounds>>

States   == {"absent", "unguarded", "armed", "firing", "fired", "unknown", "released"}
Terminal == {"firing", "fired", "unknown", "released"}
Live     == {"armed", "unguarded"}

TypeOK ==
  /\ held \in [Symbol -> Int]
  /\ resting \in [Position -> Nat]
  /\ entry \in [Position -> {"open", "filled", "dropped"}]
  /\ state \in [Position -> States]
  /\ ceiling \in [Position -> Nat]
  /\ confirmed \in [Position -> Int]
  /\ fpc \in {"idle", "asked", "shown", "dropping"}
  /\ fcur \in Position \cup {NoPosition}
  /\ snap \in [Symbol -> Int] /\ readable \in SUBSET Symbol /\ sweeping \in BOOLEAN
  /\ bpc \in {"idle", "ticking", "asked", "answered", "calling", "inflight"}
  /\ bcur \in Position \cup {NoPosition}
  /\ due \in SUBSET Position /\ seen \in [Position -> Nat]
  /\ answer \in Int /\ qty \in Int
  /\ exits \in [Position -> Nat] /\ records \in [Position -> Nat]
  /\ unrecorded \in SUBSET Position
  /\ trades \in Nat /\ restarts \in Nat /\ faults \in Nat

Zero == [p \in Position |-> 0]

Init ==
  /\ held = [s \in Symbol |-> 0] /\ resting = Zero
  /\ entry = [p \in Position |-> "open"]
  /\ state = [p \in Position |-> "absent"]
  /\ ceiling = Zero /\ confirmed = Zero
  /\ fpc = "idle" /\ fcur = NoPosition
  /\ snap = [s \in Symbol |-> 0] /\ readable = {} /\ sweeping = FALSE
  /\ bpc = "idle" /\ bcur = NoPosition /\ due = {} /\ seen = Zero
  /\ answer = 0 /\ qty = 0
  /\ exits = Zero /\ records = Zero /\ unrecorded = {}
  /\ trades = 0 /\ restarts = 0 /\ faults = 0

----------------------------------------------------------------------------
(* Helpers.                                                                 *)

Least(m, n) == IF m <= n THEN m ELSE n

\* mark: a record that is there takes the state, whatever it was.  Firing and
\* releasing zero what heat is computed from.
Mark(p, new) ==
  IF state[p] = "absent"
  THEN UNCHANGED ledgerVars
  ELSE /\ state' = [state EXCEPT ![p] = new]
       /\ confirmed' = IF new \in {"fired", "released"}
                       THEN [confirmed EXCEPT ![p] = 0] ELSE confirmed
       /\ ceiling' = ceiling

\* The broker now holds n of s.
Holds(s, n) == held' = [held EXCEPT ![s] = n]

Fault ==
  /\ faults < MaxFaults
  /\ faults' = faults + 1
  /\ UNCHANGED <<trades, restarts>>

\* load answered {} for a file it could not open, and the caller saved that.
Emptied ==
  /\ state' = [p \in Position |-> "absent"]
  /\ ceiling' = Zero /\ confirmed' = Zero

\* The brake turns to the rest of its tick, or the tick was cut by an exception.
ForgetFill  == fpc' = "idle" /\ fcur' = NoPosition
ForgetSweep == sweeping' = FALSE /\ readable' = {} /\ snap' = [s \in Symbol |-> 0]
Forget      == bcur' = NoPosition /\ answer' = 0 /\ qty' = 0
NextDue     == bpc' = "ticking" /\ Forget /\ UNCHANGED <<due, seen>>
AbortTick   == bpc' = "idle" /\ Forget /\ due' = {} /\ seen' = Zero

----------------------------------------------------------------------------
(* The broker and the owner.                                                *)

EntryFills(p) ==
  /\ entry[p] = "open"
  /\ entry' = [entry EXCEPT ![p] = "filled"]
  /\ Holds(SymbolOf[p], held[SymbolOf[p]] + EntryQty[p])
  /\ UNCHANGED <<resting, ledgerVars, fillVars, sweepVars, brakeVars,
                 history, bounds>>

ExitFills(p) ==
  /\ resting[p] > 0
  /\ resting' = [resting EXCEPT ![p] = 0]
  /\ Holds(SymbolOf[p], held[SymbolOf[p]] - resting[p])
  /\ UNCHANGED <<entry, ledgerVars, fillVars, sweepVars, brakeVars,
                 history, bounds>>

OwnerTrades(s) ==
  /\ trades < MaxTrades
  /\ trades' = trades + 1
  /\ \E n \in 0..MaxHeld : n # held[s] /\ Holds(s, n)
  /\ UNCHANGED <<resting, entry, ledgerVars, fillVars, sweepVars, brakeVars,
                 history, restarts, faults>>

----------------------------------------------------------------------------
(* The fills loop: a submitted entry whose order id appears filled.          *)

\* The row matched and position_rows is on its way.
MatchFill(p) ==
  /\ fpc = "idle" /\ entry[p] = "filled"
  /\ fpc' = "asked" /\ fcur' = p
  /\ UNCHANGED <<brokerVars, entry, ledgerVars, sweepVars, brakeVars, history,
                 bounds>>

\* The broker shows the entry's side of the symbol.
RowsShowEntry ==
  /\ fpc = "asked" /\ held[SymbolOf[fcur]] > 0
  /\ fpc' = "shown"
  /\ UNCHANGED <<brokerVars, entry, ledgerVars, fcur, sweepVars, brakeVars,
                 history, bounds>>

\* Mutant: an entry that cannot be supervised yet keeps its intent.
KeepUnsupervised ==
  /\ fpc \in {"asked", "shown"}
  /\ ForgetFill
  /\ UNCHANGED <<brokerVars, entry, ledgerVars, sweepVars, brakeVars, history,
                 bounds>>

\* The row did not match the order, the positions are unreadable or do not show
\* it, or supervise made no record: alert the owner and drop the intent.
Unsupervised ==
  /\ fpc \in {"asked", "shown"}
  /\ fpc' = "dropping"
  /\ UNCHANGED <<brokerVars, entry, ledgerVars, fcur, sweepVars, brakeVars,
                 history, bounds>>

\* The record supervise writes, over whatever had its id: armed under the
\* platform's warrant, or unguarded when it is blocked or has none.
Recorded(st, ceil, conf) ==
  /\ \/ /\ fcur \notin Blocked
        /\ state' = [st EXCEPT ![fcur] = "armed"]
        /\ \E c \in FirstCeilings : ceiling' = [ceil EXCEPT ![fcur] = c]
     \/ /\ state' = [st EXCEPT ![fcur] = "unguarded"]
        /\ ceiling' = [ceil EXCEPT ![fcur] = 0]
  /\ confirmed' = [conf EXCEPT ![fcur] = EntryQty[fcur]]
  /\ records' = [records EXCEPT ![fcur] = @ + 1]
  /\ unrecorded' = unrecorded \ {fcur}

Supervise ==
  /\ fpc = "shown" /\ fpc' = "dropping"
  /\ Recorded(state, ceiling, confirmed)
  /\ UNCHANGED <<brokerVars, entry, fcur, sweepVars, brakeVars, exits, bounds>>

\* record loaded {} from a ledger that would not open: this record is the ledger.
SuperviseBlind ==
  /\ fpc = "shown" /\ fpc' = "dropping"
  /\ Fault
  /\ Recorded([p \in Position |-> "absent"], Zero, Zero)
  /\ UNCHANGED <<brokerVars, entry, fcur, sweepVars, brakeVars, exits>>

DropEntry ==
  /\ fpc = "dropping"
  /\ entry' = [entry EXCEPT ![fcur] = "dropped"]
  /\ ForgetFill
  /\ UNCHANGED <<brokerVars, ledgerVars, sweepVars, brakeVars, history, bounds>>

\* drop_intent raised: the next sweep matches the same fill again.
DropEntryFails ==
  /\ fpc = "dropping" /\ Fault
  /\ ForgetFill
  /\ UNCHANGED <<brokerVars, entry, ledgerVars, sweepVars, brakeVars, history>>

----------------------------------------------------------------------------
(* The portfolio loop and the syncer.                                       *)

\* snapshot_and_push read the positions; the push to the platform is awaited.
Sweep ==
  /\ ~sweeping
  /\ sweeping' = TRUE /\ snap' = held
  /\ readable' \in SUBSET Symbol
  /\ UNCHANGED <<brokerVars, entry, ledgerVars, fillVars, brakeVars, history,
                 bounds>>

\* Mutant: a sweep speaks about closed records too.
SpokenOfAll == {p \in Position : state[p] # "absent" /\ SymbolOf[p] \in readable}

\* Whose record this sweep speaks about.
Spoken == {p \in Position : state[p] \in Live /\ SymbolOf[p] \in readable}

\* Mutant: a symbol missing from the snapshot says nothing.
ReconcilePresent ==
  /\ sweeping
  /\ ForgetSweep
  /\ state' = state
  /\ confirmed' = [p \in Position |->
       IF p \in Spoken /\ snap[SymbolOf[p]] >= 0
       THEN Least(snap[SymbolOf[p]], EntryQty[p]) ELSE confirmed[p]]
  /\ UNCHANGED <<brokerVars, entry, ceiling, fillVars, brakeVars, history, bounds>>

Reconcile ==
  /\ sweeping
  /\ ForgetSweep
  /\ state' = [p \in Position |->
       IF p \in Spoken /\ snap[SymbolOf[p]] = 0 THEN "released" ELSE state[p]]
  /\ confirmed' = [p \in Position |->
       IF p \in Spoken /\ snap[SymbolOf[p]] >= 0
       THEN Least(snap[SymbolOf[p]], EntryQty[p]) ELSE confirmed[p]]
  /\ UNCHANGED <<brokerVars, entry, ceiling, fillVars, brakeVars, history, bounds>>

\* The ledger would not open: load answers {}, and reconcile saves that.
ReconcileBlind ==
  /\ sweeping /\ Fault
  /\ ForgetSweep
  /\ Emptied
  /\ UNCHANGED <<brokerVars, entry, fillVars, brakeVars, history>>

\* Mutant: a warrant promotes a record no exit can be built for.
RenewBlocked(p) ==
  /\ state[p] \in Live
  /\ \E c \in 0..EntryQty[p] : ceiling' = [ceiling EXCEPT ![p] = c]
  /\ state' = [state EXCEPT ![p] = "armed"]
  /\ UNCHANGED <<brokerVars, entry, confirmed, fillVars, sweepVars, brakeVars,
                 history,
                 bounds>>

\* apply_renewals, one warrant of the batch: never wider than the entry.
Renew(p) ==
  /\ state[p] \in Live /\ p \notin Blocked
  /\ \E c \in 0..EntryQty[p] : ceiling' = [ceiling EXCEPT ![p] = c]
  /\ state' = [state EXCEPT ![p] = "armed"]
  /\ UNCHANGED <<brokerVars, entry, confirmed, fillVars, sweepVars, brakeVars,
                 history,
                 bounds>>

\* ... and the same save over a ledger that would not open.
RenewBlind ==
  /\ Fault /\ Emptied
  /\ UNCHANGED <<brokerVars, entry, fillVars, sweepVars, brakeVars, history>>

----------------------------------------------------------------------------
(* The brake.                                                               *)

\* tick loads the ledger once; the breached ones among the armed are fired in turn.
TickStart ==
  /\ bpc = "idle"
  /\ bpc' = "ticking"
  /\ due' \in (SUBSET {p \in Position : state[p] = "armed"}) \ {{}}
  /\ seen' = ceiling
  /\ UNCHANGED <<brokerVars, entry, ledgerVars, fillVars, sweepVars, bcur,
                 answer, qty,
                 history, bounds>>

TickEnd ==
  /\ bpc = "ticking" /\ due = {}
  /\ AbortTick
  /\ UNCHANGED <<brokerVars, entry, ledgerVars, fillVars, sweepVars, history,
                 bounds>>

\* fire asks the broker what is held this instant.
FireAsks(p) ==
  /\ bpc = "ticking" /\ p \in due
  /\ bpc' = "asked" /\ bcur' = p /\ due' = due \ {p}
  /\ UNCHANGED <<brokerVars, entry, ledgerVars, fillVars, sweepVars, seen,
                 answer, qty,
                 history, bounds>>

BrokerAnswers ==
  /\ bpc = "asked"
  /\ bpc' = "answered" /\ answer' = held[SymbolOf[bcur]]
  /\ UNCHANGED <<brokerVars, entry, ledgerVars, fillVars, sweepVars, bcur, due,
                 seen, qty,
                 history, bounds>>

\* No readable answer, an expired or forged warrant, no way to build the exit.
FireRefuses ==
  /\ bpc \in {"asked", "answered"}
  /\ NextDue
  /\ UNCHANGED <<brokerVars, entry, ledgerVars, fillVars, sweepVars, history,
                 bounds>>

FireReleases ==
  /\ bpc = "answered" /\ answer <= 0
  /\ Mark(bcur, "released")
  /\ NextDue
  /\ UNCHANGED <<brokerVars, entry, fillVars, sweepVars, history, bounds>>

\* Mutant: the order is sized by the broker alone.
ClaimUnclamped ==
  /\ bpc = "answered" /\ answer > 0 /\ seen[bcur] > 0
  /\ state[bcur] = "armed"
  /\ Mark(bcur, "firing")
  /\ qty' = answer
  /\ bpc' = "calling"
  /\ UNCHANGED <<brokerVars, entry, fillVars, sweepVars, bcur, due, seen, answer,
                 history,
                 bounds>>

\* Mutant: mark instead of claim, whatever the record has become.
ClaimWithoutCompare ==
  /\ bpc = "answered" /\ answer > 0 /\ seen[bcur] > 0
  /\ Mark(bcur, "firing")
  /\ qty' = Least(answer, seen[bcur])
  /\ bpc' = "calling"
  /\ UNCHANGED <<brokerVars, entry, fillVars, sweepVars, bcur, due, seen, answer,
                 history,
                 bounds>>

\* Sized, verified and claimed: the warrant is spent before the call.
FireClaims ==
  /\ bpc = "answered" /\ answer > 0 /\ seen[bcur] > 0
  /\ state[bcur] = "armed"
  /\ Mark(bcur, "firing")
  /\ qty' = Least(answer, seen[bcur])
  /\ bpc' = "calling"
  /\ UNCHANGED <<brokerVars, entry, fillVars, sweepVars, bcur, due, seen, answer,
                 history,
                 bounds>>

\* Another pass moved the record first.  (A ledger that would not open also loses
\* the claim; to the ledger that is a refusal.)
FireLosesClaim ==
  /\ bpc = "answered" /\ answer > 0 /\ state[bcur] # "armed"
  /\ NextDue
  /\ UNCHANGED <<brokerVars, entry, ledgerVars, fillVars, sweepVars, history,
                 bounds>>

\* The broker takes the exit; its answer is on the way.
ExitTaken ==
  /\ bpc = "calling"
  /\ bpc' = "inflight"
  /\ resting' = [resting EXCEPT ![bcur] = @ + qty]
  /\ exits' = [exits EXCEPT ![bcur] = @ + 1]
  /\ UNCHANGED <<held, entry, ledgerVars, fillVars, sweepVars, bcur, due, seen,
                 answer, qty,
                 records, unrecorded, bounds>>

\* GuardrailDenied: it never left the machine, so the record is armed again.
ExitDenied ==
  /\ bpc = "calling"
  /\ Mark(bcur, "armed")
  /\ NextDue
  /\ UNCHANGED <<brokerVars, entry, fillVars, sweepVars, history, bounds>>

\* hub.call returns: the acceptance, or from calling a tool result with is_error.
ExitReturns ==
  /\ bpc \in {"calling", "inflight"}
  /\ Mark(bcur, "fired")
  /\ NextDue
  /\ UNCHANGED <<brokerVars, entry, fillVars, sweepVars, history, bounds>>

\* Any other exception: the exit may or may not have reached the broker.
ExitBreaks ==
  /\ bpc \in {"calling", "inflight"}
  /\ Mark(bcur, "unknown")
  /\ NextDue
  /\ UNCHANGED <<brokerVars, entry, fillVars, sweepVars, history, bounds>>

\* The journal or the mark raised and the tick dies, or mark could not open the
\* ledger and returned: the record stays firing.
ExitUnrecorded ==
  /\ bpc \in {"calling", "inflight"} /\ Fault
  /\ unrecorded' = unrecorded \cup {bcur}
  /\ AbortTick \/ NextDue
  /\ UNCHANGED <<brokerVars, entry, ledgerVars, fillVars, sweepVars, exits, records>>

----------------------------------------------------------------------------

\* Mutant: an interrupted exit is armed again.
RestartRearms ==
  /\ restarts < MaxRestarts
  /\ restarts' = restarts + 1
  /\ state' = [p \in Position |-> IF state[p] = "firing" THEN "armed" ELSE state[p]]
  /\ unrecorded' = {}
  /\ ForgetFill /\ ForgetSweep /\ AbortTick
  /\ UNCHANGED <<brokerVars, entry, ceiling, confirmed, exits, records, trades, faults>>

\* Mutant: nothing closes an interrupted exit.
RestartForgets ==
  /\ restarts < MaxRestarts
  /\ restarts' = restarts + 1
  /\ state' = state
  /\ unrecorded' = {}
  /\ ForgetFill /\ ForgetSweep /\ AbortTick
  /\ UNCHANGED <<brokerVars, entry, ceiling, confirmed, exits, records, trades, faults>>

\* The process dies and comes back: recover_interrupted closes what was firing.
Restart ==
  /\ restarts < MaxRestarts
  /\ restarts' = restarts + 1
  /\ state' = [p \in Position |-> IF state[p] = "firing" THEN "unknown" ELSE state[p]]
  /\ unrecorded' = {}
  /\ ForgetFill /\ ForgetSweep /\ AbortTick
  /\ UNCHANGED <<brokerVars, entry, ceiling, confirmed, exits, records, trades, faults>>

Broker == \E p \in Position : EntryFills(p) \/ ExitFills(p)
Owner  == \E s \in Symbol : OwnerTrades(s)
Fills  == \/ \E p \in Position : MatchFill(p)
          \/ RowsShowEntry \/ Unsupervised \/ Supervise \/ SuperviseBlind
          \/ DropEntry \/ DropEntryFails
Portfolio == Sweep \/ Reconcile \/ ReconcileBlind
Syncer    == RenewBlind \/ \E p \in Position : Renew(p)
Brake ==
  \/ TickStart \/ TickEnd \/ BrokerAnswers \/ FireRefuses \/ FireReleases \/ FireClaims
  \/ FireLosesClaim \/ ExitTaken \/ ExitDenied \/ ExitReturns \/ ExitBreaks \/ ExitUnrecorded
  \/ \E p \in Position : FireAsks(p)

Next == Broker \/ Owner \/ Fills \/ Portfolio \/ Syncer \/ Brake \/ Restart

Spec == Init /\ [][Next]_vars

(***************************************************************************)
(* Fairness.  A hub call ends, at its read timeout if not before; the fills *)
(* loop comes back to every intent as long as the broker lists its fill,    *)
(* and the portfolio loop sweeps for ever and reads each symbol again and   *)
(* again.                                                                   *)
(***************************************************************************)
CallEnds == ExitDenied \/ ExitReturns \/ ExitBreaks
FillsGoOn == RowsShowEntry \/ Unsupervised \/ Supervise \/ DropEntry
Reads(s) == Sweep /\ s \in readable'

Fairness ==
  /\ WF_vars(CallEnds) /\ WF_vars(FillsGoOn) /\ WF_vars(Reconcile)
  /\ \A p \in Position : SF_vars(MatchFill(p)) /\ SF_vars(Reads(SymbolOf[p]))

FairSpec == Spec /\ Fairness

----------------------------------------------------------------------------
(* Properties.                                                              *)

\* Of one record the broker accepts one exit, whatever crashes, losses and
\* rewrites of the ledger come between: the claim spends the warrant before the
\* call (Brake.fire) and what a crash left firing is never armed again
\* (recover_interrupted).
ExitPerRecord == \A p \in Position : exits[p] <= records[p]

\* What makes it inductive: a record that may still fire, and a claim whose call
\* has not reached the broker, each stand for an exit to come.
MayExit(p) == (IF state[p] \in Live /\ p \notin Blocked THEN 1 ELSE 0)
            + (IF bpc = "calling" /\ bcur = p THEN 1 ELSE 0)
ExitBudget == \A p \in Position : exits[p] + MayExit(p) <= records[p]

\* The ledger and its loops keep the brake's promise: a permit is a record that
\* may still fire or a claim whose call is not at the broker yet.
Promise == INSTANCE ExitPromise WITH permits <- [p \in Position |-> MayExit(p)]
KeepsExitPromise == Promise!Spec

\* No warrant, however it arrives, makes a blocked entry sellable
\* (supervise, renewal_request and apply_renewals each refuse it).
BlockedNeverSold ==
  \A p \in Blocked : exits[p] = 0 /\ state[p] \notin {"armed", "firing", "fired"}

\* No renewal, and no copy the tick took of the ledger before it awaited, ever
\* carries authority over more than the entry bought (apply_renewals' bound).
CeilingInv ==
  \A p \in Position : ceiling[p] <= EntryQty[p] /\ seen[p] <= EntryQty[p]

\* What is sold is never more than the entry bought, through every renewal and
\* every re-read of the broker between the tick and the order, provided the first
\* warrant was within the entry (apply_renewals, Brake.fire's clamp).
ExitWithinEntry == bpc \in {"calling", "inflight"} => qty \in 1..EntryQty[bcur]

FirstWithinEntry == \A p \in Position : \A c \in FirstCeilings : c <= EntryQty[p]

\* A record whose risk is closed keeps nothing in the heat, though sweeps and
\* the broker's own position go on (mark, reconcile's skip of TERMINAL).
ClosedCarriesNoRisk ==
  \A p \in Position : state[p] \in {"fired", "released"} => confirmed[p] = 0

\* A record written once and closed is not reopened: not by a sweep, a renewal or
\* a lost claim, nor by a restart (TERMINAL in reconcile and apply_renewals,
\* claim's comparison).
ClosedStaysClosed ==
  [][\A p \in Position :
       (records[p] = 1 /\ state[p] \in Terminal \ {"firing"})
         => (state'[p] \in {state[p], "absent"} \/ records'[p] = 2)]_vars

\* Every claim is closed: the call's end or, after a death, recover_interrupted
\* moves the record out of firing; EXCEPT a claim whose end could not be written
\* down, because the journal or the mark failed in fire's own handlers
\* (brake.py:574, 596).  That one may stay firing until the next start, for ever
\* if there is none.
FiringIsClosed ==
  \A p \in Position :
    state[p] = "firing" ~> (state[p] # "firing" \/ p \in unrecorded)

\* A filled entry ends supervised or reported, never matched for ever
\* (reconcile_submitted_fills drops the intent on every path).
FilledIsSettled ==
  \A p \in Position : entry[p] = "filled" ~> entry[p] = "dropped"

\* Once a symbol stays flat at the broker its records stop being live: the ledger
\* does not go on guarding what is gone (reconcile, Brake.fire).
GoneIsReleased ==
  \A p \in Position :
    <>[](held[SymbolOf[p]] = 0) => <>[](state[p] \notin Live)

----------------------------------------------------------------------------
(* What the safety properties rest on, inductive over Next.                  *)

\* Who is being handled, where a loop handles somebody,
\* and the size of an exit under way.
ControlInv ==
  /\ fpc = "idle" <=> fcur = NoPosition
  /\ bpc \in {"idle", "ticking"} <=> bcur = NoPosition
  /\ bpc \in {"calling", "inflight"} => bcur \notin Blocked /\ qty > 0

\* A position that was recorded once and is still on the tick's list, or is being
\* asked about, has not fired; one whose exit is called is firing.
Handled(p) == p \in due \/ bcur = p
TrailInv ==
  /\ bpc = "idle" => due = {}
  /\ bcur \notin due
  /\ \A p \in Position :
       /\ records[p] = 0 => state[p] = "absent" /\ ~Handled(p)
       /\ records[p] = 1 /\ Handled(p) =>
            state[p] \in IF bcur = p /\ bpc \in {"calling", "inflight"}
                         THEN {"firing", "absent"}
                         ELSE Live \cup {"released", "absent"}

IInv == ControlInv /\ ExitBudget /\ BlockedNeverSold /\ TrailInv

----------------------------------------------------------------------------
(* A claim of the comments that the code does not keep.                      *)

\* edge/brake.py:572, "the record must reflect reality": a record is fired when the
\* broker took its exit.
FiredMeansExited == \A p \in Position : state[p] = "fired" => exits[p] > 0

=============================================================================
