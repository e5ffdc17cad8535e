----------------------------- MODULE BrakeWatch -----------------------------
(***************************************************************************)
(* The watch half of the brake (edge/brake.py): which prices are believed,  *)
(* when a stop counts as touched, and what is said when nothing is seen.    *)
(* What an exit then does is Supervision; here it is one step that closes   *)
(* the record or refuses.                                                   *)
(*                                                                         *)
(* A step runs from one await to the next.  Every trigger is a stop below   *)
(* the market, and every position has a symbol of its own.                  *)
(***************************************************************************)
EXTENDS Integers, FiniteSets

CONSTANTS
  Position,      \* supervised positions
  Price,         \* what the market can be at
  Lie,           \* what a bad print can say
  Stop,          \* the level of each position's warrant
  JumpPct,       \* MAX_JUMP_PCT
  Confirmations, \* BREACH_CONFIRMATIONS
  FamineTicks,   \* QUOTE_FAMINE_TICKS
  All,           \* the whole brake, as a member of what is switched off
  None,          \* no quote, or no prior observation
  MaxLies,       \* bound: bad prints
  MaxFaults,     \* bound: journal writes that raise
  MaxRestarts    \* bound: how often the process dies and comes back

ASSUME BrakeWatchAssumption ==
  /\ IsFiniteSet(Position)
  /\ Price \subseteq Nat \ {0} /\ Lie \subseteq Nat \ {0}
  /\ Stop \in [Position -> Nat]
  /\ JumpPct \in Nat /\ Confirmations \in Nat \ {0} /\ FamineTicks \in Nat \ {0}
  /\ All \notin Position /\ None \notin Price \cup Lie
  /\ MaxLies \in Nat /\ MaxFaults \in Nat /\ MaxRestarts \in Nat

VARIABLES
  market,   \* the price of each position's symbol
  record,   \* supervised.json: absent, armed with a warrant, or closed
  off,      \* brake-off.json and the platform's dial: what is switched off
  pc,       \* the brake loop: where it is
  asked,    \* the positions it asked quotes for
  quote,    \* the tick: what it was told, None if missing, stale or unpriceable
  todo,     \* the tick: the records it has yet to judge
  firing,   \* the tick: the position whose exit it places, or None
  run,      \* Brake._runs
  prior,    \* Brake._prior
  dry,      \* Brake._dry, which is only compared with FamineTicks
  alarms,   \* history: alarms that reached the owner in the current blindness
  muted,    \* history: positions whose alarm of the current blindness was lost
  touched,  \* history: positions with a true quote at their stop since armed
  lies, faults, restarts

memory  == <<run, prior, dry>>
tick    == <<asked, quote, todo, firing>>
said    == <<alarms, muted>>
bounds  == <<lies, faults, restarts>>
vars == <<market, record, off, pc, tick, memory, said, touched, bounds>>

Observed == Price \cup Lie \cup {None}

TypeOK ==
  /\ market \in [Position -> Price]
  /\ record \in [Position -> {"absent", "armed", "closed"}]
  /\ off \subseteq Position \cup {All}
  /\ pc \in {"idle", "asking", "ticking", "firing"}
  /\ asked \subseteq Position /\ todo \subseteq Position
  /\ quote \in [Position -> Observed]
  /\ firing \in Position \cup {None}
  /\ run \in [Position -> 0 .. Confirmations - 1]
  /\ prior \in [Position -> Observed]
  /\ dry \in [Position -> 0 .. FamineTicks + 1]
  /\ alarms \in [Position -> Nat] /\ muted \subseteq Position
  /\ touched \subseteq Position
  /\ lies \in 0 .. MaxLies /\ faults \in 0 .. MaxFaults
  /\ restarts \in 0 .. MaxRestarts

Blank == [p \in Position |-> None]
Zero  == [p \in Position |-> 0]

Init ==
  /\ market \in [Position -> Price] /\ record = [p \in Position |-> "absent"]
  /\ off = {} /\ pc = "idle"
  /\ asked = {} /\ quote = Blank /\ todo = {} /\ firing = None
  /\ run = Zero /\ prior = Blank /\ dry = Zero
  /\ alarms = Zero /\ muted = {} /\ touched = {}
  /\ lies = 0 /\ faults = 0 /\ restarts = 0

Armed == {p \in Position : record[p] = "armed"}

----------------------------------------------------------------------------
(* The market, the ledger's other writers and the owner.                    *)

MarketMoves(p) ==
  /\ \E price \in Price \ {market[p]} : market' = [market EXCEPT ![p] = price]
  /\ UNCHANGED <<record, off, pc, tick, memory, said, touched, bounds>>

\* supervise arms a position; a sweep releases one.
Supervise(p) ==
  /\ record[p] = "absent"
  /\ record' = [record EXCEPT ![p] = "armed"]
  /\ UNCHANGED <<market, off, pc, tick, memory, said, touched, bounds>>

Release(p) ==
  /\ record[p] = "armed"
  /\ record' = [record EXCEPT ![p] = "closed"]
  /\ UNCHANGED <<market, off, pc, tick, memory, said, touched, bounds>>

\* nakagai-edge brake off, for everything or for one position; brake on clears the
\* file.
Disarm(x) ==
  /\ x \in (Position \cup {All}) \ off
  /\ off' = off \cup {x}
  /\ UNCHANGED <<market, record, pc, tick, memory, said, touched, bounds>>

Rearm ==
  /\ off # {} /\ off' = {}
  /\ UNCHANGED <<market, record, pc, tick, memory, said, touched, bounds>>

----------------------------------------------------------------------------
(* One pass of the loop.                                                    *)

\* quote_symbols does not look at the switch for the whole brake.
Ask ==
  /\ pc = "idle" /\ Armed \ off # {}
  /\ pc' = "asking" /\ asked' = Armed \ off
  /\ UNCHANGED <<market, record, off, quote, todo, firing, memory, said, touched, bounds>>

\* The quotes that were asked for arrive, some of them not at all, and the tick
\* loads the ledger and the switches anew.
QuotesArrive(told) ==
  /\ pc = "asking"
  /\ quote' = [p \in Position |-> IF p \in asked THEN told[p] ELSE None]
  /\ lies' = lies + Cardinality({p \in asked : told[p] \notin {None, market[p]}})
  /\ lies' <= MaxLies
  /\ touched' = touched \cup {p \in asked : told[p] = market[p] /\ market[p] <= Stop[p]}
  /\ asked' = {}
  /\ IF All \in off THEN pc' = "idle" /\ todo' = {}
                    ELSE pc' = "ticking" /\ todo' = Armed \ off
  /\ UNCHANGED <<market, record, off, firing, memory, said, faults, restarts>>

Told == [Position -> Observed]
Quotes == \E told \in Told : QuotesArrive(told)
TrueQuote(p) == \E told \in Told : told[p] = market[p] /\ QuotesArrive(told)

\* usable: a price too far from the last believed one is not believed.
Jump(from, to) ==
  /\ from # None
  /\ 100 * (IF to > from THEN to - from ELSE from - to) > JumpPct * from

Usable(p) == quote[p] # None /\ ~Jump(prior[p], quote[p])

Judging(p) == pc = "ticking" /\ p \in todo

\* The one alarm of a blindness.  _notify swallows a message that failed, and
\* nothing sends it again: the count of blind ticks is past the threshold.
Announced(p) ==
  \/ alarms' = [alarms EXCEPT ![p] = @ + 1] /\ UNCHANGED muted
  \/ muted' = muted \cup {p} /\ UNCHANGED alarms

\* Mutant: a discarded quote is not a blind tick.
BlindMissing(p) ==
  /\ Judging(p) /\ ~Usable(p) /\ todo' = todo \ {p}
  /\ dry' = [dry EXCEPT ![p] = IF @ > FamineTicks \/ quote[p] # None THEN @ ELSE @ + 1]
  /\ IF dry'[p] = FamineTicks /\ dry[p] < FamineTicks THEN Announced(p) ELSE UNCHANGED said
  /\ UNCHANGED <<market, record, off, pc, asked, quote, firing, run, prior, touched, bounds>>

\* Mutant: a discarded quote resets the run.
BlindResets(p) ==
  /\ Judging(p) /\ ~Usable(p) /\ todo' = todo \ {p}
  /\ dry' = [dry EXCEPT ![p] = IF @ > FamineTicks THEN @ ELSE @ + 1]
  /\ IF dry[p] + 1 = FamineTicks THEN Announced(p) ELSE UNCHANGED said
  /\ run' = [run EXCEPT ![p] = 0]
  /\ UNCHANGED <<market, record, off, pc, asked, quote, firing, prior, touched, bounds>>

\* An observation that is discarded neither counts nor resets a run.
Blind(p) ==
  /\ Judging(p) /\ ~Usable(p) /\ todo' = todo \ {p}
  /\ dry' = [dry EXCEPT ![p] = IF @ > FamineTicks THEN @ ELSE @ + 1]
  /\ IF dry[p] + 1 = FamineTicks THEN Announced(p) ELSE UNCHANGED said
  /\ UNCHANGED <<market, record, off, pc, asked, quote, firing, run, prior, touched, bounds>>

\* audit.record raises: the alarm is not given, nor given later, and the tick is
\* over.
AlarmFails(p) ==
  /\ Judging(p) /\ ~Usable(p) /\ dry[p] + 1 = FamineTicks
  /\ faults < MaxFaults /\ faults' = faults + 1
  /\ dry' = [dry EXCEPT ![p] = @ + 1]
  /\ pc' = "idle" /\ todo' = {} /\ quote' = Blank /\ muted' = muted \cup {p}
  /\ UNCHANGED <<market, record, off, asked, firing, run, prior, alarms, touched, lies, restarts>>

\* Mutant: one breach is enough.
AdvancedTwice(p) == IF quote[p] <= Stop[p] THEN run[p] + 2 ELSE 0

\* advance and confirmed.
Advanced(p) == IF quote[p] <= Stop[p] THEN run[p] + 1 ELSE 0

Sighted(p) ==
  /\ Judging(p) /\ Usable(p) /\ todo' = todo \ {p}
  /\ dry' = [dry EXCEPT ![p] = 0]
  /\ alarms' = [alarms EXCEPT ![p] = 0] /\ muted' = muted \ {p}
  /\ prior' = [prior EXCEPT ![p] = quote[p]]
  /\ IF Advanced(p) >= Confirmations
       THEN run' = [run EXCEPT ![p] = 0] /\ pc' = "firing" /\ firing' = p
       ELSE run' = [run EXCEPT ![p] = Advanced(p)] /\ UNCHANGED <<pc, firing>>
  /\ UNCHANGED <<market, record, off, asked, quote, touched, bounds>>

\* The exit closes the record, unless somebody else did, or it is refused.
FireEnds ==
  /\ pc = "firing" /\ pc' = "ticking" /\ firing' = None
  /\ \/ record[firing] = "armed" /\ record' = [record EXCEPT ![firing] = "closed"]
     \/ UNCHANGED record
  /\ UNCHANGED <<market, off, asked, quote, todo, memory, said, touched, bounds>>

\* The refusal cannot be journaled: the rest of the tick does not take place.
FireBreaks ==
  /\ pc = "firing" /\ pc' = "idle" /\ firing' = None
  /\ faults < MaxFaults /\ faults' = faults + 1
  /\ todo' = {} /\ quote' = Blank
  /\ UNCHANGED <<market, record, off, asked, memory, said, touched, lies, restarts>>

TickDone ==
  /\ pc = "ticking" /\ todo = {}
  /\ pc' = "idle" /\ quote' = Blank
  /\ UNCHANGED <<market, record, off, asked, todo, firing, memory, said, touched, bounds>>

\* The Brake's dictionaries die with the process.
Restart ==
  /\ restarts < MaxRestarts /\ restarts' = restarts + 1
  /\ pc' = "idle" /\ asked' = {} /\ quote' = Blank /\ todo' = {} /\ firing' = None
  /\ run' = Zero /\ prior' = Blank /\ dry' = Zero
  /\ alarms' = Zero /\ muted' = {}
  /\ UNCHANGED <<market, record, off, touched, lies, faults>>

World == \/ \E p \in Position : MarketMoves(p) \/ Supervise(p) \/ Release(p)
         \/ \E x \in Position \cup {All} : Disarm(x)
         \/ Rearm
Judge == \E p \in Position : Blind(p) \/ AlarmFails(p) \/ Sighted(p)
Fire  == FireEnds \/ FireBreaks

Next == World \/ Ask \/ Quotes \/ Judge \/ Fire \/ TickDone \/ Restart

Spec == Init /\ [][Next]_vars

(***************************************************************************)
(* Fairness.  The loop passes for ever and a call ends at its timeout.  A   *)
(* connector that is asked again and again answers truly at some point;     *)
(* only StopIsActedOn needs that.                                           *)
(***************************************************************************)
Fairness ==
  /\ WF_vars(Ask) /\ WF_vars(Quotes) /\ WF_vars(Judge) /\ WF_vars(Fire) /\ WF_vars(TickDone)

FairSpec == Spec /\ Fairness

----------------------------------------------------------------------------
(* Properties.                                                              *)

\* An exit is only started for a position whose market was seen at its stop, or
\* after as many bad prints as confirm a breach: fewer sell nothing, whatever
\* restarts, switches and discarded quotes come between the observations that
\* confirm it (Brake.tick, advance).
FiresOnTrueTouch ==
  TypeOK /\ (pc = "firing" => firing \in touched \/ lies >= Confirmations)

Watched(p) == record[p] = "armed" /\ off \cap {p, All} = {}

\* Of a position that stays watched and is never sighted again the owner is told
\* exactly once, never every tick; EXCEPT that when this one message was lost, or
\* the journal before it raised, he is not told at all (brake.py:318, 400): the
\* next alarm needs a usable quote or a restart first.
BlindIsAnnounced ==
  \A p \in Position :
    <>[]Watched(p) => \/ []<><<Sighted(p)>>_vars
                      \/ <>[](alarms[p] = IF p \in muted THEN 0 ELSE 1)

\* A market that stays at or below the stop, in reach of the last price that was
\* believed, leads to an exit, again and again while it is refused (Brake.tick).
StopIsActedOn ==
  \A p \in Position :
    (/\ <>[](Watched(p) /\ market[p] <= Stop[p] /\ ~Jump(prior[p], market[p]))
     /\ []<><<TrueQuote(p)>>_vars)
      => []<>(firing = p)

=============================================================================
