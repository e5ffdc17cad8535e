# A TLA+ verification of nakagai-edge

`nakagai-edge` runs on the owner's machine and is the only place a broker
credential is stored. It adopts order proposals the owner approved on the
platform, submits each to the broker, watches the positions that result, and
sells a position when its stop is reached. What it must not get wrong is
short to say: one approval places one order, an exit sells no more than is
held and fires once, and the platform is never told something the broker
contradicts. What makes that hard is that everything is a handful of JSON
files, a few loops on one asyncio event loop, a broker and a platform that may
lose any answer, and a process that may die between any two lines.

All paths below are relative to the repository; `edge/` stands for
`nakagai_edge/edge/` and the other files are in `nakagai_edge/`.

## 1. Inventory

### 1.1 Components, their state and their operations

| component | source | state | operations |
|---|---|---|---|
| proposal pickup | `edge/proposals.py` | `cache/proposals-adopted.json` (the ledger) | `adopt_granted_proposals`: verify, check ledger and brake, refuse or write ledger then intent |
| intent store | `edge/remote.py` | `cache/intents.json` | `mark_submitted`, `acknowledge_execution_report`, `drop_intent` |
| executor | `edge/executor.py` | none of its own (a pass over the store) | `poll_once`, `reconcile_submitted_fills`, `supervise`, `_verify_supervision` |
| supervision ledger | `edge/supervision.py` | `cache/supervised.json` | `record`, `mark`, `claim`, `recover_interrupted`, `reconcile`, `renewal_request`, `apply_renewals` |
| brake | `edge/brake.py` | `cache/brake-off.json`; in memory: last believed prices, breach runs, blind ticks, refusals told | `tick`, `fire`, `armed`, `set_local_disarm`, `clear_local_disarm` |
| warrant | `warrant.py` | none | `breached`, `authorizes`, `exit_order_args` |
| portfolio | `edge/portfolio.py` | last pushed document | `connector_snapshot`, `snapshot_and_push` |
| fill journal | `edge/fills.py`, `edge/journal.py` | `results/fills.jsonl`, its `.shipped` watermark, `cache/fills-anchor.json`; in memory: the seen-set | `sweep`, `_absorb`, `_ship` |
| decision journal | `edge/audit.py`, `edge/journal.py` | `results/audit.jsonl` and its watermark | `record`, `pending`, `mark_shipped` |
| policy sync | `edge/sync.py` | `cache/bundle.json`, `cache/meta.json` (the stamp), `config/connectors.yaml` | `sync_once`, `apply_bundle`, `_record_schema_error`, `policy_fresh`, `public_key` |
| hub | `hub.py` | one pooled connection per connector, and a lock for all of them | `call`, `_ensure_connected`, `_run_connection`, `_disconnect`, `invalidate`, `aclose` |
| guardrails | `guardrails.py` | none | `classify_write`, `check_accounts`, `evaluate`, `annotate_tools` |
| approval queue | `approvals.py` | memory and `results/approvals.jsonl`, or PostgreSQL | `enqueue`, `approve`, `deny`, `grant`, `_finish`, `resolve`, `record_execution`, `expire`, `reconcile_stale`, `clear_history`, `set_rationale` |
| runtime | `edge/runtime.py` | the loops and the MCP tools | syncer, executor, shipper, portfolio, fills and brake loops |
| platform client | `edge/client.py` | token | one method per platform endpoint |
| signal stream | `edge/listen.py`, `edge/wake.py` | `cache/channel-cursor.json`, `cache/listen.lock`; in memory: catch-up buffer, queue of turns | `run`, `_flush`, emit, save the cursor, `WakeRunner.emit`, `close` |
| daemon | `edge/daemon.py`; `restart` in `cli.py`; `run` in `edge/runtime.py` | `edge.pid` | `write_pidfile`, `release_pidfile`, `find_running`, `stop`, `spawn`, `wait_until_serving` |
| local state | `edge/state.py` | all of the files above | `_write_private` (write, then replace) |
| connection set-up | `auth.py`, `oauth_login.py`, `identity.py`, `edge/setup.py`, `edge/preflight.py`, `edge/install*.py`, `edge/clients.py`, `edge/skills.py` | tokens, client configs | interactive or one-shot |
| vocabulary | `capability.py`, `config.py` | none | `resolve` and the outbound conversions, the settings of a connector |
| conversions | `mcp_schema.py`, `response_schema.py`, `signing.py`, `slug.py`, `_env.py`, `edge/freshness.py` | none | pure conversions |

### 1.2 Interaction

* The executor calls the pickup, then reads the intent store, calls the hub (the
  only point where it gives way to the other loops) and reports to the platform.
* The fills loop reads order rows from the broker, journals the fills, and hands
  the rows to `reconcile_submitted_fills`, which matches a submitted intent, calls
  `supervise` to create a supervision record, and drops the intent.
* The portfolio loop reads the positions of every connector and hands them to
  `supervision.reconcile`, which updates confirmed quantities and releases
  positions the broker no longer shows.
* The brake loop reads quotes for the armed records, and fires: it re-reads what is
  held, re-checks record, warrant and dial, claims the record and sells.
* The syncer writes the policy bundle from a thread and renews warrants, which
  rewrites supervision records.
* The daemon's syncer and a `sync` on the command line write the same three files from two processes.
* Callers of a connector share one pooled connection and replace it under one lock; they wait for
  its dial outside.
* A `restart` and the daemons it stops and starts meet in the pidfile and in who listens on a port.
* Everything shares the files; nothing locks them. What protects a
  read-modify-write is that it runs on the event loop without an `await`.

### 1.3 Hard behaviours

* Death between the broker's acceptance and the record of it, on entry
  (`executor.py:526`) and on exit (`brake.py:531-575`).
* Reports and answers lost either way; a report that is owed across restarts.
* State read before an `await` and used after it: the brake's records, quotes and
  clock; the portfolio's positions; the fills loop's intents.
* A write or a journal append that raises in the middle of a sequence.
* Policy that goes stale, is half written, or is disarmed at any moment.
* Prices that jump, freeze or vanish; counters of ticks and of refusals at their limits.

### 1.4 What makes each component correct

* pickup and executor: the ledger is ahead of everything; one approval per proposal;
  one order per approval; a refusal told is a refusal true, unless the submission was cut short before it was recorded; every adopted intent
  ends; every filled order leaves the store.
* supervision and brake: an exit fires at most once per supervised position, for no
  more than was held and no more than the entry; a record that fired, failed or was
  released never re-arms by itself; a blocked record is never armed; a true breach
  is eventually acted on.
* journals: nothing seen is lost, nothing is shipped out of order.
* policy: a stamp that names the published bundle says the truth about both files; what the platform
  keeps publishing arrives.
* hub: no connection runs with nobody to stop it; a call ends, and fails only by what others did to its
  connection.
* guardrails: a write needs the owner's permission, and every account it names must be confirmed; an agent is never told less of a tool than a call would be granted.
* exit order: an exit is the opposite of its entry in the broker's own words, and a position recorded as
  guarded can be exited whatever is left of it.
* daemon: a serving daemon is named by the pidfile; restarts leave at most one daemon serving.
* signal stream: the cursor on disk never passes an event nobody was shown; one agent turn at a time.
* approval queue: one call or artifact per approval, an answer that stands, no unknown outcome out
  of sight.

## 2. Plan

Order of work: the paths that move money first.

1. `OrderPath`, `OrderPromise`, `OrderPathProofs`: from a grant to a submitted order
   and back. *Done.*
2. `Supervision`, `ExitPromise`, `SupervisionProofs`: the ledger, the brake's `fire`, the
   sweep's `reconcile`, renewals, restart. *Done.*
3. `FillJournal`, `FillJournalProofs`: anchors, sweep, append, ship, watermark, restart. *Done.*
4. `BrakeWatch`: the quote filter, the run, the blind ticks; `ExitOrder`: the order maps with
   `exit_order_args`; `BrakeWatchProofs` about both. *Done.*
5. `ApprovalQueue`, `ApprovalQueueProofs`: enqueue, decide, grant, expire, finish, reconcile, clear,
   and the journal behind the lock, for both queues. *Done.*
6. `PolicySync`: the three files of a bundle, their stamp, two writers. *Done.*
7. `SignalStream`: the listener's lock, cursor, catch-up and turns; `PlatformProofs` about both. *Done.*
8. `Connection`: the hub's pooled connection; `Gate`: `evaluate`, as pure operators over every
   setting; `ConnectionProofs` about both. *Done.*
9. `Daemon`, `DaemonProofs`: processes, pidfile and restart. *Done.*

Which module composes which: `OrderPath` and `Supervision` each hold the loops that meet in their
files and refine `OrderPromise` and `ExitPromise`; `MCBrakeWatch` checks the watch together with
the order it would send (`ExitOrder`), `MCConnection` the connection together with the gate that a call
passes first (`Gate`). The proof modules extend the modules they are about.

Theorems worth proving beyond those done: more action properties from the invariants that are there, in the way of
`SubmittedOnce`; every invariant that a run checks is proved.
## 3. The order path: `OrderPath`, `OrderPromise`, `MCOrderPath`

**State.** `ledger` is `cache/proposals-adopted.json`; `intent`, `pending` and `named` are
what `cache/intents.json` says of an approval (present, `phase`, whether
`pending_execution_report` and `broker_order_id` are there). `grant`, `live` and `told`
are the platform's side, `orders` and `fill` the broker's. `policy` is what a
check of freshness, key and brake reads at that moment. `pc`, `todo` and `cur` are the position of
the executor inside `poll_once`, the rest of the loop's snapshot and the approval in hand.
`interrupted` is a history variable: the approvals whose order the broker has while no
durable write says so and the process died, or `drop_intent` raised.

**Actions.** One per durable write or exchange with the outside, because those
are the points between which the process can die; the code between two of them runs
without an `await`. `hub.call` is five actions (`CallStep`), since there the other
loops run and the outcome is the broker's. The only other loop that touches this
state, `reconcile_submitted_fills` (`SettleOrder`), is enabled where the executor
is suspended. `ReachOrLose` is every `report_execution` whose error is swallowed:
the report arrived, or it did not, and the code cannot tell. A failed file operation
(`FileFails`) is possible at every write of the store.

**Bounds.** `MaxCrashes` and `MaxFileFails` bound faults; one of each suffices for
every hazard listed, since each is about one interruption. Two approvals suffice
because every property is about one or about a pair. Nothing else is bounded.

**Runs.**

* `order_path`: two approvals of one proposal, one crash, one file error. The ledger is ahead of
  everything and one proposal is adopted under one approval (`LedgerSound`), an approval is submitted once unless it
  was interrupted, and a refusal told is true, with the same exemption (`RefusalIsHonestUnlessInterrupted`): an
  approval whose submission was cut short between the broker's acceptance and `mark_submitted` is still adopted, and if
  its artifact has expired or the brake is off by the next pass, the platform is told that it was refused
  although the order is at the broker (section 9); and the refinement of `OrderPromise`. `TypeOK` and `SubmittedNeverRepeats` are
  proved (section 10) and not run. The approvals are interchangeable, so they are
  a symmetry set.
* `order_path_live`: two unrelated proposals in the same pass, one sound and one not, no
  faults. Liveness.

**Fairness.** `WF(Executor)` and `WF(CallStep)`: the loop is `while True` with every
exception swallowed (`runtime.py:948-961`) and the hub's calls end at their timeout.
`WF(ArtifactExpires)` is the clock. `SF(Answered)` and `SF(AckReport)`: a poll or
a report attempted forever is answered at some point; the platform is not unreachable for good.
`SF(SettleOrder)`: the fills loop meets the executor asleep infinitely often. `FillIsReconciled`
excludes an approval that the platform closed first, as it then never
acknowledges (`executor.py:422` wants the exact status `executed`).

**Not in the model.** The content of an artifact is one bit (`Sound`); the
retention of old ledger entries; the reads of `intents.json` are
assumed to succeed except in `drop_intent`; `audit.record` failing.

## 4. Supervised positions: `Supervision`, `ExitPromise`, `MCSupervision`

**State.** `state`, `ceiling` and `confirmed` are a record of `cache/supervised.json`: its
state, its warrant's `max_qty` and its `confirmed_qty`. `held` and `resting` are the broker's
positions and accepted exits. `fpc` and `fcur` are where `reconcile_submitted_fills` is and
whose fill it has; `snap`, `readable` and `sweeping` are a sweep that was taken and not
yet folded; `bpc`, `bcur`, `due`, `seen`, `answer` and `qty` are the brake's tick: its copy of
the ledger (`due`, `seen`), what the broker answered and the size of the order. `exits`,
`records` and `unrecorded` are history: accepted exits, how often a record was written, and the
claims whose end could not be written down since the process started.

**Actions.** One per stretch between two awaits, cut again where a file operation can raise
or the process can die. `MatchFill`, `RowsShowEntry`, `Supervise`, `DropEntry` are the
fills loop; `Sweep` and `Reconcile` the portfolio loop; `Renew` the syncer; `TickStart` to
`TickEnd` the brake, with the whole of `fire` between them: `FireAsks` and `BrokerAnswers` are
the re-read of what is held, `FireClaims` the clamp and the claim, `ExitTaken` and the four
ends (`ExitReturns`, `ExitDenied`, `ExitBreaks`, `ExitUnrecorded`) the call. The actions
ending in `Blind` and `Fails` are the same steps when the ledger or the store cannot be read or written.
`sweeping` may last as long as it likes, which also covers the cached document
that `snapshot_and_push` returns inside its rate limit.

**The abstract specification.** `ExitPromise` knows neither ledger nor loops: a record
gives a permit, an exit spends one. `KeepsExitPromise` maps a permit to a record that may
still fire or a claim whose call has not reached the broker.

**Bounds.** `supervision` has a sellable and a blocked position of one symbol, entries
of two, one restart and one fault: two positions are needed only to share a sweep and a
broker's quantity. `supervision_live` has one position, a restart, one fault of any kind, and the owner selling out by hand once.
`MaxHeld`, `MaxTrades`, `MaxRestarts` and `MaxFaults` are the only bounds, and the proofs do without them.

**Runs.** `supervision`: a record exits once, a blocked one never, nothing beyond the entry is sold,
a closed record stays closed and carries no risk, and the refinement of `ExitPromise`; `TypeOK` is proved and not run.
`supervision_live`: every claim is closed, every filled entry leaves the store and what is gone is
released. `FiringIsClosed` exempts a claim whose end could not be written down, because the journal or the mark failed in
`fire`'s own handlers (`brake.py:574`): that record stays firing until the next start, and for ever without one; the run has
the failure, and a restart must close the record. `supervision_rejected` is violated (section 9).

**Fairness.** `WF(CallEnds)`: a hub call ends at its timeout. `WF(FillsGoOn)`, `WF(Reconcile)`:
the loops are `while True` with every exception caught. `SF(MatchFill)`, `SF(Reads)`: the broker,
asked again and again, lists the fill and reads the symbol at some point.

**Not in the model.** Shorts (the protocol carries only buys); the local switch and the
notifications (`BrakeWatch` has the switch); a second daemon on the same root.

## 5. The fill journal: `FillJournal`, `MCFillJournal`

**State.** `anchored` and `anchor` are `cache/fills-anchor.json`, `lines`, `open` and `mark`
the journal and its watermark, `seen` the set in memory. A line is the key of its row (order and
status) or `Torn`; `open` says that the last line has no end, so the next append
is glued to it. `past` and `ever` are history: what each account held when it was first
anchored. `received` is the platform's.

**Actions.** A sweep asks each account (`AccountAnswers`, `AccountFails`, or
`AccountGarbled` for an answer that is not a list), absorbs what answered
(`AnchorAccount`, `JournalRow`, `AccountAbsorbed`) and ships (`ShipStart`, `Taken` or
`ShipFails`, `MarkShipped`). `AnchorUnreadable`, `JournalFails`, `ShipUnreadable` and
`MarkUnreadable` are those steps when a file fails; an anchor file that cannot be read may be replaced under an account that it named and
under one that is new. A row's key is its order and its status alone (`fills.py:73-76`); that no two accounts or
connectors list an order under one id is assumed of the brokers. The reconciliation a sweep does in between is
a pause here; it is `MatchFill` of `Supervision` and `SettleOrder` of `OrderPath`.

**Bounds.** Two accounts with one order each: one can be anchored while the other is not, and
an anchor file that is rewritten for one loses the other. The second account lists orders in both
statuses, so its rows follow each other into the file and a torn append meets a
neighbour. A batch is one line. One fault, of any of four kinds, and one restart.

**Runs.** `fill_journal`: history is not journaled, no row is journaled twice, a torn line costs one other
row at most (`JournalHoldsNews`, which also holds the types), the watermark skips nothing, and what is new arrives
and is not stranded. `JournalHoldsNews`, `NothingSkipped` and `NewReachesPlatform` say in their conditions which
faults they exempt.

**Fairness.** The loop sweeps for ever (`runtime.py:986-1000` catches everything) and its calls end:
`WF`. `SF(AccountAnswers)`, `SF(Taken)`: an account and a platform that are asked for ever answer
at some point.

## 6. The watch: `BrakeWatch`, `MCBrakeWatch`

**State.** `run`, `prior` and `dry` are the brake's dictionaries, `off` the switches (the file
and the platform's dial), `quote` and `todo` the tick's quotes and snapshot. `touched` is history:
positions whose true quote was at their stop; `alarms` and `muted` say, of the current blindness, how often the owner was told,
and that the one alarm was lost.

**Actions.** `Ask` and `QuotesArrive` are the await of `_quotes`; a quote is a price,
true or a bad print, or `None` for one that is missing, stale or too wide. `Blind`, `Sighted` judge one
record, with the jump filter as arithmetic; `Announced` is the one alarm of a blindness, which arrives or is swallowed by `_notify`,
as often as it likes; `AlarmFails` and `FireBreaks` are a journal
that raises, which ends the tick. What an exit does is one step here.

**Bounds.** One position (positions only share the end of a broken tick), prices 5, 8 and 10
around a stop at 9: 10 to 8 is within MAX_JUMP_PCT, everything to 5 and 8 to 10 is not. Three blind
ticks stand for eight. One bad print, one fault, one restart. `dry` is capped one above the
threshold, since it is only compared with it.

**Runs.** `brake_watch`: what fires was seen at its stop, or had as many bad prints as confirm a breach
(`FiresOnTrueTouch`, with the types),
of a blindness the owner is told exactly once, unless that one message was lost or the journal raised on it, and then not at all
(`BlindIsAnnounced`; section 9), a touch within reach of the last believed price is acted on; and the
two properties of the order that would be sent, below.

**Fairness.** `WF` of the loop's own steps. `StopIsActedOn` assumes in its statement that a true
quote of the position comes again and again. Deadlock is not checked: with every record closed and the
bounds used up the system does stop.

### 6.1 The order an exit sends: `ExitOrder`

**State.** `map` is the connector's map as the brake has read it from the registry: a record of how it spells each side and each order type and as which
type it takes each field; an order is a function from its canonical fields. `Resolve` is
`capability.resolve` on `place_order`, `ExitOf` is `exit_order_args`, which puts the first closing word of the
map through `resolve` again; `Refused` is its refusal. Spellings are sequences because the first one is what is sent.

**Bounds.** Five spellings of `buy` and six of `sell`, with the canonical word first, last or missing, one word on both sides,
and none at all; a market order that can or cannot be spelled; the account or the quantity sent as a
number. `Quantity` is halves of a share up to three shares, `Level` two prices; the proofs do without either. The map's validators are an assumption (`MapAssumption`), which every one of these maps meets.

**Run.** `brake_watch`: whatever exit can be derived from an order that could be sent is its opposite in the
connector's own words (`ExitUndoesEntry`), for maps that tell the sides apart (`Distinct`: no word for both, and neither
side spelled with the other's canonical word; section 9); and where the whole entry
could be exited, which is what decides that a position is recorded as guarded, any whole number of shares
can (`GuardedCanExit`).

**Not in the model.** Case folding beyond that words are equal up to case; the nesting
of arguments in a connector's schema; a warrant's signature, expiry and `authorizes`.

## 7. The approval queue: `ApprovalQueue`, `MCApprovalQueue`

**State.** One account, since every operation compares the account first. `backend` says which
queue is installed and `edge` which requests an edge made; both are chosen at the start and stay.
`store` is `_items` of the file queue or the table of the PostgreSQL queue: a status,
`outcome_unknown` and whether `cleared_at` is set. `file` is what `_replay` would make of
`approvals.jsonl`, `torn` that it ends in half a line. `job` is the operation each thread is in,
between the lock, `to_dict`, the append and the call. `late` and `aged` stand for the clock.
`acts` counts calls made and artifacts issued, `owed` are calls that left and whose end nobody
recorded, `said` what was last answered; these three, `filed` and `lost` are history.

**Actions.** What runs under the lock, or in one transaction, is one step (`Write`). The
PostgreSQL queue goes on at once (`Proceed`); the file queue journals after it gave the lock back, in
two steps, because `to_dict` reads the live record (`Snapshot`) and the line is written later
(`Append`). `AppendFails` is a full disk, `RecordFails` the UPDATE that raises after the call: both
have the branch in which `approve` tells the truth although it could not keep it. `Restart`
replaces the file queue's process, `WorkerDies` one worker of the other.

**What the code does not promise.** Two threads can append the lines of one record in the
other order than they changed it, and a line written onto a torn one is unreadable. A restart then
reads an earlier state: a record that was called can be pending again. `lost` is exactly the
set of records a restart took back, and `ActedOnce`, `AnswerStands` and
`OutcomeIsOwed` exempt it; nothing else is exempt.

**Modelling choices.** `reconcile_stale` of the file queue trusts that every approved record was
left by a predecessor (its error text says so), so it is possible only while nothing was asked of
the process yet (`fresh`), and optional, since a hub that builds its own queue never calls it.
`SlowCalls = FALSE`: `timeout_s` is 30 s unless a configuration raises it beyond the ten minutes of
`reconcile_stale`. With `SlowCalls = TRUE`, `_finish` overwrites a record that was reconciled, and
`OutcomeIsOwed` is false: a call that leaves after its record was given up and resolved is in nobody's sight. `ActedOnce`
and `AnswerStands`, their proofs included, do not depend on the choice.

**Bounds.** One approval, two threads, one failed write and two restarts. One approval because the
properties are about one, and two leave the five minutes: what approvals share is the
admission limit, a sweep over several of them and a torn line. The proofs cover those for any number. Two threads are a race; two restarts are a lost line and what follows it.

**Runs.** `approval_queue`: acted on once, what was answered stands, a call of unknown end stays
in sight. Deadlock is not checked: when every record is over and the bounds are used up the queue
does stop. There is no liveness: nothing obliges an owner to decide.
## 8. The signal stream: `SignalStream`, `MCSignalStream`

**State.** `log` is the platform's event log, an event being its place and its class: `chat` wants an
answer (`response_required`), `context` does not, `hidden` has no renderer. `saved` is
`cache/channel-cursor.json`, `lock` whose `flock` is on `cache/listen.lock`. `me` is what a process has in
memory: where `run` is, its cursor, the gap it is reading (`catching`, `pending`, `requests`), the lines it
has yet to print (`batch`), and the queue and the running child of its `WakeRunner`. History: how often
an event was printed (`emits`) and given a turn (`turns`), where a listener last anchored (`past`), and how
often one ended with a batch begun and its cursor unsaved (`cuts`).

The lists and the queue of the code are sets of places in the log. Each holds its events in the order of the log and
none twice, so the first of one (`First`), what `[-n:]` keeps of one (`Newest`) and its length are those of the set. That no
event is printed or queued twice in one life of a listener is not assumed: the batch lies past the cursor on
disk and what is queued comes before the batch (`PlaceInv`, section 10).

**Actions.** `Start` takes the lock and loads the cursor; an absent or unreadable one leads to `Anchor` and
`SaveAnchor`. `Polled` is a poll with everything up to the next line printed: `Live`, `Catch` into the
buffer, or `Flush`, which trims; `Unmoved` is a batch whose cursor did not move. `Emit` is one line and, for
`chat`, one place in the queue; `Save` the cursor. `TurnStarts` and `TurnEnds` are the thread of the
`WakeRunner`. `Stop` is every way out that Python sees, after which the queue is worked off and
`Release` gives the lock back; `Kill` is the other one.

**Bounds.** Two processes, since the lock is between two; three events, a buffer of two, a trim to one and
two catch-up requests, so that a gap overflows the buffer, outlasts the requests, and holds two of
a class and one of the other; two ends, so that a flush is cut and done again; one unreadable cursor file.

**Runs.** `signal_stream`: the cursor never outruns the lines but for what the trim gives up, lines repeat once
for each cut at most, turns do not overlap and an orderly end owes none (`TurnsInOrder`), and the stream is read for as
long as a listener holds it.

**Fairness.** `WF(Held)`: `run` is a `while` in which a failed poll is caught and repeated, and a platform
that is polled for ever answers at some point. Nothing is assumed of who starts a listener, nor of a
turn ending, so `StreamIsRead` speaks of listeners that hold the stream.

**Not in the model.** What a renderer copies; pacing and back-off; a listener without a wake command, which
is one whose queue stays empty; an interrupt between a line and its place in the queue; a
body of the wrong type (section 9).

### 8.1 The policy on disk: `PolicySync`, `MCPolicySync`

**State.** `registry`, `bundle` and `stamp` are `connectors.yaml`, `bundle.json` and `meta.json`: whose content
each holds, or `None` while it is absent or empty. Each writer of `Writer` has a place in `sync_once` (`pc`), the etag it
asked with and the answer in its hands. `current` and `newest` are the platform. `cut`, `tangled` and `alone` are history:
an apply that was left half way, files of a call that overlapped another (or an apply under way or cut short that a rollback crossed), and whose call overlapped no other.

**Actions.** One per request or file operation: `write_text` empties a file (`Empty`) and then fills it
(`FillRegistry`, `FillBundle`, `FillStamp`, `FillNote`), and another process can look in between. `AnswerUnchanged` is a 304,
which renews the stamp without a look at the files; `AnswerBundle` a body, gated on its schema first; `ReadNote` and
`FillNote` are `_record_schema_error`. `WriteFails` and `Killed` are possible at each of them, and `escaped` is an
exception that left `sync_once`.

**Bounds.** The daemon and one command; three bundles of which the second is unreadable, so that a refusal is preceded and
followed by a bundle that is applied; one step back of the platform, one failed write, one kill.

**Run.** `policy_sync`: a stamp that names the published bundle is true of both files (`StampIsTrue`, with the
types), and what stays published arrives and is renewed (`PolicyArrives`). Each names what it exempts.

**Fairness.** `WF(Ask(Syncer))`: the loop asks every SYNC_INTERVAL_S (`runtime.py:906-946`).
`SF(Answered(Syncer))`: a platform that is asked for ever answers at some point. `WF(Write)`: a thread that writes goes on.

**Not in the model.** The private writes of `edge/state.py`, which replace a file whole; what a reader does with
half a policy, which is `policy` of `OrderPath`; the renewals that follow a sync, which are `Renew` of
`Supervision`; the connector report; local overrides of a connector's entry.

### 8.2 The pooled connection: `Connection`, `Gate`, `MCConnection`

**State.** `pool` is `_conns` for one connector, `line` the lock with those who wait for it, and a connection has a `task`,
`status`, `session`, `stop`, `ready` and `backoff` as in `_Connection`; `cancelled` says that its task was
cancelled. `pc` and `mine` are where a caller is and which connection it has in hand. `overdue` is history:
dials that took all the time their maker had.

**Actions.** A step runs from one `await` to the next. `Connect` to `Unwind` are `_run_connection`; `Reuse`,
`RefuseInBackoff`, `Drop` and `Dial` the branches of `_ensure_connected` under the lock, `Answered`, `Failed` and `TimesOut`
the wait outside it, `DropEnds` to `DropIsCancelled` and `LeaveEnds` to `LeaveIsCancelled` the two ways into `_disconnect`.
`Invalidate` is the closing of the hub. `Return` is every end of a call. `CancelCaller` is a caller cancelled from
outside at any wait, as the loops are when the edge stops (`runtime.py:1063`) and a request when its client leaves: its place in the
line and the future it waits for go with it, and the task, which is shielded, goes on.

**The gate.** `spec` is the connector's settings as a call has read them from the registry. `IsWrite` is `classify_write`, `AccountsPass` is `check_accounts`,
`Decision` is `evaluate`, `Advertised` is `annotate_tools`. Globs are the sets of tools they match.

**Bounds.** Two callers and the closing of the hub, since what goes wrong is between the maker of a dial, one who
replaces it and one who takes the connection away; two connections, of which one may be left behind.
One tool and two accounts with every combination of the settings. Connection and gate share no
variable, so either is explored while the other is at rest.

**Run.** `connection`: no connection is orphaned (`NoOrphan`, with the types), a call fails only by what
others did (`FailsOnlyByOthers`), every call ends (`EveryCallEnds`); a write is granted only where writes are allowed and every account it
names is confirmed, and on a broker it names one, except where `require_account_arg` is off: there a write that names none
passes on the strength of any tier, a read-only one too (`NamedWritesAreConfirmed`; section 9); and what an agent is told covers what a call is granted
(`AdvertisedCoversGranted`).

**Fairness.** `WF(Steps)`, `WF(Waits)`, `WF(Invalidate)`: each wait of a caller has a timeout. `WF(Unwind)`: a cancelled
task unwinds. Nothing is assumed of the broker.

**Not in the model.** How a transport is opened and an answer serialized; other connectors, which share the
lock and can hold it for five seconds; edits of the registry; a cancellation of the task that closes the hub.

### 8.3 Processes of one root: `Daemon`, `MCDaemon`

**State.** `at` is where a process is in `run`, `port` what it was told to serve, `record` is `edge.pid`. `cmd` and `found` are a
`restart` and the record it goes by. `elder`, `unwritten` and `astray` are history: claims made over by a later one, claims
that could not be written or crossed a release, and a start by hand beside a live daemon or a restart that the file
misled, about a live daemon or about another restart that is under way (found by the proof of `OneServes`; it takes four
processes, and TLC confirms it with as many).

**Actions.** `OpenRecord`, `FillRecord`, `Bind` start a process; `FreePort`, `CancelLoops`, `ReadRecord`, `EmptyRecord`,
`ReleaseRecord` end it; `Dies` is a kill, a release whose write raises, or a signal that skips the `finally` blocks. `Find` to `Prove` are `restart`: read the
record, judge by who listens and who lives, wait for the port, spawn, wait for the answer.

**Bounds.** Three processes, so that an old one ends while a new one starts beside a third; two restarts that overlap; the default
port and one other; one claim whose write fails. Processes and commands are symmetric. Deadlock is not
checked: processes are used up, since a pid is not used twice. There is no liveness: nothing obliges a daemon to end.

**Run.** `daemon`: the pidfile names a serving daemon (`OursIsProvable`, with the types), and restarts leave one daemon
serving (`OneServes`), each with its exemptions.

**Not in the model.** The HTTP server beyond the port; the reuse of a pid; what a second daemon's
`recover_interrupted` does to an exit of the first (section 9).

## 9. Where the code and its documents disagree

The run that TLC must find violated, `supervision_rejected`: `hub.call` returns a tool error as a result, and `fire`
takes every result for an exit.

Seen while modelling, without a run of their own. On the way of an order:

* README.md:17-19 promises one submission per proposal. `poll_once` awaits the broker
  (`executor.py:526`) with nothing durable written before it, so a process that dies between the broker's
  acceptance and `mark_submitted` submits again. The proved form, `AtMostOnceUnlessInterrupted`,
  names exactly that exemption; without it the run `order_path` fails within a crash.
* README.md:21-23 says that an expired grant or a disarmed brake refuses before the broker is contacted, and
  `executor.py:521` that "the broker was never contacted". After a death, or a `drop_intent` that raised, between
  the acceptance and `mark_submitted` the intent is still adopted; the next pass then refuses it for its expiry or the
  brake (`executor.py:479-523`) and tells the platform so, with the first call at the broker.
  `RefusalIsHonestUnlessInterrupted` exempts it by name; without the exemption the run `order_path` fails there.
* `executor.py:543` takes a tool error for an accepted entry, as `fire` does for an exit.
* The warrant is called single-use (README.md:472-473); `supervise` persists the record before
  `drop_intent` persists that the fill was handled (`executor.py:387`), so a death in between records,
  and exits, the same entry again. `ExitPerRecord` therefore counts exits by record, not by position.
* `executor.py:191` stores the first warrant whatever its ceiling; only renewals are bounded by the
  entry (README.md:472-473).

Of positions and the brake:

* `supervision.py:275-276` calls absence from a snapshot the proof that a position is gone. The snapshot is folded after the await
  of its push (`runtime.py:979`), so a position recorded in between is released although it is held.
* `brake.py:508` clamps each exit by what is held (`brake.py:337-339` calls overselling
  a real violation), but two positions of one symbol that fire in turn are both clamped by the same holding.
* `brake.py:572` wants the record to reflect reality; the journal is called first in that handler (`brake.py:574`), and if it raises the
  record stays `firing` until a restart. `FiringIsClosed` exempts it until then.
* `supervision.py:105-108` says that a ledger which cannot be opened is left for the next pass;
  `reconcile` saves the empty answer over it (`supervision.py:346`).
* README.md:494-495 says that after a gap the exit goes off at the market; a gap of more than MAX_JUMP_PCT is never
  believed (`brake.py:112`). A bad print as a first observation becomes the prior, and every true price is
  then such a jump.
* `brake.py:311-312` says that the silence itself has to reach the owner. The alarm is given on the one tick that crosses the threshold
  (`brake.py:318`), after a journal entry that may raise and by a message whose failure is swallowed (`brake.py:400-404`);
  nothing repeats it until a quote is usable again. `BlindIsAnnounced` says so.
* `warrant.py:177-183` says that a position is closed in its connector's own words. The first of them goes through `resolve`, which
  takes only `buy` and `sell` for a side (`capability.py:233-246`): a connector whose first word is another one can never be
  exited, and its positions are recorded as unguarded. A map that spells a side with the other's canonical word (`buy: [b]`,
  `sell: [buy]`), which the validators accept (`config.py:184-254`), sends the exit on the opening side. A position of which a fraction of a share is left was recorded as guarded,
  since its entry was whole, and cannot be exited (`capability.py:290`).

Of the journals:

* An answer that is not a list anchors an account on an empty set, and its history is shipped (`fills.py:163`), which
  `fills.py:16` and `fills.py:246-247` exclude.
* `fills.py:82-86` says the anchor is never evicted; `anchor` replaces a file it could not read
  by one with a single account (`fills.py:109-117`). The other accounts are anchored again, which keeps
  history private and loses what happened since.
* `journal.py:35-38` says that an unreadable watermark re-ships rather than skips;
  `mark_shipped` reads it again, and if only the first read failed, it moves past
  lines that were not sent.
* `runtime.py:963-972` ends the audit shipper on any exception but one, while
  `journal.py:5-7` says that a reconnect ships the gap.

Of the approvals and the stream:

* `approvals.py:21` promises no double execution. The file queue journals outside its lock
  (`approvals.py:463`), so after a restart a record that was called can be pending again; `ActedOnce`
  is the promise with that exemption (section 7).
* `listen.py:33-35` keeps chat and context apart so that a day of scanning cannot evict a question. The
  buffer that holds a gap while it is read is shared (`listen.py:352-354`, MAX_BUFFERED), and with more
  than that many context events behind it the question is gone before the trim sees it;
  `CursorNeverOutruns` without its last disjunct is violated.
* `listen.py:26-28` says that the saved cursor never outruns what was emitted. A cursor file that
  cannot be read counts as a first run (`listen.py:261-265`) and is replaced by the present.
* README.md:264 promises a process for each response-required event. A killed listener loses the turns it
  had queued although the cursor is past them (`wake.py:30`, `listen.py:348`), and a turn has no time limit
  (`wake.py:42`), so one that hangs holds back all others and the orderly end.
* `listen.py:180-183` says one bad response must not end the hold; an event whose body or kind has the
  wrong type raises outside that handler (`listen.py:341`), and again after each restart, as the cursor is not moved.

Of the policy, the connections and the processes:

* `sync.py:221` says that no exception ever escapes; the write of `_record_schema_error` is made inside the handler of another
  one, and a failure there ends the syncer; so does an answer that is JSON but no object (`client.py:123` raises `AttributeError`, which `sync.py:237` does
  not catch). `PolicyArrives` exempts both.
* Two syncs that overlap, or a platform that goes back to a bundle while its successor is half written, leave a stamp that
  lies, and every 304 renews it. `StampIsTrue` and `PolicyArrives` exempt it.
* `_disconnect` waits for a task that another caller may have cancelled (`hub.py:369-377`); the cancellation then reaches a
  caller nobody cancelled. The loops catch `Exception`, which `CancelledError` is not, so such a loop ends, the brake's among
  them (`runtime.py:1009`: "a brake that dies is no brake"). `FailsOnlyByOthers` says when it can happen.
* A dial that succeeds after its maker gave up overwrites the error and its back-off (`hub.py:318`, `hub.py:363`); a connection
  that is being closed can be reused until its task says so; the lock is one for all connectors, and a teardown
  holds it for up to five seconds; the caller that the docstring of `invalidate` names (`hub.py:380`) does not exist.
* `hub.py:413-415` says that the guardrails run against the current configuration. `call` reads the settings before it waits for the
  connection and judges with them after (`hub.py:422-435`), so a connector disabled during a dial still takes that call.
* README.md:25-26 says that a broker whose account list is empty takes no write until its owner confirms one, and
  `config.py:81-84` that its read tier is for display ("a write never may"). With `require_account_arg` off, a write that names no account
  passes on any tier (`guardrails.py:99-104`, `guardrails.py:119-124`): a list of read-only accounts alone is enough, and the order falls to the broker's
  default account. `NamedWritesAreConfirmed` has this as its exemption; with `allow # {}` asked of every
  write the run `connection` fails there.
* A daemon that could not take its port releases the pidfile that it had claimed over the one that serves, and leaves pid 0
  there. `OursIsProvable` exempts a claim made over another.
* A restart that finds nobody listening while a replacement is still starting starts a second one, and the new one runs its loops
  while the old one still drains. A record read between `open` and write sends a replacement to the default port. Two restarts that read the file at different
  moments can so aim at different ports, with no daemon alive, and both start one: four processes are needed to see it.
* The server may raise SIGTERM again after it has shut down, and then no `finally` block runs: the record stays.
* The second daemon's `recover_interrupted` (`runtime.py:1041`) marks an exit that the first still has under way.

## 10. What is proved

The proofs hold for every value of the constants that meets the module's `ASSUME`: any number
of approvals, positions, processes and threads, any number of crashes and faults, no bound on quantities.
Nothing is assumed beyond those and the definitions. Each invariant below was checked by TLC on the
instance of its run before it was proved.

* `OrderPathProofs`. `Inductive`: `TypeOK /\ IInv`. `IInv` is needed because the promises
  depend on where the executor is: it says what the approval in hand looks like at each program
  counter (`ControlInv`), that what was told agrees with what is held (`ToldInv`), that whatever may
  still be submitted has no order unless it was interrupted (`UnplacedInv`), and that the ledger
  is ahead (`LedgerFirst`). `OneApproval`, `WriteAhead`, `AtMostOnce`,
  `HonestRefusalUnlessInterrupted` (the last two exempt an approval whose submission was cut short) follow from it, and `SoundLedger` joins the first two; `SubmittedOnce` is an action property that needs it in the
  old state; `Refinement` maps each step to a step or a stutter of `OrderPromise`.
* `SupervisionProofs`. `Inductive`: `TypeOK /\ IInv` with `ControlInv` (who is handled),
  `ExitBudget` (exits accepted, plus what may still fire, are within the records written),
  `BlockedNeverSold` and `TrailInv` (what the state of a handled record can be). `OneExitPerRecord`,
  `NeverBlocked`, `NoRiskLeft`, `Closed`, `Refinement` build on it. `WithinEntry` has a
  hypothesis, `FirstWithinEntry`: the first warrant's ceiling does not exceed the entry,
  which the platform is trusted for (section 9).
* `FillJournalProofs`. `JournalHoldsNews` is about the file, and what may enter it was decided steps earlier.
  `HistoryInv` follows an account's history from the answer to the anchor: what an answer in hand does not show is
  over, and what may still be shown stands in the anchor. `RowsInv` is what makes that stable: an order only moves from
  working to filled, and what was journaled was anchored. `SeenInv` and `LossInv` carry "no row twice, one row lost at most"
  over a torn line and a restart; `MarkInv` ties the batch in hand to the lines behind the watermark, which is
  what `NothingSkipped` needs when the platform takes it and the watermark moves later.
* `BrakeWatchProofs`. `RunIsLies`: as long as the market was never at a stop, the run of its
  position is no longer than the number of bad prints, the quote not yet judged included. `FireInv` is what
  `FiresOnTrueTouch` says of a position that fires. Of `ExitOrder`: `ExitOfAnyShares` (whether an exit can be sent depends on
  its quantity only in that it is whole) gives `GuardHolds`; `ExitReduces` follows the words of an order through both
  translations.
* `ApprovalQueueProofs`. Two inductive invariants. The first, `IInv`, is `TypeOK`, `Held` (a job holds records that exist) and
  `Claimed`: two jobs never claim one record; a claimed record is no longer pending, the file
  queue's claim is in the journal before its call, and nothing was called or issued for it yet; a record
  that was acted on is past pending in the store and in the journal. The last part is what carries
  `ActsOnce` over a restart: the journal of a record outside `lost` reads back at least as far
  as the claim, and only a pending record can be claimed.

  The second, `RecordInv`, adds what becomes of a record. `Follows` is the order of its states: never back, an end
  stays, what was claimed is not denied or expired. `ClaimInv`: nobody but its claimant ends a claimed record, except that a
  slow call's row may be given up. `JournalInv`: the last readable line of a record is one that the record has followed, and
  so is each line about to be appended, so a restart goes back in time and nowhere else. `SaidInv` and `OwedInv` say of the
  record, of the file and of the lines in hand what `AnswerStands` and `OutcomeIsOwed` say of the record
  alone; without the file they would not survive a restart, and without the lines in hand not an append. `Stands`
  holds of slow calls too. `OwedIsSeen` has the hypothesis `~SlowCalls`, which the default `timeout_s` meets; TLC
  refutes it without (section 7).
* `PlatformProofs`. Of `PolicySync`: `StampIsTrue` speaks of files at rest, and the invariant of those in the middle of a write: `CallInv`
  (the files are written only with a body in hand), `OneWrites` and `AloneInv` (untangled, one writer at most has written;
  who is alone stays alone until another starts), `AloneSees` and `WrittenStands` (a writer alone finds on disk what it asked with
  and what it wrote) and `TruthInv`: what the stamp, or an etag about to be put back, says of both files is true, or an apply that
  was cut short is still to be made good and the platform's etag is another one.

  Of `SignalStream`: `StreamInv` is `TypeOK` and five parts. `HoldInv` is the lock: whoever is up holds it, so the others are down with
  nothing in hand. `PlaceInv` places what a listener holds in the log: the cursor in memory is not behind the one on disk, the buffer
  and the batch lie between them, the queue before the batch. `RepeatInv`: past the cursor on disk, only the batch in hand can have
  been printed once more than batches were cut. `TurnInv`: turns taken and the one owed add up to the lines printed. `LossInv`
  follows an event from the buffer over the trim to the cursor on disk: while the gap is read, what is no longer held has
  MAX_BUFFERED newer ones; from the flush on, it has those or `Replay` newer ones of its class, printed or in the batch. It rests on
  `NewestOf`: the newest n of a finite set are n at most, and whatever is not among them has n of them above it.
  The library has no theorem on the least or last of a finite set of integers; `FirstOf` and `LastOf` get
  it from the well-foundedness of its strict-subset ordering, without induction over an operator.
* `ConnectionProofs`. `NoOrphan` depends on what a task may do with the connection in its hands: who drops one holds the lock
  and drops the pooled one (`DropInv`), who leaves one has stopped it (`LeaveInv`), and which statuses only a stop can
  have caused (`StopInv`). `PoolInv` says that the pooled connection is cancelled by its maker alone, which is
  what `FailsOnlyByOthers` rests on. `NamedWritesConfirmed` and `ListingIsHonest` are about `Gate`, by cases of `evaluate`.
* `DaemonProofs`. `ClaimInv`: a claim that none was made over is in the file until it is given up; `ReleaseInv`: who is about to
  release has seen its own pid, and no other claim stands then; `PortInv`: one listener for a port. `OneServes` needs `AimInv`: all
  that live, and all that a restart under way will start, have one port. The attempt to prove it without the clause about two
  restarts failed for a reason: section 9.

The `TypeOK` of `OrderPath`, `Supervision` and `ApprovalQueue` is proved and not a property of a run, and so is `SubmittedOnce`; the
other modules' types are part of a property of their runs and of the theorem that states it.

Only model-checked: the liveness properties (`FairSpec`), since liveness and `ENABLED` are out of reach of the installed
provers.

## 11. What is not modelled

* Shipping of the decision journal: its file is `FillJournal`'s, its error handler is not.
* `authorizes`, the signature and the expiry of a warrant: `Sound`, `Renew` and the ceiling stand for their outcome.
* Which connector's quote prices a position (`runtime.py:898`): every position of `BrakeWatch` has a symbol of its own.
* Local overrides of a connector's entry and the connector report of the syncer: pure merges and a best-effort report.
* The MCP read tools, paging of the approval lists, `recent_for_symbol`, and what of a record an agent may see: pure reads.
* The commands of `cli.py` other than `restart`, `sync`, the listener and the switch: they print, or set up.
* Interactive set-up and credentials; encoding, schemas and signatures, of which
  only the outcome counts.
