---------------------------- MODULE SignalStream ----------------------------
(***************************************************************************)
(* nakagai-edge listen (edge/listen.py, edge/wake.py and _cmd_listen of     *)
(* cli.py): it holds the platform's event stream open, prints each event    *)
(* it may show, keeps the read position on disk, and starts one local agent *)
(* turn for each event that wants an answer.                                *)
(*                                                                         *)
(* An event is its place in the platform's log and its class.  The lists    *)
(* and the queue of the code hold events in the order of the log, each      *)
(* once, so they are sets here and the first of one is its least.  A wake   *)
(* command is configured.  A poll that fails changes nothing but the pause  *)
(* before the next, so it is a stuttering step.                             *)
(***************************************************************************)
EXTENDS Integers, Sequences, FiniteSets

CONSTANTS
  Listener,     \* processes that may run the command on this root
  NoListener,   \* nobody holds the lock
  Absent,       \* no cursor on disk; no turn running
  Replay,       \* --replay
  MaxBuffered,  \* MAX_BUFFERED
  MaxRequests,  \* max_catchup_requests
  MaxEvents,    \* bound: events the platform ever has
  MaxEnds,      \* bound: how often a listener ends, of itself or killed
  MaxUnread     \* bound: how often the cursor file cannot be read

ASSUME SignalStreamAssumption ==
  /\ NoListener \notin Listener /\ Absent \notin Nat
  /\ {Replay, MaxEvents, MaxEnds, MaxUnread} \subseteq Nat
  /\ {MaxBuffered, MaxRequests} \subseteq Nat \ {0}

VARIABLES
  log,      \* the platform: the classes of its events, in order
  saved,    \* cache/channel-cursor.json
  lock,     \* cache/listen.lock: whose flock it is
  me,       \* what each process has in memory
  emits,    \* history: how often each event was printed
  turns,    \* history: how often a turn was started for each event
  past,     \* history: everything up to here was over when a listener anchored
  cuts,     \* history: ends between the first line of a batch and its cursor
  killed,   \* history: some listener was killed
  ends, unread

vars == <<log, saved, lock, me, emits, turns, past, cuts, killed, ends, unread>>

Class == {"chat", "context", "hidden"}  \* response_required; rendered; neither
Event == 1..MaxEvents
Logged == 1..Len(log)
Shown(s) == log[s] # "hidden"

\* The locals of ChannelListener.run, and the WakeRunner's queue and child.
Fresh == [pc |-> "down", cursor |-> 0, catching |-> FALSE, pending |-> {},
          requests |-> 0, batch |-> {}, queue |-> {}, turn |-> Absent]

Polling == {"anchor", "anchored", "poll", "emit"}
InMemory ==
  [pc : Polling \cup {"down", "closing"}, cursor : 0..MaxEvents, catching : BOOLEAN,
   pending : SUBSET Event, requests : 0..MaxRequests, batch : SUBSET Event,
   queue : SUBSET Event, turn : Event \cup {Absent}]

TypeOK ==
  /\ log \in Seq(Class) /\ Len(log) <= MaxEvents
  /\ saved \in 0..Len(log) \cup {Absent} /\ past \in 0..Len(log)
  /\ lock \in Listener \cup {NoListener}
  /\ me \in [Listener -> InMemory]
  /\ \A l \in Listener : Cardinality(me[l].pending) <= MaxBuffered
  /\ emits \in [Event -> Nat] /\ turns \in [Event -> Nat]
  /\ cuts \in 0..MaxEnds /\ killed \in BOOLEAN
  /\ ends \in 0..MaxEnds /\ unread \in 0..MaxUnread

Init ==
  /\ log = <<>> /\ saved = Absent /\ lock = NoListener
  /\ me = [l \in Listener |-> Fresh]
  /\ past = 0 /\ cuts = 0 /\ killed = FALSE
  /\ emits = [s \in Event |-> 0] /\ turns = [s \in Event |-> 0]
  /\ ends = 0 /\ unread = 0

-----------------------------------------------------------------------------
(* Starting: the lock, then the cursor, Absent both for a file that         *)
(* is not there and for one that cannot be read.                            *)

Acquired(l) == lock = NoListener /\ lock' = l

Start(l) ==
  /\ me[l].pc = "down"
  /\ Acquired(l)
  /\ \/ /\ saved # Absent
        /\ me' = [me EXCEPT ![l].pc = "poll", ![l].cursor = saved, ![l].catching = TRUE]
        /\ UNCHANGED unread
     \/ /\ saved = Absent
        /\ me' = [me EXCEPT ![l].pc = "anchor"]
        /\ UNCHANGED unread
     \/ /\ saved # Absent /\ unread < MaxUnread
        /\ unread' = unread + 1
        /\ me' = [me EXCEPT ![l].pc = "anchor"]
  /\ UNCHANGED <<log, saved, emits, turns, past, cuts, killed, ends>>

Anchor(l) ==
  /\ me[l].pc = "anchor"
  /\ me' = [me EXCEPT ![l].pc = "anchored", ![l].cursor = Len(log)]
  /\ UNCHANGED <<log, saved, lock, emits, turns, past, cuts, killed, ends, unread>>

SaveAnchor(l) ==
  /\ me[l].pc = "anchored"
  /\ saved' = me[l].cursor /\ past' = me[l].cursor
  /\ me' = [me EXCEPT ![l].pc = "poll"]
  /\ UNCHANGED <<log, lock, emits, turns, cuts, killed, ends, unread>>

-----------------------------------------------------------------------------
(* One poll.  The answer holds the next n events, none only when there are  *)
(* none; the cursor it carries is the last of them or, in the anomaly the   *)
(* code guards against, the one it was asked with.                          *)

First(es) == {s \in es : \A t \in es : s <= t}
Above(es, s) == {t \in es : t > s}
Newest(es, n) == {s \in es : Cardinality(Above(es, s)) < n}

Rendered(cursor, n) == {s \in (cursor + 1)..(cursor + n) : Shown(s)}

\* Mutant of Kept: one budget for chat and context.
KeptOfAll(gap) == Newest(gap, Replay)

\* _flush: what of a gap is printed.
Kept(gap) ==
  Newest({s \in gap : log[s] = "chat"}, Replay)
    \cup Newest({s \in gap : log[s] = "context"}, Replay)

\* Mutant of Advances: any answer is worked on.
AdvancesAlways(l, n, moved) == TRUE

\* Mutant of Advances: an empty answer counts as one that did not advance.
AdvancesStrictly(l, n, moved) == moved > me[l].cursor

\* A batch that does not advance the cursor is left alone.
Advances(l, n, moved) == n = 0 \/ moved > me[l].cursor

Live(l, n, moved) ==
  /\ ~me[l].catching
  /\ me' = [me EXCEPT ![l].pc = "emit", ![l].cursor = moved,
                      ![l].batch = Rendered(me[l].cursor, n)]

Buffered(l, n) == Newest(me[l].pending \cup Rendered(me[l].cursor, n), MaxBuffered)
GapEnds(l, n) == n = 0 \/ me[l].requests + 1 >= MaxRequests

Catch(l, n, moved) ==
  /\ me[l].catching /\ ~GapEnds(l, n)
  /\ me' = [me EXCEPT ![l].cursor = moved, ![l].requests = @ + 1,
                      ![l].pending = Buffered(l, n)]

Flush(l, n, moved) ==
  /\ me[l].catching /\ GapEnds(l, n)
  /\ me' = [me EXCEPT ![l].pc = "emit", ![l].cursor = moved, ![l].catching = FALSE,
                      ![l].requests = 0, ![l].pending = {},
                      ![l].batch = Kept(Buffered(l, n))]

Poll(l, n, moved) ==
  /\ me[l].pc = "poll"
  /\ n \in 0..(Len(log) - me[l].cursor)
  /\ n = 0 => me[l].cursor = Len(log)
  /\ \/ /\ Advances(l, n, moved)
        /\ Live(l, n, moved) \/ Catch(l, n, moved) \/ Flush(l, n, moved)
     \/ ~Advances(l, n, moved) /\ UNCHANGED me
  /\ UNCHANGED <<log, saved, lock, emits, turns, past, cuts, killed, ends, unread>>

Polled(l) == \E n \in 0..MaxEvents : Poll(l, n, me[l].cursor + n)
Unmoved(l) == \E n \in Event : Poll(l, n, me[l].cursor)

\* emit of _cmd_listen: the line, and the turn if the event wants one.
Emit(l) ==
  /\ me[l].pc = "emit"
  /\ \E s \in First(me[l].batch) :
       /\ emits' = [emits EXCEPT ![s] = @ + 1]
       /\ me' = [me EXCEPT ![l].batch = @ \ {s},
                           ![l].queue = IF log[s] = "chat" THEN @ \cup {s} ELSE @]
  /\ UNCHANGED <<log, saved, lock, turns, past, cuts, killed, ends, unread>>

Save(l) ==
  /\ me[l].pc = "emit" /\ me[l].batch = {}
  /\ saved' = me[l].cursor
  /\ me' = [me EXCEPT ![l].pc = "poll"]
  /\ UNCHANGED <<log, lock, emits, turns, past, cuts, killed, ends, unread>>

-----------------------------------------------------------------------------
(* The thread of WakeRunner.  A command that cannot be started, or that     *)
(* fails, is noted and is over: a turn all the same.                        *)

TurnStarts(l) ==
  /\ me[l].turn = Absent
  /\ \E s \in First(me[l].queue) :
       /\ turns' = [turns EXCEPT ![s] = @ + 1]
       /\ me' = [me EXCEPT ![l].turn = s, ![l].queue = @ \ {s}]
  /\ UNCHANGED <<log, saved, lock, emits, past, cuts, killed, ends, unread>>

TurnEnds(l) ==
  /\ me[l].turn # Absent
  /\ me' = [me EXCEPT ![l].turn = Absent]
  /\ UNCHANGED <<log, saved, lock, emits, turns, past, cuts, killed, ends, unread>>

-----------------------------------------------------------------------------
(* The end.  Stop is every way out of run that Python sees: an interrupt, a *)
(* revoked token, a line that cannot be printed, a cursor that cannot be    *)
(* written.  The queue is worked off before the lock is given back.         *)

Cut(l) == cuts' = IF me[l].pc = "emit" THEN cuts + 1 ELSE cuts

Stop(l) ==
  /\ me[l].pc \in Polling /\ ends < MaxEnds
  /\ ends' = ends + 1 /\ Cut(l)
  /\ me' = [me EXCEPT ![l] = [Fresh EXCEPT !.pc = "closing", !.queue = me[l].queue,
                                           !.turn = me[l].turn]]
  /\ UNCHANGED <<log, saved, lock, emits, turns, past, killed, unread>>

\* Mutant of Release: the lock is given back before the queue is worked off.
ReleaseFirst(l) ==
  /\ me[l].pc = "closing"
  /\ lock' = NoListener
  /\ me' = [me EXCEPT ![l].pc = "down"]
  /\ UNCHANGED <<log, saved, emits, turns, past, cuts, killed, ends, unread>>

Release(l) ==
  /\ me[l].pc = "closing"
  /\ me[l].queue = {} /\ me[l].turn = Absent
  /\ lock' = NoListener
  /\ me' = [me EXCEPT ![l].pc = "down"]
  /\ UNCHANGED <<log, saved, emits, turns, past, cuts, killed, ends, unread>>

\* The kernel gives the lock back; what was queued is gone, and a child that was
\* running goes on without a parent, which nothing here sees.
Kill(l) ==
  /\ me[l].pc # "down" /\ ends < MaxEnds
  /\ ends' = ends + 1 /\ killed' = TRUE /\ Cut(l)
  /\ lock' = NoListener
  /\ me' = [me EXCEPT ![l] = Fresh]
  /\ UNCHANGED <<log, saved, emits, turns, past, unread>>

\* The platform.
Happens ==
  /\ Len(log) < MaxEvents
  /\ \E c \in Class : log' = Append(log, c)
  /\ UNCHANGED <<saved, lock, me, emits, turns, past, cuts, killed, ends, unread>>

Held(l) == Anchor(l) \/ SaveAnchor(l) \/ Polled(l) \/ Emit(l) \/ Save(l)

Next ==
  \/ \E l \in Listener : \/ Start(l) \/ Held(l) \/ Unmoved(l) \/ TurnStarts(l) \/ TurnEnds(l)
                         \/ Stop(l) \/ Release(l) \/ Kill(l)
  \/ Happens

Spec == Init /\ [][Next]_vars

\* run is `while should_continue()` with every failed poll caught and retried,
\* and a platform that is polled for ever answers at some point.
FairSpec == Spec /\ \A l \in Listener : WF_vars(Held(l))

-----------------------------------------------------------------------------
(* Properties *)

Since(s) == {t \in (s + 1)..saved : Shown(t)}
SinceOfClass(s) == {t \in Since(s) : log[t] = log[s] /\ emits[t] > 0}

\* The cursor on disk is never past an event that may be shown and was not
\* printed, whatever died in between, save for one that the trim gave up: then
\* Replay newer ones of its own class were printed, or MAX_BUFFERED newer ones of
\* any class had pushed it out of the buffer (listen.py:26-35, 352-362).
CursorNeverOutruns ==
  /\ TypeOK
  /\ saved # Absent =>
       \A s \in (past + 1)..saved :
         Shown(s) /\ emits[s] = 0 =>
           \/ Cardinality(SinceOfClass(s)) >= Replay
           \/ Cardinality(Since(s)) >= MaxBuffered

\* An event is printed again only after a listener ended between the lines of a
\* batch and the cursor, once for each such end: a platform that repeats itself
\* and a second listener do not multiply lines (listen.py:194-196, 333-339).
RepeatsOnlyAfterCut == \A s \in Event : emits[s] <= 1 + cuts

\* Turns never overlap, also from one listener to the next; only the child of a
\* listener that was killed may still run beside another
\* (README.md:264-266, wake.py:13, cli.py:506-508).
OneTurnAtATime == Cardinality({l \in Listener : me[l].turn # Absent}) <= 1

\* Where no listener was killed and none is running, each line that wanted an
\* answer had its turn: an orderly end works off the queue (wake.py:32-34).
EveryLineHadItsTurn ==
  ~killed /\ (\A l \in Listener : me[l].pc = "down") =>
    \A s \in Logged : turns[s] = IF log[s] = "chat" THEN emits[s] ELSE 0

\* Every line has its turn, one after the other.
TurnsInOrder == OneTurnAtATime /\ EveryLineHadItsTurn

\* As long as some listener holds the stream the cursor gets past every event,
\* and by CursorNeverOutruns the event was printed or given up: a catch-up ends,
\* also while new events arrive (listen.py:357-362).
Holding == \E l \in Listener : me[l].pc \in Polling
StreamIsRead ==
  \A s \in Event : (Len(log) >= s /\ Holding) ~> (~Holding \/ (saved # Absent /\ saved >= s))

=============================================================================
