---------------------------- MODULE Connection ----------------------------
(***************************************************************************)
(* The hub's pooled connection to one connector (hub.py).  A connection is  *)
(* owned from its dial to its teardown by a task of its own; calls from     *)
(* other tasks share it, replace it and stop it, under one lock but not     *)
(* only there: a caller waits for a dial, and gives up on it, outside.      *)
(*                                                                         *)
(* Everything runs in one event loop, so a step runs from one await to the  *)
(* next.  Objects nobody can reach any more are used again for new ones.    *)
(***************************************************************************)
EXTENDS Integers, Sequences, FiniteSets

CONSTANTS
  Caller,  \* tasks that call the connector: the agent's requests, each loop
  Closer,  \* the task that closes the hub
  Conn,    \* bound: connections whose task or caller is not through with them
  None

ASSUME ConnectionAssumption ==
  /\ Closer \notin Caller /\ None \notin Conn
  /\ IsFiniteSet(Caller) /\ IsFiniteSet(Conn)

VARIABLES
  pool,      \* _conns[connector]: a connection or None
  line,      \* the lock: its holder first, then who waits for it
  task,      \* each connection: where its task is
  status,    \* status
  session,   \* whether _session is set
  stop,      \* whether _stop is set
  cancelled, \* whether its task was cancelled
  ready,     \* the future _ready
  backoff,   \* whether error_until is ahead
  pc,        \* each caller: where it is
  mine,      \* each caller: the connection it waits for, stops or uses
  overdue    \* history: connections whose dial ran out its maker's patience

vars == <<pool, line, task, status, session, stop, cancelled, ready, backoff,
          pc, mine, overdue>>
connVars == <<task, status, session, stop, cancelled, ready, backoff>>
callVars == <<pool, line, pc, mine, overdue>>

Tasks == Caller \cup {Closer}
Running(k) == task[k] \in {"dialing", "open", "closing"}

TypeOK ==
  /\ pool \in Conn \cup {None} /\ line \in Seq(Tasks)
  /\ task \in [Conn -> {"none", "dialing", "open", "closing", "done"}]
  /\ status \in [Conn -> {"connecting", "connected", "disconnected", "error"}]
  /\ session \in [Conn -> BOOLEAN] /\ stop \in [Conn -> BOOLEAN]
  /\ cancelled \in [Conn -> BOOLEAN] /\ backoff \in [Conn -> BOOLEAN]
  /\ ready \in [Conn -> {"pending", "up", "failed"}]
  /\ pc \in [Tasks -> {"idle", "queued", "dropping", "waiting", "leaving", "calling",
                       "torn", "cancelled", "over"}]
  /\ mine \in [Tasks -> Conn \cup {None}] /\ overdue \subseteq Conn

Init ==
  /\ pool = None /\ line = <<>>
  /\ task = [k \in Conn |-> "none"] /\ status = [k \in Conn |-> "disconnected"]
  /\ session = [k \in Conn |-> FALSE] /\ stop = [k \in Conn |-> FALSE]
  /\ cancelled = [k \in Conn |-> FALSE] /\ backoff = [k \in Conn |-> FALSE]
  /\ ready = [k \in Conn |-> "pending"]
  /\ pc = [c \in Tasks |-> "idle"] /\ mine = [c \in Tasks |-> None] /\ overdue = {}

----------------------------------------------------------------------------
(* The task of a connection, _run_connection.                               *)

\* How a task ends: its finally block, or the except block before it.
Ends(k, as) ==
  /\ task' = [task EXCEPT ![k] = "done"] /\ session' = [session EXCEPT ![k] = FALSE]
  /\ status' = [status EXCEPT ![k] = as]

\* The session is initialized and has listed its tools.  The task parks until it
\* is stopped, which it may have been already.
Connect(k) ==
  /\ task[k] = "dialing" /\ ~cancelled[k]
  /\ task' = [task EXCEPT ![k] = IF stop[k] THEN "closing" ELSE "open"]
  /\ session' = [session EXCEPT ![k] = TRUE]
  /\ status' = [status EXCEPT ![k] = "connected"]
  /\ ready' = [ready EXCEPT ![k] = IF @ = "pending" THEN "up" ELSE @]
  /\ UNCHANGED <<stop, cancelled, backoff, callVars>>

\* The dial fails, or what was open breaks.
Fail(k) ==
  /\ Running(k) /\ ~cancelled[k]
  /\ Ends(k, "error")
  /\ backoff' = [backoff EXCEPT ![k] = TRUE]
  /\ ready' = [ready EXCEPT ![k] = IF @ = "pending" THEN "failed" ELSE @]
  /\ UNCHANGED <<stop, cancelled, callVars>>

Stop(k) ==
  /\ task[k] = "open" /\ stop[k] /\ ~cancelled[k]
  /\ task' = [task EXCEPT ![k] = "closing"]
  /\ UNCHANGED <<status, session, stop, cancelled, ready, backoff, callVars>>

Close(k) ==
  /\ task[k] = "closing" /\ ~cancelled[k]
  /\ Ends(k, "disconnected")
  /\ UNCHANGED <<stop, cancelled, ready, backoff, callVars>>

\* A cancelled task runs its finally block only: _ready is never resolved.
Unwind(k) ==
  /\ Running(k) /\ cancelled[k]
  /\ Ends(k, IF status[k] = "error" THEN "error" ELSE "disconnected")
  /\ UNCHANGED <<stop, cancelled, ready, backoff, callVars>>

\* The thirty seconds outlast the five that giving up may take.
BackoffEnds(k) ==
  /\ backoff[k] /\ \A c \in Tasks : ~(pc[c] = "leaving" /\ mine[c] = k)
  /\ backoff' = [backoff EXCEPT ![k] = FALSE]
  /\ UNCHANGED <<task, status, session, stop, cancelled, ready, callVars>>

----------------------------------------------------------------------------
(* A call, through _ensure_connected.                                       *)

Go(c, place, k) == pc' = [pc EXCEPT ![c] = place] /\ mine' = [mine EXCEPT ![c] = k]
Release == line' = Tail(line)
Holds(c) == line # <<>> /\ Head(line) = c

Call(c) ==
  /\ pc[c] = "idle" /\ Go(c, "queued", None) /\ line' = Append(line, c)
  /\ UNCHANGED <<pool, overdue, connVars>>

Enters(c) == pc[c] = "queued" /\ Holds(c)

\* The caller reaches for the session, which may be gone.
Use(c, k) == Go(c, IF session[k] THEN "calling" ELSE "torn", k)

Reusable(k) == k # None /\ status[k] = "connected" /\ Running(k)
Resting(k)  == k # None /\ status[k] = "error" /\ backoff[k]

Reuse(c) ==
  /\ Enters(c) /\ Reusable(pool)
  /\ Use(c, pool) /\ Release
  /\ UNCHANGED <<pool, overdue, connVars>>

RefuseInBackoff(c) ==
  /\ Enters(c) /\ Resting(pool)
  /\ Go(c, "idle", None) /\ Release
  /\ UNCHANGED <<pool, overdue, connVars>>

\* Mutant of Drop: the task is cancelled at once.
DropAtOnce(c) ==
  /\ Enters(c) /\ ~Reusable(pool) /\ ~Resting(pool)
  /\ pool # None /\ Running(pool)
  /\ stop' = [stop EXCEPT ![pool] = TRUE]
  /\ cancelled' = [cancelled EXCEPT ![pool] = TRUE]
  /\ Go(c, "dropping", pool)
  /\ UNCHANGED <<pool, line, overdue, task, status, session, ready, backoff>>

\* A connection that is still being dialled, or torn down, is stopped first: its
\* task is waited for, with the lock held.
Drop(c) ==
  /\ Enters(c) /\ ~Reusable(pool) /\ ~Resting(pool)
  /\ pool # None /\ Running(pool)
  /\ stop' = [stop EXCEPT ![pool] = TRUE]
  /\ Go(c, "dropping", pool)
  /\ UNCHANGED <<pool, line, overdue, task, status, session, cancelled, ready, backoff>>

\* Nobody can reach k: neither the pool nor its task nor a caller.
Free(k) == k # pool /\ ~Running(k) /\ \A c \in Tasks : mine[c] # k

\* A new connection k takes the place of the old one; the tasks in `given`, given
\* up on, are cancelled.  The lock is released and the dial waited for.
Dials(c, given) ==
  \E k \in Conn :
    /\ Free(k) /\ pool' = k /\ Go(c, "waiting", k) /\ Release
    /\ task' = [task EXCEPT ![k] = "dialing"]
    /\ status' = [status EXCEPT ![k] = "connecting"]
    /\ session' = [j \in Conn |-> session[j] /\ j \notin given \cup {k}]
    /\ cancelled' = [j \in Conn |-> (cancelled[j] \/ j \in given) /\ j # k]
    /\ stop' = [stop EXCEPT ![k] = FALSE]
    /\ ready' = [ready EXCEPT ![k] = "pending"]
    /\ backoff' = [backoff EXCEPT ![k] = FALSE]
    /\ overdue' = overdue \ {k}

\* Mutant of Dial: a dial under way is replaced, and not stopped first.
DialOver(c) ==
  /\ Enters(c) /\ ~Reusable(pool) /\ ~Resting(pool)
  /\ Dials(c, {})

Dial(c) ==
  /\ Enters(c) /\ ~Reusable(pool) /\ ~Resting(pool)
  /\ pool # None => ~Running(pool)
  /\ Dials(c, {})

\* _disconnect has seen the task end, or has waited five seconds and cancels it.
DropEnds(c) ==
  /\ pc[c] = "dropping" /\ ~Running(mine[c]) /\ ~cancelled[mine[c]]
  /\ Dials(c, {})

DropTimesOut(c) ==
  /\ pc[c] = "dropping" /\ Running(mine[c])
  /\ Dials(c, {mine[c]})

\* Another caller cancelled the task first, and the wait passes its cancellation on
\* as if it were the waiting caller's own.
DropIsCancelled(c) ==
  /\ pc[c] = "dropping" /\ ~Running(mine[c]) /\ cancelled[mine[c]]
  /\ Go(c, "cancelled", mine[c]) /\ Release
  /\ UNCHANGED <<pool, overdue, connVars>>

Answered(c) ==
  /\ pc[c] = "waiting" /\ ready[mine[c]] = "up"
  /\ Use(c, mine[c])
  /\ UNCHANGED <<pool, line, overdue, connVars>>

Failed(c) ==
  /\ pc[c] = "waiting" /\ ready[mine[c]] = "failed"
  /\ Go(c, "idle", None)
  /\ UNCHANGED <<pool, line, overdue, connVars>>

\* The connector's timeout: the future is cancelled, the failure is written down and
\* the connection stopped, all of it outside the lock.
TimesOut(c) ==
  /\ pc[c] = "waiting" /\ ready[mine[c]] = "pending"
  /\ ready' = [ready EXCEPT ![mine[c]] = "failed"]
  /\ status' = [status EXCEPT ![mine[c]] = "error"]
  /\ backoff' = [backoff EXCEPT ![mine[c]] = TRUE]
  /\ stop' = [stop EXCEPT ![mine[c]] = TRUE]
  /\ overdue' = overdue \cup {mine[c]}
  /\ IF Running(mine[c]) THEN Go(c, "leaving", mine[c]) ELSE Go(c, "idle", None)
  /\ UNCHANGED <<pool, line, task, session, cancelled>>

Leaves(c) == Go(c, IF c = Closer THEN "over" ELSE "idle", None)

LeaveEnds(c) ==
  /\ pc[c] = "leaving" /\ ~Running(mine[c]) /\ ~cancelled[mine[c]]
  /\ Leaves(c)
  /\ UNCHANGED <<pool, line, overdue, connVars>>

\* Mutant of LeaveTimesOut: the task is waited for without a limit.
LeavesNever(c) ==
  /\ pc[c] = "leaving" /\ Running(mine[c]) /\ cancelled[mine[c]]
  /\ Leaves(c)
  /\ UNCHANGED <<pool, line, overdue, connVars>>

LeaveTimesOut(c) ==
  /\ pc[c] = "leaving" /\ Running(mine[c])
  /\ cancelled' = [cancelled EXCEPT ![mine[c]] = TRUE]
  /\ session' = [session EXCEPT ![mine[c]] = FALSE]
  /\ Leaves(c)
  /\ UNCHANGED <<pool, line, overdue, task, status, stop, ready, backoff>>

LeaveIsCancelled(c) ==
  /\ pc[c] = "leaving" /\ ~Running(mine[c]) /\ cancelled[mine[c]]
  /\ Go(c, "cancelled", mine[c])
  /\ UNCHANGED <<pool, line, overdue, connVars>>

\* The answer, an error or the read timeout of a call that was sent, or the end of
\* one that was not.
Return(c) ==
  /\ pc[c] \in {"calling", "torn", "cancelled"}
  /\ Leaves(c)
  /\ UNCHANGED <<pool, line, overdue, connVars>>

\* Only one place of the line is given up, and the order of the others stays.
GiveUpPlace(i) ==
  line' = [j \in 1..(Len(line) - 1) |-> line[IF j < i THEN j ELSE j + 1]]

\* A caller is cancelled from outside: its request ends, or its loop is stopped.  The
\* lock and the future it waits for go with it; the connection's task is shielded,
\* and is neither cancelled nor forgotten by the pool.
CancelCaller(c) ==
  /\ pc[c] \in {"queued", "dropping", "waiting", "leaving", "calling"}
  /\ Go(c, "idle", None)
  /\ IF pc[c] \in {"queued", "dropping"}
       THEN \E i \in 1..Len(line) : line[i] = c /\ GiveUpPlace(i)
       ELSE UNCHANGED line
  /\ ready' = IF pc[c] = "waiting" /\ ready[mine[c]] = "pending"
                THEN [ready EXCEPT ![mine[c]] = "failed"] ELSE ready
  /\ UNCHANGED <<pool, overdue, task, status, session, stop, cancelled, backoff>>

----------------------------------------------------------------------------
(* aclose: the connection leaves the pool under the lock and is stopped      *)
(* outside.                                                                 *)

Invalidate ==
  /\ Enters(Closer) /\ Release /\ pool' = None
  /\ IF pool = None
       THEN Go(Closer, "over", None) /\ UNCHANGED stop
       ELSE /\ stop' = [stop EXCEPT ![pool] = TRUE]
            /\ IF Running(pool) THEN Go(Closer, "leaving", pool) ELSE Go(Closer, "over", None)
  /\ UNCHANGED <<overdue, task, status, session, cancelled, ready, backoff>>

----------------------------------------------------------------------------
Connects(k) == Connect(k) \/ Fail(k) \/ Stop(k) \/ Close(k) \/ BackoffEnds(k)

Waits(c) == LeaveEnds(c) \/ LeaveTimesOut(c) \/ LeaveIsCancelled(c) \/ Return(c)

Steps(c) ==
  \/ Reuse(c) \/ RefuseInBackoff(c) \/ Drop(c) \/ Dial(c)
  \/ DropEnds(c) \/ DropTimesOut(c) \/ DropIsCancelled(c)
  \/ Answered(c) \/ Failed(c) \/ TimesOut(c)

Next ==
  \/ \E k \in Conn : Connects(k) \/ Unwind(k)
  \/ \E c \in Caller : Call(c) \/ Steps(c) \/ CancelCaller(c)
  \/ \E c \in Tasks : Waits(c)
  \/ Call(Closer) \/ Invalidate

Spec == Init /\ [][Next]_vars

\* Every wait of a caller has a timeout, and a cancelled task unwinds.  Of the
\* broker nothing is assumed.
Fairness ==
  /\ \A c \in Caller : WF_vars(Steps(c))
  /\ \A c \in Tasks : WF_vars(Waits(c))
  /\ \A k \in Conn : WF_vars(Unwind(k))
  /\ WF_vars(Invalidate)

FairSpec == Spec /\ Fairness
----------------------------------------------------------------------------
(* Properties.                                                              *)

\* No connection is left running with nobody to stop it: one that runs unstopped
\* is the pooled one.  So at most one is ever open or being dialled for use.
NoOrphan ==
  /\ TypeOK
  /\ \A k \in Conn : Running(k) /\ ~stop[k] /\ ~cancelled[k] => k = pool

\* A call that reaches for its session finds it, unless another task stopped the
\* connection in between or the connection broke; and a call ends in a cancellation
\* nobody asked for only where connecting took all the time its maker had.
FailsOnlyByOthers ==
  \A c \in Caller :
    /\ pc[c] = "torn" => stop[mine[c]] \/ status[mine[c]] = "error"
    /\ pc[c] = "cancelled" => mine[c] \in overdue

\* Every call ends, whatever the broker does and whoever holds the lock.
EveryCallEnds == \A c \in Caller : pc[c] # "idle" ~> pc[c] = "idle"
=============================================================================
