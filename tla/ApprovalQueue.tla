--------------------------- MODULE ApprovalQueue ---------------------------
(***************************************************************************)
(* The queue of calls that wait for a human (approvals.py), for one         *)
(* account.  BaseApprovalQueue claims a record, makes the call or builds    *)
(* the artifact, and records how it ended; the file queue keeps the records *)
(* in memory and appends them to a journal outside its lock, the PostgreSQL *)
(* queue makes each transition one conditional UPDATE.                      *)
(*                                                                         *)
(* What runs under the lock, or in one transaction, is one step.            *)
(***************************************************************************)
EXTENDS Integers, FiniteSets

CONSTANTS
  Id,          \* approvals
  Thread,      \* threads of the file queue's process, or PostgreSQL workers
  None,        \* no record
  MaxPending,  \* APPROVAL_MAX_PENDING_PER_ACCOUNT
  SlowCalls,   \* whether timeout_s lets a call outlast the ten minutes of reconcile_stale
  MaxFaults,   \* bound: writes of a record that raise
  MaxRestarts  \* bound: how often a process dies

ASSUME ApprovalQueueAssumption ==
  /\ IsFiniteSet(Id)
  /\ SlowCalls \in BOOLEAN
  /\ MaxPending \in Nat /\ MaxFaults \in Nat /\ MaxRestarts \in Nat

VARIABLES
  backend,  \* which of the two queues is installed
  edge,     \* the approvals an edge asked for: granted, and not executed here
  store,    \* _items of the file queue, the table of the PostgreSQL queue
  file,     \* the last readable line of each approval in approvals.jsonl
  torn,     \* the journal ends in a part of a line
  job,      \* the operation each thread is in
  late,     \* approvals whose expires_at has passed
  aged,     \* approvals decided more than ten minutes ago
  fresh,    \* nothing has been asked of this process yet
  filed,    \* history: how far along the appended lines of each approval got
  lost,     \* history: approvals a restart read an earlier line of
  acts,     \* history: calls made, or artifacts issued, for each approval
  owed,     \* history: approvals whose call left and came to no known end
  said,     \* history: the status last answered to who decided or reported
  faults, restarts

disk    == <<file, torn, filed, lost>>
clock   == <<late, aged>>
history == <<acts, owed>>
bounds  == <<faults, restarts>>
config  == <<backend, edge>>
vars == <<config, store, disk, job, clock, fresh, history, said, bounds>>

Terminal == {"denied", "expired", "executed", "error"}
Status   == {"pending", "approved", "granted"} \cup Terminal
Approval == [status: Status, unknown: BOOLEAN, cleared: BOOLEAN]

ASSUME NoneAssumption == None \notin Approval \cup [id: Id, a: Approval] \cup Status

\* How far a status is along pending, approved, granted, terminal.
Rank(a) == IF a = None THEN 0
           ELSE IF a.status = "pending"  THEN 1
           ELSE IF a.status = "approved" THEN 2
           ELSE IF a.status = "granted"  THEN 3 ELSE 4

\* An operation journals ids, one line each, and goes on with then: the call, the
\* artifact, the answer, or nothing.  "filled" answers even if the record is not kept.
Then == {"call", "build", "answer", "filled", "nothing"}
Job  == [at: {"idle", "snapshot", "append", "call", "waiting", "build"},
         ids: SUBSET Id, line: [id: Id, a: Approval] \cup {None}, then: Then]
Idle == [at |-> "idle", ids |-> {}, line |-> None, then |-> "nothing"]

TypeOK ==
  /\ backend \in {"file", "pg"} /\ edge \subseteq Id
  /\ store \in [Id -> Approval \cup {None}] /\ file \in [Id -> Approval \cup {None}]
  /\ torn \in BOOLEAN /\ fresh \in BOOLEAN
  /\ job \in [Thread -> Job]
  /\ \A t \in Thread : (job[t].at = "idle") <=> (job[t].ids = {})
  /\ late \subseteq Id /\ aged \subseteq Id /\ lost \subseteq Id /\ owed \subseteq Id
  /\ filed \in [Id -> 0 .. 4] /\ acts \in [Id -> Nat]
  /\ said \in [Id -> Status \cup {None}]
  /\ faults \in 0 .. MaxFaults /\ restarts \in 0 .. MaxRestarts
  /\ backend = "pg" => /\ file = [id \in Id |-> None] /\ ~torn /\ lost = {}
                       /\ \A t \in Thread : job[t].at \notin {"snapshot", "append"}

Init ==
  /\ backend \in {"file", "pg"} /\ edge \in SUBSET Id
  /\ store = [id \in Id |-> None] /\ file = [id \in Id |-> None] /\ torn = FALSE
  /\ job = [t \in Thread |-> Idle]
  /\ late = {} /\ aged = {} /\ fresh = TRUE
  /\ filed = [id \in Id |-> 0] /\ lost = {}
  /\ acts = [id \in Id |-> 0] /\ owed = {} /\ said = [id \in Id |-> None]
  /\ faults = 0 /\ restarts = 0

Has(id, status) == store[id] # None /\ store[id].status = status
Free(t)     == job[t].at = "idle"
At(t, at, id) == job[t].at = at /\ job[t].ids = {id}
Expired(id) == Has(id, "pending") /\ id \in late
Open        == {id \in Id : Has(id, "pending") /\ id \notin late}
Newly       == {id \in Id : Expired(id)}

\* What the owner is shown as owing a decision or a look at the broker.
Attention == {id \in Id : /\ store[id] # None /\ ~store[id].cleared
                          /\ \/ store[id].status = "pending"
                             \/ store[id].status = "error" /\ store[id].unknown}

Moved(ids, status) ==
  [id \in Id |-> IF id \in ids THEN [store[id] EXCEPT !.status = status] ELSE store[id]]

\* The operation on ids is done and kept: it makes its call, or answers with what is kept.
Proceed(t, ids, then, kept) ==
  /\ job' = [job EXCEPT ![t] = IF then \in {"call", "build"}
                               THEN [Idle EXCEPT !.at = then, !.ids = ids] ELSE Idle]
  /\ said' = [id \in Id |-> IF id \in ids /\ then \in {"answer", "filled"}
                            THEN kept[id].status ELSE said[id]]

\* The records become s.  A row is kept at once; a record in memory is journaled next.
Write(t, s, ids, then) ==
  /\ store' = s /\ fresh' = FALSE
  /\ IF backend = "pg"
     THEN Proceed(t, ids, then, s)
     ELSE /\ job' = [job EXCEPT ![t] = [at |-> "snapshot", ids |-> ids,
                                        line |-> None, then |-> then]]
          /\ UNCHANGED said

----------------------------------------------------------------------------
(* _journal and _replay of the file queue.                                  *)

\* to_dict reads the record as it is now, whatever was journaled of it since.
Snapshot(t, id) ==
  /\ job[t].at = "snapshot" /\ id \in job[t].ids
  /\ job' = [job EXCEPT ![t].at = "append", ![t].line = [id |-> id, a |-> store[id]]]
  /\ UNCHANGED <<config, store, disk, clock, fresh, history, said, bounds>>

\* What is read back is the last whole line: a line written onto a torn one is lost.
Append(t) ==
  /\ job[t].at = "append"
  /\ LET id == job[t].line.id
         a  == job[t].line.a
     IN  /\ file'  = IF torn THEN file ELSE [file EXCEPT ![id] = a]
         /\ torn'  = FALSE
         /\ filed' = IF Rank(a) > filed[id] THEN [filed EXCEPT ![id] = Rank(a)] ELSE filed
         /\ IF job[t].ids = {id}
            THEN Proceed(t, {id}, job[t].then, [x \in {id} |-> a])
            ELSE /\ job' = [job EXCEPT ![t].at = "snapshot", ![t].ids = @ \ {id},
                                       ![t].line = None]
                 /\ UNCHANGED said
  /\ UNCHANGED <<config, store, lost, clock, fresh, history, bounds>>

\* A full disk: nothing, or a part of the line, is written, and the operation raises,
\* unless it is approve recording an order that already filled.
AppendFails(t) ==
  /\ job[t].at = "append" /\ faults < MaxFaults
  /\ faults' = faults + 1
  /\ torn' \in {torn, TRUE}
  /\ IF job[t].then = "filled"
     THEN Proceed(t, job[t].ids, "filled", [x \in job[t].ids |-> job[t].line.a])
     ELSE job' = [job EXCEPT ![t] = Idle] /\ UNCHANGED said
  /\ UNCHANGED <<config, store, file, filed, lost, clock, fresh, history, restarts>>

\* The process of the file queue dies and another reads the journal.
Restart ==
  /\ backend = "file" /\ restarts < MaxRestarts
  /\ restarts' = restarts + 1
  /\ store' = file /\ fresh' = TRUE
  /\ torn' \in {torn} \cup {TRUE : t \in {u \in Thread : job[u].at = "append"}}
  /\ job' = [t \in Thread |-> Idle]
  /\ lost' = lost \cup {id \in Id : Rank(file[id]) < filed[id]}
  /\ filed' = [id \in Id |-> Rank(file[id])]
  /\ UNCHANGED <<config, file, clock, history, said, faults>>

----------------------------------------------------------------------------
(* The rows of the PostgreSQL queue outlive their workers.                  *)

WorkerDies(t) ==
  /\ backend = "pg" /\ restarts < MaxRestarts /\ ~Free(t)
  /\ restarts' = restarts + 1
  /\ job' = [job EXCEPT ![t] = Idle]
  /\ UNCHANGED <<config, store, disk, clock, fresh, history, said, faults>>

\* The UPDATE that records how a call ended raises.  approve answers executed all the
\* same if it was, and the row stays approved.
RecordFails(t, id) ==
  /\ backend = "pg" /\ At(t, "waiting", id) /\ faults < MaxFaults
  /\ faults' = faults + 1
  /\ job' = [job EXCEPT ![t] = Idle]
  /\ \/ said' = [said EXCEPT ![id] = "executed"] /\ owed' = owed \ {id}
     \/ UNCHANGED <<said, owed>>
  /\ UNCHANGED <<config, store, disk, clock, fresh, acts, restarts>>

----------------------------------------------------------------------------
(* Asking, and reading.                                                     *)

New == [status |-> "pending", unknown |-> FALSE, cleared |-> FALSE]

\* A record is in memory before its first line is written.
FileEnqueue(t, id) ==
  /\ backend = "file" /\ Free(t) /\ store[id] = None /\ said[id] = None /\ id \notin lost
  /\ Cardinality(Open) < MaxPending
  /\ Write(t, [store EXCEPT ![id] = New], {id}, "answer")
  /\ UNCHANGED <<config, disk, clock, history, bounds>>

PgEnqueue(t, id) ==
  /\ backend = "pg" /\ Free(t) /\ store[id] = None
  /\ Cardinality(Open) < MaxPending
  /\ Write(t, [Moved(Newly, "expired") EXCEPT ![id] = New], {id}, "answer")
  /\ UNCHANGED <<config, disk, clock, history, bounds>>

\* get, list, history, attention and expire first expire what is due; get only its own.
FileSweep(t, ids) ==
  /\ backend = "file" /\ Free(t) /\ ids # {} /\ (ids = Newly \/ \E id \in Newly : ids = {id})
  /\ Write(t, Moved(ids, "expired"), ids, "nothing")
  /\ UNCHANGED <<config, disk, clock, history, bounds>>

PgSweep(t) ==
  /\ backend = "pg" /\ Free(t) /\ Newly # {}
  /\ Write(t, Moved(Newly, "expired"), {}, "nothing")
  /\ UNCHANGED <<config, disk, clock, history, bounds>>

\* The copilot's read of a record, written from a thread of its own at any time.
SetRationale(t, id) ==
  /\ backend = "file" /\ Free(t) /\ store[id] # None
  /\ Write(t, store, {id}, "nothing")
  /\ UNCHANGED <<config, disk, clock, history, bounds>>

----------------------------------------------------------------------------
(* Deciding.                                                                *)

\* Mutant: a claim is not compared before it is set.
ClaimTwice(t, id) ==
  /\ backend = "file" /\ Free(t) /\ (id \in Open \/ Has(id, "approved"))
  /\ Write(t, Moved({id}, "approved"), {id}, IF id \in edge THEN "build" ELSE "call")
  /\ UNCHANGED <<config, disk, clock, history, bounds>>

\* The compare-and-set.  What becomes of a claim depends on who asked.
FileClaim(t, id) ==
  /\ backend = "file" /\ Free(t) /\ id \in Open
  /\ Write(t, Moved({id}, "approved"), {id}, IF id \in edge THEN "build" ELSE "call")
  /\ UNCHANGED <<config, disk, clock, history, bounds>>

\* Mutant: a denial is answered before it is journaled.
DenyFirst(t, id) ==
  /\ backend = "file" /\ Free(t) /\ id \in Open
  /\ store' = Moved({id}, "denied") /\ fresh' = FALSE
  /\ said' = [said EXCEPT ![id] = "denied"]
  /\ job' = [job EXCEPT ![t] = [Idle EXCEPT !.at = "snapshot", !.ids = {id}]]
  /\ UNCHANGED <<config, disk, clock, history, bounds>>

FileDeny(t, id) ==
  /\ backend = "file" /\ Free(t) /\ id \in Open
  /\ Write(t, Moved({id}, "denied"), {id}, "answer")
  /\ UNCHANGED <<config, disk, clock, history, bounds>>

\* A claim or a denial that finds the record expired raises and journals nothing.
Lapse(t, id) ==
  /\ backend = "file" /\ Free(t) /\ Expired(id)
  /\ store' = Moved({id}, "expired") /\ fresh' = FALSE
  /\ UNCHANGED <<config, disk, job, clock, history, said, bounds>>

PgClaim(t, id) ==
  /\ backend = "pg" /\ Free(t) /\ id \in Open
  /\ Write(t, Moved({id}, "approved"), {id}, IF id \in edge THEN "build" ELSE "call")
  /\ UNCHANGED <<config, disk, clock, history, bounds>>

PgDeny(t, id) ==
  /\ backend = "pg" /\ Free(t) /\ id \in Open
  /\ Write(t, Moved({id}, "denied"), {id}, "answer")
  /\ UNCHANGED <<config, disk, clock, history, bounds>>

----------------------------------------------------------------------------
(* approve: the call, once, and how it ended.                               *)

\* _finish asks nothing of the record it overwrites.
Finish(t, id, status, unknown, then) ==
  Write(t, [store EXCEPT ![id] = [@ EXCEPT !.status = status, !.unknown = unknown]],
        {id}, then)

\* The guardrails are evaluated again: nothing leaves.
Refused(t, id) ==
  /\ At(t, "call", id)
  /\ Finish(t, id, "error", FALSE, "answer")
  /\ UNCHANGED <<config, disk, clock, history, bounds>>

Called(t, id) ==
  /\ At(t, "call", id)
  /\ job' = [job EXCEPT ![t].at = "waiting"]
  /\ acts' = [acts EXCEPT ![id] = @ + 1] /\ owed' = owed \cup {id}
  /\ UNCHANGED <<config, store, disk, clock, fresh, said, bounds>>

Answered(t, id) ==
  /\ At(t, "waiting", id)
  /\ Finish(t, id, "executed", FALSE, "filled")
  /\ owed' = owed \ {id}
  /\ UNCHANGED <<config, disk, clock, acts, bounds>>

\* Any other exception, before the call left or after.
CallFails(t, id) ==
  /\ At(t, "call", id) \/ At(t, "waiting", id)
  /\ Finish(t, id, "error", TRUE, "answer")
  /\ UNCHANGED <<config, disk, clock, history, bounds>>

----------------------------------------------------------------------------
(* grant: the artifact, and the report of the edge that executed it.        *)

Grant(t, id) ==
  /\ At(t, "build", id) /\ Has(id, "approved")
  /\ acts' = [acts EXCEPT ![id] = @ + 1]
  /\ Write(t, Moved({id}, "granted"), {id}, "answer")
  /\ UNCHANGED <<config, disk, clock, owed, bounds>>

\* The artifact cannot be built, or the record was reconciled meanwhile.
NotGranted(t, id) ==
  /\ At(t, "build", id)
  /\ job' = [job EXCEPT ![t] = Idle]
  /\ UNCHANGED <<config, store, disk, clock, fresh, history, said, bounds>>

RecordExecution(t, id) ==
  /\ Free(t) /\ Has(id, "granted")
  /\ \E status \in {"executed", "error"}, unknown \in BOOLEAN :
       /\ unknown => status = "error"
       /\ Finish(t, id, status, unknown, "answer")
  /\ UNCHANGED <<config, disk, clock, history, bounds>>

----------------------------------------------------------------------------
(* Setting right, and putting away.                                         *)

Stale(ids) == [id \in Id |-> IF id \in ids THEN [store[id] EXCEPT !.status = "error",
                                                                  !.unknown = TRUE]
                             ELSE store[id]]

\* At the start of a process every approved record is one its predecessor left.
FileReconcile(t) ==
  LET stale == {id \in Id : Has(id, "approved")}
  IN  /\ backend = "file" /\ Free(t) /\ fresh /\ stale # {}
      /\ Write(t, Stale(stale), stale, "nothing")
      /\ UNCHANGED <<config, disk, clock, history, bounds>>

PgReconcile(t) ==
  LET stale == {id \in aged : Has(id, "approved")}
  IN  /\ backend = "pg" /\ Free(t) /\ stale # {}
      /\ Write(t, Stale(stale), {}, "nothing")
      /\ UNCHANGED <<config, disk, clock, history, bounds>>

\* A human found out at the broker.
Resolve(t, id) ==
  /\ Free(t) /\ store[id] # None /\ store[id].unknown
  /\ Write(t, [store EXCEPT ![id].unknown = FALSE], {id}, "nothing")
  /\ owed' = owed \ {id}
  /\ UNCHANGED <<config, disk, clock, acts, bounds>>

\* Mutant: what is over is hidden, owed or not.
ClearedOwed == {id \in Id : /\ store[id] # None /\ ~store[id].cleared
                            /\ store[id].status \in Terminal \/ Expired(id)}

\* What is over, and not owed, is hidden from the history.  What expired is journaled too.
Cleared == {id \in Id : /\ store[id] # None /\ ~store[id].unknown /\ ~store[id].cleared
                        /\ store[id].status \in Terminal \/ Expired(id)}

Clearing == [id \in Id |->
  IF id \notin Cleared THEN store[id]
  ELSE [store[id] EXCEPT !.cleared = TRUE, !.status = IF Expired(id) THEN "expired" ELSE @]]

ClearHistory(t) ==
  /\ Free(t) /\ Cleared # {}
  /\ Write(t, Clearing, IF backend = "file" THEN Cleared ELSE {}, "nothing")
  /\ UNCHANGED <<config, disk, clock, history, bounds>>

----------------------------------------------------------------------------
(* Time.                                                                    *)

Lapses(id) ==
  /\ Has(id, "pending") /\ id \notin late
  /\ late' = late \cup {id}
  /\ UNCHANGED <<config, store, disk, job, aged, fresh, history, said, bounds>>

Ages(id) ==
  /\ backend = "pg" /\ Has(id, "approved") /\ id \notin aged
  /\ SlowCalls \/ \A t \in Thread : id \notin job[t].ids
  /\ aged' = aged \cup {id}
  /\ UNCHANGED <<config, store, disk, job, late, fresh, history, said, bounds>>

Next ==
  \/ Restart
  \/ \E t \in Thread :
       \/ Append(t) \/ AppendFails(t) \/ WorkerDies(t)
       \/ PgSweep(t) \/ FileReconcile(t) \/ PgReconcile(t) \/ ClearHistory(t)
       \/ \E ids \in SUBSET Id : FileSweep(t, ids)
       \/ \E id \in Id :
            \/ Snapshot(t, id) \/ RecordFails(t, id)
            \/ FileEnqueue(t, id) \/ PgEnqueue(t, id) \/ SetRationale(t, id)
            \/ FileClaim(t, id) \/ FileDeny(t, id) \/ Lapse(t, id)
            \/ PgClaim(t, id) \/ PgDeny(t, id)
            \/ Refused(t, id) \/ Called(t, id) \/ Answered(t, id) \/ CallFails(t, id)
            \/ Grant(t, id) \/ NotGranted(t, id) \/ RecordExecution(t, id)
            \/ Resolve(t, id)
  \/ \E id \in Id : Lapses(id) \/ Ages(id)

Spec == Init /\ [][Next]_vars

----------------------------------------------------------------------------
(* Properties.                                                              *)

\* No double execution (approvals.py:21): one approval leads to one call or one
\* artifact, whoever races and whatever restarts, except where a restart reads an
\* earlier line of the record than the last one appended.
ActedOnce == \A id \in Id \ lost : acts[id] <= 1

\* What the queue answered stands across restarts, with the same exception: a request
\* it accepted is not forgotten, a denial or a recorded error stays, and a grant or an
\* execution is never pending, denied or expired afterwards.
AnswerStands ==
  \A id \in Id \ lost : said[id] # None =>
    /\ store[id] # None
    /\ said[id] \in {"denied", "error"} => Has(id, said[id])
    /\ said[id] \in {"granted", "executed"} =>
         store[id].status \in {"approved", "granted", "executed", "error"}

\* A call whose end nobody knows stays visible until a human resolves it (clear_history,
\* approvals.py:229): its record is still approved, for reconcile_stale to find, or is
\* among what the owner owes a look.
OutcomeIsOwed ==
  \A id \in owed \ lost : Has(id, "approved") \/ (Has(id, "error") /\ id \in Attention)

=============================================================================
