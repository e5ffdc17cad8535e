------------------------ MODULE ApprovalQueueProofs ------------------------
(***************************************************************************)
(* That one approval leads to one call or one artifact, that an answer of    *)
(* the queue stands, and that a call of unknown end stays in sight, for any *)
(* number of approvals, threads, failed writes and restarts.                *)
(***************************************************************************)
EXTENDS ApprovalQueue, TLAPS

(***************************************************************************)
(* A job claims what it is about to call or grant, or has called.           *)
(***************************************************************************)
Claiming(j, id) ==
  /\ id \in j.ids
  /\ \/ j.at \in {"call", "waiting", "build"}
     \/ j.at \in {"snapshot", "append"} /\ j.then \in {"call", "build"}

(***************************************************************************)
(* What a job holds exists, and what it appends is of what it holds.        *)
(***************************************************************************)
Held ==
  \A t \in Thread :
    /\ \A id \in job[t].ids : store[id] # None
    /\ job[t].at = "append" => /\ job[t].line # None
                               /\ job[t].line.id \in job[t].ids

(***************************************************************************)
(* A claimed record has one claimant, is no longer pending, and in the file *)
(* queue its claim is in the journal before its call.                       *)
(***************************************************************************)
OneClaimant ==
  \A t, u \in Thread : \A id \in Id :
    Claiming(job[t], id) /\ Claiming(job[u], id) => t = u

Kept(id) == Rank(store[id]) >= 2

ClaimKept ==
  \A t \in Thread : \A id \in Id : Claiming(job[t], id) =>
    /\ Kept(id)
    /\ job[t].at = "append" /\ job[t].line.id = id => Rank(job[t].line.a) >= 2
    /\ backend = "file" /\ job[t].at \in {"call", "waiting", "build"} => filed[id] >= 2
    /\ job[t].at # "waiting" /\ id \notin lost => acts[id] = 0

ActKept ==
  \A id \in Id \ lost :
    /\ acts[id] <= 1
    /\ acts[id] = 1 => Kept(id) /\ (backend = "file" => filed[id] >= 2)

Claimed == OneClaimant /\ ClaimKept /\ ActKept

IInv == TypeOK /\ Held /\ Claimed

Records == [Id -> Approval \cup {None}]

----------------------------------------------------------------------------

(***************************************************************************)
(* A record is not None, and its rank follows its status.                   *)
(***************************************************************************)
LEMMA RankOfRecord ==
  ASSUME NEW a \in Approval
  PROVE  /\ a # None
         /\ a.status = "pending" <=> Rank(a) = 1
         /\ a.status = "approved" => Rank(a) = 2
         /\ a.status = "granted" => Rank(a) = 3
         /\ a.status \in Terminal => Rank(a) = 4
  BY NoneAssumption DEF Approval, Rank, Status, Terminal

LEMMA RankType ==
  ASSUME NEW a \in Approval \cup {None}
  PROVE  Rank(a) \in 0 .. 4 /\ (Rank(a) >= 1 <=> a # None)
  BY NoneAssumption DEF Rank

(***************************************************************************)
(* Moving records that exist along keeps the others, and those that were    *)
(* pending are pending no more.                                             *)
(***************************************************************************)
LEMMA MovedKeeps ==
  ASSUME TypeOK, NEW ids \in SUBSET Id, NEW status \in Status,
         \A id \in ids : store[id] # None
  PROVE  /\ Moved(ids, status) \in Records
         /\ \A id \in Id : store[id] # None => Moved(ids, status)[id] # None
         /\ \A id \in Id \ ids : Moved(ids, status)[id] = store[id]
         /\ \A id \in ids : /\ Moved(ids, status)[id] \in Approval
                            /\ Moved(ids, status)[id].status = status
<1>1. \A id \in ids : store[id] \in Approval
  BY DEF TypeOK
<1>2. \A id \in ids : [store[id] EXCEPT !.status = status] \in Approval
  BY <1>1 DEF Approval
<1>3. \A id \in ids : [store[id] EXCEPT !.status = status].status = status
  BY <1>1 DEF Approval
<1>4. Moved(ids, status) \in Records
  BY <1>2 DEF Moved, Records, TypeOK
<1> QED
  BY <1>2, <1>3, <1>4, RankOfRecord DEF Moved

(***************************************************************************)
(* What an operation that writes leaves behind.                             *)
(***************************************************************************)
LEMMA WriteStep ==
  ASSUME TypeOK, Held, NEW t \in Thread, NEW s \in Records, NEW ids \in SUBSET Id,
         NEW then \in Then,
         \A id \in Id : store[id] # None => s[id] # None,
         \A id \in ids : s[id] # None,
         backend = "file" \/ then \in {"call", "build"} => ids # {},
         Write(t, s, ids, then), acts' \in [Id -> Nat], owed' \subseteq Id,
         UNCHANGED <<config, disk, clock, bounds>>
  PROVE  /\ TypeOK' /\ Held' /\ store' = s
         /\ \A u \in Thread : u # t => job'[u] = job[u]
         /\ \A id \in Id : Claiming(job'[t], id) =>
              /\ id \in ids /\ then \in {"call", "build"}
              /\ IF backend = "file" THEN job'[t].at = "snapshot" ELSE job'[t].at = then
<1> USE DEF Records
<1>1. CASE backend = "pg"
  <2>1. Proceed(t, ids, then, s)
    BY <1>1 DEF Write
  <2> DEFINE j == IF then \in {"call", "build"}
                  THEN [Idle EXCEPT !.at = then, !.ids = ids] ELSE Idle
  <2>2. j \in Job /\ (j.at = "idle" <=> j.ids = {}) /\ j.at \notin {"snapshot", "append"}
        /\ j.ids \subseteq ids
    BY DEF Idle, Job, Then
  <2>3. job' = [job EXCEPT ![t] = j]
    BY <2>1 DEF Proceed
  <2>4. said' \in [Id -> Status \cup {None}]
    <3>1. \A id \in ids : s[id].status \in Status
      BY DEF Approval
    <3> QED
      BY <2>1, <3>1 DEF Proceed, TypeOK
  <2>5. job' \in [Thread -> Job] /\ job'[t] = j /\ \A u \in Thread : u # t => job'[u] = job[u]
    BY <2>2, <2>3 DEF TypeOK
  <2>6. store' = s /\ fresh' = FALSE
    BY DEF Write
  <2>7. TypeOK'
    BY <1>1, <2>2, <2>4, <2>5, <2>6 DEF TypeOK, config, disk, clock, bounds
  <2>8. Held'
    <3>1. SUFFICES ASSUME NEW u \in Thread
                   PROVE  /\ \A id \in job'[u].ids : store'[id] # None
                          /\ job'[u].at = "append" => /\ job'[u].line # None
                                                     /\ job'[u].line.id \in job'[u].ids
      BY DEF Held
    <3>2. CASE u = t
      BY <2>2, <2>5, <2>6, <3>2
    <3>3. CASE u # t
      <4>1. job'[u] = job[u] /\ job[u].ids \subseteq Id
        BY <2>5, <3>3 DEF TypeOK, Job
      <4> QED
        BY <4>1, <2>6 DEF Held
    <3> QED
      BY <3>2, <3>3
  <2>9. \A id \in Id : Claiming(j, id) => id \in ids /\ then \in {"call", "build"} /\ j.at = then
    BY DEF Claiming, Idle
  <2> QED
    BY <1>1, <2>5, <2>6, <2>7, <2>8, <2>9
<1>2. CASE backend = "file"
  <2> DEFINE j == [at |-> "snapshot", ids |-> ids, line |-> None, then |-> then]
  <2>1. store' = s /\ fresh' = FALSE /\ job' = [job EXCEPT ![t] = j] /\ said' = said
    BY <1>2 DEF Write
  <2>2. j \in Job /\ j.ids # {} /\ j.at = "snapshot" /\ j.ids = ids
    BY <1>2 DEF Job
  <2>3. job' \in [Thread -> Job] /\ job'[t] = j /\ \A u \in Thread : u # t => job'[u] = job[u]
    BY <2>1, <2>2 DEF TypeOK
  <2>4. TypeOK'
    BY <1>2, <2>1, <2>2, <2>3 DEF TypeOK, config, disk, clock, bounds
  <2>5. Held'
    <3>1. SUFFICES ASSUME NEW u \in Thread
                   PROVE  /\ \A id \in job'[u].ids : store'[id] # None
                          /\ job'[u].at = "append" => /\ job'[u].line # None
                                                     /\ job'[u].line.id \in job'[u].ids
      BY DEF Held
    <3>2. CASE u = t
      BY <2>1, <2>2, <2>3, <3>2
    <3>3. CASE u # t
      <4>1. job'[u] = job[u] /\ job[u].ids \subseteq Id
        BY <2>3, <3>3 DEF TypeOK, Job
      <4> QED
        BY <4>1, <2>1 DEF Held
    <3> QED
      BY <3>2, <3>3
  <2>6. \A id \in Id : Claiming(j, id) => id \in ids /\ then \in {"call", "build"}
    BY DEF Claiming
  <2> QED
    BY <1>2, <2>1, <2>3, <2>4, <2>5, <2>6
<1>3. backend \in {"file", "pg"}
  BY DEF TypeOK
<1> QED
  BY <1>1, <1>2, <1>3

LEMMA WriteOne ==
  ASSUME TypeOK, Held, NEW t \in Thread, NEW s \in Records, NEW id \in Id,
         NEW then \in Then,
         \A x \in Id : store[x] # None => s[x] # None, s[id] # None,
         Write(t, s, {id}, then), acts' \in [Id -> Nat], owed' \subseteq Id,
         UNCHANGED <<config, disk, clock, bounds>>
  PROVE  /\ TypeOK' /\ Held' /\ store' = s
         /\ \A u \in Thread : u # t => job'[u] = job[u]
         /\ \A x \in Id : Claiming(job'[t], x) =>
              /\ x = id /\ then \in {"call", "build"}
              /\ IF backend = "file" THEN job'[t].at = "snapshot" ELSE job'[t].at = then
<1>1. PICK ids \in SUBSET Id : ids = {id}
  OBVIOUS
<1>2. ids # {} /\ \A x \in ids : s[x] # None
  BY <1>1
<1>3. Write(t, s, ids, then)
  BY <1>1
<1>4. /\ TypeOK' /\ Held' /\ store' = s
      /\ \A u \in Thread : u # t => job'[u] = job[u]
      /\ \A x \in Id : Claiming(job'[t], x) =>
           /\ x \in ids /\ then \in {"call", "build"}
           /\ IF backend = "file" THEN job'[t].at = "snapshot" ELSE job'[t].at = then
  BY <1>2, <1>3, WriteStep
<1> QED
  BY <1>1, <1>4

(***************************************************************************)
(* A step that makes no call and takes no claim, and makes no claimed       *)
(* record pending, keeps what is said of claims.                            *)
(***************************************************************************)
LEMMA Quiet ==
  ASSUME TypeOK, Claimed, UNCHANGED <<config, lost, filed, acts>>,
         \A id \in Id : Kept(id) => Kept(id)',
         \A t \in Thread : job'[t] = job[t] \/ \A id \in Id : ~Claiming(job'[t], id)
  PROVE  Claimed'
<1>1. \A t \in Thread : \A id \in Id : Claiming(job'[t], id) => job'[t] = job[t]
  OBVIOUS
<1>2. OneClaimant'
  BY <1>1 DEF Claimed, OneClaimant
<1>3. ClaimKept'
  BY <1>1 DEF Claimed, ClaimKept, config
<1>4. ActKept'
  BY DEF Claimed, ActKept, config
<1> QED
  BY <1>2, <1>3, <1>4 DEF Claimed

(***************************************************************************)
(* A write that claims nothing.                                             *)
(***************************************************************************)
LEMMA QuietWrite ==
  ASSUME IInv, NEW t \in Thread, NEW s \in Records, NEW ids \in SUBSET Id,
         NEW then \in {"answer", "filled", "nothing"},
         \A id \in Id : store[id] # None => s[id] # None,
         \A id \in Id : Kept(id) => Rank(s[id]) >= 2,
         \A id \in ids : s[id] # None,
         backend = "file" => ids # {},
         Write(t, s, ids, then), UNCHANGED acts, owed' \subseteq Id,
         UNCHANGED <<config, disk, clock, bounds>>
  PROVE  IInv'
<1>1. then \in Then /\ then \notin {"call", "build"} /\ acts' \in [Id -> Nat]
  BY DEF Then, IInv, TypeOK
<1>2. /\ TypeOK' /\ Held' /\ store' = s
      /\ \A u \in Thread : u # t => job'[u] = job[u]
      /\ \A id \in Id : ~Claiming(job'[t], id)
  <2>1. TypeOK /\ Held
    BY DEF IInv
  <2>2. backend = "file" \/ then \in {"call", "build"} => ids # {}
    BY <1>1
  <2>3. /\ TypeOK' /\ Held' /\ store' = s
        /\ \A u \in Thread : u # t => job'[u] = job[u]
        /\ \A id \in Id : Claiming(job'[t], id) =>
             /\ id \in ids /\ then \in {"call", "build"}
             /\ IF backend = "file" THEN job'[t].at = "snapshot" ELSE job'[t].at = then
    BY <1>1, <2>1, <2>2, WriteStep, Zenon
  <2> QED
    BY <1>1, <2>3
<1>3. \A id \in Id : Kept(id) => Kept(id)'
  BY <1>2 DEF Kept
<1>4. Claimed'
  BY <1>2, <1>3, Quiet DEF IInv, disk
<1> QED
  BY <1>2, <1>4 DEF IInv

LEMMA MovedRank ==
  ASSUME TypeOK, NEW ids \in SUBSET Id, NEW status \in Status \ {"pending"},
         \A id \in ids : store[id] # None
  PROVE  \A id \in Id : Kept(id) \/ id \in ids => Rank(Moved(ids, status)[id]) >= 2
<1>1. /\ \A id \in Id \ ids : Moved(ids, status)[id] = store[id]
      /\ \A id \in ids : /\ Moved(ids, status)[id] \in Approval
                         /\ Moved(ids, status)[id].status = status
  BY MovedKeeps
<1>2. \A id \in ids : Rank(Moved(ids, status)[id]) >= 2
  BY <1>1, RankOfRecord DEF Status
<1> QED
  BY <1>1, <1>2 DEF Kept

(***************************************************************************)
(* Putting one record in the place of another that ranks no higher.         *)
(***************************************************************************)
LEMMA PutKeeps ==
  ASSUME TypeOK, NEW id \in Id, NEW a \in Approval, Kept(id) => Rank(a) >= 2
  PROVE  /\ [store EXCEPT ![id] = a] \in Records
         /\ [store EXCEPT ![id] = a][id] = a /\ a # None
         /\ \A x \in Id : store[x] # None => [store EXCEPT ![id] = a][x] # None
         /\ \A x \in Id : Kept(x) => Rank([store EXCEPT ![id] = a][x]) >= 2
<1>1. a # None
  BY RankOfRecord
<1> QED
  BY <1>1 DEF TypeOK, Records, Kept

(***************************************************************************)
(* A write that moves one or more records along to an end, or denies.       *)
(***************************************************************************)
LEMMA QuietMove ==
  ASSUME IInv, NEW t \in Thread, NEW ids \in SUBSET Id, NEW moved \in SUBSET Id,
         NEW status \in Status \ {"pending"}, NEW then \in {"answer", "filled", "nothing"},
         \A id \in moved : store[id] # None, ids \subseteq moved,
         backend = "file" => ids # {},
         Write(t, Moved(moved, status), ids, then), UNCHANGED acts, owed' \subseteq Id,
         UNCHANGED <<config, disk, clock, bounds>>
  PROVE  IInv'
<1> DEFINE s == Moved(moved, status)
<1>1. TypeOK
  BY DEF IInv
<1>2. /\ s \in Records
      /\ \A id \in Id : store[id] # None => s[id] # None
      /\ \A id \in moved : s[id] \in Approval
  BY <1>1, MovedKeeps
<1>3. \A id \in ids : s[id] # None
  BY <1>2, RankOfRecord
<1>4. \A id \in Id : Kept(id) => Rank(s[id]) >= 2
  BY <1>1, MovedRank
<1>5. Write(t, s, ids, then)
  OBVIOUS
<1> HIDE DEF s
<1> QED
  BY <1>2, <1>3, <1>4, <1>5, QuietWrite

(***************************************************************************)
(* A write that replaces one record.                                        *)
(***************************************************************************)
LEMMA QuietPut ==
  ASSUME IInv, NEW t \in Thread, NEW id \in Id, NEW a \in Approval,
         NEW then \in {"answer", "filled", "nothing"}, Kept(id) => Rank(a) >= 2,
         Write(t, [store EXCEPT ![id] = a], {id}, then), UNCHANGED acts, owed' \subseteq Id,
         UNCHANGED <<config, disk, clock, bounds>>
  PROVE  IInv'
<1> DEFINE s == [store EXCEPT ![id] = a]
<1>1. TypeOK
  BY DEF IInv
<1>2. /\ s \in Records /\ s[id] # None
      /\ \A x \in Id : store[x] # None => s[x] # None
      /\ \A x \in Id : Kept(x) => Rank(s[x]) >= 2
  BY <1>1, PutKeeps
<1>3. Write(t, s, {id}, then) /\ {id} \in SUBSET Id /\ \A x \in {id} : s[x] # None
  BY <1>2
<1> HIDE DEF s
<1> QED
  BY <1>2, <1>3, QuietWrite

(***************************************************************************)
(* How a call ended: whatever the record was, it is at an end now.          *)
(***************************************************************************)
LEMMA FinishKeeps ==
  ASSUME IInv, NEW t \in Thread, NEW id \in Id, store[id] # None,
         NEW status \in {"executed", "error"}, NEW unknown \in BOOLEAN,
         NEW then \in {"answer", "filled"},
         Finish(t, id, status, unknown, then), UNCHANGED acts, owed' \subseteq Id,
         UNCHANGED <<config, disk, clock, bounds>>
  PROVE  IInv'
<1> DEFINE a == [store[id] EXCEPT !.status = status, !.unknown = unknown]
<1>1. store[id] \in Approval
  BY DEF IInv, TypeOK
<1>2. a \in Approval /\ a.status = status
  BY <1>1 DEF Approval, Status, Terminal
<1>3. Rank(a) = 4
  BY <1>2, RankOfRecord DEF Terminal
<1>4. Write(t, [store EXCEPT ![id] = a], {id}, then)
  BY DEF Finish
<1> HIDE DEF a
<1> QED
  BY <1>2, <1>3, <1>4, QuietPut

(***************************************************************************)
(* A step of one thread that stops what it was doing.                       *)
(***************************************************************************)
LEMMA StopKeeps ==
  ASSUME IInv, NEW t \in Thread, job' = [job EXCEPT ![t] = Idle],
         UNCHANGED <<store, config, lost, filed, acts, file, clock, fresh>>,
         torn' \in BOOLEAN, backend = "pg" => torn' = torn, owed' \subseteq Id,
         said' \in [Id -> Status \cup {None}],
         faults' \in 0 .. MaxFaults, restarts' \in 0 .. MaxRestarts
  PROVE  IInv'
<1>1. Idle \in Job /\ Idle.at = "idle" /\ Idle.ids = {}
  BY DEF Idle, Job, Then
<1>2. /\ job' \in [Thread -> Job] /\ job'[t] = Idle
      /\ \A u \in Thread : u # t => job'[u] = job[u]
  BY <1>1 DEF IInv, TypeOK
<1>3. TypeOK'
  BY <1>1, <1>2 DEF IInv, TypeOK, config, clock
<1>4. Held'
  BY <1>1, <1>2 DEF IInv, Held
<1>5. Claimed'
  <2>1. \A u \in Thread : job'[u] = job[u] \/ \A id \in Id : ~Claiming(job'[u], id)
    BY <1>1, <1>2 DEF Claiming
  <2> QED
    BY <2>1, Quiet DEF IInv, Kept
<1> QED
  BY <1>3, <1>4, <1>5 DEF IInv

----------------------------------------------------------------------------

(***************************************************************************)
(* The journal: a claim's line says it is claimed, whenever it was read.    *)
(***************************************************************************)
LEMMA SnapshotKeeps ==
  ASSUME IInv, NEW t \in Thread, NEW id \in Id, Snapshot(t, id)
  PROVE  IInv'
<1> DEFINE j == [job[t] EXCEPT !.at = "append", !.line = [id |-> id, a |-> store[id]]]
<1>1. store[id] \in Approval
  BY DEF IInv, Held, TypeOK, Snapshot
<1>2. /\ job[t] \in Job /\ job[t].at = "snapshot" /\ id \in job[t].ids
      /\ job' = [job EXCEPT ![t] = j]
  BY DEF IInv, TypeOK, Snapshot
<1>3. /\ j \in Job /\ j.at = "append" /\ j.ids = job[t].ids /\ j.then = job[t].then
      /\ j.line = [id |-> id, a |-> store[id]] /\ j.line # None
  <2> DEFINE line == [id |-> id, a |-> store[id]]
  <2>1. line \in [id: Id, a: Approval] /\ line # None
    BY <1>1, NoneAssumption
  <2> HIDE DEF line
  <2>2. j = [job[t] EXCEPT !.at = "append", !.line = line]
    BY DEF line
  <2>3. job[t] \in Job
    BY <1>2
  <2> HIDE DEF j
  <2>4. j \in Job /\ j.at = "append" /\ j.ids = job[t].ids /\ j.then = job[t].then
        /\ j.line = line
    BY <2>1, <2>2, <2>3 DEF Job
  <2> QED
    BY <2>1, <2>4 DEF line
<1> HIDE DEF j
<1>4. /\ job' \in [Thread -> Job] /\ job'[t] = j
      /\ \A u \in Thread : u # t => job'[u] = job[u]
  BY <1>2, <1>3 DEF IInv, TypeOK
<1>5. UNCHANGED <<config, store, disk, clock, fresh, history, said, bounds>>
  BY DEF Snapshot
<1>6. backend # "pg"
  BY <1>2 DEF IInv, TypeOK
<1>7. TypeOK'
  BY <1>2, <1>3, <1>4, <1>5, <1>6
     DEF IInv, TypeOK, config, disk, clock, history, bounds
<1>8. Held'
  BY <1>2, <1>3, <1>4, <1>5 DEF IInv, Held
<1>9. \A u \in Thread : \A x \in Id : Claiming(job'[u], x) <=> Claiming(job[u], x)
  BY <1>2, <1>3, <1>4 DEF Claiming
<1>10. OneClaimant'
  BY <1>9 DEF IInv, Claimed, OneClaimant
<1>11. ClaimKept'
  <2>1. SUFFICES ASSUME NEW u \in Thread, NEW x \in Id, Claiming(job'[u], x)
                 PROVE  /\ Kept(x)'
                        /\ job'[u].at = "append" /\ job'[u].line.id = x =>
                             Rank(job'[u].line.a) >= 2
                        /\ backend' = "file" /\ job'[u].at \in {"call", "waiting", "build"} =>
                             filed'[x] >= 2
                        /\ job'[u].at # "waiting" /\ x \notin lost' => acts'[x] = 0
    BY DEF ClaimKept
  <2>2. /\ Kept(x)
        /\ job[u].at = "append" /\ job[u].line.id = x => Rank(job[u].line.a) >= 2
        /\ backend = "file" /\ job[u].at \in {"call", "waiting", "build"} => filed[x] >= 2
        /\ job[u].at # "waiting" /\ x \notin lost => acts[x] = 0
    BY <1>9, <2>1 DEF IInv, Claimed, ClaimKept
  <2>3. CASE u = t
    BY <1>2, <1>3, <1>4, <1>5, <2>2, <2>3 DEF Kept, config, disk, history
  <2>4. CASE u # t
    BY <1>4, <1>5, <2>2, <2>4 DEF Kept, config, disk, history
  <2> QED
    BY <2>3, <2>4
<1>12. ActKept'
  BY <1>5 DEF IInv, Claimed, ActKept, Kept, config, disk, history
<1> QED
  BY <1>7, <1>8, <1>10, <1>11, <1>12 DEF IInv, Claimed

LEMMA AppendKeeps ==
  ASSUME IInv, NEW t \in Thread, Append(t)
  PROVE  IInv'
<1> DEFINE id == job[t].line.id
           a  == job[t].line.a
<1>1. /\ job[t] \in Job /\ job[t].at = "append" /\ job[t].line # None
      /\ id \in Id /\ a \in Approval /\ id \in job[t].ids /\ job[t].ids \subseteq Id
      /\ store[id] # None
  BY DEF IInv, Held, TypeOK, Append, Job
<1>2. /\ file' = IF torn THEN file ELSE [file EXCEPT ![id] = a]
      /\ torn' = FALSE
      /\ filed' = IF Rank(a) > filed[id] THEN [filed EXCEPT ![id] = Rank(a)] ELSE filed
      /\ IF job[t].ids = {id}
         THEN Proceed(t, {id}, job[t].then, [x \in {id} |-> a])
         ELSE /\ job' = [job EXCEPT ![t].at = "snapshot", ![t].ids = @ \ {id},
                                    ![t].line = None]
              /\ UNCHANGED said
      /\ UNCHANGED <<config, store, lost, clock, fresh, history, bounds>>
  BY DEF Append
<1>3. backend = "file"
  BY <1>1 DEF IInv, TypeOK
<1>4. filed' \in [Id -> 0 .. 4] /\ filed'[id] >= Rank(a)
      /\ \A x \in Id : filed'[x] >= filed[x]
  BY <1>1, <1>2, RankType DEF IInv, TypeOK
<1> HIDE DEF id, a
(* The thread's next job claims no more than it did, and a call follows the line. *)
<1>5. /\ job' \in [Thread -> Job]
      /\ \A u \in Thread : u # t => job'[u] = job[u]
      /\ job'[t].at = "idle" <=> job'[t].ids = {}
      /\ job'[t].ids \subseteq job[t].ids
      /\ job'[t].at \notin {"append", "waiting"}
      /\ \A x \in Id : Claiming(job'[t], x) => Claiming(job[t], x)
      /\ \A x \in Id : Claiming(job'[t], x) /\ job'[t].at # "snapshot" => x = id
      /\ said' \in [Id -> Status \cup {None}]
  <2>1. CASE job[t].ids = {id}
    <3> DEFINE then == job[t].then
               j == IF then \in {"call", "build"}
                    THEN [Idle EXCEPT !.at = then, !.ids = {id}] ELSE Idle
    <3>1. Proceed(t, {id}, then, [x \in {id} |-> a])
      BY <1>2, <2>1
    <3>2. job' = [job EXCEPT ![t] = j]
      BY <3>1 DEF Proceed
    <3>3. /\ j \in Job /\ (j.at = "idle" <=> j.ids = {})
          /\ j.at \notin {"append", "waiting", "snapshot"} /\ j.ids \subseteq {id}
          /\ j.at # "idle" => then \in {"call", "build"}
      BY <1>1 DEF Idle, Job, Then
    <3>4. a.status \in Status
      BY <1>1 DEF Approval
    <3>5. said' = [x \in Id |-> IF x \in {id} /\ then \in {"answer", "filled"}
                                THEN [y \in {id} |-> a][x].status ELSE said[x]]
      BY <3>1 DEF Proceed
    <3>6. said' \in [Id -> Status \cup {None}]
      BY <3>4, <3>5 DEF IInv, TypeOK
    <3> HIDE DEF j
    <3>7. /\ job' \in [Thread -> Job] /\ job'[t] = j
          /\ \A u \in Thread : u # t => job'[u] = job[u]
      BY <3>2, <3>3 DEF IInv, TypeOK
    <3>8. \A x \in Id : Claiming(j, x) => x = id /\ Claiming(job[t], x)
      BY <1>1, <2>1, <3>3 DEF Claiming
    <3> QED
      BY <2>1, <3>3, <3>6, <3>7, <3>8
  <2>2. CASE job[t].ids # {id}
    <3> DEFINE j == [job[t] EXCEPT !.at = "snapshot", !.ids = job[t].ids \ {id}, !.line = None]
    <3>1. job' = [job EXCEPT ![t] = j] /\ said' = said
      BY <1>2, <2>2 DEF IInv, TypeOK
    <3>2. /\ j \in Job /\ j.at = "snapshot" /\ j.ids = job[t].ids \ {id} /\ j.ids # {}
          /\ j.then = job[t].then
      BY <1>1, <2>2 DEF Job
    <3> HIDE DEF j
    <3>3. /\ job' \in [Thread -> Job] /\ job'[t] = j
          /\ \A u \in Thread : u # t => job'[u] = job[u]
      BY <3>1, <3>2 DEF IInv, TypeOK
    <3>4. \A x \in Id : Claiming(j, x) => Claiming(job[t], x)
      BY <1>1, <3>2 DEF Claiming
    <3> QED
      BY <3>1, <3>2, <3>3, <3>4 DEF IInv, TypeOK
  <2> QED
    BY <2>1, <2>2
<1>6. TypeOK'
  <2>1. file' \in [Id -> Approval \cup {None}]
    BY <1>1, <1>2 DEF IInv, TypeOK
  <2>2. \A u \in Thread : job'[u].at = "idle" <=> job'[u].ids = {}
    BY <1>5 DEF IInv, TypeOK
  <2> QED
    BY <1>2, <1>3, <1>4, <1>5, <2>1, <2>2 DEF IInv, TypeOK, config, clock, history, bounds
<1>7. Held'
  <2>1. SUFFICES ASSUME NEW u \in Thread
                 PROVE  /\ \A x \in job'[u].ids : store'[x] # None
                        /\ job'[u].at = "append" => /\ job'[u].line # None
                                                   /\ job'[u].line.id \in job'[u].ids
    BY DEF Held
  <2>2. store' = store
    BY <1>2
  <2>3. CASE u = t
    BY <1>1, <1>5, <2>2, <2>3 DEF IInv, Held
  <2>4. CASE u # t
    BY <1>5, <2>2, <2>4 DEF IInv, Held
  <2> QED
    BY <2>3, <2>4
<1>8. \A u \in Thread : \A x \in Id : Claiming(job'[u], x) => Claiming(job[u], x)
  BY <1>5
<1>9. OneClaimant'
  BY <1>8 DEF IInv, Claimed, OneClaimant
<1>10. ClaimKept'
  <2>1. SUFFICES ASSUME NEW u \in Thread, NEW x \in Id, Claiming(job'[u], x)
                 PROVE  /\ Kept(x)'
                        /\ job'[u].at = "append" /\ job'[u].line.id = x =>
                             Rank(job'[u].line.a) >= 2
                        /\ backend' = "file" /\ job'[u].at \in {"call", "waiting", "build"} =>
                             filed'[x] >= 2
                        /\ job'[u].at # "waiting" /\ x \notin lost' => acts'[x] = 0
    BY DEF ClaimKept
  <2>2. /\ Kept(x)
        /\ job[u].at = "append" /\ job[u].line.id = x => Rank(job[u].line.a) >= 2
        /\ backend = "file" /\ job[u].at \in {"call", "waiting", "build"} => filed[x] >= 2
        /\ job[u].at # "waiting" /\ x \notin lost => acts[x] = 0
    BY <1>8, <2>1 DEF IInv, Claimed, ClaimKept
  <2>3. CASE u = t
    <3>1. Kept(x)' /\ (x \notin lost' => acts'[x] = 0)
      BY <1>1, <1>2, <2>2, <2>3 DEF Kept, history
    <3>2. job'[t].at # "snapshot" => filed'[x] >= 2
      <4>1. SUFFICES ASSUME job'[t].at # "snapshot"
                     PROVE  filed'[x] >= 2
        OBVIOUS
      <4>2. x = id
        BY <1>5, <2>1, <2>3, <4>1
      <4>3. Rank(a) >= 2
        BY <1>1, <2>2, <2>3, <4>2 DEF id, a
      <4> QED
        BY <1>1, <1>4, <4>2, <4>3, RankType
    <3> QED
      BY <1>5, <2>3, <3>1, <3>2
  <2>4. CASE u # t
    <3>1. filed[x] >= 2 => filed'[x] >= 2
      BY <1>4 DEF IInv, TypeOK
    <3> QED
      BY <1>2, <1>5, <2>2, <2>4, <3>1 DEF Kept, config, history
  <2> QED
    BY <2>3, <2>4
<1>11. ActKept'
  <2>1. \A x \in Id : filed[x] >= 2 => filed'[x] >= 2
    BY <1>4 DEF IInv, TypeOK
  <2> QED
    BY <1>2, <2>1 DEF IInv, Claimed, ActKept, Kept, config, history
<1> QED
  BY <1>6, <1>7, <1>9, <1>10, <1>11 DEF IInv, Claimed

LEMMA RestartKeeps ==
  ASSUME IInv, Restart
  PROVE  IInv'
<1>1. Idle \in Job /\ Idle.at = "idle" /\ Idle.ids = {}
  BY DEF Idle, Job, Then
<1>2. \A t \in Thread : job'[t] = Idle
  BY DEF Restart
<1>3. \A id \in Id : Rank(file[id]) \in 0 .. 4
  BY RankType DEF IInv, TypeOK
<1>4. TypeOK'
  <2>1. job' \in [Thread -> Job]
    BY <1>1 DEF Restart
  <2>2. filed' \in [Id -> 0 .. 4]
    BY <1>3 DEF Restart
  <2>3. lost' \subseteq Id /\ torn' \in BOOLEAN /\ restarts' \in 0 .. MaxRestarts
    <3>1. lost' \subseteq Id
      BY DEF IInv, TypeOK, Restart
    <3>2. torn' \in BOOLEAN
      BY DEF IInv, TypeOK, Restart
    <3>3. restarts' \in 0 .. MaxRestarts
      BY ApprovalQueueAssumption DEF IInv, TypeOK, Restart
    <3> QED
      BY <3>1, <3>2, <3>3
  <2>4. backend' = "file" /\ UNCHANGED <<config, file, clock, history, said, faults>>
        /\ store' = file /\ fresh' = TRUE
    BY DEF Restart, config
  <2> QED
    BY <1>1, <1>2, <2>1, <2>2, <2>3, <2>4 DEF IInv, TypeOK, config, clock, history
<1>5. Held'
  BY <1>1, <1>2 DEF Held
<1>6. \A t \in Thread : \A id \in Id : ~Claiming(job'[t], id)
  BY <1>1, <1>2 DEF Claiming
<1>7. ActKept'
  <2>1. SUFFICES ASSUME NEW id \in Id, id \notin lost'
                 PROVE  /\ acts'[id] <= 1
                        /\ acts'[id] = 1 => Kept(id)' /\ filed'[id] >= 2
    BY DEF ActKept
  <2>2. id \notin lost /\ ~(Rank(file[id]) < filed[id]) /\ backend = "file"
        /\ acts' = acts /\ store' = file /\ filed'[id] = Rank(file[id])
    BY <2>1 DEF Restart, history
  <2>3. acts[id] <= 1 /\ (acts[id] = 1 => filed[id] >= 2)
    BY <2>2 DEF IInv, Claimed, ActKept
  <2> QED
    BY <1>3, <2>2, <2>3 DEF Kept, IInv, TypeOK
<1> QED
  BY <1>4, <1>5, <1>6, <1>7 DEF IInv, Claimed, OneClaimant, ClaimKept

(***************************************************************************)
(* The claim: only a pending record can be claimed, and a record that was   *)
(* acted on is not pending.                                                 *)
(***************************************************************************)
LEMMA ClaimKeeps ==
  ASSUME IInv, NEW t \in Thread, NEW id \in Id, id \in Open, Free(t),
         NEW then \in {"call", "build"},
         Write(t, Moved({id}, "approved"), {id}, then),
         UNCHANGED <<config, disk, clock, history, bounds>>
  PROVE  IInv'
<1> DEFINE s == Moved({id}, "approved")
<1>1. TypeOK /\ Held
  BY DEF IInv
<1>2. /\ id \in Id /\ store[id] # None /\ Rank(store[id]) = 1 /\ ~Kept(id)
      /\ {id} \in SUBSET Id /\ then \in Then
  BY <1>1, RankOfRecord DEF Open, Has, TypeOK, Kept, Then
<1>3. /\ s \in Records /\ \A x \in Id : store[x] # None => s[x] # None
      /\ \A x \in {id} : s[x] # None
      /\ backend = "file" \/ then \in {"call", "build"} => {id} # {}
  <2>1. \A x \in {id} : store[x] # None
    BY <1>2
  <2>2. "approved" \in Status
    BY DEF Status
  <2>3. /\ s \in Records /\ \A x \in Id : store[x] # None => s[x] # None
        /\ \A x \in {id} : s[x] \in Approval
    BY <1>1, <1>2, <2>1, <2>2, MovedKeeps, Zenon
  <2> QED
    BY <2>3, RankOfRecord
<1>4. Kept(id)' /\ \A x \in Id : Kept(x) => Kept(x)'
  <2>1. \A x \in Id : Kept(x) \/ x \in {id} => Rank(s[x]) >= 2
    BY <1>1, <1>2, MovedRank DEF Status
  <2>2. store' = s
    BY DEF Write
  <2> QED
    BY <1>2, <2>1, <2>2 DEF Kept
<1>5. Write(t, s, {id}, then) /\ acts' \in [Id -> Nat] /\ owed' \subseteq Id
      /\ UNCHANGED <<config, disk, clock, bounds>>
  BY <1>1 DEF history, TypeOK
<1>51. PICK r \in Records : r = s
  BY <1>3
<1>52. /\ Write(t, r, {id}, then)
       /\ \A x \in Id : store[x] # None => r[x] # None
       /\ r[id] # None /\ {id} # {}
  BY <1>1, <1>3, <1>51, <1>5
<1> HIDE DEF s
<1>6. /\ TypeOK' /\ Held' /\ store' = r
      /\ \A u \in Thread : u # t => job'[u] = job[u]
      /\ \A x \in Id : Claiming(job'[t], x) =>
           /\ x = id /\ then \in {"call", "build"}
           /\ IF backend = "file" THEN job'[t].at = "snapshot" ELSE job'[t].at = then
  <2>1. TypeOK /\ Held /\ id \in Id /\ then \in Then
    BY <1>1, <1>2
  <2>2. (\A x \in Id : store[x] # None => r[x] # None) /\ r[id] # None
    BY <1>52
  <2>3. Write(t, r, {id}, then)
    BY <1>52
  <2>4. acts' \in [Id -> Nat] /\ owed' \subseteq Id
    BY <1>5
  <2>5. UNCHANGED <<config, disk, clock, bounds>>
    BY <1>5
  <2> QED
    BY <2>1, <2>2, <2>3, <2>4, <2>5, WriteOne, SMTT(60)
<1>7. \A u \in Thread : \A x \in Id : Claiming(job[u], x) => x # id
  BY <1>2 DEF IInv, Claimed, ClaimKept
<1>8. OneClaimant'
  <2>1. SUFFICES ASSUME NEW u \in Thread, NEW v \in Thread, NEW x \in Id,
                        Claiming(job'[u], x), Claiming(job'[v], x)
                 PROVE  u = v
    BY DEF OneClaimant
  <2>2. CASE u = t \/ v = t
    BY <1>6, <1>7, <2>1, <2>2
  <2>3. CASE u # t /\ v # t
    BY <1>6, <2>1, <2>3 DEF IInv, Claimed, OneClaimant
  <2> QED
    BY <2>2, <2>3
<1>9. id \notin lost => acts[id] = 0
  BY <1>1, <1>2 DEF IInv, Claimed, ActKept, TypeOK
<1>10. ClaimKept'
  <2>1. SUFFICES ASSUME NEW u \in Thread, NEW x \in Id, Claiming(job'[u], x)
                 PROVE  /\ Kept(x)'
                        /\ job'[u].at = "append" /\ job'[u].line.id = x =>
                             Rank(job'[u].line.a) >= 2
                        /\ backend' = "file" /\ job'[u].at \in {"call", "waiting", "build"} =>
                             filed'[x] >= 2
                        /\ job'[u].at # "waiting" /\ x \notin lost' => acts'[x] = 0
    BY DEF ClaimKept
  <2>2. UNCHANGED <<backend, filed, lost, acts>>
    BY DEF config, disk, history
  <2>3. CASE u = t
    BY <1>4, <1>6, <1>9, <2>1, <2>2, <2>3
  <2>4. CASE u # t
    BY <1>4, <1>6, <2>1, <2>2, <2>4 DEF IInv, Claimed, ClaimKept
  <2> QED
    BY <2>3, <2>4
<1>11. ActKept'
  <2>1. UNCHANGED <<backend, filed, lost, acts>>
    BY DEF config, disk, history
  <2> QED
    BY <1>4, <2>1 DEF IInv, Claimed, ActKept
<1> QED
  BY <1>6, <1>8, <1>10, <1>11 DEF IInv, Claimed

(***************************************************************************)
(* The call: its claimant is the only one, and has not called before.       *)
(***************************************************************************)
LEMMA CalledKeeps ==
  ASSUME IInv, NEW t \in Thread, NEW id \in Id, Called(t, id)
  PROVE  IInv'
<1> DEFINE j == [job[t] EXCEPT !.at = "waiting"]
<1>1. /\ job[t] \in Job /\ job[t].at = "call" /\ job[t].ids = {id}
      /\ job' = [job EXCEPT ![t] = j]
      /\ acts' = [acts EXCEPT ![id] = @ + 1] /\ owed' = owed \cup {id}
      /\ UNCHANGED <<config, store, disk, clock, fresh, said, bounds>>
  BY DEF IInv, TypeOK, Called, At
<1>2. j \in Job /\ j.at = "waiting" /\ j.ids = {id}
  BY <1>1 DEF Job
<1> HIDE DEF j
<1>3. /\ job' \in [Thread -> Job] /\ job'[t] = j
      /\ \A u \in Thread : u # t => job'[u] = job[u]
  BY <1>1, <1>2 DEF IInv, TypeOK
<1>4. TypeOK'
  BY <1>1, <1>2, <1>3 DEF IInv, TypeOK, config, disk, clock, bounds
<1>5. Held'
  BY <1>1, <1>2, <1>3 DEF IInv, Held
<1>6. \A u \in Thread : \A x \in Id : Claiming(job'[u], x) => Claiming(job[u], x)
  BY <1>1, <1>2, <1>3 DEF Claiming
<1>7. OneClaimant'
  BY <1>6 DEF IInv, Claimed, OneClaimant
<1>8. Claiming(job[t], id)
  BY <1>1 DEF Claiming
<1>9. /\ Kept(id) /\ (backend = "file" => filed[id] >= 2)
      /\ id \notin lost => acts[id] = 0
  BY <1>1, <1>8 DEF IInv, Claimed, ClaimKept
<1>10. \A u \in Thread : Claiming(job'[u], id) => u = t
  BY <1>6, <1>8 DEF IInv, Claimed, OneClaimant
<1>11. \A x \in Id : x # id => acts'[x] = acts[x]
  BY <1>1 DEF IInv, TypeOK
<1>12. id \notin lost => acts'[id] = 1
  BY <1>1, <1>9 DEF IInv, TypeOK
<1>13. UNCHANGED <<backend, filed, lost, store>>
  BY <1>1 DEF config, disk
<1>14. ClaimKept'
  <2>1. SUFFICES ASSUME NEW u \in Thread, NEW x \in Id, Claiming(job'[u], x)
                 PROVE  /\ Kept(x)'
                        /\ job'[u].at = "append" /\ job'[u].line.id = x =>
                             Rank(job'[u].line.a) >= 2
                        /\ backend' = "file" /\ job'[u].at \in {"call", "waiting", "build"} =>
                             filed'[x] >= 2
                        /\ job'[u].at # "waiting" /\ x \notin lost' => acts'[x] = 0
    BY DEF ClaimKept
  <2>2. CASE u = t
    <3>1. x = id
      BY <1>2, <1>3, <2>1, <2>2 DEF Claiming
    <3> QED
      BY <1>2, <1>3, <1>9, <1>13, <2>2, <3>1 DEF Kept
  <2>3. CASE u # t
    <3>1. x # id /\ job'[u] = job[u]
      BY <1>3, <1>10, <2>1, <2>3
    <3> QED
      BY <1>11, <1>13, <2>1, <3>1 DEF IInv, Claimed, ClaimKept, Kept
  <2> QED
    BY <2>2, <2>3
<1>15. ActKept'
  BY <1>9, <1>11, <1>12, <1>13 DEF IInv, Claimed, ActKept, Kept
<1> QED
  BY <1>4, <1>5, <1>7, <1>14, <1>15 DEF IInv, Claimed

LEMMA GrantKeeps ==
  ASSUME IInv, NEW t \in Thread, NEW id \in Id, Grant(t, id)
  PROVE  IInv'
<1> DEFINE s == Moved({id}, "granted")
<1>1. /\ TypeOK /\ Held /\ At(t, "build", id) /\ Has(id, "approved")
      /\ acts' = [acts EXCEPT ![id] = @ + 1]
      /\ Write(t, s, {id}, "answer") /\ owed' = owed
      /\ UNCHANGED <<config, disk, clock, bounds>>
  BY DEF IInv, Grant
<1>2. store[id] # None /\ {id} \in SUBSET Id /\ "answer" \in Then
  BY <1>1 DEF Has, Then
<1>3. /\ s \in Records /\ \A x \in Id : store[x] # None => s[x] # None
      /\ \A x \in {id} : s[x] # None
      /\ backend = "file" \/ "answer" \in {"call", "build"} => {id} # {}
  <2>1. \A x \in {id} : store[x] # None
    BY <1>2
  <2>2. "granted" \in Status
    BY DEF Status
  <2>3. /\ s \in Records /\ \A x \in Id : store[x] # None => s[x] # None
        /\ \A x \in {id} : s[x] \in Approval
    BY <1>1, <1>2, <2>1, <2>2, MovedKeeps, Zenon
  <2> QED
    BY <2>3, RankOfRecord
<1>4. \A x \in Id : Kept(x) \/ x \in {id} => Rank(s[x]) >= 2
  BY <1>1, <1>2, MovedRank DEF Status
<1>5. acts' \in [Id -> Nat] /\ owed' \subseteq Id
  BY <1>1 DEF TypeOK
<1>51. PICK r \in Records : r = s
  BY <1>3
<1>52. /\ Write(t, r, {id}, "answer")
       /\ \A x \in Id : store[x] # None => r[x] # None
       /\ r[id] # None /\ {id} # {}
  BY <1>1, <1>3, <1>51
<1> HIDE DEF s
<1>53. PICK then \in Then : then = "answer"
  BY <1>2
<1>6. /\ TypeOK' /\ Held' /\ store' = r
      /\ \A u \in Thread : u # t => job'[u] = job[u]
      /\ \A x \in Id : Claiming(job'[t], x) =>
           /\ x = id /\ then \in {"call", "build"}
           /\ IF backend = "file" THEN job'[t].at = "snapshot" ELSE job'[t].at = then
  <2>1. TypeOK /\ Held /\ id \in Id /\ then \in Then
    BY <1>1, <1>2
  <2>2. (\A x \in Id : store[x] # None => r[x] # None) /\ r[id] # None
    BY <1>52
  <2>3. Write(t, r, {id}, then)
    BY <1>52, <1>53
  <2>4. acts' \in [Id -> Nat] /\ owed' \subseteq Id
    BY <1>5
  <2>5. UNCHANGED <<config, disk, clock, bounds>>
    BY <1>1
  <2> QED
    BY <2>1, <2>2, <2>3, <2>4, <2>5, WriteOne, SMTT(60)
<1>7. \A x \in Id : ~Claiming(job'[t], x)
  BY <1>6, <1>53
<1>8. \A u \in Thread : \A x \in Id : Claiming(job'[u], x) => u # t /\ Claiming(job[u], x)
  BY <1>6, <1>7
<1>9. Claiming(job[t], id)
  BY <1>1 DEF At, Claiming
<1>10. /\ backend = "file" => filed[id] >= 2
       /\ id \notin lost => acts[id] = 0
  BY <1>1, <1>9 DEF IInv, Claimed, ClaimKept, At
<1>11. \A x \in Id : Kept(x) \/ x = id => Kept(x)'
  BY <1>4, <1>51, <1>6 DEF Kept
<1>12. \A x \in Id : x # id => acts'[x] = acts[x]
  BY <1>1 DEF TypeOK
<1>13. id \notin lost => acts'[id] = 1
  BY <1>1, <1>10 DEF TypeOK
<1>14. UNCHANGED <<backend, filed, lost>>
  BY <1>1 DEF config, disk
<1>15. OneClaimant'
  BY <1>8 DEF IInv, Claimed, OneClaimant
<1>16. ClaimKept'
  <2>1. SUFFICES ASSUME NEW u \in Thread, NEW x \in Id, Claiming(job'[u], x)
                 PROVE  /\ Kept(x)'
                        /\ job'[u].at = "append" /\ job'[u].line.id = x =>
                             Rank(job'[u].line.a) >= 2
                        /\ backend' = "file" /\ job'[u].at \in {"call", "waiting", "build"} =>
                             filed'[x] >= 2
                        /\ job'[u].at # "waiting" /\ x \notin lost' => acts'[x] = 0
    BY DEF ClaimKept
  <2>2. u # t /\ Claiming(job[u], x) /\ job'[u] = job[u]
    BY <1>6, <1>8, <2>1
  <2>3. x # id
    BY <1>9, <2>2 DEF IInv, Claimed, OneClaimant
  <2> QED
    BY <1>11, <1>12, <1>14, <2>2, <2>3 DEF IInv, Claimed, ClaimKept
<1>17. ActKept'
  BY <1>10, <1>11, <1>12, <1>13, <1>14 DEF IInv, Claimed, ActKept
<1> QED
  BY <1>6, <1>15, <1>16, <1>17 DEF IInv, Claimed

----------------------------------------------------------------------------

(***************************************************************************)
(* Asking, reading, deciding, setting right: writes that claim nothing.     *)
(***************************************************************************)
LEMMA ExpiredExist ==
  ASSUME TypeOK
  PROVE  /\ Newly \subseteq Id /\ \A id \in Newly : store[id] # None /\ Rank(store[id]) = 1
         /\ Open \subseteq Id /\ \A id \in Open : store[id] # None /\ Rank(store[id]) = 1
  BY RankOfRecord DEF Newly, Open, Expired, Has, TypeOK

LEMMA NewRecord == New \in Approval /\ Rank(New) = 1
<1>1. New \in Approval /\ New.status = "pending"
  BY DEF New, Approval, Status
<1> QED
  BY <1>1, RankOfRecord

LEMMA FileEnqueueKeeps ==
  ASSUME IInv, NEW t \in Thread, NEW id \in Id, FileEnqueue(t, id)
  PROVE  IInv'
<1>1. Rank(store[id]) = 0 /\ ~Kept(id)
  BY DEF FileEnqueue, Rank, Kept
<1> QED
  BY <1>1, NewRecord, QuietPut DEF FileEnqueue, history, IInv, TypeOK

LEMMA PgEnqueueKeeps ==
  ASSUME IInv, NEW t \in Thread, NEW id \in Id, PgEnqueue(t, id)
  PROVE  IInv'
<1> DEFINE m == Moved(Newly, "expired")
           s == [m EXCEPT ![id] = New]
<1>1. TypeOK /\ Newly \in SUBSET Id /\ \A x \in Newly : store[x] # None
  BY ExpiredExist DEF IInv
<1>2. "expired" \in Status \ {"pending"}
  BY DEF Status, Terminal
<1>3. /\ m \in Records /\ \A x \in Id : store[x] # None => m[x] # None
      /\ \A x \in Id : Kept(x) => Rank(m[x]) >= 2
  BY <1>1, <1>2, MovedKeeps, MovedRank
<1>4. store[id] = None /\ ~Kept(id) /\ backend = "pg" /\ Write(t, s, {id}, "answer")
      /\ UNCHANGED <<config, disk, clock, history, bounds>>
  BY DEF PgEnqueue, Rank, Kept
<1> HIDE DEF m
<1>5. New \in Approval /\ New # None
  BY NewRecord, RankOfRecord
<1>6. /\ s \in Records /\ s[id] # None
      /\ \A x \in Id : store[x] # None => s[x] # None
      /\ \A x \in Id : Kept(x) => Rank(s[x]) >= 2
  BY <1>3, <1>4, <1>5 DEF Records
<1>7. PICK r \in Records : r = s
  BY <1>6
<1>8. /\ Write(t, r, {id}, "answer") /\ r[id] # None
      /\ \A x \in Id : store[x] # None => r[x] # None
      /\ \A x \in Id : Kept(x) => Rank(r[x]) >= 2
  BY <1>4, <1>6, <1>7
<1> HIDE DEF s
<1>9. UNCHANGED acts /\ owed' \subseteq Id /\ UNCHANGED <<config, disk, clock, bounds>>
  BY <1>1, <1>4 DEF history, TypeOK
<1>10. {id} \in SUBSET Id /\ \A x \in {id} : r[x] # None
  BY <1>8
<1> QED
  BY <1>4, <1>8, <1>9, <1>10, QuietWrite

LEMMA SweepKeeps ==
  ASSUME IInv, NEW t \in Thread,
         PgSweep(t) \/ \E ids \in SUBSET Id : FileSweep(t, ids)
  PROVE  IInv'
<1>1. TypeOK /\ Newly \in SUBSET Id /\ \A x \in Newly : store[x] # None
  BY ExpiredExist DEF IInv
<1>2. "expired" \in Status \ {"pending"}
  BY DEF Status, Terminal
<1>3. CASE PgSweep(t)
  <2>1. /\ backend = "pg" /\ Write(t, Moved(Newly, "expired"), {}, "nothing")
        /\ UNCHANGED <<config, disk, clock, bounds>> /\ UNCHANGED acts /\ owed' \subseteq Id
    BY <1>1, <1>3 DEF PgSweep, history, TypeOK
  <2> QED
    BY <1>1, <1>2, <2>1, QuietMove
<1>4. CASE \E ids \in SUBSET Id : FileSweep(t, ids)
  <2>1. PICK ids \in SUBSET Id : FileSweep(t, ids)
    BY <1>4
  <2>2. /\ ids # {} /\ Write(t, Moved(ids, "expired"), ids, "nothing")
        /\ UNCHANGED <<config, disk, clock, bounds>> /\ UNCHANGED acts /\ owed' \subseteq Id
    BY <1>1, <2>1 DEF FileSweep, history, TypeOK
  <2>3. \A x \in ids : store[x] # None
    BY <1>1, <2>1 DEF FileSweep
  <2> QED
    BY <1>2, <2>2, <2>3, QuietMove
<1> QED
  BY <1>3, <1>4

LEMMA SetRationaleKeeps ==
  ASSUME IInv, NEW t \in Thread, NEW id \in Id, SetRationale(t, id)
  PROVE  IInv'
<1>1. store \in Records /\ {id} \in SUBSET Id /\ \A x \in {id} : store[x] # None
  BY DEF IInv, TypeOK, Records, SetRationale
<1>2. PICK r \in Records : r = store
  BY <1>1
<1>3. /\ Write(t, r, {id}, "nothing") /\ UNCHANGED acts /\ owed' \subseteq Id
      /\ UNCHANGED <<config, disk, clock, bounds>>
  BY <1>2 DEF SetRationale, history, IInv, TypeOK
<1>4. /\ \A x \in Id : store[x] # None => r[x] # None
      /\ \A x \in Id : Kept(x) => Rank(r[x]) >= 2
      /\ \A x \in {id} : r[x] # None
  BY <1>1, <1>2 DEF Kept
<1> QED
  BY <1>1, <1>3, <1>4, QuietWrite

LEMMA DenyKeeps ==
  ASSUME IInv, NEW t \in Thread, NEW id \in Id, FileDeny(t, id) \/ PgDeny(t, id)
  PROVE  IInv'
<1>1. {id} \in SUBSET Id /\ \A x \in {id} : store[x] # None
  BY ExpiredExist DEF IInv, FileDeny, PgDeny
<1>2. "denied" \in Status \ {"pending"}
  BY DEF Status, Terminal
<1>3. /\ Write(t, Moved({id}, "denied"), {id}, "answer") /\ UNCHANGED acts /\ owed' \subseteq Id
      /\ UNCHANGED <<config, disk, clock, bounds>>
  BY DEF FileDeny, PgDeny, history, IInv, TypeOK
<1> QED
  BY <1>1, <1>2, <1>3, QuietMove

LEMMA LapseKeeps ==
  ASSUME IInv, NEW t \in Thread, NEW id \in Id, Lapse(t, id)
  PROVE  IInv'
<1> DEFINE s == Moved({id}, "expired")
<1>1. /\ TypeOK /\ id \in Newly /\ store' = s /\ fresh' = FALSE
      /\ UNCHANGED <<config, disk, job, clock, history, said, bounds>>
  BY DEF IInv, Lapse, Newly
<1>2. {id} \in SUBSET Id /\ \A x \in {id} : store[x] # None
  BY <1>1, ExpiredExist
<1>3. "expired" \in Status \ {"pending"}
  BY DEF Status, Terminal
<1>4. /\ s \in Records /\ \A x \in Id : store[x] # None => s[x] # None
      /\ \A x \in Id : Kept(x) => Rank(s[x]) >= 2
  BY <1>1, <1>2, <1>3, MovedKeeps, MovedRank
<1> HIDE DEF s
<1>5. TypeOK'
  BY <1>1, <1>4 DEF TypeOK, Records, config, disk, clock, history, bounds
<1>6. Held'
  BY <1>1, <1>4 DEF IInv, Held, TypeOK, Job
<1>7. Claimed'
  BY <1>1, <1>4, Quiet DEF IInv, Kept, disk, history
<1> QED
  BY <1>5, <1>6, <1>7 DEF IInv

(***************************************************************************)
(* approve and record_execution.                                            *)
(***************************************************************************)
LEMMA EndKeeps ==
  ASSUME IInv, NEW t \in Thread, NEW id \in Id,
         \/ Refused(t, id) \/ Answered(t, id) \/ CallFails(t, id) \/ RecordExecution(t, id)
  PROVE  IInv'
<1>1. TypeOK /\ Held
  BY DEF IInv
<1>2. store[id] # None
  BY <1>1 DEF Held, At, Has, Refused, Answered, CallFails, RecordExecution
<1>3. CASE Refused(t, id)
  BY <1>1, <1>2, <1>3, FinishKeeps DEF Refused, history, TypeOK
<1>4. CASE Answered(t, id)
  BY <1>1, <1>2, <1>4, FinishKeeps DEF Answered, TypeOK
<1>5. CASE CallFails(t, id)
  BY <1>1, <1>2, <1>5, FinishKeeps DEF CallFails, history, TypeOK
<1>6. CASE RecordExecution(t, id)
  <2>1. PICK status \in {"executed", "error"}, unknown \in BOOLEAN :
               Finish(t, id, status, unknown, "answer")
    BY <1>6 DEF RecordExecution
  <2>2. UNCHANGED acts /\ owed' \subseteq Id /\ UNCHANGED <<config, disk, clock, bounds>>
    BY <1>1, <1>6 DEF RecordExecution, history, TypeOK
  <2> QED
    BY <1>2, <2>1, <2>2, FinishKeeps
<1> QED
  BY <1>3, <1>4, <1>5, <1>6

(***************************************************************************)
(* Threads that stop, and time.                                             *)
(***************************************************************************)
LEMMA AppendFailsKeeps ==
  ASSUME IInv, NEW t \in Thread, AppendFails(t)
  PROVE  IInv'
<1> DEFINE ids == job[t].ids
           a == job[t].line.a
<1>1. /\ TypeOK /\ Held /\ job[t] \in Job /\ job[t].at = "append" /\ job[t].line # None
      /\ a \in Approval /\ backend # "pg"
  BY DEF IInv, Held, TypeOK, AppendFails, Job
<1>2. /\ faults' = faults + 1 /\ faults < MaxFaults /\ torn' \in {torn, TRUE}
      /\ UNCHANGED <<config, store, file, filed, lost, clock, fresh, history, restarts>>
      /\ IF job[t].then = "filled"
         THEN Proceed(t, ids, "filled", [x \in ids |-> a])
         ELSE job' = [job EXCEPT ![t] = Idle] /\ UNCHANGED said
  BY DEF AppendFails
<1> HIDE DEF ids, a
<1>3. job' = [job EXCEPT ![t] = Idle] /\ said' \in [Id -> Status \cup {None}]
  <2>1. CASE job[t].then = "filled"
    <3>1. Proceed(t, ids, "filled", [x \in ids |-> a])
      BY <1>2, <2>1
    <3>2. a.status \in Status
      BY <1>1 DEF Approval
    <3>3. job' = [job EXCEPT ![t] = Idle]
      BY <3>1 DEF Proceed
    <3>4. said' = [id \in Id |-> IF id \in ids /\ "filled" \in {"answer", "filled"}
                                 THEN [x \in ids |-> a][id].status ELSE said[id]]
      BY <3>1 DEF Proceed
    <3>5. said' \in [Id -> Status \cup {None}]
      BY <1>1, <3>2, <3>4 DEF TypeOK
    <3> QED
      BY <3>3, <3>5
  <2>2. CASE job[t].then # "filled"
    BY <1>1, <1>2, <2>2 DEF TypeOK
  <2> QED
    BY <2>1, <2>2
<1>4. faults' \in 0 .. MaxFaults /\ restarts' \in 0 .. MaxRestarts
  BY <1>1, <1>2, ApprovalQueueAssumption DEF TypeOK
<1>5. torn' \in BOOLEAN /\ UNCHANGED acts /\ owed' \subseteq Id
  BY <1>1, <1>2 DEF TypeOK, history
<1> QED
  BY <1>1, <1>2, <1>3, <1>4, <1>5, StopKeeps

LEMMA StopsKeep ==
  ASSUME IInv, NEW t \in Thread,
         WorkerDies(t) \/ \E id \in Id : RecordFails(t, id) \/ NotGranted(t, id)
  PROVE  IInv'
<1>1. TypeOK
  BY DEF IInv
<1>2. /\ job' = [job EXCEPT ![t] = Idle]
      /\ UNCHANGED <<store, config, lost, filed, acts, file, clock, fresh, torn>>
  BY DEF WorkerDies, RecordFails, NotGranted, disk, history
<1>3. faults' \in 0 .. MaxFaults /\ restarts' \in 0 .. MaxRestarts
  BY <1>1, ApprovalQueueAssumption DEF TypeOK, WorkerDies, RecordFails, NotGranted, bounds
<1>4. said' \in [Id -> Status \cup {None}] /\ owed' \subseteq Id
  BY <1>1 DEF TypeOK, WorkerDies, RecordFails, NotGranted, history, Status, Terminal
<1>5. torn' \in BOOLEAN /\ torn' = torn
  BY <1>1, <1>2 DEF TypeOK
<1> QED
  BY <1>2, <1>3, <1>4, <1>5, StopKeeps

LEMMA TimeKeeps ==
  ASSUME IInv, NEW id \in Id, Lapses(id) \/ Ages(id)
  PROVE  IInv'
<1>1. /\ UNCHANGED <<config, store, disk, job, fresh, history, said, bounds>>
      /\ late' \subseteq Id /\ aged' \subseteq Id
  BY DEF Lapses, Ages, IInv, TypeOK
<1>2. TypeOK'
  BY <1>1 DEF IInv, TypeOK, config, disk, history, bounds
<1>3. Held'
  BY <1>1 DEF IInv, Held
<1>4. Claimed'
  BY <1>1, Quiet DEF IInv, Kept, disk, history
<1> QED
  BY <1>2, <1>3, <1>4 DEF IInv

(***************************************************************************)
(* reconcile_stale marks what was approved, and nothing else.               *)
(***************************************************************************)
LEMMA StaleKeeps ==
  ASSUME TypeOK, NEW ids \in SUBSET Id, \A id \in ids : Has(id, "approved")
  PROVE  /\ Stale(ids) \in Records
         /\ \A id \in Id : store[id] # None => Stale(ids)[id] # None
         /\ \A id \in Id : Kept(id) => Rank(Stale(ids)[id]) >= 2
<1>1. \A id \in ids : store[id] \in Approval
  BY DEF TypeOK, Has
<1>2. \A id \in ids : LET a == [store[id] EXCEPT !.status = "error", !.unknown = TRUE]
                      IN  a \in Approval /\ a.status = "error"
  BY <1>1 DEF Approval, Status, Terminal
<1>3. \A id \in ids : Stale(ids)[id] \in Approval /\ Stale(ids)[id].status = "error"
  BY <1>2 DEF Stale
<1>4. \A id \in ids : Stale(ids)[id] # None /\ Rank(Stale(ids)[id]) >= 2
  BY <1>3, RankOfRecord DEF Terminal
<1>5. \A id \in Id \ ids : Stale(ids)[id] = store[id]
  BY DEF Stale
<1>6. Stale(ids) \in Records
  <2>1. \A id \in Id : Stale(ids)[id] \in Approval \cup {None}
    BY <1>3, <1>5 DEF TypeOK
  <2>2. Stale(ids) = [id \in Id |-> Stale(ids)[id]]
    BY DEF Stale
  <2> QED
    BY <2>1, <2>2 DEF Records
<1> QED
  BY <1>4, <1>5, <1>6 DEF Kept

LEMMA ReconcileKeeps ==
  ASSUME IInv, NEW t \in Thread, FileReconcile(t) \/ PgReconcile(t)
  PROVE  IInv'
<1>1. PICK stale \in SUBSET Id, ids \in SUBSET Id :
        /\ \A id \in stale : Has(id, "approved")
        /\ ids \subseteq stale /\ (backend = "file" => ids # {})
        /\ Write(t, Stale(stale), ids, "nothing")
        /\ UNCHANGED <<config, disk, clock, history, bounds>>
  <2>1. CASE FileReconcile(t)
    <3> DEFINE stale == {id \in Id : Has(id, "approved")}
    <3>1. stale # {} /\ Write(t, Stale(stale), stale, "nothing")
          /\ UNCHANGED <<config, disk, clock, history, bounds>>
      BY <2>1 DEF FileReconcile
    <3>2. stale \in SUBSET Id /\ \A id \in stale : Has(id, "approved")
      OBVIOUS
    <3> HIDE DEF stale
    <3> QED
      BY <3>1, <3>2
  <2>2. CASE PgReconcile(t)
    <3> DEFINE stale == {id \in aged : Has(id, "approved")}
    <3>1. backend = "pg" /\ Write(t, Stale(stale), {}, "nothing")
          /\ UNCHANGED <<config, disk, clock, history, bounds>>
      BY <2>2 DEF PgReconcile
    <3>2. stale \in SUBSET Id /\ \A id \in stale : Has(id, "approved")
      BY DEF IInv, TypeOK
    <3> HIDE DEF stale
    <3> QED
      BY <3>1, <3>2
  <2> QED
    BY <2>1, <2>2
<1>2. /\ Stale(stale) \in Records
      /\ \A id \in Id : store[id] # None => Stale(stale)[id] # None
      /\ \A id \in Id : Kept(id) => Rank(Stale(stale)[id]) >= 2
  BY <1>1, StaleKeeps DEF IInv
<1>3. PICK r \in Records : r = Stale(stale)
  BY <1>2
<1>4. Write(t, r, ids, "nothing") /\ UNCHANGED acts /\ owed' \subseteq Id
      /\ UNCHANGED <<config, disk, clock, bounds>>
  BY <1>1, <1>3 DEF history, IInv, TypeOK
<1>5. /\ \A id \in Id : store[id] # None => r[id] # None
      /\ \A id \in Id : Kept(id) => Rank(r[id]) >= 2
      /\ \A id \in ids : r[id] # None
  BY <1>1, <1>2, <1>3 DEF Has
<1> QED
  BY <1>1, <1>4, <1>5, QuietWrite

LEMMA ResolveKeeps ==
  ASSUME IInv, NEW t \in Thread, NEW id \in Id, Resolve(t, id)
  PROVE  IInv'
<1> DEFINE a == [store[id] EXCEPT !.unknown = FALSE]
<1>1. TypeOK /\ store[id] \in Approval
  BY DEF Resolve, IInv, TypeOK
<1>2. a \in Approval /\ a.status = store[id].status
  BY <1>1 DEF Approval
<1>3. Kept(id) => Rank(a) >= 2
  <2>1. a # None /\ store[id] # None
    BY <1>1, <1>2, RankOfRecord
  <2> QED
    BY <1>2, <2>1 DEF Kept, Rank
<1>4. /\ Write(t, [store EXCEPT ![id] = a], {id}, "nothing") /\ UNCHANGED acts
      /\ owed' \subseteq Id /\ UNCHANGED <<config, disk, clock, bounds>>
  BY <1>1 DEF Resolve, TypeOK
<1> HIDE DEF a
<1> QED
  BY <1>2, <1>3, <1>4, QuietPut

(***************************************************************************)
(* clear_history hides what is over, and nothing becomes pending by it.     *)
(***************************************************************************)
LEMMA ClearingKeeps ==
  ASSUME TypeOK
  PROVE  /\ Clearing \in Records
         /\ \A id \in Id : store[id] # None => Clearing[id] # None
         /\ \A id \in Id : Kept(id) => Rank(Clearing[id]) >= 2
<1>1. \A id \in Cleared : id \in Id /\ store[id] \in Approval
  BY DEF Cleared, TypeOK
<1>2. \A id \in Cleared : Clearing[id] \in Approval
  BY <1>1 DEF Clearing, Approval, Status, Terminal
<1>3. \A id \in Cleared :
        Clearing[id].status = IF Expired(id) THEN "expired" ELSE store[id].status
  BY <1>1 DEF Clearing, Approval
<1>4. \A id \in Cleared : Clearing[id] # None
  BY <1>2, RankOfRecord
<1>5. \A id \in Cleared : Kept(id) => Rank(Clearing[id]) >= 2
  <2>1. SUFFICES ASSUME NEW id \in Cleared, Kept(id)
                 PROVE  Rank(Clearing[id]) >= 2
    OBVIOUS
  <2>2. CASE Expired(id)
    BY <1>2, <1>3, <2>2, RankOfRecord DEF Terminal
  <2>3. CASE ~Expired(id)
    <3>1. store[id] # None /\ Clearing[id] # None /\ Clearing[id].status = store[id].status
      BY <1>1, <1>3, <1>4, <2>3, RankOfRecord
    <3> QED
      BY <2>1, <3>1 DEF Kept, Rank
  <2> QED
    BY <2>2, <2>3
<1>6. \A id \in Id \ Cleared : Clearing[id] = store[id]
  BY DEF Clearing
<1>7. Clearing \in Records
  <2>1. \A id \in Id : Clearing[id] \in Approval \cup {None}
    BY <1>2, <1>6 DEF TypeOK
  <2>2. Clearing = [id \in Id |-> Clearing[id]]
    BY DEF Clearing
  <2> QED
    BY <2>1, <2>2 DEF Records
<1> QED
  BY <1>4, <1>5, <1>6, <1>7 DEF Kept

LEMMA ClearHistoryKeeps ==
  ASSUME IInv, NEW t \in Thread, ClearHistory(t)
  PROVE  IInv'
<1>1. PICK ids \in SUBSET Id :
        /\ ids \subseteq Cleared /\ (backend = "file" => ids # {})
        /\ Write(t, Clearing, ids, "nothing")
  <2>1. Cleared \in SUBSET Id /\ Cleared # {}
        /\ Write(t, Clearing, IF backend = "file" THEN Cleared ELSE {}, "nothing")
    BY DEF ClearHistory, Cleared
  <2> QED
    BY <2>1
<1>2. PICK r \in Records : r = Clearing
  BY ClearingKeeps DEF IInv
<1>3. Write(t, r, ids, "nothing") /\ UNCHANGED acts /\ owed' \subseteq Id
      /\ UNCHANGED <<config, disk, clock, bounds>>
  BY <1>1, <1>2 DEF ClearHistory, history, IInv, TypeOK
<1>4. /\ \A id \in Id : store[id] # None => r[id] # None
      /\ \A id \in Id : Kept(id) => Rank(r[id]) >= 2
      /\ \A id \in ids : r[id] # None
  BY <1>1, <1>2, ClearingKeeps DEF IInv, Cleared
<1> QED
  BY <1>1, <1>3, <1>4, QuietWrite

----------------------------------------------------------------------------

(***************************************************************************)
(* Every step keeps the invariant.                                          *)
(***************************************************************************)
LEMMA ClaimActionKeeps ==
  ASSUME IInv, NEW t \in Thread, NEW id \in Id, FileClaim(t, id) \/ PgClaim(t, id)
  PROVE  IInv'
<1>1. PICK then \in {"call", "build"} : then = IF id \in edge THEN "build" ELSE "call"
  OBVIOUS
<1>2. id \in Open /\ Free(t) /\ Write(t, Moved({id}, "approved"), {id}, then)
      /\ UNCHANGED <<config, disk, clock, history, bounds>>
  BY <1>1 DEF FileClaim, PgClaim
<1> QED
  BY <1>2, ClaimKeeps

LEMMA StutterKeeps ==
  ASSUME IInv, UNCHANGED vars
  PROVE  IInv'
<1>1. UNCHANGED <<config, store, disk, job, clock, fresh, history, said, bounds>>
  BY DEF vars
<1>2. TypeOK'
  BY <1>1 DEF IInv, TypeOK, config, disk, clock, history, bounds
<1>3. Held'
  BY <1>1 DEF IInv, Held
<1>4. Claimed'
  BY <1>1, Quiet DEF IInv, Kept, disk, history
<1> QED
  BY <1>2, <1>3, <1>4 DEF IInv

LEMMA InitKeeps == Init => IInv
<1> SUFFICES ASSUME Init PROVE IInv
  OBVIOUS
<1>1. \A t \in Thread : job[t] = Idle
  BY DEF Init
<1>2. Idle \in Job /\ Idle.at = "idle" /\ Idle.ids = {}
  BY DEF Idle, Job, Then
<1>3. TypeOK
  <2>1. faults \in 0 .. MaxFaults /\ restarts \in 0 .. MaxRestarts
    BY ApprovalQueueAssumption DEF Init
  <2>2. job \in [Thread -> Job]
    BY <1>2 DEF Init
  <2>3. /\ \A t \in Thread : (job[t].at = "idle") <=> (job[t].ids = {})
        /\ \A t \in Thread : job[t].at \notin {"snapshot", "append"}
    BY <1>1, <1>2
  <2>4. /\ store \in [Id -> Approval \cup {None}] /\ file \in [Id -> Approval \cup {None}]
        /\ filed \in [Id -> 0 .. 4] /\ acts \in [Id -> Nat]
        /\ said \in [Id -> Status \cup {None}]
    BY DEF Init
  <2>5. /\ backend \in {"file", "pg"} /\ edge \subseteq Id /\ torn = FALSE /\ fresh = TRUE
        /\ late = {} /\ aged = {} /\ lost = {} /\ owed = {}
        /\ file = [id \in Id |-> None]
    BY DEF Init
  <2> QED
    BY <2>1, <2>2, <2>3, <2>4, <2>5 DEF TypeOK
<1>4. Held
  BY <1>1, <1>2 DEF Held
<1>5. \A t \in Thread : \A id \in Id : ~Claiming(job[t], id)
  BY <1>1, <1>2 DEF Claiming
<1>6. \A id \in Id : acts[id] = 0
  BY DEF Init
<1> QED
  BY <1>3, <1>4, <1>5, <1>6 DEF IInv, Claimed, OneClaimant, ClaimKept, ActKept

LEMMA ThreadKeeps ==
  ASSUME IInv, NEW t \in Thread, NEW id \in Id,
         \/ Snapshot(t, id) \/ RecordFails(t, id)
         \/ FileEnqueue(t, id) \/ PgEnqueue(t, id) \/ SetRationale(t, id)
         \/ FileClaim(t, id) \/ FileDeny(t, id) \/ Lapse(t, id)
         \/ PgClaim(t, id) \/ PgDeny(t, id)
         \/ Refused(t, id) \/ Called(t, id) \/ Answered(t, id) \/ CallFails(t, id)
         \/ Grant(t, id) \/ NotGranted(t, id) \/ RecordExecution(t, id)
         \/ Resolve(t, id)
  PROVE  IInv'
<1>1. CASE Snapshot(t, id)
  BY <1>1, SnapshotKeeps
<1>2. CASE RecordFails(t, id) \/ NotGranted(t, id)
  BY <1>2, StopsKeep
<1>3. CASE FileEnqueue(t, id)
  BY <1>3, FileEnqueueKeeps
<1>4. CASE PgEnqueue(t, id)
  BY <1>4, PgEnqueueKeeps
<1>5. CASE SetRationale(t, id)
  BY <1>5, SetRationaleKeeps
<1>6. CASE FileClaim(t, id) \/ PgClaim(t, id)
  BY <1>6, ClaimActionKeeps
<1>7. CASE FileDeny(t, id) \/ PgDeny(t, id)
  BY <1>7, DenyKeeps
<1>8. CASE Lapse(t, id)
  BY <1>8, LapseKeeps
<1>9. CASE Refused(t, id) \/ Answered(t, id) \/ CallFails(t, id) \/ RecordExecution(t, id)
  BY <1>9, EndKeeps
<1>10. CASE Called(t, id)
  BY <1>10, CalledKeeps
<1>11. CASE Grant(t, id)
  BY <1>11, GrantKeeps
<1>12. CASE Resolve(t, id)
  BY <1>12, ResolveKeeps
<1> QED
  BY <1>1, <1>2, <1>3, <1>4, <1>5, <1>6, <1>7, <1>8, <1>9, <1>10, <1>11, <1>12

LEMMA StepKeeps ==
  ASSUME IInv, [Next]_vars
  PROVE  IInv'
<1>1. CASE UNCHANGED vars
  BY <1>1, StutterKeeps
<1>2. CASE Restart
  BY <1>2, RestartKeeps
<1>3. ASSUME NEW t \in Thread,
             \/ Append(t) \/ AppendFails(t) \/ WorkerDies(t)
             \/ PgSweep(t) \/ FileReconcile(t) \/ PgReconcile(t) \/ ClearHistory(t)
             \/ \E ids \in SUBSET Id : FileSweep(t, ids)
      PROVE  IInv'
  <2>1. CASE Append(t)
    BY <2>1, AppendKeeps
  <2>2. CASE AppendFails(t)
    BY <2>2, AppendFailsKeeps
  <2>3. CASE WorkerDies(t)
    BY <2>3, StopsKeep
  <2>4. CASE PgSweep(t) \/ \E ids \in SUBSET Id : FileSweep(t, ids)
    BY <2>4, SweepKeeps
  <2>5. CASE FileReconcile(t) \/ PgReconcile(t)
    BY <2>5, ReconcileKeeps
  <2>6. CASE ClearHistory(t)
    BY <2>6, ClearHistoryKeeps
  <2> QED
    BY <1>3, <2>1, <2>2, <2>3, <2>4, <2>5, <2>6
<1>4. ASSUME NEW id \in Id, Lapses(id) \/ Ages(id)
      PROVE  IInv'
  BY <1>4, TimeKeeps
<1> QED
  BY <1>1, <1>2, <1>3, <1>4, ThreadKeeps DEF Next

\* Whatever threads, failed appends, dead workers and restarts do, a claimed record
\* has one claimant and its claim is kept before its call (_claim, _finish, _journal).
THEOREM Inductive == Spec => []IInv
<1>1. IInv /\ [Next]_vars => IInv'
  BY StepKeeps
<1> QED
  BY InitKeeps, <1>1, PTL DEF Spec

\* Every variable keeps its type, the rows of the PostgreSQL queue never going
\* through the journal.
THEOREM TypeCorrect == Spec => []TypeOK
<1>1. IInv => TypeOK
  BY DEF IInv
<1> QED
  BY Inductive, <1>1, PTL

\* One approval leads to one call or one artifact (approvals.py:21), except where a
\* restart reads an earlier line of the record than the last one appended.
THEOREM ActsOnce == Spec => []ActedOnce
<1>1. IInv => ActedOnce
  BY DEF IInv, Claimed, ActKept, ActedOnce
<1> QED
  BY Inductive, <1>1, PTL

----------------------------------------------------------------------------

(***************************************************************************)
(* How a record moves on in the life of a process: never back, an end stays *)
(* the end it is, and what was claimed is not denied or expired.            *)
(***************************************************************************)
Follows(b, a) ==
  /\ Rank(a) <= Rank(b)
  /\ Rank(a) = 4 => b.status = a.status
  /\ Rank(a) \in {2, 3} => b.status \notin {"denied", "expired"}

\* Only what is over is hidden from the history (clear_history, approvals.py:229).
Uncleared(a) == Rank(a) \in 1 .. 3 => ~a.cleared

(***************************************************************************)
(* The one exception: a row that reconcile_stale gave up while its call was *)
(* under way.                                                               *)
(***************************************************************************)
GivenUp(id) ==
  /\ backend = "pg" /\ SlowCalls /\ Has(id, "error")
  /\ \E t \in Thread : Claiming(job[t], id)

\* A claimed record is approved until its claimant moves it on, unless it was given
\* up: nothing else writes over a claim. reconcile_stale of the file queue runs
\* before any claim of its process, and that of the PostgreSQL queue looks at aged
\* claims only.
ClaimInv ==
  /\ \A t \in Thread, id \in Id : Claiming(job[t], id) =>
       /\ ~(fresh /\ backend = "file")
       /\ Has(id, "approved") \/ GivenUp(id)
       /\ backend = "pg" /\ ~SlowCalls => id \notin aged
  /\ backend = "file" => aged = {}
  /\ \A id \in aged : Rank(store[id]) >= 2

\* No record that still waits for something is hidden.
StoreInv == \A id \in Id : Uncleared(store[id])

\* A record that stays as it is moved nowhere.
LEMMA FollowsSelf ==
  ASSUME NEW a \in Approval \cup {None} PROVE Follows(a, a)
  BY RankOfRecord, NoneAssumption DEF Follows, Rank

\* Two moves forward are one.
LEMMA FollowsTrans ==
  ASSUME NEW a \in Approval \cup {None}, NEW b \in Approval \cup {None},
         NEW c \in Approval \cup {None}, Follows(c, b), Follows(b, a)
  PROVE Follows(c, a)
  BY NoneAssumption DEF Follows, Rank, Approval, Status, Terminal

\* Every transition the queues know is a move forward.
LEMMA FollowsIf ==
  ASSUME NEW a \in Approval \cup {None}, NEW b \in Approval,
         a # None => \/ a.status = "pending" \/ b.status = a.status
                     \/ a.status = "approved" /\ b.status \in {"granted", "executed", "error"}
                     \/ a.status = "granted" /\ b.status \in {"executed", "error"}
  PROVE Follows(b, a)
  BY NoneAssumption DEF Follows, Rank, Approval, Status, Terminal

\* What one step of a living process does to a record.
Grows(id) ==
  \/ Follows(store'[id], store[id])
  \/ GivenUp(id) /\ store'[id] # None /\ store'[id].status \in {"executed", "error"}

\* A record that ended, as _finish leaves it.
Ended(a, status, unknown) == [a EXCEPT !.status = status, !.unknown = unknown]

\* _finish sets the status and what is known of the end, and nothing else.
LEMMA EndIs ==
  ASSUME NEW a \in Approval, NEW status \in Status, NEW unknown \in BOOLEAN
  PROVE  LET b == Ended(a, status, unknown)
         IN  /\ b \in Approval /\ b.status = status /\ b.unknown = unknown
             /\ b.cleared = a.cleared
  BY DEF Ended, Approval

\* A transition sets the status and nothing else.
LEMMA MoveIs ==
  ASSUME NEW a \in Approval, NEW status \in Status
  PROVE  LET b == [a EXCEPT !.status = status]
         IN  b \in Approval /\ b.status = status /\ b.cleared = a.cleared
               /\ b.unknown = a.unknown
  BY DEF Approval

\* A transition of several records touches those records alone.
LEMMA MovedIs ==
  ASSUME TypeOK, NEW x \in Id, NEW ids, NEW status \in Status, x \in ids => store[x] # None
  PROVE  LET b == Moved(ids, status)[x]
         IN  IF x \in ids THEN b \in Approval /\ b.status = status
               /\ b.cleared = store[x].cleared /\ b.unknown = store[x].unknown
                          ELSE b = store[x]
<1>1. x \in ids => store[x] \in Approval
  BY DEF TypeOK
<1>2. Moved(ids, status)[x] = IF x \in ids THEN [store[x] EXCEPT !.status = status]
        ELSE store[x]
  BY DEF Moved
<1> QED
  BY <1>1, <1>2, MoveIs

\* reconcile_stale ends what was approved with an unknown outcome.
LEMMA StaleIs ==
  ASSUME TypeOK, NEW x \in Id, NEW ids, x \in ids => Has(x, "approved")
  PROVE  LET b == Stale(ids)[x]
         IN  IF x \in ids THEN b \in Approval /\ b.status = "error" /\ b.unknown
               /\ b.cleared = store[x].cleared
                          ELSE b = store[x]
<1>1. x \in ids => store[x] \in Approval
  BY DEF TypeOK, Has
<1>2. Stale(ids)[x] = IF x \in ids THEN Ended(store[x], "error", TRUE) ELSE store[x]
  BY DEF Stale, Ended
<1>3. CASE x \in ids
  <2> DEFINE c == Ended(store[x], "error", TRUE)
  <2>1. c \in Approval /\ c.status = "error" /\ c.unknown /\ c.cleared = store[x].cleared
    BY <1>1, <1>3, EndIs DEF Status, Terminal
  <2>2. Stale(ids)[x] = c
    BY <1>2, <1>3
  <2> HIDE DEF c
  <2> QED
    BY <1>3, <2>1, <2>2
<1> QED
  BY <1>2, <1>3

\* clear_history hides records that are over and owe nothing, and no others.
LEMMA ClearingIs ==
  ASSUME TypeOK, NEW x \in Id
  PROVE  LET b == Clearing[x]
         IN  IF x \in Cleared THEN b \in Approval /\ b.status = (IF Expired(x)
               THEN "expired" ELSE store[x].status) /\ ~store[x].unknown
               /\ b.status \in Terminal /\ b.unknown = store[x].unknown
             ELSE b = store[x]
<1>1. CASE x \in Cleared
  <2> DEFINE status == IF Expired(x) THEN "expired" ELSE store[x].status
  <2>1. store[x] \in Approval /\ status \in Terminal /\ status \in Status /\ ~store[x].unknown
    BY <1>1 DEF Cleared, TypeOK, Status, Terminal
  <2> DEFINE c == [store[x] EXCEPT !.cleared = TRUE, !.status = status]
  <2>2. Clearing[x] = [store[x] EXCEPT !.cleared = TRUE, !.status = IF Expired(x)
          THEN "expired" ELSE @]
    BY <1>1 DEF Clearing
  <2>3. Clearing[x] \in Approval /\ Clearing[x].status = status
          /\ Clearing[x].unknown = store[x].unknown
    BY <2>1, <2>2 DEF Approval
  <2> QED
    BY <1>1, <2>1, <2>3
<1>2. CASE x \notin Cleared
  BY <1>2 DEF Clearing
<1> QED
  BY <1>1, <1>2

\* How one step may leave a record: untouched, or moved along the queue's
\* transitions.
Goes(x) ==
  \/ store'[x] = store[x]
  \/ /\ store'[x] \in Approval /\ Uncleared(store'[x])
     /\ store[x] # None =>
           \/ store[x].status = "pending" \/ store'[x].status = store[x].status
           \/ store[x].status = "approved"
                /\ store'[x].status \in {"granted", "executed", "error"}
           \/ store[x].status = "granted" /\ store'[x].status \in {"executed", "error"}
           \/ GivenUp(x) /\ store'[x].status \in {"executed", "error"}

\* While a process lives, every record moves forward, but for one given up while its
\* call was under way, whose end _finish then writes over the error.
LEMMA GrowsStep ==
  ASSUME IInv, ClaimInv, StoreInv, [Next]_vars, ~Restart
  PROVE  StoreInv' /\ \A id \in Id : Grows(id)
<1>1. SUFFICES ASSUME NEW x \in Id PROVE Goes(x)
  <2>1. ASSUME NEW x \in Id, Goes(x) PROVE Uncleared(store'[x]) /\ Grows(x)
    <3>1. store[x] \in Approval \cup {None} /\ Uncleared(store[x])
      BY DEF IInv, TypeOK, StoreInv
    <3>2. CASE store'[x] = store[x]
      BY <3>1, <3>2, FollowsSelf DEF Grows
    <3>3. CASE store'[x] # store[x]
      BY <2>1, <3>1, <3>3, FollowsIf, RankOfRecord DEF Goes, Grows, GivenUp, Has
    <3> QED
      BY <3>2, <3>3
  <2> QED
    BY <2>1 DEF StoreInv
<1>2. TypeOK /\ store'[x] \in Approval \cup {None} /\ store[x] \in Approval \cup {None}
        /\ Uncleared(store[x])
  <2>1. IInv'
    BY StepKeeps
  <2> QED
    BY <2>1 DEF IInv, TypeOK, StoreInv
<1>3. ASSUME NEW a \in Approval PROVE Uncleared(a) <=> (a.status \in Terminal \/ ~a.cleared)
  BY NoneAssumption DEF Uncleared, Rank, Terminal, Approval, Status
<1> USE <1>2, <1>3, NoneAssumption DEF Goes, Has, Terminal, TypeOK
<1>4. CASE UNCHANGED vars BY <1>4 DEF vars
<1>5. ASSUME NEW t \in Thread,
            \/ Append(t) \/ AppendFails(t) \/ WorkerDies(t)
             \/ PgSweep(t) \/ FileReconcile(t) \/ PgReconcile(t) \/ ClearHistory(t)
             \/ \E ids \in SUBSET Id : FileSweep(t, ids)
  PROVE Goes(x)
  <2>1. CASE Append(t) \/ AppendFails(t) \/ WorkerDies(t)
    BY <2>1 DEF Append, AppendFails, WorkerDies
  <2>2. CASE PgSweep(t)
    BY <2>2, MovedIs DEF PgSweep, Write, Newly, Expired, Status
  <2>3. CASE \E ids \in SUBSET Id : FileSweep(t, ids)
    BY <2>3, MovedIs DEF FileSweep, Write, Newly, Expired, Status
  <2>4. CASE FileReconcile(t)
    BY <2>4, StaleIs DEF FileReconcile, Write
  <2>5. CASE PgReconcile(t)
    BY <2>5, StaleIs DEF PgReconcile, Write
  <2>6. CASE ClearHistory(t)
    BY <2>6, ClearingIs DEF ClearHistory, Write, Expired
  <2> QED
    BY <1>5, <2>1, <2>2, <2>3, <2>4, <2>5, <2>6
<1>6. ASSUME NEW t \in Thread, NEW id \in Id,
            \/ Snapshot(t, id) \/ RecordFails(t, id)
            \/ FileEnqueue(t, id) \/ PgEnqueue(t, id) \/ SetRationale(t, id)
            \/ FileClaim(t, id) \/ FileDeny(t, id) \/ Lapse(t, id)
            \/ PgClaim(t, id) \/ PgDeny(t, id)
            \/ Refused(t, id) \/ Called(t, id) \/ Answered(t, id) \/ CallFails(t, id)
            \/ Grant(t, id) \/ NotGranted(t, id) \/ RecordExecution(t, id)
            \/ Resolve(t, id)
  PROVE Goes(x)
  <2>1. CASE Snapshot(t, id) \/ RecordFails(t, id) \/ Called(t, id) \/ NotGranted(t, id)
    BY <2>1 DEF Snapshot, RecordFails, Called, NotGranted
  <2>2. CASE FileEnqueue(t, id)
    BY <2>2 DEF FileEnqueue, Write, New, Approval
  <2>3. CASE PgEnqueue(t, id)
    <3>1. store' = [Moved(Newly, "expired") EXCEPT ![id] = New] /\ New \in Approval
            /\ New.cleared = FALSE
      BY <2>3 DEF PgEnqueue, Write, New, Approval, Status
    <3>2. x # id => store'[x] = Moved(Newly, "expired")[x]
      BY <3>1 DEF Moved
    <3>3. x = id => store'[x] = New /\ store[x] = None
      BY <3>1, <2>3 DEF Moved, PgEnqueue
    <3> QED
      BY <3>1, <3>2, <3>3, MovedIs DEF Newly, Expired, Status
  <2>4. CASE SetRationale(t, id)
    BY <2>4 DEF SetRationale, Write
  <2>5. CASE FileClaim(t, id) \/ PgClaim(t, id)
    BY <2>5, MovedIs DEF FileClaim, PgClaim, Write, Open, Status
  <2>6. CASE FileDeny(t, id) \/ PgDeny(t, id)
    BY <2>6, MovedIs DEF FileDeny, PgDeny, Write, Open, Status
  <2>7. CASE Lapse(t, id)
    BY <2>7, MovedIs DEF Lapse, Expired, Status
  <2>8. CASE Refused(t, id) \/ Answered(t, id) \/ CallFails(t, id)
    <3>1. Claiming(job[t], id)
      BY <2>8 DEF Claiming, Refused, Answered, CallFails, At
    <3>2. Has(id, "approved") \/ GivenUp(id)
      BY <3>1 DEF ClaimInv
    <3>3. PICK status \in {"executed", "error"}, unknown \in BOOLEAN, then \in Then :
            Finish(t, id, status, unknown, then)
      BY <2>8 DEF Refused, Answered, CallFails, Then
    <3>4. store' = [store EXCEPT ![id] = Ended(@, status, unknown)]
      BY <3>3 DEF Finish, Write, Ended
    <3>5. store[id] \in Approval /\ status \in Status
      BY <3>2, <3>3 DEF Status, Terminal, GivenUp
    <3>6. /\ Ended(store[id], status, unknown) \in Approval
          /\ Ended(store[id], status, unknown).status = status
      BY <3>5, EndIs
    <3>7. store' = [store EXCEPT ![id] = Ended(store[id], status, unknown)]
      BY <3>4
    <3> QED
      BY <3>2, <3>6, <3>7 DEF GivenUp
  <2>9. CASE RecordExecution(t, id)
    <3>3. PICK status \in {"executed", "error"}, unknown \in BOOLEAN :
            Finish(t, id, status, unknown, "answer")
      BY <2>9 DEF RecordExecution
    <3>4. store' = [store EXCEPT ![id] = Ended(@, status, unknown)]
      BY <3>3 DEF Finish, Write, Ended
    <3>5. store[id] \in Approval /\ status \in Status
      BY <2>9, <3>3 DEF Status, Terminal, RecordExecution
    <3>6. /\ Ended(store[id], status, unknown) \in Approval
          /\ Ended(store[id], status, unknown).status = status
      BY <3>5, EndIs
    <3>7. store' = [store EXCEPT ![id] = Ended(store[id], status, unknown)]
      BY <3>4
    <3> QED
      BY <2>9, <3>6, <3>7 DEF GivenUp, RecordExecution
  <2>10. CASE Grant(t, id)
    BY <2>10, MovedIs DEF Grant, Write, Status
  <2>11. CASE Resolve(t, id)
    BY <2>11 DEF Resolve, Write, Approval
  <2> QED
    BY <1>6, <2>1, <2>2, <2>3, <2>4, <2>5, <2>6, <2>7, <2>8, <2>9, <2>10, <2>11
<1>7. ASSUME NEW id \in Id, Lapses(id) \/ Ages(id) PROVE Goes(x)
  BY <1>7 DEF Lapses, Ages
<1> QED
  BY <1>4, <1>5, <1>6, <1>7 DEF Next

(***************************************************************************)
(* What a write does to the jobs and to what was said.                      *)
(***************************************************************************)
Wrote(t, ids, then) ==
  /\ \A u \in Thread : u # t => job'[u] = job[u]
  /\ \A x \in Id : Claiming(job'[t], x) => x \in ids /\ then \in {"call", "build"}
  /\ job'[t].at # "append"
  /\ job'[t].at = "snapshot" => job'[t].ids = ids /\ job'[t].then = then
  /\ fresh' = FALSE
  /\ backend = "file" => said' = said
  /\ \A x \in Id : \/ said'[x] = said[x]
                   \/ /\ backend = "pg" /\ x \in ids /\ then \in {"answer", "filled"}
                      /\ said'[x] = store'[x].status
  /\ UNCHANGED <<config, disk, clock>>

\* A write of either queue does just that.
LEMMA WriteIs ==
  ASSUME TypeOK, NEW t \in Thread, NEW s, NEW ids \in SUBSET Id, NEW then \in Then,
         Write(t, s, ids, then), UNCHANGED <<config, disk, clock>>
  PROVE  Wrote(t, ids, then)
<1> USE DEF TypeOK
<1>1. CASE backend = "pg"
  <2> DEFINE j == IF then \in {"call", "build"}
                  THEN [Idle EXCEPT !.at = then, !.ids = ids] ELSE Idle
  <2>1. /\ job' = [job EXCEPT ![t] = j] /\ fresh' = FALSE /\ store' = s
        /\ said' = [x \in Id |-> IF x \in ids /\ then \in {"answer", "filled"}
                                 THEN s[x].status ELSE said[x]]
    BY <1>1 DEF Write, Proceed
  <2>2. /\ j.at \notin {"append", "snapshot"}
        /\ \A x \in Id : Claiming(j, x) => x \in ids /\ then \in {"call", "build"}
    BY DEF Idle, Claiming, Then
  <2> HIDE DEF j
  <2> QED
    BY <1>1, <2>1, <2>2 DEF Wrote
<1>2. CASE backend = "file"
  BY <1>2 DEF Write, Wrote, Claiming
<1> QED
  BY <1>1, <1>2

\* An operation that is over holds no claim.
LEMMA StopIs ==
  ASSUME TypeOK, NEW t \in Thread, job' = [job EXCEPT ![t] = Idle]
  PROVE  /\ \A u \in Thread : u # t => job'[u] = job[u]
         /\ job'[t].at = "idle" /\ \A x \in Id : ~Claiming(job'[t], x)
  BY DEF Idle, Claiming, TypeOK

\* _journal's snapshot is of the record as it is now, and changes nothing else.
LEMMA SnapshotIs ==
  ASSUME IInv, NEW t \in Thread, NEW id \in Id, Snapshot(t, id)
  PROVE  /\ \A u \in Thread : u # t => job'[u] = job[u]
         /\ \A x \in Id : Claiming(job'[t], x) => Claiming(job[t], x)
         /\ store[id] \in Approval /\ id \in job[t].ids /\ job[t].at = "snapshot"
         /\ job'[t].at = "append" /\ job'[t].line.id = id /\ job'[t].line.a = store[id]
         /\ job'[t].ids = job[t].ids /\ job'[t].then = job[t].then
<1> DEFINE line == [id |-> id, a |-> store[id]]
           j == [job[t] EXCEPT !.at = "append", !.line = line]
<1>1. store[id] \in Approval
  BY DEF IInv, Held, TypeOK, Snapshot
<1>2. /\ job[t] \in Job /\ job[t].at = "snapshot" /\ id \in job[t].ids
      /\ job' = [job EXCEPT ![t] = j]
  BY DEF IInv, TypeOK, Snapshot
<1>3. line.id = id /\ line.a = store[id]
  OBVIOUS
<1> HIDE DEF line
<1>4. /\ j.at = "append" /\ j.ids = job[t].ids /\ j.then = job[t].then /\ j.line = line
  BY <1>2 DEF Job
<1> HIDE DEF j
<1>5. job'[t] = j /\ \A u \in Thread : u # t => job'[u] = job[u]
  BY <1>2 DEF IInv, TypeOK
<1> QED
  BY <1>1, <1>2, <1>3, <1>4, <1>5 DEF Claiming

\* An appended line is the last readable one of its own record, or is torn; no other
\* record's line changes, and only its operation goes on.
LEMMA AppendIs ==
  ASSUME IInv, NEW t \in Thread, Append(t)
  PROVE  LET id == job[t].line.id
             a  == job[t].line.a
         IN  /\ id \in Id /\ a \in Approval /\ id \in job[t].ids /\ job[t].at = "append"
             /\ \A u \in Thread : u # t => job'[u] = job[u]
             /\ \A x \in Id : Claiming(job'[t], x) => Claiming(job[t], x)
             /\ job'[t].at # "append"
             /\ job'[t].at = "snapshot" => /\ job'[t].then = job[t].then
                                           /\ job'[t].ids \subseteq job[t].ids
             /\ \A x \in Id : \/ said'[x] = said[x]
                              \/ x = id /\ said'[x] = a.status
             /\ \A x \in Id : \/ file'[x] = file[x]
                              \/ x = id /\ file'[x] = a
             /\ \A x \in Id : filed'[x] >= filed[x] /\ (filed'[x] > filed[x] => x = id
                  /\ filed'[x] = Rank(a))
             /\ filed'[id] >= Rank(a)
             /\ UNCHANGED <<config, store, lost, clock, fresh, history>>
<1> DEFINE id == job[t].line.id
           a  == job[t].line.a
<1>1. /\ job[t] \in Job /\ job[t].at = "append" /\ job[t].line # None
      /\ id \in Id /\ a \in Approval /\ id \in job[t].ids /\ job[t].ids \subseteq Id
  BY DEF IInv, Held, TypeOK, Append, Job
<1>2. /\ file' = IF torn THEN file ELSE [file EXCEPT ![id] = a]
      /\ filed' = IF Rank(a) > filed[id] THEN [filed EXCEPT ![id] = Rank(a)] ELSE filed
      /\ IF job[t].ids = {id}
         THEN Proceed(t, {id}, job[t].then, [x \in {id} |-> a])
         ELSE /\ job' = [job EXCEPT ![t].at = "snapshot", ![t].ids = @ \ {id},
                                    ![t].line = None]
              /\ UNCHANGED said
      /\ UNCHANGED <<config, store, lost, clock, fresh, history>>
  BY DEF Append
<1> HIDE DEF id, a
<1>31. Rank(a) \in 0 .. 4
  BY <1>1, RankType
<1>32. \A x \in Id : file'[x] = file[x] \/ (x = id /\ file'[x] = a)
  <2>1. file' = file \/ file' = [file EXCEPT ![id] = a]
    BY <1>2
  <2>2. file \in [Id -> Approval \cup {None}]
    BY DEF IInv, TypeOK
  <2>3. SUFFICES ASSUME NEW x \in Id PROVE file'[x] = file[x] \/ (x = id /\ file'[x] = a)
    OBVIOUS
  <2>4. CASE file' = [file EXCEPT ![id] = a]
    <3>1. file'[x] = IF x = id THEN a ELSE file[x]
      BY <2>2, <2>4, Zenon
    <3> QED
      BY <3>1
  <2> QED
    BY <2>1, <2>4, Zenon
<1>33. /\ filed'[id] >= Rank(a)
       /\ \A x \in Id : filed'[x] >= filed[x] /\ (filed'[x] > filed[x] => x = id
            /\ filed'[x] = Rank(a))
  BY <1>1, <1>2, <1>31 DEF IInv, TypeOK
<1>3. /\ filed'[id] >= Rank(a)
      /\ \A x \in Id : filed'[x] >= filed[x] /\ (filed'[x] > filed[x] => x = id
           /\ filed'[x] = Rank(a))
      /\ \A x \in Id : file'[x] = file[x] \/ (x = id /\ file'[x] = a)
  BY <1>32, <1>33
<1>4. CASE job[t].ids = {id}
  <2> DEFINE then == job[t].then
             j == IF then \in {"call", "build"}
                  THEN [Idle EXCEPT !.at = then, !.ids = {id}] ELSE Idle
  <2>1. /\ job' = [job EXCEPT ![t] = j]
        /\ said' = [x \in Id |-> IF x \in {id} /\ then \in {"answer", "filled"}
                                 THEN [y \in {id} |-> a][x].status ELSE said[x]]
    BY <1>2, <1>4 DEF Proceed
  <2>2. /\ j.at \notin {"append", "snapshot"}
        /\ \A x \in Id : Claiming(j, x) => Claiming(job[t], x)
    BY <1>1, <1>4 DEF Idle, Claiming
  <2> HIDE DEF j
  <2>3. job'[t] = j /\ \A u \in Thread : u # t => job'[u] = job[u]
    BY <2>1 DEF IInv, TypeOK
  <2>4. \A x \in Id : said'[x] = said[x] \/ (x = id /\ said'[x] = a.status)
    BY <2>1
  <2> QED
    BY <1>1, <1>2, <1>3, <2>2, <2>3, <2>4 DEF id, a
<1>5. CASE job[t].ids # {id}
  <2> DEFINE j == [job[t] EXCEPT !.at = "snapshot", !.ids = job[t].ids \ {id}, !.line = None]
  <2>1. job' = [job EXCEPT ![t] = j] /\ said' = said
    BY <1>2, <1>5 DEF IInv, TypeOK
  <2>2. /\ j.at = "snapshot" /\ j.ids = job[t].ids \ {id} /\ j.then = job[t].then
    BY <1>1 DEF Job
  <2> HIDE DEF j
  <2>3. job'[t] = j /\ \A u \in Thread : u # t => job'[u] = job[u]
    BY <2>1 DEF IInv, TypeOK
  <2>4. \A x \in Id : Claiming(j, x) => Claiming(job[t], x)
    BY <1>1, <2>2 DEF Claiming
  <2> QED
    BY <1>1, <1>2, <1>3, <2>1, <2>2, <2>3, <2>4 DEF id, a
<1> QED
  BY <1>4, <1>5

(***************************************************************************)
(* The operations that write, and for whom.                                 *)
(***************************************************************************)
Ends(t, id) == Refused(t, id) \/ Answered(t, id) \/ CallFails(t, id)

\* How a call ended is recorded by its claimant, for its record alone.
LEMMA EndsIs ==
  ASSUME IInv, NEW t \in Thread, NEW id \in Id, Ends(t, id)
  PROVE  /\ Wrote(t, {id}, IF Answered(t, id) THEN "filled" ELSE "answer")
         /\ Claiming(job[t], id) /\ store'[id] \in Approval
         /\ store'[id].status = IF Answered(t, id) THEN "executed" ELSE "error"
         /\ CallFails(t, id) => store'[id].unknown
         /\ store'[id].cleared = store[id].cleared
         /\ \A x \in Id : x # id => store'[x] = store[x]
<1>1. Claiming(job[t], id) /\ job[t].ids = {id}
  BY DEF Ends, Claiming, Refused, Answered, CallFails, At
<1>2. TypeOK /\ store[id] \in Approval
  BY <1>1 DEF IInv, Held, TypeOK
<1>3. ASSUME NEW status \in {"executed", "error"}, NEW unknown \in BOOLEAN, NEW then \in Then,
             Finish(t, id, status, unknown, then), UNCHANGED <<config, disk, clock>>
      PROVE  /\ Wrote(t, {id}, then) /\ store'[id] \in Approval
             /\ store'[id].status = status /\ store'[id].unknown = unknown
             /\ store'[id].cleared = store[id].cleared
             /\ \A x \in Id : x # id => store'[x] = store[x]
  <2> DEFINE s == [store EXCEPT ![id] = Ended(@, status, unknown)]
  <2>1. Write(t, s, {id}, then)
    BY <1>3 DEF Finish, Ended
  <2>2. store' = s
    BY <2>1 DEF Write
  <2>3. Ended(store[id], status, unknown) \in Approval
        /\ Ended(store[id], status, unknown).status = status
        /\ Ended(store[id], status, unknown).unknown = unknown
        /\ Ended(store[id], status, unknown).cleared = store[id].cleared
    BY <1>2, EndIs DEF Status, Terminal
  <2>4. store'[id] = Ended(store[id], status, unknown) /\ \A x \in Id : x # id
          => store'[x] = store[x]
    BY <1>2, <2>2 DEF TypeOK
  <2>5. Wrote(t, {id}, then)
    <3>1. {id} \in SUBSET Id
      OBVIOUS
    <3> HIDE DEF s
    <3> QED
      BY <1>2, <1>3, <2>1, <3>1, WriteIs
  <2> QED
    BY <2>3, <2>4, <2>5
<1>4. CASE Answered(t, id)
  <2>1. Finish(t, id, "executed", FALSE, "filled") /\ UNCHANGED <<config, disk, clock>>
    BY <1>4 DEF Answered
  <2>2. ~CallFails(t, id)
    BY <1>4, <2>1, <1>3 DEF CallFails, Then
  <2> QED
    BY <1>1, <1>3, <1>4, <2>1, <2>2 DEF Then
<1>5. CASE ~Answered(t, id) /\ CallFails(t, id)
  <2>1. Finish(t, id, "error", TRUE, "answer") /\ UNCHANGED <<config, disk, clock>>
    BY <1>5 DEF CallFails
  <2> QED
    BY <1>1, <1>3, <1>5, <2>1 DEF Then
<1>6. CASE ~Answered(t, id) /\ ~CallFails(t, id)
  <2>1. Finish(t, id, "error", FALSE, "answer") /\ UNCHANGED <<config, disk, clock>>
    BY <1>6 DEF Refused, Ends
  <2> QED
    BY <1>1, <1>3, <1>6, <2>1 DEF Then
<1> QED
  BY <1>4, <1>5, <1>6

\* The operations that answer nobody.
LEMMA QuietIs ==
  ASSUME IInv, NEW t \in Thread,
         \/ PgSweep(t) \/ FileReconcile(t) \/ PgReconcile(t) \/ ClearHistory(t)
         \/ \E ids \in SUBSET Id : FileSweep(t, ids)
         \/ \E id \in Id : SetRationale(t, id) \/ Resolve(t, id)
  PROVE  \E ids \in SUBSET Id : Wrote(t, ids, "nothing")
<1>1. TypeOK /\ "nothing" \in Then
  BY DEF IInv, Then
<1>2. \E s, ids : ids \in SUBSET Id /\ Write(t, s, ids, "nothing")
        /\ UNCHANGED <<config, disk, clock>>
  <2>1. CASE PgSweep(t)
    BY <2>1 DEF PgSweep
  <2>2. CASE FileReconcile(t)
    <3>1. {x \in Id : Has(x, "approved")} \in SUBSET Id
      OBVIOUS
    <3> QED
      BY <2>2, <3>1 DEF FileReconcile
  <2>3. CASE PgReconcile(t)
    BY <2>3 DEF PgReconcile
  <2>4. CASE ClearHistory(t)
    <3>1. (IF backend = "file" THEN Cleared ELSE {}) \in SUBSET Id
      BY DEF Cleared
    <3> QED
      BY <2>4, <3>1 DEF ClearHistory
  <2>5. CASE \E ids \in SUBSET Id : FileSweep(t, ids)
    BY <2>5 DEF FileSweep
  <2>6. ASSUME NEW id \in Id, SetRationale(t, id) \/ Resolve(t, id)
        PROVE \E s, ids : ids \in SUBSET Id /\ Write(t, s, ids, "nothing")
                /\ UNCHANGED <<config, disk, clock>>
    <3>1. {id} \in SUBSET Id
      OBVIOUS
    <3> QED
      BY <2>6, <3>1 DEF SetRationale, Resolve
  <2> QED
    BY <2>1, <2>2, <2>3, <2>4, <2>5, <2>6
<1> QED
  BY <1>1, <1>2, WriteIs

\* The operations that answer who asked, once what they wrote is kept.
LEMMA AnswersIs ==
  ASSUME IInv, NEW t \in Thread, NEW id \in Id,
         \/ FileEnqueue(t, id) \/ PgEnqueue(t, id) \/ FileDeny(t, id) \/ PgDeny(t, id)
         \/ Grant(t, id) \/ RecordExecution(t, id)
  PROVE  /\ Wrote(t, {id}, "answer") /\ store'[id] \in Approval
         /\ store'[id].status = "error" => Has(id, "granted")
<1>1. TypeOK /\ "answer" \in Then /\ {id} \in SUBSET Id
  BY DEF IInv, Then
<1>2. \E s : Write(t, s, {id}, "answer") /\ UNCHANGED <<config, disk, clock>>
  BY DEF FileEnqueue, PgEnqueue, FileDeny, PgDeny, Grant, RecordExecution, Finish
<1>3. Wrote(t, {id}, "answer")
  BY <1>1, <1>2, WriteIs
<1>4. CASE FileEnqueue(t, id)
  BY <1>1, <1>3, <1>4 DEF FileEnqueue, Write, New, Approval, Status, TypeOK
<1>5. CASE PgEnqueue(t, id)
  <2>1. store' = [Moved(Newly, "expired") EXCEPT ![id] = New]
    BY <1>5 DEF PgEnqueue, Write
  <2>2. store'[id] = New
    BY <2>1 DEF Moved
  <2> QED
    BY <1>3, <2>2 DEF New, Approval, Status
<1>6. CASE FileDeny(t, id) \/ PgDeny(t, id)
  BY <1>1, <1>3, <1>6, MovedIs DEF FileDeny, PgDeny, Open, Has, Write, Status, Terminal
<1>7. CASE Grant(t, id)
  BY <1>1, <1>3, <1>7, MovedIs DEF Grant, Has, Write, Status
<1>8. CASE RecordExecution(t, id)
  <2>1. PICK status \in {"executed", "error"}, unknown \in BOOLEAN :
          Finish(t, id, status, unknown, "answer")
    BY <1>8 DEF RecordExecution
  <2>2. store' = [store EXCEPT ![id] = Ended(@, status, unknown)]
    BY <2>1 DEF Finish, Write, Ended
  <2>3. store[id] \in Approval /\ status \in Status /\ Has(id, "granted")
    BY <1>1, <1>8 DEF RecordExecution, Has, TypeOK, Status, Terminal
  <2>4. Ended(store[id], status, unknown) \in Approval
    BY <2>3, EndIs
  <2>5. store'[id] = Ended(store[id], status, unknown)
    BY <1>1, <2>2 DEF TypeOK
  <2> QED
    BY <1>3, <2>3, <2>4, <2>5
<1> QED
  BY <1>4, <1>5, <1>6, <1>7, <1>8

\* A claim takes a pending record, and no other record changes.
LEMMA ClaimIs ==
  ASSUME IInv, NEW t \in Thread, NEW id \in Id, FileClaim(t, id) \/ PgClaim(t, id)
  PROVE  /\ \E then \in {"call", "build"} : Wrote(t, {id}, then)
         /\ Has(id, "pending") /\ store'[id] # None /\ store'[id].status = "approved"
         /\ \A x \in Id : x # id => store'[x] = store[x]
<1>1. TypeOK /\ {"call", "build"} \subseteq Then /\ {id} \in SUBSET Id
  BY DEF IInv, Then
<1>2. PICK then \in {"call", "build"} : Write(t, Moved({id}, "approved"), {id}, then)
             /\ UNCHANGED <<config, disk, clock>>
  BY DEF FileClaim, PgClaim
<1>3. Wrote(t, {id}, then)
  BY <1>1, <1>2, WriteIs
<1>4. Has(id, "pending")
  BY DEF FileClaim, PgClaim, Open
<1>5. store' = Moved({id}, "approved")
  BY <1>2 DEF Write
<1> QED
  BY <1>1, <1>3, <1>4, <1>5, MovedIs, RankOfRecord DEF Status, Has

\* What stays true of a record u claims: it was claimed just now, or stays as it is
\* but for the reconciliation of a call that outlasted its ten minutes.
Keeps(u, x) ==
  \/ Has(x, "pending") /\ store'[x] # None /\ store'[x].status = "approved"
       /\ fresh' = FALSE /\ aged' = aged
  \/ /\ Claiming(job[u], x) /\ (fresh' => fresh) /\ backend' = backend
     /\ store'[x] # None
     /\ \/ store'[x].status = store[x].status
        \/ backend = "pg" /\ SlowCalls /\ store'[x].status = "error"
     /\ backend = "pg" /\ ~SlowCalls /\ x \in aged' => x \in aged

\* Nobody but its claimant ends a claimed record.
LEMMA ClaimGoes ==
  ASSUME IInv, ClaimInv, [Next]_vars, ~Restart, NEW u \in Thread, NEW x \in Id,
         Claiming(job'[u], x)
  PROVE  Keeps(u, x)
<1>1. TypeOK /\ job'[u].at # "idle" /\ x \in job'[u].ids
  BY DEF Claiming, IInv
<1>2. ASSUME Claiming(job[u], x)
      PROVE  /\ store[x] # None /\ store[x].status \in {"approved", "error"}
             /\ store[x].status = "error" => GivenUp(x)
             /\ \A t \in Thread : Claiming(job[t], x) => t = u
  BY <1>2 DEF ClaimInv, GivenUp, Has, IInv, Claimed, OneClaimant
<1>3. ASSUME NEW t \in Thread, NEW ids \in SUBSET Id, NEW then \in Then, Wrote(t, ids, then),
             then \notin {"call", "build"}
      PROVE  Claiming(job[u], x) /\ fresh' = FALSE /\ UNCHANGED <<backend, aged>> /\ u # t
  BY <1>3 DEF Wrote, config, clock
<1>4. CASE UNCHANGED vars
  BY <1>2, <1>4 DEF vars, config, clock, Keeps
<1>5. ASSUME NEW t \in Thread,
            \/ Append(t) \/ AppendFails(t) \/ WorkerDies(t)
            \/ PgSweep(t) \/ FileReconcile(t) \/ PgReconcile(t) \/ ClearHistory(t)
            \/ \E ids \in SUBSET Id : FileSweep(t, ids)
      PROVE Keeps(u, x)
  <2>1. CASE Append(t)
    BY <1>2, <2>1, AppendIs DEF config, clock, Keeps
  <2>2. CASE AppendFails(t) \/ WorkerDies(t)
    <3>1. job' = [job EXCEPT ![t] = Idle] /\ UNCHANGED <<config, store, clock, fresh>>
      <4>1. CASE AppendFails(t) /\ job[t].then = "filled"
        <5>1. Proceed(t, job[t].ids, "filled", [y \in job[t].ids |-> job[t].line.a])
          BY <4>1 DEF AppendFails
        <5> QED
          BY <4>1, <5>1 DEF AppendFails, Proceed
      <4>2. CASE AppendFails(t) /\ job[t].then # "filled"
        BY <4>2 DEF AppendFails
      <4> QED
        BY <2>2, <4>1, <4>2 DEF WorkerDies
    <3> QED
      BY <1>1, <1>2, <3>1, StopIs DEF config, clock, Keeps
  <2>3. CASE \/ PgSweep(t) \/ FileReconcile(t) \/ PgReconcile(t) \/ ClearHistory(t)
             \/ \E ids \in SUBSET Id : FileSweep(t, ids)
    <3>1. Claiming(job[u], x) /\ fresh' = FALSE /\ UNCHANGED <<backend, aged>>
      BY <1>3, <2>3, QuietIs DEF Then
    <3>2. CASE PgSweep(t) \/ \E ids \in SUBSET Id : FileSweep(t, ids)
      <4>1. PICK ids \in SUBSET Newly : store' = Moved(ids, "expired")
        BY <3>2 DEF PgSweep, FileSweep, Write
      <4>2. x \notin ids
        BY <1>2, <3>1, <4>1 DEF Newly, Expired, Has
      <4> QED
        BY <1>1, <1>2, <3>1, <4>1, <4>2, MovedIs DEF Keeps, Status, Terminal
    <3>3. CASE FileReconcile(t)
      BY <3>1, <3>3 DEF FileReconcile, ClaimInv
    <3>4. CASE PgReconcile(t)
      <4>1. store' = Stale({id \in aged : Has(id, "approved")})
        BY <3>4 DEF PgReconcile, Write
      <4>2. backend = "pg" /\ (x \in aged => SlowCalls)
        BY <3>1, <3>4 DEF PgReconcile, ClaimInv
      <4> QED
        BY <1>1, <1>2, <3>1, <4>1, <4>2, StaleIs, RankOfRecord DEF Keeps
    <3>5. CASE ClearHistory(t)
      <4>1. store' = Clearing
        BY <3>5 DEF ClearHistory, Write
      <4>2. ~Expired(x)
        BY <1>2, <3>1 DEF Expired, Has
      <4> QED
        BY <1>1, <1>2, <3>1, <4>1, <4>2, ClearingIs, RankOfRecord DEF Keeps
    <3> QED
      BY <2>3, <3>2, <3>3, <3>4, <3>5
  <2> QED
    BY <1>5, <2>1, <2>2, <2>3
<1>6. ASSUME NEW t \in Thread, NEW id \in Id,
            \/ Snapshot(t, id) \/ RecordFails(t, id)
            \/ FileEnqueue(t, id) \/ PgEnqueue(t, id) \/ SetRationale(t, id)
            \/ FileClaim(t, id) \/ FileDeny(t, id) \/ Lapse(t, id)
            \/ PgClaim(t, id) \/ PgDeny(t, id)
            \/ Refused(t, id) \/ Called(t, id) \/ Answered(t, id) \/ CallFails(t, id)
            \/ Grant(t, id) \/ NotGranted(t, id) \/ RecordExecution(t, id)
            \/ Resolve(t, id)
      PROVE Keeps(u, x)
  <2>1. CASE Snapshot(t, id)
    BY <1>2, <2>1, SnapshotIs DEF Snapshot, config, clock, Keeps
  <2>2. CASE RecordFails(t, id) \/ NotGranted(t, id)
    <3>1. job' = [job EXCEPT ![t] = Idle] /\ UNCHANGED <<config, store, clock, fresh>>
      BY <2>2 DEF RecordFails, NotGranted
    <3> QED
      BY <1>1, <1>2, <3>1, StopIs DEF config, clock, Keeps
  <2>3. CASE FileEnqueue(t, id) \/ PgEnqueue(t, id) \/ FileDeny(t, id) \/ PgDeny(t, id)
             \/ Grant(t, id) \/ RecordExecution(t, id)
    <3>1. Claiming(job[u], x) /\ fresh' = FALSE /\ UNCHANGED <<backend, aged>> /\ u # t
      BY <1>3, <2>3, AnswersIs DEF Then
    <3>2. x # id
      <4>1. Grant(t, id) => Claiming(job[t], id)
        BY DEF Grant, At, Claiming
      <4> QED
        BY <1>2, <2>3, <3>1, <4>1
           DEF FileEnqueue, PgEnqueue, FileDeny, PgDeny, RecordExecution, Has, Open
    <3>3. store'[x] = store[x]
      <4>1. CASE PgEnqueue(t, id)
        <5>1. store' = [Moved(Newly, "expired") EXCEPT ![id] = New]
          BY <4>1 DEF PgEnqueue, Write
        <5>2. store'[x] = Moved(Newly, "expired")[x]
          BY <3>2, <5>1 DEF Moved
        <5>3. x \notin Newly
          BY <1>2, <3>1 DEF Newly, Expired, Has
        <5> QED
          BY <1>1, <5>2, <5>3, MovedIs DEF Status, Terminal
      <4>2. CASE FileEnqueue(t, id)
        BY <1>1, <3>2, <4>2 DEF FileEnqueue, Write, TypeOK
      <4>3. CASE RecordExecution(t, id)
        BY <1>1, <3>2, <4>3 DEF RecordExecution, Finish, Write, TypeOK
      <4>4. CASE FileDeny(t, id) \/ PgDeny(t, id) \/ Grant(t, id)
        BY <3>2, <4>4 DEF FileDeny, PgDeny, Grant, Write, Moved
      <4> QED
        BY <2>3, <4>1, <4>2, <4>3, <4>4
    <3> QED
      BY <1>2, <3>1, <3>3 DEF Keeps
  <2>4. CASE SetRationale(t, id) \/ Resolve(t, id)
    <3>1. Claiming(job[u], x) /\ fresh' = FALSE /\ UNCHANGED <<backend, aged>>
      BY <1>3, <2>4, QuietIs DEF Then
    <3>2. store'[x] # None /\ store'[x].status = store[x].status
      <4>1. CASE SetRationale(t, id)
        BY <1>2, <3>1, <4>1 DEF SetRationale, Write
      <4>2. CASE Resolve(t, id)
        <5>1. store' = [store EXCEPT ![id].unknown = FALSE] /\ store[x] \in Approval
          BY <1>1, <1>2, <3>1, <4>2 DEF Resolve, Write, TypeOK
        <5>2. [store[x] EXCEPT !.unknown = FALSE] \in Approval
              /\ [store[x] EXCEPT !.unknown = FALSE].status = store[x].status
          BY <5>1 DEF Approval
        <5> QED
          BY <1>1, <1>2, <3>1, <5>1, <5>2, RankOfRecord DEF TypeOK
      <4> QED
        BY <2>4, <4>1, <4>2
    <3> QED
      BY <3>1, <3>2 DEF Keeps
  <2>5. CASE FileClaim(t, id) \/ PgClaim(t, id)
    <3>1. PICK then \in {"call", "build"} : Wrote(t, {id}, then)
      BY <2>5, ClaimIs
    <3>2. CASE u = t
      <4>1. x = id /\ fresh' = FALSE /\ aged' = aged
        BY <3>1, <3>2 DEF Wrote, clock
      <4> QED
        BY <2>5, <4>1, ClaimIs DEF Keeps
    <3>3. CASE u # t
      <4>1. Claiming(job[u], x) /\ fresh' = FALSE /\ UNCHANGED <<backend, aged>>
        BY <3>1, <3>3 DEF Wrote, config, clock
      <4> QED
        BY <1>2, <2>5, <4>1, ClaimIs DEF Keeps, Has
    <3> QED
      BY <3>2, <3>3
  <2>6. CASE Lapse(t, id)
    <3>1. Claiming(job[u], x) /\ fresh' = FALSE /\ UNCHANGED <<backend, aged>>
            /\ store' = Moved({id}, "expired")
      BY <2>6 DEF Lapse, config, clock
    <3>2. x # id
      BY <1>2, <2>6, <3>1 DEF Lapse, Expired, Has
    <3> QED
      BY <1>1, <1>2, <3>1, <3>2, MovedIs DEF Keeps, Status, Terminal
  <2>7. CASE Ends(t, id)
    <3>1. PICK then \in {"filled", "answer"} : Wrote(t, {id}, then)
      BY <2>7, EndsIs
    <3>2. Claiming(job[u], x) /\ fresh' = FALSE /\ UNCHANGED <<backend, aged>> /\ u # t
      BY <1>3, <3>1 DEF Then
    <3> QED
      BY <1>2, <2>7, <3>2, EndsIs DEF Keeps
  <2>8. CASE Called(t, id)
    BY <1>2, <2>8 DEF Called, At, config, clock, Keeps, Claiming
  <2> QED
    BY <1>6, <2>1, <2>2, <2>3, <2>4, <2>5, <2>6, <2>7, <2>8 DEF Ends
<1>7. ASSUME NEW id \in Id, Lapses(id) \/ Ages(id) PROVE Keeps(u, x)
  BY <1>1, <1>2, <1>7 DEF Lapses, Ages, config, Keeps
<1> QED
  BY <1>4, <1>5, <1>6, <1>7 DEF Next

\* What no step of a living process changes, and the one way a claim grows old.
Frame ==
  /\ UNCHANGED <<config, lost>>
  /\ \/ aged' = aged
     \/ \E id \in Id : backend = "pg" /\ Has(id, "approved") /\ aged' = aged \cup {id}
          /\ store' = store

\* No step of a living process loses a line or changes the queue.
LEMMA FrameIs ==
  ASSUME [Next]_vars, ~Restart
  PROVE  /\ UNCHANGED <<backend, lost>>
         /\ \/ aged' = aged
            \/ \E id \in Id : backend = "pg" /\ Has(id, "approved")
                 /\ aged' = aged \cup {id} /\ store' = store
<1> SUFFICES Frame
  BY DEF Frame, config
<1>1. CASE UNCHANGED vars
  BY <1>1 DEF vars, clock, disk, Frame
<1>2. ASSUME NEW t \in Thread PROVE Append(t) => Frame
  BY <1>2 DEF Append, clock, Frame
<1>3. ASSUME NEW t \in Thread PROVE AppendFails(t) => Frame
  BY <1>3 DEF AppendFails, clock, Frame
<1>4. ASSUME NEW t \in Thread
      PROVE (WorkerDies(t) \/ PgSweep(t) \/ FileReconcile(t) \/ PgReconcile(t)
              \/ ClearHistory(t)) => Frame
  BY <1>4 DEF WorkerDies, PgSweep, FileReconcile, PgReconcile, ClearHistory, clock, disk,
         Frame
<1>5. ASSUME NEW t \in Thread, NEW ids \in SUBSET Id PROVE FileSweep(t, ids) => Frame
  BY <1>5 DEF FileSweep, clock, disk, Frame
<1>6. ASSUME NEW t \in Thread, NEW id \in Id
      PROVE (\/ Snapshot(t, id) \/ RecordFails(t, id)
             \/ FileEnqueue(t, id) \/ PgEnqueue(t, id) \/ SetRationale(t, id)
             \/ FileClaim(t, id) \/ FileDeny(t, id) \/ Lapse(t, id)
             \/ PgClaim(t, id) \/ PgDeny(t, id)) => Frame
  BY <1>6 DEF Snapshot, RecordFails, FileEnqueue, PgEnqueue, SetRationale, FileClaim,
         FileDeny, Lapse, PgClaim, PgDeny, clock, disk, Frame
<1>7. ASSUME NEW t \in Thread, NEW id \in Id
      PROVE (\/ Refused(t, id) \/ Called(t, id) \/ Answered(t, id) \/ CallFails(t, id)
             \/ Grant(t, id) \/ NotGranted(t, id) \/ RecordExecution(t, id)
             \/ Resolve(t, id)) => Frame
  BY <1>7 DEF Refused, Called, Answered, CallFails, Grant, NotGranted, RecordExecution,
         Resolve, clock, disk, Frame
<1>8. ASSUME NEW id \in Id PROVE (Lapses(id) \/ Ages(id)) => Frame
  BY <1>8 DEF Lapses, Ages, disk, Frame
<1> QED
  BY <1>1, <1>2, <1>3, <1>4, <1>5, <1>6, <1>7, <1>8 DEF Next

\* A claimed record stays approved, or was given up: the step of ClaimInv.
LEMMA ClaimStep ==
  ASSUME IInv, ClaimInv, StoreInv, [Next]_vars
  PROVE  ClaimInv'
<1>1. IInv' /\ TypeOK /\ TypeOK' /\ store' \in Records
  BY StepKeeps DEF IInv, TypeOK, Records
<1>2. CASE Restart
  <2>1. /\ backend = "file" /\ backend' = "file" /\ aged' = aged /\ aged = {}
        /\ \A t \in Thread : job'[t] = Idle
    BY <1>1, <1>2 DEF Restart, config, clock, ClaimInv, TypeOK
  <2>2. \A t \in Thread : \A id \in Id : ~Claiming(job'[t], id)
    BY <2>1 DEF Claiming, Idle
  <2> QED
    BY <2>1, <2>2 DEF ClaimInv
<1>3. CASE ~Restart
  <2>1. backend' = backend
    BY <1>3, FrameIs
  <2>2. aged' = aged \/ \E id \in Id : backend = "pg" /\ Has(id, "approved")
          /\ aged' = aged \cup {id} /\ store' = store
    BY <1>3, FrameIs
  <2>3. \A id \in Id : Rank(store[id]) >= 2 => Rank(store'[id]) >= 2
    <3>1. ASSUME NEW id \in Id, Rank(store[id]) >= 2 PROVE Rank(store'[id]) >= 2
      <4>1. Grows(id)
        BY <1>3, GrowsStep
      <4>2. store[id] \in Approval \cup {None} /\ store'[id] \in Approval \cup {None}
        BY <1>1 DEF TypeOK, Records
      <4>3. Rank(store[id]) \in 0 .. 4 /\ Rank(store'[id]) \in 0 .. 4
        BY <4>2, RankType
      <4>4. CASE Follows(store'[id], store[id])
        BY <3>1, <4>3, <4>4 DEF Follows
      <4>5. CASE store'[id] # None /\ store'[id].status \in {"executed", "error"}
        BY <4>2, <4>5, RankOfRecord DEF Terminal
      <4> QED
        BY <4>1, <4>4, <4>5 DEF Grows
    <3> QED
      BY <3>1
  <2>4. \A id \in aged' : Rank(store'[id]) >= 2
    <3>1. \A id \in Id : Has(id, "approved") => Rank(store[id]) = 2
      BY <1>1, RankOfRecord DEF Has, TypeOK
    <3> QED
      BY <1>1, <2>2, <2>3, <3>1 DEF ClaimInv, TypeOK
  <2>5. backend' = "file" => aged' = {}
    BY <2>1, <2>2 DEF ClaimInv
  <2>6. ASSUME NEW u \in Thread, NEW x \in Id, Claiming(job'[u], x)
        PROVE  /\ ~(fresh' /\ backend' = "file")
               /\ Has(x, "approved")' \/ GivenUp(x)'
               /\ backend' = "pg" /\ ~SlowCalls => x \notin aged'
    <3>1. Keeps(u, x)
      BY <1>3, <2>6, ClaimGoes
    <3>2. CASE Has(x, "pending") /\ store'[x] # None /\ store'[x].status = "approved"
                 /\ fresh' = FALSE /\ aged' = aged
      <4>1. Rank(store[x]) = 1
        BY <1>1, <3>2, RankOfRecord DEF Has, TypeOK
      <4>2. x \notin aged
        BY <4>1 DEF ClaimInv
      <4> QED
        BY <3>2, <4>2 DEF Has
    <3>3. CASE /\ Claiming(job[u], x) /\ (fresh' => fresh) /\ backend' = backend
               /\ store'[x] # None
               /\ \/ store'[x].status = store[x].status
                  \/ backend = "pg" /\ SlowCalls /\ store'[x].status = "error"
               /\ backend = "pg" /\ ~SlowCalls /\ x \in aged' => x \in aged
      <4>1. /\ ~(fresh /\ backend = "file") /\ (Has(x, "approved") \/ GivenUp(x))
            /\ backend = "pg" /\ ~SlowCalls => x \notin aged
        BY <3>3 DEF ClaimInv
      <4> QED
        BY <2>6, <3>3, <4>1 DEF Has, GivenUp
    <3> QED
      BY <3>1, <3>2, <3>3 DEF Keeps
  <2> QED
    BY <2>4, <2>5, <2>6 DEF ClaimInv
<1> QED
  BY <1>2, <1>3

(***************************************************************************)
(* The journal of the file queue follows its records.                       *)
(***************************************************************************)
\* What is about to be appended is of the record as it is, or as it was earlier.
Lined(t) ==
  /\ Follows(store[job[t].line.id], job[t].line.a)
  /\ Uncleared(job[t].line.a)

\* approve answers executed even when its line is not kept (approvals.py, _finish):
\* its record is executed, and the claim is in the journal already.
FilledIs(t) ==
  /\ \A id \in job[t].ids : Has(id, "executed") /\ filed[id] >= 2
  /\ job[t].at = "append" => job[t].line.a.status = "executed"

\* The journal lags behind the records and never contradicts them: the last readable
\* line of a record is one the record has followed, it is no further along than what
\* was appended, and that no further than the record. _replay may go back in time and
\* never elsewhere.
JournalInv == backend = "file" =>
  /\ \A id \in Id :
       /\ Follows(store[id], file[id]) /\ Uncleared(file[id])
       /\ Rank(file[id]) <= filed[id] /\ filed[id] <= Rank(store[id])
  /\ \A t \in Thread : job[t].at = "append" => Lined(t)
  /\ \A t \in Thread : job[t].at \in {"snapshot", "append"} /\ job[t].then = "filled"
       => FilledIs(t)

\* How a thread goes on with its journaling.
JobGoes(u) ==
  \/ job'[u] = job[u]
  \/ job'[u].at \notin {"snapshot", "append"}
  \/ /\ job'[u].at = "snapshot"
     /\ job'[u].then = "filled" =>
          \/ \A x \in job'[u].ids : store'[x] # None /\ store'[x].status = "executed"
               /\ filed[x] >= 2
          \/ job[u].at = "append" /\ job[u].then = "filled" /\ job'[u].ids \subseteq job[u].ids
  \/ /\ job[u].at = "snapshot" /\ job'[u].at = "append" /\ job'[u].then = job[u].then
     /\ job'[u].ids = job[u].ids /\ job'[u].line.id \in job[u].ids /\ store' = store
     /\ job'[u].line.a = store[job'[u].line.id]

\* How the journal of one record goes on: by a line some thread held for it.
FileGoes(x) ==
  \/ file'[x] = file[x] /\ filed'[x] = filed[x]
  \/ \E t \in Thread :
       /\ job[t].at = "append" /\ job[t].line.id = x /\ job[t].line.a \in Approval
       /\ file'[x] \in {file[x], job[t].line.a}
       /\ filed'[x] >= filed[x] /\ filed'[x] >= Rank(job[t].line.a)
       /\ filed'[x] = filed[x] \/ filed'[x] = Rank(job[t].line.a)

\* When an answer is given: by a row as it is kept, by a worker whose UPDATE of an
\* executed order raised, or with the line that was appended, or of an order that
\* filled.
SaidGoes(x) ==
  \/ said'[x] = said[x]
  \/ /\ backend = "pg" /\ said'[x] = store'[x].status /\ store'[x] # None
     /\ said'[x] = "error" => \A u \in Thread : ~Claiming(job'[u], x)
  \/ /\ backend = "pg" /\ said'[x] = "executed" /\ store' = store
     /\ store[x] # None /\ store[x].status \in {"approved", "error"}
  \/ \E t \in Thread :
       /\ job[t].at = "append" /\ store' = store
       /\ \/ job[t].line.id = x /\ filed'[x] >= Rank(job[t].line.a)
               /\ said'[x] = job[t].line.a.status
          \/ job[t].then = "filled" /\ x \in job[t].ids /\ said'[x] = job[t].line.a.status

\* One step of a living process, as the journal and those who ask see it.
Goals == (\A u \in Thread : JobGoes(u)) /\ (\A x \in Id : FileGoes(x) /\ SaidGoes(x))
  /\ UNCHANGED <<backend, lost>>

\* A write goes that way.
LEMMA WroteGoes ==
  ASSUME TypeOK', NEW t \in Thread, NEW ids \in SUBSET Id, NEW then \in Then,
         Wrote(t, ids, then),
         then = "filled" => \A x \in ids : store'[x] # None /\ store'[x].status = "executed"
                                           /\ (backend = "file" => filed[x] >= 2),
         then \in {"filled", "answer"} => \A x \in ids : store'[x] # None
            /\ (store'[x].status = "error" /\ backend = "pg"
                 => \A u \in Thread \ {t} : ~Claiming(job[u], x))
  PROVE  Goals
<1>1. \A u \in Thread : JobGoes(u)
  <2>1. backend = "file" \/ job'[t].at \notin {"snapshot", "append"}
    BY DEF TypeOK, Wrote, config
  <2> QED
    BY <2>1 DEF JobGoes, Wrote
<1>2. \A x \in Id : FileGoes(x)
  BY DEF Wrote, disk, FileGoes
<1>3. ASSUME NEW x \in Id PROVE SaidGoes(x)
  <2>1. CASE said'[x] # said[x]
    <3>1. backend = "pg" /\ x \in ids /\ then \in {"answer", "filled"}
            /\ said'[x] = store'[x].status
      BY <2>1 DEF Wrote
    <3>2. \A u \in Thread : Claiming(job'[u], x) => u # t /\ Claiming(job[u], x)
      BY <3>1 DEF Wrote
    <3> QED
      BY <3>1, <3>2 DEF SaidGoes
  <2> QED
    BY <2>1 DEF SaidGoes
<1> QED
  BY <1>1, <1>2, <1>3 DEF Goals, Wrote, config, disk

\* Every step of a living process goes that way.
LEMMA GoesStep ==
  ASSUME IInv, ClaimInv, [Next]_vars, ~Restart
  PROVE  Goals
<1>1. TypeOK /\ TypeOK'
  BY StepKeeps DEF IInv
<1>2. ASSUME job' = job, said' = said, UNCHANGED <<backend, disk>> PROVE Goals
  BY <1>2 DEF Goals, JobGoes, FileGoes, SaidGoes, disk
<1>3. CASE UNCHANGED vars
  BY <1>2, <1>3 DEF vars, config
<1>4. ASSUME NEW id \in Id, Lapses(id) \/ Ages(id) PROVE Goals
  BY <1>2, <1>4 DEF Lapses, Ages, config
<1>5. ASSUME NEW t \in Thread, UNCHANGED <<backend, file, filed, lost>>,
             job' = [job EXCEPT ![t] = Idle],
             \A x \in Id : SaidGoes(x)
      PROVE  Goals
  <2>1. \A u \in Thread : JobGoes(u)
    BY <1>1, <1>5, StopIs DEF JobGoes
  <2> QED
    BY <1>5, <2>1 DEF Goals, FileGoes
<1>6. ASSUME NEW t \in Thread,
            \/ Append(t) \/ AppendFails(t) \/ WorkerDies(t)
            \/ PgSweep(t) \/ FileReconcile(t) \/ PgReconcile(t) \/ ClearHistory(t)
            \/ \E ids \in SUBSET Id : FileSweep(t, ids)
      PROVE Goals
  <2>1. CASE Append(t)
    <3> DEFINE id == job[t].line.id
               a  == job[t].line.a
    <3>1. /\ id \in Id /\ a \in Approval /\ id \in job[t].ids /\ job[t].at = "append"
          /\ \A u \in Thread : u # t => job'[u] = job[u]
          /\ job'[t].at # "append"
          /\ job'[t].at = "snapshot" => /\ job'[t].then = job[t].then
                                        /\ job'[t].ids \subseteq job[t].ids
          /\ \A x \in Id : said'[x] = said[x] \/ (x = id /\ said'[x] = a.status)
          /\ \A x \in Id : file'[x] = file[x] \/ (x = id /\ file'[x] = a)
          /\ \A x \in Id : filed'[x] >= filed[x] /\ (filed'[x] > filed[x] => x = id
               /\ filed'[x] = Rank(a))
          /\ filed'[id] >= Rank(a)
          /\ UNCHANGED <<config, store, lost>>
      BY <2>1, AppendIs
    <3>2. \A u \in Thread : JobGoes(u)
      BY <3>1 DEF JobGoes
    <3>3. ASSUME NEW x \in Id PROVE FileGoes(x)
      <4>1. filed[x] \in 0 .. 4 /\ filed'[x] \in 0 .. 4
        BY <1>1 DEF TypeOK
      <4>2. CASE x = id
        <5>1. filed'[x] = filed[x] \/ filed'[x] = Rank(a)
          BY <3>1, <4>1
        <5> QED
          BY <3>1, <4>1, <4>2, <5>1 DEF FileGoes
      <4>3. CASE x # id
        BY <3>1, <4>1, <4>3 DEF FileGoes
      <4> QED
        BY <4>2, <4>3
    <3>4. \A x \in Id : SaidGoes(x)
      BY <3>1 DEF SaidGoes
    <3> QED
      BY <3>1, <3>2, <3>3, <3>4 DEF Goals, config
  <2>2. CASE AppendFails(t) \/ WorkerDies(t)
    <3>1. CASE AppendFails(t) /\ job[t].then = "filled"
      <4>1. Proceed(t, job[t].ids, "filled", [y \in job[t].ids |-> job[t].line.a])
        BY <3>1 DEF AppendFails
      <4>2. job' = [job EXCEPT ![t] = Idle]
        BY <4>1 DEF Proceed
      <4>3. /\ said' = [x \in Id |-> IF x \in job[t].ids
                                     THEN [y \in job[t].ids |-> job[t].line.a][x].status
                                       ELSE said[x]]
            /\ UNCHANGED <<config, store, file, filed, lost>>
        BY <3>1, <4>1 DEF AppendFails, Proceed
      <4>4. job[t].at = "append"
        BY <3>1 DEF AppendFails
      <4>5. \A x \in Id : SaidGoes(x)
        BY <3>1, <4>3, <4>4 DEF SaidGoes
      <4> QED
        BY <1>5, <4>2, <4>3, <4>5 DEF config
    <3>2. CASE AppendFails(t) /\ job[t].then # "filled"
      BY <1>5, <3>2 DEF AppendFails, SaidGoes, config
    <3>3. CASE WorkerDies(t)
      BY <1>5, <3>3 DEF WorkerDies, SaidGoes, config, disk
    <3> QED
      BY <2>2, <3>1, <3>2, <3>3
  <2>3. CASE \/ PgSweep(t) \/ FileReconcile(t) \/ PgReconcile(t) \/ ClearHistory(t)
             \/ \E ids \in SUBSET Id : FileSweep(t, ids)
    BY <1>1, <2>3, QuietIs, WroteGoes DEF Then
  <2> QED
    BY <1>6, <2>1, <2>2, <2>3
<1>7. ASSUME NEW t \in Thread, NEW id \in Id,
            \/ Snapshot(t, id) \/ RecordFails(t, id)
            \/ FileEnqueue(t, id) \/ PgEnqueue(t, id) \/ SetRationale(t, id)
            \/ FileClaim(t, id) \/ FileDeny(t, id) \/ Lapse(t, id)
            \/ PgClaim(t, id) \/ PgDeny(t, id)
            \/ Refused(t, id) \/ Called(t, id) \/ Answered(t, id) \/ CallFails(t, id)
            \/ Grant(t, id) \/ NotGranted(t, id) \/ RecordExecution(t, id)
            \/ Resolve(t, id)
      PROVE Goals
  <2>1. CASE Snapshot(t, id)
    <3>1. UNCHANGED <<backend, disk, store, said>>
      BY <2>1 DEF Snapshot, config
    <3>2. \A u \in Thread : JobGoes(u)
      BY <2>1, <3>1, SnapshotIs DEF JobGoes
    <3> QED
      BY <3>1, <3>2 DEF Goals, FileGoes, SaidGoes, disk
  <2>2. CASE NotGranted(t, id)
    BY <1>5, <2>2 DEF NotGranted, SaidGoes, config, disk
  <2>3. CASE RecordFails(t, id)
    <3>1. Claiming(job[t], id) /\ backend = "pg" /\ store' = store
      BY <2>3 DEF RecordFails, At, Claiming
    <3>2. store[id] # None /\ store[id].status \in {"approved", "error"}
      BY <3>1 DEF ClaimInv, GivenUp, Has
    <3>3. said' = said \/ said' = [said EXCEPT ![id] = "executed"]
      BY <2>3 DEF RecordFails
    <3>4. \A x \in Id : SaidGoes(x)
      BY <1>1, <3>1, <3>2, <3>3 DEF SaidGoes, TypeOK
    <3> QED
      BY <1>5, <2>3, <3>4 DEF RecordFails, config, disk
  <2>4. CASE FileEnqueue(t, id) \/ PgEnqueue(t, id) \/ FileDeny(t, id) \/ PgDeny(t, id)
             \/ Grant(t, id) \/ RecordExecution(t, id)
    <3>1. Wrote(t, {id}, "answer")
      BY <2>4, AnswersIs
    <3>2. store'[id] # None
      BY <2>4, AnswersIs, RankOfRecord
    <3>3. store'[id].status = "error" => Has(id, "granted")
      BY <2>4, AnswersIs
    <3>4. Has(id, "granted") => \A u \in Thread : ~Claiming(job[u], id)
      BY DEF ClaimInv, GivenUp, Has
    <3> QED
      BY <1>1, <3>1, <3>2, <3>3, <3>4, WroteGoes DEF Then
  <2>5. CASE SetRationale(t, id) \/ Resolve(t, id)
    BY <1>1, <2>5, QuietIs, WroteGoes DEF Then
  <2>6. CASE FileClaim(t, id) \/ PgClaim(t, id)
    BY <1>1, <2>6, ClaimIs, WroteGoes DEF Then
  <2>7. CASE Lapse(t, id)
    BY <1>2, <2>7 DEF Lapse, config
  <2>8. CASE Ends(t, id)
    <3> DEFINE then == IF Answered(t, id) THEN "filled" ELSE "answer"
    <3>1. /\ Wrote(t, {id}, then) /\ Claiming(job[t], id) /\ store'[id] \in Approval
          /\ store'[id].status = IF Answered(t, id) THEN "executed" ELSE "error"
      BY <2>8, EndsIs
    <3>2. \A u \in Thread \ {t} : ~Claiming(job[u], id)
      BY <3>1 DEF IInv, Claimed, OneClaimant
    <3>3. backend = "file" /\ Answered(t, id) => filed[id] >= 2
      BY <3>1 DEF IInv, Claimed, ClaimKept, Answered, At
    <3>4. store'[id] # None /\ then \in Then /\ {id} \in SUBSET Id
      BY <3>1, RankOfRecord DEF Then
    <3>5. then = "filled" => store'[id].status = "executed" /\ Answered(t, id)
      BY <3>1
    <3> HIDE DEF then
    <3> QED
      BY <1>1, <3>1, <3>2, <3>3, <3>4, <3>5, WroteGoes
  <2>9. CASE Called(t, id)
    <3>1. UNCHANGED <<backend, disk, said>> /\ \A u \in Thread : JobGoes(u)
      BY <1>1, <2>9 DEF Called, TypeOK, At, JobGoes, config, Job
    <3> QED
      BY <3>1 DEF Goals, FileGoes, SaidGoes, disk
  <2> QED
    BY <1>7, <2>1, <2>2, <2>3, <2>4, <2>5, <2>6, <2>7, <2>8, <2>9 DEF Ends
<1> QED
  BY <1>3, <1>4, <1>6, <1>7 DEF Next

\* What a record has followed it still follows after any step.
LEMMA Later ==
  ASSUME IInv, ClaimInv, StoreInv, [Next]_vars, ~Restart, NEW x \in Id,
         NEW a \in Approval \cup {None}, Follows(store[x], a), backend = "file"
  PROVE  Follows(store'[x], a)
<1>1. Grows(x) /\ ~GivenUp(x)
  BY GrowsStep DEF GivenUp
<1>2. store[x] \in Approval \cup {None} /\ store'[x] \in Approval \cup {None}
  BY StepKeeps DEF IInv, TypeOK
<1> QED
  BY <1>1, <1>2, FollowsTrans DEF Grows

\* The journal follows the records across appends, torn lines and restarts: the step
\* of JournalInv.
LEMMA JournalStep ==
  ASSUME IInv, ClaimInv, StoreInv, JournalInv, [Next]_vars
  PROVE  JournalInv'
<1>1. TypeOK /\ TypeOK' /\ StoreInv
  BY StepKeeps DEF IInv
<1> USE DEF JournalInv
<1>2. CASE Restart
  <2>1. /\ backend = "file" /\ store' = file /\ file' = file
        /\ filed' = [id \in Id |-> Rank(file[id])] /\ \A t \in Thread : job'[t].at = "idle"
    BY <1>2 DEF Restart, config, Idle
  <2>2. ASSUME NEW id \in Id
        PROVE  /\ Follows(file[id], file[id]) /\ Uncleared(file[id])
               /\ Rank(file[id]) <= filed'[id] /\ filed'[id] <= Rank(store'[id])
    <3>1. file[id] \in Approval \cup {None}
      BY <1>1 DEF TypeOK
    <3>2. Follows(file[id], file[id]) /\ Rank(file[id]) \in 0 .. 4
      BY <3>1, FollowsSelf, RankType
    <3> QED
      BY <2>1, <3>2
  <2> QED
    BY <2>1, <2>2
<1>3. CASE ~Restart /\ backend = "file"
  <2>1. Goals /\ \A id \in Id : Grows(id) /\ ~GivenUp(id)
    BY <1>3, GoesStep, GrowsStep DEF GivenUp
  <2>2. \A id \in Id : Follows(store'[id], store[id])
    BY <2>1 DEF Grows
  <2>3. ASSUME NEW id \in Id
        PROVE  /\ Follows(store'[id], file'[id]) /\ Uncleared(file'[id])
               /\ Rank(file'[id]) <= filed'[id] /\ filed'[id] <= Rank(store'[id])
    <3>1. /\ Follows(store[id], file[id]) /\ Uncleared(file[id])
          /\ Rank(file[id]) <= filed[id] /\ filed[id] <= Rank(store[id])
      BY <1>3
    <3>2. /\ file[id] \in Approval \cup {None} /\ filed[id] \in 0 .. 4 /\ filed'[id] \in 0 .. 4
          /\ store[id] \in Approval \cup {None} /\ store'[id] \in Approval \cup {None}
      BY <1>1 DEF TypeOK
    <3>3. Rank(file[id]) \in 0 .. 4 /\ Rank(store[id]) \in 0 .. 4 /\ Rank(store'[id]) \in 0 .. 4
      BY <3>2, RankType
    <3>4. Rank(store[id]) <= Rank(store'[id]) /\ Follows(store'[id], file[id])
      BY <1>3, <2>2, <3>1, <3>2, Later DEF Follows
    <3>5. CASE file'[id] = file[id] /\ filed'[id] = filed[id]
      BY <3>1, <3>2, <3>3, <3>4, <3>5
    <3>6. ASSUME NEW t \in Thread, job[t].at = "append", job[t].line.id = id,
                 job[t].line.a \in Approval,
                 file'[id] \in {file[id], job[t].line.a},
                 filed'[id] >= filed[id], filed'[id] >= Rank(job[t].line.a),
                 filed'[id] = filed[id] \/ filed'[id] = Rank(job[t].line.a)
          PROVE  /\ Follows(store'[id], file'[id]) /\ Uncleared(file'[id])
                 /\ Rank(file'[id]) <= filed'[id] /\ filed'[id] <= Rank(store'[id])
      <4> DEFINE a == job[t].line.a
      <4>1. Follows(store[id], a) /\ Uncleared(a)
        BY <1>3, <3>6 DEF Lined
      <4>2. Follows(store'[id], a) /\ Rank(a) \in 0 .. 4
        BY <1>3, <3>6, <4>1, Later, RankType
      <4>3. Rank(a) <= Rank(store'[id])
        BY <4>2 DEF Follows
      <4> HIDE DEF a
      <4>4. file'[id] = file[id] \/ file'[id] = a
        BY <3>6 DEF a
      <4>5. filed'[id] >= Rank(a) /\ (filed'[id] = filed[id] \/ filed'[id] = Rank(a))
              /\ filed'[id] >= filed[id]
        BY <3>6 DEF a
      <4> QED
        BY <3>1, <3>2, <3>3, <3>4, <4>1, <4>2, <4>3, <4>4, <4>5
    <3> QED
      BY <2>1, <3>5, <3>6 DEF Goals, FileGoes
  <2>4. \A x \in Id : filed'[x] >= filed[x]
    <3>1. \A x \in Id : filed[x] \in 0 .. 4
      BY <1>1 DEF TypeOK
    <3> QED
      BY <2>1, <3>1 DEF Goals, FileGoes
  <2>5. \A x \in Id : Has(x, "executed") => store'[x] # None /\ store'[x].status = "executed"
    <3>1. ASSUME NEW x \in Id, Has(x, "executed")
          PROVE store'[x] # None /\ store'[x].status = "executed"
      <4>1. store[x] \in Approval /\ store'[x] \in Approval \cup {None}
        BY <1>1, <3>1 DEF TypeOK, Has
      <4>2. Rank(store[x]) = 4
        BY <3>1, <4>1, RankOfRecord DEF Has, Terminal
      <4> QED
        BY <2>2, <3>1, <4>1, <4>2, RankType DEF Follows, Has
    <3> QED
      BY <3>1
  <2>6. ASSUME NEW u \in Thread
        PROVE  /\ job'[u].at = "append" => Lined(u)'
               /\ job'[u].at \in {"snapshot", "append"} /\ job'[u].then = "filled"
                    => FilledIs(u)'
    <3>0. job[u] \in Job /\ job'[u] \in Job /\ job[u].ids \subseteq Id
            /\ job'[u].ids \subseteq Id
      BY <1>1 DEF TypeOK, Job
    <3>1. CASE job'[u] = job[u]
      <4>1. job[u].at = "append" => Lined(u)'
        <5>1. SUFFICES ASSUME job[u].at = "append" PROVE Lined(u)'
          OBVIOUS
        <5>2. job[u].line.id \in Id /\ job[u].line.a \in Approval
          BY <3>0, <5>1 DEF IInv, Held, Job
        <5>3. Follows(store[job[u].line.id], job[u].line.a) /\ Uncleared(job[u].line.a)
          BY <1>3, <5>1 DEF Lined
        <5>4. Follows(store'[job[u].line.id], job[u].line.a)
          BY <1>3, <5>2, <5>3, Later
        <5> QED
          BY <3>1, <5>3, <5>4 DEF Lined
      <4>2. job[u].at \in {"snapshot", "append"} /\ job[u].then = "filled" => FilledIs(u)'
        <5>1. SUFFICES ASSUME FilledIs(u) PROVE FilledIs(u)'
          BY <1>3
        <5>2. \A x \in job[u].ids : filed[x] \in 0 .. 4 /\ filed'[x] \in 0 .. 4
          BY <1>1, <3>0 DEF TypeOK
        <5> QED
          BY <2>4, <2>5, <3>0, <3>1, <5>1, <5>2 DEF FilledIs, Has
      <4> QED
        BY <3>1, <4>1, <4>2
    <3>2. CASE job'[u].at \notin {"snapshot", "append"}
      BY <3>2
    <3>3. CASE /\ job'[u].at = "snapshot"
               /\ job'[u].then = "filled" =>
                    \/ \A x \in job'[u].ids : store'[x] # None
                         /\ store'[x].status = "executed" /\ filed[x] >= 2
                    \/ job[u].at = "append" /\ job[u].then = "filled"
                         /\ job'[u].ids \subseteq job[u].ids
      <4>1. \A x \in Id : filed[x] >= 2 => filed'[x] >= 2
        <5>1. \A x \in Id : filed[x] \in 0 .. 4 /\ filed'[x] \in 0 .. 4
          BY <1>1 DEF TypeOK
        <5> QED
          BY <2>4, <5>1
      <4>2. job[u].at = "append" /\ job[u].then = "filled" =>
              \A x \in job[u].ids : Has(x, "executed") /\ filed[x] >= 2
        BY <1>3 DEF FilledIs
      <4>3. job'[u].then = "filled" => \A x \in job'[u].ids : store'[x] # None
              /\ store'[x].status = "executed" /\ filed'[x] >= 2
        BY <2>5, <3>0, <3>3, <4>1, <4>2
      <4> QED
        BY <3>3, <4>3 DEF FilledIs, Has
    <3>4. CASE /\ job[u].at = "snapshot" /\ job'[u].at = "append" /\ job'[u].then = job[u].then
               /\ job'[u].ids = job[u].ids /\ job'[u].line.id \in job[u].ids /\ store' = store
               /\ job'[u].line.a = store[job'[u].line.id]
      <4> DEFINE x == job'[u].line.id
      <4>1. x \in Id /\ store[x] \in Approval \cup {None} /\ Uncleared(store[x])
        BY <1>1, <3>0, <3>4 DEF TypeOK, StoreInv
      <4>2. Follows(store[x], store[x])
        BY <4>1, FollowsSelf
      <4>3. job[u].then = "filled" =>
              \A y \in job[u].ids : Has(y, "executed") /\ filed[y] >= 2
        BY <1>3, <3>4 DEF FilledIs
      <4>4. \A y \in Id : filed[y] >= 2 => filed'[y] >= 2
        <5>1. \A y \in Id : filed[y] \in 0 .. 4 /\ filed'[y] \in 0 .. 4
          BY <1>1 DEF TypeOK
        <5> QED
          BY <2>4, <5>1
      <4> QED
        BY <3>0, <3>4, <4>1, <4>2, <4>3, <4>4 DEF Lined, FilledIs, Has
    <3>5. JobGoes(u)
      BY <2>1 DEF Goals
    <3> QED
      BY <3>1, <3>2, <3>3, <3>4, <3>5 DEF JobGoes
  <2> QED
    BY <2>3, <2>6
<1>4. CASE ~Restart /\ backend # "file"
  BY <1>4, FrameIs
<1> QED
  BY <1>2, <1>3, <1>4

\* What was answered is in the record, and in the file queue in an appended line that
\* no later line takes back: an end is there to stay, a grant or an execution is at
\* least claimed.
SaidIs(x) == said[x] # None =>
  /\ store[x] # None /\ (backend = "file" => filed[x] >= 1)
  /\ said[x] \in {"denied", "error"} =>
       /\ Has(x, said[x])
       /\ backend = "file" => filed[x] = 4
  /\ backend = "pg" /\ said[x] = "error" => \A t \in Thread : ~Claiming(job[t], x)
  /\ said[x] \in {"granted", "executed"} =>
       /\ Rank(store[x]) >= 2 /\ store[x].status \notin {"denied", "expired"}
       /\ backend = "file" => filed[x] >= 2

SaidInv == \A x \in Id \ lost : SaidIs(x)

\* What a move forward keeps: ends, and that a claim was made.
LEMMA FollowsIs ==
  ASSUME NEW a \in Approval, NEW b \in Approval \cup {None}, Follows(b, a)
  PROVE  /\ b # None
         /\ a.status \in Terminal => b.status = a.status
         /\ Rank(a) >= 2 /\ a.status \notin {"denied", "expired"} =>
               Rank(b) >= 2 /\ b.status \notin {"denied", "expired"}
  BY NoneAssumption DEF Follows, Rank, Terminal, Approval, Status

\* A restart that read the last line appended of a record takes no answer back.
LEMMA SaidRestart ==
  ASSUME IInv, JournalInv, SaidInv, Restart
  PROVE  SaidInv'
<1>1. TypeOK
  BY DEF IInv
<1>2. /\ backend = "file" /\ backend' = "file" /\ store' = file /\ said' = said
      /\ filed' = [id \in Id |-> Rank(file[id])]
      /\ lost' = lost \cup {id \in Id : Rank(file[id]) < filed[id]}
  BY DEF Restart, config
<1>3. ASSUME NEW x \in Id \ lost', said[x] # None PROVE SaidIs(x)'
  <2>1. /\ x \in Id /\ x \notin lost /\ filed[x] \in 0 .. 4 /\ said[x] \in Status
        /\ file[x] \in Approval \cup {None} /\ store[x] \in Approval \cup {None}
        /\ Rank(file[x]) \in 0 .. 4 /\ filed'[x] = Rank(file[x]) /\ Rank(file[x]) >= filed[x]
    BY <1>1, <1>2, <1>3, RankType DEF TypeOK
  <2>2. SaidIs(x) /\ Follows(store[x], file[x]) /\ filed[x] >= 1
    BY <1>2, <1>3, <2>1 DEF SaidInv, JournalInv, SaidIs
  <2>3. file[x] \in Approval /\ store[x] \in Approval
    BY <2>1, <2>2, RankType, NoneAssumption DEF Follows
  <2>4. said[x] \in {"denied", "error"} => file[x].status = said[x] /\ Rank(file[x]) = 4
    <3>1. SUFFICES ASSUME said[x] \in {"denied", "error"}
                   PROVE file[x].status = said[x] /\ Rank(file[x]) = 4
      OBVIOUS
    <3>2. Rank(file[x]) = 4 /\ store[x].status = said[x]
      BY <1>2, <1>3, <2>1, <2>2, <3>1 DEF SaidIs, Has
    <3> QED
      BY <2>2, <3>2 DEF Follows
  <2>5. said[x] \in {"granted", "executed"} => Rank(file[x]) >= 2
          /\ file[x].status \notin {"denied", "expired"}
    <3>1. SUFFICES ASSUME said[x] \in {"granted", "executed"}
                   PROVE Rank(file[x]) >= 2 /\ file[x].status \notin {"denied", "expired"}
      OBVIOUS
    <3>2. Rank(file[x]) >= 2 /\ store[x].status \notin {"denied", "expired"}
      BY <1>2, <1>3, <2>1, <2>2, <3>1 DEF SaidIs
    <3> QED
      BY <2>2, <2>3, <3>2, FollowsIs DEF Terminal
  <2> QED
    BY <1>2, <2>1, <2>2, <2>3, <2>4, <2>5, RankOfRecord DEF SaidIs, Has
<1> QED
  BY <1>2, <1>3 DEF SaidInv, SaidIs

\* No step takes an answer back: the step of SaidInv.
LEMMA SaidStep ==
  ASSUME IInv, ClaimInv, StoreInv, JournalInv, SaidInv, [Next]_vars
  PROVE  SaidInv'
<1>1. CASE Restart
  BY <1>1, SaidRestart
<1>2. CASE ~Restart
  <2>1. /\ TypeOK /\ TypeOK' /\ ClaimInv' /\ JournalInv' /\ Goals
        /\ \A x \in Id : Grows(x)
    BY <1>2, StepKeeps, ClaimStep, JournalStep, GoesStep, GrowsStep DEF IInv
  <2>2. SUFFICES ASSUME NEW x \in Id \ lost, said'[x] # None PROVE SaidIs(x)'
    BY <2>1 DEF SaidInv, SaidIs, Goals
  <2>3. /\ x \in Id /\ filed[x] \in 0 .. 4 /\ filed'[x] \in 0 .. 4 /\ backend' = backend
        /\ store[x] \in Approval \cup {None} /\ store'[x] \in Approval \cup {None}
        /\ Rank(store[x]) \in 0 .. 4 /\ Rank(store'[x]) \in 0 .. 4
        /\ filed'[x] >= filed[x] /\ Grows(x) /\ SaidGoes(x) /\ SaidIs(x)
             /\ backend \in {"file", "pg"}
    <3>1. /\ filed[x] \in 0 .. 4 /\ filed'[x] \in 0 .. 4 /\ backend' = backend
          /\ store[x] \in Approval \cup {None} /\ store'[x] \in Approval \cup {None}
          /\ backend \in {"file", "pg"} /\ FileGoes(x) /\ SaidGoes(x)
      BY <2>1, <2>2 DEF TypeOK, Goals
    <3> QED
      BY <2>1, <2>2, <3>1, RankType DEF FileGoes, SaidInv
  <2>4. CASE said'[x] = said[x]
    <3>1. store[x] # None /\ store'[x] # None
      BY <2>2, <2>3, <2>4, RankType DEF SaidIs, Grows, Follows
    <3>2. CASE said[x] \in {"denied", "error"}
      <4>1. Has(x, said[x]) /\ (backend = "file" => filed[x] = 4)
        BY <2>2, <2>3, <2>4, <3>2 DEF SaidIs
      <4>2. ~GivenUp(x)
        <5>1. SUFFICES ASSUME GivenUp(x) PROVE FALSE
          OBVIOUS
        <5>2. said[x] = "error" /\ backend = "pg"
          BY <4>1, <5>1 DEF GivenUp, Has
        <5> QED
          BY <2>2, <2>3, <2>4, <5>1, <5>2 DEF SaidIs, GivenUp
      <4>3. Has(x, said[x])'
        <5>1. store[x] \in Approval /\ Follows(store'[x], store[x])
                /\ store[x].status \in Terminal
          BY <2>3, <3>1, <3>2, <4>1, <4>2 DEF Grows, Has, Terminal
        <5> QED
          BY <2>3, <2>4, <4>1, <5>1, FollowsIs DEF Has
      <4>4. backend = "pg" /\ said[x] = "error" => \A t \in Thread : ~Claiming(job'[t], x)
        <5>1. SUFFICES ASSUME backend = "pg", said[x] = "error", NEW t \in Thread,
                              Claiming(job'[t], x)
                       PROVE  FALSE
          OBVIOUS
        <5>2. Keeps(t, x) /\ ~Claiming(job[t], x)
          BY <1>2, <2>2, <2>3, <2>4, <5>1, ClaimGoes DEF SaidIs
        <5> QED
          BY <4>1, <5>1, <5>2 DEF Keeps, Has
      <4> QED
        BY <2>2, <2>3, <2>4, <3>1, <3>2, <4>1, <4>3, <4>4 DEF SaidIs
    <3>3. CASE said[x] \in {"granted", "executed"}
      <4>1. /\ Rank(store[x]) >= 2 /\ store[x].status \notin {"denied", "expired"}
            /\ backend = "file" => filed[x] >= 2
        BY <2>2, <2>3, <2>4, <3>3 DEF SaidIs
      <4>2. Rank(store'[x]) >= 2 /\ store'[x].status \notin {"denied", "expired"}
        BY <2>3, <3>1, <4>1, FollowsIs, RankOfRecord DEF Grows, Terminal
      <4> QED
        BY <2>3, <2>4, <3>1, <3>3, <4>1, <4>2 DEF SaidIs
    <3>4. CASE said[x] \notin {"denied", "error", "granted", "executed"}
      <4>1. backend = "file" => filed[x] >= 1
        BY <2>2, <2>3, <2>4 DEF SaidIs
      <4> QED
        BY <2>3, <2>4, <3>1, <3>4, <4>1 DEF SaidIs
    <3> QED
      BY <3>2, <3>3, <3>4
  <2>5. CASE /\ backend = "pg" /\ said'[x] = store'[x].status /\ store'[x] # None
             /\ said'[x] = "error" => \A u \in Thread : ~Claiming(job'[u], x)
    BY <2>3, <2>5, RankOfRecord DEF SaidIs, Has, Terminal
  <2>6. CASE /\ backend = "pg" /\ said'[x] = "executed" /\ store' = store
             /\ store[x] # None /\ store[x].status \in {"approved", "error"}
    BY <2>3, <2>6, RankOfRecord DEF SaidIs, Terminal
  <2>7. ASSUME NEW t \in Thread, job[t].at = "append", store' = store,
               job[t].line.id = x, filed'[x] >= Rank(job[t].line.a),
               said'[x] = job[t].line.a.status
        PROVE SaidIs(x)'
    <3> DEFINE a == job[t].line.a
    <3>1. backend = "file" /\ a \in Approval
      BY <2>1, <2>7 DEF TypeOK, IInv, Held, Job
    <3>2. Follows(store[x], a)
      BY <2>7, <3>1 DEF JournalInv, Lined
    <3>3. Rank(a) \in 1 .. 4 /\ filed'[x] >= Rank(a) /\ said'[x] = a.status
      BY <2>7, <3>1, RankType, RankOfRecord
    <3>4. /\ store[x] # None /\ (a.status \in Terminal => store[x].status = a.status)
          /\ Rank(a) >= 2 /\ a.status \notin {"denied", "expired"} =>
               Rank(store[x]) >= 2 /\ store[x].status \notin {"denied", "expired"}
      BY <2>3, <3>1, <3>2, FollowsIs
    <3>5. /\ a.status \in {"denied", "error", "executed"} => Rank(a) = 4
          /\ a.status = "granted" => Rank(a) = 3
      BY <3>1, RankOfRecord DEF Terminal
    <3> HIDE DEF a
    <3> QED
      BY <2>3, <2>7, <3>1, <3>3, <3>4, <3>5 DEF SaidIs, Has, Terminal
  <2>8. ASSUME NEW t \in Thread, job[t].at = "append", store' = store,
               job[t].then = "filled", x \in job[t].ids, said'[x] = job[t].line.a.status
        PROVE SaidIs(x)'
    <3>1. backend = "file"
      BY <2>1, <2>8 DEF TypeOK
    <3>2. Has(x, "executed") /\ filed[x] >= 2 /\ said'[x] = "executed"
      BY <2>8, <3>1 DEF JournalInv, FilledIs
    <3>3. Rank(store[x]) = 4
      BY <2>3, <3>2, RankOfRecord DEF Has, Terminal
    <3> QED
      BY <2>3, <2>8, <3>1, <3>2, <3>3 DEF SaidIs, Has
  <2> QED
    BY <2>3, <2>4, <2>5, <2>6, <2>7, <2>8 DEF SaidGoes
<1> QED
  BY <1>1, <1>2

\* What the owner or reconcile_stale still looks at, once the record is claimed.
Seen(a) == Rank(a) >= 2 =>
  \/ a.status = "approved"
  \/ a.status = "error" /\ a.unknown /\ ~a.cleared

\* A call that came to no known end is in sight in the record, in the last readable
\* line of the journal, and in every line about to be appended.
OwedIs(x) ==
  /\ Rank(store[x]) >= 2 /\ Seen(store[x])
  /\ backend = "file" => filed[x] >= 2 /\ Seen(file[x])
  /\ \A t \in Thread : job[t].at = "append" /\ job[t].line.id = x => Seen(job[t].line.a)

\* Only a call that was made is owed; and what is owed stays in sight as long as no
\* call outlasts the ten minutes after which reconcile_stale gives it up.
OwedInv ==
  /\ \A x \in owed : acts[x] >= 1
  /\ ~SlowCalls => \A x \in owed \ lost : OwedIs(x)

\* An owed outcome in sight, as OutcomeIsOwed states it.
Shown(x) == store[x] # None /\ (store[x].status = "approved" \/ (store[x].status = "error"
  /\ store[x].unknown /\ ~store[x].cleared))

\* The two ways to say it agree.
LEMMA SeenIs ==
  ASSUME NEW a \in Approval
  PROVE  /\ Rank(a) >= 2 /\ Seen(a) => a.status = "approved" \/ (a.status = "error"
              /\ a.unknown /\ ~a.cleared)
         /\ a.status = "approved" \/ (a.status = "error" /\ a.unknown /\ ~a.cleared)
              => Rank(a) >= 2 /\ Seen(a)
  BY RankOfRecord DEF Seen, Terminal

(***************************************************************************)
(* Who comes to owe, and that what is owed stays in sight.                  *)
(***************************************************************************)
OwedGoes(x) ==
  \/ /\ x \in owed' => x \in owed
     /\ acts'[x] >= acts[x]
     /\ x \in owed' /\ x \notin lost /\ ~SlowCalls => Shown(x)'
  \/ /\ \E t \in Thread : At(t, "call", x)
     /\ acts'[x] = acts[x] + 1 /\ UNCHANGED <<backend, store, file, filed>>
     /\ \A t \in Thread : job'[t].at = "append" => job'[t] = job[t]

\* A record comes to owe when its call leaves, and no step but its known end or a
\* human's resolve takes it out of sight.
LEMMA OwedGoesStep ==
  ASSUME IInv, ClaimInv, StoreInv, OwedInv, [Next]_vars, ~Restart, NEW x \in Id
  PROVE  OwedGoes(x)
<1>1. TypeOK /\ TypeOK' /\ acts[x] \in Nat /\ acts'[x] \in Nat
      /\ store[x] \in Approval \cup {None} /\ store'[x] \in Approval \cup {None}
  BY StepKeeps DEF IInv, TypeOK
<1>2. ASSUME x \in owed, x \notin lost, ~SlowCalls
      PROVE  /\ Shown(x) /\ acts[x] >= 1 /\ store[x] \in Approval
             /\ store[x].status = "approved" => ~store[x].cleared
             /\ ~Has(x, "pending") /\ ~Has(x, "granted") /\ ~Expired(x)
             /\ \A t \in Thread : Claiming(job[t], x) => Has(x, "approved")
                  /\ job[t].at = "waiting"
  <2>1. OwedIs(x) /\ acts[x] >= 1 /\ Uncleared(store[x])
    BY <1>2 DEF OwedInv, StoreInv
  <2>2. store[x] \in Approval
    BY <1>1, <2>1, RankType DEF OwedIs
  <2>3. Shown(x)
    BY <2>1, <2>2, SeenIs, RankOfRecord DEF OwedIs, Shown
  <2>4. store[x].status = "approved" => ~store[x].cleared
    BY <2>1, <2>2, RankOfRecord DEF Uncleared
  <2>5. ~Has(x, "pending") /\ ~Has(x, "granted") /\ ~Expired(x)
    BY <2>3 DEF Shown, Has, Expired
  <2>6. \A t \in Thread : Claiming(job[t], x) => Has(x, "approved") /\ job[t].at = "waiting"
    BY <1>1, <1>2, <2>1 DEF ClaimInv, GivenUp, IInv, Claimed, ClaimKept
  <2> QED
    BY <2>1, <2>2, <2>3, <2>4, <2>5, <2>6
<1>3. ASSUME store'[x] = store[x], x \in owed' => x \in owed, acts'[x] >= acts[x]
      PROVE OwedGoes(x)
  BY <1>2, <1>3 DEF OwedGoes, Shown
<1>4. CASE UNCHANGED vars
  BY <1>1, <1>3, <1>4 DEF vars, history
<1>5. ASSUME NEW id \in Id, Lapses(id) \/ Ages(id) PROVE OwedGoes(x)
  BY <1>1, <1>3, <1>5 DEF Lapses, Ages, history
<1>6. ASSUME NEW t \in Thread,
            \/ Append(t) \/ AppendFails(t) \/ WorkerDies(t)
            \/ PgSweep(t) \/ FileReconcile(t) \/ PgReconcile(t) \/ ClearHistory(t)
            \/ \E ids \in SUBSET Id : FileSweep(t, ids)
      PROVE OwedGoes(x)
  <2>1. CASE Append(t) \/ AppendFails(t) \/ WorkerDies(t)
    <3>1. store' = store /\ UNCHANGED history
      <4>1. CASE Append(t)
        BY <4>1, AppendIs
      <4>2. CASE AppendFails(t)
        BY <4>2 DEF AppendFails
      <4>3. CASE WorkerDies(t)
        BY <4>3 DEF WorkerDies
      <4> QED
        BY <2>1, <4>1, <4>2, <4>3
    <3> QED
      BY <1>1, <1>3, <3>1 DEF history
  <2>2. CASE PgSweep(t) \/ \E ids \in SUBSET Id : FileSweep(t, ids)
    <3>1. PICK ids \in SUBSET Newly : store' = Moved(ids, "expired") /\ UNCHANGED history
      BY <2>2 DEF PgSweep, FileSweep, Write
    <3>2. x \notin ids => store'[x] = store[x]
      BY <3>1 DEF Moved
    <3>3. CASE x \in ids
      BY <1>1, <1>2, <3>1, <3>3 DEF Newly, history, OwedGoes
    <3> QED
      BY <1>1, <1>3, <3>1, <3>2, <3>3 DEF history
  <2>3. CASE FileReconcile(t) \/ PgReconcile(t)
    <3>1. PICK ids \in SUBSET {id \in Id : Has(id, "approved")} : store' = Stale(ids)
                 /\ UNCHANGED history
      <4>1. CASE FileReconcile(t)
        BY <4>1 DEF FileReconcile, Write
      <4>2. CASE PgReconcile(t)
        <5>1. {id \in aged : Has(id, "approved")} \in SUBSET {id \in Id : Has(id, "approved")}
          BY <1>1 DEF TypeOK
        <5> QED
          BY <4>2, <5>1 DEF PgReconcile, Write
      <4> QED
        BY <2>3, <4>1, <4>2
    <3>2. CASE x \in ids
      <4>1. store'[x] \in Approval /\ store'[x].status = "error" /\ store'[x].unknown
              /\ store'[x].cleared = store[x].cleared
        BY <1>1, <3>1, <3>2, StaleIs
      <4>2. Has(x, "approved")
        BY <3>1, <3>2
      <4> QED
        BY <1>1, <1>2, <3>1, <4>1, <4>2, RankOfRecord DEF history, OwedGoes, Shown, Has
    <3>3. CASE x \notin ids
      BY <1>1, <1>3, <3>1, <3>3, StaleIs DEF history
    <3> QED
      BY <3>2, <3>3
  <2>4. CASE ClearHistory(t)
    <3>1. store' = Clearing /\ UNCHANGED history
      BY <2>4 DEF ClearHistory, Write
    <3>2. CASE x \in Cleared
      <4>1. ~store[x].unknown /\ (store[x].status \in Terminal \/ Expired(x))
        BY <3>2 DEF Cleared
      <4> QED
        BY <1>1, <1>2, <3>1, <4>1 DEF history, OwedGoes, Shown, Terminal
    <3>3. CASE x \notin Cleared
      BY <1>1, <1>3, <3>1, <3>3, ClearingIs DEF history
    <3> QED
      BY <3>2, <3>3
  <2> QED
    BY <1>6, <2>1, <2>2, <2>3, <2>4
<1>7. ASSUME NEW t \in Thread, NEW id \in Id,
            \/ Snapshot(t, id) \/ RecordFails(t, id)
            \/ FileEnqueue(t, id) \/ PgEnqueue(t, id) \/ SetRationale(t, id)
            \/ FileClaim(t, id) \/ FileDeny(t, id) \/ Lapse(t, id)
            \/ PgClaim(t, id) \/ PgDeny(t, id)
            \/ Refused(t, id) \/ Called(t, id) \/ Answered(t, id) \/ CallFails(t, id)
            \/ Grant(t, id) \/ NotGranted(t, id) \/ RecordExecution(t, id)
            \/ Resolve(t, id)
      PROVE OwedGoes(x)
  <2>1. CASE Snapshot(t, id) \/ NotGranted(t, id)
    BY <1>1, <1>3, <2>1 DEF Snapshot, NotGranted, history
  <2>2. CASE RecordFails(t, id)
    BY <1>1, <1>3, <2>2 DEF RecordFails
  <2>3. CASE FileEnqueue(t, id)
    <3>1. store' = [store EXCEPT ![id] = New] /\ store[id] = None /\ UNCHANGED history
      BY <2>3 DEF FileEnqueue, Write
    <3> QED
      BY <1>1, <1>2, <1>3, <3>1, RankOfRecord DEF history, OwedGoes, TypeOK
  <2>4. CASE PgEnqueue(t, id)
    <3>1. store' = [Moved(Newly, "expired") EXCEPT ![id] = New] /\ store[id] = None
            /\ UNCHANGED history
      BY <2>4 DEF PgEnqueue, Write
    <3>2. x # id /\ x \notin Newly => store'[x] = store[x]
      BY <3>1 DEF Moved
    <3>3. x = id \/ x \in Newly => ~(x \in owed /\ x \notin lost /\ ~SlowCalls)
      BY <1>2, <3>1, RankOfRecord DEF Newly
    <3> QED
      BY <1>1, <1>3, <3>1, <3>2, <3>3 DEF history, OwedGoes, TypeOK
  <2>5. CASE SetRationale(t, id)
    BY <1>1, <1>3, <2>5 DEF SetRationale, Write, history
  <2>6. CASE FileClaim(t, id) \/ PgClaim(t, id) \/ FileDeny(t, id) \/ PgDeny(t, id)
               \/ Lapse(t, id)
    <3>1. PICK status \in Status : store' = Moved({id}, status) /\ UNCHANGED history
                 /\ Has(id, "pending")
      BY <2>6 DEF FileClaim, PgClaim, FileDeny, PgDeny, Lapse, Open, Expired, Write,
             Status, Terminal
    <3>2. x # id => store'[x] = store[x]
      BY <3>1 DEF Moved
    <3> QED
      BY <1>1, <1>2, <1>3, <3>1, <3>2 DEF history, OwedGoes
  <2>7. CASE Ends(t, id)
    <3>1. /\ Claiming(job[t], id) /\ store'[id] \in Approval
          /\ store'[id].status = IF Answered(t, id) THEN "executed" ELSE "error"
          /\ CallFails(t, id) => store'[id].unknown
          /\ store'[id].cleared = store[id].cleared
          /\ \A y \in Id : y # id => store'[y] = store[y]
      BY <2>7, EndsIs
    <3>2. acts' = acts /\ owed' \subseteq owed /\ (Answered(t, id) => owed' = owed \ {id})
      BY <2>7 DEF Ends, Refused, Answered, CallFails, history
    <3>3. CASE x # id
      BY <1>1, <1>3, <3>1, <3>2, <3>3
    <3>4. CASE x = id
      <4>1. SUFFICES ASSUME x \in owed', x \notin lost, ~SlowCalls PROVE Shown(x)'
        BY <1>1, <3>2 DEF OwedGoes
      <4>2. x \in owed /\ ~Answered(t, id)
        BY <3>2, <3>4, <4>1
      <4>3. Has(x, "approved") /\ job[t].at = "waiting" /\ ~store[x].cleared
        BY <1>2, <3>1, <3>4, <4>1, <4>2 DEF Has
      <4>4. CallFails(t, id)
        BY <2>7, <4>2, <4>3 DEF Ends, Refused, At
      <4> QED
        BY <3>1, <3>4, <4>2, <4>3, <4>4, RankOfRecord DEF Shown
    <3> QED
      BY <3>3, <3>4
  <2>8. CASE Called(t, id)
    <3>1. /\ At(t, "call", id) /\ job' = [job EXCEPT ![t].at = "waiting"]
          /\ acts' = [acts EXCEPT ![id] = @ + 1] /\ owed' = owed \cup {id}
          /\ UNCHANGED <<backend, store, file, filed>>
      BY <2>8 DEF Called, config, disk
    <3>2. CASE x # id
      BY <1>1, <1>3, <3>1, <3>2 DEF TypeOK
    <3>3. CASE x = id
      <4>1. acts'[x] = acts[x] + 1
        BY <1>1, <3>1, <3>3 DEF TypeOK
      <4>2. \A u \in Thread : job'[u].at = "append" => job'[u] = job[u]
        BY <1>1, <3>1 DEF TypeOK, Job
      <4> QED
        BY <3>1, <3>3, <4>1, <4>2 DEF OwedGoes
    <3> QED
      BY <3>2, <3>3
  <2>9. CASE Grant(t, id)
    <3>1. /\ At(t, "build", id) /\ store' = Moved({id}, "granted") /\ owed' = owed
          /\ acts' = [acts EXCEPT ![id] = @ + 1]
      BY <2>9 DEF Grant, Write
    <3>2. acts'[x] >= acts[x]
      BY <1>1, <3>1 DEF TypeOK
    <3>3. CASE x # id
      BY <1>3, <3>1, <3>2, <3>3 DEF Moved
    <3>4. CASE x = id
      <4>1. Claiming(job[t], id) /\ job[t].at # "waiting"
        BY <3>1 DEF At, Claiming
      <4> QED
        BY <1>2, <3>1, <3>2, <3>4, <4>1 DEF OwedGoes
    <3> QED
      BY <3>3, <3>4
  <2>10. CASE RecordExecution(t, id)
    <3>1. Has(id, "granted") /\ UNCHANGED history /\ \A y \in Id : y # id
            => store'[y] = store[y]
      BY <1>1, <2>10 DEF RecordExecution, Finish, Write, TypeOK
    <3> QED
      BY <1>1, <1>2, <1>3, <3>1 DEF history, OwedGoes
  <2>11. CASE Resolve(t, id)
    <3>1. owed' = owed \ {id} /\ acts' = acts /\ store' = [store EXCEPT ![id].unknown = FALSE]
      BY <2>11 DEF Resolve, Write
    <3> QED
      BY <1>1, <1>3, <3>1 DEF OwedGoes, TypeOK
  <2> QED
    BY <1>7, <2>1, <2>2, <2>3, <2>4, <2>5, <2>6, <2>7, <2>8, <2>9, <2>10, <2>11 DEF Ends
<1> QED
  BY <1>4, <1>5, <1>6, <1>7 DEF Next

\* A restart reads back a line in which what is owed is in sight.
LEMMA OwedRestart ==
  ASSUME IInv, JournalInv, OwedInv, Restart
  PROVE  OwedInv'
<1>1. /\ backend = "file" /\ backend' = "file" /\ store' = file /\ file' = file
           /\ UNCHANGED <<acts, owed>>
      /\ filed' = [id \in Id |-> Rank(file[id])]
      /\ lost' = lost \cup {id \in Id : Rank(file[id]) < filed[id]}
      /\ \A t \in Thread : job'[t].at = "idle"
  BY DEF Restart, config, history, Idle
<1>2. ASSUME ~SlowCalls, NEW x \in owed \ lost' PROVE OwedIs(x)'
  <2>1. /\ x \in Id /\ x \notin lost /\ x \in owed /\ filed[x] \in 0 .. 4
        /\ Rank(file[x]) \in 0 .. 4 /\ filed'[x] = Rank(file[x]) /\ Rank(file[x]) >= filed[x]
    <3>1. x \in Id /\ file[x] \in Approval \cup {None} /\ filed[x] \in 0 .. 4
      BY <1>2 DEF IInv, TypeOK
    <3>2. Rank(file[x]) \in 0 .. 4
      BY <3>1, RankType
    <3> QED
      BY <1>1, <1>2, <3>1, <3>2
  <2>2. filed[x] >= 2 /\ Seen(file[x])
    BY <1>1, <1>2, <2>1 DEF OwedInv, OwedIs
  <2> QED
    BY <1>1, <2>1, <2>2 DEF OwedIs
<1> QED
  BY <1>1, <1>2 DEF OwedInv

\* What is owed stays in sight: the step of OwedInv.
LEMMA OwedStep ==
  ASSUME IInv, ClaimInv, StoreInv, JournalInv, OwedInv, [Next]_vars
  PROVE  OwedInv'
<1>1. CASE Restart
  BY <1>1, OwedRestart
<1>2. CASE ~Restart
  <2>1. /\ TypeOK /\ TypeOK' /\ JournalInv' /\ Goals
    BY <1>2, StepKeeps, JournalStep, GoesStep DEF IInv
  <2>2. \A x \in owed' : acts'[x] >= 1
    <3>1. ASSUME NEW x \in owed' PROVE acts'[x] >= 1
      <4>1. x \in Id /\ acts[x] \in Nat /\ acts'[x] \in Nat /\ (x \in owed => acts[x] >= 1)
        BY <2>1 DEF TypeOK, OwedInv
      <4>2. OwedGoes(x)
        BY <1>2, <4>1, OwedGoesStep
      <4> QED
        BY <3>1, <4>1, <4>2 DEF OwedGoes
    <3> QED
      BY <3>1
  <2>3. ASSUME ~SlowCalls, NEW x \in owed' \ lost PROVE OwedIs(x)'
    <3>1. /\ x \in Id /\ OwedGoes(x) /\ FileGoes(x) /\ backend' = backend
          /\ store[x] \in Approval \cup {None} /\ store'[x] \in Approval \cup {None}
          /\ filed[x] \in 0 .. 4 /\ filed'[x] \in 0 .. 4 /\ file[x] \in Approval \cup {None}
      BY <1>2, <2>1, <2>3, OwedGoesStep DEF TypeOK, Goals
    <3>2. CASE x \in owed /\ Shown(x)'
      <4>1. OwedIs(x)
        BY <2>3, <3>2 DEF OwedInv
      <4>2. Rank(store'[x]) >= 2 /\ Seen(store'[x])
        BY <3>1, <3>2, SeenIs DEF Shown
      <4>3. backend' = "file" => filed'[x] >= 2 /\ Seen(file'[x])
        BY <3>1, <4>1 DEF FileGoes, OwedIs
      <4>4. ASSUME NEW u \in Thread, job'[u].at = "append", job'[u].line.id = x
            PROVE Seen(job'[u].line.a)
        <5>1. JobGoes(u)
          BY <2>1 DEF Goals
        <5> QED
          BY <4>1, <4>2, <4>4, <5>1 DEF JobGoes, OwedIs
      <4> QED
        BY <4>2, <4>3, <4>4 DEF OwedIs
    <3>3. ASSUME NEW t \in Thread, At(t, "call", x), UNCHANGED <<backend, store, file, filed>>,
                 \A u \in Thread : job'[u].at = "append" => job'[u] = job[u]
          PROVE OwedIs(x)'
      <4>1. Claiming(job[t], x)
        BY <3>3 DEF At, Claiming
      <4>2. Has(x, "approved") /\ (backend = "file" => filed[x] >= 2)
        <5>1. Has(x, "approved")
          BY <2>3, <3>1, <4>1 DEF ClaimInv, GivenUp
        <5>2. job[t].at = "call"
          BY <3>3 DEF At
        <5>3. backend = "file" => filed[x] >= 2
          BY <3>1, <4>1, <5>2 DEF IInv, Claimed, ClaimKept
        <5> QED
          BY <5>1, <5>3
      <4>3. store[x] \in Approval /\ Rank(store[x]) = 2
        BY <3>1, <4>2, RankOfRecord DEF Has
      <4>4. ASSUME NEW a \in Approval \cup {None}, Follows(store[x], a) PROVE Seen(a)
        BY <4>3, <4>4, NoneAssumption DEF Follows, Seen, Rank, Approval, Status, Terminal
      <4>5. Seen(store[x])
        BY <4>2, <4>3 DEF Seen, Has
      <4>6. backend = "file" => Seen(file[x])
        BY <3>1, <4>4 DEF JournalInv
      <4>7. ASSUME NEW u \in Thread, job'[u].at = "append", job'[u].line.id = x
            PROVE Seen(job'[u].line.a)
        <5>1. job'[u] = job[u]
          BY <3>3, <4>7
        <5>2. backend = "file" /\ job[u].line.a \in Approval
          BY <2>1, <4>7, <5>1 DEF TypeOK, IInv, Held, Job
        <5>3. Follows(store[x], job[u].line.a)
          BY <4>7, <5>1, <5>2 DEF JournalInv, Lined
        <5> QED
          BY <4>4, <5>1, <5>2, <5>3
      <4> QED
        BY <3>3, <4>2, <4>3, <4>5, <4>6, <4>7 DEF OwedIs
    <3> QED
      BY <2>3, <3>1, <3>2, <3>3 DEF OwedGoes
  <2> QED
    BY <2>1, <2>2, <2>3 DEF OwedInv, Goals
<1> QED
  BY <1>1, <1>2

\* The inductive invariant: claims, records, journal, answers and what is owed need
\* each other.
RecordInv == IInv /\ ClaimInv /\ StoreInv /\ JournalInv /\ SaidInv /\ OwedInv

\* No record that still waits is hidden, by any step or restart.
LEMMA StoreStep ==
  ASSUME IInv, ClaimInv, StoreInv, JournalInv, [Next]_vars
  PROVE  StoreInv'
<1>1. CASE Restart
  BY <1>1 DEF Restart, JournalInv, StoreInv
<1>2. CASE ~Restart
  BY <1>2, GrowsStep
<1> QED
  BY <1>1, <1>2

\* An empty queue is one.
LEMMA InitRecords == Init => RecordInv
<1> SUFFICES ASSUME Init PROVE RecordInv
  OBVIOUS
<1>1. Rank(None) = 0
  BY DEF Rank
<1>2. \A x \in Id : store[x] = None /\ file[x] = None /\ filed[x] = 0 /\ said[x] = None
  BY DEF Init
<1>3. \A t \in Thread : job[t].at = "idle" /\ job[t].ids = {}
  BY DEF Init, Idle
<1>4. aged = {} /\ owed = {}
  BY DEF Init
<1>5. ClaimInv
  BY <1>3, <1>4 DEF ClaimInv, Claiming
<1>6. StoreInv
  BY <1>1, <1>2 DEF StoreInv, Uncleared
<1>7. JournalInv
  BY <1>1, <1>2, <1>3 DEF JournalInv, Follows, Uncleared
<1>8. SaidInv
  BY <1>2 DEF SaidInv, SaidIs
<1>9. OwedInv
  BY <1>4 DEF OwedInv
<1> QED
  BY InitKeeps, <1>5, <1>6, <1>7, <1>8, <1>9 DEF RecordInv

\* In every reachable state a claimed record is approved or was given up, the journal
\* is one its records have followed, and what was answered or is owed is kept in both
\* (approvals.py, _journal, _replay, _finish and reconcile_stale).
THEOREM RecordsFollow == Spec => []RecordInv
<1>1. RecordInv /\ [Next]_vars => RecordInv'
  <2> SUFFICES ASSUME RecordInv, [Next]_vars PROVE RecordInv'
    OBVIOUS
  <2> QED
    BY StepKeeps, ClaimStep, StoreStep, JournalStep, SaidStep, OwedStep DEF RecordInv
<1> QED
  BY InitRecords, <1>1, PTL DEF Spec

\* An answer of the queue stands across restarts, faults and full disks: no accepted
\* request is forgotten, no denial or recorded error is taken back, and no grant or
\* execution is ever pending, denied or expired again, except where a restart reads
\* an earlier line of the record than the last one appended.
THEOREM Stands == Spec => []AnswerStands
<1>1. RecordInv => AnswerStands
  <2> SUFFICES ASSUME RecordInv, NEW id \in Id \ lost, said[id] # None
               PROVE  /\ store[id] # None
                      /\ said[id] \in {"denied", "error"} => Has(id, said[id])
                      /\ said[id] \in {"granted", "executed"} =>
                           store[id].status \in {"approved", "granted", "executed", "error"}
    BY DEF AnswerStands
  <2>1. SaidIs(id) /\ store[id] \in Approval \cup {None}
    BY DEF RecordInv, SaidInv, IInv, TypeOK
  <2>2. store[id] \in Approval /\ (said[id] \in {"denied", "error"} => Has(id, said[id]))
    BY <2>1 DEF SaidIs
  <2>3. said[id] \in {"granted", "executed"} =>
          Rank(store[id]) >= 2 /\ store[id].status \notin {"denied", "expired"}
    BY <2>1 DEF SaidIs
  <2>4. Rank(store[id]) >= 2 => store[id].status # "pending"
    BY <2>2, RankOfRecord
  <2>5. store[id].status \in Status
    BY <2>2 DEF Approval
  <2> QED
    BY <2>1, <2>2, <2>3, <2>4, <2>5, RankOfRecord DEF Status, Terminal
<1> QED
  BY RecordsFollow, <1>1, PTL

\* A call whose end nobody knows stays in sight until a human resolves it
\* (clear_history, approvals.py:229), as long as the configured timeout_s keeps every call
\* within the ten minutes of reconcile_stale.  Without that bound it is false: a call that
\* leaves after its record was given up and resolved is in nobody's sight.
THEOREM OwedIsSeen == ~SlowCalls => (Spec => []OutcomeIsOwed)
<1> SUFFICES ASSUME ~SlowCalls PROVE Spec => []OutcomeIsOwed
  OBVIOUS
<1>1. RecordInv => OutcomeIsOwed
  <2> SUFFICES ASSUME RecordInv, NEW id \in owed \ lost
               PROVE  Has(id, "approved") \/ (Has(id, "error") /\ id \in Attention)
    BY DEF OutcomeIsOwed
  <2>1. OwedIs(id) /\ id \in Id /\ store[id] \in Approval \cup {None}
    BY DEF RecordInv, OwedInv, IInv, TypeOK
  <2>2. store[id] \in Approval
    BY <2>1, RankType DEF OwedIs
  <2> QED
    BY <2>1, <2>2, SeenIs, RankOfRecord DEF OwedIs, Has, Attention
<1> QED
  BY RecordsFollow, <1>1, PTL

=============================================================================
