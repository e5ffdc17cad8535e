------------------------- MODULE ConnectionProofs -------------------------
(***************************************************************************)
(* Proofs about Connection for any number of callers and connections, and   *)
(* about Gate for any settings, tools and accounts.                         *)
(***************************************************************************)
EXTENDS Connection, Gate, TLAPS

(***************************************************************************)
(* The inductive invariant.                                                 *)
(***************************************************************************)

InHand == {"dropping", "waiting", "leaving", "calling", "torn", "cancelled"}

\* A task that is past the lock has a connection in hand.
HandInv == \A c \in Tasks : pc[c] \in InHand => mine[c] \in Conn

\* Who drops a connection has the lock, and what it drops is stopped and pooled:
\* nobody replaces it meanwhile.
DropInv ==
  \A c \in Tasks : pc[c] = "dropping" =>
    /\ line # <<>> /\ Head(line) = c
    /\ mine[c] = pool /\ stop[mine[c]]

\* Who leaves a connection has stopped it, a caller after its patience and the
\* closer after it took it from the pool.
LeaveInv ==
  \A c \in Tasks : pc[c] = "leaving" =>
    /\ stop[mine[c]]
    /\ c \in Caller => mine[c] \in overdue
    /\ c = Closer => mine[c] # pool

\* What only a stop can have done to a connection.
StopInv ==
  \A k \in Conn :
    /\ cancelled[k] \/ task[k] = "closing" => stop[k]
    /\ status[k] = "connected" /\ ~session[k] => stop[k]
    /\ status[k] = "error" /\ Running(k) => stop[k]
    /\ ready[k] = "up" /\ ~session[k] => stop[k] \/ status[k] = "error"

\* The pooled connection is cancelled by none but its maker.
PoolInv == pool # None => (cancelled[pool] => pool \in overdue)

\* One that runs unstopped is the pooled one.
OrphanInv == \A k \in Conn : Running(k) /\ ~stop[k] /\ ~cancelled[k] => k = pool

IInv ==
  /\ TypeOK
  /\ HandInv /\ DropInv /\ LeaveInv /\ StopInv /\ PoolInv
  /\ OrphanInv /\ FailsOnlyByOthers

----------------------------------------------------------------------------

(***************************************************************************)
(* What a connection's own task does.                                       *)
(***************************************************************************)
LEMMA TaskKeeps ==
  ASSUME IInv, NEW k \in Conn, Connects(k) \/ Unwind(k) PROVE IInv'
  <1> USE ConnectionAssumption DEF IInv, TypeOK, HandInv, DropInv, LeaveInv, StopInv, PoolInv,
           OrphanInv, FailsOnlyByOthers, InHand, Running, Tasks, callVars
  <1>1. CASE Connect(k)
    BY <1>1 DEF Connect
  <1>2. CASE Fail(k)
    BY <1>2 DEF Fail, Ends
  <1>3. CASE Stop(k)
    BY <1>3 DEF Stop
  <1>4. CASE Close(k)
    BY <1>4 DEF Close, Ends
  <1>5. CASE Unwind(k)
    BY <1>5 DEF Unwind, Ends
  <1>6. CASE BackoffEnds(k)
    BY <1>6 DEF BackoffEnds
  <1>7. QED
    BY <1>1, <1>2, <1>3, <1>4, <1>5, <1>6 DEF Connects

(***************************************************************************)
(* Steps of a caller that change no connection: it enters the line, takes   *)
(* what is there, or is through.                                            *)
(***************************************************************************)
LEMMA CallerKeeps ==
  ASSUME IInv, NEW c \in Tasks, UNCHANGED connVars,
         \/ Call(c) \/ LeaveEnds(c) \/ LeaveIsCancelled(c) \/ Return(c)
         \/ /\ c \in Caller
            /\ \/ Reuse(c) \/ RefuseInBackoff(c) \/ DropIsCancelled(c)
               \/ Answered(c) \/ Failed(c)
  PROVE  IInv'
  <1> USE ConnectionAssumption DEF IInv, HandInv, DropInv, LeaveInv, StopInv, PoolInv,
           OrphanInv, FailsOnlyByOthers, InHand, Running, Tasks, connVars, TypeOK, Go
  <1>1. CASE Call(c)
    BY <1>1 DEF Call
  <1>2. CASE LeaveEnds(c)
    BY <1>2 DEF LeaveEnds, Leaves
  <1>3. CASE LeaveIsCancelled(c)
    BY <1>3 DEF LeaveIsCancelled
  <1>4. CASE Return(c)
    BY <1>4 DEF Return, Leaves
  <1>5. CASE c \in Caller /\ Reuse(c)
    BY <1>5 DEF Reuse, Use, Release, Enters, Holds, Reusable
  <1>6. CASE RefuseInBackoff(c)
    BY <1>6 DEF RefuseInBackoff, Enters, Holds, Release
  <1>7. CASE c \in Caller /\ DropIsCancelled(c)
    BY <1>7 DEF DropIsCancelled, Release
  <1>8. CASE c \in Caller /\ Answered(c)
    BY <1>8 DEF Answered, Use
  <1>9. CASE Failed(c)
    BY <1>9 DEF Failed
  <1>10. QED
    BY <1>1, <1>2, <1>3, <1>4, <1>5, <1>6, <1>7, <1>8, <1>9

(***************************************************************************)
(* A caller stops, or gives up, the connection it has in hand.              *)
(***************************************************************************)
LEMMA StopsKeep ==
  ASSUME IInv, NEW c \in Tasks,
         \/ LeaveTimesOut(c)
         \/ c \in Caller /\ (Drop(c) \/ TimesOut(c))
         \/ Invalidate
  PROVE  IInv'
  <1> USE ConnectionAssumption DEF IInv, HandInv, DropInv, LeaveInv, StopInv, PoolInv,
           OrphanInv, FailsOnlyByOthers, InHand, Running, Tasks, Go, Enters, Holds
  <1>1. CASE LeaveTimesOut(c)
    BY <1>1 DEF LeaveTimesOut, Leaves, TypeOK
  <1>2. CASE c \in Caller /\ Drop(c)
    BY <1>2 DEF Drop, TypeOK
  <1>3. CASE c \in Caller /\ TimesOut(c)
    BY <1>3 DEF TimesOut, TypeOK
  <1>4. CASE Invalidate
    <2> USE <1>4 DEF Invalidate
    <2>1. line' \in Seq(Tasks)
      BY DEF Release, TypeOK
    <2>2. TypeOK'
      <3>1. stop' \in [Conn -> BOOLEAN]
        <4>1. CASE pool = None
          BY <4>1 DEF TypeOK
        <4>2. CASE pool # None
          <5>1. stop' = [stop EXCEPT ![pool] = TRUE]
            BY <4>2
          <5>2. QED
            BY <5>1 DEF TypeOK
        <4>3. QED
          BY <4>1, <4>2
      <3>2. pc'[Closer] \in {"leaving", "over"} /\ mine'[Closer] \in Conn \cup {None}
        BY DEF TypeOK
      <3>3. QED
        BY <2>1, <3>1, <3>2 DEF TypeOK
    <2>3. HandInv' /\ StopInv' /\ PoolInv' /\ FailsOnlyByOthers'
      BY DEF TypeOK
    <2>4. DropInv' /\ LeaveInv'
      BY DEF TypeOK
    <2>5. OrphanInv'
      BY DEF TypeOK
    <2>6. QED
      BY <2>2, <2>3, <2>4, <2>5
  <1>5. QED
    BY <1>1, <1>2, <1>3, <1>4

(***************************************************************************)
(* A dial by the holder of the lock, once the connection it replaces was     *)
(* stopped or is not running.                                               *)
(***************************************************************************)
LEMMA DialsKeeps ==
  ASSUME IInv, NEW c \in Caller, NEW given \in SUBSET Conn, Dials(c, given),
         Holds(c), \A j \in given : stop[j] /\ mine[c] = j,
         pool = None \/ ~Running(pool) \/ stop[pool]
  PROVE  IInv'
  <1> USE ConnectionAssumption DEF IInv, HandInv, DropInv, LeaveInv, StopInv, PoolInv,
           OrphanInv, FailsOnlyByOthers, InHand, Running, Tasks, Go, Holds, TypeOK, Release
  <1>1. PICK k \in Conn : Dials(c, given)!(k)
    BY DEF Dials
  <1> USE <1>1
  <1>2. TypeOK'
    BY DEF Free
  <1>3. HandInv' /\ FailsOnlyByOthers'
    BY DEF Free
  <1>4. DropInv'
    BY DEF Free
  <1>5. LeaveInv'
    BY DEF Free
  <1>6. StopInv'
    <2>1. \A j \in Conn \ {k} :
            /\ task'[j] = task[j] /\ status'[j] = status[j]
            /\ stop'[j] = stop[j] /\ ready'[j] = ready[j]
            /\ session'[j] = (session[j] /\ j \notin given)
            /\ cancelled'[j] = (cancelled[j] \/ j \in given)
      OBVIOUS
    <2>2. status'[k] = "connecting" /\ ready'[k] = "pending" /\ task'[k] = "dialing"
      OBVIOUS
    <2>3. ~cancelled'[k]
      OBVIOUS
    <2>4. QED
      BY <2>1, <2>2, <2>3
  <1>7. PoolInv'
    <2>1. pool' = k /\ ~cancelled'[k]
      OBVIOUS
    <2>2. QED
      BY <2>1
  <1>8. OrphanInv'
    BY DEF Free
  <1>9. QED
    BY <1>2, <1>3, <1>4, <1>5, <1>6, <1>7, <1>8

LEMMA DialKeeps ==
  ASSUME IInv, NEW c \in Caller, Dial(c) \/ DropEnds(c) \/ DropTimesOut(c)
  PROVE  IInv'
  <1>1. CASE Dial(c)
    <2>1. Holds(c) /\ Dials(c, {}) /\ (pool = None \/ ~Running(pool))
      BY <1>1 DEF Dial, Enters
    <2>2. QED
      BY <2>1, DialsKeeps
  <1>2. CASE DropEnds(c)
    <2>1. Holds(c) /\ stop[pool]
      BY <1>2 DEF DropEnds, IInv, DropInv, Holds, Tasks
    <2>2. QED
      BY <1>2, <2>1, DialsKeeps DEF DropEnds
  <1>3. CASE DropTimesOut(c)
    <2>1. Holds(c) /\ stop[pool] /\ stop[mine[c]] /\ mine[c] \in Conn
      BY <1>3 DEF DropTimesOut, IInv, DropInv, HandInv, InHand, Holds, Tasks
    <2>2. QED
      BY <1>3, <2>1, DialsKeeps DEF DropTimesOut
  <1>4. QED
    BY <1>1, <1>2, <1>3

(***************************************************************************)
(* A caller cancelled from outside gives up its place in the line, or the    *)
(* future it waits for.  Who drops a connection is still the first.         *)
(***************************************************************************)
LEMMA PlaceGivenUp ==
  ASSUME line \in Seq(Tasks), NEW i \in 1..Len(line), GiveUpPlace(i)
  PROVE  /\ line' \in Seq(Tasks)
         /\ i # 1 => line' # <<>> /\ Head(line') = Head(line)
  <1>1. \A j \in 1..(Len(line) - 1) : line[IF j < i THEN j ELSE j + 1] \in Tasks
    OBVIOUS
  <1>2. line' \in Seq(Tasks) /\ Len(line') = Len(line) - 1
    BY <1>1 DEF GiveUpPlace
  <1>3. ASSUME i # 1 PROVE line' # <<>> /\ Head(line') = Head(line)
    <2>1. Len(line') > 0 /\ line'[1] = line[1]
      BY <1>2, <1>3 DEF GiveUpPlace
    <2>2. QED
      BY <1>2, <2>1
  <1>4. QED
    BY <1>2, <1>3

LEMMA CancelKeeps ==
  ASSUME IInv, NEW c \in Caller, CancelCaller(c) PROVE IInv'
  <1> USE ConnectionAssumption DEF IInv, HandInv, DropInv, LeaveInv, StopInv, PoolInv,
           OrphanInv, FailsOnlyByOthers, InHand, Running, Tasks, Go, CancelCaller
  <1>1. /\ line' \in Seq(Tasks)
        /\ \A d \in Tasks \ {c} :
             line # <<>> /\ Head(line) = d => line' # <<>> /\ Head(line') = d
    <2>1. CASE UNCHANGED line
      BY <2>1 DEF TypeOK
    <2>2. CASE \E i \in 1..Len(line) : line[i] = c /\ GiveUpPlace(i)
      <3>1. PICK i \in 1..Len(line) : line[i] = c /\ GiveUpPlace(i)
        BY <2>2
      <3>2. line \in Seq(Tasks)
        BY DEF TypeOK
      <3>3. \A d \in Tasks \ {c} : Head(line) = d => i # 1
        BY <3>1, <3>2
      <3>4. QED
        BY <3>1, <3>2, <3>3, PlaceGivenUp
    <2>3. QED
      BY <2>1, <2>2
  <1>2. /\ ready' \in [Conn -> {"pending", "up", "failed"}]
        /\ \A k \in Conn : ready'[k] = "up" => ready[k] = "up"
    BY DEF TypeOK
  <1>3. pc' = [pc EXCEPT ![c] = "idle"] /\ mine' = [mine EXCEPT ![c] = None]
    OBVIOUS
  <1>4. TypeOK'
    BY <1>1, <1>2, <1>3 DEF TypeOK
  <1>5. DropInv'
    BY <1>1, <1>3 DEF TypeOK
  <1>6. HandInv' /\ LeaveInv' /\ FailsOnlyByOthers'
    BY <1>3 DEF TypeOK
  <1>7. StopInv' /\ PoolInv' /\ OrphanInv'
    BY <1>2 DEF TypeOK
  <1>8. QED
    BY <1>4, <1>5, <1>6, <1>7

LEMMA StutterKeeps ==
  ASSUME IInv, UNCHANGED vars PROVE IInv'
  BY DEF IInv, TypeOK, HandInv, DropInv, LeaveInv, StopInv, PoolInv,
           OrphanInv, FailsOnlyByOthers, InHand, Running, Tasks, Holds, vars

LEMMA InitKeeps == Init => IInv
  <1> SUFFICES ASSUME Init PROVE IInv
    OBVIOUS
  <1> USE ConnectionAssumption DEF Init
  <1>1. TypeOK
    BY DEF TypeOK, Tasks
  <1>2. HandInv /\ DropInv /\ LeaveInv /\ FailsOnlyByOthers
    BY DEF HandInv, DropInv, LeaveInv, FailsOnlyByOthers, InHand, Tasks
  <1>3. StopInv /\ PoolInv /\ OrphanInv
    BY DEF StopInv, PoolInv, OrphanInv, Running
  <1>4. QED
    BY <1>1, <1>2, <1>3 DEF IInv

LEMMA StepKeeps ==
  ASSUME IInv, [Next]_vars PROVE IInv'
  <1>1. ASSUME NEW k \in Conn, Connects(k) \/ Unwind(k) PROVE IInv'
    BY <1>1, TaskKeeps
  <1>2. ASSUME NEW c \in Caller, Steps(c) PROVE IInv'
    <2>1. c \in Tasks
      BY DEF Tasks
    <2>2. CASE Dial(c) \/ DropEnds(c) \/ DropTimesOut(c)
      BY <2>2, DialKeeps
    <2>3. CASE Drop(c) \/ TimesOut(c)
      BY <2>1, <2>3, StopsKeep
    <2>4. CASE \/ Reuse(c) \/ RefuseInBackoff(c) \/ DropIsCancelled(c)
               \/ Answered(c) \/ Failed(c)
      <3>1. UNCHANGED connVars
        BY <2>4 DEF Reuse, RefuseInBackoff, DropIsCancelled, Answered, Failed, connVars
      <3>2. QED
        BY <2>1, <2>4, <3>1, CallerKeeps
    <2>5. QED
      BY <1>2, <2>2, <2>3, <2>4 DEF Steps
  <1>3. ASSUME NEW c \in Tasks, Waits(c) \/ Call(c) PROVE IInv'
    <2>1. CASE LeaveTimesOut(c)
      BY <2>1, StopsKeep
    <2>2. CASE Call(c) \/ LeaveEnds(c) \/ LeaveIsCancelled(c) \/ Return(c)
      <3>1. UNCHANGED connVars
        BY <2>2 DEF Call, LeaveEnds, LeaveIsCancelled, Return, connVars
      <3>2. QED
        BY <2>2, <3>1, CallerKeeps
    <2>3. QED
      BY <1>3, <2>1, <2>2 DEF Waits
  <1>4. CASE Invalidate
    BY <1>4, StopsKeep DEF Tasks
  <1>5. CASE UNCHANGED vars
    BY <1>5, StutterKeeps
  <1>6. ASSUME NEW c \in Caller, CancelCaller(c) PROVE IInv'
    BY <1>6, CancelKeeps
  <1>7. QED
    BY <1>1, <1>2, <1>3, <1>4, <1>5, <1>6 DEF Next, Tasks

----------------------------------------------------------------------------

(***************************************************************************)
(* The invariant holds for any callers and connections, whatever the broker *)
(* does and in whatever order callers give up.                              *)
(***************************************************************************)
THEOREM Inductive == Spec => []IInv
  <1>1. Init => IInv
    BY InitKeeps
  <1>2. IInv /\ [Next]_vars => IInv'
    BY StepKeeps
  <1>3. QED
    BY <1>1, <1>2, PTL DEF Spec

(***************************************************************************)
(* No connection of the hub runs unstopped outside the pool, so none is     *)
(* left to itself when callers replace and give up on it.                   *)
(***************************************************************************)
THEOREM NeverOrphaned == Spec => []NoOrphan
  <1>1. IInv => NoOrphan
    BY DEF IInv, NoOrphan, OrphanInv
  <1>2. QED
    BY <1>1, Inductive, PTL

(***************************************************************************)
(* A call loses its session only to another task or to the broker, and is   *)
(* cancelled only over a dial that outlasted its maker's patience.          *)
(***************************************************************************)
THEOREM OthersOnly == Spec => []FailsOnlyByOthers
  <1>1. IInv => FailsOnlyByOthers
    BY DEF IInv
  <1>2. QED
    BY <1>1, Inductive, PTL

----------------------------------------------------------------------------

(***************************************************************************)
(* The gate.  What it grants of a write.                                    *)
(***************************************************************************)
LEMMA GrantedWrite ==
  ASSUME NEW s, NEW tool, NEW hint, NEW named \in SUBSET Account, NEW presence,
         IsWrite(s, tool, hint), Decision(s, tool, hint, named, presence) # "deny"
  PROVE  /\ s.allow_writes
         /\ Tiered(s) => named \subseteq s.allow
         /\ s.broker => Tiered(s)
         /\ Tiered(s) /\ presence /\ s.require_account_arg => named \cap s.allow # {}
  <1>1. Passes(s, tool, hint, named, presence)
    BY DEF Decision
  <1>2. s.allow_writes /\ AccountsPass(s, IsWrite(s, tool, hint), named, presence)
    BY <1>1 DEF Passes
  <1>3. QED
    BY <1>2 DEF AccountsPass

(***************************************************************************)
(* A call that is granted without its arguments known is not granted less   *)
(* with them left out, and the verdict is otherwise the same.               *)
(***************************************************************************)
LEMMA ListingCoversCall ==
  ASSUME NEW s, NEW tool, NEW hint, NEW named \in SUBSET Account,
         Decision(s, tool, hint, named, TRUE) # "deny"
  PROVE  Advertised(s, tool, hint) = Decision(s, tool, hint, named, TRUE)
  <1>1. Passes(s, tool, hint, named, TRUE)
    BY DEF Decision
  <1>2. AccountsPass(s, IsWrite(s, tool, hint), {}, FALSE)
    BY <1>1 DEF Passes, AccountsPass
  <1>3. Passes(s, tool, hint, {}, FALSE)
    BY <1>1, <1>2 DEF Passes
  <1>4. QED
    BY <1>1, <1>3 DEF Advertised, Decision

(***************************************************************************)
(* A write that is not denied was permitted, and every account it names is   *)
(* confirmed; on a broker only a connector with tiers and without            *)
(* require_account_arg lets one pass that names none.  For every setting a   *)
(* registry can hold.                                                       *)
(***************************************************************************)
THEOREM NamedWritesConfirmed == GateSpec => []NamedWritesAreConfirmed
  <1>1. NamedWritesAreConfirmed
    BY GrantedWrite DEF NamedWritesAreConfirmed
  <1>2. QED
    BY <1>1, PTL

(***************************************************************************)
(* What an agent is told of a tool is what a call of it that passes gets.    *)
(***************************************************************************)
THEOREM ListingIsHonest == GateSpec => []AdvertisedCoversGranted
  <1>1. AdvertisedCoversGranted
    BY ListingCoversCall DEF AdvertisedCoversGranted
  <1>2. QED
    BY <1>1, PTL
============================================================================
