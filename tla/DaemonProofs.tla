--------------------------- MODULE DaemonProofs ---------------------------
(***************************************************************************)
(* Proofs about Daemon for any number of processes, restarts and ports.     *)
(***************************************************************************)
EXTENDS Daemon, TLAPS

(***************************************************************************)
(* The inductive invariant.                                                 *)
(***************************************************************************)

\* A process that has been through write_pidfile and has not begun to take its
\* claim back.
Claimed == {"binding", "serving"} \cup (Ending \ {"rewriting"})

\* A claim nobody made another over is in the file, until it is given up.
ClaimInv ==
  \A p \in Pid : at[p] \in Claimed /\ p \notin elder \cup unwritten => record = Claim(p)

\* Who is about to release has seen its own pid: no other claim stands, nor will.
ReleaseInv ==
  \A p, q \in Pid : at[p] \in Releasing /\ at[q] \in Claimed /\ q # p =>
                      q \in elder \cup unwritten

\* One port, one listener.
PortInv == \A p, q \in Pid : Serving(p) /\ Serving(q) /\ port[p] = port[q] => p = q

\* The restarts that will start a process at the port they found.
Aimed == {c \in Command : cmd[c] \in {"waiting", "spawning"}}

\* Unless astray, all that live and all that will be started have one port.
AimInv ==
  /\ \A c \in Aimed : found[c] \in Record
  /\ ~astray => /\ \A p, q \in Alive : port[p] = port[q]
                /\ \A c \in Aimed : \A p \in Alive : port[p] = found[c].port
                /\ \A c, d \in Aimed : found[c].port = found[d].port

IInv == TypeOK /\ ClaimInv /\ ReleaseInv /\ PortInv /\ AimInv

----------------------------------------------------------------------------

(***************************************************************************)
(* The types.                                                               *)
(***************************************************************************)
LEMMA TypeStep ==
  ASSUME TypeOK, AimInv, [Next]_vars PROVE TypeOK'
  <1> USE DaemonAssumption DEF TypeOK, Record, Claim, Starting, Ending, Releasing, Moves,
          Turns, Ends, procVars, historyVars
  <1>1. ASSUME NEW p \in Pid, Proc(p) PROVE TypeOK'
    <2>1. ASSUME NEW t \in Port, RunByHand(p, t) PROVE TypeOK'
      BY <2>1 DEF RunByHand, Born
    <2>2. CASE OpenRecord(p)
      BY <2>2 DEF OpenRecord, Alive
    <2>3. CASE FillRecord(p)
      BY <2>3 DEF FillRecord, Alive
    <2>4. CASE RecordFails(p)
      BY <2>4 DEF RecordFails
    <2>5. CASE Bind(p) \/ FreePort(p) \/ CancelLoops(p) \/ ReadRecord(p)
      BY <2>5 DEF Bind, FreePort, CancelLoops, ReadRecord
    <2>6. CASE EmptyRecord(p) \/ ReleaseRecord(p) \/ Dies(p)
      BY <2>6 DEF EmptyRecord, ReleaseRecord, Dies
    <2>7. QED
      BY <1>1, <2>1, <2>2, <2>3, <2>4, <2>5, <2>6 DEF Proc, Starts, Finishes
  <1>2. ASSUME NEW c \in Command, Find(c) \/ Turn(c) PROVE TypeOK'
    <2>1. CASE Find(c)
      BY <2>1 DEF Find
    <2>2. CASE Judge(c)
      <3>1. RecordedPort \in Port
        BY DEF RecordedPort
      <3>2. cmd'[c] \in {"waiting", "spawning"} /\ cmd' = [cmd EXCEPT ![c] = cmd'[c]]
        BY <2>2 DEF Judge
      <3>3. \E t \in Port : Goes(c, t)
        <4>1. Ours(c) => found[c].port \in Port
          BY DEF Ours, Record
        <4>2. QED
          BY <2>2, <3>1, <4>1 DEF Judge
      <3>4. found' \in [Command -> Record \cup {None}]
        BY <3>3 DEF Goes, Record
      <3>5. astray' \in BOOLEAN
        BY <2>2 DEF Judge
      <3>6. UNCHANGED <<at, port, record, elder, unwritten, fails>>
        BY <2>2 DEF Judge
      <3>7. cmd' \in [Command -> {"idle", "judging", "waiting", "spawning", "proving"}]
        BY <3>2
      <3>8. QED
        BY <3>4, <3>5, <3>6, <3>7
    <2>3. CASE Refuse(c) \/ StopTimesOut(c) \/ SpawnFails(c) \/ Prove(c)
      BY <2>3 DEF Refuse, StopTimesOut, SpawnFails, Prove
    <2>4. CASE PortFreed(c)
      BY <2>4 DEF PortFreed
    <2>5. CASE Spawn(c)
      <3>1. found[c].port \in Port
        BY <2>5 DEF Spawn, AimInv, Aimed
      <3>2. QED
        BY <2>5, <3>1 DEF Spawn, Born
    <2>6. QED
      BY <1>2, <2>1, <2>2, <2>3, <2>4, <2>5 DEF Turn
  <1>3. CASE UNCHANGED vars
    BY <1>3 DEF vars
  <1>4. QED
    BY <1>1, <1>2, <1>3 DEF Next

(***************************************************************************)
(* A command touches neither a claim nor a process that has made one.       *)
(***************************************************************************)
LEMMA ClaimsStep ==
  ASSUME TypeOK, ClaimInv, ReleaseInv, [Next]_vars PROVE ClaimInv' /\ ReleaseInv'
  <1> USE DaemonAssumption DEF TypeOK, ClaimInv, ReleaseInv, Claimed, Claim, Moves,
          Turns, Ends, Alive, Starting, Ending, Releasing, procVars, historyVars
  <1>1. ASSUME NEW p \in Pid, Proc(p) PROVE ClaimInv' /\ ReleaseInv'
    <2>1. ASSUME NEW t \in Port, RunByHand(p, t) PROVE ClaimInv' /\ ReleaseInv'
      BY <2>1 DEF RunByHand, Born
    <2>2. CASE OpenRecord(p)
      BY <2>2 DEF OpenRecord
    <2>3. CASE FillRecord(p)
      BY <2>3 DEF FillRecord
    <2>4. CASE RecordFails(p)
      BY <2>4 DEF RecordFails
    <2>5. CASE Bind(p) \/ FreePort(p) \/ CancelLoops(p)
      BY <2>5 DEF Bind, FreePort, CancelLoops
    <2>6. CASE ReadRecord(p)
      BY <2>6 DEF ReadRecord
    <2>7. CASE EmptyRecord(p) \/ ReleaseRecord(p)
      BY <2>7 DEF EmptyRecord, ReleaseRecord
    <2>8. CASE Dies(p)
      BY <2>8 DEF Dies
    <2>9. QED
      BY <1>1, <2>1, <2>2, <2>3, <2>4, <2>5, <2>6, <2>7, <2>8 DEF Proc, Starts, Finishes
  <1>2. ASSUME NEW c \in Command, Find(c) \/ Turn(c) PROVE ClaimInv' /\ ReleaseInv'
    <2>1. CASE Spawn(c)
      BY <2>1 DEF Spawn, Born
    <2>2. CASE ~Spawn(c)
      <3>1. UNCHANGED <<at, port, record, elder, unwritten>>
        BY <1>2, <2>2 DEF Find, Turn, Judge, Refuse, PortFreed, StopTimesOut, SpawnFails, Prove
      <3>2. QED
        BY <3>1
    <2>3. QED
      BY <2>1, <2>2
  <1>3. CASE UNCHANGED vars
    BY <1>3 DEF vars
  <1>4. QED
    BY <1>1, <1>2, <1>3 DEF Next

(***************************************************************************)
(* Who binds finds nobody listening on its port.                            *)
(***************************************************************************)
LEMMA PortStep ==
  ASSUME TypeOK, PortInv, [Next]_vars PROVE PortInv'
  <1> USE DEF TypeOK, PortInv, Serving, Moves, Starting, Ending, Releasing
  <1>1. ASSUME NEW p \in Pid, Proc(p) PROVE PortInv'
    <2>1. CASE Bind(p)
      BY <2>1 DEF Bind, Listening
    <2>2. CASE ~Bind(p)
      <3>1. /\ at'[p] # "serving" \/ UNCHANGED at
            /\ \A q \in Pid \ {p} : at'[q] = at[q] /\ port'[q] = port[q]
            /\ UNCHANGED at => UNCHANGED port
        BY <1>1, <2>2 DEF Proc, Starts, Finishes, RunByHand, Born, OpenRecord, FillRecord,
           RecordFails, FreePort, CancelLoops, ReadRecord, EmptyRecord, ReleaseRecord,
           Dies, procVars
      <3>2. QED
        BY <3>1
    <2>3. QED
      BY <2>1, <2>2
  <1>2. ASSUME NEW c \in Command, Find(c) \/ Turn(c) PROVE PortInv'
    <2>1. CASE Spawn(c)
      BY <2>1 DEF Spawn, Born
    <2>2. CASE ~Spawn(c)
      <3>1. UNCHANGED <<at, port>>
        BY <1>2, <2>2 DEF Find, Turn, Judge, Refuse, PortFreed, StopTimesOut, SpawnFails, Prove, procVars
      <3>2. QED
        BY <3>1
    <2>3. QED
      BY <2>1, <2>2
  <1>3. CASE UNCHANGED vars
    BY <1>3 DEF vars
  <1>4. QED
    BY <1>1, <1>2, <1>3 DEF Next

(***************************************************************************)
(* A restart aims where the live daemon is, and a start by hand that is not *)
(* astray finds neither daemon nor restart.                                 *)
(***************************************************************************)
LEMMA AimStep ==
  ASSUME TypeOK, AimInv, [Next]_vars PROVE AimInv'
  <1> USE DaemonAssumption DEF TypeOK, AimInv, Aimed, Moves, Turns, Ends, Alive,
          Starting, Ending, procVars, historyVars
  <1>1. ASSUME NEW p \in Pid, Proc(p) PROVE AimInv'
    <2>1. ASSUME NEW t \in Port, RunByHand(p, t) PROVE AimInv'
      BY <2>1 DEF RunByHand, Born
    <2>2. CASE Starts(p) \/ RecordFails(p) \/ FreePort(p) \/ Finishes(p) \/ Dies(p)
      <3>1. UNCHANGED <<port, cmd, found, astray>> /\ Alive' \subseteq Alive
        BY <2>2 DEF Starts, Finishes, OpenRecord, FillRecord,
           RecordFails, Bind, FreePort, CancelLoops, ReadRecord, EmptyRecord,
           ReleaseRecord, Dies
      <3>2. QED
        BY <3>1
    <2>3. QED
      BY <1>1, <2>1, <2>2 DEF Proc
  <1>2. ASSUME NEW c \in Command, Find(c) \/ Turn(c) PROVE AimInv'
    <2>1. CASE Find(c)
      BY <2>1 DEF Find
    <2>2. CASE Judge(c)
      <3>1. CASE /\ Ours(c) /\ Turns(c, "waiting") /\ Goes(c, found[c].port)
                 /\ UNCHANGED astray
        <4>1. /\ found' = [found EXCEPT ![c] = [pid |-> None, port |-> found[c].port]]
              /\ cmd' = [cmd EXCEPT ![c] = "waiting"] /\ UNCHANGED <<at, port, record>>
          BY <2>2, <3>1 DEF Judge, Goes
        <4>2. found[c] \in Record /\ \E p \in Alive : port[p] = found[c].port
          BY <3>1 DEF Ours, Listening, Serving
        <4>3. found'[c] \in Record /\ found'[c].port = found[c].port
          BY <4>1, <4>2 DEF Record
        <4>4. QED
          BY <3>1, <4>1, <4>2, <4>3
      <3>2. CASE /\ Clear(c) /\ Turns(c, "spawning") /\ Goes(c, RecordedPort)
                 /\ astray' = (astray \/ Misled)
        <4>1. /\ \A d \in Command \ {c} : found'[d] = found[d] /\ cmd'[d] = cmd[d]
              /\ UNCHANGED <<at, port, record>>
          BY <2>2, <3>2 DEF Judge, Goes
        <4>5. found'[c] = [pid |-> None, port |-> RecordedPort] /\ RecordedPort \in Port
          BY <3>2 DEF RecordedPort, Record, Goes
        <4>6. found'[c] \in Record /\ found'[c].port = RecordedPort
          BY <4>5 DEF Record
        <4>2. ASSUME ~astray'
              PROVE  /\ \A p \in Alive : port[p] = RecordedPort
                     /\ \A d \in Aimed : found[d].port = RecordedPort
          BY <3>2, <4>2 DEF Misled, RecordedPort
        <4>3. ~astray' => ~astray
          BY <3>2
        <4>4. QED
          BY <4>1, <4>2, <4>3, <4>6
      <3>3. QED
        BY <2>2, <3>1, <3>2 DEF Judge
    <2>3. CASE Refuse(c) \/ StopTimesOut(c) \/ SpawnFails(c) \/ Prove(c)
      BY <2>3 DEF Refuse, StopTimesOut, SpawnFails, Prove
    <2>4. CASE PortFreed(c)
      BY <2>4 DEF PortFreed
    <2>5. CASE Spawn(c)
      BY <2>5 DEF Spawn, Born
    <2>6. QED
      BY <1>2, <2>1, <2>2, <2>3, <2>4, <2>5 DEF Turn
  <1>3. CASE UNCHANGED vars
    BY <1>3 DEF vars
  <1>4. QED
    BY <1>1, <1>2, <1>3 DEF Next

LEMMA InitInv == Init => IInv
  <1> SUFFICES ASSUME Init PROVE IInv
    OBVIOUS
  <1>1. TypeOK
    <2>1. 0 \in 0..MaxFails
      BY DaemonAssumption
    <2>2. QED
      BY <2>1, DaemonAssumption DEF Init, TypeOK
  <1>2. ClaimInv /\ ReleaseInv /\ PortInv
    BY DEF Init, ClaimInv, ReleaseInv, PortInv, Claimed, Ending, Releasing, Serving
  <1>3. AimInv
    BY DEF Init, AimInv, Aimed, Alive, Starting, Ending
  <1>4. QED
    BY <1>1, <1>2, <1>3 DEF IInv

----------------------------------------------------------------------------

(***************************************************************************)
(* The invariant holds however starts, ends, deaths and restarts of one     *)
(* root overlap.                                                            *)
(***************************************************************************)
THEOREM Inductive == Spec => []IInv
  <1>1. Init => IInv
    BY InitInv
  <1>2. IInv /\ [Next]_vars => IInv'
    BY TypeStep, ClaimsStep, PortStep, AimStep DEF IInv
  <1>3. QED
    BY <1>1, <1>2, PTL DEF Spec

(***************************************************************************)
(* The pidfile names a daemon that serves, unless a later claim was made or *)
(* its own failed or crossed a release.                                     *)
(***************************************************************************)
THEOREM Provable == Spec => []OursIsProvable
  <1>1. IInv => OursIsProvable
    BY DEF IInv, OursIsProvable, ClaimInv, Claimed, Serving
  <1>2. QED
    BY <1>1, Inductive, PTL

(***************************************************************************)
(* Any number of restarts leaves one daemon serving.                        *)
(***************************************************************************)
THEOREM ServesOnce == Spec => []OneServes
  <1>1. IInv => OneServes
    BY DEF IInv, OneServes, AimInv, PortInv, Alive, Serving
  <1>2. QED
    BY <1>1, Inductive, PTL
============================================================================
