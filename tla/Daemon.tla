------------------------------ MODULE Daemon ------------------------------
(***************************************************************************)
(* The processes of one edge root: daemons that start, serve and end        *)
(* (runtime.run), the pidfile in which each claims the port it will serve   *)
(* (edge/daemon.py), and the `restart` command, which stops the daemon it   *)
(* can prove is its own and starts another (cli._cmd_restart).              *)
(*                                                                         *)
(* A step runs from one system call that others can see to the next.  The   *)
(* HTTP server is known by what run() sees of it: it takes the port or      *)
(* fails, gives the port up before it returns, and may not return at all    *)
(* from the signal that stopped it.                                         *)
(***************************************************************************)
EXTENDS Integers, FiniteSets

CONSTANTS
  Pid,         \* bound: the processes that may exist; a pid is not used twice
  Command,     \* `restart` commands, each of which may run again and again
  Port,
  DefaultPort, \* DEFAULT_PORT
  None,
  MaxFails     \* bound: how often writing the pidfile raises

ASSUME DaemonAssumption ==
  /\ IsFiniteSet(Pid) /\ DefaultPort \in Port
  /\ None \notin Pid \cup Port
  /\ MaxFails \in Nat

VARIABLES
  at,        \* each process: where it is in run()
  port,      \* each process: the port it was told to serve
  record,    \* edge.pid: a pid (None for pid 0) and a port, or None
  cmd,       \* each command: where it is
  found,     \* each command: the record it read, then the port it goes by
  elder,     \* history: the processes over whose claim another opened the file
  unwritten, \* history: the processes whose write of their claim raised, or
             \* crossed the release of another's
  astray,    \* history: one was started by hand beside a live one or a restart, or
             \* a restart was misled by the record
  fails

vars == <<at, port, record, cmd, found, elder, unwritten, astray, fails>>
procVars == <<at, port>>
historyVars == <<elder, unwritten, astray>>

\* The life of a process in run(): it opens and fills the pidfile, creates the
\* loops and only then binds the port; it frees the port, ends the loops, closes
\* the hub and gives up its claim.
Starting == {"opening", "filling", "binding"}
Ending   == {"draining", "closing", "releasing", "rewriting"}
Releasing == {"releasing", "rewriting"}
Alive    == {p \in Pid : at[p] \in Starting \cup {"serving"} \cup Ending}
Serving(p) == at[p] = "serving"
Listening(t) == \E p \in Pid : Serving(p) /\ port[p] = t

Record == [pid : Pid \cup {None}, port : Port]
Claim(p) == [pid |-> p, port |-> port[p]]

TypeOK ==
  /\ at \in [Pid -> {"unborn", "serving", "gone"} \cup Starting \cup Ending]
  /\ port \in [Pid -> Port]
  /\ record \in Record \cup {None}
  /\ cmd \in [Command -> {"idle", "judging", "waiting", "spawning", "proving"}]
  /\ found \in [Command -> Record \cup {None}]
  /\ elder \subseteq Pid /\ unwritten \subseteq Pid /\ astray \in BOOLEAN
  /\ fails \in 0..MaxFails

Init ==
  /\ at = [p \in Pid |-> "unborn"] /\ port = [p \in Pid |-> DefaultPort]
  /\ record = None
  /\ cmd = [c \in Command |-> "idle"] /\ found = [c \in Command |-> None]
  /\ elder = {} /\ unwritten = {} /\ astray = FALSE /\ fails = 0

Moves(p, place) == at' = [at EXCEPT ![p] = place]

----------------------------------------------------------------------------
(* run().                                                                   *)

\* `nakagai-edge run --port`, by hand or by a restart.
Born(p, t) ==
  /\ at[p] = "unborn" /\ Moves(p, "opening")
  /\ port' = [port EXCEPT ![p] = t]

RunByHand(p, t) ==
  /\ Born(p, t)
  /\ astray' = (astray \/ Alive # {} \/ \E c \in Command : cmd[c] # "idle")
  /\ UNCHANGED <<record, cmd, found, elder, unwritten, fails>>

\* write_pidfile empties the file and fills it ...
OpenRecord(p) ==
  /\ at[p] = "opening" /\ Moves(p, "filling")
  /\ record' = None
  /\ elder' = elder \cup (Alive \ {p})
  /\ UNCHANGED <<port, cmd, found, unwritten, astray, fails>>

FillRecord(p) ==
  /\ at[p] = "filling" /\ Moves(p, "binding")
  /\ record' = Claim(p)
  /\ elder' = elder \cup (Alive \ {p})
  /\ unwritten' = IF \E q \in Pid : at[q] \in Releasing THEN unwritten \cup {p} ELSE unwritten
  /\ UNCHANGED <<port, cmd, found, astray, fails>>

\* ... and is best effort: the daemon serves without it.
RecordFails(p) ==
  /\ at[p] \in {"opening", "filling"} /\ Moves(p, "binding")
  /\ fails < MaxFails /\ fails' = fails + 1
  /\ unwritten' = unwritten \cup {p}
  /\ UNCHANGED <<port, record, cmd, found, elder, astray>>

\* The loops were created, and run, before the server has the port.
Bind(p) ==
  /\ at[p] = "binding"
  /\ Moves(p, IF Listening(port[p]) THEN "draining" ELSE "serving")
  /\ UNCHANGED <<port, record, cmd, found, historyVars, fails>>

\* SIGTERM has reached the server, or Ctrl-C: the port is freed at once, while
\* open connections are still being served.
FreePort(p) ==
  /\ at[p] = "serving" /\ Moves(p, "draining")
  /\ UNCHANGED <<port, record, cmd, found, historyVars, fails>>

\* The server has returned: the loops are cancelled, then the hub is closed.
CancelLoops(p) ==
  /\ at[p] = "draining" /\ Moves(p, "closing")
  /\ UNCHANGED <<port, record, cmd, found, historyVars, fails>>

\* Mutant of ReadRecord: any record is released.
ReleasesAny(p) ==
  /\ at[p] = "closing"
  /\ Moves(p, IF record # None THEN "releasing" ELSE "gone")
  /\ UNCHANGED <<port, record, cmd, found, historyVars, fails>>

\* release_pidfile reads the record, leaves another's alone ...
ReadRecord(p) ==
  /\ at[p] = "closing"
  /\ Moves(p, IF record # None /\ record.pid = p THEN "releasing" ELSE "gone")
  /\ UNCHANGED <<port, record, cmd, found, historyVars, fails>>

\* ... and writes its own back without the pid, which empties the file first.  A
\* claim that was written in between is lost with it.
EmptyRecord(p) ==
  /\ at[p] = "releasing" /\ Moves(p, "rewriting")
  /\ record' = None
  /\ UNCHANGED <<port, cmd, found, historyVars, fails>>

ReleaseRecord(p) ==
  /\ at[p] = "rewriting" /\ Moves(p, "gone")
  /\ record' = [pid |-> None, port |-> port[p]]
  /\ UNCHANGED <<port, cmd, found, historyVars, fails>>

\* Killed, or ended by a signal before the server has its handlers or after it
\* gave them back: nothing of the finally blocks runs, or no more of them.  A
\* release that raises is swallowed and comes to the same.
Dies(p) ==
  /\ p \in Alive /\ Moves(p, "gone")
  /\ UNCHANGED <<port, record, cmd, found, historyVars, fails>>

----------------------------------------------------------------------------
(* `nakagai-edge restart`.                                                  *)

Turns(c, place) == cmd' = [cmd EXCEPT ![c] = place]

\* From here on the command goes by a port and asks for no pid.
Goes(c, t) == found' = [found EXCEPT ![c] = [pid |-> None, port |-> t]]

\* Every way out of the command, the refusals and the answer.
Ends(c) == Turns(c, "idle") /\ found' = [found EXCEPT ![c] = None]

\* find_running reads the record ...
Find(c) ==
  /\ cmd[c] = "idle" /\ Turns(c, "judging")
  /\ found' = [found EXCEPT ![c] = record]
  /\ UNCHANGED <<procVars, record, historyVars, fails>>

\* Its port is listening and its pid is alive: the edge is ours.
Ours(c) ==
  /\ found[c] # None /\ Listening(found[c].port)
  /\ found[c].pid \in Alive

\* Nothing listens on its port, nor on the default one.
Clear(c) ==
  /\ found[c] # None => ~Listening(found[c].port)
  /\ ~Listening(DefaultPort)

\* Mutant of RecordedPort: a replacement goes to the default port.
AlwaysDefault == DefaultPort

\* The port of the record as it is now, or the default one.
RecordedPort == IF record = None THEN DefaultPort ELSE record.port

\* The file does not tell where a live daemon serves, or will, or where another
\* restart under way is about to start one.
Misled ==
  \/ \E p \in Alive : record = None \/ record.port # port[p]
  \/ \E d \in Command : cmd[d] \in {"waiting", "spawning"} /\ found[d].port # RecordedPort

\* ... and judges by what listens.  What is ours is sent SIGTERM, on which it may
\* take any of its ways out; an edge whose brake watches a position is left alone
\* unless the command is forced.
Judge(c) ==
  /\ cmd[c] = "judging"
  /\ \/ /\ Ours(c) /\ Turns(c, "waiting") /\ Goes(c, found[c].port)
        /\ UNCHANGED astray
     \/ /\ Clear(c) /\ Turns(c, "spawning") /\ Goes(c, RecordedPort)
        /\ astray' = (astray \/ Misled)
  /\ UNCHANGED <<procVars, record, elder, unwritten, fails>>

\* Something listens that is not provably ours, or the brake is watching.
Refuse(c) ==
  /\ cmd[c] = "judging" /\ ~Clear(c)
  /\ Ends(c)
  /\ UNCHANGED <<procVars, record, historyVars, fails>>

\* stop() waits for the port, ten seconds, and never sends SIGKILL.
PortFreed(c) ==
  /\ cmd[c] = "waiting" /\ ~Listening(found[c].port)
  /\ Turns(c, "spawning")
  /\ UNCHANGED <<procVars, record, found, historyVars, fails>>

StopTimesOut(c) ==
  /\ cmd[c] = "waiting" /\ Listening(found[c].port)
  /\ Ends(c)
  /\ UNCHANGED <<procVars, record, historyVars, fails>>

Spawn(c) ==
  /\ cmd[c] = "spawning"
  /\ \E p \in Pid : Born(p, found[c].port)
  /\ Turns(c, "proving") /\ found' = [found EXCEPT ![c] = None]
  /\ UNCHANGED <<record, historyVars, fails>>

\* The log cannot be opened, or the launch raises.
SpawnFails(c) ==
  /\ cmd[c] = "spawning" /\ Ends(c)
  /\ UNCHANGED <<procVars, record, historyVars, fails>>

\* wait_until_serving: the port answers, or twenty seconds are over.
Prove(c) ==
  /\ cmd[c] = "proving" /\ Ends(c)
  /\ UNCHANGED <<procVars, record, historyVars, fails>>

----------------------------------------------------------------------------
Starts(p) == OpenRecord(p) \/ FillRecord(p) \/ Bind(p)
Finishes(p) == CancelLoops(p) \/ ReadRecord(p) \/ EmptyRecord(p) \/ ReleaseRecord(p)
Proc(p) ==
  \/ \E t \in Port : RunByHand(p, t)
  \/ Starts(p) \/ RecordFails(p) \/ FreePort(p) \/ Finishes(p) \/ Dies(p)

Turn(c) ==
  \/ Judge(c) \/ Refuse(c) \/ PortFreed(c) \/ StopTimesOut(c)
  \/ Spawn(c) \/ SpawnFails(c) \/ Prove(c)

Next == \/ \E p \in Pid : Proc(p)
        \/ \E c \in Command : Find(c) \/ Turn(c)

Spec == Init /\ [][Next]_vars
----------------------------------------------------------------------------
(* Properties.                                                              *)

\* A serving daemon is provably ours: the pidfile names it, whatever its
\* predecessors did on their way out.  It loses that proof only to a claim
\* made later, or where its own write raised or crossed a release under way.
OursIsProvable ==
  /\ TypeOK
  /\ \A p \in Pid : Serving(p) /\ p \notin elder \cup unwritten => record = Claim(p)

\* Restarts, however many and however they overlap, with starts and deaths between
\* them, leave at most one daemon serving while the file tells where the live one
\* serves and where a restart under way will start another: a replacement goes to
\* that port, on which only one can listen.
OneServes ==
  ~astray => \A p, q \in Pid : Serving(p) /\ Serving(q) => p = q
============================================================================
