---------------------------- MODULE PolicySync ----------------------------
(***************************************************************************)
(* The platform's policy bundle as the edge keeps it (edge/sync.py).        *)
(*                                                                         *)
(* sync_once asks with the etag of the last stamp, and an answer with a     *)
(* body is put on disk as three files, one after the other:                 *)
(* config/connectors.yaml, cache/bundle.json and the stamp, cache/meta.json.*)
(* Each is written in place, so it is first emptied and then filled, and a  *)
(* reader between the two sees none of it.  The daemon's syncer runs        *)
(* sync_once in a thread, a `sync` on the command line in a process of its  *)
(* own; nothing keeps them apart.                                           *)
(*                                                                         *)
(* A step runs from one request or file operation to the next.              *)
(***************************************************************************)
EXTENDS Integers

CONSTANTS
  Writer,        \* the processes that run sync_once on one root
  Syncer,        \* the one among them that is the daemon's loop
  None,
  MaxVersion,    \* bound: the bundles the platform publishes are 1..MaxVersion
  Unreadable,    \* those of a schema this edge does not read
  MaxRollbacks,  \* bound: how often the platform goes back to an older bundle
  MaxWriteFails, \* bound: how often writing a file raises
  MaxKills       \* bound: how often a writer is killed

Version == 1..MaxVersion

ASSUME PolicySyncAssumption ==
  /\ Syncer \in Writer
  /\ MaxVersion \in Nat \ {0} /\ Unreadable \subseteq Version
  /\ None \notin Version
  /\ MaxRollbacks \in Nat /\ MaxWriteFails \in Nat /\ MaxKills \in Nat

VARIABLES
  current,   \* platform: the bundle it publishes
  newest,    \* platform: the newest it ever published
  registry,  \* connectors.yaml: whose registry it holds, None if empty or absent
  bundle,    \* bundle.json, likewise
  stamp,     \* meta.json: etag, fetched_at and schema_error
  pc,        \* each writer: where it is in sync_once
  asked,     \* each writer: the etag it asked with
  got,       \* each writer: the answer, a bundle or None for a 304
  note,      \* each writer: the stamp _record_schema_error has read
  escaped,   \* each writer: an exception left sync_once
  cut,       \* history: an apply_bundle was left between its first write and its
             \* stamp, and no later one was completed undisturbed
  tangled,   \* history: one of two calls that overlapped wrote a file, or the
             \* platform went back while an apply was under way or cut, and no
             \* later apply was undisturbed
  alone,     \* history: the writer whose call overlapped no other so far
  rollbacks, writeFails, kills

diskVars   == <<registry, bundle, stamp>>
localVars  == <<pc, asked, got, note, escaped>>
cloudVars  == <<current, newest, rollbacks>>
historyVars == <<cut, tangled, alone>>
syncBounds == <<writeFails, kills>>
syncVars   == <<cloudVars, diskVars, localVars, historyVars, syncBounds>>

\* fetched_at, as what is left of its time: a stamp that never was, one older
\* than POLICY_TTL_S, and one within it.
Age == {"never", "old", "fresh"}
Stamp == [etag : Version \cup {None}, age : Age, refused : BOOLEAN]
\* What meta() answers for a file that is absent, empty or does not parse.
NoStamp == [etag |-> None, age |-> "never", refused |-> FALSE]

\* The places of a writer that has an answer and is not yet done with the files:
\* with a body it empties and fills the three files in turn, with a 304 only the
\* stamp, and a refusal reads the stamp and writes it back.
Emptying == {"emptyRegistry", "emptyBundle", "emptyStamp", "emptyNote"}
Filling  == {"fillRegistry", "fillBundle", "fillStamp", "fillNote"}
Busy     == Emptying \cup Filling \cup {"readNote"}
\* Between the first write of a body and its stamp.
Midway   == {"fillRegistry", "emptyBundle", "fillBundle", "emptyStamp", "fillStamp"}

SyncTypeOK ==
  /\ current \in Version /\ newest \in Version /\ current <= newest
  /\ registry \in Version \cup {None} /\ bundle \in Version \cup {None}
  /\ stamp \in Stamp
  /\ pc \in [Writer -> {"idle", "asking"} \cup Busy]
  /\ asked \in [Writer -> Version \cup {None}] /\ got \in [Writer -> Version \cup {None}]
  /\ note \in [Writer -> Stamp] /\ escaped \in [Writer -> BOOLEAN]
  /\ cut \in BOOLEAN /\ tangled \in BOOLEAN /\ alone \subseteq Writer
  /\ rollbacks \in Nat /\ writeFails \in Nat /\ kills \in Nat

\* An edge that was paired and never synced.
SyncInit ==
  /\ current = 1 /\ newest = 1
  /\ registry = None /\ bundle = None /\ stamp = NoStamp
  /\ pc = [w \in Writer |-> "idle"]
  /\ asked = [w \in Writer |-> None] /\ got = [w \in Writer |-> None]
  /\ note = [w \in Writer |-> NoStamp] /\ escaped = [w \in Writer |-> FALSE]
  /\ cut = FALSE /\ tangled = FALSE /\ alone = {}
  /\ rollbacks = 0 /\ writeFails = 0 /\ kills = 0

----------------------------------------------------------------------------
(* The platform and the clock.                                              *)

Publish ==
  /\ newest < MaxVersion
  /\ newest' = newest + 1 /\ current' = newest'
  /\ UNCHANGED <<rollbacks, diskVars, localVars, historyVars, syncBounds>>

\* The platform goes back to a bundle it published before.
GoBack ==
  /\ rollbacks < MaxRollbacks /\ rollbacks' = rollbacks + 1
  /\ \E v \in Version : v < current /\ current' = v
  /\ tangled' = (tangled \/ cut \/ \E w \in Writer : pc[w] \in Busy)
  /\ UNCHANGED <<newest, diskVars, localVars, cut, alone, syncBounds>>

Aged(s) == [s EXCEPT !.age = IF @ = "fresh" THEN "old" ELSE @]

\* POLICY_TTL_S passes without a stamp.
PolicyExpires ==
  /\ stamp.age = "fresh" \/ \E w \in Writer : note[w].age = "fresh"
  /\ stamp' = Aged(stamp) /\ note' = [w \in Writer |-> Aged(note[w])]
  /\ UNCHANGED <<cloudVars, registry, bundle, pc, asked, got, escaped, historyVars, syncBounds>>

----------------------------------------------------------------------------
(* sync_once.                                                               *)

Goto(w, place) == pc' = [pc EXCEPT ![w] = place]

\* Back in its caller, nothing of the call kept.
Returned(w) ==
  /\ Goto(w, "idle")
  /\ asked' = [asked EXCEPT ![w] = None] /\ got' = [got EXCEPT ![w] = None]
  /\ note' = [note EXCEPT ![w] = NoStamp]

\* The request, with the etag of the stamp.
Ask(w) ==
  /\ pc[w] = "idle" /\ ~escaped[w]
  /\ Goto(w, "asking") /\ asked' = [asked EXCEPT ![w] = stamp.etag]
  /\ alone' = IF \A u \in Writer : pc[u] = "idle" THEN {w} ELSE {}
  /\ UNCHANGED <<cloudVars, diskVars, got, note, escaped, cut, tangled, syncBounds>>

\* 304: the stamp is renewed, nothing else is looked at.
AnswerUnchanged(w) ==
  /\ pc[w] = "asking" /\ asked[w] = current
  /\ Goto(w, "emptyStamp") /\ got' = [got EXCEPT ![w] = None]
  /\ UNCHANGED <<cloudVars, diskVars, asked, note, escaped, historyVars, syncBounds>>

\* Mutant of AnswerBundle: a schema this edge does not read is noticed only when
\* the files are written, and stamped all the same.
StampsFirst(w) ==
  /\ pc[w] = "asking" /\ asked[w] # current
  /\ Goto(w, IF current \in Unreadable THEN "emptyStamp" ELSE "emptyRegistry")
  /\ got' = [got EXCEPT ![w] = current]
  /\ UNCHANGED <<cloudVars, diskVars, asked, note, escaped, historyVars, syncBounds>>

\* 200: the version gate of apply_bundle goes first.
AnswerBundle(w) ==
  /\ pc[w] = "asking" /\ asked[w] # current
  /\ Goto(w, IF current \in Unreadable THEN "readNote" ELSE "emptyRegistry")
  /\ got' = [got EXCEPT ![w] = current]
  /\ UNCHANGED <<cloudVars, diskVars, asked, note, escaped, historyVars, syncBounds>>

\* Network trouble, a refused token or a body that is not JSON; or JSON that is
\* not an object, on which get_bundle raises what sync_once does not catch.
AnswerLost(w) ==
  /\ pc[w] = "asking" /\ Returned(w)
  /\ escaped' \in {escaped, [escaped EXCEPT ![w] = TRUE]}
  /\ alone' = alone \ {w}
  /\ UNCHANGED <<cloudVars, diskVars, cut, tangled, syncBounds>>

\* write_text opens the file, which empties it ...
Empty(w) ==
  /\ pc[w] \in Emptying
  /\ CASE pc[w] = "emptyRegistry" -> /\ Goto(w, "fillRegistry")
                                     /\ registry' = None /\ UNCHANGED <<bundle, stamp>>
       [] pc[w] = "emptyBundle"   -> /\ Goto(w, "fillBundle")
                                     /\ bundle' = None /\ UNCHANGED <<registry, stamp>>
       [] pc[w] = "emptyStamp"    -> /\ Goto(w, "fillStamp")
                                     /\ stamp' = NoStamp /\ UNCHANGED <<registry, bundle>>
       [] OTHER                   -> /\ Goto(w, "fillNote")
                                     /\ stamp' = NoStamp /\ UNCHANGED <<registry, bundle>>
  /\ tangled' = (tangled \/ w \notin alone)
  /\ UNCHANGED <<cloudVars, asked, got, note, escaped, cut, alone, syncBounds>>

\* ... and writes it.
FillRegistry(w) ==
  /\ pc[w] = "fillRegistry" /\ Goto(w, "emptyBundle")
  /\ registry' = got[w]
  /\ UNCHANGED <<cloudVars, bundle, stamp, asked, got, note, escaped, historyVars, syncBounds>>

FillBundle(w) ==
  /\ pc[w] = "fillBundle" /\ Goto(w, "emptyStamp")
  /\ bundle' = got[w]
  /\ UNCHANGED <<cloudVars, registry, stamp, asked, got, note, escaped, historyVars, syncBounds>>

\* Mutant of Etag: the stamp keeps the etag that was sent.
SentEtag(w) == asked[w]

\* _stamp: the etag that came with the body, or the one that was sent.
Etag(w) == IF got[w] = None THEN asked[w] ELSE got[w]

FillStamp(w) ==
  /\ pc[w] = "fillStamp" /\ Returned(w)
  /\ stamp' = [etag |-> Etag(w), age |-> "fresh", refused |-> FALSE]
  /\ cut' = (cut /\ (got[w] = None \/ w \notin alone))
  /\ tangled' = IF got[w] # None /\ w \in alone THEN FALSE ELSE tangled
  /\ alone' = alone \ {w}
  /\ UNCHANGED <<cloudVars, registry, bundle, escaped, syncBounds>>

\* _record_schema_error reads the stamp and writes it back with the reason; the
\* etag and fetched_at stay what they were.
ReadNote(w) ==
  /\ pc[w] = "readNote" /\ Goto(w, "emptyNote")
  /\ note' = [note EXCEPT ![w] = [stamp EXCEPT !.refused = TRUE]]
  /\ UNCHANGED <<cloudVars, diskVars, asked, got, escaped, historyVars, syncBounds>>

FillNote(w) ==
  /\ pc[w] = "fillNote" /\ Returned(w)
  /\ stamp' = note[w]
  /\ alone' = alone \ {w}
  /\ UNCHANGED <<cloudVars, registry, bundle, escaped, cut, tangled, syncBounds>>

\* A write raises, before or after the file was emptied.  sync_once swallows it,
\* except where it is already handling the refusal of a bundle: from there it
\* leaves sync_once, and the loop that called it ends.
WriteFails(w) ==
  /\ writeFails < MaxWriteFails /\ writeFails' = writeFails + 1
  /\ pc[w] \in Emptying \cup Filling /\ Returned(w)
  /\ escaped' = [escaped EXCEPT ![w] = pc[w] \in {"emptyNote", "fillNote"}]
  /\ cut' = (cut \/ (pc[w] \in Midway /\ got[w] # None))
  /\ tangled' = (tangled \/ w \notin alone)
  /\ alone' = alone \ {w}
  /\ UNCHANGED <<cloudVars, diskVars, kills>>

\* The process is killed, or was dead, and is started again.
Killed(w) ==
  /\ kills < MaxKills /\ kills' = kills + 1
  /\ pc[w] # "idle" \/ escaped[w]
  /\ Returned(w)
  /\ escaped' = [escaped EXCEPT ![w] = FALSE]
  /\ cut' = (cut \/ (pc[w] \in Midway /\ got[w] # None))
  /\ tangled' = (tangled \/ (pc[w] \in Busy /\ w \notin alone))
  /\ alone' = alone \ {w}
  /\ UNCHANGED <<cloudVars, diskVars, writeFails>>

\* A command that escaped has ended; the next one is a new process.
CommandEnds(w) ==
  /\ w # Syncer /\ escaped[w]
  /\ escaped' = [escaped EXCEPT ![w] = FALSE]
  /\ UNCHANGED <<cloudVars, diskVars, pc, asked, got, note, historyVars, syncBounds>>

Answered(w) == AnswerUnchanged(w) \/ AnswerBundle(w)
Write(w) ==
  \/ Empty(w) \/ FillRegistry(w) \/ FillBundle(w) \/ FillStamp(w)
  \/ ReadNote(w) \/ FillNote(w)

WriterStep(w) ==
  \/ Ask(w) \/ Answered(w) \/ AnswerLost(w) \/ Write(w)
  \/ WriteFails(w) \/ Killed(w) \/ CommandEnds(w)

SyncNext ==
  \/ Publish \/ GoBack \/ PolicyExpires
  \/ \E w \in Writer : WriterStep(w)

SyncSpec == SyncInit /\ [][SyncNext]_syncVars

\* The syncer asks every SYNC_INTERVAL_S; a platform that can be reached again
\* and again answers in the end.
SyncFairness ==
  /\ WF_syncVars(Ask(Syncer)) /\ SF_syncVars(Answered(Syncer))
  /\ \A w \in Writer : WF_syncVars(Write(w))

FairSyncSpec == SyncSpec /\ SyncFairness
----------------------------------------------------------------------------
(* Properties.                                                              *)

AtRest == \A w \in Writer : pc[w] \notin Busy
Lies == /\ stamp.etag = current
        /\ registry # current \/ bundle # current

\* A stamp that names the bundle the platform publishes says the truth about
\* both files, whatever was cut short, killed or refused before: the stamp comes
\* last, so a half-written policy is asked for again.  It may lie only once it is
\* tangled: after two calls that overlapped, of which one wrote a file or died
\* between two of them, or after the platform went back while an answer was being
\* written or an apply was cut short; until an apply that overlaps none.
StampIsTrue == SyncTypeOK /\ (AtRest /\ ~tangled => ~Lies)

\* The policy the platform keeps publishing is on disk in the end, and is renewed
\* within its age ever after, unless this edge cannot read it, the stamp lies,
\* the syncer ended (a refusal that could not be noted, or an answer that is no
\* object), or commands sync without end.
PolicyArrives ==
  \/ []<>(\E w \in Writer \ {Syncer} : pc[w] # "idle")
  \/ <>[](/\ registry = current /\ bundle = current) /\ []<>(stamp.age = "fresh")
  \/ <>[](current \in Unreadable)
  \/ []<>Lies
  \/ <>[](escaped[Syncer])

============================================================================
