--------------------------- MODULE PlatformProofs ---------------------------
(***************************************************************************)
(* Proofs about what the edge keeps of the platform: PolicySync, for any    *)
(* number of writers, bundles, rollbacks, failed writes and kills, and      *)
(* SignalStream, for any number of listeners, events, ends and unreadable   *)
(* cursors, any buffer and any trim.  The two share nothing but the         *)
(* platform.                                                                *)
(***************************************************************************)
EXTENDS PolicySync, SignalStream, FiniteSetTheorems, WellFoundedInduction, TLAPS

(***************************************************************************)
(* The inductive invariant.                                                 *)
(***************************************************************************)

\* A writer that is putting a body on disk, and one whose call has written.
Applying(w) == got[w] # None /\ pc[w] \in Midway \cup {"emptyRegistry"}
HasWritten(w) ==
  \/ pc[w] \in {"fillRegistry", "emptyBundle", "fillBundle", "fillStamp", "fillNote"}
  \/ pc[w] = "emptyStamp" /\ got[w] # None

\* The registry and the bundle are written only with a body in hand, and no etag is
\* known of a bundle that was not published.
CallInv ==
  /\ \A w \in Writer :
       /\ pc[w] \in (Midway \cup {"emptyRegistry"}) \ {"emptyStamp", "fillStamp"} => got[w] # None
       /\ asked[w] # None => asked[w] <= newest
       /\ got[w] # None => got[w] <= newest
       /\ note[w].etag # None => note[w].etag <= newest
  /\ stamp.etag # None => stamp.etag <= newest

\* Who is alone is under way, and nobody else is.
AloneInv == \A w \in alone : pc[w] # "idle" /\ \A u \in Writer \ {w} : pc[u] = "idle"

\* Untangled, one writer at most has written and is not done.
OneWrites == ~tangled => \A u, w \in Writer : HasWritten(u) /\ HasWritten(w) => u = w

\* A writer alone finds on disk what it asked with and what it has written.
AloneSees ==
  \A w \in alone :
    /\ pc[w] = "asking" \/ (pc[w] \in Busy /\ pc[w] \notin {"fillStamp", "fillNote"})
         => stamp.etag = asked[w]
    /\ pc[w] \in {"fillStamp", "fillNote"} => stamp.etag = None
    /\ pc[w] \in {"emptyNote", "fillNote"} => note[w].etag = asked[w]

\* The files a body has filled still hold it.
WrittenStands ==
  \A w \in Writer : got[w] # None /\ (w \in alone \/ ~tangled) =>
    /\ pc[w] \in {"emptyBundle", "fillBundle", "emptyStamp", "fillStamp"} => registry = got[w]
    /\ pc[w] \in {"emptyStamp", "fillStamp"} => bundle = got[w]

\* What an etag says of the files: it is their bundle's, or the platform's is
\* another, until an apply that was cut short is made good.
Truth(e) == \/ e = None
            \/ registry = e /\ bundle = e
            \/ cut /\ e # current

\* Untangled, the stamp says the truth once the files are at rest, and so does every
\* etag that is about to be put back; a body in hand is not what was asked with.
TruthInv ==
  ~tangled =>
    /\ (\A w \in Writer : ~HasWritten(w)) => Truth(stamp.etag)
    /\ \A w \in Writer :
         /\ pc[w] = "fillStamp" /\ got[w] = None => Truth(asked[w])
         /\ pc[w] = "fillNote" => Truth(note[w].etag)
         /\ Applying(w) => asked[w] # current

IInv ==
  /\ SyncTypeOK /\ CallInv /\ AloneInv /\ OneWrites
  /\ AloneSees /\ WrittenStands /\ TruthInv

----------------------------------------------------------------------------

(***************************************************************************)
(* The types.                                                               *)
(***************************************************************************)
LEMMA AgedIsStamp == \A s \in Stamp : Aged(s) \in Stamp /\ Aged(s).etag = s.etag
  BY DEF Aged, Stamp, Age

\* The absent stamp names nothing.
LEMMA NoStampIsStamp == NoStamp \in Stamp /\ NoStamp.etag = None
  BY DEF NoStamp, Stamp, Age

\* Emptying a file concerns one writer, and tangles unless it is alone.
LEMMA EmptyKeeps ==
  ASSUME SyncTypeOK, AloneInv, NEW w \in Writer, Empty(w)
  PROVE  /\ \A u \in Writer \ {w} : pc'[u] = pc[u]
         /\ UNCHANGED <<current, asked, got, note, cut, alone>>
         /\ ~tangled' => ~tangled /\ w \in alone
         /\ \A u \in alone : u = w
         /\ w \in alone => \A u \in Writer \ {w} : pc[u] = "idle" /\ pc'[u] = "idle"
  <1> USE DEF SyncTypeOK, Goto
  <1>1. \/ Goto(w, "fillRegistry") \/ Goto(w, "fillBundle")
        \/ Goto(w, "fillStamp") \/ Goto(w, "fillNote")
    <2>1. CASE pc[w] = "emptyRegistry"
      BY <2>1 DEF Empty
    <2>2. CASE pc[w] = "emptyBundle"
      BY <2>2 DEF Empty
    <2>3. CASE pc[w] = "emptyStamp"
      BY <2>3 DEF Empty
    <2>4. CASE pc[w] = "emptyNote"
      BY <2>4 DEF Empty
    <2>5. QED
      BY <2>1, <2>2, <2>3, <2>4 DEF Empty, Emptying
  <1>2. \A u \in Writer \ {w} : pc'[u] = pc[u]
    BY <1>1
  <1>3. /\ UNCHANGED <<current, asked, got, note, cut, alone>>
        /\ ~tangled' => ~tangled /\ w \in alone
        /\ pc[w] # "idle"
    BY DEF Empty, cloudVars, Emptying
  <1>4. QED
    BY <1>2, <1>3 DEF AloneInv

LEMMA TypeStep ==
  ASSUME SyncTypeOK, CallInv, [SyncNext]_syncVars PROVE SyncTypeOK'
  <1> USE PolicySyncAssumption, NoStampIsStamp, AgedIsStamp DEF SyncTypeOK, Version,
          cloudVars, diskVars, localVars, historyVars, syncBounds, Goto, Returned,
          Busy, Emptying, Filling
  <1>1. CASE Publish
    BY <1>1 DEF Publish
  <1>2. CASE GoBack
    BY <1>2 DEF GoBack
  <1>3. CASE PolicyExpires
    BY <1>3 DEF PolicyExpires
  <1>4. ASSUME NEW w \in Writer, WriterStep(w) PROVE SyncTypeOK'
    <2>1. CASE Ask(w)
      BY <2>1 DEF Ask, Stamp
    <2>2. CASE Answered(w)
      BY <2>2 DEF Answered, AnswerUnchanged, AnswerBundle
    <2>3. CASE AnswerLost(w)
      BY <2>3 DEF AnswerLost
    <2>4. CASE Empty(w)
      BY <2>4 DEF Empty
    <2>5. CASE FillRegistry(w) \/ FillBundle(w)
      BY <2>5 DEF FillRegistry, FillBundle
    <2>6. CASE FillStamp(w)
      <3>1. stamp' \in Stamp
        BY <2>6 DEF FillStamp, Etag, Stamp, Age
      <3>2. QED
        BY <2>6, <3>1 DEF FillStamp
    <2>7. CASE ReadNote(w)
      <3>1. [stamp EXCEPT !.refused = TRUE] \in Stamp
        BY DEF Stamp
      <3>2. QED
        BY <2>7, <3>1 DEF ReadNote
    <2>8. CASE FillNote(w)
      BY <2>8 DEF FillNote
    <2>9. CASE WriteFails(w) \/ Killed(w)
      <3>1. escaped' \in [Writer -> BOOLEAN]
        <4>1. CASE WriteFails(w)
          <5>1. (pc[w] \in {"emptyNote", "fillNote"}) \in BOOLEAN
            OBVIOUS
          <5>2. QED
            BY <4>1, <5>1 DEF WriteFails
        <4>2. CASE Killed(w)
          BY <4>2 DEF Killed
        <4>3. QED
          BY <2>9, <4>1, <4>2
      <3>2. pc' \in [Writer -> {"idle", "asking"} \cup Busy]
        BY <2>9 DEF WriteFails, Killed
      <3>3. /\ asked' \in [Writer -> Version \cup {None}] /\ got' \in [Writer -> Version \cup {None}]
            /\ note' \in [Writer -> Stamp]
        BY <2>9 DEF WriteFails, Killed
      <3>4. cut' \in BOOLEAN /\ tangled' \in BOOLEAN /\ alone' \subseteq Writer
        BY <2>9 DEF WriteFails, Killed
      <3>5. writeFails' \in Nat /\ kills' \in Nat
        BY <2>9 DEF WriteFails, Killed
      <3>6. UNCHANGED <<current, newest, rollbacks, registry, bundle, stamp>>
        BY <2>9 DEF WriteFails, Killed
      <3>7. QED
        BY <3>1, <3>2, <3>3, <3>4, <3>5, <3>6
    <2>10. CASE CommandEnds(w)
      BY <2>10 DEF CommandEnds
    <2>11. QED
      BY <1>4, <2>1, <2>2, <2>3, <2>4, <2>5, <2>6, <2>7, <2>8, <2>9, <2>10
      DEF WriterStep, Write
  <1>5. CASE UNCHANGED syncVars
    BY <1>5 DEF syncVars
  <1>6. QED
    BY <1>1, <1>2, <1>3, <1>4, <1>5 DEF SyncNext

(***************************************************************************)
(* What is asked with, told, noted and stamped was published.               *)
(***************************************************************************)
LEMMA CallStep ==
  ASSUME SyncTypeOK, CallInv, [SyncNext]_syncVars PROVE CallInv'
  <1> USE PolicySyncAssumption, NoStampIsStamp, AgedIsStamp DEF SyncTypeOK, Version,
          cloudVars, diskVars, localVars, historyVars, syncBounds, Goto, Returned,
          Busy, Emptying, Filling, Midway, CallInv
  <1>1. CASE Publish
    <2>1. \A e \in Version : e <= newest => e <= newest'
      BY <1>1 DEF Publish
    <2>2. stamp.etag \in Version \cup {None} /\ \A w \in Writer : note[w].etag \in Version \cup {None}
      BY DEF Stamp
    <2>3. QED
      BY <1>1, <2>1, <2>2 DEF Publish
  <1>2. CASE GoBack
    BY <1>2 DEF GoBack
  <1>3. CASE PolicyExpires
    BY <1>3 DEF PolicyExpires
  <1>4. ASSUME NEW w \in Writer, WriterStep(w) PROVE CallInv'
    <2>1. CASE Ask(w)
      BY <2>1 DEF Ask
    <2>2. CASE Answered(w)
      BY <2>2 DEF Answered, AnswerUnchanged, AnswerBundle
    <2>3. CASE AnswerLost(w)
      BY <2>3 DEF AnswerLost
    <2>4. CASE Empty(w)
      BY <2>4 DEF Empty
    <2>5. CASE FillRegistry(w)
      BY <2>5 DEF FillRegistry
    <2>6. CASE FillBundle(w)
      BY <2>6 DEF FillBundle
    <2>7. CASE FillStamp(w)
      BY <2>7 DEF FillStamp, Etag
    <2>8. CASE ReadNote(w)
      BY <2>8 DEF ReadNote
    <2>9. CASE FillNote(w)
      BY <2>9 DEF FillNote
    <2>10. CASE WriteFails(w)
      BY <2>10 DEF WriteFails
    <2>11. CASE Killed(w)
      BY <2>11 DEF Killed
    <2>12. CASE CommandEnds(w)
      BY <2>12 DEF CommandEnds
    <2>13. QED
      BY <1>4, <2>1, <2>2, <2>3, <2>4, <2>5, <2>6, <2>7, <2>8, <2>9, <2>10, <2>11, <2>12
      DEF WriterStep, Write
  <1>5. CASE UNCHANGED syncVars
    BY <1>5 DEF syncVars
  <1>6. QED
    BY <1>1, <1>2, <1>3, <1>4, <1>5 DEF SyncNext

(***************************************************************************)
(* A call that overlaps another leaves nobody alone.                        *)
(***************************************************************************)
LEMMA AloneStep ==
  ASSUME SyncTypeOK, AloneInv, [SyncNext]_syncVars PROVE AloneInv'
  <1> USE PolicySyncAssumption, NoStampIsStamp, AgedIsStamp DEF SyncTypeOK, Version,
          cloudVars, diskVars, localVars, historyVars, syncBounds, Goto, Returned,
          Busy, Emptying, Filling, Midway, AloneInv
  <1>1. CASE Publish
    BY <1>1 DEF Publish
  <1>2. CASE GoBack
    BY <1>2 DEF GoBack
  <1>3. CASE PolicyExpires
    BY <1>3 DEF PolicyExpires
  <1>4. ASSUME NEW w \in Writer, WriterStep(w) PROVE AloneInv'
    <2>1. CASE Ask(w)
      BY <2>1 DEF Ask
    <2>2. CASE Answered(w)
      BY <2>2 DEF Answered, AnswerUnchanged, AnswerBundle
    <2>3. CASE AnswerLost(w)
      BY <2>3 DEF AnswerLost
    <2>4. CASE Empty(w)
      BY <2>4 DEF Empty
    <2>5. CASE FillRegistry(w)
      BY <2>5 DEF FillRegistry
    <2>6. CASE FillBundle(w)
      BY <2>6 DEF FillBundle
    <2>7. CASE FillStamp(w)
      BY <2>7 DEF FillStamp, Etag
    <2>8. CASE ReadNote(w)
      BY <2>8 DEF ReadNote
    <2>9. CASE FillNote(w)
      BY <2>9 DEF FillNote
    <2>10. CASE WriteFails(w)
      BY <2>10 DEF WriteFails
    <2>11. CASE Killed(w)
      BY <2>11 DEF Killed
    <2>12. CASE CommandEnds(w)
      BY <2>12 DEF CommandEnds
    <2>13. QED
      BY <1>4, <2>1, <2>2, <2>3, <2>4, <2>5, <2>6, <2>7, <2>8, <2>9, <2>10, <2>11, <2>12
      DEF WriterStep, Write
  <1>5. CASE UNCHANGED syncVars
    BY <1>5 DEF syncVars
  <1>6. QED
    BY <1>1, <1>2, <1>3, <1>4, <1>5 DEF SyncNext

(***************************************************************************)
(* Who writes beside another tangles the files.                             *)
(***************************************************************************)
LEMMA WritesStep ==
  ASSUME SyncTypeOK, AloneInv, OneWrites, [SyncNext]_syncVars PROVE OneWrites'
  <1> USE PolicySyncAssumption, NoStampIsStamp, AgedIsStamp DEF SyncTypeOK, Version,
          cloudVars, diskVars, localVars, historyVars, syncBounds, Goto, Returned,
          Busy, Emptying, Filling, Midway, AloneInv, OneWrites, HasWritten
  <1>1. CASE Publish
    BY <1>1 DEF Publish
  <1>2. CASE GoBack
    BY <1>2 DEF GoBack
  <1>3. CASE PolicyExpires
    BY <1>3 DEF PolicyExpires
  <1>4. ASSUME NEW w \in Writer, WriterStep(w) PROVE OneWrites'
    <2>1. CASE Ask(w)
      BY <2>1 DEF Ask
    <2>2. CASE Answered(w)
      BY <2>2 DEF Answered, AnswerUnchanged, AnswerBundle
    <2>3. CASE AnswerLost(w)
      BY <2>3 DEF AnswerLost
    <2>4. CASE Empty(w)
      <3>1. ASSUME ~tangled' PROVE \A u \in Writer \ {w} : pc'[u] = "idle"
        BY <2>4, <3>1, EmptyKeeps
      <3>2. QED
        BY <3>1
    <2>5. CASE FillRegistry(w)
      BY <2>5 DEF FillRegistry
    <2>6. CASE FillBundle(w)
      BY <2>6 DEF FillBundle
    <2>7. CASE FillStamp(w)
      BY <2>7 DEF FillStamp, Etag
    <2>8. CASE ReadNote(w)
      BY <2>8 DEF ReadNote
    <2>9. CASE FillNote(w)
      BY <2>9 DEF FillNote
    <2>10. CASE WriteFails(w)
      BY <2>10 DEF WriteFails
    <2>11. CASE Killed(w)
      BY <2>11 DEF Killed
    <2>12. CASE CommandEnds(w)
      BY <2>12 DEF CommandEnds
    <2>13. QED
      BY <1>4, <2>1, <2>2, <2>3, <2>4, <2>5, <2>6, <2>7, <2>8, <2>9, <2>10, <2>11, <2>12
      DEF WriterStep, Write
  <1>5. CASE UNCHANGED syncVars
    BY <1>5 DEF syncVars
  <1>6. QED
    BY <1>1, <1>2, <1>3, <1>4, <1>5 DEF SyncNext

(***************************************************************************)
(* The stamp changes under nobody who is alone.                             *)
(***************************************************************************)
LEMMA SeesStep ==
  ASSUME SyncTypeOK, CallInv, AloneInv, AloneSees, [SyncNext]_syncVars PROVE AloneSees'
  <1> USE PolicySyncAssumption, NoStampIsStamp, AgedIsStamp DEF SyncTypeOK, Version,
          cloudVars, diskVars, localVars, historyVars, syncBounds, Goto, Returned,
          Busy, Emptying, Filling, Midway, CallInv, AloneInv, AloneSees
  <1>1. CASE Publish
    BY <1>1 DEF Publish
  <1>2. CASE GoBack
    BY <1>2 DEF GoBack
  <1>3. CASE PolicyExpires
    BY <1>3 DEF PolicyExpires
  <1>4. ASSUME NEW w \in Writer, WriterStep(w) PROVE AloneSees'
    <2>1. CASE Ask(w)
      BY <2>1 DEF Ask
    <2>2. CASE Answered(w)
      BY <2>2 DEF Answered, AnswerUnchanged, AnswerBundle
    <2>3. CASE AnswerLost(w)
      BY <2>3 DEF AnswerLost
    <2>4. CASE Empty(w)
      BY <2>4 DEF Empty
    <2>5. CASE FillRegistry(w)
      BY <2>5 DEF FillRegistry
    <2>6. CASE FillBundle(w)
      BY <2>6 DEF FillBundle
    <2>7. CASE FillStamp(w)
      BY <2>7 DEF FillStamp, Etag
    <2>8. CASE ReadNote(w)
      BY <2>8 DEF ReadNote
    <2>9. CASE FillNote(w)
      BY <2>9 DEF FillNote
    <2>10. CASE WriteFails(w)
      BY <2>10 DEF WriteFails
    <2>11. CASE Killed(w)
      BY <2>11 DEF Killed
    <2>12. CASE CommandEnds(w)
      BY <2>12 DEF CommandEnds
    <2>13. QED
      BY <1>4, <2>1, <2>2, <2>3, <2>4, <2>5, <2>6, <2>7, <2>8, <2>9, <2>10, <2>11, <2>12
      DEF WriterStep, Write
  <1>5. CASE UNCHANGED syncVars
    BY <1>5 DEF syncVars
  <1>6. QED
    BY <1>1, <1>2, <1>3, <1>4, <1>5 DEF SyncNext

(***************************************************************************)
(* What a body has filled is filled by no other.                            *)
(***************************************************************************)
LEMMA StandsStep ==
  ASSUME SyncTypeOK, CallInv, AloneInv, OneWrites, WrittenStands, [SyncNext]_syncVars PROVE WrittenStands'
  <1> USE PolicySyncAssumption, NoStampIsStamp, AgedIsStamp DEF SyncTypeOK, Version,
          cloudVars, diskVars, localVars, historyVars, syncBounds, Goto, Returned,
          Busy, Emptying, Filling, Midway, AloneInv, OneWrites, WrittenStands, HasWritten
  <1>1. CASE Publish
    BY <1>1 DEF Publish
  <1>2. CASE GoBack
    BY <1>2 DEF GoBack
  <1>3. CASE PolicyExpires
    BY <1>3 DEF PolicyExpires
  <1>4. ASSUME NEW w \in Writer, WriterStep(w) PROVE WrittenStands'
    <2>1. CASE Ask(w)
      BY <2>1 DEF Ask
    <2>2. CASE Answered(w)
      BY <2>2 DEF Answered, AnswerUnchanged, AnswerBundle
    <2>3. CASE AnswerLost(w)
      BY <2>3 DEF AnswerLost
    <2>4. CASE Empty(w)
      <3>1. /\ ~tangled' => ~tangled /\ w \in alone
            /\ UNCHANGED <<got, alone>> /\ w \in alone => \A u \in Writer \ {w} : pc'[u] = "idle"
            /\ \A u \in alone : u = w
        BY <2>4, EmptyKeeps
      <3>2. CASE pc[w] = "emptyRegistry"
        BY <2>4, <3>1, <3>2 DEF Empty
      <3>3. CASE pc[w] = "emptyBundle"
        BY <2>4, <3>1, <3>3 DEF Empty
      <3>4. CASE pc[w] = "emptyStamp"
        BY <2>4, <3>1, <3>4 DEF Empty
      <3>5. CASE pc[w] = "emptyNote"
        BY <2>4, <3>1, <3>5 DEF Empty
      <3>6. QED
        BY <2>4, <3>2, <3>3, <3>4, <3>5 DEF Empty
    <2>5. CASE FillRegistry(w)
      BY <2>5 DEF FillRegistry
    <2>6. CASE FillBundle(w)
      BY <2>6 DEF FillBundle
    <2>7. CASE FillStamp(w)
      BY <2>7 DEF FillStamp, Etag
    <2>8. CASE ReadNote(w)
      BY <2>8 DEF ReadNote
    <2>9. CASE FillNote(w)
      BY <2>9 DEF FillNote
    <2>10. CASE WriteFails(w)
      BY <2>10 DEF WriteFails
    <2>11. CASE Killed(w)
      BY <2>11 DEF Killed
    <2>12. CASE CommandEnds(w)
      BY <2>12 DEF CommandEnds
    <2>13. QED
      BY <1>4, <2>1, <2>2, <2>3, <2>4, <2>5, <2>6, <2>7, <2>8, <2>9, <2>10, <2>11, <2>12
      DEF WriterStep, Write
  <1>5. CASE UNCHANGED syncVars
    BY <1>5 DEF syncVars
  <1>6. QED
    BY <1>1, <1>2, <1>3, <1>4, <1>5 DEF SyncNext

(***************************************************************************)
(* A stamp comes last, and an apply that is cut short left the old one.     *)
(***************************************************************************)
LEMMA TruthStep ==
  ASSUME IInv, [SyncNext]_syncVars PROVE TruthInv'
  <1> USE PolicySyncAssumption, NoStampIsStamp, AgedIsStamp DEF SyncTypeOK, Version,
          cloudVars, diskVars, localVars, historyVars, syncBounds, Goto, Returned,
          Busy, Emptying, Filling, Midway, IInv, CallInv, AloneInv, OneWrites, AloneSees, WrittenStands, TruthInv,
          HasWritten, Applying, Truth
  <1>1. CASE Publish
    BY <1>1 DEF Publish
  <1>2. CASE GoBack
    BY <1>2 DEF GoBack
  <1>3. CASE PolicyExpires
    BY <1>3 DEF PolicyExpires
  <1>4. ASSUME NEW w \in Writer, WriterStep(w) PROVE TruthInv'
    <2>1. CASE Ask(w)
      BY <2>1 DEF Ask
    <2>2. CASE Answered(w)
      BY <2>2 DEF Answered, AnswerUnchanged, AnswerBundle
    <2>3. CASE AnswerLost(w)
      BY <2>3 DEF AnswerLost
    <2>4. CASE Empty(w)
      <3> SUFFICES ASSUME ~tangled' PROVE TruthInv'
        OBVIOUS
      <3>1. /\ ~tangled /\ w \in alone /\ UNCHANGED <<current, asked, got, note, cut>>
            /\ \A u \in Writer \ {w} : pc[u] = "idle" /\ pc'[u] = "idle"
        BY <2>4, EmptyKeeps
      <3>2. CASE pc[w] = "emptyRegistry"
        BY <2>4, <3>1, <3>2 DEF Empty
      <3>3. CASE pc[w] = "emptyBundle"
        BY <2>4, <3>1, <3>3 DEF Empty
      <3>4. CASE pc[w] = "emptyStamp"
        BY <2>4, <3>1, <3>4 DEF Empty
      <3>5. CASE pc[w] = "emptyNote"
        BY <2>4, <3>1, <3>5 DEF Empty
      <3>6. QED
        BY <2>4, <3>2, <3>3, <3>4, <3>5 DEF Empty
    <2>5. CASE FillRegistry(w)
      BY <2>5 DEF FillRegistry
    <2>6. CASE FillBundle(w)
      BY <2>6 DEF FillBundle
    <2>7. CASE FillStamp(w)
      BY <2>7 DEF FillStamp, Etag
    <2>8. CASE ReadNote(w)
      BY <2>8 DEF ReadNote
    <2>9. CASE FillNote(w)
      BY <2>9 DEF FillNote
    <2>10. CASE WriteFails(w)
      <3> SUFFICES ASSUME ~tangled' PROVE TruthInv'
        OBVIOUS
      <3>1. ~tangled /\ UNCHANGED <<current, registry, bundle, stamp>>
        BY <2>10 DEF WriteFails
      <3>2. pc[w] \in Busy => w \in alone /\ \A u \in Writer \ {w} : pc[u] = "idle"
        BY <2>10 DEF WriteFails
      <3>3. /\ \A u \in Writer \ {w} : /\ pc'[u] = pc[u] /\ asked'[u] = asked[u]
                                       /\ got'[u] = got[u] /\ note'[u] = note[u]
            /\ pc'[w] = "idle"
        BY <2>10 DEF WriteFails
      <3>4. cut' = (cut \/ (pc[w] \in Midway /\ got[w] # None))
        BY <2>10 DEF WriteFails
      <3>5. ASSUME \A u \in Writer : ~HasWritten(u)' PROVE Truth(stamp.etag)'
        <4>1. CASE HasWritten(w)
          <5>1. CASE got[w] # None /\ pc[w] \in Midway
            <6>1. w \in alone /\ cut'
              BY <3>2, <3>4, <5>1
            <6>2. asked[w] # current
              BY <3>1, <5>1
            <6>3. stamp.etag = None \/ stamp.etag = asked[w]
              BY <5>1, <6>1
            <6>4. QED
              BY <3>1, <6>1, <6>2, <6>3
          <5>2. CASE pc[w] \in {"fillStamp", "fillNote"}
            BY <3>1, <3>2, <5>2
          <5>3. QED
            BY <4>1, <5>1, <5>2
        <4>2. CASE ~HasWritten(w)
          <5>1. \A u \in Writer : ~HasWritten(u)
            BY <3>3, <3>5, <4>2
          <5>2. Truth(stamp.etag)
            BY <3>1, <5>1
          <5>3. QED
            BY <3>1, <3>4, <5>2
        <4>3. QED
          BY <4>1, <4>2
      <3>6. QED
        BY <3>1, <3>3, <3>4, <3>5
    <2>11. CASE Killed(w)
      <3> SUFFICES ASSUME ~tangled' PROVE TruthInv'
        OBVIOUS
      <3>1. ~tangled /\ UNCHANGED <<current, registry, bundle, stamp>>
        BY <2>11 DEF Killed
      <3>2. pc[w] \in Busy => w \in alone /\ \A u \in Writer \ {w} : pc[u] = "idle"
        BY <2>11 DEF Killed
      <3>3. /\ \A u \in Writer \ {w} : /\ pc'[u] = pc[u] /\ asked'[u] = asked[u]
                                       /\ got'[u] = got[u] /\ note'[u] = note[u]
            /\ pc'[w] = "idle"
        BY <2>11 DEF Killed
      <3>4. cut' = (cut \/ (pc[w] \in Midway /\ got[w] # None))
        BY <2>11 DEF Killed
      <3>5. ASSUME \A u \in Writer : ~HasWritten(u)' PROVE Truth(stamp.etag)'
        <4>1. CASE HasWritten(w)
          <5>1. CASE got[w] # None /\ pc[w] \in Midway
            <6>1. w \in alone /\ cut'
              BY <3>2, <3>4, <5>1
            <6>2. asked[w] # current
              BY <3>1, <5>1
            <6>3. stamp.etag = None \/ stamp.etag = asked[w]
              BY <5>1, <6>1
            <6>4. QED
              BY <3>1, <6>1, <6>2, <6>3
          <5>2. CASE pc[w] \in {"fillStamp", "fillNote"}
            BY <3>1, <3>2, <5>2
          <5>3. QED
            BY <4>1, <5>1, <5>2
        <4>2. CASE ~HasWritten(w)
          <5>1. \A u \in Writer : ~HasWritten(u)
            BY <3>3, <3>5, <4>2
          <5>2. Truth(stamp.etag)
            BY <3>1, <5>1
          <5>3. QED
            BY <3>1, <3>4, <5>2
        <4>3. QED
          BY <4>1, <4>2
      <3>6. QED
        BY <3>1, <3>3, <3>4, <3>5
    <2>12. CASE CommandEnds(w)
      BY <2>12 DEF CommandEnds
    <2>13. QED
      BY <1>4, <2>1, <2>2, <2>3, <2>4, <2>5, <2>6, <2>7, <2>8, <2>9, <2>10, <2>11, <2>12
      DEF WriterStep, Write
  <1>5. CASE UNCHANGED syncVars
    BY <1>5 DEF syncVars
  <1>6. QED
    BY <1>1, <1>2, <1>3, <1>4, <1>5 DEF SyncNext

LEMMA InitInv == SyncInit => IInv
  <1> SUFFICES ASSUME SyncInit PROVE IInv
    OBVIOUS
  <1>1. SyncTypeOK
    <2>1. 1 \in Version /\ 0 \in Nat /\ 1 <= 1
      BY PolicySyncAssumption DEF Version
    <2>2. QED
      BY <2>1, NoStampIsStamp DEF SyncInit, SyncTypeOK
  <1>2. CallInv /\ AloneInv /\ OneWrites /\ AloneSees /\ WrittenStands
    BY NoStampIsStamp DEF SyncInit, CallInv, AloneInv, OneWrites, AloneSees,
       WrittenStands, HasWritten, Midway
  <1>3. TruthInv
    BY NoStampIsStamp DEF SyncInit, TruthInv, Truth, Applying, Midway
  <1>4. QED
    BY <1>1, <1>2, <1>3 DEF IInv

----------------------------------------------------------------------------

(***************************************************************************)
(* The invariant holds however calls overlap, fail and are killed.          *)
(***************************************************************************)
THEOREM Inductive == SyncSpec => []IInv
  <1>1. SyncInit => IInv
    BY InitInv
  <1>2. IInv /\ [SyncNext]_syncVars => IInv'
    BY TypeStep, CallStep, AloneStep, WritesStep, SeesStep, StandsStep, TruthStep DEF IInv
  <1>3. QED
    BY <1>1, <1>2, PTL DEF SyncSpec

(***************************************************************************)
(* A stamp that names the bundle the platform publishes says the truth of   *)
(* both files while they are at rest and not tangled (apply_bundle, _stamp).*)
(***************************************************************************)
THEOREM StampTells == SyncSpec => []StampIsTrue
  <1>1. IInv => StampIsTrue
    <2> SUFFICES ASSUME IInv, AtRest, ~tangled PROVE ~Lies
      BY DEF IInv, StampIsTrue
    <2>1. Truth(stamp.etag)
      BY DEF IInv, TruthInv, AtRest, HasWritten, Busy, Emptying, Filling
    <2>2. current # None
      BY PolicySyncAssumption DEF IInv, SyncTypeOK
    <2>3. QED
      BY <2>1, <2>2 DEF Truth, Lies
  <1>2. QED
    BY <1>1, Inductive, PTL

-----------------------------------------------------------------------------
(* SignalStream: sets of events *)

\* A set of events that is not empty has a last one.
LEMMA LastOf ==
  ASSUME NEW es, IsFiniteSet(es), es \subseteq Int, es # {}
  PROVE  \E s \in es : \A t \in es : t <= s
<1> DEFINE R == StrictSubsetOrdering(es)
           F == {Above(es, s) : s \in es}
<1>1. IsWellFoundedOn(R, FiniteSubsetsOf(es))
  BY FS_StrictSubsetOrderingWellFounded
<1>2. F \subseteq FiniteSubsetsOf(es) /\ F # {}
  <2>1. \A s \in es : Above(es, s) \in SUBSET es
    BY DEF Above
  <2>2. \A s \in es : IsFiniteSet(Above(es, s))
    BY <2>1, FS_Subset
  <2>3. \A s \in es : Above(es, s) \in FiniteSubsetsOf(es)
    BY <2>1, <2>2 DEF FiniteSubsetsOf
  <2> QED
    BY <2>3, Zenon
<1>3. PICK A \in F : \A B \in F : <<B, A>> \notin R
  <2> HIDE DEF R, F
  <2> QED
    BY <1>1, <1>2, WFMin
<1>4. PICK s \in es : A = Above(es, s)
  BY <1>3
<1>5. ASSUME NEW t \in es, t > s
      PROVE  FALSE
  <2>1. Above(es, t) \in F /\ Above(es, t) \subseteq A /\ Above(es, t) # A
    <3>1. \A u \in Above(es, t) : u \in Above(es, s)
      BY <1>5 DEF Above
    <3>2. t \in Above(es, s) /\ t \notin Above(es, t)
      BY <1>5 DEF Above
    <3> QED
      BY <1>4, <1>5, <3>1, <3>2, Zenon
  <2>2. <<Above(es, t), A>> \in R
    BY <2>1, <1>4 DEF StrictSubsetOrdering, Above
  <2> QED
    BY <1>3, <2>1, <2>2
<1> QED
  BY <1>5

\* The same from the other end.
LEMMA FirstOf ==
  ASSUME NEW es, IsFiniteSet(es), es \subseteq Int, es # {}
  PROVE  \E s \in es : \A t \in es : s <= t
<1> DEFINE Below(s) == {t \in es : t < s}
           R == StrictSubsetOrdering(es)
           F == {Below(s) : s \in es}
<1>1. IsWellFoundedOn(R, FiniteSubsetsOf(es))
  BY FS_StrictSubsetOrderingWellFounded
<1>2. F \subseteq FiniteSubsetsOf(es) /\ F # {}
  <2>1. \A s \in es : Below(s) \in SUBSET es
    OBVIOUS
  <2>2. \A s \in es : IsFiniteSet(Below(s))
    BY <2>1, FS_Subset
  <2>3. \A s \in es : Below(s) \in FiniteSubsetsOf(es)
    BY <2>1, <2>2 DEF FiniteSubsetsOf
  <2> QED
    BY <2>3, Zenon
<1>3. PICK A \in F : \A B \in F : <<B, A>> \notin R
  <2> HIDE DEF R, F
  <2> QED
    BY <1>1, <1>2, WFMin
<1>4. PICK s \in es : A = Below(s)
  BY <1>3
<1>5. ASSUME NEW t \in es, t < s
      PROVE  FALSE
  <2>1. Below(t) \in F /\ Below(t) \subseteq A /\ Below(t) # A
    <3>1. \A u \in Below(t) : u \in Below(s)
      BY <1>5
    <3>2. t \in Below(s) /\ t \notin Below(t)
      BY <1>5
    <3> HIDE DEF Below
    <3> QED
      BY <1>4, <1>5, <3>1, <3>2, Zenon
  <2>2. <<Below(t), A>> \in R
    BY <2>1, <1>4 DEF StrictSubsetOrdering
  <2> QED
    BY <1>3, <2>1, <2>2
<1> QED
  BY <1>5

\* The newest n of a set of events are n at most, and whatever is not among them has n
\* of them above it.
LEMMA NewestOf ==
  ASSUME NEW es, IsFiniteSet(es), es \subseteq Int, NEW n \in Nat
  PROVE  /\ Newest(es, n) \subseteq es
         /\ Cardinality(Newest(es, n)) <= n
         /\ \A s \in es \ Newest(es, n) : Cardinality(Above(Newest(es, n), s)) >= n
<1> DEFINE N == Newest(es, n)
<1>1. N \subseteq es /\ IsFiniteSet(N) /\ Cardinality(N) \in Nat
  BY FS_Subset, FS_CardinalityType DEF Newest
<1>2. Cardinality(N) <= n
  <2>1. CASE N = {}
    BY <2>1, FS_EmptySet
  <2>2. CASE N # {}
    <3>1. PICK s \in N : \A t \in N : s <= t
      BY <1>1, <2>2, FirstOf
    <3>2. N \ {s} \subseteq Above(es, s)
      <4> HIDE DEF N
      <4> QED
        BY <1>1, <3>1 DEF Above
    <3>3. IsFiniteSet(Above(es, s)) /\ Cardinality(Above(es, s)) \in Nat
      BY FS_Subset, FS_CardinalityType DEF Above
    <3>4. Cardinality(N \ {s}) <= Cardinality(Above(es, s))
      BY <3>2, <3>3, FS_Subset
    <3>5. Cardinality(N \ {s}) = Cardinality(N) - 1
      BY <1>1, <3>1, FS_RemoveElement
    <3>6. Cardinality(Above(es, s)) < n
      BY <3>1 DEF Newest
    <3> QED
      BY <1>1, <3>3, <3>4, <3>5, <3>6
  <2> QED
    BY <2>1, <2>2
<1>3. ASSUME NEW s \in es, s \notin N
      PROVE  Cardinality(Above(N, s)) >= n
  <2> DEFINE D == es \ N
  <2>1. IsFiniteSet(D) /\ D \subseteq Int /\ s \in D
    BY <1>3, FS_Subset
  <2>2. PICK d \in D : \A t \in D : t <= d
    BY <2>1, LastOf
  <2>3. Above(es, d) \subseteq Above(N, s)
    <3> HIDE DEF N
    <3>1. s <= d
      BY <1>3, <2>2
    <3>2. \A t \in es : t > d => t \in N
      BY <2>1, <2>2
    <3>3. s \in Int /\ d \in Int /\ \A t \in es : t \in Int
      BY <1>3, <2>1, <2>2
    <3>4. \A t \in Above(es, d) : t \in N /\ t > s
      BY <3>1, <3>2, <3>3 DEF Above
    <3> QED
      BY <3>4 DEF Above
  <2>4. IsFiniteSet(Above(es, d)) /\ Cardinality(Above(es, d)) \in Nat
    BY FS_Subset, FS_CardinalityType DEF Above
  <2>5. ~(Cardinality(Above(es, d)) < n)
    BY <2>2 DEF Newest
  <2>6. IsFiniteSet(Above(N, s)) /\ Cardinality(Above(N, s)) \in Nat
    BY <1>1, FS_Subset, FS_CardinalityType DEF Above
  <2>7. Cardinality(Above(es, d)) <= Cardinality(Above(N, s))
    BY <2>3, <2>6, FS_Subset
  <2> QED
    BY <2>4, <2>5, <2>6, <2>7
<1> QED
  BY <1>1, <1>2, <1>3

(***************************************************************************)
(* The inductive invariant of the listener.                                 *)
(***************************************************************************)

\* The cursor on disk, the beginning of the log while there is none.
Mark == IF saved = Absent THEN 0 ELSE saved

\* Who is up holds the lock, so there is one such; a gap is read only while polling, a batch
\* is in hand only while printing, and who has not begun to poll owes no turn.
HoldInv ==
  \A l \in Listener :
    /\ me[l].pc # "down" => lock = l
    /\ me[l].pc # "poll" => ~me[l].catching
    /\ me[l].pc # "emit" => me[l].batch = {}
    /\ ~me[l].catching => me[l].pending = {}
    /\ me[l].pc \in {"down", "anchor", "anchored"} => me[l].queue = {} /\ me[l].turn = Absent

\* Where a listener is in the log: its cursor is not behind the one on disk, what it has read and
\* not printed lies between the two, and what it owes a turn comes before what it has yet to print.
PlaceIs(l) ==
  /\ me[l].cursor <= Len(log)
  /\ me[l].pc \in {"anchored", "emit"} => Mark <= me[l].cursor
  /\ me[l].pc \in {"poll", "emit"} => saved # Absent /\ saved <= me[l].cursor
  /\ me[l].pc = "poll" /\ ~me[l].catching => saved = me[l].cursor
  /\ \A s \in me[l].pending \cup me[l].batch : Mark < s /\ s <= me[l].cursor /\ Shown(s)
  /\ me[l].pc = "poll" => \A s \in me[l].queue : s <= saved
  /\ me[l].pc = "emit" =>
       \A s \in me[l].queue : s <= me[l].cursor /\ \A t \in me[l].batch : s < t

\* This holds of every listener.
PlaceInv == \A l \in Listener : PlaceIs(l)

\* A line of the batch in hand that was printed.
InHand(l, s) == me[l].pc = "emit" /\ s <= me[l].cursor /\ s \notin me[l].batch

\* Past the cursor on disk, only the batch in hand has been printed once more than batches were cut.
RepeatInv ==
  /\ cuts <= ends
  /\ RepeatsOnlyAfterCut
  /\ \A s \in Event : s > Mark /\ (\A l \in Listener : ~InHand(l, s)) => emits[s] <= cuts

\* Somebody owes this event a turn.
Queued(s) == \E l \in Listener : s \in me[l].queue

\* As long as nobody was killed, each line that wanted an answer has had its turn or is queued.
TurnInv ==
  /\ \A s \in Event : s > Len(log) => emits[s] = 0 /\ turns[s] = 0
  /\ \A l \in Listener : \A s \in me[l].queue : s <= Len(log) /\ log[s] = "chat"
  /\ ~killed => \A s \in Logged :
       turns[s] + (IF Queued(s) THEN 1 ELSE 0) = IF log[s] = "chat" THEN emits[s] ELSE 0

\* What may be shown of a log lg past s and up to c, and what of it has the class of s and is
\* printed, or about to be with the batch b; em counts the lines printed.
Newer(lg, s, c) == {t \in (s + 1)..c : lg[t] # "hidden"}
Taken(lg, em, s, c, b) ==
  {t \in Newer(lg, s, c) : lg[t] = lg[s] /\ (t \in b \/ em[t] > 0)}
\* The trim may have let go of s: there are enough of these.
GivenUp(lg, em, s, c, b) == \/ Cardinality(Taken(lg, em, s, c, b)) >= Replay
                            \/ Cardinality(Newer(lg, s, c)) >= MaxBuffered
\* An event that may be shown and was not printed.
Spared(s) == Shown(s) /\ emits[s] = 0

\* What a listener has read and does not hold was pushed out of the buffer while it catches up,
\* and given up by the trim once it prints.
Spares(l) ==
  /\ me[l].catching => \A s \in (saved + 1)..me[l].cursor :
       Shown(s) /\ s \notin me[l].pending =>
         Cardinality(Newer(log, s, me[l].cursor)) >= MaxBuffered
  /\ me[l].pc = "emit" => \A s \in (saved + 1)..me[l].cursor :
       Spared(s) /\ s \notin me[l].batch => GivenUp(log, emits, s, me[l].cursor, me[l].batch)

\* The same of what lies behind the cursor on disk.
Outrun ==
  saved # Absent => \A s \in (past + 1)..saved : Spared(s) => GivenUp(log, emits, s, saved, {})

\* Nothing is passed over unprinted but what was given up.
LossInv == Outrun /\ \A l \in Listener : Spares(l)

\* The inductive invariant.
StreamInv == TypeOK /\ HoldInv /\ PlaceInv /\ RepeatInv /\ TurnInv /\ LossInv

(***************************************************************************)
(* What the actions do.                                                     *)
(***************************************************************************)

\* A step of one listener leaves the memory of the others alone.
Others(l) ==
  /\ me' = [me EXCEPT ![l] = me'[l]]
  /\ \A u \in Listener : u # l => me'[u] = me[u]

\* What a step that replaces the memory of one listener does.
LEMMA MeIs ==
  ASSUME TypeOK, NEW l \in Listener, NEW m, me' = [me EXCEPT ![l] = m]
  PROVE  me'[l] = m /\ Others(l)
  BY DEF TypeOK, Others

\* Start, field by field; so are the lemmas about the other actions.
LEMMA StartIs ==
  ASSUME TypeOK, NEW l \in Listener, Start(l)
  PROVE  /\ Others(l) /\ me'[l] \in InMemory
         /\ me[l].pc = "down" /\ lock = NoListener /\ lock' = l
         /\ me'[l].pending = me[l].pending /\ me'[l].batch = me[l].batch
         /\ me'[l].queue = me[l].queue /\ me'[l].turn = me[l].turn
         /\ \/ /\ saved # Absent /\ me'[l].pc = "poll" /\ me'[l].cursor = saved
               /\ me'[l].catching
            \/ /\ me'[l].pc = "anchor" /\ me'[l].cursor = me[l].cursor
               /\ me'[l].catching = me[l].catching
         /\ UNCHANGED <<log, saved, emits, turns, past, cuts, killed, ends>>
         /\ unread' \in 0..MaxUnread
<1> DEFINE a == [me[l] EXCEPT !.pc = "poll", !.cursor = saved, !.catching = TRUE]
           b == [me[l] EXCEPT !.pc = "anchor"]
<1>1. me[l] \in InMemory
  BY DEF TypeOK
<1>2. saved # Absent => /\ a \in InMemory /\ a.pc = "poll" /\ a.cursor = saved /\ a.catching
                        /\ a.pending = me[l].pending /\ a.batch = me[l].batch
                        /\ a.queue = me[l].queue /\ a.turn = me[l].turn
  <2>1. saved # Absent => saved \in 0..MaxEvents
    BY SignalStreamAssumption DEF TypeOK
  <2> QED
    BY <1>1, <2>1 DEF InMemory, Polling
<1>3. /\ b \in InMemory /\ b.pc = "anchor" /\ b.cursor = me[l].cursor
      /\ b.catching = me[l].catching /\ b.pending = me[l].pending /\ b.batch = me[l].batch
      /\ b.queue = me[l].queue /\ b.turn = me[l].turn
  BY <1>1 DEF InMemory, Polling
<1>4. \/ saved # Absent /\ me' = [me EXCEPT ![l] = a]
      \/ me' = [me EXCEPT ![l] = b]
  BY DEF Start, TypeOK
<1> HIDE DEF a, b
<1>5. \/ saved # Absent /\ me'[l] = a
      \/ me'[l] = b
  BY <1>4, MeIs
<1>6. Others(l)
  BY <1>4, MeIs
<1>7. unread' \in 0..MaxUnread
  BY SignalStreamAssumption DEF Start, TypeOK
<1>8. /\ me[l].pc = "down" /\ lock = NoListener /\ lock' = l
      /\ UNCHANGED <<log, saved, emits, turns, past, cuts, killed, ends>>
  BY DEF Start, Acquired
<1> QED
  BY <1>2, <1>3, <1>5, <1>6, <1>7, <1>8

\* Anchor sets the cursor to the end of the log.
LEMMA AnchorIs ==
  ASSUME TypeOK, NEW l \in Listener, Anchor(l)
  PROVE  /\ Others(l) /\ me'[l] \in InMemory
         /\ me[l].pc = "anchor" /\ me'[l].pc = "anchored" /\ me'[l].cursor = Len(log)
         /\ me'[l].catching = me[l].catching /\ me'[l].pending = me[l].pending
         /\ me'[l].batch = me[l].batch /\ me'[l].queue = me[l].queue /\ me'[l].turn = me[l].turn
         /\ UNCHANGED <<log, saved, lock, emits, turns, past, cuts, killed, ends, unread>>
<1> DEFINE a == [me[l] EXCEPT !.pc = "anchored", !.cursor = Len(log)]
<1>1. me[l] \in InMemory /\ Len(log) \in 0..MaxEvents
  BY SignalStreamAssumption DEF TypeOK
<1>2. /\ a \in InMemory /\ a.pc = "anchored" /\ a.cursor = Len(log)
      /\ a.catching = me[l].catching /\ a.pending = me[l].pending /\ a.batch = me[l].batch
      /\ a.queue = me[l].queue /\ a.turn = me[l].turn
  BY <1>1 DEF InMemory, Polling
<1>3. me' = [me EXCEPT ![l] = a]
  BY DEF Anchor, TypeOK
<1> HIDE DEF a
<1>4. me'[l] = a /\ Others(l)
  BY <1>3, MeIs
<1> QED
  BY <1>2, <1>4 DEF Anchor

\* SaveAnchor puts it on disk.
LEMMA SaveAnchorIs ==
  ASSUME TypeOK, NEW l \in Listener, SaveAnchor(l)
  PROVE  /\ Others(l) /\ me'[l] \in InMemory
         /\ me[l].pc = "anchored" /\ me'[l].pc = "poll" /\ me'[l].cursor = me[l].cursor
         /\ me'[l].catching = me[l].catching /\ me'[l].pending = me[l].pending
         /\ me'[l].batch = me[l].batch /\ me'[l].queue = me[l].queue /\ me'[l].turn = me[l].turn
         /\ saved' = me[l].cursor /\ past' = me[l].cursor
         /\ UNCHANGED <<log, lock, emits, turns, cuts, killed, ends, unread>>
<1> DEFINE a == [me[l] EXCEPT !.pc = "poll"]
<1>1. me[l] \in InMemory
  BY DEF TypeOK
<1>2. /\ a \in InMemory /\ a.pc = "poll" /\ a.cursor = me[l].cursor
      /\ a.catching = me[l].catching /\ a.pending = me[l].pending /\ a.batch = me[l].batch
      /\ a.queue = me[l].queue /\ a.turn = me[l].turn
  BY <1>1 DEF InMemory, Polling
<1>3. me' = [me EXCEPT ![l] = a]
  BY DEF SaveAnchor, TypeOK
<1> HIDE DEF a
<1>4. me'[l] = a /\ Others(l)
  BY <1>3, MeIs
<1> QED
  BY <1>2, <1>4 DEF SaveAnchor

\* Save puts the cursor of a batch on disk once all its lines are printed.
LEMMA SaveIs ==
  ASSUME TypeOK, NEW l \in Listener, Save(l)
  PROVE  /\ Others(l) /\ me'[l] \in InMemory
         /\ me[l].pc = "emit" /\ me[l].batch = {}
         /\ me'[l].pc = "poll" /\ me'[l].cursor = me[l].cursor
         /\ me'[l].catching = me[l].catching /\ me'[l].pending = me[l].pending
         /\ me'[l].batch = me[l].batch /\ me'[l].queue = me[l].queue /\ me'[l].turn = me[l].turn
         /\ saved' = me[l].cursor
         /\ UNCHANGED <<log, lock, emits, turns, past, cuts, killed, ends, unread>>
<1> DEFINE a == [me[l] EXCEPT !.pc = "poll"]
<1>1. me[l] \in InMemory
  BY DEF TypeOK
<1>2. /\ a \in InMemory /\ a.pc = "poll" /\ a.cursor = me[l].cursor
      /\ a.catching = me[l].catching /\ a.pending = me[l].pending /\ a.batch = me[l].batch
      /\ a.queue = me[l].queue /\ a.turn = me[l].turn
  BY <1>1 DEF InMemory, Polling
<1>3. me' = [me EXCEPT ![l] = a]
  BY DEF Save, TypeOK
<1> HIDE DEF a
<1>4. me'[l] = a /\ Others(l)
  BY <1>3, MeIs
<1> QED
  BY <1>2, <1>4 DEF Save

\* One line: the event, the oldest of the batch, leaves it, and is queued if it wants an answer.
Prints(l, s) ==
  /\ s \in me[l].batch /\ s \in Event /\ \A t \in me[l].batch : s <= t
  /\ Others(l) /\ me'[l] \in InMemory
  /\ me[l].pc = "emit" /\ me'[l].pc = "emit" /\ me'[l].cursor = me[l].cursor
  /\ me'[l].catching = me[l].catching /\ me'[l].pending = me[l].pending
  /\ me'[l].batch = me[l].batch \ {s} /\ me'[l].turn = me[l].turn
  /\ me'[l].queue = IF log[s] = "chat" THEN me[l].queue \cup {s} ELSE me[l].queue
  /\ emits' \in [Event -> Nat] /\ emits'[s] = emits[s] + 1
  /\ \A t \in Event : t # s => emits'[t] = emits[t]
  /\ UNCHANGED <<log, saved, lock, turns, past, cuts, killed, ends, unread>>

\* Emit prints one line.
LEMMA EmitIs ==
  ASSUME TypeOK, NEW l \in Listener, Emit(l)
  PROVE  \E s \in Event : Prints(l, s)
<1>1. me[l] \in InMemory
  BY DEF TypeOK
<1>2. PICK s \in First(me[l].batch) :
        /\ emits' = [emits EXCEPT ![s] = @ + 1]
        /\ me' = [me EXCEPT ![l].batch = @ \ {s},
                            ![l].queue = IF log[s] = "chat" THEN @ \cup {s} ELSE @]
  BY DEF Emit
<1>3. s \in me[l].batch /\ s \in Event /\ \A t \in me[l].batch : s <= t
  BY <1>1, <1>2 DEF First, InMemory
<1> DEFINE b == me[l].batch \ {s}
           q == IF log[s] = "chat" THEN me[l].queue \cup {s} ELSE me[l].queue
           a == [me[l] EXCEPT !.batch = b, !.queue = q]
<1>4. b \in SUBSET Event /\ q \in SUBSET Event
  BY <1>1, <1>3 DEF InMemory
<1>5. me' = [me EXCEPT ![l] = a]
  BY <1>2 DEF TypeOK
<1> HIDE DEF b, q
<1>6. /\ a \in InMemory /\ a.pc = me[l].pc /\ a.cursor = me[l].cursor
      /\ a.catching = me[l].catching /\ a.pending = me[l].pending /\ a.batch = b
      /\ a.queue = q /\ a.turn = me[l].turn
  BY <1>1, <1>4 DEF InMemory, Polling
<1> HIDE DEF a
<1>7. me'[l] = a /\ Others(l)
  BY <1>5, MeIs
<1>8. /\ emits' \in [Event -> Nat] /\ emits'[s] = emits[s] + 1
      /\ \A t \in Event : t # s => emits'[t] = emits[t]
  BY <1>2, <1>3 DEF TypeOK
<1>9. /\ me[l].pc = "emit"
      /\ UNCHANGED <<log, saved, lock, turns, past, cuts, killed, ends, unread>>
  BY DEF Emit
<1> QED
  BY <1>2, <1>3, <1>6, <1>7, <1>8, <1>9 DEF b, q, Prints

\* TurnStarts takes an event out of the queue.
LEMMA TurnStartsIs ==
  ASSUME TypeOK, NEW l \in Listener, TurnStarts(l)
  PROVE  \E s \in me[l].queue :
         /\ s \in Event /\ Others(l) /\ me'[l] \in InMemory
         /\ me'[l].pc = me[l].pc /\ me'[l].cursor = me[l].cursor
         /\ me'[l].catching = me[l].catching /\ me'[l].pending = me[l].pending
         /\ me'[l].batch = me[l].batch /\ me'[l].queue = me[l].queue \ {s} /\ me'[l].turn = s
         /\ turns' \in [Event -> Nat] /\ turns'[s] = turns[s] + 1
         /\ \A t \in Event : t # s => turns'[t] = turns[t]
         /\ UNCHANGED <<log, saved, lock, emits, past, cuts, killed, ends, unread>>
<1>1. me[l] \in InMemory
  BY DEF TypeOK
<1>2. PICK s \in First(me[l].queue) :
        /\ turns' = [turns EXCEPT ![s] = @ + 1]
        /\ me' = [me EXCEPT ![l].turn = s, ![l].queue = @ \ {s}]
  BY DEF TurnStarts
<1>3. s \in me[l].queue /\ s \in Event
  BY <1>1, <1>2 DEF First, InMemory
<1> DEFINE q == me[l].queue \ {s}
           a == [me[l] EXCEPT !.turn = s, !.queue = q]
<1>4. q \in SUBSET Event
  BY <1>1 DEF InMemory
<1>5. me' = [me EXCEPT ![l] = a]
  BY <1>2 DEF TypeOK
<1> HIDE DEF q
<1>6. /\ a \in InMemory /\ a.pc = me[l].pc /\ a.cursor = me[l].cursor
      /\ a.catching = me[l].catching /\ a.pending = me[l].pending /\ a.batch = me[l].batch
      /\ a.queue = q /\ a.turn = s
  BY <1>1, <1>3, <1>4 DEF InMemory, Polling
<1> HIDE DEF a
<1>7. me'[l] = a /\ Others(l)
  BY <1>5, MeIs
<1>8. /\ turns' \in [Event -> Nat] /\ turns'[s] = turns[s] + 1
      /\ \A t \in Event : t # s => turns'[t] = turns[t]
  BY <1>2, <1>3 DEF TypeOK
<1>9. UNCHANGED <<log, saved, lock, emits, past, cuts, killed, ends, unread>>
  BY DEF TurnStarts
<1> QED
  BY <1>3, <1>6, <1>7, <1>8, <1>9 DEF q

\* TurnEnds leaves all but the turn alone.
LEMMA TurnEndsIs ==
  ASSUME TypeOK, NEW l \in Listener, TurnEnds(l)
  PROVE  /\ Others(l) /\ me'[l] \in InMemory
         /\ me'[l].pc = me[l].pc /\ me'[l].cursor = me[l].cursor
         /\ me'[l].catching = me[l].catching /\ me'[l].pending = me[l].pending
         /\ me'[l].batch = me[l].batch /\ me'[l].queue = me[l].queue
         /\ me[l].turn # Absent /\ me'[l].turn = Absent
         /\ UNCHANGED <<log, saved, lock, emits, turns, past, cuts, killed, ends, unread>>
<1> DEFINE a == [me[l] EXCEPT !.turn = Absent]
<1>1. me[l] \in InMemory
  BY DEF TypeOK
<1>2. /\ a \in InMemory /\ a.pc = me[l].pc /\ a.cursor = me[l].cursor
      /\ a.catching = me[l].catching /\ a.pending = me[l].pending /\ a.batch = me[l].batch
      /\ a.queue = me[l].queue /\ a.turn = Absent
  BY <1>1 DEF InMemory, Polling
<1>3. me' = [me EXCEPT ![l] = a]
  BY DEF TurnEnds, TypeOK
<1> HIDE DEF a
<1>4. me'[l] = a /\ Others(l)
  BY <1>3, MeIs
<1> QED
  BY <1>2, <1>4 DEF TurnEnds

\* Stop forgets everything but the queue and the running turn.
LEMMA StopIs ==
  ASSUME TypeOK, NEW l \in Listener, Stop(l)
  PROVE  /\ Others(l) /\ me'[l] \in InMemory
         /\ me[l].pc # "down" /\ me'[l].pc = "closing"
         /\ me'[l].cursor = 0 /\ ~me'[l].catching /\ me'[l].pending = {} /\ me'[l].batch = {}
         /\ me'[l].queue = me[l].queue /\ me'[l].turn = me[l].turn
         /\ Cut(l) /\ ends < MaxEnds /\ ends' = ends + 1
         /\ UNCHANGED <<log, saved, lock, emits, turns, past, killed, unread>>
<1> DEFINE a == [Fresh EXCEPT !.pc = "closing", !.queue = me[l].queue, !.turn = me[l].turn]
<1>1. me[l] \in InMemory /\ 0 \in 0..MaxEvents /\ 0 \in 0..MaxRequests
  BY SignalStreamAssumption DEF TypeOK
<1>2. /\ a \in InMemory /\ a.pc = "closing" /\ a.cursor = 0
      /\ ~a.catching /\ a.pending = {} /\ a.batch = {}
      /\ a.queue = me[l].queue /\ a.turn = me[l].turn
  BY <1>1 DEF InMemory, Polling, Fresh
<1>3. me' = [me EXCEPT ![l] = a]
  BY DEF Stop, TypeOK
<1> HIDE DEF a
<1>4. me'[l] = a /\ Others(l)
  BY <1>3, MeIs
<1>5. me[l].pc # "down"
  BY DEF Stop, Polling
<1> QED
  BY <1>2, <1>4, <1>5 DEF Stop

\* Release comes when neither is left.
LEMMA ReleaseIs ==
  ASSUME TypeOK, NEW l \in Listener, Release(l)
  PROVE  /\ Others(l) /\ me'[l] \in InMemory
         /\ me[l].pc = "closing" /\ me'[l].pc = "down" /\ me'[l].cursor = me[l].cursor
         /\ me'[l].catching = me[l].catching /\ me'[l].pending = me[l].pending
         /\ me'[l].batch = me[l].batch
         /\ me[l].queue = {} /\ me'[l].queue = {} /\ me'[l].turn = Absent
         /\ lock' = NoListener
         /\ UNCHANGED <<log, saved, emits, turns, past, cuts, killed, ends, unread>>
<1> DEFINE a == [me[l] EXCEPT !.pc = "down"]
<1>1. me[l] \in InMemory
  BY DEF TypeOK
<1>2. /\ a \in InMemory /\ a.pc = "down" /\ a.cursor = me[l].cursor
      /\ a.catching = me[l].catching /\ a.pending = me[l].pending /\ a.batch = me[l].batch
      /\ a.queue = me[l].queue /\ a.turn = me[l].turn
  BY <1>1 DEF InMemory, Polling
<1>3. me' = [me EXCEPT ![l] = a]
  BY DEF Release, TypeOK
<1> HIDE DEF a
<1>4. me'[l] = a /\ Others(l)
  BY <1>3, MeIs
<1> QED
  BY <1>2, <1>4 DEF Release

\* Kill forgets everything.
LEMMA KillIs ==
  ASSUME TypeOK, NEW l \in Listener, Kill(l)
  PROVE  /\ Others(l) /\ me'[l] \in InMemory
         /\ me[l].pc # "down" /\ me'[l].pc = "down" /\ me'[l].cursor = 0
         /\ ~me'[l].catching /\ me'[l].pending = {} /\ me'[l].batch = {}
         /\ me'[l].queue = {} /\ me'[l].turn = Absent
         /\ Cut(l) /\ ends < MaxEnds /\ ends' = ends + 1 /\ killed' = TRUE /\ lock' = NoListener
         /\ UNCHANGED <<log, saved, emits, turns, past, unread>>
<1>1. 0 \in 0..MaxEvents /\ 0 \in 0..MaxRequests
  BY SignalStreamAssumption
<1>2. /\ Fresh \in InMemory /\ Fresh.pc = "down" /\ Fresh.cursor = 0
      /\ ~Fresh.catching /\ Fresh.pending = {} /\ Fresh.batch = {}
      /\ Fresh.queue = {} /\ Fresh.turn = Absent
  BY <1>1 DEF InMemory, Polling, Fresh
<1>3. me'[l] = Fresh /\ Others(l)
  BY MeIs DEF Kill
<1> QED
  BY <1>2, <1>3 DEF Kill

\* Sets of events are finite.
LEMMA EventsFinite ==
  ASSUME NEW es, es \subseteq Event
  PROVE  IsFiniteSet(es) /\ Cardinality(es) \in Nat /\ es \subseteq Int
<1>1. IsFiniteSet(Event) /\ Event \subseteq Int
  BY FS_Interval, SignalStreamAssumption DEF Event
<1> QED
  BY <1>1, FS_Subset, FS_CardinalityType

\* A set of events is as large as its subsets at least.
LEMMA More ==
  ASSUME NEW es, NEW fs, es \subseteq fs, fs \subseteq Event
  PROVE  Cardinality(es) <= Cardinality(fs)
<1>1. IsFiniteSet(fs)
  BY EventsFinite
<1> QED
  BY <1>1, FS_Subset

\* Rendered: what may be shown of the next n events.
LEMMA RenderedIs ==
  ASSUME TypeOK, NEW c \in Nat, NEW n \in Nat, c + n <= Len(log)
  PROVE  /\ Rendered(c, n) \subseteq Event
         /\ \A s \in Rendered(c, n) : c < s /\ s <= c + n /\ Shown(s)
         /\ \A s \in (c + 1)..(c + n) : Shown(s) => s \in Rendered(c, n)
<1>1. Len(log) \in Nat /\ MaxEvents \in Nat /\ Len(log) <= MaxEvents
  BY SignalStreamAssumption DEF TypeOK
<1>2. (c + 1)..(c + n) \subseteq Event /\ \A s \in (c + 1)..(c + n) : c < s /\ s <= c + n
  BY <1>1 DEF Event
<1> QED
  BY <1>2 DEF Rendered

\* Buffered: a buffer within its size, and whatever it let go of has MaxBuffered newer ones in it.
LEMMA BufferedIs ==
  ASSUME TypeOK, NEW l \in Listener, NEW n \in Nat, me[l].cursor + n <= Len(log)
  PROVE  LET gap == me[l].pending \cup Rendered(me[l].cursor, n)
             B   == Buffered(l, n)
         IN  /\ B \subseteq gap /\ B \subseteq Event /\ Cardinality(B) <= MaxBuffered
             /\ \A s \in gap \ B : Cardinality(Above(B, s)) >= MaxBuffered
<1> DEFINE gap == me[l].pending \cup Rendered(me[l].cursor, n)
<1>1. me[l].cursor \in Nat /\ me[l].pending \subseteq Event
  BY DEF TypeOK, InMemory
<1>2. gap \subseteq Event
  BY <1>1, RenderedIs
<1>3. IsFiniteSet(gap) /\ gap \subseteq Int
  BY <1>2, EventsFinite
<1>4. MaxBuffered \in Nat
  BY SignalStreamAssumption
<1>5. Buffered(l, n) = Newest(gap, MaxBuffered)
  BY DEF Buffered
<1> HIDE DEF gap
<1>6. /\ Newest(gap, MaxBuffered) \subseteq gap
      /\ Cardinality(Newest(gap, MaxBuffered)) <= MaxBuffered
      /\ \A s \in gap \ Newest(gap, MaxBuffered) :
           Cardinality(Above(Newest(gap, MaxBuffered), s)) >= MaxBuffered
  BY <1>3, <1>4, NewestOf
<1> QED
  BY <1>2, <1>5, <1>6 DEF gap

\* Kept: whatever the trim lets go of has Replay newer ones of its class that stay.
LEMMA KeptIs ==
  ASSUME TypeOK, NEW es, es \subseteq Event, \A s \in es : s <= Len(log)
  PROVE  /\ Kept(es) \subseteq es
         /\ \A s \in es \ Kept(es) : Shown(s) =>
              Cardinality({t \in Kept(es) : t > s /\ log[t] = log[s]}) >= Replay
<1> DEFINE Of(c) == {s \in es : log[s] = c}
<1>1. Replay \in Nat
  BY SignalStreamAssumption
<1>2. \A c : Of(c) \subseteq es /\ Of(c) \subseteq Event /\ IsFiniteSet(Of(c)) /\ Of(c) \subseteq Int
  BY EventsFinite
<1>3. \A c : /\ Newest(Of(c), Replay) \subseteq Of(c)
             /\ \A s \in Of(c) \ Newest(Of(c), Replay) :
                  Cardinality(Above(Newest(Of(c), Replay), s)) >= Replay
  <2> HIDE DEF Of
  <2> QED
    BY <1>1, <1>2, NewestOf
<1>4. Kept(es) = Newest(Of("chat"), Replay) \cup Newest(Of("context"), Replay)
  BY DEF Kept
<1>5. Kept(es) \subseteq es
  BY <1>2, <1>3, <1>4
<1>6. ASSUME NEW s \in es, s \notin Kept(es), Shown(s)
      PROVE  Cardinality({t \in Kept(es) : t > s /\ log[t] = log[s]}) >= Replay
  <2> DEFINE N == Newest(Of(log[s]), Replay)
             U == {t \in Kept(es) : t > s /\ log[t] = log[s]}
  <2>1. s \in 1..Len(log)
    BY <1>6 DEF Event
  <2>2. log[s] \in {"chat", "context"}
    BY <1>6, <2>1 DEF TypeOK, Class, Shown
  <2>3. N \subseteq Kept(es)
    BY <1>4, <2>2
  <2>4. s \in Of(log[s]) \ N
    BY <1>6, <2>3
  <2>5. Cardinality(Above(N, s)) >= Replay
    BY <1>3, <2>4
  <2>6. \A t \in N : log[t] = log[s]
    BY <1>3
  <2> HIDE DEF N
  <2>7. Above(N, s) \subseteq U
    BY <2>3, <2>6 DEF Above
  <2>8. U \subseteq Event
    BY <1>5
  <2>9. Cardinality(Above(N, s)) <= Cardinality(U)
    <3> HIDE DEF U
    <3> QED
      BY <2>7, <2>8, More
  <2>10. Cardinality(Above(N, s)) \in Nat /\ Cardinality(U) \in Nat
    <3> HIDE DEF U
    <3> QED
      BY <2>7, <2>8, EventsFinite
  <2> QED
    BY <1>1, <2>5, <2>9, <2>10
<1> QED
  BY <1>5, <1>6

\* A poll of n events that is worked on: printed, buffered, or flushed.
PollGoes(l, n) ==
  /\ Others(l) /\ me'[l] \in InMemory
  /\ me'[l].cursor = me[l].cursor + n
  /\ me'[l].queue = me[l].queue /\ me'[l].turn = me[l].turn
  /\ \/ /\ ~me[l].catching /\ ~me'[l].catching /\ me'[l].pc = "emit"
        /\ me'[l].batch = Rendered(me[l].cursor, n) /\ me'[l].pending = me[l].pending
     \/ /\ me[l].catching /\ me'[l].catching /\ me'[l].pc = "poll"
        /\ me'[l].batch = me[l].batch /\ me'[l].pending = Buffered(l, n)
     \/ /\ me[l].catching /\ ~me'[l].catching /\ me'[l].pc = "emit"
        /\ me'[l].batch = Kept(Buffered(l, n)) /\ me'[l].pending = {}

\* An answer is worked on or, when it does not advance the cursor, left alone.
LEMMA PollIs ==
  ASSUME TypeOK, NEW l \in Listener, Polled(l) \/ Unmoved(l)
  PROVE  /\ me[l].pc = "poll"
         /\ UNCHANGED <<log, saved, lock, emits, turns, past, cuts, killed, ends, unread>>
         /\ \/ me' = me
            \/ \E n \in Nat : me[l].cursor + n <= Len(log) /\ PollGoes(l, n)
<1>1. me[l] \in InMemory /\ me[l].cursor \in Nat
  BY DEF TypeOK, InMemory
<1>2. PICK n \in Nat, moved \in Nat :
        Poll(l, n, moved) /\ (moved = me[l].cursor + n \/ (n > 0 /\ moved = me[l].cursor))
  <2>1. MaxEvents \in Nat
    BY SignalStreamAssumption
  <2>2. CASE Polled(l)
    <3>1. PICK n \in 0..MaxEvents : Poll(l, n, me[l].cursor + n)
      BY <2>2 DEF Polled
    <3>2. n \in Nat /\ me[l].cursor + n \in Nat
      BY <1>1, <2>1, <3>1
    <3> QED
      BY <3>1, <3>2
  <2>3. CASE Unmoved(l)
    <3>1. PICK n \in Event : Poll(l, n, me[l].cursor)
      BY <2>3 DEF Unmoved
    <3>2. n \in Nat /\ n > 0
      BY <2>1, <3>1 DEF Event
    <3> QED
      BY <1>1, <3>1, <3>2
  <2> QED
    BY <2>2, <2>3
<1>3. /\ me[l].pc = "poll"
      /\ UNCHANGED <<log, saved, lock, emits, turns, past, cuts, killed, ends, unread>>
  BY <1>2 DEF Poll
<1>4. CASE me' = me
  BY <1>3, <1>4
<1>5. CASE me' # me
  <2>1. Advances(l, n, moved) /\ (Live(l, n, moved) \/ Catch(l, n, moved) \/ Flush(l, n, moved))
    BY <1>2, <1>5 DEF Poll
  <2>2. moved = me[l].cursor + n
    BY <1>1, <1>2, <2>1 DEF Advances
  <2>3. me[l].cursor + n <= Len(log) /\ moved \in 0..MaxEvents
    <3>1. Len(log) \in Nat /\ Len(log) <= MaxEvents /\ MaxEvents \in Nat
      BY SignalStreamAssumption DEF TypeOK
    <3>2. n \in 0..(Len(log) - me[l].cursor)
      BY <1>2 DEF Poll
    <3> QED
      BY <1>1, <2>2, <3>1, <3>2
  <2> DEFINE R == Rendered(me[l].cursor, n)
             B == Buffered(l, n)
             K == Kept(B)
             a == [me[l] EXCEPT !.pc = "emit", !.cursor = moved, !.batch = R]
             r == me[l].requests + 1
             b == [me[l] EXCEPT !.cursor = moved, !.requests = r, !.pending = B]
             c == [me[l] EXCEPT !.pc = "emit", !.cursor = moved, !.catching = FALSE,
                                !.requests = 0, !.pending = {}, !.batch = K]
  <2>4. R \subseteq Event /\ B \subseteq Event /\ K \subseteq Event
    <3>1. R \subseteq Event
      BY <1>1, <2>3, RenderedIs
    <3>2. B \subseteq Event
      BY <2>3, BufferedIs
    <3>3. \A s \in K : s \in B
      BY DEF Kept, Newest
    <3> QED
      BY <3>1, <3>2, <3>3
  <2>5. \/ me' = [me EXCEPT ![l] = a] /\ ~me[l].catching
        \/ me' = [me EXCEPT ![l] = b] /\ me[l].catching /\ ~GapEnds(l, n)
        \/ me' = [me EXCEPT ![l] = c] /\ me[l].catching
    BY <2>1 DEF Live, Catch, Flush, TypeOK
  <2>6. ~GapEnds(l, n) => r \in 0..MaxRequests
    BY <1>1, SignalStreamAssumption DEF GapEnds, InMemory
  <2> HIDE DEF R, B, K, r
  <2>7. /\ a \in InMemory /\ a.pc = "emit" /\ a.cursor = moved /\ a.batch = R
        /\ a.catching = me[l].catching /\ a.pending = me[l].pending
        /\ a.queue = me[l].queue /\ a.turn = me[l].turn
    BY <1>1, <2>3, <2>4 DEF InMemory, Polling
  <2>8. ~GapEnds(l, n) =>
        /\ b \in InMemory /\ b.pc = "poll" /\ b.cursor = moved /\ b.batch = me[l].batch
        /\ b.catching = me[l].catching /\ b.pending = B
        /\ b.queue = me[l].queue /\ b.turn = me[l].turn
    BY <1>1, <1>3, <2>3, <2>4, <2>6 DEF InMemory, Polling
  <2>9. /\ c \in InMemory /\ c.pc = "emit" /\ c.cursor = moved /\ c.batch = K
        /\ ~c.catching /\ c.pending = {}
        /\ c.queue = me[l].queue /\ c.turn = me[l].turn
    <3>1. 0 \in 0..MaxRequests
      BY SignalStreamAssumption
    <3> QED
      BY <1>1, <2>3, <2>4, <3>1 DEF InMemory, Polling
  <2> HIDE DEF a, b, c
  <2>10. \/ me'[l] = a /\ ~me[l].catching /\ Others(l)
         \/ me'[l] = b /\ me[l].catching /\ ~GapEnds(l, n) /\ Others(l)
         \/ me'[l] = c /\ me[l].catching /\ Others(l)
    BY <2>5, MeIs
  <2>11. PollGoes(l, n)
    BY <2>2, <2>7, <2>8, <2>9, <2>10 DEF PollGoes, R, B, K
  <2> QED
    BY <1>2, <1>3, <2>3, <2>11
<1> QED
  BY <1>4, <1>5

\* The steps by action.
LEMMA StepIs ==
  ASSUME [Next]_vars
  PROVE  \/ \E l \in Listener :
              \/ Start(l) \/ Anchor(l) \/ SaveAnchor(l) \/ Polled(l) \/ Unmoved(l) \/ Emit(l)
              \/ Save(l) \/ TurnStarts(l) \/ TurnEnds(l) \/ Stop(l) \/ Release(l) \/ Kill(l)
         \/ Happens \/ UNCHANGED vars
  BY DEF Next, Held

\* The lock keeps the others down.
LEMMA OnlyOne ==
  ASSUME TypeOK, HoldInv, NEW l \in Listener, me[l].pc # "down" \/ lock = NoListener
  PROVE  \A u \in Listener : u # l => me[u].pc = "down"
  BY SignalStreamAssumption DEF HoldInv

\* HoldInv, action by action: a listener comes up with the lock and goes down with nothing in hand.
LEMMA HoldStep ==
  ASSUME TypeOK, HoldInv, [Next]_vars
  PROVE  HoldInv'
<1>1. ASSUME NEW l \in Listener, Start(l)
      PROVE  HoldInv'
  BY <1>1, StartIs, OnlyOne DEF HoldInv, Others
<1>2. ASSUME NEW l \in Listener, Anchor(l)
      PROVE  HoldInv'
  BY <1>2, AnchorIs DEF HoldInv, Others
<1>3. ASSUME NEW l \in Listener, SaveAnchor(l)
      PROVE  HoldInv'
  BY <1>3, SaveAnchorIs DEF HoldInv, Others
<1>4. ASSUME NEW l \in Listener, Polled(l) \/ Unmoved(l)
      PROVE  HoldInv'
  BY <1>4, PollIs DEF HoldInv, PollGoes, Others
<1>5. ASSUME NEW l \in Listener, Emit(l)
      PROVE  HoldInv'
  <2>1. /\ Others(l) /\ me[l].pc = "emit" /\ me'[l].pc = "emit" /\ lock' = lock
        /\ me'[l].catching = me[l].catching /\ me'[l].pending = me[l].pending
    BY <1>5, EmitIs DEF Prints
  <2> QED
    BY <2>1 DEF HoldInv, Others
<1>6. ASSUME NEW l \in Listener, Save(l)
      PROVE  HoldInv'
  BY <1>6, SaveIs DEF HoldInv, Others
<1>7. ASSUME NEW l \in Listener, TurnStarts(l)
      PROVE  HoldInv'
  BY <1>7, TurnStartsIs DEF HoldInv, Others
<1>8. ASSUME NEW l \in Listener, TurnEnds(l)
      PROVE  HoldInv'
  BY <1>8, TurnEndsIs DEF HoldInv, Others
<1>9. ASSUME NEW l \in Listener, Stop(l)
      PROVE  HoldInv'
  BY <1>9, StopIs DEF HoldInv, Others
<1>10. ASSUME NEW l \in Listener, Release(l)
       PROVE  HoldInv'
  BY <1>10, ReleaseIs, OnlyOne DEF HoldInv, Others
<1>11. ASSUME NEW l \in Listener, Kill(l)
       PROVE  HoldInv'
  <2>1. /\ Others(l) /\ me[l].pc # "down" /\ me'[l].pc = "down" /\ ~me'[l].catching
        /\ me'[l].pending = {} /\ me'[l].batch = {} /\ me'[l].queue = {} /\ me'[l].turn = Absent
    BY <1>11, KillIs
  <2>2. \A u \in Listener : u # l => me'[u] = me[u] /\ me[u].pc = "down"
    BY <2>1, OnlyOne DEF Others
  <2> QED
    BY <2>1, <2>2 DEF HoldInv
<1>12. CASE Happens \/ UNCHANGED vars
  BY <1>12 DEF HoldInv, Happens, vars
<1> QED
  BY StepIs, <1>1, <1>2, <1>3, <1>4, <1>5, <1>6, <1>7, <1>8, <1>9, <1>10, <1>11, <1>12

\* What is left of TypeOK' once the memory of one listener is known.
LEMMA MemoryTypes ==
  ASSUME TypeOK, NEW l \in Listener, Others(l), me'[l] \in InMemory,
         me'[l].pending = me[l].pending \/ Cardinality(me'[l].pending) <= MaxBuffered
  PROVE  /\ me' \in [Listener -> InMemory]
         /\ \A u \in Listener : Cardinality(me'[u].pending) <= MaxBuffered
  BY DEF TypeOK, Others

\* Types, and no more cuts than ends. PlaceInv keeps what is put on disk within the log.
LEMMA StreamTypeStep ==
  ASSUME TypeOK, HoldInv, PlaceInv, cuts <= ends, [Next]_vars
  PROVE  TypeOK' /\ (cuts <= ends)'
<1> DEFINE Memory == /\ me' \in [Listener -> InMemory]
                     /\ \A l \in Listener : Cardinality(me'[l].pending) <= MaxBuffered
           Rest == /\ log' \in Seq(Class) /\ Len(log') <= MaxEvents
                   /\ saved' \in 0..Len(log') \cup {Absent} /\ past' \in 0..Len(log')
                   /\ lock' \in Listener \cup {NoListener}
                   /\ emits' \in [Event -> Nat] /\ turns' \in [Event -> Nat]
                   /\ cuts' \in 0..MaxEnds /\ killed' \in BOOLEAN
                   /\ ends' \in 0..MaxEnds /\ unread' \in 0..MaxUnread
                   /\ cuts' <= ends'
           Goal == Memory /\ Rest
<1>0. /\ MaxEnds \in Nat /\ MaxBuffered \in Nat /\ Cardinality({}) = 0
      /\ Len(log) \in Nat /\ Len(log) <= MaxEvents /\ MaxEvents \in Nat
      /\ cuts \in Nat /\ ends \in Nat
  BY SignalStreamAssumption, FS_EmptySet DEF TypeOK
<1>1. ASSUME NEW l \in Listener, Start(l)
      PROVE  Goal
  <2>1. Memory
    BY <1>1, StartIs, MemoryTypes
  <2> QED
    BY <1>1, <2>1, StartIs DEF TypeOK
<1>2. ASSUME NEW l \in Listener, Anchor(l)
      PROVE  Goal
  <2>1. Memory
    BY <1>2, AnchorIs, MemoryTypes
  <2> QED
    BY <1>2, <2>1, AnchorIs DEF TypeOK
<1>3. ASSUME NEW l \in Listener, SaveAnchor(l)
      PROVE  Goal
  <2>1. Memory
    BY <1>3, SaveAnchorIs, MemoryTypes
  <2>2. me[l].cursor \in 0..Len(log)
    BY <1>0 DEF PlaceInv, PlaceIs, TypeOK, InMemory
  <2> QED
    BY <1>3, <2>1, <2>2, SaveAnchorIs DEF TypeOK
<1>4. ASSUME NEW l \in Listener, Polled(l) \/ Unmoved(l)
      PROVE  Goal
  <2>1. Memory
    <3>1. CASE me' = me
      BY <3>1 DEF TypeOK
    <3>2. ASSUME NEW n \in Nat, me[l].cursor + n <= Len(log), PollGoes(l, n)
          PROVE  Memory
      <4>1. Cardinality(Buffered(l, n)) <= MaxBuffered
        BY <3>2, BufferedIs
      <4>2. me'[l].pending = me[l].pending \/ Cardinality(me'[l].pending) <= MaxBuffered
        <5>1. \/ me'[l].pending = me[l].pending
              \/ me'[l].pending = Buffered(l, n)
              \/ me'[l].pending = {}
          BY <3>2 DEF PollGoes
        <5>2. 0 <= MaxBuffered
          BY <1>0
        <5>3. Cardinality({}) <= MaxBuffered
          BY <5>2, FS_EmptySet
        <5> QED
          BY <4>1, <5>1, <5>3, Zenon
      <4> QED
        BY <3>2, <4>2, MemoryTypes DEF PollGoes
    <3> QED
      BY <1>4, <3>1, <3>2, PollIs
  <2>2. UNCHANGED <<log, saved, lock, emits, turns, past, cuts, killed, ends, unread>>
    BY <1>4, PollIs
  <2> QED
    BY <2>1, <2>2 DEF TypeOK
<1>5. ASSUME NEW l \in Listener, Emit(l)
      PROVE  Goal
  <2>1. /\ Others(l) /\ me'[l] \in InMemory /\ me'[l].pending = me[l].pending
        /\ emits' \in [Event -> Nat]
        /\ UNCHANGED <<log, saved, lock, turns, past, cuts, killed, ends, unread>>
    BY <1>5, EmitIs DEF Prints
  <2>2. Memory
    BY <2>1, MemoryTypes
  <2> QED
    BY <2>1, <2>2 DEF TypeOK
<1>6. ASSUME NEW l \in Listener, Save(l)
      PROVE  Goal
  <2>1. Memory
    BY <1>6, SaveIs, MemoryTypes
  <2>2. me[l].cursor \in 0..Len(log)
    BY <1>0 DEF PlaceInv, PlaceIs, TypeOK, InMemory
  <2> QED
    BY <1>6, <2>1, <2>2, SaveIs DEF TypeOK
<1>7. ASSUME NEW l \in Listener, TurnStarts(l)
      PROVE  Goal
  <2>1. /\ Others(l) /\ me'[l] \in InMemory /\ me'[l].pending = me[l].pending
        /\ turns' \in [Event -> Nat]
        /\ UNCHANGED <<log, saved, lock, emits, past, cuts, killed, ends, unread>>
    BY <1>7, TurnStartsIs
  <2>2. Memory
    BY <2>1, MemoryTypes
  <2> QED
    BY <2>1, <2>2 DEF TypeOK
<1>8. ASSUME NEW l \in Listener, TurnEnds(l)
      PROVE  Goal
  <2>1. Memory
    BY <1>8, TurnEndsIs, MemoryTypes
  <2> QED
    BY <1>8, <2>1, TurnEndsIs DEF TypeOK
<1>9. ASSUME NEW l \in Listener, Stop(l)
      PROVE  Goal
  <2>1. Memory
    <3>1. Others(l) /\ me'[l] \in InMemory /\ me'[l].pending = {}
      BY <1>9, StopIs
    <3>2. Cardinality(me'[l].pending) <= MaxBuffered
      BY <1>0, <3>1
    <3> QED
      BY <3>1, <3>2, MemoryTypes
  <2>2. ends' \in 0..MaxEnds /\ cuts' \in 0..MaxEnds /\ cuts' <= ends'
    <3>1. Cut(l) /\ ends < MaxEnds /\ ends' = ends + 1
      BY <1>9, StopIs
    <3>2. cuts' = cuts \/ cuts' = cuts + 1
      BY <3>1 DEF Cut
    <3> QED
      BY <1>0, <3>1, <3>2
  <2> QED
    BY <1>9, <2>1, <2>2, StopIs DEF TypeOK
<1>10. ASSUME NEW l \in Listener, Release(l)
       PROVE  Goal
  <2>1. Memory
    BY <1>10, ReleaseIs, MemoryTypes
  <2> QED
    BY <1>10, <2>1, ReleaseIs DEF TypeOK
<1>11. ASSUME NEW l \in Listener, Kill(l)
       PROVE  Goal
  <2>1. Memory
    <3>1. Others(l) /\ me'[l] \in InMemory /\ me'[l].pending = {}
      BY <1>11, KillIs
    <3>2. Cardinality(me'[l].pending) <= MaxBuffered
      BY <1>0, <3>1
    <3> QED
      BY <3>1, <3>2, MemoryTypes
  <2>2. ends' \in 0..MaxEnds /\ cuts' \in 0..MaxEnds /\ cuts' <= ends'
    <3>1. Cut(l) /\ ends < MaxEnds /\ ends' = ends + 1
      BY <1>11, KillIs
    <3>2. cuts' = cuts \/ cuts' = cuts + 1
      BY <3>1 DEF Cut
    <3> QED
      BY <1>0, <3>1, <3>2
  <2> QED
    BY <1>11, <2>1, <2>2, KillIs DEF TypeOK
<1>12. ASSUME Happens
       PROVE  Goal
  <2>1. PICK c \in Class : log' = Append(log, c)
    BY <1>12 DEF Happens
  <2>2. log' \in Seq(Class) /\ Len(log') = Len(log) + 1
    BY <2>1 DEF TypeOK
  <2>3. Len(log') <= MaxEvents
    BY <1>0, <1>12, <2>2 DEF Happens
  <2>4. /\ saved' \in 0..Len(log') \cup {Absent} /\ past' \in 0..Len(log')
    BY <1>0, <1>12, <2>2 DEF Happens, TypeOK
  <2> QED
    BY <1>12, <2>2, <2>3, <2>4 DEF TypeOK, Happens
<1>13. ASSUME UNCHANGED vars
       PROVE  Goal
  BY <1>13 DEF TypeOK, vars
<1>14. Goal
  <2> HIDE DEF Goal
  <2> QED
    BY StepIs, <1>1, <1>2, <1>3, <1>4, <1>5, <1>6, <1>7, <1>8, <1>9, <1>10, <1>11, <1>12,
       <1>13
<1> QED
  BY <1>14 DEF TypeOK

\* A new event leaves those before it alone.
LEMMA HappensIs ==
  ASSUME TypeOK, Happens
  PROVE  /\ Len(log') = Len(log) + 1 /\ \A s \in Logged : log'[s] = log[s]
         /\ UNCHANGED <<saved, lock, me, emits, turns, past, cuts, killed, ends, unread>>
<1>1. PICK c \in Class : log' = Append(log, c)
  BY DEF Happens
<1>2. log \in Seq(Class)
  BY DEF TypeOK
<1>3. Len(log') = Len(log) + 1 /\ \A s \in Logged : log'[s] = log[s]
  BY <1>1, <1>2 DEF Logged
<1> QED
  BY <1>3 DEF Happens

\* What the types say of the numbers used below.
LEMMA Numbers ==
  ASSUME TypeOK, NEW l \in Listener
  PROVE  /\ me[l].cursor \in Nat /\ Len(log) \in Nat /\ Mark \in Nat /\ Mark <= Len(log)
         /\ saved # Absent => saved \in Nat /\ Mark = saved
         /\ \A s \in me[l].pending \cup me[l].batch \cup me[l].queue : s \in Event /\ s \in Nat
         /\ MaxBuffered \in Nat /\ Replay \in Nat /\ cuts \in Nat /\ ends \in Nat
<1>1. me[l] \in InMemory /\ Len(log) \in Nat /\ Len(log) <= MaxEvents
  BY DEF TypeOK
<1>2. MaxEvents \in Nat /\ MaxBuffered \in Nat /\ Replay \in Nat /\ MaxEnds \in Nat
  BY SignalStreamAssumption
<1>3. me[l].cursor \in Nat
  BY <1>1, <1>2 DEF InMemory
<1>4. \A s \in me[l].pending \cup me[l].batch \cup me[l].queue : s \in Event /\ s \in Nat
  BY <1>1, <1>2 DEF InMemory, Event
<1>5. saved \in 0..Len(log) \cup {Absent} /\ cuts \in Nat /\ ends \in Nat
  BY <1>2 DEF TypeOK
<1>6. /\ Mark \in Nat /\ Mark <= Len(log)
      /\ saved # Absent => saved \in Nat /\ Mark = saved
  BY <1>1, <1>5 DEF Mark
<1> QED
  BY <1>1, <1>2, <1>3, <1>4, <1>5, <1>6

\* Nobody else is concerned by what the one with the lock does.
LEMMA PlaceOthers ==
  ASSUME TypeOK, HoldInv, PlaceInv, NEW l \in Listener, Others(l), log' = log, PlaceIs(l)',
         saved' = saved \/ me[l].pc # "down"
  PROVE  PlaceInv'
<1> SUFFICES ASSUME NEW u \in Listener, u # l
             PROVE  PlaceIs(u)'
  BY DEF PlaceInv
<1>1. me'[u] = me[u] /\ PlaceIs(u)
  BY DEF Others, PlaceInv
<1>2. CASE saved' = saved
  BY <1>1, <1>2 DEF PlaceIs, Mark, Shown
<1>3. CASE me[l].pc # "down"
  <2>1. me[u].pc = "down" /\ me[u].pending = {} /\ me[u].batch = {}
    BY <1>3, OnlyOne DEF HoldInv
  <2> QED
    BY <1>1, <2>1 DEF PlaceIs
<1> QED
  BY <1>2, <1>3

\* PlaceIs over a poll: what is read is past the cursor.
LEMMA PlacePoll ==
  ASSUME TypeOK, HoldInv, PlaceInv, NEW l \in Listener, NEW n \in Nat,
         me[l].pc = "poll", me[l].cursor + n <= Len(log), PollGoes(l, n),
         UNCHANGED <<log, saved>>
  PROVE  PlaceIs(l)'
<1> DEFINE c == me[l].cursor
           R == Rendered(c, n)
           gap == me[l].pending \cup R
<1>1. /\ PlaceIs(l) /\ c \in Nat /\ Mark \in Nat /\ Mark' = Mark /\ saved # Absent /\ Mark = saved
      /\ saved <= c /\ saved \in Nat
  BY Numbers DEF PlaceInv, PlaceIs, Mark
<1>2. \A s \in R : s \in Nat /\ c < s /\ s <= c + n /\ Shown(s)
  BY <1>1, RenderedIs DEF Event
<1>3. \A s \in gap : s \in Nat /\ Mark < s /\ s <= c + n /\ Shown(s)
  BY <1>1, <1>2, Numbers DEF PlaceIs
<1>4. Buffered(l, n) \subseteq gap /\ Kept(Buffered(l, n)) \subseteq gap
  BY DEF Buffered, Kept, Newest
<1>5. me[l].batch = {} /\ (~me[l].catching => me[l].pending = {})
  BY DEF HoldInv
<1>6. /\ \A s \in me'[l].pending \cup me'[l].batch : s \in gap
      /\ me'[l].cursor = c + n /\ me'[l].pc \in {"poll", "emit"}
      /\ me'[l].queue = me[l].queue /\ (me'[l].pc = "poll" => me'[l].catching)
  BY <1>4, <1>5 DEF PollGoes
<1>7. \A s \in me[l].queue : s <= saved /\ s \in Nat
  BY <1>1, Numbers DEF PlaceIs
<1> HIDE DEF R, gap
<1>8. \A s \in me'[l].pending \cup me'[l].batch : Mark < s /\ s <= c + n /\ Shown(s)'
  BY <1>3, <1>6 DEF Shown
<1>9. \A s \in me'[l].queue : s <= c + n /\ \A t \in me'[l].batch : s < t
  <2> SUFFICES ASSUME NEW s \in me'[l].queue, NEW t \in me'[l].batch
               PROVE  s <= c + n /\ s < t
    BY <1>1, <1>6, <1>7
  <2> QED
    BY <1>1, <1>3, <1>6, <1>7
<1> QED
  BY <1>1, <1>6, <1>7, <1>8, <1>9 DEF PlaceIs

\* PlaceInv, action by action.
LEMMA PlaceStep ==
  ASSUME TypeOK, HoldInv, PlaceInv, [Next]_vars
  PROVE  PlaceInv'
<1>1. ASSUME NEW l \in Listener, Start(l)
      PROVE  PlaceInv'
  <2>1. PlaceIs(l)'
    BY <1>1, StartIs, Numbers DEF HoldInv, PlaceInv, PlaceIs, Mark
  <2> QED
    BY <1>1, <2>1, StartIs, PlaceOthers
<1>2. ASSUME NEW l \in Listener, Anchor(l)
      PROVE  PlaceInv'
  <2>1. PlaceIs(l)'
    BY <1>2, AnchorIs, Numbers DEF HoldInv, PlaceInv, PlaceIs, Mark
  <2> QED
    BY <1>2, <2>1, AnchorIs, PlaceOthers
<1>3. ASSUME NEW l \in Listener, SaveAnchor(l)
      PROVE  PlaceInv'
  <2>1. PlaceIs(l)'
    <3>1. /\ me[l].pc = "anchored" /\ me'[l].pc = "poll" /\ me'[l].cursor = me[l].cursor
          /\ me'[l].catching = me[l].catching /\ me'[l].pending = me[l].pending
          /\ me'[l].batch = me[l].batch /\ me'[l].queue = me[l].queue
          /\ saved' = me[l].cursor /\ log' = log
      BY <1>3, SaveAnchorIs
    <3>2. /\ PlaceIs(l) /\ ~me[l].catching /\ me[l].pending = {} /\ me[l].batch = {}
          /\ me[l].queue = {}
      BY <3>1 DEF HoldInv, PlaceInv
    <3>3. me[l].cursor \in Nat /\ me[l].cursor # Absent
      BY Numbers, SignalStreamAssumption
    <3> QED
      BY <3>1, <3>2, <3>3 DEF PlaceIs
  <2> QED
    BY <1>3, <2>1, SaveAnchorIs, PlaceOthers
<1>4. ASSUME NEW l \in Listener, Polled(l) \/ Unmoved(l)
      PROVE  PlaceInv'
  <2>1. me[l].pc = "poll" /\ log' = log /\ saved' = saved
    BY <1>4, PollIs
  <2>2. CASE me' = me
    BY <2>1, <2>2 DEF PlaceInv, PlaceIs, Mark, Shown
  <2>3. ASSUME NEW n \in Nat, me[l].cursor + n <= Len(log), PollGoes(l, n)
        PROVE  PlaceInv'
    <3>1. PlaceIs(l)'
      BY <2>1, <2>3, PlacePoll
    <3> QED
      BY <2>1, <2>3, <3>1, PlaceOthers DEF PollGoes
  <2> QED
    BY <1>4, <2>2, <2>3, PollIs
<1>5. ASSUME NEW l \in Listener, Emit(l)
      PROVE  PlaceInv'
  <2>1. PICK s \in Event : Prints(l, s)
    BY <1>5, EmitIs
  <2>2. /\ Others(l) /\ log' = log /\ saved' = saved
        /\ me[l].pc = "emit" /\ me'[l].pc = "emit" /\ me'[l].cursor = me[l].cursor
        /\ me'[l].pending = me[l].pending /\ me'[l].batch = me[l].batch \ {s}
        /\ \A q \in me'[l].queue : q \in me[l].queue \/ q = s
        /\ s \in me[l].batch /\ \A t \in me[l].batch : s <= t
    BY <2>1 DEF Prints
  <2>3. \A t \in me'[l].batch : s < t /\ t \in me[l].batch
    BY <2>2, Numbers
  <2>4. PlaceIs(l) /\ s <= me[l].cursor
    BY <2>2 DEF PlaceInv, PlaceIs
  <2>5. \A q \in me'[l].queue : q <= me[l].cursor /\ \A t \in me'[l].batch : q < t
    BY <2>2, <2>3, <2>4 DEF PlaceIs
  <2>6. PlaceIs(l)'
    BY <2>2, <2>4, <2>5 DEF PlaceIs, Mark, Shown
  <2> QED
    BY <2>2, <2>6, PlaceOthers
<1>6. ASSUME NEW l \in Listener, Save(l)
      PROVE  PlaceInv'
  <2>1. PlaceIs(l)'
    <3>1. /\ me[l].pc = "emit" /\ me'[l].pc = "poll" /\ me'[l].cursor = me[l].cursor
          /\ me'[l].catching = me[l].catching /\ me'[l].pending = me[l].pending
          /\ me'[l].batch = {} /\ me'[l].queue = me[l].queue
          /\ saved' = me[l].cursor /\ log' = log
      BY <1>6, SaveIs
    <3>2. PlaceIs(l) /\ ~me[l].catching /\ me[l].pending = {}
      BY <3>1 DEF HoldInv, PlaceInv
    <3>3. me[l].cursor \in Nat /\ me[l].cursor # Absent
      BY Numbers, SignalStreamAssumption
    <3> QED
      BY <3>1, <3>2, <3>3 DEF PlaceIs
  <2> QED
    BY <1>6, <2>1, SaveIs, PlaceOthers
<1>7. ASSUME NEW l \in Listener, TurnStarts(l)
      PROVE  PlaceInv'
  <2>1. Others(l) /\ log' = log /\ saved' = saved
    BY <1>7, TurnStartsIs
  <2>2. /\ me'[l].pc = me[l].pc /\ me'[l].cursor = me[l].cursor
        /\ me'[l].catching = me[l].catching /\ me'[l].pending = me[l].pending
        /\ me'[l].batch = me[l].batch /\ me'[l].queue \subseteq me[l].queue
    BY <1>7, TurnStartsIs
  <2>3. PlaceIs(l)'
    BY <2>1, <2>2 DEF PlaceInv, PlaceIs, Mark, Shown
  <2> QED
    BY <2>1, <2>3, PlaceOthers
<1>8. ASSUME NEW l \in Listener, TurnEnds(l)
      PROVE  PlaceInv'
  <2>1. PlaceIs(l)'
    BY <1>8, TurnEndsIs DEF PlaceInv, PlaceIs, Mark, Shown
  <2> QED
    BY <1>8, <2>1, TurnEndsIs, PlaceOthers
<1>9. ASSUME NEW l \in Listener, Stop(l)
      PROVE  PlaceInv'
  <2>1. PlaceIs(l)'
    BY <1>9, StopIs, Numbers DEF PlaceIs
  <2> QED
    BY <1>9, <2>1, StopIs, PlaceOthers
<1>10. ASSUME NEW l \in Listener, Release(l)
       PROVE  PlaceInv'
  <2>1. PlaceIs(l)'
    BY <1>10, ReleaseIs DEF PlaceInv, PlaceIs, Mark, Shown
  <2> QED
    BY <1>10, <2>1, ReleaseIs, PlaceOthers
<1>11. ASSUME NEW l \in Listener, Kill(l)
       PROVE  PlaceInv'
  <2>1. PlaceIs(l)'
    <3>1. /\ me'[l].pc = "down" /\ me'[l].cursor = 0 /\ me'[l].pending = {}
          /\ me'[l].batch = {} /\ me'[l].queue = {} /\ log' = log
      BY <1>11, KillIs
    <3>2. 0 <= Len(log)
      BY Numbers
    <3> QED
      BY <3>1, <3>2 DEF PlaceIs
  <2> QED
    BY <1>11, <2>1, KillIs, PlaceOthers
<1>12. CASE Happens
  <2>1. ASSUME NEW l \in Listener
        PROVE  PlaceIs(l)'
    <3>1. /\ Len(log') = Len(log) + 1 /\ \A s \in Logged : log'[s] = log[s]
          /\ me' = me /\ saved' = saved
      BY <1>12, HappensIs
    <3>2. PlaceIs(l)
      BY DEF PlaceInv
    <3>3. \A s \in me[l].pending \cup me[l].batch : s \in Logged
      BY <3>2, Numbers DEF PlaceIs, Logged, Event
    <3>4. \A s \in me[l].pending \cup me[l].batch : Shown(s)'
      BY <3>1, <3>2, <3>3 DEF PlaceIs, Shown
    <3>5. me[l].cursor <= Len(log')
      BY <3>1, <3>2, Numbers DEF PlaceIs
    <3> QED
      BY <3>1, <3>2, <3>4, <3>5 DEF PlaceIs, Mark
  <2> QED
    BY <2>1 DEF PlaceInv
<1>13. CASE UNCHANGED vars
  BY <1>13 DEF PlaceInv, PlaceIs, Mark, Shown, vars
<1> QED
  BY StepIs, <1>1, <1>2, <1>3, <1>4, <1>5, <1>6, <1>7, <1>8, <1>9, <1>10, <1>11, <1>12, <1>13

\* Nothing that was printed gets into another's hands.
LEMMA RepeatKeeps ==
  ASSUME TypeOK, RepeatInv, NEW l \in Listener, Others(l),
         emits' = emits, cuts' = cuts, (cuts <= ends)', Mark <= Mark', Mark' \in Nat,
         \A s \in Event : s > Mark' /\ InHand(l, s) => InHand(l, s)'
  PROVE  RepeatInv'
<1>1. RepeatsOnlyAfterCut'
  BY DEF RepeatInv, RepeatsOnlyAfterCut
<1>2. ASSUME NEW s \in Event, s > Mark', \A u \in Listener : ~InHand(u, s)'
      PROVE  emits[s] <= cuts
  <2>1. \A u \in Listener : ~InHand(u, s)
    <3> SUFFICES ASSUME NEW u \in Listener, u # l
                 PROVE  ~InHand(u, s)
      BY <1>2
    <3>1. me'[u] = me[u] /\ ~InHand(u, s)'
      BY <1>2 DEF Others
    <3> QED
      BY <3>1 DEF InHand
  <2>2. s > Mark
    BY <1>2, Numbers DEF Event
  <2> QED
    BY <2>1, <2>2 DEF RepeatInv
<1>3. \A s \in Event : s > Mark' /\ (\A u \in Listener : ~InHand(u, s)') => emits'[s] <= cuts'
  BY <1>2
<1> QED
  BY <1>1, <1>3 DEF RepeatInv

\* RepeatInv, action by action: a line that was printed is in hand until its cursor is on disk or
\* its batch is cut.
LEMMA RepeatStep ==
  ASSUME TypeOK, HoldInv, PlaceInv, RepeatInv, [Next]_vars, (cuts <= ends)'
  PROVE  RepeatInv'
<1>1. ASSUME NEW l \in Listener, Start(l)
      PROVE  RepeatInv'
  <2>1. /\ Others(l) /\ me[l].pc = "down" /\ emits' = emits /\ cuts' = cuts /\ Mark' = Mark
    BY <1>1, StartIs DEF Mark
  <2> QED
    BY <2>1, RepeatKeeps, Numbers DEF InHand
<1>2. ASSUME NEW l \in Listener, Anchor(l)
      PROVE  RepeatInv'
  <2>1. /\ Others(l) /\ me[l].pc = "anchor" /\ emits' = emits /\ cuts' = cuts /\ Mark' = Mark
    BY <1>2, AnchorIs DEF Mark
  <2> QED
    BY <2>1, RepeatKeeps, Numbers DEF InHand
<1>3. ASSUME NEW l \in Listener, SaveAnchor(l)
      PROVE  RepeatInv'
  <2>1. /\ Others(l) /\ me[l].pc = "anchored" /\ emits' = emits /\ cuts' = cuts
        /\ saved' = me[l].cursor
    BY <1>3, SaveAnchorIs
  <2>2. Mark' \in Nat /\ Mark <= Mark'
    BY <2>1, Numbers, SignalStreamAssumption DEF PlaceInv, PlaceIs, Mark
  <2> QED
    BY <2>1, <2>2, RepeatKeeps DEF InHand
<1>4. ASSUME NEW l \in Listener, Polled(l) \/ Unmoved(l)
      PROVE  RepeatInv'
  <2>1. me[l].pc = "poll" /\ emits' = emits /\ cuts' = cuts /\ Mark' = Mark
    BY <1>4, PollIs DEF Mark
  <2>2. Others(l)
    <3>1. me' = me => Others(l)
      BY DEF Others, TypeOK
    <3> QED
      BY <1>4, <3>1, PollIs DEF PollGoes
  <2> QED
    BY <2>1, <2>2, RepeatKeeps, Numbers DEF InHand
<1>5. ASSUME NEW l \in Listener, Emit(l)
      PROVE  RepeatInv'
  <2>1. PICK s \in Event : Prints(l, s)
    BY <1>5, EmitIs
  <2>2. /\ Others(l) /\ saved' = saved /\ cuts' = cuts
        /\ me[l].pc = "emit" /\ me'[l].pc = "emit" /\ me'[l].cursor = me[l].cursor
        /\ me'[l].batch = me[l].batch \ {s} /\ s \in me[l].batch
        /\ emits'[s] = emits[s] + 1 /\ \A t \in Event : t # s => emits'[t] = emits[t]
    BY <2>1 DEF Prints
  <2>3. Mark < s /\ s <= me[l].cursor /\ Mark' = Mark /\ cuts \in Nat
    BY <2>2, Numbers DEF PlaceInv, PlaceIs, Mark
  <2>4. \A u \in Listener : ~InHand(u, s)
    BY <2>2, OnlyOne DEF InHand
  <2>5. emits[s] <= cuts /\ emits[s] \in Nat
    BY <2>3, <2>4, Numbers DEF RepeatInv, TypeOK, Event
  <2>6. emits'[s] <= 1 + cuts /\ InHand(l, s)'
    BY <2>2, <2>3, <2>5 DEF InHand
  <2>7. RepeatsOnlyAfterCut'
    BY <2>2, <2>6 DEF RepeatInv, RepeatsOnlyAfterCut
  <2>8. ASSUME NEW t \in Event, t > Mark, \A u \in Listener : ~InHand(u, t)'
        PROVE  emits'[t] <= cuts
    <3>1. t # s
      BY <2>6, <2>8
    <3>2. ASSUME NEW u \in Listener
          PROVE  ~InHand(u, t)
      <4>1. ~InHand(u, t)'
        BY <2>8
      <4>2. CASE u = l
        BY <2>2, <4>1, <4>2 DEF InHand
      <4>3. CASE u # l
        BY <2>2, <4>1, <4>3 DEF InHand, Others
      <4> QED
        BY <4>2, <4>3
    <3> QED
      BY <2>2, <2>8, <3>1, <3>2 DEF RepeatInv
  <2> QED
    BY <2>2, <2>3, <2>7, <2>8 DEF RepeatInv
<1>6. ASSUME NEW l \in Listener, Save(l)
      PROVE  RepeatInv'
  <2>1. /\ Others(l) /\ me[l].pc = "emit" /\ emits' = emits /\ cuts' = cuts
        /\ saved' = me[l].cursor
    BY <1>6, SaveIs
  <2>2. Mark' \in Nat /\ Mark <= Mark' /\ Mark' = me[l].cursor
    BY <2>1, Numbers, SignalStreamAssumption DEF PlaceInv, PlaceIs, Mark
  <2>3. \A s \in Event : s > Mark' => ~InHand(l, s)
    BY <2>2 DEF InHand, Event
  <2> QED
    BY <2>1, <2>2, <2>3, RepeatKeeps
<1>7. ASSUME NEW l \in Listener, TurnStarts(l)
      PROVE  RepeatInv'
  <2>1. /\ Others(l) /\ emits' = emits /\ cuts' = cuts /\ Mark' = Mark
    BY <1>7, TurnStartsIs DEF Mark
  <2>2. me'[l].pc = me[l].pc /\ me'[l].cursor = me[l].cursor /\ me'[l].batch = me[l].batch
    BY <1>7, TurnStartsIs
  <2> QED
    BY <2>1, <2>2, RepeatKeeps, Numbers DEF InHand
<1>8. ASSUME NEW l \in Listener, TurnEnds(l)
      PROVE  RepeatInv'
  <2>1. /\ Others(l) /\ emits' = emits /\ cuts' = cuts /\ Mark' = Mark
        /\ me'[l].pc = me[l].pc /\ me'[l].cursor = me[l].cursor /\ me'[l].batch = me[l].batch
    BY <1>8, TurnEndsIs DEF Mark
  <2> QED
    BY <2>1, RepeatKeeps, Numbers DEF InHand
<1>9. ASSUME NEW l \in Listener, Stop(l) \/ Kill(l)
      PROVE  RepeatInv'
  <2>1. /\ Others(l) /\ emits' = emits /\ Cut(l) /\ Mark' = Mark
    BY <1>9, StopIs, KillIs DEF Mark
  <2>2. CASE me[l].pc # "emit"
    <3>1. cuts' = cuts
      BY <2>1, <2>2 DEF Cut
    <3> QED
      BY <2>1, <2>2, <3>1, RepeatKeeps, Numbers DEF InHand
  <2>3. CASE me[l].pc = "emit"
    <3>1. cuts' = cuts + 1 /\ cuts \in Nat
      BY <2>1, <2>3, Numbers DEF Cut
    <3>2. \A s \in Event : emits'[s] <= cuts' /\ emits'[s] \in Nat
      BY <2>1, <3>1 DEF RepeatInv, RepeatsOnlyAfterCut, TypeOK
    <3>3. RepeatsOnlyAfterCut'
      BY <3>1, <3>2 DEF RepeatsOnlyAfterCut
    <3> QED
      BY <3>2, <3>3 DEF RepeatInv
  <2> QED
    BY <2>2, <2>3
<1>10. ASSUME NEW l \in Listener, Release(l)
       PROVE  RepeatInv'
  <2>1. /\ Others(l) /\ me[l].pc = "closing" /\ emits' = emits /\ cuts' = cuts /\ Mark' = Mark
    BY <1>10, ReleaseIs DEF Mark
  <2> QED
    BY <2>1, RepeatKeeps, Numbers DEF InHand
<1>11. CASE Happens \/ UNCHANGED vars
  <2>1. emits' = emits /\ cuts' = cuts /\ saved' = saved /\ me' = me
    BY <1>11, HappensIs DEF vars
  <2> QED
    BY <2>1 DEF RepeatInv, RepeatsOnlyAfterCut, InHand, Mark
<1> QED
  BY StepIs, <1>1, <1>2, <1>3, <1>4, <1>5, <1>6, <1>7, <1>8, <1>9, <1>10, <1>11

\* The queues of the listeners are all the turns depend on.
LEMMA TurnKeeps ==
  ASSUME TypeOK, TurnInv, emits' = emits, turns' = turns, log' = log,
         killed' = killed \/ killed' = TRUE,
         \A l \in Listener : me'[l].queue = me[l].queue \/ (killed' /\ me'[l].queue = {})
  PROVE  TurnInv'
<1>1. \A l \in Listener : \A s \in me'[l].queue : s \in me[l].queue
  OBVIOUS
<1>2. ~killed' => /\ ~killed
                  /\ \A s \in Logged : Queued(s)' = Queued(s)
  BY DEF Queued
<1>3. \A l \in Listener : \A s \in me'[l].queue : s <= Len(log) /\ log[s] = "chat"
  BY <1>1 DEF TurnInv
<1> QED
  BY <1>2, <1>3 DEF TurnInv, Logged

\* TurnInv, action by action: a line is queued as it is printed, and was not queued before, because
\* the queue is behind the batch.
LEMMA TurnStep ==
  ASSUME TypeOK, HoldInv, PlaceInv, TurnInv, [Next]_vars
  PROVE  TurnInv'
<1>0. \A s \in Event : emits[s] \in Nat /\ turns[s] \in Nat /\ s \in Nat /\ s >= 1
  BY DEF TypeOK, Event
<1>1. ASSUME NEW l \in Listener, Others(l), emits' = emits, turns' = turns, log' = log,
             killed' = killed \/ killed' = TRUE,
             me'[l].queue = me[l].queue \/ (killed' /\ me'[l].queue = {})
      PROVE  TurnInv'
  BY <1>1, TurnKeeps DEF Others
<1>2. ASSUME NEW l \in Listener,
             Start(l) \/ Anchor(l) \/ SaveAnchor(l) \/ Save(l) \/ TurnEnds(l) \/ Stop(l)
      PROVE  TurnInv'
  BY <1>1, <1>2, StartIs, AnchorIs, SaveAnchorIs, SaveIs, TurnEndsIs, StopIs
<1>3. ASSUME NEW l \in Listener, Release(l) \/ Kill(l)
      PROVE  TurnInv'
  BY <1>1, <1>3, ReleaseIs, KillIs
<1>4. ASSUME NEW l \in Listener, Polled(l) \/ Unmoved(l)
      PROVE  TurnInv'
  <2>1. emits' = emits /\ turns' = turns /\ log' = log /\ killed' = killed
    BY <1>4, PollIs
  <2>2. CASE me' = me
    BY <2>1, <2>2, TurnKeeps
  <2>3. CASE me' # me
    BY <1>1, <1>4, <2>1, <2>3, PollIs DEF PollGoes
  <2> QED
    BY <2>2, <2>3
<1>5. ASSUME NEW l \in Listener, Emit(l)
      PROVE  TurnInv'
  <2>1. PICK s \in Event : Prints(l, s)
    BY <1>5, EmitIs
  <2>2. /\ Others(l) /\ log' = log /\ turns' = turns /\ killed' = killed
        /\ me[l].pc = "emit" /\ s \in me[l].batch
        /\ me'[l].queue = IF log[s] = "chat" THEN me[l].queue \cup {s} ELSE me[l].queue
        /\ emits'[s] = emits[s] + 1 /\ \A t \in Event : t # s => emits'[t] = emits[t]
    BY <2>1 DEF Prints
  <2>3. \A u \in Listener : u # l => me[u].queue = {} /\ me'[u].queue = {}
    BY <2>2, OnlyOne DEF HoldInv, Others
  <2>4. s <= Len(log)
    BY <2>2, Numbers DEF PlaceInv, PlaceIs
  <2>5. s \notin me[l].queue
    <3>1. s \in me[l].queue => s < s
      BY <2>2 DEF PlaceInv, PlaceIs
    <3> QED
      BY <3>1, <1>0
  <2>6. ~Queued(s) /\ (Queued(s)' <=> log[s] = "chat")
    BY <2>2, <2>3, <2>5 DEF Queued
  <2>7. ASSUME NEW t \in Event, t # s
        PROVE  Queued(t)' = Queued(t)
    BY <2>2, <2>3, <2>7 DEF Queued
  <2>8. \A t \in Event : t > Len(log) => emits'[t] = 0 /\ turns[t] = 0
    BY <2>2, <2>4, <1>0, Numbers DEF TurnInv
  <2>9. \A u \in Listener : \A t \in me'[u].queue : t <= Len(log) /\ log[t] = "chat"
    BY <2>2, <2>3, <2>4 DEF TurnInv
  <2>10. ASSUME ~killed, NEW t \in Logged
         PROVE  turns[t] + (IF Queued(t)' THEN 1 ELSE 0)
                  = IF log[t] = "chat" THEN emits'[t] ELSE 0
    <3>1. t \in Event
      BY SignalStreamAssumption DEF Logged, Event, TypeOK
    <3>2. turns[t] + (IF Queued(t) THEN 1 ELSE 0) = IF log[t] = "chat" THEN emits[t] ELSE 0
      BY <2>10 DEF TurnInv
    <3>3. CASE t = s
      BY <1>0, <2>2, <2>6, <3>1, <3>2, <3>3
    <3>4. CASE t # s
      BY <2>2, <2>7, <3>1, <3>2, <3>4
    <3> QED
      BY <3>3, <3>4
  <2> QED
    BY <2>2, <2>8, <2>9, <2>10 DEF TurnInv, Logged
<1>6. ASSUME NEW l \in Listener, TurnStarts(l)
      PROVE  TurnInv'
  <2>1. PICK s \in me[l].queue :
          /\ s \in Event /\ Others(l) /\ me'[l].queue = me[l].queue \ {s}
          /\ turns'[s] = turns[s] + 1 /\ \A t \in Event : t # s => turns'[t] = turns[t]
          /\ UNCHANGED <<log, emits, killed>>
    BY <1>6, TurnStartsIs
  <2>2. me[l].pc # "down"
    BY <2>1 DEF HoldInv
  <2>3. \A u \in Listener : u # l => me[u].queue = {} /\ me'[u].queue = {}
    BY <2>1, <2>2, OnlyOne DEF HoldInv, Others
  <2>4. s <= Len(log) /\ log[s] = "chat"
    BY <2>1 DEF TurnInv
  <2>5. Queued(s) /\ ~Queued(s)'
    BY <2>1, <2>3 DEF Queued
  <2>6. ASSUME NEW t \in Event, t # s
        PROVE  Queued(t)' = Queued(t)
    BY <2>1, <2>3, <2>6 DEF Queued
  <2>7. \A t \in Event : t > Len(log) => emits[t] = 0 /\ turns'[t] = 0
    BY <2>1, <2>4, <1>0, Numbers DEF TurnInv
  <2>8. \A u \in Listener : \A t \in me'[u].queue : t <= Len(log) /\ log[t] = "chat"
    BY <2>1, <2>3 DEF TurnInv
  <2>9. ASSUME ~killed, NEW t \in Logged
        PROVE  turns'[t] + (IF Queued(t)' THEN 1 ELSE 0)
                 = IF log[t] = "chat" THEN emits[t] ELSE 0
    <3>1. t \in Event
      BY SignalStreamAssumption DEF Logged, Event, TypeOK
    <3>2. turns[t] + (IF Queued(t) THEN 1 ELSE 0) = IF log[t] = "chat" THEN emits[t] ELSE 0
      BY <2>9 DEF TurnInv
    <3>3. CASE t = s
      BY <1>0, <2>1, <2>5, <3>1, <3>2, <3>3
    <3>4. CASE t # s
      BY <2>1, <2>6, <3>1, <3>2, <3>4
    <3> QED
      BY <3>3, <3>4
  <2> QED
    BY <2>1, <2>7, <2>8, <2>9 DEF TurnInv, Logged
<1>7. CASE Happens
  <2>1. /\ Len(log') = Len(log) + 1 /\ \A s \in Logged : log'[s] = log[s]
        /\ UNCHANGED <<me, emits, turns, killed>>
    BY <1>7, HappensIs
  <2>2. Len(log) \in Nat
    BY DEF TypeOK
  <2>3. \A s \in Event : s > Len(log') => emits'[s] = 0 /\ turns'[s] = 0
    BY <1>0, <2>1, <2>2 DEF TurnInv
  <2>4. ASSUME NEW l \in Listener, NEW s \in me[l].queue
        PROVE  s <= Len(log') /\ log'[s] = "chat"
    <3>1. s <= Len(log) /\ log[s] = "chat" /\ s \in Event
      BY <2>4, Numbers DEF TurnInv
    <3> QED
      BY <1>0, <2>1, <2>2, <3>1 DEF Logged
  <2>5. \A s \in Event : Queued(s)' = Queued(s) /\ (Queued(s) => s <= Len(log))
    BY <2>1 DEF Queued, TurnInv
  <2>6. ASSUME ~killed, NEW s \in 1..Len(log')
        PROVE  turns[s] + (IF Queued(s) THEN 1 ELSE 0) = IF log'[s] = "chat" THEN emits[s] ELSE 0
    <3>1. s \in Event
      BY <1>7, <2>1, <2>2, SignalStreamAssumption DEF Happens, Event
    <3>2. CASE s \in Logged
      BY <2>1, <2>6, <3>2 DEF TurnInv
    <3>3. CASE s > Len(log)
      <4>1. emits[s] = 0 /\ turns[s] = 0
        BY <3>1, <3>3 DEF TurnInv
      <4>2. ~Queued(s)
        BY <2>2, <2>5, <3>1, <3>3, <1>0
      <4> QED
        BY <4>1, <4>2
    <3> QED
      BY <2>1, <2>2, <3>2, <3>3 DEF Logged
  <2>7. ~killed' => \A s \in 1..Len(log') :
          turns'[s] + (IF Queued(s)' THEN 1 ELSE 0) = IF log'[s] = "chat" THEN emits'[s] ELSE 0
    <3> SUFFICES ASSUME ~killed', NEW s \in 1..Len(log')
                 PROVE  turns'[s] + (IF Queued(s)' THEN 1 ELSE 0)
                          = IF log'[s] = "chat" THEN emits'[s] ELSE 0
      OBVIOUS
    <3>1. s \in Event
      BY <1>7, <2>1, <2>2, SignalStreamAssumption DEF Happens, Event
    <3> QED
      BY <2>1, <2>5, <2>6, <3>1
  <2> QED
    BY <2>1, <2>3, <2>4, <2>7 DEF TurnInv, Logged
<1>8. CASE UNCHANGED vars
  BY <1>8, TurnKeeps DEF vars
<1> QED
  BY StepIs, <1>2, <1>3, <1>4, <1>5, <1>6, <1>7, <1>8

\* What an event was given up for does not go away: later places, more printed.
LEMMA NewerMore ==
  ASSUME NEW lg, NEW lh, NEW s \in Nat, NEW c \in Nat, NEW d \in Nat,
         c <= d, d <= MaxEvents, \A t \in 1..c : lh[t] = lg[t]
  PROVE  /\ Newer(lg, s, c) \subseteq Newer(lh, s, d)
         /\ Newer(lg, s, c) \subseteq Event /\ Newer(lh, s, d) \subseteq Event
         /\ Cardinality(Newer(lg, s, c)) >= MaxBuffered =>
              Cardinality(Newer(lh, s, d)) >= MaxBuffered
<1>1. /\ Newer(lg, s, c) \subseteq Newer(lh, s, d)
      /\ Newer(lg, s, c) \subseteq Event /\ Newer(lh, s, d) \subseteq Event
  BY SignalStreamAssumption DEF Newer, Event
<1>2. /\ Cardinality(Newer(lg, s, c)) <= Cardinality(Newer(lh, s, d))
      /\ Cardinality(Newer(lg, s, c)) \in Nat /\ Cardinality(Newer(lh, s, d)) \in Nat
  BY <1>1, More, EventsFinite
<1> QED
  BY <1>1, <1>2, SignalStreamAssumption

\* And what was given up stays so.
LEMMA GivenMore ==
  ASSUME NEW lg, NEW lh, NEW em, NEW en, NEW s \in Event, NEW c \in Nat, NEW d \in Nat,
         NEW b, NEW e, s <= c, c <= d, d <= MaxEvents, \A t \in 1..c : lh[t] = lg[t],
         \A t \in 1..c : t \in b \/ em[t] > 0 => t \in e \/ en[t] > 0,
         GivenUp(lg, em, s, c, b)
  PROVE  GivenUp(lh, en, s, d, e)
<1>1. s \in Nat /\ s \in 1..c
  BY DEF Event
<1>2. /\ Newer(lg, s, c) \subseteq Newer(lh, s, d)
      /\ Newer(lg, s, c) \subseteq Event /\ Newer(lh, s, d) \subseteq Event
      /\ Cardinality(Newer(lg, s, c)) >= MaxBuffered =>
           Cardinality(Newer(lh, s, d)) >= MaxBuffered
  BY <1>1, NewerMore
<1>3. ASSUME NEW t \in Taken(lg, em, s, c, b)
      PROVE  t \in Taken(lh, en, s, d, e)
  <2>1. t \in Newer(lg, s, c) /\ lg[t] = lg[s] /\ (t \in b \/ em[t] > 0)
    BY <1>3 DEF Taken
  <2>2. t \in 1..c
    BY <1>1, <2>1 DEF Newer
  <2> QED
    BY <1>1, <1>2, <2>1, <2>2 DEF Taken
<1>4. Taken(lh, en, s, d, e) \subseteq Event /\ Taken(lg, em, s, c, b) \subseteq Event
  BY <1>2 DEF Taken
<1>5. Cardinality(Taken(lg, em, s, c, b)) <= Cardinality(Taken(lh, en, s, d, e))
  BY <1>3, <1>4, More
<1>6. /\ Cardinality(Taken(lg, em, s, c, b)) \in Nat
      /\ Cardinality(Taken(lh, en, s, d, e)) \in Nat /\ Replay \in Nat
  BY <1>4, EventsFinite, SignalStreamAssumption
<1> QED
  BY <1>2, <1>5, <1>6 DEF GivenUp

\* Nothing is taken back of what was given up up to the cursor on disk.
LEMMA OutrunKeeps ==
  ASSUME TypeOK, TypeOK', Outrun, saved' = saved, past' = past,
         \A t \in Logged : log'[t] = log[t], Len(log) <= Len(log'),
         \A t \in Event : emits[t] > 0 => emits'[t] > 0
  PROVE  Outrun'
<1> SUFFICES ASSUME saved # Absent, NEW s \in (past + 1)..saved, Spared(s)'
             PROVE  GivenUp(log', emits', s, saved, {})
  BY DEF Outrun
<1>1. /\ saved \in Nat /\ past \in Nat /\ Len(log) \in Nat /\ MaxEvents \in Nat
      /\ saved <= Len(log) /\ Len(log) <= MaxEvents
  BY SignalStreamAssumption DEF TypeOK
<1>2. s \in Event /\ s \in Logged /\ s <= saved
  BY <1>1 DEF Event, Logged
<1>3. emits[s] \in Nat /\ emits'[s] \in Nat /\ \A t \in 1..saved : t \in Logged /\ t \in Event
  <2>1. \A t \in 1..saved : t \in Logged /\ t \in Event
    BY <1>1 DEF Logged, Event
  <2> QED
    BY <1>2, <2>1 DEF TypeOK
<1>4. Spared(s)
  BY <1>2, <1>3 DEF Spared, Shown
<1>5. GivenUp(log, emits, s, saved, {})
  BY <1>4 DEF Outrun
<1>6. \A t \in 1..saved : t \in {} \/ emits[t] > 0 => t \in {} \/ emits'[t] > 0
  BY <1>3
<1>7. \A t \in 1..saved : log'[t] = log[t]
  BY <1>3
<1>8. s \in Event /\ saved \in Nat /\ s <= saved /\ saved <= saved /\ saved <= MaxEvents
  BY <1>1, <1>2
<1> QED
  BY <1>5, <1>6, <1>7, <1>8, GivenMore

\* A listener in the middle of something is the only one.
LEMMA SparesOthers ==
  ASSUME TypeOK, HoldInv, NEW l \in Listener, Others(l), me[l].pc # "down" \/ lock = NoListener
  PROVE  \A u \in Listener : u # l => Spares(u)'
  BY OnlyOne DEF HoldInv, Others, Spares

\* Where neither catching nor emitting there is nothing to say.
LEMMA LossRests ==
  ASSUME TypeOK, TypeOK', HoldInv, LossInv, NEW l \in Listener, Others(l),
         me[l].pc # "down" \/ lock = NoListener,
         ~me'[l].catching \/ me'[l].cursor = saved', me'[l].pc # "emit", Outrun'
  PROVE  LossInv'
<1>1. Spares(l)'
  <2>1. CASE ~me'[l].catching
    BY <2>1 DEF Spares
  <2>2. CASE me'[l].cursor = saved'
    <3>1. me'[l].cursor \in Nat
      BY DEF TypeOK, InMemory
    <3>2. (saved' + 1)..me'[l].cursor = {}
      BY <2>2, <3>1
    <3> QED
      BY <3>2 DEF Spares
  <2> QED
    BY <2>1, <2>2
<1> QED
  BY <1>1, SparesOthers DEF LossInv

\* The buffer of a catch-up lets go only of what MaxBuffered newer events push out.
LEMMA BufferedSpares ==
  ASSUME TypeOK, PlaceInv, LossInv, NEW l \in Listener, NEW n \in Nat, me[l].pc = "poll",
         me[l].catching, me[l].cursor + n <= Len(log),
         NEW s \in (saved + 1)..(me[l].cursor + n), Shown(s), s \notin Buffered(l, n)
  PROVE  Cardinality(Newer(log, s, me[l].cursor + n)) >= MaxBuffered
<1> DEFINE c == me[l].cursor
           d == c + n
           B == Buffered(l, n)
           R == Rendered(c, n)
<1>1. /\ saved \in Nat /\ c \in Nat /\ Len(log) \in Nat /\ MaxEvents \in Nat
      /\ Len(log) <= MaxEvents /\ MaxBuffered \in Nat
  BY Numbers, SignalStreamAssumption DEF PlaceInv, PlaceIs, TypeOK
<1>2. s \in Nat /\ s \in Event
  BY <1>1 DEF Event
<1>3. /\ B \subseteq me[l].pending \cup R /\ B \subseteq Event
      /\ \A t \in (me[l].pending \cup R) \ B : Cardinality(Above(B, t)) >= MaxBuffered
  BY BufferedIs
<1>4. /\ \A t \in R : t <= d /\ Shown(t)
      /\ \A t \in (c + 1)..d : Shown(t) => t \in R
  BY <1>1, RenderedIs
<1>5. \A t \in me[l].pending : t <= c /\ Shown(t)
  BY DEF PlaceInv, PlaceIs
<1> HIDE DEF B, R
<1>6. CASE s \in me[l].pending \cup R
  <2>1. Cardinality(Above(B, s)) >= MaxBuffered
    BY <1>3, <1>6 DEF B
  <2>2. \A t \in Above(B, s) : t \in Event /\ t > s /\ t <= d /\ Shown(t)
    BY <1>1, <1>3, <1>4, <1>5 DEF Above, Event
  <2>3. Above(B, s) \subseteq Newer(log, s, d)
    BY <1>1, <1>2, <2>2 DEF Newer, Shown, Event
  <2>4. Newer(log, s, d) \subseteq Event
    <3>1. d \in Nat /\ d <= d /\ d <= MaxEvents /\ \A t \in 1..d : log[t] = log[t]
      BY <1>1
    <3> HIDE DEF d
    <3> QED
      BY <1>2, <3>1, NewerMore
  <2>5. /\ Cardinality(Above(B, s)) <= Cardinality(Newer(log, s, d))
        /\ Cardinality(Above(B, s)) \in Nat /\ Cardinality(Newer(log, s, d)) \in Nat
    BY <2>3, <2>4, More, EventsFinite
  <2> QED
    BY <1>1, <2>1, <2>5
<1>7. CASE s \notin me[l].pending \cup R
  <2>1. s <= c
    BY <1>1, <1>2, <1>4, <1>7
  <2>2. Cardinality(Newer(log, s, c)) >= MaxBuffered
    BY <1>1, <1>7, <2>1 DEF LossInv, Spares
  <2>3. /\ c \in Nat /\ c <= d /\ d <= MaxEvents /\ d \in Nat
        /\ \A t \in 1..c : log[t] = log[t]
    BY <1>1
  <2> HIDE DEF c, d
  <2>4. Cardinality(Newer(log, s, d)) >= MaxBuffered
    BY <1>2, <2>2, <2>3, NewerMore
  <2> QED
    BY <2>4 DEF c, d
<1> QED
  BY <1>6, <1>7

\* A poll: what is not printed of a gap was pushed out of the buffer or given up by the trim.
LEMMA LossPoll ==
  ASSUME TypeOK, HoldInv, PlaceInv, LossInv, NEW l \in Listener, NEW n \in Nat,
         me[l].pc = "poll", me[l].cursor + n <= Len(log), PollGoes(l, n),
         UNCHANGED <<log, saved, emits>>
  PROVE  Spares(l)'
<1> DEFINE c == me[l].cursor
           d == c + n
           B == Buffered(l, n)
           K == Kept(B)
           R == Rendered(c, n)
<1>1. /\ saved \in Nat /\ c \in Nat /\ Len(log) \in Nat /\ MaxEvents \in Nat
      /\ Len(log) <= MaxEvents /\ MaxBuffered \in Nat /\ Replay \in Nat /\ saved <= c
  BY Numbers, SignalStreamAssumption DEF PlaceInv, PlaceIs, TypeOK
<1>2. me'[l].cursor = d
  BY DEF PollGoes
<1>3. CASE /\ ~me[l].catching /\ ~me'[l].catching /\ me'[l].batch = R
  <2>1. saved = c
    BY <1>3 DEF PlaceInv, PlaceIs
  <2>2. \A s \in (c + 1)..d : Shown(s) => s \in R
    BY <1>1, RenderedIs
  <2> HIDE DEF R
  <2> QED
    BY <1>2, <1>3, <2>1, <2>2 DEF Spares, Spared, Shown
<1>4. CASE /\ me[l].catching /\ me'[l].pc = "poll" /\ me'[l].pending = B
  <2>1. ASSUME NEW s \in (saved + 1)..d, Shown(s), s \notin B
        PROVE  Cardinality(Newer(log, s, d)) >= MaxBuffered
    BY <1>4, <2>1, BufferedSpares
  <2> HIDE DEF B
  <2> QED
    BY <1>2, <1>4, <2>1 DEF Spares, Shown
<1>5. CASE /\ me[l].catching /\ ~me'[l].catching /\ me'[l].batch = K
  <2>1. B \subseteq Event /\ \A s \in B : s <= d
    <3>1. B \subseteq me[l].pending \cup R /\ B \subseteq Event
      BY BufferedIs
    <3>2. \A t \in R : t <= d
      BY <1>1, RenderedIs
    <3>3. \A t \in me[l].pending : t <= c /\ t \in Nat
      BY Numbers DEF PlaceInv, PlaceIs
    <3> HIDE DEF B, R
    <3>4. \A s \in B : s \in me[l].pending \/ s \in R
      BY <3>1
    <3>5. \A s \in me[l].pending : s <= d
      BY <1>1, <3>3
    <3> HIDE DEF d
    <3> QED
      BY <3>1, <3>2, <3>4, <3>5
  <2>2. \A s \in B : s <= Len(log)
    BY <1>1, <2>1 DEF Event
  <2>3. /\ K \subseteq B
        /\ \A s \in B \ K : Shown(s) =>
             Cardinality({t \in K : t > s /\ log[t] = log[s]}) >= Replay
    <3> HIDE DEF B
    <3> QED
      BY <2>1, <2>2, KeptIs
  <2>4. ASSUME NEW s \in (saved + 1)..d, Spared(s), s \notin K
        PROVE  GivenUp(log, emits, s, d, K)
    <3>1. s \in Event /\ s \in Nat /\ Shown(s)
      BY <1>1, <2>4 DEF Event, Spared
    <3>2. CASE s \notin B
      <4>1. Cardinality(Newer(log, s, d)) >= MaxBuffered
        BY <1>5, <3>1, <3>2, BufferedSpares
      <4> QED
        BY <4>1 DEF GivenUp
    <3>3. CASE s \in B
      <4> DEFINE U == {t \in K : t > s /\ log[t] = log[s]}
                 T == Taken(log, emits, s, d, K)
      <4>1. Cardinality(U) >= Replay
        BY <2>3, <2>4, <3>1, <3>3
      <4>2. \A t \in U : t \in Event /\ t > s /\ t <= d /\ t \in K /\ log[t] = log[s]
        BY <2>1, <2>3
      <4>3. U \subseteq T
        <5> SUFFICES ASSUME NEW t \in U
                     PROVE  t \in T
          OBVIOUS
        <5>1. t \in Event /\ t > s /\ t <= d /\ t \in K /\ log[t] = log[s]
          BY <4>2
        <5>2. t \in (s + 1)..d
          BY <1>1, <3>1, <5>1 DEF Event
        <5>3. t \in Event /\ log[t] # "hidden"
          BY <3>1, <5>1 DEF Shown
        <5> HIDE DEF U, K
        <5> QED
          BY <5>1, <5>2, <5>3 DEF Taken, Newer
      <4>4. T \subseteq Event
        <5>1. Newer(log, s, d) \subseteq Event
          <6>1. d \in Nat /\ d <= d /\ d <= MaxEvents /\ \A t \in 1..d : log[t] = log[t]
            BY <1>1
          <6> HIDE DEF d
          <6> QED
            BY <3>1, <6>1, NewerMore
        <5> QED
          BY <5>1 DEF Taken
      <4> HIDE DEF U, T, K
      <4>5. /\ Cardinality(U) <= Cardinality(T)
            /\ Cardinality(U) \in Nat /\ Cardinality(T) \in Nat
        BY <4>3, <4>4, More, EventsFinite
      <4>6. Cardinality(T) >= Replay
        BY <1>1, <4>1, <4>5
      <4> QED
        BY <4>6 DEF GivenUp, T
    <3> QED
      BY <3>2, <3>3
  <2> HIDE DEF K
  <2> QED
    BY <1>2, <1>5, <2>4 DEF Spares, Spared, Shown
<1> QED
  BY <1>3, <1>4, <1>5 DEF PollGoes

\* LossInv, action by action.
LEMMA LossStep ==
  ASSUME TypeOK, TypeOK', HoldInv, PlaceInv, LossInv, [Next]_vars
  PROVE  LossInv'
<1>0. /\ Len(log) \in Nat /\ MaxEvents \in Nat /\ Len(log) <= MaxEvents /\ Outrun
      /\ \A l \in Listener : Spares(l) /\ me[l].cursor \in Nat /\ me[l].cursor <= Len(log)
  <2>1. Len(log) \in Nat /\ MaxEvents \in Nat /\ Len(log) <= MaxEvents
    BY SignalStreamAssumption DEF TypeOK
  <2>2. \A l \in Listener : me[l].cursor \in Nat /\ me[l].cursor <= Len(log)
    BY Numbers DEF PlaceInv, PlaceIs
  <2> QED
    BY <2>1, <2>2 DEF LossInv
<1>1. ASSUME NEW l \in Listener, Start(l)
      PROVE  LossInv'
  <2>1. /\ Others(l) /\ me[l].pc = "down" /\ lock = NoListener /\ me'[l].pc # "emit"
        /\ UNCHANGED <<log, saved, emits, past>>
        /\ me'[l].cursor = saved \/ me'[l].catching = me[l].catching
    BY <1>1, StartIs
  <2>2. ~me'[l].catching \/ me'[l].cursor = saved'
    BY <2>1 DEF HoldInv
  <2>3. Outrun'
    BY <1>0, <2>1, OutrunKeeps
  <2> QED
    BY <2>1, <2>2, <2>3, LossRests
<1>2. ASSUME NEW l \in Listener, Anchor(l)
      PROVE  LossInv'
  <2>1. /\ Others(l) /\ me[l].pc = "anchor" /\ me'[l].pc = "anchored"
        /\ UNCHANGED <<log, saved, emits, past>> /\ me'[l].catching = me[l].catching
    BY <1>2, AnchorIs
  <2>2. ~me'[l].catching /\ me[l].pc # "down" /\ me'[l].pc # "emit"
    BY <2>1 DEF HoldInv
  <2>3. Outrun'
    BY <1>0, <2>1, OutrunKeeps
  <2> QED
    BY <2>1, <2>2, <2>3, LossRests
<1>3. ASSUME NEW l \in Listener, SaveAnchor(l)
      PROVE  LossInv'
  <2>1. /\ Others(l) /\ me[l].pc = "anchored" /\ me'[l].pc = "poll"
        /\ saved' = me[l].cursor /\ past' = me[l].cursor /\ me'[l].catching = me[l].catching
    BY <1>3, SaveAnchorIs
  <2>2. ~me'[l].catching /\ me[l].pc # "down" /\ me'[l].pc # "emit"
    BY <2>1 DEF HoldInv
  <2>3. Outrun'
    <3>1. (past' + 1)..saved' = {}
      BY <1>0, <2>1
    <3> QED
      BY <3>1 DEF Outrun
  <2> QED
    BY <2>1, <2>2, <2>3, LossRests
<1>4. ASSUME NEW l \in Listener, Polled(l) \/ Unmoved(l)
      PROVE  LossInv'
  <2>1. me[l].pc = "poll" /\ UNCHANGED <<log, saved, emits, past>>
    BY <1>4, PollIs
  <2>2. Outrun'
    BY <1>0, <2>1, OutrunKeeps
  <2>3. CASE me' = me
    BY <2>1, <2>2, <2>3 DEF LossInv, Spares, Spared, Shown
  <2>4. ASSUME NEW n \in Nat, me[l].cursor + n <= Len(log), PollGoes(l, n)
        PROVE  LossInv'
    <3>1. Spares(l)'
      BY <2>1, <2>4, LossPoll
    <3>2. Others(l)
      BY <2>4 DEF PollGoes
    <3> QED
      BY <2>1, <2>2, <3>1, <3>2, SparesOthers DEF LossInv
  <2> QED
    BY <1>4, <2>3, <2>4, PollIs
<1>5. ASSUME NEW l \in Listener, Emit(l)
      PROVE  LossInv'
  <2>1. PICK s \in Event : Prints(l, s)
    BY <1>5, EmitIs
  <2>2. /\ Others(l) /\ UNCHANGED <<log, saved, past>>
        /\ me[l].pc = "emit" /\ me'[l].pc = "emit" /\ me'[l].cursor = me[l].cursor
        /\ me'[l].batch = me[l].batch \ {s} /\ me'[l].catching = me[l].catching
        /\ emits'[s] = emits[s] + 1 /\ \A t \in Event : t # s => emits'[t] = emits[t]
    BY <2>1 DEF Prints
  <2>3. \A t \in Event : emits[t] \in Nat
    BY DEF TypeOK
  <2>4. emits'[s] > 0 /\ \A t \in Event : emits[t] > 0 => emits'[t] > 0
    BY <2>2, <2>3
  <2>5. Outrun'
    BY <1>0, <2>2, <2>4, OutrunKeeps
  <2> DEFINE c == me[l].cursor
  <2>6. /\ saved \in Nat /\ c \in Nat /\ c <= c /\ c <= MaxEvents
        /\ \A t \in 1..c : t \in Event /\ log[t] = log[t]
    BY <1>0, <2>2, Numbers DEF PlaceInv, PlaceIs, Event
  <2>7. ASSUME NEW t \in (saved + 1)..c, Shown(t), emits'[t] = 0, t \notin me[l].batch \ {s}
        PROVE  GivenUp(log, emits', t, c, me[l].batch \ {s})
    <3>1. t \in Event /\ t <= c
      BY <2>6, <2>7 DEF Event
    <3>2. t # s
      BY <2>4, <2>7
    <3>3. Spared(t) /\ t \notin me[l].batch
      BY <2>2, <2>7, <3>1, <3>2 DEF Spared
    <3>4. GivenUp(log, emits, t, c, me[l].batch)
      BY <1>0, <2>2, <3>3 DEF Spares
    <3>5. \A u \in 1..c : u \in me[l].batch \/ emits[u] > 0 =>
                            u \in me[l].batch \ {s} \/ emits'[u] > 0
      BY <2>4, <2>6
    <3> DEFINE b == me[l].batch
               e == b \ {s}
    <3> HIDE DEF b, c
    <3>6. GivenUp(log, emits, t, c, b) /\ \A u \in 1..c : log[u] = log[u]
      BY <3>4 DEF b, c
    <3>7. \A u \in 1..c : u \in b \/ emits[u] > 0 => u \in e \/ emits'[u] > 0
      BY <3>5 DEF b
    <3> HIDE DEF e
    <3>8. GivenUp(log, emits', t, c, e)
      BY <2>6, <3>1, <3>6, <3>7, GivenMore
    <3> QED
      BY <3>8 DEF b, e
  <2>8. Spares(l)'
    <3>1. ~me'[l].catching
      BY <2>2 DEF HoldInv
    <3> QED
      BY <2>2, <2>7, <3>1 DEF Spares, Spared, Shown
  <2> QED
    BY <2>2, <2>5, <2>8, SparesOthers DEF LossInv
<1>6. ASSUME NEW l \in Listener, Save(l)
      PROVE  LossInv'
  <2>1. /\ Others(l) /\ me[l].pc = "emit" /\ me[l].batch = {} /\ me'[l].pc = "poll"
        /\ saved' = me[l].cursor /\ me'[l].catching = me[l].catching
        /\ UNCHANGED <<log, emits, past>>
    BY <1>6, SaveIs
  <2>2. ~me'[l].catching /\ me[l].pc # "down" /\ me'[l].pc # "emit"
    BY <2>1 DEF HoldInv
  <2> DEFINE c == me[l].cursor
  <2>3. /\ saved \in Nat /\ saved # Absent /\ saved <= c /\ past \in Nat /\ c \in Nat /\ c <= c
        /\ c <= MaxEvents /\ \A t \in 1..c : log[t] = log[t]
    <3>1. saved # Absent /\ saved <= c
      BY <2>1 DEF PlaceInv, PlaceIs
    <3>2. past \in Nat
      BY <1>0 DEF TypeOK
    <3>3. saved \in Nat
      BY <3>1, Numbers
    <3> QED
      BY <1>0, <3>1, <3>2, <3>3
  <2>4. ASSUME NEW s \in (past + 1)..c, Spared(s)
        PROVE  GivenUp(log, emits, s, c, {})
    <3>1. CASE s <= saved
      <4>1. GivenUp(log, emits, s, saved, {})
        BY <1>0, <2>3, <2>4, <3>1 DEF Outrun
      <4>2. s \in Event /\ \A t \in 1..saved : log[t] = log[t]
        BY <1>0, <2>3, <2>4, <3>1 DEF Event
      <4>3. \A t \in 1..saved : t \in {} \/ emits[t] > 0 => t \in {} \/ emits[t] > 0
        OBVIOUS
      <4> HIDE DEF c
      <4> QED
        BY <2>3, <3>1, <4>1, <4>2, <4>3, GivenMore
    <3>2. CASE s > saved
      <4>1. s \in (saved + 1)..c /\ s \notin me[l].batch
        BY <2>1, <2>3, <2>4, <3>2
      <4>2. Spares(l)
        BY <1>0
      <4>3. GivenUp(log, emits, s, c, me[l].batch)
        BY <2>1, <2>4, <4>1, <4>2 DEF Spares
      <4> QED
        BY <2>1, <4>3
    <3> QED
      BY <2>3, <2>4, <3>1, <3>2
  <2>5. Outrun'
    BY <2>1, <2>4 DEF Outrun, Spared, Shown
  <2> QED
    BY <2>1, <2>2, <2>5, LossRests
<1>7. ASSUME NEW l \in Listener, TurnStarts(l) \/ TurnEnds(l)
      PROVE  LossInv'
  <2>1. /\ me'[l].pc = me[l].pc /\ me'[l].cursor = me[l].cursor
        /\ me'[l].catching = me[l].catching /\ me'[l].pending = me[l].pending
        /\ me'[l].batch = me[l].batch
    BY <1>7, TurnStartsIs, TurnEndsIs
  <2>2. Others(l) /\ UNCHANGED <<log, saved, emits, past>>
    BY <1>7, TurnStartsIs, TurnEndsIs
  <2>3. ASSUME NEW u \in Listener
        PROVE  Spares(u)'
    <3>1. /\ me'[u].pc = me[u].pc /\ me'[u].cursor = me[u].cursor
          /\ me'[u].catching = me[u].catching /\ me'[u].pending = me[u].pending
          /\ me'[u].batch = me[u].batch
      BY <2>1, <2>2 DEF Others
    <3> QED
      BY <1>0, <2>2, <3>1 DEF Spares, Spared, Shown
  <2>4. Outrun'
    BY <1>0, <2>2, OutrunKeeps
  <2> QED
    BY <2>3, <2>4 DEF LossInv
<1>8. ASSUME NEW l \in Listener, Stop(l) \/ Release(l) \/ Kill(l)
      PROVE  LossInv'
  <2>1. /\ Others(l) /\ me[l].pc # "down" /\ me'[l].pc \in {"closing", "down"}
        /\ UNCHANGED <<log, saved, emits, past>>
        /\ ~me'[l].catching \/ (me[l].pc = "closing" /\ me'[l].catching = me[l].catching)
    BY <1>8, StopIs, ReleaseIs, KillIs
  <2>2. ~me'[l].catching /\ me'[l].pc # "emit"
    BY <2>1 DEF HoldInv
  <2>3. Outrun'
    BY <1>0, <2>1, OutrunKeeps
  <2> QED
    BY <2>1, <2>2, <2>3, LossRests
<1>9. CASE Happens
  <2>1. /\ Len(log') = Len(log) + 1 /\ \A t \in Logged : log'[t] = log[t]
        /\ UNCHANGED <<saved, me, emits, past>>
    BY <1>9, HappensIs
  <2>2. Outrun'
    BY <1>0, <2>1, OutrunKeeps
  <2>3. ASSUME NEW l \in Listener
        PROVE  Spares(l)'
    <3> DEFINE c == me[l].cursor
               b == me[l].batch
    <3>1. c \in Nat /\ c <= c /\ c <= MaxEvents /\ \A t \in 1..c : log'[t] = log[t]
      BY <1>0, <2>1 DEF Logged
    <3>2. ASSUME NEW s \in (saved + 1)..c, me[l].pc \in {"poll", "emit"}
          PROVE  s \in Event /\ s \in Nat /\ s <= c /\ (Shown(s)' => Shown(s))
      <4>1. saved \in Nat
        BY <3>2, Numbers DEF PlaceInv, PlaceIs
      <4>2. s \in 1..c
        BY <3>1, <3>2, <4>1
      <4> QED
        BY <1>0, <3>1, <4>2 DEF Event, Shown
    <3>3. ASSUME me[l].catching, NEW s \in (saved + 1)..c, Shown(s)', s \notin me[l].pending
          PROVE  Cardinality(Newer(log', s, c)) >= MaxBuffered
      <4>1. me[l].pc = "poll"
        BY <3>3 DEF HoldInv
      <4>2. Cardinality(Newer(log, s, c)) >= MaxBuffered /\ s \in Nat
        BY <1>0, <3>2, <3>3, <4>1 DEF Spares
      <4> HIDE DEF c
      <4> QED
        BY <3>1, <4>2, NewerMore
    <3>4. ASSUME me[l].pc = "emit", NEW s \in (saved + 1)..c, Spared(s)', s \notin b
          PROVE  GivenUp(log', emits, s, c, b)
      <4>1. s \in Event /\ s <= c /\ Spared(s)
        BY <2>1, <3>2, <3>4 DEF Spared
      <4>2. GivenUp(log, emits, s, c, b)
        BY <1>0, <3>4, <4>1 DEF Spares
      <4>3. \A t \in 1..c : t \in b \/ emits[t] > 0 => t \in b \/ emits[t] > 0
        OBVIOUS
      <4> HIDE DEF c, b
      <4> QED
        BY <3>1, <4>1, <4>2, <4>3, GivenMore
    <3> QED
      BY <2>1, <3>3, <3>4 DEF Spares
  <2> QED
    BY <2>2, <2>3 DEF LossInv
<1>10. CASE UNCHANGED vars
  BY <1>10 DEF LossInv, Spares, Outrun, Spared, Shown, vars
<1> QED
  BY StepIs, <1>1, <1>2, <1>3, <1>4, <1>5, <1>6, <1>7, <1>8, <1>9, <1>10

\* StreamInv holds at first.
LEMMA InitStream ==
  ASSUME Init
  PROVE  StreamInv
<1>1. TypeOK
  <2>1. 0 \in 0..MaxEvents /\ 0 \in 0..MaxRequests /\ 0 \in 0..MaxEnds /\ 0 \in 0..MaxUnread
    BY SignalStreamAssumption
  <2>2. Fresh \in InMemory /\ Fresh.pending = {}
    BY <2>1 DEF Fresh, InMemory, Polling
  <2>3. Cardinality({}) = 0 /\ 0 <= MaxBuffered
    BY FS_EmptySet, SignalStreamAssumption
  <2>4. me \in [Listener -> InMemory] /\ \A l \in Listener : me[l].pending = {}
    BY <2>2 DEF Init
  <2>5. \A l \in Listener : Cardinality(me[l].pending) <= MaxBuffered
    BY <2>3, <2>4
  <2>6. log \in Seq(Class) /\ Len(log) = 0
    BY DEF Init
  <2>7. saved = Absent /\ past \in 0..Len(log) /\ lock = NoListener
    BY <2>6 DEF Init
  <2>8. emits \in [Event -> Nat] /\ turns \in [Event -> Nat]
    BY DEF Init
  <2>9. cuts \in 0..MaxEnds /\ killed \in BOOLEAN /\ ends \in 0..MaxEnds /\ unread \in 0..MaxUnread
    BY <2>1 DEF Init
  <2>10. Len(log) <= MaxEvents
    BY <2>6, SignalStreamAssumption
  <2> QED
    BY <2>4, <2>5, <2>6, <2>7, <2>8, <2>9, <2>10 DEF TypeOK
<1>2. /\ \A l \in Listener : me[l] = Fresh
      /\ saved = Absent /\ Len(log) = 0 /\ cuts = 0 /\ ends = 0
      /\ \A s \in Event : emits[s] = 0 /\ turns[s] = 0
  BY DEF Init
<1>3. HoldInv /\ PlaceInv /\ LossInv
  BY <1>2 DEF HoldInv, PlaceInv, PlaceIs, LossInv, Spares, Outrun, Fresh
<1>4. RepeatInv
  BY <1>2 DEF RepeatInv, RepeatsOnlyAfterCut
<1>5. TurnInv
  BY <1>2 DEF TurnInv, Logged, Fresh
<1> QED
  BY <1>1, <1>3, <1>4, <1>5 DEF StreamInv

\* StreamInv is an invariant of the listener.
THEOREM StreamInductive == Spec => []StreamInv
<1>1. Init => StreamInv
  BY InitStream
<1>2. StreamInv /\ [Next]_vars => StreamInv'
  <2> SUFFICES ASSUME StreamInv, [Next]_vars
               PROVE  StreamInv'
    OBVIOUS
  <2>1. TypeOK /\ HoldInv /\ PlaceInv /\ RepeatInv /\ TurnInv /\ LossInv /\ cuts <= ends
    BY DEF StreamInv, RepeatInv
  <2>2. TypeOK' /\ (cuts <= ends)'
    BY <2>1, StreamTypeStep
  <2>3. HoldInv' /\ PlaceInv' /\ RepeatInv' /\ TurnInv' /\ LossInv'
    BY <2>1, <2>2, HoldStep, PlaceStep, RepeatStep, TurnStep, LossStep
  <2> QED
    BY <2>2, <2>3 DEF StreamInv
<1> QED
  BY <1>1, <1>2, PTL DEF Spec

\* The cursor on disk is never past an event that may be shown and was not printed, but for those
\* the trim gave up, whatever died in between (listen.py:26-35, 352-362).
THEOREM CursorWaitsForPrinting == Spec => []CursorNeverOutruns
<1>1. StreamInv => CursorNeverOutruns
  <2> SUFFICES ASSUME StreamInv
               PROVE  CursorNeverOutruns
    OBVIOUS
  <2>1. TypeOK /\ Outrun
    BY DEF StreamInv, LossInv
  <2>2. ASSUME saved # Absent, NEW s \in (past + 1)..saved, Shown(s), emits[s] = 0
        PROVE  \/ Cardinality(SinceOfClass(s)) >= Replay
               \/ Cardinality(Since(s)) >= MaxBuffered
    <3>1. GivenUp(log, emits, s, saved, {})
      BY <2>1, <2>2 DEF Outrun, Spared
    <3>2. Newer(log, s, saved) = Since(s)
      BY DEF Newer, Since, Shown
    <3>3. Taken(log, emits, s, saved, {}) = SinceOfClass(s)
      BY <3>2 DEF Taken, SinceOfClass
    <3> QED
      BY <3>1, <3>2, <3>3 DEF GivenUp
  <2> QED
    BY <2>1, <2>2 DEF CursorNeverOutruns
<1> QED
  BY <1>1, StreamInductive, PTL

\* An event is printed once more than batches were cut, at most (listen.py:194-196, 333-339).
THEOREM CutsBoundRepeats == Spec => []RepeatsOnlyAfterCut
<1>1. StreamInv => RepeatsOnlyAfterCut
  BY DEF StreamInv, RepeatInv
<1> QED
  BY <1>1, StreamInductive, PTL

\* Turns do not overlap, and an orderly end owes none (wake.py:13, 32-34, cli.py:506-508).
THEOREM TurnsKeepOrder == Spec => []TurnsInOrder
<1>1. StreamInv => TurnsInOrder
  <2> SUFFICES ASSUME StreamInv
               PROVE  TurnsInOrder
    OBVIOUS
  <2>1. TypeOK /\ HoldInv /\ TurnInv
    BY DEF StreamInv
  <2>2. OneTurnAtATime
    <3> DEFINE T == {l \in Listener : me[l].turn # Absent}
    <3>1. \A l \in T : lock = l
      BY <2>1 DEF HoldInv
    <3>2. T = {} \/ T = {lock}
      BY <3>1
    <3>3. Cardinality({}) = 0 /\ Cardinality({lock}) = 1
      BY FS_EmptySet, FS_Singleton
    <3>4. Cardinality(T) <= 1
      <4> HIDE DEF T
      <4> QED
        BY <3>2, <3>3
    <3> QED
      BY <3>4 DEF OneTurnAtATime
  <2>3. EveryLineHadItsTurn
    <3> SUFFICES ASSUME ~killed, \A l \in Listener : me[l].pc = "down", NEW s \in Logged
                 PROVE  turns[s] = IF log[s] = "chat" THEN emits[s] ELSE 0
      BY DEF EveryLineHadItsTurn
    <3>1. ~Queued(s)
      BY <2>1 DEF HoldInv, Queued
    <3>2. turns[s] + (IF Queued(s) THEN 1 ELSE 0) = IF log[s] = "chat" THEN emits[s] ELSE 0
      BY <2>1 DEF TurnInv
    <3>3. turns[s] \in Nat
      <4>1. turns \in [Event -> Nat] /\ Len(log) \in Nat /\ Len(log) <= MaxEvents /\ MaxEvents \in Nat
        BY <2>1, SignalStreamAssumption DEF TypeOK
      <4>2. s \in Event
        BY <4>1 DEF Logged, Event
      <4> QED
        BY <4>1, <4>2
    <3> QED
      BY <3>1, <3>2, <3>3
  <2> QED
    BY <2>2, <2>3 DEF TurnsInOrder
<1> QED
  BY <1>1, StreamInductive, PTL

=============================================================================
