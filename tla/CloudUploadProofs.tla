------------------------- MODULE CloudUploadProofs -------------------------
(***************************************************************************)
(* Theorems about CloudUpload, for every set of states and every bound:    *)
(* the snapshots reach the server under growing numbers, a window that has *)
(* nothing to upload has its state stored, and no kill of this machine is  *)
(* uploaded as synchronised from the broadcaster that is followed.         *)
(***************************************************************************)
EXTENDS CloudUpload, SequenceTheorems, TLAPS

-----------------------------------------------------------------------------
(* The inductive invariants                                                *)

Matches == [v : Values, by : {"user", "ocr", "push", "sync", "undo"}]
Wants == [v : Values \cup {None}, src : Sources]
Syncs == [at : {"idle", "pushed", "applied", "saving", "rolled back", "undone"}, same : BOOLEAN]
Undos == [backup : Values \cup {None}, applied : Values \cup {None}, same : BOOLEAN]
Results ==
    [rev : 1..MaxRevision,
     code : {"ok", "timeout", "canceled", "stale_revision", "duplicate_snapshot", "no_membership"}]

MatchTyped ==
    /\ match \in Matches /\ seen \in Values \cup {None} /\ ocr \in Values \cup {None}
    /\ base \in Values \cup {None}
\* What is to be uploaded, or was, is a state.
QueueTyped ==
    /\ want \in Wants /\ dirty \in BOOLEAN /\ blocked \in BOOLEAN
    /\ dirty \/ fly # None => want.v \in Values
FlightTyped ==
    /\ fly \in Snapshots \cup {None} /\ late \in BOOLEAN
    /\ rev \in 0..MaxRevision /\ ini \in 0..MaxRevision /\ ready \in BOOLEAN
\* What is put back, when the files cannot be written, is there.
SyncTyped ==
    /\ sync \in Syncs /\ undo \in Undos
    /\ sync.at \in {"applied", "saving", "undone"} => undo.backup # None
    /\ sync.at = "undone" => undo.applied # None
ClientTyped ==
    /\ slot \in Snapshots \cup {None} /\ srv \in Snapshots \cup {None}
    /\ wire \in Seq(Snapshots) /\ inbox \in Seq(Results)
Typed == MatchTyped /\ QueueTyped /\ FlightTyped /\ SyncTyped /\ ClientTyped

\* A pushed state with no kill recorded since is that of the other broadcaster.
PushOK ==
    /\ sync.at = "pushed" /\ sync.same => match.v \in Foreign
    /\ NoKillPassedOff

\* The numbers: what is stored is older than what is sent, which is older than
\* what waits, and none is above the saved number, the last one given.
Growing(s) == \A i, j \in 1..Len(s) : j < i => s[j].rev < s[i].rev
Above(s, n) == \A i \in 1..Len(s) : n < s[i].rev
Below(s, n) == \A i \in 1..Len(s) : s[i].rev < n
NumbersOK ==
    /\ rev = ini /\ Growing(wire) /\ Below(wire, ini + 1)
    /\ srv # None => srv.rev <= ini /\ Above(wire, srv.rev)
    /\ slot # None => slot.rev <= ini /\ Below(wire, slot.rev)
    /\ srv # None /\ slot # None => srv.rev < slot.rev

\* The upload in flight has the last number, and whatever has it is that upload.
FlightOK ==
    fly # None =>
      /\ fly.rev = rev
      /\ srv # None /\ srv.rev = rev => srv = fly
      /\ slot # None /\ slot.rev = rev => slot = fly
      /\ \A i \in 1..Len(wire) : wire[i].rev = rev => wire[i] = fly

\* A snapshot that was stored is stored, or a later one is.
AnswersOK ==
    \A i \in 1..Len(inbox) : inbox[i].code = "ok" => srv # None /\ srv.rev >= inbox[i].rev

\* Nothing is on its way when there is nothing to upload.
CleanOK == ready /\ ~dirty => wire = <<>> /\ slot = None
StoredOK == NumbersOK /\ FlightOK /\ AnswersOK /\ CleanOK /\ CleanMeansStored

-----------------------------------------------------------------------------
(* Type correctness                                                        *)

LEMMA Constants ==
    /\ MaxRevision \in Nat /\ None \notin Values /\ None \notin Snapshots
    /\ Foreign \subseteq Values /\ States \subseteq Values
    /\ Remote \in Foreign /\ Remote \in Values
    /\ \A a, b \in BOOLEAN : [merged |-> a, noted |-> b] \in Foreign
    /\ \A f \in Foreign : f.merged \in BOOLEAN /\ f.noted \in BOOLEAN
  <1>1. /\ Remote \in Foreign
        /\ \A a, b \in BOOLEAN : [merged |-> a, noted |-> b] \in Foreign
        /\ \A f \in Foreign : f.merged \in BOOLEAN /\ f.noted \in BOOLEAN
    BY DEF Foreign, Remote
  <1>2. MaxRevision \in Nat /\ None \notin Snapshots
    BY BoundsAssumption, NoneAssumption
  <1>3. None \notin Values /\ Foreign \subseteq Values /\ States \subseteq Values
    BY StatesAssumption DEF Values
  <1> QED
    BY <1>1, <1>2, <1>3

LEMMA Fields ==
    /\ \A m \in Matches : m.v \in Values
    /\ \A w \in Wants : w.v \in Values \cup {None} /\ w.src \in Sources
    /\ \A s \in Snapshots : s.rev \in Nat /\ s.rev \in 1..MaxRevision
                            /\ s.v \in Values /\ s.src \in Sources
    /\ \A r \in Results : r.rev \in Nat /\ r.rev \in 1..MaxRevision
  <1>1. MaxRevision \in Nat
    BY Constants
  <1>2. \A m \in Matches : m.v \in Values
    BY DEF Matches
  <1>3. \A w \in Wants : w.v \in Values \cup {None} /\ w.src \in Sources
    BY DEF Wants
  <1>4. \A s \in Snapshots : s.rev \in 1..MaxRevision /\ s.v \in Values /\ s.src \in Sources
    BY DEF Snapshots
  <1>5. \A r \in Results : r.rev \in 1..MaxRevision
    BY DEF Results
  <1>6. \A n \in 1..MaxRevision : n \in Nat
    BY <1>1
  <1> QED
    BY <1>2, <1>3, <1>4, <1>5, <1>6

LEMMA MergeIs ==
    ASSUME match \in Matches, Merge
    PROVE  /\ match' \in Matches /\ match'.v \in Values
           /\ match.v \in Foreign => match'.v \in Foreign
  <1>1. CASE UNCHANGED match
    BY <1>1 DEF Matches
  <1>2. CASE match.v \in Foreign /\ match' = [match EXCEPT !.v = [merged |-> TRUE, noted |-> @.noted]]
    <2>1. PICK f \in Foreign : f = [merged |-> TRUE, noted |-> match.v.noted]
      BY <1>2, Constants
    <2>2. match' = [match EXCEPT !.v = f] /\ f \in Values
      BY <1>2, <2>1, Constants
    <2> QED
      BY <2>2 DEF Matches
  <1> QED
    BY <1>1, <1>2 DEF Merge

LEMMA ChangeIs ==
    ASSUME NEW v \in Values, NEW by \in {"user", "ocr", "push", "sync", "undo"}, Change(v, by)
    PROVE  match' \in Matches /\ match'.v = v
  BY DEF Change, Matches

\* An event that is noted leaves a state of the other broadcaster one.
LEMMA NoteIs ==
    ASSUME match \in Matches, OcrNote
    PROVE  /\ match' \in Matches /\ (match.v \in Foreign => match'.v \in Foreign)
           /\ UNCHANGED <<ocr, seen, queueVars, flightVars, ready, syncVars, clientVars, srv>>
  <1>1. PICK v \in Noted : Change(v, match.by)
    BY DEF OcrNote
  <1>2. v \in Values /\ (match.v \in Foreign => v \in Foreign)
    BY <1>1, Constants DEF Noted
  <1>3. match.by \in {"user", "ocr", "push", "sync", "undo"}
    BY DEF Matches
  <1>4. match' \in Matches /\ match'.v = v
    BY <1>1, <1>2, <1>3, ChangeIs
  <1> QED
    BY <1>2, <1>4 DEF OcrNote

\* What leaves the match and the payloads alone.
LEMMA MatchTypedStep ==
    ASSUME Typed, [Next]_vars
    PROVE  MatchTyped'
  <1>0. /\ match \in Matches /\ match.v \in Values /\ seen \in Values \cup {None}
        /\ ocr \in Values \cup {None} /\ base \in Values \cup {None}
        /\ undo \in Undos /\ undo.backup \in Values \cup {None}
        /\ undo.applied \in Values \cup {None}
    BY Fields DEF Typed, MatchTyped, SyncTyped, Undos
  <1>1. CASE \E v \in States : UserEdit(v) \/ OcrEdit(v)
    <2>1. PICK v \in Values : UserEdit(v) \/ OcrEdit(v)
      BY <1>1, Constants
    <2>2. match' \in Matches
      BY <2>1, ChangeIs DEF UserEdit, OcrEdit
    <2>3. seen' = seen /\ base' = base /\ ocr' \in {ocr, v}
      BY <2>1 DEF UserEdit, OcrEdit, syncVars, flightVars
    <2> QED
      BY <1>0, <2>2, <2>3 DEF MatchTyped
  <1>2. CASE Observe \/ Observed \/ QueueUndone
    <2>1. match' = match /\ seen' = match.v /\ ocr' \in {ocr, None} /\ base' = base
      BY <1>2 DEF Observe, Observed, QueueUndone, matchVars
    <2> QED
      BY <1>0, <2>1 DEF MatchTyped
  <1>3. CASE QueuePushed \/ QueueApplied
    <2>1. ocr' = ocr /\ base' = base /\ (match' = match \/ Merge) /\ seen' \in {seen, match'.v}
      BY <1>3 DEF QueuePushed, QueueApplied
    <2>2. match' \in Matches /\ match'.v \in Values
      BY <1>0, <2>1, MergeIs, Fields
    <2> QED
      BY <1>0, <2>1, <2>2 DEF MatchTyped
  <1>4. CASE Pushed
    <2>1. match' \in Matches
      BY <1>4, Constants, ChangeIs DEF Pushed
    <2> QED
      BY <1>0, <1>4, <2>1 DEF MatchTyped, Pushed
  <1>5. CASE Preview \/ Confirm \/ Leave
    <2>1. match' = match /\ seen' = seen /\ ocr' = ocr /\ base' \in {match.v, None}
      BY <1>5 DEF Preview, Confirm, Leave, matchVars
    <2> QED
      BY <1>0, <2>1 DEF MatchTyped
  <1>6. CASE Apply
    <2>1. match' \in Matches
      BY <1>0, <1>6, Constants, ChangeIs DEF Apply
    <2> QED
      BY <1>0, <1>6, <2>1 DEF MatchTyped, Apply
  <1>7. CASE RollBack
    <2>1. match' \in Matches
      <3>1. PICK b \in Values : b = undo.backup
        BY <1>0, <1>7 DEF RollBack, Typed, SyncTyped
      <3>2. match' = [v |-> b, by |-> "undo"] \/ match' = match
        BY <1>7, <3>1 DEF RollBack
      <3> QED
        BY <1>0, <3>2 DEF Matches
    <2> QED
      BY <1>0, <1>7, <2>1 DEF MatchTyped, RollBack
  <1>8. CASE Undo
    <2>1. match' \in Matches
      BY <1>0, <1>8, ChangeIs DEF Undo
    <2> QED
      BY <1>0, <1>8, <2>1 DEF MatchTyped, Undo
  <1>9. CASE Redo
    <2>1. match' \in Matches
      <3>1. undo.applied \in Values
        BY <1>0, <1>9 DEF Redo, Typed, SyncTyped
      <3> QED
        BY <1>9, <3>1 DEF Redo, Matches
    <2> QED
      BY <1>0, <1>9, <2>1 DEF MatchTyped, Redo
  <1>10. CASE Restart
    <2>1. match' \in Matches
      BY <1>0, <1>10 DEF Restart, Matches
    <2> QED
      BY <1>10, <2>1 DEF MatchTyped, Restart
  <1>11. CASE \E keep \in BOOLEAN : LoseSession(keep)
    <2>1. match' = match /\ seen' = seen /\ ocr' = ocr /\ base' = None
      BY <1>11 DEF LoseSession, matchVars
    <2> QED
      BY <1>0, <2>1 DEF MatchTyped
  <1>12. CASE UploadRefused \/ Upload \/ QueueDeadline \/ SnapshotResult \/ UploadNotSaved
         \/ SendSnapshot \/ Answer(FALSE) \/ Answer(TRUE) \/ LoseSnapshot \/ ReadBack
         \/ UNCHANGED vars
    <2>1. match' = match /\ seen' = seen /\ ocr' = ocr /\ base' = base
      BY <1>12 DEF UploadRefused, Upload, QueueDeadline, SnapshotResult, UploadNotSaved,
         SendSnapshot, Answer, LoseSnapshot, ReadBack, vars, matchVars, syncVars
    <2> QED
      BY <1>0, <2>1 DEF MatchTyped
  <1>13. CASE OcrNote
    <2>1. match' \in Matches /\ seen' = seen /\ ocr' = ocr /\ base' = base
      BY <1>0, <1>13, NoteIs DEF syncVars
    <2> QED
      BY <1>0, <2>1 DEF MatchTyped
  <1> QED
    BY <1>1, <1>2, <1>3, <1>4, <1>5, <1>6, <1>7, <1>8, <1>9, <1>10, <1>11, <1>12, <1>13
       DEF Next, Poll, Sync, Worker

LEMMA PendingIs ==
    ASSUME NEW v \in Values, NEW src \in Sources, Pending(v, src)
    PROVE  QueueTyped' /\ want'.v = v /\ want'.src = src /\ dirty' = TRUE
  BY DEF Pending, QueueTyped, Wants

LEMMA QueueTypedStep ==
    ASSUME Typed, [Next]_vars
    PROVE  QueueTyped'
  <1>0. /\ match \in Matches /\ match.v \in Values
        /\ want \in Wants /\ dirty \in BOOLEAN /\ blocked \in BOOLEAN
        /\ (dirty \/ fly # None => want.v \in Values)
        /\ "manual" \in Sources /\ "ocr" \in Sources /\ "pushed" \in Sources
        /\ "cloud_sync" \in Sources /\ "local_restore" \in Sources
    BY Fields DEF Typed, MatchTyped, QueueTyped, Sources
  <1>1. CASE UNCHANGED queueVars /\ (dirty \/ fly' = fly)
    BY <1>0, <1>1 DEF queueVars, QueueTyped
  <1>2. CASE Observe
    <2>1. CASE seen = None
      BY <1>1, <1>2, <2>1 DEF Observe, flightVars
    <2>2. CASE seen # None
      <3>1. PICK src \in Sources : src = IF ocr = match.v THEN "ocr" ELSE "manual"
        BY <1>0
      <3>2. Pending(match.v, src)
        BY <1>2, <2>2, <3>1 DEF Observe
      <3> QED
        BY <1>0, <3>2, PendingIs
    <2> QED
      BY <2>1, <2>2
  <1>3. CASE QueueUndone \/ Confirm
    BY <1>0, <1>3, PendingIs DEF QueueUndone, Confirm
  <1>4. CASE QueuePushed \/ QueueApplied
    <2>1. CASE UNCHANGED queueVars
      BY <1>1, <1>4, <2>1 DEF QueuePushed, QueueApplied, flightVars
    <2>2. CASE Merge /\ (Pending(match'.v, "pushed") \/ Pending(match'.v, "cloud_sync"))
      <3>1. PICK v \in Values : v = match'.v
        BY <1>0, <2>2, MergeIs
      <3>2. Pending(v, "pushed") \/ Pending(v, "cloud_sync")
        BY <2>2, <3>1
      <3> QED
        BY <1>0, <3>2, PendingIs
    <2> QED
      BY <1>4, <2>1, <2>2 DEF QueuePushed, QueueApplied, flightVars
  <1>5. CASE UploadRefused \/ QueueDeadline
    BY <1>0, <1>5 DEF UploadRefused, Due, QueueDeadline, flightVars, QueueTyped
  <1>6. CASE SnapshotResult
    <2>1. want' = want /\ dirty' \in BOOLEAN /\ blocked' \in BOOLEAN
      BY <1>0, <1>6 DEF SnapshotResult
    <2>2. (fly' = fly \/ fly' = None) /\ (dirty' = dirty \/ fly # None)
      BY <1>6 DEF SnapshotResult
    <2> QED
      BY <1>0, <2>1, <2>2 DEF QueueTyped
  <1>7. CASE \E keep \in BOOLEAN : LoseSession(keep)
    BY <1>0, <1>7 DEF LoseSession, QueueTyped
  <1>8. CASE Restart
    BY <1>0, <1>8 DEF Restart, QueueTyped, Wants
  <1>10. CASE Leave
    <2>1. want' = want /\ dirty' \in {dirty, FALSE} /\ blocked' \in {blocked, FALSE}
          /\ fly' \in {fly, None}
      BY <1>10 DEF Leave
    <2>2. dirty' \/ fly' # None => dirty \/ fly # None
      BY <1>0, <2>1
    <2> QED
      BY <1>0, <2>1, <2>2 DEF QueueTyped
  <1>11. CASE OcrNote
    BY <1>0, <1>1, <1>11, NoteIs DEF flightVars
  <1>9. CASE (\E v \in States : UserEdit(v) \/ OcrEdit(v)) \/ Upload \/ UploadNotSaved
        \/ SendSnapshot \/ Answer(FALSE) \/ Answer(TRUE) \/ LoseSnapshot \/ ReadBack
        \/ Observed \/ Pushed \/ Preview \/ Apply \/ RollBack \/ Undo \/ Redo
        \/ UNCHANGED vars
    <2>1. UNCHANGED queueVars /\ (dirty \/ fly' = fly)
      BY <1>9 DEF UserEdit, OcrEdit, Upload, Due, UploadNotSaved, SendSnapshot, Answer, LoseSnapshot,
         ReadBack, Observed, Pushed, Preview, Apply, RollBack, Undo, Redo, flightVars, vars
    <2> QED
      BY <1>1, <2>1
  <1> QED
    BY <1>2, <1>3, <1>4, <1>5, <1>6, <1>7, <1>8, <1>9, <1>10, <1>11 DEF Next, Poll, Sync, Worker

LEMMA FlightTypedStep ==
    ASSUME Typed, [Next]_vars
    PROVE  FlightTyped'
  <1>0. /\ fly \in Snapshots \cup {None} /\ late \in BOOLEAN
        /\ rev \in 0..MaxRevision /\ ini \in 0..MaxRevision /\ ready \in BOOLEAN
        /\ want \in Wants /\ want.src \in Sources
    BY Fields DEF Typed, FlightTyped, QueueTyped
  <1>1. CASE UNCHANGED <<flightVars, ready>>
    BY <1>0, <1>1 DEF flightVars, FlightTyped
  <1>2. CASE Upload
    <2>1. PICK n \in 1..MaxRevision : n = rev + 1
      BY <1>0, <1>2, Constants DEF Upload
    <2>2. want.v \in Values
      BY <1>2 DEF Upload, Due, Typed, QueueTyped
    <2>3. fly' = [rev |-> n, v |-> want.v, src |-> want.src]
      BY <1>2, <2>1 DEF Upload
    <2>4. fly' \in Snapshots
      BY <1>0, <2>2, <2>3 DEF Snapshots
    <2>5. rev' = n /\ ini' = n /\ late' \in BOOLEAN /\ ready' = ready
      BY <1>2, <2>1 DEF Upload
    <2>6. n \in 0..MaxRevision
      BY Constants
    <2> QED
      BY <1>0, <2>4, <2>5, <2>6 DEF FlightTyped
  <1>3. CASE Restart
    BY <1>0, <1>3 DEF Restart, FlightTyped
  <1>4. CASE QueueDeadline \/ SnapshotResult \/ Confirm \/ Leave
        \/ (\E keep \in BOOLEAN : LoseSession(keep))
    <2>1. fly' \in {fly, None} /\ late' \in {late, FALSE} /\ rev' = rev /\ ini' = ini
          /\ ready' \in {ready, TRUE, FALSE}
      BY <1>4 DEF QueueDeadline, SnapshotResult, Confirm, Leave, LoseSession
    <2> QED
      BY <1>0, <2>1 DEF FlightTyped
  <1>5. CASE (\E v \in States : UserEdit(v) \/ OcrEdit(v)) \/ Observe \/ UploadRefused
        \/ UploadNotSaved \/ SendSnapshot \/ Answer(FALSE) \/ Answer(TRUE) \/ LoseSnapshot
        \/ QueuePushed \/ ReadBack \/ QueueApplied \/ Observed \/ QueueUndone
        \/ Pushed \/ Preview \/ Apply \/ RollBack \/ Undo \/ Redo \/ UNCHANGED vars
    BY <1>1, <1>5 DEF UserEdit, OcrEdit, Observe, UploadRefused, UploadNotSaved, SendSnapshot,
       Answer, LoseSnapshot, QueuePushed, ReadBack, QueueApplied, Observed, QueueUndone,
       Pushed, Preview, Apply, RollBack, Undo, Redo, vars
  <1>6. CASE OcrNote
    <2>1. match \in Matches
      BY DEF Typed, MatchTyped
    <2> QED
      BY <1>1, <1>6, <2>1, NoteIs
  <1> QED
    BY <1>2, <1>3, <1>4, <1>5, <1>6 DEF Next, Poll, Sync, Worker

LEMMA SyncTypedStep ==
    ASSUME Typed, [Next]_vars
    PROVE  SyncTyped'
  <1>0. /\ sync \in Syncs /\ undo \in Undos /\ match.v \in Values /\ None \notin Values
        /\ base \in Values \cup {None}
        /\ (sync.at \in {"applied", "saving", "undone"} => undo.backup # None)
        /\ (sync.at = "undone" => undo.applied # None)
        /\ Free \in Syncs /\ NoUndo \in Undos /\ Free.at = "idle"
    BY Fields, Constants DEF Typed, SyncTyped, MatchTyped, Free, NoUndo, Syncs, Undos
  <1>1. CASE UNCHANGED <<sync, undo>>
    BY <1>0, <1>1 DEF SyncTyped
  <1>2. CASE Mutated
    <2>1. /\ sync' \in Syncs /\ sync'.at = sync.at
          /\ undo' \in Undos /\ undo'.backup = undo.backup /\ undo'.applied = undo.applied
      BY <1>0, <1>2 DEF Mutated, Syncs, Undos
    <2> QED
      BY <1>0, <2>1 DEF SyncTyped
  <1>3. CASE (\E v \in States : OcrEdit(v)) \/ Observe
    BY <1>1, <1>2, <1>3 DEF OcrEdit, Observe
  <1>4. CASE QueuePushed \/ QueueApplied \/ Observed
    <2>1. sync' = Free /\ undo' = undo
      BY <1>4 DEF QueuePushed, QueueApplied, Observed
    <2> QED
      BY <1>0, <2>1 DEF SyncTyped
  <1>5. CASE Restart \/ QueueUndone
    <2>1. sync' = Free /\ undo' = NoUndo
      BY <1>5 DEF Restart, QueueUndone
    <2> QED
      BY <1>0, <2>1 DEF SyncTyped
  <1>6. CASE Confirm \/ Leave \/ \E keep \in BOOLEAN : LoseSession(keep)
    <2>1. sync' = sync /\ undo' = NoUndo /\ sync.at = "idle"
      BY <1>6 DEF Confirm, Leave, LoseSession, Idle
    <2> QED
      BY <1>0, <2>1 DEF SyncTyped
  <1>7. CASE Pushed
    <2>1. /\ sync' = [at |-> "pushed", same |-> TRUE]
          /\ undo' = [undo EXCEPT !.same = FALSE]
      BY <1>7 DEF Pushed
    <2> QED
      BY <1>0, <2>1 DEF SyncTyped, Syncs, Undos
  <1>8. CASE Apply
    <2>1. CASE match.v = base
      <3>1. PICK b \in Values : b = base
        BY <1>0, <2>1
      <3>2. sync' = [sync EXCEPT !.at = "applied"] /\ undo' = [NoUndo EXCEPT !.backup = b]
        BY <1>8, <2>1, <3>1 DEF Apply, At
      <3> QED
        BY <1>0, <3>2 DEF SyncTyped, Syncs, Undos
    <2>2. CASE match.v # base
      BY <1>1, <1>8, <2>2 DEF Apply
    <2> QED
      BY <2>1, <2>2
  <1>9. CASE ReadBack
    <2>1. PICK a \in Values : a = match.v
      BY <1>0
    <2>2. /\ sync' = [sync EXCEPT !.at = "saving"] /\ sync.at = "applied"
          /\ undo' = [undo EXCEPT !.applied = a, !.same = TRUE]
      BY <1>9, <2>1 DEF ReadBack, At
    <2> QED
      BY <1>0, <2>2 DEF SyncTyped, Syncs, Undos
  <1>10. CASE RollBack
    <2>1. (sync' = [sync EXCEPT !.at = "rolled back"] /\ undo' = NoUndo)
          \/ (sync' = Free /\ undo' = undo)
      BY <1>10 DEF RollBack, At
    <2> QED
      BY <1>0, <2>1 DEF SyncTyped, Syncs
  <1>11. CASE Undo
    <2>1. sync' = [sync EXCEPT !.at = "undone"] /\ undo' = undo
          /\ undo.backup # None /\ undo.applied # None
      BY <1>0, <1>11 DEF Undo, At
    <2> QED
      BY <1>0, <2>1 DEF SyncTyped, Syncs
  <1>12. CASE Redo
    <2>1. sync' = Free /\ undo' = [undo EXCEPT !.same = TRUE]
      BY <1>12 DEF Redo
    <2> QED
      BY <1>0, <2>1 DEF SyncTyped, Undos
  <1>13. CASE (\E v \in States : UserEdit(v)) \/ UploadRefused \/ Upload \/ QueueDeadline
         \/ SnapshotResult \/ UploadNotSaved \/ SendSnapshot \/ Answer(FALSE) \/ Answer(TRUE)
         \/ LoseSnapshot \/ Preview \/ UNCHANGED vars
    BY <1>1, <1>13 DEF UserEdit, UploadRefused, Upload, QueueDeadline, SnapshotResult,
       UploadNotSaved, SendSnapshot, Answer, LoseSnapshot, Preview, syncVars, vars
  <1>14. CASE OcrNote
    <2>1. match \in Matches
      BY DEF Typed, MatchTyped
    <2> QED
      BY <1>1, <1>14, <2>1, NoteIs DEF syncVars
  <1> QED
    BY <1>3, <1>4, <1>5, <1>6, <1>7, <1>8, <1>9, <1>10, <1>11, <1>12, <1>13, <1>14
       DEF Next, Poll, Sync, Worker

\* What becomes of the client's queues.
LEMMA AnswerIs ==
    ASSUME Typed, NEW lost \in BOOLEAN, Answer(lost)
    PROVE  /\ wire # <<>> /\ Head(wire) \in Snapshots /\ wire' = Tail(wire)
           /\ Tail(wire) \in Seq(Snapshots) /\ slot' = slot
           /\ srv' = Head(wire) \/ srv' = srv
           /\ \E r \in Results : /\ inbox' = Append(inbox, r) /\ r.rev = Head(wire).rev
                                 /\ r.code = "ok" => srv' = Head(wire)
  <1>1. /\ wire # <<>> /\ Head(wire) \in Snapshots /\ Tail(wire) \in Seq(Snapshots)
        /\ wire' = Tail(wire) /\ slot' = slot
    BY DEF Answer, Typed, ClientTyped
  <1>2. PICK h \in Snapshots : h = Head(wire)
    BY <1>1
  <1>3. PICK c : c = IF lost THEN "timeout" ELSE Verdict(h)
    OBVIOUS
  <1>4. c \in {"ok", "timeout", "stale_revision", "duplicate_snapshot"}
    BY <1>3 DEF Verdict
  <1>5. PICK r : r = [rev |-> h.rev, code |-> c]
    OBVIOUS
  <1>6. r \in Results /\ r.rev = h.rev /\ r.code = c
    BY <1>2, <1>4, <1>5, Fields DEF Results
  <1>7. inbox' = Append(inbox, r)
    BY <1>2, <1>3, <1>5 DEF Answer
  <1>8. srv' = IF Verdict(h) = "ok" THEN h ELSE srv
    BY <1>2 DEF Answer
  <1>9. r.code = "ok" => srv' = h
    BY <1>3, <1>6, <1>8
  <1> QED
    BY <1>1, <1>2, <1>6, <1>7, <1>8, <1>9

LEMMA LoseSnapshotIs ==
    ASSUME Typed, LoseSnapshot
    PROVE  /\ wire # <<>> /\ Head(wire) \in Snapshots /\ wire' = Tail(wire)
           /\ Tail(wire) \in Seq(Snapshots) /\ slot' = slot /\ srv' = srv
           /\ \E r \in Results : inbox' = Append(inbox, r) /\ r.code # "ok"
  <1>1. /\ wire # <<>> /\ Head(wire) \in Snapshots /\ Tail(wire) \in Seq(Snapshots)
        /\ wire' = Tail(wire) /\ slot' = slot /\ srv' = srv
    BY DEF LoseSnapshot, Typed, ClientTyped
  <1>2. PICK h \in Snapshots : h = Head(wire)
    BY <1>1
  <1>3. PICK c \in {"timeout", "no_membership"} : inbox' = Append(inbox, [rev |-> h.rev, code |-> c])
    BY <1>2 DEF LoseSnapshot
  <1>4. PICK r \in Results : r = [rev |-> h.rev, code |-> c]
    BY Fields DEF Results
  <1>5. inbox' = Append(inbox, r) /\ r.code # "ok"
    BY <1>3, <1>4
  <1> QED
    BY <1>1, <1>5

LEMMA UploadIs ==
    ASSUME Typed, Upload
    PROVE  /\ fly' \in Snapshots /\ fly'.rev = rev + 1 /\ fly'.v = want.v /\ fly'.src = want.src
           /\ rev' = rev + 1 /\ ini' = rev + 1 /\ wire' = wire /\ srv' = srv
           /\ slot' = fly' \/ slot' = slot
           /\ inbox' = inbox \/ \E r \in Results : inbox' = Append(inbox, r) /\ r.code # "ok"
  <1>1. PICK f \in Snapshots : f = [rev |-> rev + 1, v |-> want.v, src |-> want.src]
    <2>1. fly' = [rev |-> rev + 1, v |-> want.v, src |-> want.src] /\ fly' # None
          /\ fly' \in Snapshots
      <3>1. rev + 1 \in 1..MaxRevision /\ want.v \in Values /\ want.src \in Sources
        BY Constants, Fields DEF Upload, Due, Typed, FlightTyped, QueueTyped
      <3>2. PICK n \in 1..MaxRevision : n = rev + 1
        BY <3>1
      <3>3. fly' = [rev |-> n, v |-> want.v, src |-> want.src]
        BY <3>2 DEF Upload
      <3>4. fly' \in Snapshots
        BY <3>1, <3>3 DEF Snapshots
      <3> QED
        BY <3>2, <3>3, <3>4, Constants
    <2> QED
      BY <2>1
  <1>2. fly' = f /\ f.rev = rev + 1 /\ f.v = want.v /\ f.src = want.src
    BY <1>1 DEF Upload
  <1>3. /\ rev' = rev + 1 /\ ini' = rev + 1 /\ wire' = wire /\ srv' = srv
        /\ slot' = fly' \/ slot' = slot
        /\ inbox' = inbox \/ inbox' = inbox \o Replaced
    BY DEF Upload
  <1>4. inbox' = inbox \/ \E r \in Results : inbox' = Append(inbox, r) /\ r.code # "ok"
    <2>1. CASE inbox' = inbox \o Replaced /\ slot = None
      BY <2>1 DEF Replaced, Typed, ClientTyped
    <2>2. CASE inbox' = inbox \o Replaced /\ slot # None
      <3>1. slot \in Snapshots
        BY <2>2 DEF Typed, ClientTyped
      <3>2. PICK r \in Results : r = [rev |-> slot.rev, code |-> "canceled"]
        BY <3>1, Fields DEF Results
      <3>3. inbox' = inbox \o <<r>> /\ r.code # "ok"
        BY <2>2, <3>2 DEF Replaced
      <3>4. inbox \o <<r>> = Append(inbox, r)
        BY DEF Typed, ClientTyped
      <3> QED
        BY <3>3, <3>4
    <2> QED
      BY <1>3, <2>1, <2>2
  <1> QED
    BY <1>2, <1>3, <1>4

LEMMA ClientTypedStep ==
    ASSUME Typed, [Next]_vars
    PROVE  ClientTyped'
  <1>0. /\ slot \in Snapshots \cup {None} /\ srv \in Snapshots \cup {None}
        /\ wire \in Seq(Snapshots) /\ inbox \in Seq(Results)
        /\ <<>> \in Seq(Snapshots) /\ <<>> \in Seq(Results)
    BY DEF Typed, ClientTyped
  <1>1. CASE UNCHANGED <<clientVars, srv>>
    BY <1>0, <1>1 DEF clientVars, ClientTyped
  <1>2. CASE Upload
    <2>1. slot' \in Snapshots \cup {None} /\ wire' = wire /\ srv' = srv
      BY <1>0, <1>2, UploadIs
    <2>2. CASE inbox' = inbox
      BY <1>0, <2>1, <2>2 DEF ClientTyped
    <2>3. ASSUME NEW r \in Results, inbox' = Append(inbox, r) PROVE inbox' \in Seq(Results)
      BY <1>0, <2>3
    <2>4. inbox' \in Seq(Results)
      BY <1>0, <1>2, <2>2, <2>3, UploadIs
    <2> QED
      BY <1>0, <2>1, <2>4 DEF ClientTyped
  <1>3. CASE SnapshotResult
    BY <1>0, <1>3 DEF SnapshotResult, ClientTyped
  <1>4. CASE Restart \/ \E keep \in BOOLEAN : LoseSession(keep)
    <2>1. slot' = None /\ wire' = <<>> /\ inbox' = <<>> /\ srv' = srv
      BY <1>4 DEF Restart, LoseSession
    <2> QED
      BY <1>0, <2>1 DEF ClientTyped
  <1>5. CASE SendSnapshot
    BY <1>0, <1>5 DEF SendSnapshot, ClientTyped
  <1>6. CASE Answer(FALSE) \/ Answer(TRUE)
    <2>1. PICK lost \in BOOLEAN : Answer(lost)
      BY <1>6
    <2>2. /\ Head(wire) \in Snapshots /\ wire' = Tail(wire) /\ Tail(wire) \in Seq(Snapshots)
          /\ slot' = slot /\ (srv' = Head(wire) \/ srv' = srv)
          /\ \E r \in Results : inbox' = Append(inbox, r)
      BY <2>1, AnswerIs
    <2>3. PICK r \in Results : inbox' = Append(inbox, r)
      BY <2>2
    <2>4. inbox' \in Seq(Results)
      BY <1>0, <2>3
    <2>5. wire' \in Seq(Snapshots) /\ srv' \in Snapshots \cup {None}
      BY <1>0, <2>2
    <2> QED
      BY <1>0, <2>2, <2>4, <2>5 DEF ClientTyped
  <1>7. CASE LoseSnapshot
    <2>1. /\ wire' = Tail(wire) /\ Tail(wire) \in Seq(Snapshots) /\ slot' = slot /\ srv' = srv
          /\ \E r \in Results : inbox' = Append(inbox, r)
      BY <1>7, LoseSnapshotIs
    <2>2. PICK r \in Results : inbox' = Append(inbox, r)
      BY <2>1
    <2>3. inbox' \in Seq(Results)
      BY <1>0, <2>2
    <2> QED
      BY <1>0, <2>1, <2>3 DEF ClientTyped
  <1>8. CASE (\E v \in States : UserEdit(v) \/ OcrEdit(v)) \/ Observe \/ UploadRefused
        \/ UploadNotSaved \/ QueueDeadline \/ Confirm \/ Leave
        \/ QueuePushed \/ ReadBack \/ QueueApplied \/ Observed \/ QueueUndone
        \/ Pushed \/ Preview \/ Apply \/ RollBack \/ Undo \/ Redo \/ UNCHANGED vars
    BY <1>1, <1>8 DEF UserEdit, OcrEdit, Observe, UploadRefused, UploadNotSaved, QueueDeadline,
       Confirm, Leave, QueuePushed, ReadBack, QueueApplied, Observed, QueueUndone,
       Pushed, Preview, Apply, RollBack, Undo, Redo, vars
  <1>9. CASE OcrNote
    <2>1. match \in Matches
      BY DEF Typed, MatchTyped
    <2> QED
      BY <1>1, <1>9, <2>1, NoteIs
  <1> QED
    BY <1>2, <1>3, <1>4, <1>5, <1>6, <1>7, <1>8, <1>9 DEF Next, Poll, Sync, Worker

LEMMA TypeInit == Init => Typed
  <1> SUFFICES ASSUME Init PROVE Typed
    OBVIOUS
  <1>1. MatchTyped
    <2>1. match \in Matches
      BY Constants DEF Init, Matches
    <2> QED
      BY <2>1 DEF Init, MatchTyped
  <1>2. QueueTyped
    BY DEF Init, QueueTyped, Wants, Sources
  <1>3. FlightTyped
    <2>1. 0 \in 0..MaxRevision
      BY Constants
    <2> QED
      BY <2>1 DEF Init, FlightTyped
  <1>4. SyncTyped
    BY DEF Init, SyncTyped, Syncs, Undos, Free, NoUndo
  <1>5. ClientTyped
    BY DEF Init, ClientTyped
  <1> QED
    BY <1>1, <1>2, <1>3, <1>4, <1>5 DEF Typed

LEMMA TypeStep == Typed /\ [Next]_vars => Typed'
  BY MatchTypedStep, QueueTypedStep, FlightTypedStep, SyncTypedStep, ClientTypedStep DEF Typed

\* TYPE CORRECTNESS: the variables of the upload have their types, and what an
\* undoing or a rolling back puts back is there.
THEOREM TypeCorrect == Spec => []TypeOK
  <1>1. Typed => TypeOK
    <2> SUFFICES ASSUME Typed PROVE TypeOK
      OBVIOUS
    <2>1. {dirty, blocked, late, ready} \subseteq BOOLEAN
      BY DEF Typed, QueueTyped, FlightTyped
    <2>2. {seen, ocr, base} \subseteq Values \cup {None}
      BY DEF Typed, MatchTyped
    <2> QED
      BY <2>1, <2>2 DEF Typed, MatchTyped, QueueTyped, FlightTyped, SyncTyped, ClientTyped, TypeOK,
         Matches, Wants, Syncs, Undos, Results
  <1> QED
    BY <1>1, TypeInit, TypeStep, PTL DEF Spec

-----------------------------------------------------------------------------
(* What is uploaded as pushed                                              *)

LEMMA PushStep ==
    ASSUME Typed, PushOK, [Next]_vars
    PROVE  PushOK'
  <1>0. /\ match \in Matches /\ sync \in Syncs
        /\ (sync.at = "pushed" /\ sync.same => match.v \in Foreign)
        /\ (want.src = "pushed" => want.v \in Foreign)
    BY DEF Typed, MatchTyped, SyncTyped, PushOK, NoKillPassedOff
  <1> USE DEF PushOK, NoKillPassedOff
  <1>1. CASE UNCHANGED want /\ (sync.at # "pushed" \/ UNCHANGED match) /\ sync' = sync
    <2>1. sync.at = "pushed" => match' = match
      BY <1>1
    <2> QED
      BY <1>0, <1>1, <2>1
  <1>2. CASE sync'.at # "pushed" /\ (want' = want \/ want'.src # "pushed")
    BY <1>0, <1>2
  <1>3. CASE Mutated /\ (want' = want \/ want'.src # "pushed")
    <2>1. sync'.same = FALSE
      BY <1>0, <1>3 DEF Mutated, Syncs
    <2> QED
      BY <1>0, <1>3, <2>1
  <1>4. CASE \E v \in States : UserEdit(v) \/ OcrEdit(v)
    BY <1>1, <1>3, <1>4 DEF UserEdit, OcrEdit, Idle, queueVars, syncVars
  <1>5. CASE Observe
    BY <1>1, <1>3, <1>5 DEF Observe, Pending, queueVars
  <1>6. CASE QueuePushed
    <2>1. sync'.at = "idle"
      BY <1>6 DEF QueuePushed, Free
    <2>2. CASE UNCHANGED queueVars
      BY <1>2, <2>1, <2>2 DEF queueVars
    <2>3. CASE sync.same /\ Merge /\ Pending(match'.v, "pushed")
      <3>1. match'.v \in Foreign
        BY <1>0, <1>6, <2>3, MergeIs DEF QueuePushed
      <3>2. want'.v = match'.v
        BY <2>3 DEF Pending
      <3> QED
        BY <2>1, <3>1, <3>2
    <2> QED
      BY <1>6, <2>2, <2>3 DEF QueuePushed
  <1>7. CASE Pushed
    <2>1. match'.v \in Foreign /\ want' = want
      BY <1>7, Constants DEF Pushed, Change, queueVars
    <2> QED
      BY <1>0, <2>1
  <1>8. CASE QueueApplied \/ QueueUndone \/ Restart \/ Observed \/ Redo
    <2>1. sync'.at # "pushed"
      <3>1. sync' = Free
        BY <1>8 DEF QueueApplied, QueueUndone, Restart, Observed, Redo
      <3> QED
        BY <3>1 DEF Free
    <2>2. CASE QueueApplied \/ QueueUndone \/ Restart
      <3>1. want'.src # "pushed"
        BY <2>2 DEF QueueApplied, QueueUndone, Restart, Pending
      <3> QED
        BY <1>2, <2>1, <3>1
    <2>3. CASE Observed \/ Redo
      BY <1>2, <2>1, <2>3 DEF Observed, Redo, queueVars
    <2> QED
      BY <1>8, <2>2, <2>3
  <1>9. CASE Confirm \/ ReadBack \/ Undo \/ RollBack \/ Apply
    <2>1. CASE Confirm
      BY <1>2, <2>1 DEF Confirm, Pending, Idle
    <2>2. CASE ReadBack \/ Undo \/ RollBack
      <3>1. sync' = Free \/ \E step \in {"saving", "undone", "rolled back"} : At(step)
        BY <2>2 DEF ReadBack, Undo, RollBack
      <3>2. sync'.at # "pushed"
        <4>1. CASE sync' = Free
          BY <4>1 DEF Free
        <4>2. CASE \E step \in {"saving", "undone", "rolled back"} : At(step)
          <5>1. PICK step \in {"saving", "undone", "rolled back"} : At(step)
            BY <4>2
          <5>2. sync'.at = step
            BY <1>0, <5>1 DEF At, Syncs
          <5> QED
            BY <5>2
        <4> QED
          BY <3>1, <4>1, <4>2
      <3>3. want' = want
        BY <2>2 DEF ReadBack, Undo, RollBack, queueVars
      <3> QED
        BY <1>2, <3>2, <3>3
    <2>3. CASE Apply
      <3>1. sync'.at \in {"applied", "idle"} /\ want' = want
        BY <1>0, <2>3 DEF Apply, At, Idle, queueVars, Syncs
      <3> QED
        BY <1>2, <3>1
    <2> QED
      BY <1>9, <2>1, <2>2, <2>3
  <1>10. CASE UploadRefused \/ Upload \/ QueueDeadline \/ SnapshotResult \/ UploadNotSaved
         \/ (\E keep \in BOOLEAN : LoseSession(keep)) \/ SendSnapshot \/ Answer(FALSE)
         \/ Answer(TRUE) \/ LoseSnapshot \/ Preview \/ UNCHANGED vars
    BY <1>1, <1>10 DEF UploadRefused, Upload, QueueDeadline, SnapshotResult, UploadNotSaved,
       LoseSession, SendSnapshot, Answer, LoseSnapshot, Preview, vars, matchVars, queueVars,
       syncVars
  <1>11. CASE OcrNote
    <2>1. (match.v \in Foreign => match'.v \in Foreign) /\ want' = want /\ sync' = sync
      BY <1>0, <1>11, NoteIs DEF queueVars, syncVars
    <2> QED
      BY <1>0, <2>1
  <1>12. CASE Leave
    BY <1>2, <1>12 DEF Leave, Idle
  <1> QED
    BY <1>4, <1>5, <1>6, <1>7, <1>8, <1>9, <1>10, <1>11, <1>12 DEF Next, Poll, Sync, Worker

\* AS PUSHED: what is uploaded as synchronised from the broadcaster that is
\* followed are the players and scores received, although the recognition thread
\* records kills between the push and the queueing.
THEOREM NoKillPassedOffHolds == Spec => []NoKillPassedOff
  <1>1. Init => PushOK
    BY DEF Init, PushOK, NoKillPassedOff, Free
  <1>2. Typed /\ PushOK /\ [Next]_vars => PushOK'
    BY PushStep
  <1>3. PushOK => NoKillPassedOff
    BY DEF PushOK
  <1> QED
    BY TypeInit, TypeStep, <1>1, <1>2, <1>3, PTL DEF Spec

-----------------------------------------------------------------------------
(* The numbers of the snapshots                                            *)

LEMMA TailIs ==
    ASSUME NEW S, NEW s \in Seq(S), s # <<>>
    PROVE  /\ 1 \in 1..Len(s) /\ Head(s) = s[1] /\ Len(Tail(s)) = Len(s) - 1
           /\ \A i \in 1..Len(Tail(s)) : i + 1 \in 1..Len(s) /\ Tail(s)[i] = s[i + 1]
  <1>1. Len(s) \in Nat /\ Len(s) # 0 /\ Head(s) = s[1]
    OBVIOUS
  <1>2. Tail(s) \in Seq(S) /\ Len(Tail(s)) = Len(s) - 1
    OBVIOUS
  <1>3. \A i \in 1..Len(Tail(s)) : Tail(s)[i] = s[i + 1]
    BY <1>2
  <1> QED
    BY <1>1, <1>2, <1>3

LEMMA AppendIs ==
    ASSUME NEW S, NEW s \in Seq(S), NEW e
    PROVE  /\ Len(s) \in Nat /\ Len(Append(s, e)) = Len(s) + 1
           /\ \A i \in 1..Len(s) : Append(s, e)[i] = s[i]
           /\ Append(s, e)[Len(s) + 1] = e
           /\ \A i \in 1..Len(Append(s, e)) : i \in 1..Len(s) \/ i = Len(s) + 1
  <1>1. s \in Seq(S \cup {e})
    BY SeqMonotonic
  <1> QED
    BY <1>1

LEMMA SentIs ==
    ASSUME Typed
    PROVE  /\ Len(wire) \in Nat /\ rev \in Nat /\ ini \in Nat
           /\ \A i \in 1..Len(wire) : wire[i] \in Snapshots /\ wire[i].rev \in Nat
           /\ srv # None => srv \in Snapshots /\ srv.rev \in Nat
           /\ slot # None => slot \in Snapshots /\ slot.rev \in Nat
  BY Fields, Constants DEF Typed, ClientTyped, FlightTyped

\* Where the snapshots are after a step that does not touch them.
LEMMA ElsewhereIs ==
    ASSUME Typed, [Next]_vars,
           ~Upload, ~SnapshotResult, ~SendSnapshot, ~Answer(FALSE), ~Answer(TRUE), ~LoseSnapshot,
           ~Restart, ~\E keep \in BOOLEAN : LoseSession(keep)
    PROVE  UNCHANGED <<clientVars, srv, rev, ini>> /\ fly' \in {fly, None}
  <1>1. CASE (\E v \in States : UserEdit(v) \/ OcrEdit(v)) \/ Observe \/ UploadRefused
        \/ UploadNotSaved \/ QueuePushed \/ ReadBack \/ QueueApplied \/ Observed \/ QueueUndone
        \/ Pushed \/ Preview \/ Apply \/ RollBack \/ Undo \/ Redo \/ UNCHANGED vars
    BY <1>1 DEF UserEdit, OcrEdit, Observe, UploadRefused, UploadNotSaved, QueuePushed, ReadBack,
       QueueApplied, Observed, QueueUndone, Pushed, Preview, Apply, RollBack, Undo, Redo,
       flightVars, vars
  <1>2. CASE QueueDeadline \/ Confirm \/ Leave
    BY <1>2 DEF QueueDeadline, Confirm, Leave
  <1>3. CASE OcrNote
    <2>1. match \in Matches
      BY DEF Typed, MatchTyped
    <2> QED
      BY <1>3, <2>1, NoteIs DEF flightVars
  <1> QED
    BY <1>1, <1>2, <1>3 DEF Next, Poll, Sync, Worker

LEMMA NumbersStep ==
    ASSUME Typed, NumbersOK, [Next]_vars
    PROVE  NumbersOK'
  <1>0. /\ Len(wire) \in Nat /\ rev \in Nat /\ ini = rev /\ wire \in Seq(Snapshots)
        /\ \A i \in 1..Len(wire) : wire[i].rev \in Nat
        /\ \A i \in 1..Len(wire) : wire[i].rev < ini + 1
        /\ \A i, j \in 1..Len(wire) : j < i => wire[j].rev < wire[i].rev
        /\ (srv # None => srv.rev \in Nat /\ srv.rev <= ini
                          /\ \A i \in 1..Len(wire) : srv.rev < wire[i].rev)
        /\ (slot # None => slot.rev \in Nat /\ slot.rev <= ini
                           /\ \A i \in 1..Len(wire) : wire[i].rev < slot.rev)
        /\ (srv # None /\ slot # None => srv.rev < slot.rev)
    BY SentIs DEF Typed, ClientTyped, NumbersOK, Growing, Below, Above
  <1> USE DEF NumbersOK, Growing, Below, Above
  <1>1. CASE UNCHANGED <<clientVars, srv, rev, ini>>
    BY <1>1, NumbersOK DEF clientVars
  <1>2. CASE Upload
    <2>1. /\ rev' = rev + 1 /\ ini' = rev + 1 /\ wire' = wire /\ srv' = srv
          /\ slot' = slot \/ slot'.rev = rev + 1
      BY <1>2, UploadIs
    <2> QED
      BY <1>0, <2>1
  <1>3. CASE SnapshotResult
    BY <1>3, NumbersOK DEF SnapshotResult, flightVars
  <1>4. CASE Restart \/ \E keep \in BOOLEAN : LoseSession(keep)
    <2>1. slot' = None /\ wire' = <<>> /\ srv' = srv /\ rev' = ini' /\ ini' = ini
      BY <1>0, <1>4 DEF Restart, LoseSession
    <2> QED
      BY <1>0, <2>1
  <1>5. CASE SendSnapshot
    <2>1. PICK s \in Snapshots : s = slot
      BY <1>5 DEF SendSnapshot, Typed, ClientTyped
    <2>2. /\ wire' = Append(wire, s) /\ slot' = None
          /\ srv' = srv /\ rev' = rev /\ ini' = ini /\ slot # None
      BY <1>5, <2>1 DEF SendSnapshot, flightVars
    <2>3. /\ Len(wire') = Len(wire) + 1 /\ wire'[Len(wire) + 1] = s
          /\ \A i \in 1..Len(wire) : wire'[i] = wire[i]
          /\ \A i \in 1..Len(wire') : i \in 1..Len(wire) \/ i = Len(wire) + 1
      BY <1>0, <2>2, AppendIs
    <2> QED
      BY <1>0, <2>1, <2>2, <2>3
  <1>6. CASE Answer(FALSE) \/ Answer(TRUE) \/ LoseSnapshot
    <2>1. /\ wire # <<>> /\ wire' = Tail(wire) /\ slot' = slot
          /\ srv' = Head(wire) \/ srv' = srv
      BY <1>6, AnswerIs, LoseSnapshotIs
    <2>2. rev' = rev /\ ini' = ini
      BY <1>6 DEF Answer, LoseSnapshot, flightVars
    <2>3. /\ 1 \in 1..Len(wire) /\ Head(wire) = wire[1] /\ Len(wire') = Len(wire) - 1
          /\ \A i \in 1..Len(wire') : i + 1 \in 1..Len(wire) /\ wire'[i] = wire[i + 1]
      BY <1>0, <2>1, TailIs
    <2>4. Growing(wire')
      <3> SUFFICES ASSUME NEW i \in 1..Len(wire'), NEW j \in 1..Len(wire'), j < i
                   PROVE  wire'[j].rev < wire'[i].rev
        OBVIOUS
      <3>1. wire'[i] = wire[i + 1] /\ wire'[j] = wire[j + 1]
        BY <2>3
      <3>2. i + 1 \in 1..Len(wire) /\ j + 1 \in 1..Len(wire)
        BY <2>3
      <3>3. j + 1 < i + 1
        BY <1>0, <2>3
      <3> QED
        BY <1>0, <3>1, <3>2, <3>3
    <2>5. rev' = ini' /\ Below(wire', ini' + 1)
      BY <1>0, <2>2, <2>3
    <2>6. srv' # None => srv'.rev <= ini' /\ Above(wire, srv.rev)'
      BY <1>0, <2>1, <2>2, <2>3
    <2>7. slot' # None => slot'.rev <= ini' /\ Below(wire, slot.rev)'
      BY <1>0, <2>1, <2>2, <2>3
    <2>8. srv' # None /\ slot' # None => srv'.rev < slot'.rev
      BY <1>0, <2>1, <2>2, <2>3
    <2> QED
      BY <2>4, <2>5, <2>6, <2>7, <2>8
  <1> QED
    BY <1>1, <1>2, <1>3, <1>4, <1>5, <1>6, ElsewhereIs

\* Two rows of growing numbers, one after the other.
LEMMA JoinGrows ==
    ASSUME NEW s \in Seq(Snapshots), NEW t \in Seq(Snapshots), NEW n \in Nat,
           Growing(s), Growing(t), Below(s, n), Below(t, n),
           \A i \in 1..Len(s) : \A j \in 1..Len(t) : s[i].rev < t[j].rev
    PROVE  s \o t \in Seq(Snapshots) /\ Growing(s \o t) /\ Below(s \o t, n)
  <1>1. s \o t \in Seq(Snapshots) /\ Len(s) \in Nat /\ Len(t) \in Nat
    OBVIOUS
  <1>2. /\ \A i \in 1..Len(s) : (s \o t)[i] = s[i]
        /\ \A i \in 1..Len(s \o t) : ~(i \in 1..Len(s)) => /\ i - Len(s) \in 1..Len(t)
                                                            /\ (s \o t)[i] = t[i - Len(s)]
    OBVIOUS
  <1>3. Below(s \o t, n)
    BY <1>2 DEF Below
  <1>4. Growing(s \o t)
    <2> SUFFICES ASSUME NEW i \in 1..Len(s \o t), NEW j \in 1..Len(s \o t), j < i
                 PROVE  (s \o t)[j].rev < (s \o t)[i].rev
      BY DEF Growing
    <2>1. CASE i \in 1..Len(s)
      <3>1. j \in 1..Len(s)
        BY <1>1, <2>1
      <3> QED
        BY <1>2, <2>1, <3>1 DEF Growing
    <2>2. CASE ~(i \in 1..Len(s)) /\ j \in 1..Len(s)
      BY <1>2, <2>2
    <2>3. CASE ~(i \in 1..Len(s)) /\ ~(j \in 1..Len(s))
      <3>1. /\ i - Len(s) \in 1..Len(t) /\ (s \o t)[i] = t[i - Len(s)]
            /\ j - Len(s) \in 1..Len(t) /\ (s \o t)[j] = t[j - Len(s)]
        BY <1>2, <2>3
      <3>2. j - Len(s) < i - Len(s)
        BY <1>1
      <3> QED
        BY <3>1, <3>2 DEF Growing
    <2> QED
      BY <2>1, <2>2, <2>3
  <1> QED
    BY <1>1, <1>3, <1>4

LEMMA NumbersOKImplies ==
    ASSUME Typed, NumbersOK
    PROVE  NumbersGrow
  <1>0. /\ Len(wire) \in Nat /\ ini + 1 \in Nat /\ wire \in Seq(Snapshots) /\ ini \in Nat
        /\ srv # None => srv \in Snapshots /\ srv.rev \in Nat
        /\ slot # None => slot \in Snapshots /\ slot.rev \in Nat
    BY SentIs DEF Typed, ClientTyped
  <1>1. PICK a : a = IF srv = None THEN <<>> ELSE <<srv>>
    OBVIOUS
  <1>2. PICK b : b = IF slot = None THEN <<>> ELSE <<slot>>
    OBVIOUS
  <1>3. /\ a \in Seq(Snapshots) /\ Growing(a) /\ Below(a, ini + 1)
        /\ \A i \in 1..Len(a) : srv # None /\ a[i] = srv
    <2>1. CASE srv = None
      BY <1>1, <2>1 DEF Growing, Below
    <2>2. CASE srv # None
      <3>1. a = <<srv>> /\ srv \in Snapshots /\ srv.rev \in Nat /\ srv.rev < ini + 1
        BY <1>0, <1>1, <2>2 DEF NumbersOK
      <3> QED
        BY <2>2, <3>1 DEF Growing, Below
    <2> QED
      BY <2>1, <2>2
  <1>4. /\ b \in Seq(Snapshots) /\ Growing(b) /\ Below(b, ini + 1)
        /\ \A i \in 1..Len(b) : slot # None /\ b[i] = slot
    <2>1. CASE slot = None
      BY <1>2, <2>1 DEF Growing, Below
    <2>2. CASE slot # None
      <3>1. b = <<slot>> /\ slot \in Snapshots /\ slot.rev \in Nat /\ slot.rev < ini + 1
        BY <1>0, <1>2, <2>2 DEF NumbersOK
      <3> QED
        BY <2>2, <3>1 DEF Growing, Below
    <2> QED
      BY <2>1, <2>2
  <1>5. a \o wire \in Seq(Snapshots) /\ Growing(a \o wire) /\ Below(a \o wire, ini + 1)
    <2>1. \A i \in 1..Len(a) : \A j \in 1..Len(wire) : a[i].rev < wire[j].rev
      BY <1>3 DEF NumbersOK, Above
    <2> QED
      BY <1>0, <1>3, <2>1, JoinGrows DEF NumbersOK
  <1>6. PICK c : c = a \o wire
    OBVIOUS
  <1>7. \A i \in 1..Len(c) : \A j \in 1..Len(b) : c[i].rev < b[j].rev
    <2> SUFFICES ASSUME NEW i \in 1..Len(c), NEW j \in 1..Len(b)
                 PROVE  c[i].rev < slot.rev
      BY <1>4
    <2>1. slot # None
      BY <1>4
    <2>2. (srv # None /\ c[i] = srv) \/ \E k \in 1..Len(wire) : c[i] = wire[k]
      <3>1. CASE i \in 1..Len(a)
        BY <1>0, <1>3, <1>6, <3>1
      <3>2. CASE ~(i \in 1..Len(a))
        <4>1. i - Len(a) \in 1..Len(wire) /\ c[i] = wire[i - Len(a)]
          BY <1>0, <1>3, <1>6, <3>2
        <4> QED
          BY <4>1
      <3> QED
        BY <3>1, <3>2
    <2> QED
      BY <2>1, <2>2 DEF NumbersOK, Below
  <1>8. PICK sent : sent = c \o b
    OBVIOUS
  <1>9. sent \in Seq(Snapshots) /\ Growing(sent) /\ Below(sent, ini + 1)
    BY <1>0, <1>4, <1>5, <1>6, <1>7, <1>8, JoinGrows DEF NumbersOK
  <1>10. sent = (IF srv = None THEN <<>> ELSE <<srv>>) \o wire
                \o (IF slot = None THEN <<>> ELSE <<slot>>)
    BY <1>1, <1>2, <1>6, <1>8
  <1>11. \A i \in DOMAIN sent : sent[i].rev <= ini /\ \A j \in 1..(i-1) : sent[j].rev < sent[i].rev
    <2>1. DOMAIN sent = 1..Len(sent) /\ Len(sent) \in Nat
      BY <1>9
    <2>2. \A i \in 1..Len(sent) : sent[i] \in Snapshots /\ sent[i].rev \in Nat
      BY <1>9, Fields
    <2>3. \A i \in 1..Len(sent) : \A j \in 1..(i-1) : j \in 1..Len(sent) /\ j < i
      BY <2>1
    <2>4. \A i \in 1..Len(sent) : \A j \in 1..(i-1) : sent[j].rev < sent[i].rev
      BY <1>9, <2>3 DEF Growing
    <2>5. \A i \in 1..Len(sent) : sent[i].rev <= ini
      BY <1>0, <1>9, <2>2 DEF Below
    <2> QED
      BY <2>1, <2>4, <2>5
  <1> QED
    BY <1>10, <1>11 DEF NumbersGrow

LEMMA NumbersInit == Init => NumbersOK
  BY BoundsAssumption DEF Init, NumbersOK, Growing, Below

\* NUMBERS GROW: what the server stores, what was sent and what waits carry
\* growing numbers, none above the one in config.ini, whatever is lost on the
\* way and however often the program is started again.
THEOREM NumbersGrowHolds == Spec => []NumbersGrow
  <1>1. Typed /\ NumbersOK /\ [Next]_vars => NumbersOK'
    BY NumbersStep
  <1>2. Typed /\ NumbersOK => NumbersGrow
    BY NumbersOKImplies
  <1> QED
    BY TypeInit, TypeStep, NumbersInit, <1>1, <1>2, PTL DEF Spec

-----------------------------------------------------------------------------
(* What is stored when there is nothing to upload                          *)

LEMMA FlightStep ==
    ASSUME Typed, NumbersOK, FlightOK, [Next]_vars
    PROVE  FlightOK'
  <1>0. /\ Len(wire) \in Nat /\ rev \in Nat /\ ini = rev /\ wire \in Seq(Snapshots)
        /\ \A i \in 1..Len(wire) : wire[i].rev \in Nat /\ wire[i].rev < ini + 1
        /\ (srv # None => srv.rev \in Nat /\ srv.rev <= ini)
        /\ (slot # None => slot.rev \in Nat /\ slot.rev <= ini)
    BY SentIs DEF Typed, ClientTyped, NumbersOK, Below
  <1>1. fly # None =>
          /\ fly.rev = rev
          /\ (srv # None /\ srv.rev = rev => srv = fly)
          /\ (slot # None /\ slot.rev = rev => slot = fly)
          /\ \A i \in 1..Len(wire) : wire[i].rev = rev => wire[i] = fly
    BY DEF FlightOK
  <1> USE DEF FlightOK
  <1>2. CASE UNCHANGED <<wire, slot, srv, rev>> /\ fly' \in {fly, None}
    BY <1>1, <1>2
  <1>3. CASE Upload
    <2>1. /\ rev' = rev + 1 /\ wire' = wire /\ srv' = srv
          /\ (slot' = slot \/ slot' = fly') /\ fly'.rev = rev + 1
      BY <1>3, UploadIs
    <2>2. srv' # None => srv'.rev # rev'
      BY <1>0, <2>1
    <2>3. slot' # None /\ slot'.rev = rev' => slot' = fly'
      BY <1>0, <2>1
    <2>4. \A i \in 1..Len(wire') : wire'[i].rev # rev'
      BY <1>0, <2>1
    <2> QED
      BY <2>1, <2>2, <2>3, <2>4
  <1>4. CASE Restart \/ \E keep \in BOOLEAN : LoseSession(keep)
    BY <1>4 DEF Restart, LoseSession
  <1>5. CASE SnapshotResult
    BY <1>2, <1>5 DEF SnapshotResult
  <1>6. CASE SendSnapshot
    <2>1. PICK s \in Snapshots : s = slot
      BY <1>6 DEF SendSnapshot, Typed, ClientTyped
    <2>2. /\ wire' = Append(wire, s) /\ slot' = None
          /\ srv' = srv /\ rev' = rev /\ fly' = fly /\ slot # None
      BY <1>6, <2>1 DEF SendSnapshot, flightVars
    <2>3. /\ Len(wire') = Len(wire) + 1 /\ wire'[Len(wire) + 1] = s
          /\ \A i \in 1..Len(wire) : wire'[i] = wire[i]
          /\ \A i \in 1..Len(wire') : i \in 1..Len(wire) \/ i = Len(wire) + 1
      BY <1>0, <2>2, AppendIs
    <2>4. fly' # None => \A i \in 1..Len(wire') : wire'[i].rev = rev' => wire'[i] = fly'
      BY <1>1, <2>1, <2>2, <2>3
    <2> QED
      BY <1>1, <2>2, <2>4
  <1>7. CASE Answer(FALSE) \/ Answer(TRUE) \/ LoseSnapshot
    <2>1. /\ wire # <<>> /\ wire' = Tail(wire) /\ slot' = slot
          /\ srv' = Head(wire) \/ srv' = srv
      BY <1>7, AnswerIs, LoseSnapshotIs
    <2>2. rev' = rev /\ fly' = fly
      BY <1>7 DEF Answer, LoseSnapshot, flightVars
    <2>3. /\ 1 \in 1..Len(wire) /\ Head(wire) = wire[1]
          /\ \A i \in 1..Len(wire') : i + 1 \in 1..Len(wire) /\ wire'[i] = wire[i + 1]
      BY <1>0, <2>1, TailIs
    <2>4. fly' # None => \A i \in 1..Len(wire') : wire'[i].rev = rev' => wire'[i] = fly'
      BY <1>1, <2>2, <2>3
    <2>5. fly' # None => (srv' # None /\ srv'.rev = rev' => srv' = fly')
      BY <1>1, <2>1, <2>2, <2>3
    <2> QED
      BY <1>1, <2>1, <2>2, <2>4, <2>5
  <1> QED
    BY <1>2, <1>3, <1>4, <1>5, <1>6, <1>7, ElsewhereIs DEF clientVars

LEMMA AnswersStep ==
    ASSUME Typed, NumbersOK, AnswersOK, [Next]_vars
    PROVE  AnswersOK'
  <1>0. /\ inbox \in Seq(Results) /\ wire \in Seq(Snapshots)
        /\ Len(inbox) \in Nat
        /\ \A i \in 1..Len(inbox) : inbox[i].rev \in Nat
    BY Fields DEF Typed, ClientTyped
  <1>1. \A i \in 1..Len(inbox) : inbox[i].code = "ok" => srv # None /\ srv.rev >= inbox[i].rev
    BY DEF AnswersOK
  \* What is stored may have become newer, and a refusal or a loss been added.
  <1>2. ASSUME srv' = srv \/ (srv' # None /\ srv'.rev \in Nat /\ (srv # None => srv'.rev >= srv.rev)),
               NEW r, inbox' = Append(inbox, r),
               r.code = "ok" => srv' # None /\ srv'.rev >= r.rev
        PROVE  AnswersOK'
    <2>1. /\ \A i \in 1..Len(inbox) : inbox'[i] = inbox[i]
          /\ inbox'[Len(inbox) + 1] = r
          /\ \A i \in 1..Len(inbox') : i \in 1..Len(inbox) \/ i = Len(inbox) + 1
      BY <1>0, <1>2, AppendIs
    <2>2. srv # None => srv.rev \in Nat
      BY SentIs
    <2>3. \A i \in 1..Len(inbox) : inbox[i].code = "ok" => srv' # None /\ srv'.rev >= inbox[i].rev
      BY <1>0, <1>1, <1>2, <2>2
    <2> QED
      BY <1>2, <2>1, <2>3 DEF AnswersOK
  <1>3. CASE UNCHANGED <<inbox, srv>>
    BY <1>1, <1>3 DEF AnswersOK
  <1>4. CASE Upload
    <2>1. /\ srv' = srv
          /\ inbox' = inbox \/ \E r \in Results : inbox' = Append(inbox, r) /\ r.code # "ok"
      BY <1>4, UploadIs
    <2> QED
      BY <1>2, <1>3, <2>1
  <1>5. CASE Restart \/ \E keep \in BOOLEAN : LoseSession(keep)
    <2>1. inbox' = <<>>
      BY <1>5 DEF Restart, LoseSession
    <2> QED
      BY <2>1 DEF AnswersOK
  <1>6. CASE SnapshotResult
    <2>1. inbox' = Tail(inbox) /\ inbox # <<>> /\ srv' = srv
      BY <1>6 DEF SnapshotResult
    <2>2. \A i \in 1..Len(inbox') : i + 1 \in 1..Len(inbox) /\ inbox'[i] = inbox[i + 1]
      BY <1>0, <2>1, TailIs
    <2> QED
      BY <1>1, <2>1, <2>2 DEF AnswersOK
  <1>7. CASE Answer(FALSE) \/ Answer(TRUE)
    <2>1. PICK lost \in BOOLEAN : Answer(lost)
      BY <1>7
    <2>2. /\ Head(wire) \in Snapshots /\ wire # <<>> /\ (srv' = Head(wire) \/ srv' = srv)
          /\ \E r \in Results : /\ inbox' = Append(inbox, r) /\ r.rev = Head(wire).rev
                                /\ r.code = "ok" => srv' = Head(wire)
      BY <2>1, AnswerIs
    <2>3. PICK r \in Results : /\ inbox' = Append(inbox, r) /\ r.rev = Head(wire).rev
                               /\ r.code = "ok" => srv' = Head(wire)
      BY <2>2
    <2>4. PICK h \in Snapshots : h = Head(wire)
      BY <2>2
    <2>5. h # None /\ h.rev \in Nat
      BY <2>4, Constants, Fields
    <2>6. srv # None => h.rev >= srv.rev
      <3>1. 1 \in 1..Len(wire) /\ h = wire[1]
        BY <1>0, <2>2, <2>4, TailIs
      <3>2. srv # None => srv.rev \in Nat /\ srv.rev < h.rev
        BY <3>1, SentIs DEF NumbersOK, Above
      <3> QED
        BY <2>5, <3>2
    <2>7. r.code = "ok" => srv' # None /\ srv'.rev >= r.rev
      BY <2>3, <2>4, <2>5
    <2>8. srv' = srv \/ (srv' # None /\ srv'.rev \in Nat /\ (srv # None => srv'.rev >= srv.rev))
      BY <2>2, <2>4, <2>5, <2>6
    <2> QED
      BY <1>2, <2>3, <2>7, <2>8
  <1>8. CASE LoseSnapshot
    <2>1. srv' = srv /\ \E r \in Results : inbox' = Append(inbox, r) /\ r.code # "ok"
      BY <1>8, LoseSnapshotIs
    <2> QED
      BY <1>2, <2>1
  <1>9. CASE SendSnapshot
    BY <1>3, <1>9 DEF SendSnapshot
  <1> QED
    BY <1>3, <1>4, <1>5, <1>6, <1>7, <1>8, <1>9, ElsewhereIs DEF clientVars

\* The answer that makes a window believe its state stored.
LEMMA StoredIs ==
    ASSUME Typed, StoredOK, inbox # <<>>, fly # None, fly.rev = Head(inbox).rev,
           Head(inbox).code = "ok"
    PROVE  srv = fly /\ wire = <<>> /\ slot = None
  <1>1. Head(inbox) = inbox[1] /\ 1 \in 1..Len(inbox)
    BY TailIs DEF Typed, ClientTyped
  <1>2. srv # None /\ srv.rev >= fly.rev
    BY <1>1 DEF StoredOK, AnswersOK
  <1>3. /\ fly.rev = rev /\ rev = ini /\ srv.rev <= ini
        /\ srv.rev \in Nat /\ ini \in Nat
    BY <1>2, SentIs DEF StoredOK, FlightOK, NumbersOK
  <1>4. srv.rev = rev
    BY <1>2, <1>3
  <1>5. srv = fly
    BY <1>2, <1>4 DEF StoredOK, FlightOK
  <1>6. slot = None
    BY <1>2, <1>3, <1>4, SentIs DEF StoredOK, NumbersOK
  <1>7. wire = <<>>
    <2>1. Len(wire) \in Nat /\ wire \in Seq(Snapshots)
      BY SentIs DEF Typed, ClientTyped
    <2>2. CASE 1 \in 1..Len(wire)
      BY <1>2, <1>3, <1>4, <2>2, SentIs DEF StoredOK, NumbersOK, Above, Below
    <2> QED
      BY <2>1, <2>2
  <1> QED
    BY <1>5, <1>6, <1>7

LEMMA CleanStep ==
    ASSUME Typed, StoredOK, [Next]_vars
    PROVE  CleanOK' /\ CleanMeansStored'
  <1>0. /\ CleanOK /\ CleanMeansStored /\ ready \in BOOLEAN /\ dirty \in BOOLEAN
        /\ want \in Wants
    BY DEF StoredOK, Typed, FlightTyped, QueueTyped
  <1> USE DEF CleanOK, CleanMeansStored
  <1>1. CASE UNCHANGED <<ready, dirty, want, wire, slot, srv>>
    BY <1>0, <1>1
  <1>2. CASE ready' = FALSE \/ dirty' = TRUE
    BY <1>2
  \* What still goes somewhere is not stored yet.
  <1>3. CASE /\ UNCHANGED <<ready, dirty>>
             /\ dirty \/ slot # None \/ wire # <<>>
    BY <1>0, <1>3
  <1>4. CASE (\E v \in States : UserEdit(v) \/ OcrEdit(v)) \/ Pushed \/ Preview \/ Apply \/ ReadBack
        \/ RollBack \/ Observed \/ Undo \/ Redo \/ UploadRefused \/ UploadNotSaved
        \/ UNCHANGED vars
    BY <1>1, <1>4 DEF UserEdit, OcrEdit, Pushed, Preview, Apply, ReadBack, RollBack, Observed, Undo,
       Redo, UploadRefused, UploadNotSaved, queueVars, clientVars, vars
  <1>5. CASE Observe \/ QueuePushed \/ QueueApplied \/ QueueUndone
    <2>1. dirty' = TRUE \/ UNCHANGED <<ready, dirty, want, wire, slot, srv>>
      BY <1>5 DEF Observe, QueuePushed, QueueApplied, QueueUndone, Pending, queueVars, clientVars
    <2> QED
      BY <1>1, <1>2, <2>1
  <1>6. CASE QueueDeadline \/ Confirm \/ Leave \/ Restart \/ \E keep \in BOOLEAN : LoseSession(keep)
    BY <1>2, <1>6 DEF QueueDeadline, Confirm, Leave, Restart, LoseSession, Pending
  <1>10. CASE OcrNote
    <2>1. match \in Matches
      BY DEF Typed, MatchTyped
    <2> QED
      BY <1>1, <1>10, <2>1, NoteIs DEF queueVars, clientVars
  <1>7. CASE Upload
    BY <1>3, <1>7 DEF Upload, Due, queueVars
  <1>8. CASE SendSnapshot \/ Answer(FALSE) \/ Answer(TRUE) \/ LoseSnapshot
    BY <1>3, <1>8 DEF SendSnapshot, Answer, LoseSnapshot, queueVars
  <1>9. CASE SnapshotResult
    <2>1. UNCHANGED <<ready, want, wire, slot, srv>> /\ inbox # <<>>
      BY <1>9 DEF SnapshotResult
    <2>2. CASE dirty' = dirty
      BY <1>1, <2>1, <2>2
    <2>3. CASE /\ fly # None /\ fly.rev = Head(inbox).rev /\ LatestQueued
               /\ dirty' = (Head(inbox).code # "ok")
      <3>1. CASE Head(inbox).code = "ok"
        <4>1. srv = fly /\ wire = <<>> /\ slot = None
          BY <2>1, <2>3, <3>1, StoredIs
        <4> QED
          BY <2>1, <2>3, <4>1 DEF LatestQueued
      <3>2. CASE Head(inbox).code # "ok"
        <4>1. dirty' = TRUE
          BY <2>3, <3>2
        <4> QED
          BY <1>2, <4>1
      <3> QED
        BY <3>1, <3>2
    <2> QED
      BY <1>9, <2>2, <2>3 DEF SnapshotResult
  <1> QED
    BY <1>4, <1>5, <1>6, <1>7, <1>8, <1>9, <1>10 DEF Next, Poll, Sync, Worker

LEMMA StoredInit == Init => StoredOK
  <1> SUFFICES ASSUME Init PROVE StoredOK
    OBVIOUS
  <1>1. FlightOK /\ CleanOK /\ CleanMeansStored
    BY DEF Init, FlightOK, CleanOK, CleanMeansStored
  <1>2. AnswersOK
    BY DEF Init, AnswersOK
  <1> QED
    BY <1>1, <1>2, NumbersInit DEF StoredOK

LEMMA StoredStep == Typed /\ StoredOK /\ [Next]_vars => StoredOK'
  <1> SUFFICES ASSUME Typed, StoredOK, [Next]_vars PROVE StoredOK'
    OBVIOUS
  <1>1. NumbersOK' /\ FlightOK' /\ AnswersOK'
    BY NumbersStep, FlightStep, AnswersStep DEF StoredOK
  <1> QED
    BY <1>1, CleanStep DEF StoredOK

\* NOTHING TO UPLOAD MEANS STORED: while its room is confirmed, a window that
\* has nothing to upload has the last state it queued on the server, whatever
\* answers were lost, came late or belong to an earlier number.
THEOREM CleanMeansStoredHolds == Spec => []CleanMeansStored
  <1>1. StoredOK => CleanMeansStored
    BY DEF StoredOK
  <1> QED
    BY TypeInit, TypeStep, StoredInit, StoredStep, <1>1, PTL DEF Spec

=============================================================================
