---------------------------- MODULE CloudUpload ----------------------------
(***************************************************************************)
(* How the state of the match on one machine reaches the match server: the *)
(* window looks for changes, numbers a snapshot, saves the number, hands   *)
(* it to the client and judges the answer; states of other broadcasters    *)
(* are taken over by a manual synchronisation, which can be undone once,   *)
(* or pushed while one is followed.  The recognition thread changes the    *)
(* match between any two steps of the window.                              *)
(*                                                                         *)
(* Source: DNFGameCaptureDlg.cpp; of CloudMatchClient.cpp and snapshots.ts *)
(* only what the window depends on.                                        *)
(*                                                                         *)
(* A poll of the window is split where a lock is given up or a deadline    *)
(* decides; deadlines pass at any moment.  The epoch of the match is not   *)
(* counted: whoever remembers it is told that it moved on.                 *)
(***************************************************************************)
EXTENDS Naturals, Sequences

CONSTANTS
    States,      \* states of the match made on this machine
    Invalid,     \* the states BuildCloudMatchSnapshotPayload refuses
    None,        \* an empty payload
    MaxEdits,    \* bound on the changes of the match
    MaxRevision, \* bound on the numbers given to snapshots
    MaxFaults    \* bound on lost answers, refusals, failed saves, restarts, lost sessions

\* The match of another broadcaster as it was received: its recent events are
\* listed or not yet, and so are undecided ones noted on this machine.
Foreign == [merged : BOOLEAN, noted : BOOLEAN]
Remote == [merged |-> FALSE, noted |-> FALSE]

ASSUME StatesAssumption ==
    Foreign \cap States = {} /\ None \notin States \cup Foreign /\ Invalid \subseteq States
ASSUME BoundsAssumption == MaxEdits \in Nat /\ MaxRevision \in Nat /\ MaxFaults \in Nat

Values == States \cup Foreign
Sources == {"manual", "ocr", "pushed", "cloud_sync", "local_restore"}
Snapshots == [rev : 1..MaxRevision, v : Values, src : Sources]
ASSUME NoneAssumption == None \notin Snapshots

VARIABLES
    match,     \* the match: [v, by], by being history
    seen,      \* m_cloudMatchLastObservedPayload
    ocr,       \* m_cloudMatchExplicitOcrPayload
    want,      \* m_cloudMatchPendingPayload and its change source, [v, src]
    dirty,     \* m_cloudMatchUploadDirty
    blocked,   \* m_cloudMatchUploadRetryBlocked
    fly,       \* the upload in flight, [rev, v, src]
    late,      \* m_cloudMatchUploadQueueResultDeadlineTick is set
    rev,       \* m_cloudMatchClientRevision
    ini,       \* ClientRevision in config.ini
    ready,     \* m_cloudMatchRoomConfirmed
    sync,      \* the synchronisation under way: [at, same]
    base,      \* m_cloudMatchSyncLocalBaseline of the preview
    undo,      \* what may be undone: [backup, applied, same]
    slot,      \* client: the snapshot waiting to be sent
    wire,      \* client: snapshots sent and not answered
    inbox,     \* client: results to be dispatched, [rev, code]
    srv,       \* server: the stored snapshot
    edits, faults  \* how much of the bounds is used up

matchVars == <<match, ocr>>
queueVars == <<want, dirty, blocked>>
flightVars == <<fly, late, rev, ini>>
syncVars == <<sync, base, undo>>
clientVars == <<slot, wire, inbox>>
boundVars == <<edits, faults>>
vars == <<matchVars, seen, queueVars, flightVars, ready, syncVars, clientVars, srv, boundVars>>

-----------------------------------------------------------------------------
Fault == faults < MaxFaults /\ faults' = faults + 1
Change(v, by) ==
    /\ edits < MaxEdits /\ edits' = edits + 1
    /\ match' = [v |-> v, by |-> by]
\* The window's thread is not in the middle of a synchronisation.
Idle == sync.at = "idle"
Free == [at |-> "idle", same |-> FALSE]
NoUndo == [backup |-> None, applied |-> None, same |-> FALSE]

\* MarkMatchMutation: the epoch moves on.
Mutated ==
    /\ sync' = [sync EXCEPT !.same = FALSE]
    /\ undo' = [undo EXCEPT !.same = FALSE]

\* The pending snapshot: made anew, to be uploaded, attempts start over.
Pending(v, src) ==
    /\ want' = [v |-> v, src |-> src]
    /\ dirty' = TRUE /\ blocked' = FALSE

Init ==
    /\ match \in [v : States, by : {"user"}]
    /\ seen = None /\ ocr = None
    /\ want = [v |-> None, src |-> "manual"] /\ dirty = FALSE /\ blocked = FALSE
    /\ fly = None /\ late = FALSE /\ rev = 0 /\ ini = 0 /\ ready = FALSE
    /\ sync = Free /\ base = None /\ undo = NoUndo
    /\ slot = None /\ wire = <<>> /\ inbox = <<>> /\ srv = None
    /\ edits = 0 /\ faults = 0

-----------------------------------------------------------------------------
(* Changes made on this machine. *)

\* The user edits in the window.
UserEdit(v) ==
    /\ Idle /\ v # match.v
    /\ Change(v, "user")
    /\ UNCHANGED <<ocr, seen, queueVars, flightVars, ready, syncVars, clientVars, srv, faults>>

\* The recognition thread records a kill and says which payload is its own.
OcrEdit(v) ==
    /\ v # match.v
    /\ Change(v, "ocr")
    /\ ocr' = v
    /\ Mutated
    /\ UNCHANGED <<seen, queueVars, flightVars, ready, base, clientVars, srv, faults>>

\* An undecided or repeated kill is only listed among the recent events, which
\* are part of the payload; the epoch stays.
Noted == IF match.v \in Foreign THEN {[merged |-> match.v.merged, noted |-> TRUE]} ELSE States
OcrNote ==
    /\ \E v \in Noted \ {match.v} : Change(v, match.by)
    /\ UNCHANGED <<ocr, seen, queueVars, flightVars, ready, syncVars, clientVars, srv, faults>>

-----------------------------------------------------------------------------
(* The poll of the window. *)

\* Every 100 ms the payload is compared with the one observed last.
Observe ==
    /\ Idle /\ match.v # seen
    /\ seen' = match.v /\ ocr' = None
    /\ IF seen = None
       THEN UNCHANGED <<queueVars, sync, undo>>
       ELSE /\ Pending(match.v, IF ocr = match.v THEN "ocr" ELSE "manual")
            /\ Mutated
    /\ UNCHANGED <<match, flightVars, ready, base, clientVars, srv, boundVars>>

LatestQueued == fly # None /\ want = [v |-> fly.v, src |-> fly.src]
Due == Idle /\ ready /\ dirty /\ ~blocked /\ ~LatestQueued

\* A state that is not fit for the server waits for the next change.
UploadRefused ==
    /\ Due /\ want.v \in Invalid
    /\ blocked' = TRUE
    /\ UNCHANGED <<matchVars, seen, want, dirty, flightVars, ready, syncVars, clientVars, srv,
                   boundVars>>

\* The number could not be saved: it is taken back, to be tried again.
UploadNotSaved ==
    /\ Due /\ want.v \notin Invalid /\ Fault
    /\ UNCHANGED <<matchVars, seen, queueVars, flightVars, ready, syncVars, clientVars, srv, edits>>

Replaced == IF slot = None THEN <<>> ELSE <<[rev |-> slot.rev, code |-> "canceled"]>>
VariationUploadUnsaved ==
    /\ Due /\ want.v \notin Invalid /\ rev < MaxRevision
    /\ rev' = rev + 1 /\ UNCHANGED ini
    /\ fly' = [rev |-> rev + 1, v |-> want.v, src |-> want.src]
    /\ late' = FALSE /\ slot' = fly' /\ inbox' = inbox \o Replaced
    /\ UNCHANGED <<matchVars, seen, queueVars, ready, syncVars, wire, srv, boundVars>>
\* The number is saved first; the client then takes the snapshot in place of
\* one it has not sent yet, or has no room for its result.
Upload ==
    /\ Due /\ want.v \notin Invalid /\ rev < MaxRevision
    /\ rev' = rev + 1 /\ ini' = rev + 1
    /\ fly' = [rev |-> rev + 1, v |-> want.v, src |-> want.src]
    /\ \/ /\ late' = FALSE /\ slot' = fly' /\ inbox' = inbox \o Replaced
          /\ UNCHANGED faults
       \/ /\ Fault /\ late' = TRUE
          /\ UNCHANGED <<slot, inbox>>
    /\ UNCHANGED <<matchVars, seen, queueVars, ready, syncVars, wire, srv, edits>>

VariationNoDeadline == FALSE
\* The client did not take the snapshot within 500 ms.
QueueDeadline ==
    /\ Idle /\ fly # None /\ late
    /\ fly' = None /\ late' = FALSE /\ dirty' = TRUE /\ blocked' = FALSE
    /\ UNCHANGED <<matchVars, seen, want, rev, ini, ready, syncVars, clientVars, srv, boundVars>>

Transient == {"timeout", "canceled"}
VariationAnyResult ==
    /\ Idle /\ inbox # <<>>
    /\ inbox' = Tail(inbox)
    /\ fly' = None /\ late' = FALSE
    /\ dirty' = (Head(inbox).code # "ok") /\ blocked' = (Head(inbox).code \notin Transient \cup {"ok"})
    /\ UNCHANGED <<matchVars, seen, want, rev, ini, ready, syncVars, slot, wire, srv, boundVars>>
\* HandleCloudMatchSnapshotUploadResult: only the answer to the last upload
\* counts, and only if nothing was changed in the meantime.
SnapshotResult ==
    /\ Idle /\ inbox # <<>>
    /\ inbox' = Tail(inbox)
    /\ LET code == Head(inbox).code
       IN IF fly = None \/ fly.rev # Head(inbox).rev
          THEN UNCHANGED <<fly, late, dirty, blocked>>
          ELSE /\ fly' = None /\ late' = FALSE
               /\ IF LatestQueued
                  THEN /\ dirty' = (code # "ok")
                       /\ blocked' = (code \notin Transient \cup {"ok"})
                  ELSE UNCHANGED <<dirty, blocked>>
    /\ UNCHANGED <<matchVars, seen, want, rev, ini, ready, syncVars, slot, wire, srv, boundVars>>

-----------------------------------------------------------------------------
(* The session, see CloudRoomSession. *)

\* A join is confirmed: the present state is uploaded as if changed by hand.
Confirm ==
    /\ Idle /\ ~ready
    /\ ready' = TRUE /\ fly' = None /\ late' = FALSE
    /\ Pending(match.v, "manual")
    /\ base' = None /\ undo' = NoUndo
    /\ UNCHANGED <<matchVars, seen, rev, ini, sync, clientVars, srv, boundVars>>

\* The session is given up: Configure or Stop empties the client's queues.
\* A restoration keeps what is dirty and blocked, the others do not.
LoseSession(keep) ==
    /\ Idle /\ ready /\ Fault
    /\ ready' = FALSE /\ fly' = None /\ late' = FALSE
    /\ IF keep THEN UNCHANGED <<dirty, blocked>> ELSE dirty' = FALSE /\ blocked' = FALSE
    /\ base' = None /\ undo' = NoUndo
    /\ slot' = None /\ wire' = <<>> /\ inbox' = <<>>
    /\ UNCHANGED <<matchVars, seen, want, rev, ini, sync, srv, edits>>

\* The room was left, or nobody knows: the client's queues stay.
Leave ==
    /\ Idle /\ ready /\ Fault
    /\ ready' = FALSE
    /\ \/ fly' = None /\ late' = FALSE /\ dirty' = FALSE /\ blocked' = FALSE
       \/ UNCHANGED <<fly, late, dirty, blocked>>
    /\ base' = None /\ undo' = NoUndo
    /\ UNCHANGED <<matchVars, seen, want, rev, ini, sync, clientVars, srv, edits>>

\* The program ends, or crashes, and is started again.
Restart ==
    /\ Fault
    /\ match' = [match EXCEPT !.by = "user"] /\ seen' = None /\ ocr' = None
    /\ want' = [v |-> None, src |-> "manual"] /\ dirty' = FALSE /\ blocked' = FALSE
    /\ fly' = None /\ late' = FALSE /\ rev' = ini /\ ready' = FALSE
    /\ sync' = Free /\ base' = None /\ undo' = NoUndo
    /\ slot' = None /\ wire' = <<>> /\ inbox' = <<>>
    /\ UNCHANGED <<ini, srv, edits>>

-----------------------------------------------------------------------------
(* The client and the server. *)

SendSnapshot ==
    /\ slot # None
    /\ wire' = Append(wire, slot) /\ slot' = None
    /\ UNCHANGED <<matchVars, seen, queueVars, flightVars, ready, syncVars, inbox, srv, boundVars>>

\* saveSnapshot: the number must grow and the content must differ.
Verdict(s) ==
    CASE srv = None -> "ok"
      [] srv # None /\ s.rev <= srv.rev -> "stale_revision"
      [] srv # None /\ s.rev > srv.rev /\ s.v = srv.v /\ s.src = srv.src -> "duplicate_snapshot"
      [] OTHER -> "ok"
\* An answer may be lost, or the connection with it: the client says so.
Answer(lost) ==
    /\ wire # <<>>
    /\ IF lost THEN Fault ELSE UNCHANGED faults
    /\ wire' = Tail(wire)
    /\ srv' = IF Verdict(Head(wire)) = "ok" THEN Head(wire) ELSE srv
    /\ inbox' = Append(inbox, [rev |-> Head(wire).rev,
                               code |-> IF lost THEN "timeout" ELSE Verdict(Head(wire))])
    /\ UNCHANGED <<matchVars, seen, queueVars, flightVars, ready, syncVars, slot, edits>>
\* The snapshot itself was lost, or its sender is no member of the room any more.
LoseSnapshot ==
    /\ wire # <<>> /\ Fault
    /\ wire' = Tail(wire)
    /\ \E code \in {"timeout", "no_membership"} :
          inbox' = Append(inbox, [rev |-> Head(wire).rev, code |-> code])
    /\ UNCHANGED <<matchVars, seen, queueVars, flightVars, ready, syncVars, slot, srv, edits>>

-----------------------------------------------------------------------------
(* States of other broadcasters. *)

\* MergeCloudRecentEvents: events not in the list yet become part of the state.
Merge ==
    \/ UNCHANGED match
    \/ match.v \in Foreign /\ match' = [match EXCEPT !.v = [merged |-> TRUE, noted |-> @.noted]]

At(step) == sync' = [sync EXCEPT !.at = step]

\* A push to a follower replaces the state whatever it is.
Pushed ==
    /\ Idle /\ ready
    /\ Change(Remote, "push")
    /\ sync' = [at |-> "pushed", same |-> TRUE]
    /\ undo' = [undo EXCEPT !.same = FALSE]
    /\ UNCHANGED <<ocr, seen, queueVars, flightVars, ready, base, clientVars, srv, faults>>
VariationQueuePushed ==
    /\ sync.at = "pushed"
    /\ sync' = Free
    /\ Merge /\ seen' = match'.v /\ Pending(match'.v, "pushed")
    /\ UNCHANGED <<ocr, flightVars, ready, base, undo, clientVars, srv, boundVars>>
\* The state is uploaded as synchronised unless it was changed since, or the
\* files of the match could not be written.
QueuePushed ==
    /\ sync.at = "pushed"
    /\ sync' = Free
    /\ \/ /\ sync.same /\ Merge
          /\ seen' = match'.v /\ Pending(match'.v, "pushed") /\ UNCHANGED faults
       \/ /\ ~sync.same
          /\ UNCHANGED <<match, seen, queueVars, faults>>
       \/ /\ Fault
          /\ UNCHANGED <<match, seen, queueVars>>
    /\ UNCHANGED <<ocr, flightVars, ready, base, undo, clientVars, srv, edits>>

\* A snapshot asked for arrives and is compared with the present state.
Preview ==
    /\ Idle /\ ready /\ base = None
    /\ base' = match.v
    /\ UNCHANGED <<matchVars, seen, queueVars, flightVars, ready, sync, undo, clientVars, srv,
                   boundVars>>

\* cmd_cloud_sync_apply: nothing is taken over if the state is not the one
\* the preview was made for; under the lock it is kept as a backup.
Apply ==
    /\ Idle /\ ready /\ base # None
    /\ IF match.v = base
       THEN /\ Change(Remote, "sync") /\ At("applied")
            /\ undo' = [NoUndo EXCEPT !.backup = base]
       ELSE UNCHANGED <<match, edits, sync, undo>>
    /\ base' = None
    /\ UNCHANGED <<ocr, seen, queueVars, flightVars, ready, clientVars, srv, faults>>

\* What may be undone is read back without the lock.
ReadBack ==
    /\ sync.at = "applied"
    /\ At("saving")
    /\ undo' = [undo EXCEPT !.applied = match.v, !.same = TRUE]
    /\ UNCHANGED <<matchVars, seen, queueVars, flightVars, ready, base, clientVars, srv, boundVars>>

\* The upload that follows does not look whether the state was changed since.
QueueApplied ==
    /\ sync.at = "saving"
    /\ sync' = Free
    /\ Merge /\ seen' = match'.v /\ Pending(match'.v, "cloud_sync")
    /\ UNCHANGED <<ocr, flightVars, ready, base, undo, clientVars, srv, boundVars>>

\* The files could not be written: the backup is put back if nothing changed.
RollBack ==
    /\ sync.at = "saving" /\ Fault
    /\ IF match.v = undo.applied
       THEN /\ match' = [v |-> undo.backup, by |-> "undo"]
            /\ At("rolled back") /\ undo' = NoUndo
       ELSE /\ sync' = Free
            /\ UNCHANGED <<match, undo>>
    /\ UNCHANGED <<ocr, seen, queueVars, flightVars, ready, base, clientVars, srv, edits>>
Observed ==
    /\ sync.at = "rolled back"
    /\ sync' = Free /\ seen' = match.v
    /\ UNCHANGED <<matchVars, queueVars, flightVars, ready, base, undo, clientVars, srv, boundVars>>

\* cmd_cloud_sync_undo: only while the state is the one read back.
Undo ==
    /\ Idle /\ ready /\ undo.backup # None
    /\ undo.same /\ match.v = undo.applied
    /\ Change(undo.backup, "undo") /\ At("undone")
    /\ UNCHANGED <<ocr, seen, queueVars, flightVars, ready, base, undo, clientVars, srv, faults>>
QueueUndone ==
    /\ sync.at = "undone"
    /\ sync' = Free
    /\ seen' = match.v /\ Pending(match.v, "local_restore")
    /\ undo' = NoUndo
    /\ UNCHANGED <<matchVars, flightVars, ready, base, clientVars, srv, boundVars>>
\* The files could not be written: the synchronised state is put back.
Redo ==
    /\ sync.at = "undone" /\ Fault
    /\ match' = [v |-> undo.applied, by |-> "sync"]
    /\ sync' = Free /\ undo' = [undo EXCEPT !.same = TRUE]
    /\ UNCHANGED <<ocr, seen, queueVars, flightVars, ready, base, clientVars, srv, edits>>

-----------------------------------------------------------------------------
Poll == Observe \/ UploadRefused \/ Upload \/ QueueDeadline \/ SnapshotResult
Sync == QueuePushed \/ ReadBack \/ QueueApplied \/ Observed \/ QueueUndone
Worker == SendSnapshot \/ Answer(FALSE)
Next ==
    \/ \E v \in States : UserEdit(v) \/ OcrEdit(v)
    \/ OcrNote
    \/ Poll \/ UploadNotSaved
    \/ Confirm \/ (\E keep \in BOOLEAN : LoseSession(keep)) \/ Leave \/ Restart
    \/ Worker \/ Answer(TRUE) \/ LoseSnapshot
    \/ Sync \/ Pushed \/ Preview \/ Apply \/ RollBack \/ Undo \/ Redo

Spec == Init /\ [][Next]_vars
\* The window polls on a timer and ends what it began; the worker runs until
\* it is stopped and gives up an answer that does not come.
FairSpec ==
    /\ Spec
    /\ WF_vars(Observe) /\ WF_vars(UploadRefused) /\ WF_vars(Upload) /\ WF_vars(QueueDeadline)
    /\ WF_vars(SnapshotResult) /\ WF_vars(Sync) /\ WF_vars(SendSnapshot) /\ WF_vars(Answer(FALSE))

-----------------------------------------------------------------------------
\* The variables hold what their declarations say.
TypeOK ==
    /\ match \in [v : Values, by : {"user", "ocr", "push", "sync", "undo"}]
    /\ {seen, ocr, base} \subseteq Values \cup {None}
    /\ want \in [v : Values \cup {None}, src : Sources]
    /\ {dirty, blocked, late, ready} \subseteq BOOLEAN
    /\ fly \in Snapshots \cup {None} /\ slot \in Snapshots \cup {None}
    /\ srv \in Snapshots \cup {None}
    /\ {rev, ini} \subseteq 0..MaxRevision
    /\ sync \in [at : {"idle", "pushed", "applied", "saving", "rolled back", "undone"},
                 same : BOOLEAN]
    /\ undo \in [backup : Values \cup {None}, applied : Values \cup {None}, same : BOOLEAN]
    /\ wire \in Seq(Snapshots)
    /\ inbox \in Seq([rev : 1..MaxRevision,
                      code : {"ok", "timeout", "canceled", "stale_revision", "duplicate_snapshot",
                              "no_membership"}])

\* While in a room, a window that has nothing to upload knows its pending
\* state to be the one the server holds: no answer to an older upload, no
\* lost answer and no new session makes it believe so too early.
CleanMeansStored ==
    ready /\ ~dirty => srv # None /\ want = [v |-> srv.v, src |-> srv.src]

\* Snapshots reach the server under growing numbers, whatever was lost in
\* between, and a number is in config.ini before it is used: no restart
\* makes the server refuse what a machine sends later as stale.
NumbersGrow ==
    LET sent == (IF srv = None THEN <<>> ELSE <<srv>>) \o wire
                \o (IF slot = None THEN <<>> ELSE <<slot>>)
    IN  \A i \in DOMAIN sent : sent[i].rev <= ini /\ \A j \in 1..(i-1) : sent[j].rev < sent[i].rev

\* What is uploaded as synchronised from the broadcaster that is followed are the
\* players and scores that were pushed: no kill recorded on this machine in the
\* meantime is passed off as the other's.  (An undecided event noted in the
\* meantime may be among the recent events: it does not move the epoch.)
NoKillPassedOff == want.src = "pushed" => want.v \in Foreign

\* A state to be uploaded is stored, or visibly refused, or replaced by
\* another, unless the session is lost.
UploadsEnd == (ready /\ dirty) ~> (~dirty \/ blocked \/ ~ready \/ rev = MaxRevision)

\* "Overwritten by the remote snapshot, recent events merged; can be undone
\* once while the local data is unchanged": as long as the synchronisation was
\* the last change of the match and no event was noted, its undoing is not
\* refused.  VIOLATED: the events merged after what may be undone was read back
\* are such a change.
UndoOffered ==
    /\ ready /\ Idle /\ undo.backup # None /\ match.by = "sync"
    /\ match.v \in Foreign /\ ~match.v.noted
        => undo.same /\ match.v = undo.applied

\* "Undo only while the local data is unchanged": an undo takes back the
\* synchronisation and no change made after it.  VIOLATED: a kill recorded
\* before what may be undone is read back is undone with it.
UndoKeepsNewRecords == [][Undo => match.by = "sync"]_vars
=============================================================================
