--------------------------- MODULE PlayerLibrary ---------------------------
(***************************************************************************)
(* The library of players on one machine: the SQLite file and the files it *)
(* replaced, the worker thread that alone touches them                     *)
(* (PlayerLibraryDatabase.cpp, PlayerLibraryStore.cpp), the main window    *)
(* that edits the library, shows it and takes evidence from synchronised   *)
(* matches (DNFGameCaptureDlg.cpp, CloudMatchSync.cpp), and the web page   *)
(* that shows the players of the match as it last heard of them.           *)
(*                                                                         *)
(* An entry stands for a game identifier of a player.  A library is a set  *)
(* of entries: spelling, names sharing an identity and their reversible    *)
(* merges are left out, what the revisions of the cloud refuse, and the    *)
(* removal of a name with all its identifiers, which leaves the match      *)
(* alone on purpose and so returns with the next save of its players.      *)
(* Every handler of the window runs to its end before the next one; what   *)
(* PollPlayerLibrary drains at once is handled result by result.           *)
(***************************************************************************)
EXTENDS Naturals, Sequences, FiniteSets

CONSTANTS
    Entries,    \* game identifiers
    None,       \* no file; no evidence
    MaxEdits,   \* bound on the commands of the user
    MaxArrivals,\* bound on synchronised matches and public libraries that arrive
    MaxFaults,  \* bound on commands of the worker that fail
    MaxStarts   \* bound on restarts, after an exit or a crash

ASSUME EntriesAssumption == IsFiniteSet(Entries) /\ None \notin Entries
\* No file and no evidence are told from an empty library.
ASSUME NoneAssumption == \A S \in SUBSET Entries : S # None
ASSUME BoundsAssumption ==
    /\ MaxEdits \in Nat /\ MaxArrivals \in Nat /\ MaxFaults \in Nat /\ MaxStarts \in Nat

VARIABLES
    disk,   \* db and its revision, prior (database before an upgrade), ini, the players of
            \* the match in players_config, cleared: the metadata tell of a reset
    store,  \* worker: commands, results, what it published, whether the database is open,
            \* aside: players_config as it was before a reset that is not committed
    win,    \* the window; unwritten (history): a reset failed after the players had changed
    page,   \* the page: revision of the library and players it shows
    asked,  \* history: entries whose removal is on its way
    past,   \* the entries the match had since the start: what its history can put back
    synced, \* the players before and after a synchronisation the user may still undo
    mark,   \* history: "deleted" once the user was told so, "shown" when an older copy of the
            \* match has shown it after: the page, a file of the players that was not
            \* written, the history, the synchronisation that was undone
    spent   \* how much of the bounds is used up

vars == <<disk, store, win, page, asked, past, synced, mark, spent>>

-----------------------------------------------------------------------------
Command(kind, lib, base) == [kind |-> kind, lib |-> lib, base |-> base, rev |-> win.rev]
NoSnapshot == [lib |-> {}, rev |-> 0, persisted |-> FALSE]

\* The process as it starts: StartPlayerLibrary queues Initialize, LoadConfigFromFile has
\* read the players of the match.
StartedStore ==
    [queue |-> <<[kind |-> "init", lib |-> {}, base |-> {}, rev |-> 0]>>, results |-> <<>>,
     published |-> NoSnapshot, open |-> FALSE, aside |-> None]
Started(roster) ==
    [ready |-> FALSE, view |-> {}, committed |-> {}, rev |-> 0, roster |-> roster, excluded |-> {},
     pending |-> <<>>, active |-> None, done |-> None, pulling |-> FALSE, exit |-> "no",
     unwritten |-> FALSE]

\* A database of this version, one of a prior version with an older export beside it, or
\* the INI of the versions before.
Init ==
    /\ \E x, y \in Entries : \E d \in {[db |-> {x}, prior |-> None, ini |-> {x}],
                                       [db |-> None, prior |-> {x}, ini |-> {y}],
                                       [db |-> None, prior |-> None, ini |-> {x}]} :
       \E roster \in {{}, {x}} :
          /\ disk = [db |-> d.db, prior |-> d.prior, ini |-> d.ini, rev |-> 1,
                     config |-> roster, cleared |-> FALSE]
          /\ win = Started(roster)
          /\ page = [rev |-> 0, roster |-> {}]
          /\ past = roster
    /\ store = StartedStore
    /\ asked = {} /\ synced = None /\ mark = [e \in Entries |-> "no"]
    /\ spent = [edits |-> 0, arrivals |-> 0, faults |-> 0, starts |-> 0]

Uses(what) ==
    /\ spent[what] < CASE what = "edits" -> MaxEdits [] what = "arrivals" -> MaxArrivals
                       [] what = "faults" -> MaxFaults [] OTHER -> MaxStarts
    /\ spent' = [spent EXCEPT ![what] = @ + 1]

\* The file that holds the library: a database wins over what it was made from.
Source == IF disk.prior # None THEN disk.prior ELSE disk.ini
Library == IF disk.db # None THEN disk.db ELSE Source

-----------------------------------------------------------------------------
(* The worker thread.                                                      *)

Now == [lib |-> disk'.db, rev |-> disk'.rev, persisted |-> TRUE]
Result(c, ok, s) == [kind |-> c.kind, ok |-> ok, lib |-> s.lib, rev |-> s.rev, persisted |-> s.persisted]

\* Run: the end of a command.
Succeeds(c) ==
    store' = [store EXCEPT !.queue = Tail(@), !.published = Now, !.open = TRUE, !.aside = None,
                           !.results = Append(@, Result(c, TRUE, Now))]
\* A failed Initialize falls back to the INI only where no database exists.
Fallback(c) ==
    IF c.kind = "init" /\ disk.db = None /\ disk.prior = None
    THEN [lib |-> disk.ini, rev |-> 0, persisted |-> FALSE] ELSE store.published
Fails(c) ==
    store' = [store EXCEPT !.queue = Tail(@), !.published = Fallback(c), !.aside = None,
                           !.results = Append(@, Result(c, FALSE, Fallback(c)))]

\* Persist: content and revision in one transaction.
Committed(lib) ==
    disk' = [disk EXCEPT !.db = lib, !.rev = IF lib = disk.db THEN @ ELSE @ + 1]

HeadIs(kinds) == store.queue # <<>> /\ Head(store.queue).kind \in kinds
Untouched == UNCHANGED <<win, page, asked, synced>>

\* Initialize: a copy is upgraded and checked beside the place of the database, which the
\* renamed copy then takes.
Install ==
    /\ HeadIs({"init"}) /\ disk.db = None
    /\ disk' = [disk EXCEPT !.db = Source]
    /\ UNCHANGED <<store, mark, spent>> /\ Untouched

\* Initialize: an existing database is opened.
Open ==
    /\ HeadIs({"init"}) /\ disk.db # None
    /\ UNCHANGED disk /\ Succeeds(Head(store.queue))
    /\ UNCHANGED <<mark, spent>> /\ Untouched

\* ReplaceLegacy, ImportV2, ExecuteIdentity.
Execute ==
    /\ HeadIs({"save", "match", "pull", "delete"}) /\ store.open
    /\ LET c == Head(store.queue) IN
       /\ c.kind = "delete" => c.rev = disk.rev
       /\ Committed(CASE c.kind = "save" -> c.lib
                      [] c.kind = "delete" -> disk.db \ c.lib
                      [] OTHER -> disk.db \cup c.lib)
       /\ Succeeds(c)
    /\ UNCHANGED <<mark, spent>> /\ Untouched

\* A command for an older revision, or for a database that could not be opened.
Refused ==
    /\ HeadIs({"save", "match", "pull", "delete", "reset"})
    /\ LET c == Head(store.queue) IN
       /\ ~store.open \/ (c.kind \in {"delete", "reset"} /\ c.rev # disk.rev)
       /\ Fails(c)
    /\ UNCHANGED <<disk, mark, spent>> /\ Untouched

\* ResetLocal replaces the files before it commits ..
ResetFiles ==
    /\ HeadIs({"reset"}) /\ store.open /\ store.aside = None
    /\ Head(store.queue).rev = disk.rev
    /\ store' = [store EXCEPT !.aside = disk.config]
    /\ disk' = [disk EXCEPT !.config = {}]
    /\ UNCHANGED <<mark, spent>> /\ Untouched

ResetCommit ==
    /\ HeadIs({"reset"}) /\ store.aside # None
    /\ disk' = [disk EXCEPT !.db = {}, !.rev = @ + 1, !.cleared = TRUE]
    /\ Succeeds(Head(store.queue))
    /\ mark' = [e \in Entries |-> IF e \in asked THEN "deleted" ELSE mark[e]]
    /\ UNCHANGED spent /\ Untouched

\* .. and puts them back when it cannot.
Fault ==
    /\ store.queue # <<>> /\ Uses("faults") /\ Fails(Head(store.queue))
    /\ disk' = IF store.aside = None THEN disk ELSE [disk EXCEPT !.config = store.aside]
    /\ UNCHANGED mark /\ Untouched

Work == Install \/ Open \/ Execute \/ Refused \/ ResetFiles \/ ResetCommit \/ Fault

-----------------------------------------------------------------------------
(* The window.                                                             *)

InFlight == store.queue # <<>> \/ store.results # <<>>
Asked(kind) == \/ \E i \in DOMAIN store.queue : store.queue[i].kind = kind
               \/ \E i \in DOMAIN store.results : store.results[i].kind = kind
Busy == ~win.ready \/ InFlight
Up == win.exit # "done"
\* RejectPlayerLibraryEditWhileBusy
Editable == ~Busy /\ win.exit = "no"

Sent(q, c) == [q EXCEPT !.queue = Append(@, c)]

\* QueuePlayerLibrarySave: what the window would save, and what is left in view and sent.
Merged(view, roster, merge) == IF merge THEN view \cup (roster \ win.excluded) ELSE view
\* Variation: the whole library is sent although another command is on its way.
VariationSendAnyway == FALSE
MayNotSend == InFlight
Saving(edited, roster, merge) ==
    LET v == Merged(edited, roster, merge)
        blocked == ~win.ready \/ Asked("reset")
        sends == ~blocked /\ v # win.committed /\ ~MayNotSend IN
    [ok |-> sends \/ (~blocked /\ v = win.committed),
     view |-> IF blocked THEN edited ELSE IF sends THEN v ELSE win.committed,
     store |-> IF sends THEN Sent(store, Command("save", v, win.committed)) ELSE store]

\* SaveConfigToFile: the worker owns the file during a reset.
SavedConfig(roster) == IF Asked("reset") THEN disk ELSE [disk EXCEPT !.config = roster]

\* Somebody names these entries: they are no longer deleted, nor being removed.
Named(s) == mark' = [e \in Entries |-> IF e \in s THEN "no" ELSE mark[e]]

\* OnBnClickedQuickAdd
QuickAdd(e) ==
    LET roster == win.roster \cup {e}
        s == Saving(win.view, roster, TRUE) IN
    /\ Editable /\ e \notin win.roster
    /\ win' = [win EXCEPT !.roster = roster, !.view = s.view] /\ store' = s.store
    /\ Named({e})
    /\ UNCHANGED <<disk, page, asked, synced>>

\* The menu of the tree: an identifier is removed from match and library (14).
DeleteBoth(e) ==
    LET roster == win.roster \ {e}
        s == Saving(win.view \ {e}, roster, TRUE) IN
    /\ Editable /\ e \in win.roster
    /\ win' = [win EXCEPT !.roster = roster, !.view = s.view] /\ store' = s.store
    /\ disk' = SavedConfig(roster)
    /\ asked' = {e} \cap win.committed
    /\ UNCHANGED <<page, mark, synced>>

\* The menu of the tree (2, 3, ..), OnBnClickedApply: nothing is asked about the library.
Apply(roster) ==
    LET s == Saving(win.view, roster, TRUE) IN
    /\ roster \subseteq win.roster
    /\ win' = [win EXCEPT !.roster = roster, !.view = s.view] /\ store' = s.store
    /\ disk' = SavedConfig(roster)
    /\ UNCHANGED <<page, asked, mark, synced>>

\* QueuePlayerIdentityCommand
Identity(c) ==
    /\ Editable /\ ~win.pulling
    /\ store' = Sent(store, c) /\ asked' = c.base
    /\ UNCHANGED <<disk, win, page, mark, synced>>

\* cmd_identity_*, cmd_delete_alias
Delete(e) == e \in win.committed /\ Identity(Command("delete", {e}, {e}))
Reset == win.pending = <<>> /\ Identity(Command("reset", {}, win.committed))

\* update_state: the page sends the players it shows, and with an edit of the library the
\* library as well.
WebPlayers(roster, shown) ==
    /\ mark' = [e \in Entries |-> CASE e \in roster \ shown -> "no"
                                    [] e \in shown /\ mark[e] = "deleted" -> "shown"
                                    [] OTHER -> mark[e]]
WebRoster(roster) ==
    LET s == Saving(win.view, roster, FALSE) IN
    /\ win' = [win EXCEPT !.roster = roster, !.view = s.view] /\ store' = s.store
    /\ disk' = SavedConfig(roster)
    /\ WebPlayers(roster, page.roster)
    /\ UNCHANGED <<page, asked, synced>>

TakesLibrary == ~Busy /\ page.rev = win.rev
WebLibrary(lib) ==
    LET edited == IF TakesLibrary THEN lib ELSE win.view
        s == Saving(edited, page.roster, FALSE) IN
    /\ win' = [win EXCEPT !.roster = page.roster, !.view = s.view] /\ store' = s.store
    /\ disk' = SavedConfig(page.roster)
    /\ asked' = IF TakesLibrary THEN win.committed \ lib ELSE asked
    /\ mark' = [e \in Entries |-> IF TakesLibrary /\ e \in lib \ win.committed THEN "no"
                                   ELSE IF e \in page.roster /\ mark[e] = "deleted" THEN "shown"
                                   ELSE mark[e]]
    /\ UNCHANGED <<page, synced>>

\* BroadcastStateToWeb, some time later.
Hear ==
    /\ page' = [rev |-> win.rev, roster |-> win.roster]
    /\ UNCHANGED <<disk, store, win, asked, synced, mark, spent>>

\* Older players are the match again.
Again(s) == mark' = [e \in Entries |-> IF e \in s /\ mark[e] = "deleted" THEN "shown" ELSE mark[e]]

\* UndoMatchHistory, RedoMatchHistory, RestoreMatchHistoryToEntry: the library is not saved.
\* What was of the match at different times may come back at once.
RestoreHistory(s) ==
    /\ win' = [win EXCEPT !.roster = s]
    /\ disk' = SavedConfig(s)
    /\ Again(s)
    /\ UNCHANGED <<store, page, asked, synced>>

\* cmd_cloud_sync_undo, cmd_undo_team_sync: only while the match is as it was synchronised;
\* the former takes it back when what goes with it cannot be saved.
UndoSync ==
    /\ synced # None /\ win.roster = synced.after
    /\ LET s == Saving(win.view, synced.before, FALSE) IN
       \E roster \in {synced.before} \cup (IF s.ok THEN {} ELSE {win.roster}) :
          /\ win' = [win EXCEPT !.roster = roster, !.view = s.view] /\ store' = s.store
          /\ disk' = SavedConfig(roster)
          /\ Again(roster)
          /\ synced' = IF roster = synced.before THEN None ELSE synced
    /\ UNCHANGED <<page, asked>>

-----------------------------------------------------------------------------
(* Evidence of synchronised matches, and public libraries.                 *)

\* DnfSyncedPlayerLibraryQueue::Enqueue
Outstanding(s) == s = win.active \/ \E i \in DOMAIN win.pending : win.pending[i] = s
Enqueued(s, force) == s # {} /\ ~Outstanding(s) /\ (force \/ s # win.done)

\* PumpSyncedPlayerLibrary
Pumps(w, st) ==
    IF w.active # None \/ w.pending = <<>>
    THEN win' = w /\ store' = st
    ELSE /\ win' = [w EXCEPT !.active = Head(w.pending), !.pending = Tail(@)]
         /\ store' = Sent(st, Command("match", Head(w.pending), {}))

\* QueueSyncedPlayerLibrary
Accepting == win.exit = "no" /\ ~Asked("reset")
Evidence(w, st, s, force) ==
    IF Enqueued(s, force)
    THEN Pumps([w EXCEPT !.pending = Append(@, s)], st) /\ asked' = asked \ s
    ELSE Pumps(w, st) /\ UNCHANGED asked

\* A pushed match, or one the user asked for, is the match of the window from now on; its
\* players may keep identifiers they have here.  The entries of one from the cloud are
\* evidence for the library when what goes with it could be saved.
TakeMatch(s, kept, byHand, evidence) ==
    LET roster == s \cup kept
        saving == Saving(win.view, roster, FALSE)
        w == [win EXCEPT !.roster = roster, !.view = saving.view] IN
    /\ IF evidence /\ saving.ok /\ Accepting THEN Evidence(w, saving.store, s, byHand)
       ELSE win' = w /\ store' = saving.store /\ UNCHANGED asked
    /\ disk' = SavedConfig(roster)
    /\ Named(s)
    /\ synced' = IF byHand THEN [before |-> win.roster, after |-> roster] ELSE None
    /\ UNCHANGED page

\* cmd_set_identity_panel_open: a player of the match the library does not know.
OpenPanel(e) ==
    /\ ~Asked("match") /\ Accepting
    /\ e \in win.roster \ win.committed
    /\ Evidence(win, store, {e}, TRUE)
    /\ Named({e})
    /\ UNCHANGED <<disk, page, synced>>

\* StartManualAliasDbSync, StartAliasDbAutoSyncAttempt; the latter saves first, and
\* leaves the pull for later when there was something to save.
StartPull(first) ==
    LET s == Saving(win.view, win.roster, TRUE) IN
    /\ ~Busy /\ ~win.pulling
    /\ IF first THEN win' = [win EXCEPT !.view = s.view, !.pulling = s.store = store] /\ store' = s.store
       ELSE win' = [win EXCEPT !.pulling = TRUE] /\ UNCHANGED store
    /\ UNCHANGED <<disk, page, asked, synced, mark, spent>>

Pulling == win.pulling /\ ~Asked("pull")
\* QueuePlayerLibraryImport
TakePublic(s) ==
    /\ Pulling
    /\ store' = Sent(store, Command("pull", s, {}))
    /\ asked' = asked \ s /\ Named(s)
    /\ UNCHANGED <<disk, win, page, synced>>
PullFails ==
    /\ Pulling /\ win' = [win EXCEPT !.pulling = FALSE]
    /\ UNCHANGED <<disk, store, page, asked, synced, mark, spent>>

-----------------------------------------------------------------------------
(* What the worker did reaches the window.                                 *)

\* Variation: what left the library stays in the match.
VariationLeaving(r) == {}
\* ApplyPlayerLibraryDelta: what left the library leaves the match, what came to it may
\* belong to a player of the match.
Leaving(r) == win.committed \ r.lib
Delta(r) ==
    IF ~r.ok \/ r.kind \in {"match", "init"} \/ r.rev = win.rev THEN {win.roster}
    ELSE {(win.roster \ Leaving(r)) \cup s : s \in SUBSET (r.lib \ win.committed)}

\* Variation: only a success is published.
VariationPublished(w, r) ==
    IF r.ok THEN [w EXCEPT !.view = r.lib, !.committed = r.lib, !.rev = r.rev, !.ready = r.persisted]
    ELSE w
\* PublishPlayerLibrary
Published(w, r) ==
    [w EXCEPT !.view = r.lib, !.committed = r.lib, !.rev = r.rev, !.ready = r.persisted]

\* Variation: only what comes from a match changes what is remembered of matches.
VariationRemembered(w, r) == w
\* InvalidateCommitted
Invalidated(w, r) == IF r.ok /\ r.kind # "match" THEN [w EXCEPT !.done = None] ELSE w

\* The completions of the requests.
Completed(w, r) ==
    CASE r.kind = "match" -> [w EXCEPT !.active = None, !.done = IF r.ok THEN w.active ELSE @]
      [] r.kind = "pull" -> [w EXCEPT !.pulling = FALSE]
      [] r.kind = "reset" /\ r.ok -> [w EXCEPT !.roster = {}, !.excluded = {}]
      [] r.kind = "reset" /\ ~r.ok -> [w EXCEPT !.unwritten = @ \/ w.roster # disk.config]
      [] r.kind = "init" /\ r.ok /\ disk.cleared -> [w EXCEPT !.excluded = w.roster]
      [] OTHER -> w

\* PollPlayerLibrary, the last of it DoRealExit when that was waited for.
Rest == Tail(store.results)
Leaves(w) == w.exit = "pending" /\ store.queue = <<>> /\ Rest = <<>> /\ w.pending = <<>>
Poll ==
    /\ Up /\ store.results # <<>>
    /\ LET r == Head(store.results)
           st == [store EXCEPT !.results = Tail(@)] IN
       \E roster \in Delta(r) :
          LET w == Completed(Published([Invalidated(win, r) EXCEPT !.roster = roster], r), r) IN
          /\ Pumps(IF Leaves(w) THEN [w EXCEPT !.exit = "done"] ELSE w, st)
          /\ disk' = IF roster # win.roster THEN [disk EXCEPT !.config = w.roster] ELSE disk
          /\ IF r.kind \in {"save", "delete", "reset"}
             THEN /\ asked' = {}
                  /\ mark' = [e \in Entries |-> IF r.ok /\ e \in asked THEN "deleted" ELSE mark[e]]
             ELSE UNCHANGED <<asked, mark>>
    /\ UNCHANGED <<page, synced, spent>>

-----------------------------------------------------------------------------
(* The end of the process.                                                 *)

\* Variation: the worker is stopped at once.
VariationExitNow == FALSE
\* DoRealExit
MustFinish == win.ready /\ InFlight
Exit ==
    /\ win.exit = "no"
    /\ win' = [win EXCEPT !.exit = IF MustFinish THEN "pending" ELSE "done"]
    /\ UNCHANGED <<disk, store, page, asked, synced, mark, spent>>

\* The program is started again, after its end or a crash.
Start ==
    /\ Uses("starts")
    /\ store' = StartedStore /\ win' = Started(disk.config)
    /\ page' = [rev |-> 0, roster |-> {}] /\ asked' = {} /\ synced' = None
    /\ mark' = [e \in Entries |->
                  IF win.unwritten /\ e \in disk.config /\ mark[e] = "deleted" THEN "shown" ELSE mark[e]]
    /\ UNCHANGED disk

User ==
    \/ \E e \in Entries : QuickAdd(e) \/ DeleteBoth(e) \/ Delete(e) \/ OpenPanel(e)
    \/ \E e \in Entries : Apply(win.roster \ {e})
    \/ \E e \in Entries : WebRoster(page.roster \cup {e}) \/ WebRoster(page.roster \ {e})
    \/ \E e \in Entries : WebLibrary(win.committed \cup {e}) \/ WebLibrary(win.committed \ {e})
    \/ Reset
    \/ UndoSync \/ \E s \in SUBSET past : RestoreHistory(s)

Arrival ==
    \E s \in SUBSET Entries \ {{}} :
       \/ TakePublic(s)
       \/ \E kept \in SUBSET win.roster, byHand, evidence \in BOOLEAN :
             TakeMatch(s, kept, byHand, evidence)

Running ==
    \/ Up /\ Work
    \/ Up /\ Uses("edits") /\ User
    \/ Up /\ Uses("arrivals") /\ Arrival
    \/ Up /\ (Hear \/ PullFails \/ Exit \/ \E first \in BOOLEAN : StartPull(first))
    \/ Poll

\* ObserveMatchHistoryState, InitializeMatchHistory
Next ==
    \/ Running /\ past' = past \cup win'.roster
    \/ Start /\ past' = win'.roster

Spec == Init /\ [][Next]_vars

-----------------------------------------------------------------------------
(* Properties.                                                             *)
Sets == SUBSET Entries
Maybe == Sets \cup {None}
Removals == {"save", "delete", "reset"}
Adds == {"match", "pull"}
Kinds == Removals \cup Adds \cup {"init"}
Disks == [db : Maybe, prior : Maybe, ini : Sets, rev : Nat, config : Sets, cleared : BOOLEAN]
Commands == [kind : Kinds, lib : Sets, base : Sets, rev : Nat]
Results == [kind : Kinds, ok : BOOLEAN, lib : Sets, rev : Nat, persisted : BOOLEAN]
Stores ==
    [queue : Seq(Commands), results : Seq(Results),
     published : [lib : Sets, rev : Nat, persisted : BOOLEAN], open : BOOLEAN, aside : Maybe]
Windows ==
    [ready : BOOLEAN, view : Sets, committed : Sets, rev : Nat, roster : Sets, excluded : Sets,
     pending : Seq(Sets), active : Maybe, done : Maybe, pulling : BOOLEAN,
     exit : {"no", "pending", "done"}, unwritten : BOOLEAN]

\* The variables hold what State, the window and the page declare.
TypeOK ==
    /\ disk \in Disks /\ store \in Stores /\ win \in Windows
    /\ page \in [rev : Nat, roster : Sets] /\ asked \in Sets
    /\ past \in Sets /\ synced \in [before : Sets, after : Sets] \cup {None}
    /\ mark \in [Entries -> {"no", "deleted", "shown"}]
    /\ spent \in [{"edits", "arrivals", "faults", "starts"} -> Nat]

\* Nothing leaves the library but by a command of somebody who saw it there: not by a save
\* made from what another command has changed, not by an upgrade, a reset cut short, a
\* failure or a crash.
Seen == IF store.queue = <<>> THEN {} ELSE Head(store.queue).base
NothingUnseenRemoved == [][Library \ Library' \subseteq Seen]_vars

\* With no command on its way the window shows what is in the database ("Legacy view of
\* the committed SQLite library", DNFGameCaptureDlg.h:626), whatever failed before.
ViewIsLibrary ==
    win.ready /\ ~InFlight => win.view = Library /\ win.committed = Library /\ win.rev = disk.rev

\* Evidence remembered as merged, which is not sent again, is in the library.
RememberedEvidenceStored == win.done # None /\ ~InFlight => win.done \subseteq Library

\* An identifier the user was told is deleted comes back only from somebody who names it,
\* or after an older copy of the match has put it back on show (the page, a file of the
\* players that was not written, the history, a synchronisation that was undone): not by a
\* save that adds the players of the match, nor by a start of the program.
DeletedStaysDeleted == \A e \in Entries : mark[e] = "deleted" => e \notin Library
\* Nor when an older copy of the match still has it.
DeletedForGood == \A e \in Entries : mark[e] # "no" => e \notin Library

\* Once the library is open, evidence the window took is in the library, or the user was
\* told that it failed, before the program ends ("Flush already accepted work on graceful
\* exit", DNFGameCaptureDlg.cpp:16954).
AcceptedEvidenceFlushed ==
    win.exit = "done" /\ win.ready => win.pending = <<>> /\ win.active = None
\* Nor is evidence dropped that was accepted while the library was still loading.
EvidenceFlushedAlways ==
    win.exit = "done" => win.pending = <<>> /\ win.active = None
=============================================================================
