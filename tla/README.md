# DNFGameCapture in TLA+

TLA+ models, model-checking runs and machine-checked proofs for DNFGameCapture:
a Windows program for live broadcasters of the game DNF, and the cloud match
server (`cloud-match-server/`, TypeScript, Socket.IO and SQLite) through which
the broadcasters share the match on screen, follow each other in real time,
compare rooms, hold licences and generate speech. Paths are relative to
`src/DNFGameCapture/`; server files without a path are in
`cloud-match-server/src/`.

    tlc -workers 2 -config pool_serial.cfg MCUnifiedPool.tla    # one run
    for m in *Proofs.tla; do tlapm $m; done                      # the proofs

`PROJECT.json` lists the runs, the lines each definition models, a mutation of
the model that breaks each property, the findings, the hazards and the theorems.

## 1. The system

| component | state it keeps | operations | who talks to it |
|---|---|---|---|
| Broadcaster pool, connections, relations (`socket.ts`, `unified.ts`, `sync-relations.ts`, `rooms.ts`, `identity.ts`) | tables devices, memberships, realtime_sync, sync_history; in memory activeSockets, deviceQueues, temporaryCleanupTimers | register, connect, disconnect, replace, broadcaster:join/rename, room:join/rename/leave, sync:realtime:start/heartbeat/stop, broadcasters:list, one-second sweep, two-second clean-up, restart | desktop clients (events and acks), administrator (calls), timers |
| Administrator interventions (`admin.ts`, `client-ban.ts`, `admin-data.ts`) | table client_bans | disconnect, ban, unban, stop a relation, delete data, clean up offline members | the pool: calls `disconnectDevice`, reads the same tables |
| Rooms, snapshots, notifications, comparison pages (`socket.ts`, `rooms.ts`, `snapshots.ts`) | room revisions, snapshots, lastAnnouncedDataRevision, comparisonSession, presence timers, comparison cache | upload, push to followers, room:changed, room:presence, room:comparison page by page, snapshot:get | the pool (membership), clients |
| Comparison algorithm (`comparison.ts`) | none | clustering of match snapshots | called by room:comparison |
| Rate limits (`rate-limits.ts`) | windows per device and address, cold-comparison leases | allow, acquire, release | every mutating event |
| Speech generation (`tts-generate.ts`) | usage, spend, quota, cache tables; calls in flight | generate, and the administrator's quota operations | clients over HTTP, the external speech service |
| Voice catalogue and shared clips (`voices.ts`, `voice-library.ts`) | voice files and tables | publish, list, download | clients, administrator |
| Licences (`license-store.ts`, `auth.ts`, `license-admin.ts`, `v2-api.ts`) | tables licenses, auth_sessions, operations, audit | activate, validate, log out, extend, rebind, disable, recover key | clients, administrator |
| Public player library (`library-*.ts`, `player-library.ts`) | entities, redirects, submissions, revision | submit, review, merge, resolve conflicts | clients submit, administrators review |
| Attribution (`broadcaster-attribution.ts`) | links between broadcasters and licences, address evidence | connect, rename, observe, link by hand | the pool and the licence API |
| Cloud client: connection (`CloudMatchClient.cpp`) | command queue, latest snapshot, inbound queue with reservations, pending acks, remembered room, generation of the configuration; one worker thread | configure, start, stop, calls and queries, cancel, dispatch; connect, send, acknowledge or time out, reconnect | the server; the thread of the window |
| Cloud client: uploads and synchronised states (`DNFGameCaptureDlg.cpp`, `CloudMatchSync.cpp`) | state last observed, pending payload, revision, undo | notice changes, upload, judge answers, take over a state by hand or by a push, undo | recognition thread, connection, library |
| Cloud client: identity of the window (`DNFGameCaptureDlg.cpp`) | saved room and token, flags of what is under way, deadlines | register, join, cancel, rename, leave, restore | connection, page |
| Client lease (`LicenseLease.cpp`) | the lease file | renew, check while offline | licence API |
| Local player library (`PlayerLibrary*.cpp`, `DNFGameCaptureDlg.cpp`) | SQLite database, worker thread and its queue, view of the window, players of the match | install, edit, import, delete, reset, take evidence, export | window, page, synchronised matches, server library |
| LAN key mapping and team synchronisation (`KeyMappingLanService.cpp`) | peers, pairing, subscriptions, proposals | discover, pair, subscribe, propose, accept | another instance over TCP and UDP |
| Triggers and OCR health (`MutualDeathTriggerPolicy.h`, `OcrServiceHealth.h`) | small state machines on tick counts | observe, arm, trigger, time out | detection loop |
| Detection, drawing, web front end (`DNFGameCaptureDlg.cpp`, `web前端/`) | program state on screen | capture, OCR, score, render | everything above |

### What is hard here

* **One FIFO queue per device, none across devices.** `enqueueDeviceOperation`
  serialises the requests of a device, while its connection, replacement and
  disconnection act at once and only queue the rest of their work. What was
  decided when the socket closed (`wasActive`) is used when the operation runs.
* **Services may suspend.** Every handler awaits its services. The production
  ones are synchronous and an `await` of a value ends within the same microtask
  phase, so no socket event comes in between; the interface admits services that
  do not, and both are modelled (`AsyncServices`).
* **Partial failure.** A set-up or a switch of rooms touches the socket adapter,
  memory and the database in separate steps, and rolls back by hand.
* **Cached truth.** Names checked only at the join, retention measured by a
  column that is not refreshed during a connection, comparisons valid for one
  revision, budgets reserved on one day and refunded on another.
* **Two threads and a network on the client.** The worker of the cloud client, the
  recognition thread and the window share queues and the match under locks that
  are given up between two steps that belong together.
* **Copies of one truth.** The page, the window, the worker and the disk each hold
  the library, and each may be behind; likewise the state of the match on two
  machines of a team.
* **Two lifetimes.** Tables survive a restart; sockets, queues and timers do not.

## 2. Modules

### UnifiedPool (core)

Models the first two components. `membership`, `relation`, `registered`, `idle`
(time since `last_seen_at`) and `banned` are the tables; `open` are the connected
sockets of a device, `active` is `activeSockets`, `queue` is `deviceQueues`,
`timer` is `temporaryCleanupTimers`.

| action | code |
|---|---|
| `Connect`, `RunInit`, `RunInitUnrestored`, `RunInitUnlinked` | `io.use`, the queued initialisation and its failure before and after the activation |
| `Drop`, `CloseSocket`, `RunClosed` | the `disconnect` listener and the operation it queues |
| `Submit`, `Suspend`, `RunEvent`, `Handle` | `bindAckEvent` and the handlers |
| `TimerFires`, `RunCleanup` | the grace period of a temporary device |
| `Tick`, `Sweep` | time; the one-second interval |
| `AdminDisconnect`, `Ban`, `Unban`, `AdminStopRealtime`, `AdminDeleteData`, `AdminCleanupOffline` | the routes of `admin.ts` |
| `Restart` | `close()` and a new process on the same database |

One `Tick` ages heartbeats (limit 5 s, `StaleAfter`) and `last_seen_at` (limit
24 h, `Retention`) alike: only the order in which limits are reached matters, and
both orders occur. `leftover` is a history variable: viewers whose relation
outlived the teardown of its target, because it was read back after a restart or
because a set-up failed after activation. These are the two ways in which the
code does leave such a row, and `FollowedTargetOnline` excludes them by name.

### RoomDirectory

Models the content of rooms on top of a simplified connection (connected,
closing, gone): who is in a room under which name with which snapshot, the
revision that stamps this content, the announcements, the comparison session and
the push to followers. `op[d]` is the suspended handler of device `d`, with the
stage it is at; each stage ends at an `await` of the code.

| handler | steps |
|---|---|
| room:join, room:leave | `Move`, `MoveAdapter`, `PersistMove`; after a fault (`MoveAdapterFails`, `PersistMoveFails`) `RestoreAdapter`, which may fail in its turn (`RestoreAdapterFails`) |
| room:rename, broadcaster:join | `Rename`, `PoolJoin` |
| notification of the rooms changed | `ReadRevision` and `AnnounceRevision`, for each room |
| snapshot:upload | `Upload`, `SaveSnapshot`, `ReadStored`, `Push` |
| room:comparison | `Compare`, then per attempt `Attempt` (revision), `CompareMembers`, `CompareSnapshots`, `CompareReread` (revision again), `CompareAnswer`; of a session, `NextPage`, `PageReread` (the session may have expired), `ServePage` |
| sync:realtime:start, stop | `Follow`, `ReadInitial`, `SendInitial`; `Unfollow` |
| removals | `Expire` (the sweep), `RemoveTemporary` (the clean-up of a temporary device, which raises no revision), `AdminDelete` (which raises one and announces it to nobody) |

`broadcaster:rename` changes the same state as joining the pool again under
another name and is covered by `PoolJoin`. Message loss is not modelled: `seen` is
what a live connection was sent. Three histories name what the code leaves open,
so that the properties say exactly how far its promises go: `silent`, rooms that
changed without a new revision while they were being compared (entering or
leaving the pool, and `RemoveTemporary`); `purged`, rooms an administrator deleted
data of; `stranded`, connections whose adapter could not be restored after a
failed move.

### TtsQuota

Models `TtsGenerator`: the four tables, the calls in flight and the
administrator's changes. `generate()` does not await between the look into the
cache and the entry into `inflight`, so that `Request` is one step; the end of
the call is `Deliver`, `FailUnsent` (the service was not reached, the spend is
refunded) or `FailMidway` (it may have charged, only the licence is refunded).
Money is in small units, a clip is a model value with a length and a price, and
the eviction of the cache keeps either everything or the new clip only. The
audio service is external: it answers or fails, in any order, at any time.

### CloudRequests and CloudMatchClient

`CloudRequests` is the abstract promise of the client to the window: a call it
accepts gets one result, unless the window withdraws it first or changes the
configuration, which voids all open calls at once. `CloudMatchClient` models
`CloudMatchClient::Impl`: `commands`, `latest`, `inbound`, `acks` and `desired`
are its queues, `reserved` and `queued` the accounting that keeps room for
protected results, `gen` and `cgen` the generation of the configuration (one under
the mutex, one atomic), `pc`, `hand`, `settling` and `wgen` the worker.

| action | code |
|---|---|
| `Configure`, `Start`, `BeginStop`, `FinishStop` | `ApplyConfig`, `Start`, `Stop` |
| `Enqueue`, `UploadSnapshot`, `UploadTooLarge`, `NotifyTurnedAway`, `CancelRequest`, `DispatchMessage` | the calls of the window |
| `BeginRegistration`, `RegisterConnected`, `EndRegistration` | a registration, before a connection or on it (there it goes before the calls queued in front of it) |
| `BeginConnection`, `Connect`, `Lose`, `LoseWithError`, `DropLicense`, `GoOffline` | the life of a connection |
| `SendRejoin`, `TakeCommand`, `TakeSnapshot`, `Send`, `SendFails`, `SendRefused` | `ProcessOutgoing` |
| `ReceiveAck`, `CommitRename`, `ReceiveNote`, `ExpireAcks`, `FailAcks`, `FailQueries`, `ExpireQueued` | `HandleAck`, `HandleServerEvent`, the deadlines and the end of a connection |

A step is one critical section of the mutex or one network operation. The server
answers, answers late, or not at all. The refinement mapping `Fates` reads what
became of a call off the queues: it is open as long as it is in one of them, and a
call found in two places or answered twice would map to a fate `CloudRequests` does
not know. `tried` is a history: a join was sent on this connection. Two steps are
coarser than the code. `Connect` shows the connection and makes the remembered join
due at once, although the code does so in two critical sections; a call of the window
between them has the effect it has before or after. After a snapshot the worker may
send again before it receives, which the code does only in the next turn.

The constants are assumed to be what the code has: calls are of one of five kinds,
the numbers of snapshots grow, the rejoin is no call of the window. `InOrder` and
`Kept` stand for the loops that take calls out of `commands` and `inbound`: `Kept`
leaves the entries that stay in their order.

### CloudUpload

The window of one machine as a source and a target of match states: `Observe`,
`Upload`, `QueueDeadline` and `SnapshotResult` are the parts of `PollCloudMatch`
and of the handling of answers; `Preview`, `Apply`, `RollBack`, `Undo`, `Redo`,
`Pushed` and `QueuePushed` take over states. The recognition thread may come
between any two of them: where the code gives up the lock, the model has two steps.
It records a kill (`OcrEdit`), which moves the epoch of the match, or it notes an
undecided or repeated kill (`OcrNote`), which only adds an event to the payload and
leaves the epoch. A state received from another broadcaster is therefore
`Foreign`: are its events merged into the list, and were events of this machine
noted. `Leave` is a room left, or not left, by the window, which keeps the queues of
the client; `LoseSession` configures the client anew, which empties them. The client
is reduced to one slot and one snapshot in flight, the server to the snapshot it
stored last; that the server deletes stored snapshots by itself (the sweep, an
administrator) is not modelled.

### CloudRoomSession

The identity of the window in the pool: registration, joining, renaming, leaving,
restoring after a restart, the two deadlines of `PollCloudMatch`, withdrawn
authorization, and the server: its verdicts, refusals, a database set up anew
(`NewServer`), and the removal of a member by the retention sweep or by an
administrator (`RemoveMember`), of which no message tells the window. A verdict may
also be that the call failed after the name was entered, or before a leave was
carried out. `srv.removed` is a history: whom the server removed by itself.
`BeginCloudRoomJoin` ignores the room it is asked for, so that the pool is the only
room. Handlers call one another; each function is a set of outcomes of the state the
thread of the window has before it (a *desk*), composed by union. A token is of a
device and of a database: after a new set-up (`srv.epoch`) the old ones are unknown.
The device a client registers is the identity its configuration has, which a refused
registration replaces by a fresh one. The temporary identity of a second instance of
the program on one machine is not modelled.

### KeyMappingLan

Captain and client of a team on a local network: the two network threads
(`Srv..`, `Cli..`), one step for each part of an iteration that reads shared
atomics anew, and the handlers of both windows. Frames are ordered and may be
lost only with the connection, which either side may find dead at any time. A
state of the match is the number of the change that made it; `own` keeps, as a
history, how many changes of its own the client has not proposed yet (`credit`) and
whether it changed anything since it took over a push (`since`).

States in `Invalid` are those `ValidateTeamSyncSnapshot` refuses, on either side and
after the service has taken note of them. In automatic mode that validation is the
only reason for which a state is not applied. Not modelled: states too large for a
frame (`payload_too_large`), and the preference of local identifiers
(`m_bPreferLocalAliasesOnSync`), which is taken to be off. The
revision from which uploads count (`CliBaseline`) is read after the connection is
shown (`CliAccepted`).

### PlayerLibrary

The library of players of one machine, from disk to page.

| variable | code |
|---|---|
| `disk` | the database and its revision, the database of a prior version, the INI, `players_config` |
| `store` | `PlayerLibraryStore::State`: commands, results, what is published, the open database |
| `win` | `m_aliasDB` (`view`), `m_playerLibraryCommittedView`, the players of the match, `DnfSyncedPlayerLibraryQueue`, pulls, the exit under way |
| `page` | the revision and the players the page last heard of |

`Work` is the worker: `Install`, `Open`, `Execute`, `Refused`, `ResetFiles`,
`ResetCommit` and `Fault`, the failure of any of them with what it puts back.
`Saving` is `QueuePlayerLibrarySave`, which every edit ends in; `Poll` is one
result of `PollPlayerLibrary` with `ApplyPlayerLibraryDelta`,
`PublishPlayerLibrary` and the completion of its request. `TakeMatch` is a
synchronised match, by hand or pushed: it may keep local identifiers of players with
the same name, and brings evidence only when it comes from the cloud. Older copies of
the match come back by `RestoreHistory` (undo, redo and restore of the match history)
and by `UndoSync` (a manual synchronisation that is undone, while the match is as it
left it). The former saves the players of the match and leaves the library alone, so
that the next save puts their identifiers back into it; the latter saves the library
as well. `past` over-approximates the history: any of the entries the match had
since the start may return together. A synchronisation that is rolled back
because it could not be saved leaves the match as it was and is no step. `Start` is a
start of the program after an exit or a crash at any point. `mark`, `asked` and
`win.unwritten` are histories that say what the user was told, `past` and `synced`
what older copies of the match there are. An entry stands for one game identifier; the removal of a whole name leaves the match alone by
design ("Removing a name from the library must not remove that name from the
current match"), so that the next save adds it again, and is left out. The only
assumption, `NoneAssumption`, is that the absence of a file is no library.

## 3. Runs

| run | instance | checks |
|---|---|---|
| `pool_serial` | an ordinary and a temporary device, two connections each, all requests and administrator actions, faults, one restart; synchronous services | `NoMutualFollow`, `FollowedTargetOnline`, `NoZombieConnection`, `BannedOffline` |
| `pool_live` | a temporary device and another, services that suspend, one restart, fairness | `DepartedTempRemoved`, `AbandonedRelationEnds` |
| `rooms_async` | an ordinary and a temporary device, one room, every handler suspended at each await, deletions by the administrator | `PageIsCurrent`, `LatestChangeTold`, `PagesInOrder`, `RevisionsToldIncrease` |
| `rooms_mixed` | two devices, a room and the pool, follows, sweeps and deletions; the adapter or the database throws, also while a move is taken back | `SnapshotInMemberRoom`, `HearsOwnRoom` |
| `quota` | two licences, two clips, two days in two months | `OneCallPerClip`, `BudgetKeptWithoutStrays`, `NotUndercharged`, `BonusNotCreated` |
| `client` | a query refused while offline, two snapshots, a join, one topic; queues of two, two changes of configuration | `ReservationsExact`, `RoomForResults`, `UploadsInOrder`, `NewestSnapshotKept`, `RejoinOnce`, `KeepsPromise` |
| `client_live` | a query, a renaming, a leave, a registration; fairness | `QueryEnds`, `KeepsPromise` |
| `lan` | two changes, one to a state that is refused, four moves (switches, requests, keys, connections, failures) | `KeysOnlyWhileShown`, `ProposalsOwed`, `Converged` |
| `upload` | two states of this machine (one unfit for the server), one of another with and without events of this machine, three changes, two numbers, one fault; fairness | `CleanMeansStored`, `NumbersGrow`, `NoKillPassedOff`, `UploadsEnd` |
| `upload_undo` | the same with three numbers and without faults | `UndoKeepsNewRecords` is **violated** |
| `session` | two names, three commands, three faults (memberships removed by the server among them); fairness | `ConfirmedIsMember`, `SavedNameGranted`, `JoiningEnds` |
| `library` | two identifiers, two edits (undo and history among them), one match or public library, one failed command, one restart or crash | `ViewIsLibrary`, `RememberedEvidenceStored`, `DeletedStaysDeleted`, `AcceptedEvidenceFlushed`, `NothingUnseenRemoved` |

What the properties say is written above each of them. `KeepsPromise` is the
refinement: every step of the client is a step of `CloudRequests` or a stutter; it
fails when a call is forgotten on any of the paths that move it between queues,
when it is answered twice, or answered after its cancellation. Each module also
has a `TypeOK`; it is proved wherever section 4 says so and is part of no run: add `INVARIANT TypeOK` to a configuration to check it.

**Bounds.** Two devices are enough for every property about a pair (a relation,
a name, a notification and its reader), and two connections for a replacement;
what holds for more is what section 4 proves. `MaxQueue` bounds what
clients have in flight when a new request is taken: with it, an initialisation,
a request and a disconnection are queued together. `MaxPending` is the code's
`MAX_DEVICE_PENDING_OPERATIONS`, reduced. Room revisions are bounded by
`MaxRevision`, with room for the operations under way; three changes during one
comparison suffice to fail both of its attempts. Budgets of two to four units
leave a day at, below and one clip over its limit. The queues of the cloud client
hold two instead of 64 or more entries, so that each is full, empty and in between,
and a notification has to give way to a result; two snapshots suffice for one to
overtake or replace the other, one new configuration for answers that come too
late. In `lan`, `upload`, `session` and `library` the bounds count what the
environment does (changes, commands, faults), never what the code does with it:
between two such events everything runs in every order. Three commands are a join,
a cancellation and another join; one crash finds the reset between its files and
its commit. Symmetry is used where no liveness is checked, over names,
connections, licences or identifiers no action tells apart (`NothingUnseenRemoved` of
`library` is an action property that names no identifier, so that permuting them
changes nothing). `CHECK_DEADLOCK FALSE` stands where the bounds on the environment,
or a program that has ended, leave nothing to do.

**Fairness.** `LiveSpec` of `UnifiedPool` assumes that the event loop serves each
queue (weak fairness of `Run(d)`) and that time passes and due timers fire (strong
fairness of `Tick`, `Sweep` and `TimerFires`): with synchronous services the
timers phase of the event loop is reached again and again although operations
come and go in between. `FairSpec` of `CloudMatchClient` assumes that the worker
runs (every network operation of it has a time-out), that the window dispatches
messages on its timer and starts the client it configured, and that a deadline the
worker looks at again and again is found to be past at some time (strong fairness,
since the acknowledgement may also come). `CloudUpload` and `CloudRoomSession`
assume the timer of `PollCloudMatch` and the dispatch of messages, and, for
uploads, that the client sends or gives up. No action of a user, of the server or
of the network is fair: nobody has to reconnect, send heartbeats, answer or leave.

**The finding.** `upload_undo`: what a manual synchronisation applied is read back
outside the lock that guarded it. A kill recorded in between is taken for a part
of the synchronised state, so that undoing the synchronisation, which promises to
refuse once there are new records, removes it.

**Claims that do not hold**, kept as configurations beside the runs. Each states a
sentence of the repository's documents or texts, or what a reader would expect,
and TLC refutes it (`tlc -config <file> <module>`).

| configuration | module | property | what happens |
|---|---|---|---|
| `pool_names.cfg` | `MCUnifiedPool` | `OnlineNamesUnique` | a name is checked at the join against those online then; its earlier holder reconnects without a check |
| `pool_retention.cfg` | `MCUnifiedPool` | `OnlineMemberKept` | `last_seen_at` is written when a connection begins and ends: a member connected for 24 hours is swept out with the offline ones |
| `quota_midnight.cfg` | `MCTtsQuota` | `BudgetNeverExceeded` | a spend reserved before midnight and refunded after it lowers the new day; `BudgetKeptWithoutStrays` shows that this is the only way |
| `client_rename.cfg` | `MCCloudMatchClient` | `RememberedNameNewest` | the late acknowledgement of a renaming of the room before replaces the remembered name of the new one |
| `lan_baseline.cfg` | `KeyMappingLan` | `BaselineNotSent` | an edit between the subscription and the baseline passes for the baseline |
| `lan_echo.cfg` | `KeyMappingLan` | `RemoteStateNotProposed` | a change of the client waits in the debounce, a push replaces the state, and the upload sends the captain's state back |
| `upload_merge.cfg` | `CloudUpload` | `UndoOffered` | events merged after the state was read back make the undoing refuse, although nothing else changed |
| `session_rename.cfg` | `CloudRoomSession` | `RenamingUnderWay` | a new configuration drops the renaming, and nothing resets its flag: joining and leaving are refused from then on |
| `library_page.cfg` | `PlayerLibrary` | `DeletedForGood` | the page sends the players it shows, with no revision, and the history and the undoing of a synchronisation put older players back: a deleted identifier returns to the match and with the next save to the library |
| `library_loading.cfg` | `PlayerLibrary` | `EvidenceFlushedAlways` | evidence accepted while the library is still loading is dropped by an exit, which does not wait then, against "Flush already accepted work on graceful exit" (`DNFGameCaptureDlg.cpp:16954`) |

`rooms_switch.cfg` (`MCRoomDirectory`) is a further configuration that holds: what
`rooms_mixed` checks, with two rooms to switch between.

Two limits were met that have no configuration: a restart between the departure of
a temporary device and its clean-up leaves the device until the retention sweep
(`DepartedTempRemoved` excuses restarts), and a key press is shown until
the next connection when the captain's thread ends a connection because it cannot
send (`KeyMappingLan`).

## 4. Proofs

Each component has a module of theorems, `<component>Proofs`, which holds for every
value of the constants and assumes nothing but the ASSUMEs of the component. Every
theorem `Spec => []P` comes from an inductive invariant; what makes each of them
necessary is said below. The steps are first reduced to what they do to a few
things (one queue, one row, one message), so that the invariant is shown once for
each of these and not once for each action.

**`UnifiedPoolProofs`.**

* `TypeCorrect`, one lemma for each group of actions.
* `NoMutualFollowHolds`: inductive together with `TypeOK`. Every step either shrinks
  `relation` (its rows keep their target or vanish, `RelationStep`) or is the one
  accepted `sync:realtime:start` (`Started`), whose check looks at rows it has just
  pruned; pruning before checking is what makes the step safe.
* `FollowedTargetOnlineHolds`: not inductive as it stands, since a suspended room
  handler (`Awaiting`) may put a device back into the pool later, and a
  disconnection may be queued behind it. `FollowInvariant` adds `AwaitingFirst`
  (only the head of a queue can be suspended) and `AwaitingServed` (the socket of
  a suspended handler is active, or the disconnection that took it is queued
  behind).
* `NoZombieConnectionHolds`: a connected socket that is not active has its set-up
  in the queue of its device.

`BannedOffline` is checked by `pool_serial` only, and says something of the
production services only: with services that suspend, a set-up admitted before a ban
activates its connection after it, since nothing in the code looks at the ban again.

**`RoomDirectoryProofs`**, from one inductive invariant `Inv` for any devices, rooms
and contents, suspending or synchronous services:

* `SnapshotInMemberRoomHolds`. `DirectoryOK` types the tables and says it of the
  stored rows; what makes it inductive is that `saveSnapshot` looks at the
  membership again, so an upload suspended before a switch stores nothing.
* `HearsOwnRoomHolds`. `NamespacesOK` adds what a switch under way relies on: it
  remembers the old room, which `restoreAdapterMembership` joins again, and it is
  in the new namespace before `joinRoom` runs. `HandlersOK` (`Carries`) says what
  a suspended handler carries. The connections in `stranded` are excepted: the
  adapter may throw while a move is taken back too, and only then does a
  connection not hear its room.
* `RevisionsToldIncreaseHolds`, an action property. `ToldOK`: nobody was told more
  than was announced; so a revision that is announced is newer to everybody.
* `LatestChangeToldHolds`, as long as no call throws (`~Faults`, as in its run: a
  fault between a change and its announcement loses the announcement). `TellsOK`:
  whoever changed a room and did not announce it yet still has it on its list.
  The rooms in `purged` are excepted, since the code announces the revision of an
  administrator's deletion to nobody.
* `PageIsCurrentHolds`, across every await of the comparison. `PagesOK`: the rows of
  a session whose revision is that of the room are the content of the room, and so
  are those of a comparison under way that will find its revision unchanged; but for
  rooms in `silent`, which changed under the same revision.
* `PagesInOrderHolds`: `ServesOK`, what was served of a session is a prefix of its
  rows in the order of the devices and ends at the cursor. `InOrder` is the one
  sequence of the devices that grows; that it exists is proved by taking a least
  counterexample.

**`TtsQuotaProofs`**, for any lengths, prices, budgets and concurrency:

* `OneCallPerClipHolds`, inductive with the type of `jobs`.
* `BudgetKeptWithoutStraysHolds`: strengthened by `MoneyOK`: the recorded spend of
  every day is within the cap, and outside the days that strayed it accounts for
  all the service may have charged. Together with `quota_midnight` this settles the
  comment on `reserve()`: the refund across midnight is the only way past the cap.
* `BonusNotCreatedHolds` and `NotUnderchargedHolds`: `QuotaOK` relates the accounts
  of a licence to sums over its calls in flight. The sums are folds over sets; that
  adding or removing one call changes them by its length is proved once, by a least
  counterexample on the cardinality.

**`CloudMatchClientProofs`.** One inductive invariant, `Inv`: every call that waits is
in exactly one of the queues, of the hands of the worker, of the acknowledgements
or of the results (`CallsApart`, `QueuesOnce`); the generation of the worker is never
newer than that of the window (`ControlOK`); and snapshots wait in the order of
their numbers (`SnapshotsOK`). From it `TypeCorrect`, `ReservationsAreExact`,
`ResultsHaveRoom`, `UploadsGoInOrder`, `NewestSnapshotIsKept`. None of
these is inductive alone: that a reservation is returned once needs that the call
is in one place, that a result has room needs that reservations are exact, and
that the snapshot given back after a failed transmission is not older than one that
was sent needs all three places a snapshot can be at. `PromiseKept` is the
refinement: `KeepsCalls`, shown for every action from `Inv`, says that each step
maps to one acceptance, one answer, one withdrawal, the voiding of all open calls,
or a stutter of `CloudRequests`. `RejoinsOnce` is an action property with an invariant
of its own (`TriedOK`): once a join was sent on a connection, the remembered one is
not due there, or a join of the window waits. The liveness of `CloudRequests` (`QueryEnds`) is model-checked only.

**`CloudUploadProofs`.** `TypeCorrect`; `NoKillPassedOffHolds` (`PushOK`: while the epoch
of a push stands, the match is the one that was received, to which events may have
been noted; a kill, of the recognition thread too, moves the epoch); `NumbersGrowHolds` (`NumbersOK`: server, wire and slot grow, and
nothing exceeds the saved number, which is why it has to be saved before the
upload); `CleanMeansStoredHolds`, which needs four more facts: the upload in flight
has the last number and whatever has this number is that upload (`FlightOK`), a
snapshot answered with success is stored or superseded by a later one
(`AnswersOK`), and a clean window has nothing under way (`CleanOK`).

**`CloudRoomSessionProofs`.** `TypeCorrect`, `SavedNameGrantedHolds`,
`ConfirmedIsMemberHolds`. The handlers are sets of outcomes, so the invariant is
stated of a desk, a server and the names it gave (`DeskOK`), and each function of the
window is shown to have good outcomes from a good desk. It says that names and
tokens come from the server (`Sound`, `Heard`), that a client without a token does
nothing but register (`Kinds`), that one leave is under way at most (`LeaveOnce`),
that a confirmed room is that of the client's own token, of a member or of one the
server removed by itself (`Linked`, `Kept`), and that no
answer to an abandoned leave can still reach a new join (`Joins`).

**`KeyMappingLanProofs`.** `TypeCorrect`; `KeysOnlyWhileShownHolds` (`ShownOK`);
`ProposalsOwedHolds` (`CreditOK`: the revisions the thread of the client has not offered
yet are paid for by changes of its own; what a proposal carries is another matter, see
`lan_echo`); and `ConvergedHolds`, whose invariant has these parts: a push is never newer than the
captain's match and equal to it at equal revisions (`ToldOK`); subscriptions are
numbered upwards and the last one the captain will read is the last one sent
(`NumbersOK`, `HeardOK`); what the captain pushed last to the present subscription was
heard or is on the wire (`PushedOK`); what was heard was taken over or is on its way
to the window (`TakenOK`), or was refused and is invalid if it is the latest
(`Refused`), behind the notice of the connection (`NoticeOK`), since the
window forgets the last revision when it notices a new one.

**`PlayerLibraryProofs`.** `TypeCorrect`, `NothingUnseenRemovedHolds`,
`ViewIsLibraryHolds`, `RememberedEvidenceStoredHolds`, `DeletedStaysDeletedHolds` and
`AcceptedEvidenceFlushedHolds`, from one invariant of the pipeline in which commands
go from the window to the worker and results come back. What may remove something
was sent into an empty pipeline and is the first thing in it (`FirstOK`), made from
the committed view, which is the database as long as nothing was answered
(`RemovalsOK`, `StoredOK`); hence a removal takes what its author saw. Evidence is in
the pipeline once (`MatchesOK`), and what is remembered of it stays in the library
until a removal succeeds, which forgets it (`DoneOK`). What is being removed, and what
is deleted, is in no command, result or evidence under way (`AskedOK`, `DeletedOK`);
the players of the match may keep it only after a restart that follows a reset
(`excluded`), in which case the save passes over it, and `players_config` only while
the window has yet to write it (`ConfigOK`). What an older copy of the match puts back
on show is no longer deleted (`mark`); `Older`, the type of these copies, is kept
apart from the rest. `Good` is stated of a disk, a store, a
window and two sets and not of the variables, so that a handler that edits, saves and
sends pending evidence is taken in that order, one lemma for each part.
`NothingUnseenRemoved` is an action property: `RemovalStep`.

No RECURSIVE operator is used anywhere, so that every module can be proved about.

Only model-checked: the liveness properties (`DepartedTempRemoved`,
`AbandonedRelationEnds`, `QueryEnds`, `UploadsEnd`, `JoiningEnds`), since fairness is
outside the prover's reach, and `BannedOffline`.

## 5. Not modelled, and why

* Parsing, validation schemas, HTML pages, wire formats: no state of their own.
* `sync_history`, audit tables: append-only, never read back by an operation.
* The cache of shared comparisons. Its key has the revision and time of receipt of
  each snapshot and not its content.
* The presence notifications of rooms (`scheduleRoomPresence`), rate limits, the
  licences and the public library of the server, attribution: see the plan.
* In the library of players: names that share an identity, their reversible merges,
  reviews and overlaps, cloud numbers with the revisions of the server, spelling,
  and the compatibility export. They transform one library into another inside a
  transaction of the worker; what the model keeps is how libraries travel.
* SQLite itself: a transaction is atomic and durable.
* Detection, OCR, drawing, capture, WebView: image processing and user interface.
* Vendored code (`third_party`, `json.hpp`).

By lines the program is mostly what cannot be modelled to any use: `json.hpp` is a
vendored library of 26 700 lines, and most of the 26 700 lines of
`DNFGameCaptureDlg.cpp` lay out windows, process images and match recognised
text. The models cover the parts of that file that keep protocol state (some
2 700 lines), half of the lines of `CloudMatchClient.cpp` and
`KeyMappingLanService.cpp` (their queues, threads and handlers; the rest parses,
encodes and carries bytes), the commands of `PlayerLibraryDatabase.cpp`, and the
TypeScript server's `socket.ts`, `rooms.ts`, `snapshots.ts`, `sync-relations.ts`,
`unified.ts` and `tts-generate.ts`.

The components and their status are in `PROJECT.json`.

## 6. Plan

Every property that holds in a run is proved but the liveness properties and
`BannedOffline`. If the
project grows: `LicenseServer` (licences, sessions, idempotent operations; at most
one device holds a valid session of a licence) with the client's lease under a
clock that is changed; `RoomPresence`, whose last notification is the truth;
`LibraryReview` with acyclic redirects; `RateLimit` against a reference definition;
`Attribution`; `MutualDeath` and `OcrHealth` with tick arithmetic modulo 2^32.
