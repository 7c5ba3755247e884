----------------------------- MODULE UnifiedPool -----------------------------
(***************************************************************************)
(* The broadcaster pool of the cloud match server: the connections of each *)
(* device, the FIFO queue that serialises the operations of one device,    *)
(* the pool (and legacy room) memberships, and the realtime "follow"       *)
(* relations between broadcasters, with heartbeat expiry, the 24 h         *)
(* retention sweep, the clean-up of temporary devices, the administrator's *)
(* interventions and a server restart.                                     *)
(*                                                                         *)
(* Source: cloud-match-server/src/socket.ts, sync-relations.ts, unified.ts,*)
(* rooms.ts, identity.ts, client-ban.ts, admin.ts, admin-data.ts.          *)
(*                                                                         *)
(* devices, memberships and realtime_sync are SQLite tables and survive a  *)
(* restart; activeSockets, deviceQueues and the clean-up timers are the    *)
(* memory of the process and do not.                                       *)
(***************************************************************************)
EXTENDS Naturals, Sequences, FiniteSets

CONSTANTS
    Devices,        \* device identifiers
    Temporary,      \* those whose identifier starts with dnf-tmp-
    Conns,          \* connection slots of one device
    Names,          \* broadcaster names, already NFC-normalised and trimmed
    Nil,            \* "no value"
    Ops,            \* the requests clients send in this instance
    StaleAfter,     \* 5 s without heartbeat, in clock ticks
    Retention,      \* 24 h since last_seen_at, in clock ticks
    MaxPending,     \* MAX_DEVICE_PENDING_OPERATIONS
    MaxQueue,       \* bound: operations queued, over all devices, before new
                    \* connections and requests wait
    MaxRestarts,    \* bound on server restarts
    AsyncServices,  \* TRUE: the injected services may suspend an operation
    InitFaults      \* the stages of the connection set-up that may throw

ASSUME DevicesAssumption == Nil \notin Devices /\ Temporary \subseteq Devices
ASSUME ConnsAssumption == Nil \notin Conns
ASSUME NamesAssumption == Nil \notin Names
ASSUME ClockAssumption == StaleAfter \in Nat \ {0} /\ Retention \in Nat \ {0}
ASSUME BoundAssumption == MaxPending \in Nat /\ MaxQueue \in Nat /\ MaxRestarts \in Nat
ASSUME ModeAssumption ==
    AsyncServices \in BOOLEAN /\ InitFaults \subseteq {"restore", "attribution"}

VARIABLES
    registered,  \* table devices: the rows that exist
    membership,  \* table memberships: device -> room and broadcaster name
    relation,    \* table realtime_sync: viewer -> target, age of the heartbeat
    idle,        \* ticks since devices.last_seen_at
    banned,      \* devices with an unexpired client ban
    open,        \* device -> its connected sockets
    active,      \* activeSockets
    queue,       \* deviceQueues
    timer,       \* temporaryCleanupTimers
    restarts,    \* number of restarts so far
    leftover     \* viewers whose row outlived the tear-down of its target:
                 \* read back after a restart, or kept by a failed set-up

vars == <<registered, membership, relation, idle, banned,
          open, active, queue, timer, restarts, leftover>>

-----------------------------------------------------------------------------
(* Data *)

Rooms == {"pool", "room"}
NoMembership == [room |-> "none", name |-> Nil]
Membership == [room : Rooms, name : Names] \cup {NoMembership}
NoRelation == [target |-> Nil, age |-> 0]
Relation == [target : Devices, age : 0..StaleAfter] \cup {NoRelation}

AllRequests ==
    [op : {"join", "rename", "room_rename"}, name : Names, to : {Nil}]
    \cup [op : {"room_join"}, name : Names, to : Rooms]
    \cup [op : {"start"}, name : {Nil}, to : Devices]
    \cup [op : {"room_leave", "heartbeat", "stop", "list"}, name : {Nil}, to : {Nil}]

Requests == {r \in AllRequests : r.op \in Ops}

\* The operations enqueueDeviceOperation receives.
Setup(c) == [kind |-> "init", conn |-> c, wasActive |-> FALSE, request |-> Nil]
Event(c, r) == [kind |-> "event", conn |-> c, wasActive |-> FALSE, request |-> r]
Awaiting(c, r) == [kind |-> "awaiting", conn |-> c, wasActive |-> FALSE, request |-> r]
Closed(c, w) == [kind |-> "closed", conn |-> c, wasActive |-> w, request |-> Nil]
Cleanup == [kind |-> "cleanup", conn |-> Nil, wasActive |-> FALSE, request |-> Nil]

Operation ==
    [kind : {"init"}, conn : Conns, wasActive : {FALSE}, request : {Nil}]
    \cup [kind : {"event", "awaiting"}, conn : Conns, wasActive : {FALSE},
          request : AllRequests]
    \cup [kind : {"closed"}, conn : Conns, wasActive : BOOLEAN, request : {Nil}]
    \cup {Cleanup}

TypeOK ==
    /\ registered \subseteq Devices
    /\ membership \in [Devices -> Membership]
    /\ relation \in [Devices -> Relation]
    /\ idle \in [Devices -> 0..Retention]
    /\ banned \subseteq Devices
    /\ open \in [Devices -> SUBSET Conns]
    /\ active \in [Devices -> Conns \cup {Nil}]
    /\ queue \in [Devices -> Seq(Operation)]
    /\ timer \subseteq Temporary
    /\ restarts \in 0..MaxRestarts
    /\ leftover \subseteq Devices

Pending(d) == {queue[d][i] : i \in 1..Len(queue[d])}
InPool(d) == membership[d].room = "pool"
Online(d) == active[d] # Nil

\* pruneExpiredBroadcasters: it looks at last_seen_at only.
Unexpired(m, since) ==
    [d \in Devices |-> IF m[d].room = "pool" /\ since[d] >= Retention
                       THEN NoMembership ELSE m[d]]

\* pruneStaleRealtimeSync.
Fresh(rel) ==
    [v \in Devices |-> IF rel[v].age >= StaleAfter THEN NoRelation ELSE rel[v]]

\* Variation: the rows of those who follow d are forgotten.
UnfollowedAsViewer(rel, d) ==
    [v \in Devices |-> IF v = d THEN NoRelation ELSE rel[v]]

\* Every relation of d, as viewer or as target, deleted.
Unfollowed(rel, d) ==
    [v \in Devices |-> IF v = d \/ rel[v].target = d THEN NoRelation ELSE rel[v]]

\* Variation: the relations are listed without being pruned.
PublishUnpruned(m, rel, since) ==
    /\ membership' = Unexpired(m, since)
    /\ relation' = rel

\* buildUnifiedDirectory, which every directory read and every
\* broadcasters:changed notification calls, prunes both tables.
Publish(m, rel, since) ==
    /\ membership' = Unexpired(m, since)
    /\ relation' = Fresh(rel)

\* isUnifiedBroadcasterNameTaken: only members that are online now count.
NameTaken(d, n) ==
    \E e \in Devices \ {d} : InPool(e) /\ Online(e) /\ membership[e].name = n

Init ==
    /\ registered = {}
    /\ membership = [d \in Devices |-> NoMembership]
    /\ relation = [d \in Devices |-> NoRelation]
    /\ idle = [d \in Devices |-> 0]
    /\ banned = {}
    /\ open = [d \in Devices |-> {}]
    /\ active = [d \in Devices |-> Nil]
    /\ queue = [d \in Devices |-> <<>>]
    /\ timer = {}
    /\ restarts = 0
    /\ leftover = {}

-----------------------------------------------------------------------------
(* What arrives from outside the queues: HTTP calls, socket events, timers. *)
(* The production services complete without leaving the microtask phase, so *)
(* nothing arrives while an operation is queued; an injected service that   *)
(* suspends (AsyncServices) lets anything arrive in between.                *)

Arrives == AsyncServices \/ \A d \in Devices : queue[d] = <<>>

\* The bound on what clients have in flight.
InBound == Cardinality({di \in Devices \X (1..MaxQueue) : di[2] <= Len(queue[di[1]])})
             < MaxQueue

\* POST /api/devices/register.
Register(d) ==
    /\ Arrives
    /\ d \notin registered
    /\ registered' = registered \cup {d}
    /\ idle' = [idle EXCEPT ![d] = 0]
    /\ UNCHANGED <<membership, relation, banned, open, active, queue, timer,
                   restarts, leftover>>

\* io.use admits the socket; the connection handler queues its set-up.
Connect(d, c) ==
    /\ Arrives /\ InBound
    /\ d \in registered \ banned
    /\ c \notin open[d]
    /\ \A p \in Pending(d) : p.conn # c
    /\ open' = [open EXCEPT ![d] = @ \cup {c}]
    /\ queue' = [queue EXCEPT ![d] = Append(@, Setup(c))]
    /\ UNCHANGED <<registered, membership, relation, idle, banned, active,
                   timer, restarts, leftover>>

\* A serialised event; past the limit it is answered rate_limited, unqueued.
Submit(d, c, r) ==
    /\ Arrives /\ InBound
    /\ c \in open[d]
    /\ Cardinality({i \in 1..Len(queue[d]) :
                      queue[d][i].request # Nil /\ queue[d][i].conn = c}) < MaxPending
    /\ queue' = [queue EXCEPT ![d] = Append(@, Event(c, r))]
    /\ UNCHANGED <<registered, membership, relation, idle, banned, open, active,
                   timer, restarts, leftover>>

\* The 'disconnect' listener: wasActive is decided at once, the rest queued.
CloseSocket(d, c) ==
    /\ open' = [open EXCEPT ![d] = @ \ {c}]
    /\ active' = [active EXCEPT ![d] = IF @ = c THEN Nil ELSE @]
    /\ queue' = [queue EXCEPT ![d] = Append(@, Closed(c, active[d] = c))]

\* The client goes away, or its ping times out.
Drop(d, c) ==
    /\ Arrives
    /\ c \in open[d]
    /\ CloseSocket(d, c)
    /\ UNCHANGED <<registered, membership, relation, idle, banned, timer,
                   restarts, leftover>>

\* The 2 s grace of a temporary device is over.
TimerFires(d) ==
    /\ Arrives
    /\ d \in timer
    /\ timer' = timer \ {d}
    /\ queue' = [queue EXCEPT ![d] = Append(@, Cleanup)]
    /\ UNCHANGED <<registered, membership, relation, idle, banned, open, active,
                   restarts, leftover>>

\* One second passes (for heartbeats) or one hour (for last_seen_at).
Tick ==
    /\ Arrives
    /\ idle' = [d \in Devices |-> IF d \in registered /\ idle[d] < Retention
                                  THEN idle[d] + 1 ELSE idle[d]]
    /\ relation' = [v \in Devices |->
                      IF relation[v] # NoRelation /\ relation[v].age < StaleAfter
                      THEN [relation[v] EXCEPT !.age = @ + 1] ELSE relation[v]]
    /\ UNCHANGED <<registered, membership, banned, open, active, queue, timer,
                   restarts, leftover>>

\* The one-second clean-up interval.
Sweep ==
    /\ Arrives
    /\ Publish(membership, relation, idle)
    /\ UNCHANGED <<registered, idle, banned, open, active, queue, timer,
                   restarts, leftover>>

-----------------------------------------------------------------------------
(* The operations of one device, run one after the other in queue order.   *)

Head1(d) == Head(queue[d])
Next1(d) == [queue EXCEPT ![d] = Tail(@)]

\* Variation: the newer connection leaves the older one connected.
ReplacedNone(d, c) == {}

\* The socket a newly active socket c disconnects.
Replaced(d, c) == {active[d]} \ {Nil, c}

\* Its 'disconnect' listener runs after the switch and does not see itself active.
ReplacedClosed(d, c) ==
    IF Replaced(d, c) = {} THEN <<>> ELSE <<Closed(active[d], FALSE)>>

\* The set-up of a connection: restore, touchLastSeen, become the active
\* socket, and only then disconnect the one it replaces.
RunInit(d) ==
    /\ queue[d] # <<>> /\ Head1(d).kind = "init"
    /\ LET c == Head1(d).conn IN
         \/ /\ c \notin open[d]
            /\ queue' = Next1(d)
            /\ idle' \in {idle, [idle EXCEPT ![d] = 0]}
            /\ UNCHANGED <<open, active, timer>>
         \/ /\ c \in open[d]
            /\ idle' = [idle EXCEPT ![d] = 0]
            /\ timer' = timer \ {d}
            /\ active' = [active EXCEPT ![d] = c]
            /\ open' = [open EXCEPT ![d] = @ \ Replaced(d, c)]
            /\ queue' = [queue EXCEPT ![d] = Tail(@) \o ReplacedClosed(d, c)]
    /\ UNCHANGED <<registered, membership, relation, banned, restarts, leftover>>

\* The set-up throws before the activation: the socket is disconnected.
RunInitUnrestored(d) ==
    /\ "restore" \in InitFaults
    /\ queue[d] # <<>> /\ Head1(d).kind = "init"
    /\ LET c == Head1(d).conn IN
         /\ c \in open[d]
         /\ open' = [open EXCEPT ![d] = @ \ {c}]
         /\ queue' = [queue EXCEPT ![d] = Append(Tail(@), Closed(c, FALSE))]
    /\ UNCHANGED <<registered, membership, relation, idle, banned, active, timer,
                   restarts, leftover>>

\* It throws after the activation, linking the restored member: the catch
\* deactivates the device before the 'disconnect' listener can see it active.
RunInitUnlinked(d) ==
    /\ "attribution" \in InitFaults
    /\ queue[d] # <<>> /\ Head1(d).kind = "init"
    /\ membership[d] # NoMembership
    /\ LET c == Head1(d).conn IN
         /\ c \in open[d]
         /\ open' = [open EXCEPT ![d] = (@ \ {c}) \ Replaced(d, c)]
         /\ queue' = [queue EXCEPT ![d] =
                         Tail(@) \o Append(ReplacedClosed(d, c), Closed(c, FALSE))]
    /\ idle' = [idle EXCEPT ![d] = 0]
    /\ timer' = timer \ {d}
    /\ active' = [active EXCEPT ![d] = Nil]
    /\ leftover' = leftover \cup {v \in Devices : relation[v].target = d}
    /\ UNCHANGED <<registered, membership, relation, banned, restarts>>

\* The handlers. Each is the whole effect of an accepted or refused request.
NoEffect == UNCHANGED <<membership, relation, leftover>>

BroadcasterJoin(d, n) ==
    IF NameTaken(d, n) \/ d \notin registered
      THEN NoEffect
      ELSE /\ Publish([membership EXCEPT ![d] = [room |-> "pool", name |-> n]],
                      relation, idle)
           /\ UNCHANGED leftover

BroadcasterRename(d, n) ==
    IF NameTaken(d, n) \/ ~InPool(d)
      THEN NoEffect
      ELSE /\ Publish([membership EXCEPT ![d].name = n], relation, idle)
           /\ UNCHANGED leftover

RoomJoin(d, n, room) ==
    IF d \notin registered
      THEN NoEffect
      ELSE /\ membership' = [membership EXCEPT ![d] = [room |-> room, name |-> n]]
           /\ UNCHANGED <<relation, leftover>>

RoomRename(d, n) ==
    IF membership[d] = NoMembership
      THEN NoEffect
      ELSE /\ membership' = [membership EXCEPT ![d].name = n]
           /\ UNCHANGED <<relation, leftover>>

RoomLeave(d) ==
    /\ membership' = [membership EXCEPT ![d] = NoMembership]
    /\ UNCHANGED <<relation, leftover>>

\* Variation: the check looks at the viewer's own row.
ReverseBlockedSwapped(rel, v, t) == rel[v].target = t

\* isReverseRealtimeSyncBlocked, after its pruning.
ReverseBlocked(rel, v, t) == rel[t].target = v

RealtimeStart(d, t) ==
    LET members == Unexpired(membership, idle)
        rows == Fresh(relation)
    IN  /\ membership' = members
        /\ IF members[d].room # "pool" \/ members[t].room # "pool" \/ ~Online(t)
             THEN UNCHANGED <<relation, leftover>>
           ELSE IF ReverseBlocked(rows, d, t) \/ t = d
             THEN relation' = rows /\ UNCHANGED leftover
           ELSE /\ relation' = [rows EXCEPT ![d] = [target |-> t, age |-> 0]]
                /\ leftover' = leftover \ {d}

RealtimeHeartbeat(d) ==
    /\ relation' = [relation EXCEPT ![d].age = 0]
    /\ UNCHANGED <<membership, leftover>>

\* stopRealtimeSync, and the listing that follows a row that was deleted.
StopViewer(d) ==
    relation' = IF relation[d] = NoRelation THEN relation
                ELSE Fresh([relation EXCEPT ![d] = NoRelation])

RealtimeStop(d) ==
    /\ StopViewer(d)
    /\ UNCHANGED <<membership, leftover>>

BroadcastersList ==
    /\ Publish(membership, relation, idle)
    /\ UNCHANGED leftover

Handle(d, r) ==
    \/ r.op = "join" /\ BroadcasterJoin(d, r.name)
    \/ r.op = "rename" /\ BroadcasterRename(d, r.name)
    \/ r.op = "room_join" /\ RoomJoin(d, r.name, r.to)
    \/ r.op = "room_rename" /\ RoomRename(d, r.name)
    \/ r.op = "room_leave" /\ RoomLeave(d)
    \/ r.op = "start" /\ RealtimeStart(d, r.to)
    \/ r.op = "heartbeat" /\ RealtimeHeartbeat(d)
    \/ r.op = "stop" /\ RealtimeStop(d)
    \/ r.op = "list" /\ BroadcastersList

\* A room handler of an asynchronous service passed its check of the active
\* socket and waits; its effect comes later, whatever happened meanwhile.
Suspend(d) ==
    /\ AsyncServices
    /\ queue[d] # <<>> /\ Head1(d).kind = "event"
    /\ Head1(d).request.op \in {"room_join", "room_rename", "room_leave"}
    /\ active[d] = Head1(d).conn
    /\ queue' = [queue EXCEPT ![d] = <<Awaiting(Head(@).conn, Head(@).request)>> \o Tail(@)]
    /\ UNCHANGED <<registered, membership, relation, idle, banned, open, active,
                   timer, restarts, leftover>>

\* Only the active socket of a device is served.
RunEvent(d) ==
    /\ queue[d] # <<>> /\ Head1(d).kind \in {"event", "awaiting"}
    /\ IF Head1(d).kind = "awaiting" \/ active[d] = Head1(d).conn
         THEN Handle(d, Head1(d).request)
         ELSE NoEffect
    /\ queue' = Next1(d)
    /\ UNCHANGED <<registered, idle, banned, open, active, timer, restarts>>

\* Variation: only pool members are scheduled.
ScheduledMembers(d) == IF d \in Temporary /\ InPool(d) THEN timer \cup {d} ELSE timer

\* scheduleTemporaryDeviceCleanup.
Scheduled(d) == IF d \in Temporary THEN timer \cup {d} ELSE timer

\* The queued half of a disconnection.
RunClosed(d) ==
    /\ queue[d] # <<>> /\ Head1(d).kind = "closed"
    /\ idle' = [idle EXCEPT ![d] = 0]
    /\ IF Head1(d).wasActive /\ InPool(d)
         THEN Publish(membership, Unfollowed(relation, d), idle')
         ELSE UNCHANGED <<membership, relation>>
    /\ timer' = IF Head1(d).wasActive THEN Scheduled(d) ELSE timer
    /\ queue' = Next1(d)
    /\ UNCHANGED <<registered, banned, open, active, restarts, leftover>>

\* The queued half of the temporary device's grace timer.
RunCleanup(d) ==
    /\ queue[d] # <<>> /\ Head1(d).kind = "cleanup"
    /\ IF Online(d)
         THEN UNCHANGED <<registered, membership, relation>>
         ELSE /\ registered' = registered \ {d}
              /\ LET members == [membership EXCEPT ![d] = NoMembership]
                     rows == Unfollowed(relation, d)
                 IN  IF d \in registered
                       THEN Publish(members, rows, idle)
                       ELSE /\ membership' = members
                            /\ relation' = IF rows = relation THEN rows ELSE Fresh(rows)
    /\ queue' = Next1(d)
    /\ UNCHANGED <<idle, banned, open, active, timer, restarts, leftover>>

Run(d) == RunInit(d) \/ RunInitUnrestored(d) \/ RunInitUnlinked(d) \/ Suspend(d)
          \/ RunEvent(d) \/ RunClosed(d) \/ RunCleanup(d)

-----------------------------------------------------------------------------
(* The administrator.                                                      *)

\* Variation: the call does not reach the socket.
DisconnectNothing(d) == UNCHANGED <<open, active, queue>>

\* disconnectDevice: the 'disconnect' listener runs inside the call.
DisconnectDevice(d) ==
    IF Online(d) THEN CloseSocket(d, active[d]) ELSE UNCHANGED <<open, active, queue>>

AdminDisconnect(d) ==
    /\ Arrives
    /\ Online(d)
    /\ DisconnectDevice(d)
    /\ Publish(membership, relation, idle)
    /\ UNCHANGED <<registered, idle, banned, timer, restarts, leftover>>

Ban(d) ==
    /\ Arrives
    /\ banned' = banned \cup {d}
    /\ DisconnectDevice(d)
    /\ Publish(membership, [relation EXCEPT ![d] = NoRelation], idle)
    /\ UNCHANGED <<registered, idle, timer, restarts, leftover>>

\* Lifted by the administrator, or run out (expires_at).
Unban(d) ==
    /\ Arrives
    /\ d \in banned
    /\ banned' = banned \ {d}
    /\ Publish(membership, relation, idle) \/ UNCHANGED <<membership, relation>>
    /\ UNCHANGED <<registered, idle, open, active, queue, timer, restarts, leftover>>

AdminStopRealtime(d) ==
    /\ Arrives
    /\ relation[d] # NoRelation
    /\ Publish(membership, [relation EXCEPT ![d] = NoRelation], idle)
    /\ UNCHANGED <<registered, idle, banned, open, active, queue, timer, restarts,
                   leftover>>

\* deleteBroadcasterLobbyData of every device in gone.
LobbyDataDeleted(gone) ==
    LET members == [d \in Devices |-> IF d \in gone THEN NoMembership ELSE membership[d]]
        rows == [v \in Devices |-> IF v \in gone \/ relation[v].target \in gone
                                   THEN NoRelation ELSE relation[v]]
    IN  Publish(members, rows, idle)

\* Refused (409) while the device is online.
AdminDeleteData(d) ==
    /\ Arrives
    /\ ~Online(d)
    /\ membership[d] # NoMembership
    /\ LobbyDataDeleted({d})
    /\ UNCHANGED <<registered, idle, banned, open, active, queue, timer, restarts,
                   leftover>>

\* Temporary members are disconnected first; then every member that is
\* temporary or offline loses its data.
AdminCleanupOffline ==
    LET kicked == {d \in Temporary : InPool(d) /\ Online(d)}
        gone == {d \in Devices : InPool(d) /\ (d \in Temporary \/ ~Online(d))}
    IN  /\ Arrives
        /\ gone # {}
        /\ open' = [d \in Devices |-> IF d \in kicked THEN open[d] \ {active[d]}
                                      ELSE open[d]]
        /\ active' = [d \in Devices |-> IF d \in kicked THEN Nil ELSE active[d]]
        /\ queue' = [d \in Devices |-> IF d \in kicked
                                       THEN Append(queue[d], Closed(active[d], TRUE))
                                       ELSE queue[d]]
        /\ LobbyDataDeleted(gone)
        /\ UNCHANGED <<registered, idle, banned, timer, restarts, leftover>>

-----------------------------------------------------------------------------
\* The process dies and is started again: only the database is left.
Restart ==
    /\ restarts < MaxRestarts
    /\ restarts' = restarts + 1
    /\ open' = [d \in Devices |-> {}]
    /\ active' = [d \in Devices |-> Nil]
    /\ queue' = [d \in Devices |-> <<>>]
    /\ timer' = {}
    /\ leftover' = {v \in Devices : relation[v] # NoRelation}
    /\ UNCHANGED <<registered, membership, relation, idle, banned>>

Administer(d) == AdminDisconnect(d) \/ Ban(d) \/ Unban(d) \/ AdminStopRealtime(d)
                 \/ AdminDeleteData(d)

Next ==
    \/ \E d \in Devices :
          \/ Register(d)
          \/ \E c \in Conns : Connect(d, c) \/ Drop(d, c)
          \/ \E c \in Conns, r \in Requests : Submit(d, c, r)
          \/ TimerFires(d)
          \/ Run(d)
          \/ "admin" \in Ops /\ Administer(d)
    \/ "admin" \in Ops /\ AdminCleanupOffline
    \/ Tick
    \/ Sweep
    \/ Restart

Spec == Init /\ [][Next]_vars

\* The event loop drains every queue and passes its timers phase in every
\* turn: a timer that is due between operations again and again does fire.
LiveSpec ==
    /\ Spec
    /\ \A d \in Devices : WF_vars(Run(d)) /\ SF_vars(TimerFires(d))
    /\ SF_vars(Tick) /\ SF_vars(Sweep)

-----------------------------------------------------------------------------
(* Safety *)

\* Two broadcasters never follow each other: the reverse check of
\* sync:realtime:start looks only at rows it has just purged of stale ones,
\* and no heartbeat can bring a purged row back.
NoMutualFollow ==
    \A v, t \in Devices : relation[v].target = t => relation[t].target # v

DisconnectionQueued(d) == \E c \in Conns : Closed(c, TRUE) \in Pending(d)

\* A pool member somebody follows is online, or its disconnection is queued and
\* will delete the row: leaving, rejoining, being replaced by a newer
\* connection, banned or cleaned up never strands a follower on an offline
\* source. Rows read back after a restart, or kept by a set-up that failed
\* half-way, are the exceptions the code does have.
FollowedTargetOnline ==
    \A v \in Devices \ leftover, t \in Devices :
        relation[v].target = t /\ InPool(t) => Online(t) \/ DisconnectionQueued(t)

\* Every connected socket is the device's active one or still waits for its
\* set-up, and the active one is connected: replacing a connection, failing a
\* set-up and kicking a device leave no socket that is connected and unserved.
NoZombieConnection ==
    \A d \in Devices :
        /\ \A c \in open[d] : c = active[d] \/ Setup(c) \in Pending(d)
        /\ active[d] \in open[d] \cup {Nil}

\* With the production services nothing can come between the arrival of an
\* event and the operation it queues, so that a banned device has no active connection.
BannedOffline == \A d \in banned : ~Online(d)

\* README-部署.md: no two members that are online have the same name.
OnlineNamesUnique ==
    \A d, e \in Devices :
        d # e /\ InPool(d) /\ InPool(e) /\ Online(d) /\ Online(e) =>
            membership[d].name # membership[e].name

\* The 24 h retention is for offline members: one that stays connected and
\* whose own queue does nothing stays in the pool.
OnlineMemberKept ==
    [][\A d \in Devices :
          InPool(d) /\ Online(d) /\ active'[d] = active[d] /\ queue'[d] = queue[d] =>
              membership'[d] = membership[d]]_vars

-----------------------------------------------------------------------------
(* Liveness *)

\* A temporary device whose active connection went away is deleted unless it
\* comes back, or the server is started anew: its timer is then forgotten.
DepartedTempRemoved ==
    \A d \in Temporary :
        DisconnectionQueued(d) ~> (d \notin registered \/ Online(d) \/ restarts > 0)

\* A relation whose viewer is gone ends: without heartbeats the sweep takes it,
\* after a restart as well.
AbandonedRelationEnds ==
    \A v \in Devices :
        (relation[v] # NoRelation /\ ~Online(v)) ~> (relation[v] = NoRelation \/ Online(v))

=============================================================================
