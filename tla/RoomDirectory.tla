---------------------------- MODULE RoomDirectory ----------------------------
(***************************************************************************)
(* The shared content of a room: who is in it, under which name and with   *)
(* which match snapshot; the revision that stamps this content, the        *)
(* room:changed notifications, the paged comparison that is valid for one  *)
(* revision, and the realtime push of snapshots to followers.              *)
(*                                                                         *)
(* Source: cloud-match-server/src/socket.ts, rooms.ts, snapshots.ts,       *)
(* unified.ts, sync-relations.ts.                                          *)
(*                                                                         *)
(* A handler awaits its services: op[d] is the operation of device d that  *)
(* is suspended, and one device runs one operation at a time (its queue,   *)
(* see UnifiedPool, where the connections themselves are modelled).        *)
(***************************************************************************)
EXTENDS Integers, FiniteSets, SequencesExt

CONSTANTS
    Devices,        \* device identifiers, ordered like numbers
    Temporary,      \* the temporary ones among them
    Legacy,         \* the seeded rooms
    Pool,           \* the room of the unified pool, created later
    Names,          \* broadcaster names
    Contents,       \* what a snapshot shows
    Nil,            \* "no value"
    Ops,            \* the requests clients send in this instance
    PageSizes,      \* the limits of comparison requests
    MaxRevision,    \* bound on the revision of a room
    MaxClientRevision,  \* bound on the revisions clients give their snapshots
    AsyncServices,  \* TRUE: an injected service may suspend a handler
    Faults          \* TRUE: an adapter call or the persistence may throw

ASSUME DevicesAssumption == Devices \subseteq Nat \ {0} /\ IsFiniteSet(Devices)
ASSUME TemporaryAssumption == Temporary \subseteq Devices
ASSUME RoomsAssumption == Pool \notin Legacy /\ Nil \notin Legacy \cup {Pool}
ASSUME ValuesAssumption == Nil \notin Names \cup Devices \cup Contents
ASSUME PagesAssumption == PageSizes \subseteq Nat \ {0}
ASSUME LimitsAssumption == MaxRevision \in Nat /\ MaxClientRevision \in Nat

VARIABLES
    member,     \* table memberships
    revision,   \* rooms.revision
    snapshot,   \* table snapshots
    announced,  \* lastAnnouncedDataRevision
    connected,  \* devices with an active socket
    closing,    \* devices whose disconnection is still queued
    joined,     \* the namespaces the active socket is in
    seen,       \* the last room:changed each connection was told, per room
    op,         \* the handler of the device that is under way
    session,    \* comparisonSession of the connection
    relation,   \* table realtime_sync: viewer -> target
    copy,       \* the last sync:realtime_snapshot a viewer received
    \* Histories, which no action reads:
    silent,     \* rooms that changed without a new revision while they were compared
    purged,     \* the rooms an administrator took data of a device out of
    stranded    \* connections whose namespace could not be restored

dirVars == <<member, revision, snapshot, silent, purged>>
toldVars == <<announced, seen>>
connVars == <<connected, closing, joined, stranded>>
pushVars == <<relation, copy>>
vars == <<dirVars, toldVars, connVars, op, session, pushVars>>

-----------------------------------------------------------------------------
(* Data *)

Rooms == Legacy \cup {Pool}
Out == [room |-> Nil, name |-> Nil]
NoSnapshot == [room |-> Nil, rev |-> 0, content |-> Nil]
NoCopy == [source |-> Nil, rev |-> 0, content |-> Nil]
NoSession == [room |-> Nil, rev |-> 0, rows |-> {}, served |-> <<>>, cursor |-> Nil]
Idle == [stage |-> "idle"]

Snapshots == [room : Rooms, rev : 1..MaxClientRevision, content : Contents]
             \cup {NoSnapshot}

TypeOK ==
    /\ member \in [Devices -> [room : Rooms, name : Names] \cup {Out}]
    /\ revision \in [Rooms -> 0..MaxRevision]
    /\ snapshot \in [Devices -> Snapshots]
    /\ announced \in [Legacy -> -1..MaxRevision]
    /\ connected \subseteq Devices /\ closing \subseteq Devices \ connected
    /\ joined \in [Devices -> SUBSET Legacy]
    /\ seen \in [Devices -> [Legacy -> -1..MaxRevision]]
    /\ \A d \in Devices : relation[d] \in Devices \cup {Nil}
    /\ \A d \in Devices : session[d] # NoSession =>
          session[d].room \in Rooms /\ session[d].rev \in 0..MaxRevision
    /\ \A d \in Devices : copy[d] # NoCopy => copy[d].source \in Devices \ {d}
    /\ silent \subseteq Rooms /\ purged \subseteq Rooms /\ stranded \subseteq Devices

\* What a comparison shows of a room: a row for each member.
Row(d) == [device |-> d, name |-> member[d].name,
           rev |-> snapshot[d].rev, content |-> snapshot[d].content]
Content(r) == {Row(d) : d \in {e \in Devices : member[e].room = r}}

Quiet == AsyncServices \/ \A d \in Devices : op[d] = Idle

\* A serialised request of d may start, leaving room for two more revisions.
Ready(d) ==
    /\ Quiet
    /\ d \in connected
    /\ op[d] = Idle
    /\ \A r \in Rooms : revision[r] + Cardinality({e \in Devices : op[e] # Idle})
                          < MaxRevision

Init ==
    /\ member = [d \in Devices |-> Out]
    /\ revision = [r \in Rooms |-> 0]
    /\ snapshot = [d \in Devices |-> NoSnapshot]
    /\ announced = [r \in Legacy |-> -1]
    /\ connected = {} /\ closing = {}
    /\ joined = [d \in Devices |-> {}]
    /\ seen = [d \in Devices |-> [r \in Legacy |-> -1]]
    /\ op = [d \in Devices |-> Idle]
    /\ session = [d \in Devices |-> NoSession]
    /\ relation = [d \in Devices |-> Nil]
    /\ copy = [d \in Devices |-> NoCopy]
    /\ silent = {} /\ purged = {} /\ stranded = {}

-----------------------------------------------------------------------------
(* Connections *)

\* The set-up restores the namespace of the stored membership; the client then
\* asks for the state of the room.
Connect(d) ==
    /\ Quiet
    /\ d \notin connected \cup closing
    /\ op[d] = Idle
    /\ connected' = connected \cup {d}
    /\ joined' = [joined EXCEPT ![d] = {member[d].room} \cap Legacy]
    /\ seen' = [seen EXCEPT ![d] = announced]
    /\ UNCHANGED <<dirVars, announced, closing, stranded, op, session, pushVars>>

\* The socket is gone at once, the rest of the disconnection waits its turn.
Disconnect(d) ==
    /\ Quiet
    /\ d \in connected
    /\ connected' = connected \ {d}
    /\ closing' = closing \cup {d}
    /\ joined' = [joined EXCEPT ![d] = {}]
    /\ session' = [session EXCEPT ![d] = NoSession]
    /\ stranded' = stranded \ {d}
    /\ UNCHANGED <<dirVars, toldVars, op, pushVars>>

\* The relations without those of d.
Unrelated(d) == [v \in Devices |-> IF v = d \/ relation[v] = d THEN Nil ELSE relation[v]]

Close(d) ==
    /\ d \in closing
    /\ op[d] = Idle
    /\ closing' = closing \ {d}
    /\ relation' = IF member[d].room = Pool THEN Unrelated(d) ELSE relation
    /\ UNCHANGED <<dirVars, toldVars, connected, joined, stranded, op, session, copy>>

-----------------------------------------------------------------------------
(* Notifications *)

\* Variation: an older revision is announced after a newer one.
NewerAlways(r, rev) == TRUE

\* announceRoomNotification; the pool's room is not among the announced ones.
Newer(r, rev) == rev > announced[r]

\* emitRoomChanged: to the namespace, and to the socket of the operation.
Announce(d, r, rev) ==
    IF r \notin Legacy
      THEN UNCHANGED toldVars
    ELSE IF ~Newer(r, rev)
      THEN UNCHANGED toldVars
    ELSE /\ announced' = [announced EXCEPT ![r] = rev]
         /\ seen' = [e \in Devices |->
                       IF r \in joined[e] \/ (e = d /\ d \in connected)
                         THEN [seen[e] EXCEPT ![r] = rev] ELSE seen[e]]

\* getRoomRevision is awaited for each room to announce, then announced.
Announcing(rooms) ==
    IF rooms = <<>> THEN Idle ELSE [stage |-> "revision", rooms |-> rooms]

ReadRevision(d) ==
    /\ op[d].stage = "revision"
    /\ op' = [op EXCEPT ![d] = [stage |-> "announce", rooms |-> op[d].rooms,
                                rev |-> revision[Head(op[d].rooms)]]]
    /\ UNCHANGED <<dirVars, toldVars, connVars, session, pushVars>>

AnnounceRevision(d) ==
    /\ op[d].stage = "announce"
    /\ Announce(d, Head(op[d].rooms), op[d].rev)
    /\ op' = [op EXCEPT ![d] = Announcing(Tail(op[d].rooms))]
    /\ UNCHANGED <<dirVars, connVars, session, pushVars>>

-----------------------------------------------------------------------------
(* Joining, switching, renaming and leaving a room                         *)

Bumped(rooms) == [r \in Rooms |-> IF r \in rooms THEN revision[r] + 1 ELSE revision[r]]

\* The rooms of comparisons that are under way or served page by page.
Compared == {r \in Rooms : \E e \in Devices :
               \/ session[e].room = r
               \/ op[e].stage \in {"members", "snapshots", "check", "checked"} /\ op[e].room = r}

\* The content of these rooms changes with a new revision, or without one.
Bump(rooms) == revision' = Bumped(rooms) /\ silent' = silent \ rooms
Hush(rooms) == silent' = silent \cup (rooms \cap Compared) /\ UNCHANGED revision

\* room:join (to a room) and room:leave (to = Nil).
Move(d, to, n) ==
    /\ Ready(d)
    /\ op' = [op EXCEPT ![d] = [stage |-> "adapter", from |-> member[d].room,
                                as |-> member[d].name, to |-> to, name |-> n]]
    /\ UNCHANGED <<dirVars, toldVars, connVars, session, pushVars>>

Joined(d) == joined[d] \ {op[d].from}

Arrived(d) == Joined(d) \cup ({op[d].to} \cap Legacy)

\* setAdapterMembership. A socket that went away is in no namespace.
MoveAdapter(d) ==
    /\ op[d].stage = "adapter"
    /\ joined' = [joined EXCEPT ![d] = IF d \in connected THEN Arrived(d) ELSE {}]
    /\ stranded' = stranded \ {d}
    /\ op' = [op EXCEPT ![d].stage = "persist"]
    /\ UNCHANGED <<dirVars, toldVars, connected, closing, session, pushVars>>

\* One of its calls throws, before or after its effect.
MoveAdapterFails(d) ==
    /\ Faults
    /\ op[d].stage = "adapter"
    /\ \E part \in {joined[d], Arrived(d),
                    IF op[d].from = op[d].to THEN joined[d] ELSE Joined(d)} :
          joined' = [joined EXCEPT ![d] = IF d \in connected THEN part ELSE {}]
    /\ op' = [op EXCEPT ![d].stage = "restore"]
    /\ UNCHANGED <<dirVars, toldVars, connected, closing, stranded, session, pushVars>>

\* The rooms whose content a move changes.
BumpedByMove(from, to, renamed) ==
    IF from = to /\ ~renamed THEN {} ELSE {from, to} \ {Nil}

\* The rooms to be told of a move, the old one first.
Listed(r) == IF r = Nil THEN <<>> ELSE <<r>>

\* Variation: only the new room is told.
ToldOfMoveTo(from, to, renamed) ==
    IF from = to /\ ~renamed THEN <<>> ELSE Listed(to)

ToldOfMove(from, to, renamed) ==
    IF from # to THEN Listed(from) \o Listed(to)
    ELSE IF renamed THEN Listed(to) ELSE <<>>

\* joinRoom, leaveRoom: one transaction.
PersistMove(d) ==
    /\ op[d].stage = "persist"
    /\ LET from == member[d].room
           to == op[d].to
           renamed == member[d].name # op[d].name
       IN  /\ member' = [member EXCEPT ![d] = IF to = Nil THEN Out
                                              ELSE [room |-> to, name |-> op[d].name]]
           /\ snapshot' = [snapshot EXCEPT ![d] =
                              IF from \in {to, Nil} THEN @ ELSE NoSnapshot]
           /\ Bump(BumpedByMove(from, to, renamed /\ to # Nil))
           /\ op' = [op EXCEPT ![d] =
                Announcing(ToldOfMove(op[d].from, to, op[d].as # op[d].name))]
    /\ UNCHANGED <<purged, toldVars, connVars, session, pushVars>>

PersistMoveFails(d) ==
    /\ Faults
    /\ op[d].stage = "persist"
    /\ op' = [op EXCEPT ![d].stage = "restore"]
    /\ UNCHANGED <<dirVars, toldVars, connVars, session, pushVars>>

\* Variation: only the new namespace is taken back.
RestoredTo(d) == joined[d] \ {op[d].to}

\* restoreAdapterMembership.
Restored(d) ==
    (IF op[d].to # op[d].from THEN joined[d] \ {op[d].to} ELSE joined[d])
    \cup ({op[d].from} \cap Legacy)

RestoreAdapter(d) ==
    /\ op[d].stage = "restore"
    /\ joined' = [joined EXCEPT ![d] = IF d \in connected THEN Restored(d) ELSE {}]
    /\ stranded' = stranded \ {d}
    /\ op' = [op EXCEPT ![d] = Idle]
    /\ UNCHANGED <<dirVars, toldVars, connected, closing, session, pushVars>>

\* One of its calls throws as well, before or after its effect, and the error
\* of this call is what the client hears.
RestoreAdapterFails(d) ==
    /\ Faults
    /\ op[d].stage = "restore"
    /\ \E part \in {joined[d], joined[d] \cap Restored(d), Restored(d)} :
          joined' = [joined EXCEPT ![d] = IF d \in connected THEN part ELSE {}]
    /\ stranded' = IF d \in connected THEN stranded \cup {d} ELSE stranded
    /\ op' = [op EXCEPT ![d] = Idle]
    /\ UNCHANGED <<dirVars, toldVars, connected, closing, session, pushVars>>

\* room:rename.
Rename(d, n) ==
    /\ Ready(d)
    /\ member[d] # Out /\ member[d].name # n
    /\ member' = [member EXCEPT ![d].name = n]
    /\ Bump({member[d].room})
    /\ op' = [op EXCEPT ![d] = Announcing(<<member[d].room>>)]
    /\ UNCHANGED <<snapshot, purged, toldVars, connVars, session, pushVars>>

\* broadcaster:join: a snapshot of a legacy room comes along. No revision is
\* bumped and nobody in the old room is told.
PoolJoin(d, n) ==
    /\ Ready(d)
    /\ \A e \in Devices \ {d} :
          member[e].room = Pool /\ e \in connected => member[e].name # n
    /\ member' = [member EXCEPT ![d] = [room |-> Pool, name |-> n]]
    /\ snapshot' = [snapshot EXCEPT ![d] =
                       IF @ # NoSnapshot /\ member[d].room \in Legacy
                         THEN [@ EXCEPT !.room = Pool] ELSE @]
    /\ Hush({member[d].room, Pool})
    /\ UNCHANGED <<purged, toldVars, connVars, op, session, pushVars>>

\* The device is in no room any more.
Leaves(d) ==
    /\ member' = [member EXCEPT ![d] = Out]
    /\ snapshot' = [snapshot EXCEPT ![d] = NoSnapshot]

\* pruneExpiredBroadcasters takes the device out of the pool.
Expire(d) ==
    /\ Quiet
    /\ member[d].room = Pool
    /\ Leaves(d) /\ Hush({Pool})
    /\ UNCHANGED <<purged, toldVars, connVars, op, session, pushVars>>

\* deleteTemporaryCloudDevice, behind the operations of the device: its row goes,
\* and what refers to it, under the present revision of its room.
RemoveTemporary(d) ==
    /\ Quiet
    /\ d \in Temporary \ connected /\ op[d] = Idle
    /\ member[d] # Out
    /\ Leaves(d) /\ Hush({member[d].room})
    /\ relation' = Unrelated(d)
    /\ UNCHANGED <<purged, toldVars, connVars, op, session, copy>>

\* deleteBroadcasterLobbyData, of a device without a connection, whatever of it
\* is still under way: nobody in the room is told the new revision.
AdminDelete(d) ==
    /\ Quiet
    /\ d \notin connected /\ member[d] # Out
    /\ \A r \in Rooms : revision[r] + Cardinality({e \in Devices : op[e] # Idle})
                          < MaxRevision
    /\ Leaves(d) /\ Bump({member[d].room})
    /\ purged' = purged \cup {member[d].room}
    /\ relation' = Unrelated(d)
    /\ UNCHANGED <<toldVars, connVars, op, session, copy>>

-----------------------------------------------------------------------------
(* Snapshots *)

\* snapshot:upload reads the membership, ...
Upload(d, rev, content) ==
    /\ Ready(d)
    /\ member[d] # Out
    /\ op' = [op EXCEPT ![d] = [stage |-> "upload", room |-> member[d].room,
                                rev |-> rev, content |-> content]]
    /\ UNCHANGED <<dirVars, toldVars, connVars, session, pushVars>>

\* Variation: the membership is not looked at again.
AcceptsAnyRoom(d, r, rev, content) ==
    rev > snapshot[d].rev /\ content # snapshot[d].content

\* saveSnapshot: no_membership, room_mismatch, stale_revision, duplicate_snapshot.
Accepts(d, r, rev, content) ==
    member[d].room = r /\ rev > snapshot[d].rev /\ content # snapshot[d].content

\* ... saves and bumps in one transaction, and announces the new revision.
SaveSnapshot(d) ==
    /\ op[d].stage = "upload"
    /\ LET r == op[d].room IN
       IF Accepts(d, r, op[d].rev, op[d].content)
         THEN /\ snapshot' = [snapshot EXCEPT ![d] =
                   [room |-> r, rev |-> op[d].rev, content |-> op[d].content]]
              /\ Bump({r})
              /\ Announce(d, r, revision'[r])
              /\ op' = [op EXCEPT ![d] = IF r = Pool THEN [stage |-> "stored"] ELSE Idle]
         ELSE /\ UNCHANGED <<snapshot, revision, silent, toldVars>>
              /\ op' = [op EXCEPT ![d] = Idle]
    /\ UNCHANGED <<member, purged, connVars, session, pushVars>>

Copied(t) == IF snapshot[t] = NoSnapshot THEN NoCopy
             ELSE [source |-> t, rev |-> snapshot[t].rev, content |-> snapshot[t].content]

\* An accepted upload to the pool reads the snapshot back and pushes it.
ReadStored(d) ==
    /\ op[d].stage = "stored"
    /\ op' = [op EXCEPT ![d] = [stage |-> "push", copy |-> Copied(d)]]
    /\ UNCHANGED <<dirVars, toldVars, connVars, session, pushVars>>

Pushed(d) == {v \in connected : relation[v] = d}

Push(d) ==
    /\ op[d].stage = "push"
    /\ copy' = [v \in Devices |-> IF v \in Pushed(d) /\ op[d].copy # NoCopy
                                  THEN op[d].copy ELSE copy[v]]
    /\ op' = [op EXCEPT ![d] = Idle]
    /\ UNCHANGED <<dirVars, toldVars, connVars, session, relation>>

\* sync:realtime:start, which also sends the snapshot there is.
Follow(d, t) ==
    /\ Ready(d)
    /\ d # t /\ relation[t] # d
    /\ member[d].room = Pool /\ member[t].room = Pool /\ t \in connected
    /\ relation' = [relation EXCEPT ![d] = t]
    /\ op' = [op EXCEPT ![d] = [stage |-> "initial", target |-> t]]
    /\ UNCHANGED <<dirVars, toldVars, connVars, session, copy>>

ReadInitial(d) ==
    /\ op[d].stage = "initial"
    /\ op' = [op EXCEPT ![d] = [stage |-> "send", copy |-> Copied(op[d].target)]]
    /\ UNCHANGED <<dirVars, toldVars, connVars, session, pushVars>>

SendInitial(d) ==
    /\ op[d].stage = "send"
    /\ copy' = [copy EXCEPT ![d] = IF op[d].copy # NoCopy /\ d \in connected
                                     THEN op[d].copy ELSE @]
    /\ op' = [op EXCEPT ![d] = Idle]
    /\ UNCHANGED <<dirVars, toldVars, connVars, session, relation>>

Unfollow(d) ==
    /\ Ready(d)
    /\ relation[d] # Nil
    /\ relation' = [relation EXCEPT ![d] = Nil]
    /\ UNCHANGED <<dirVars, toldVars, connVars, op, session, copy>>

-----------------------------------------------------------------------------
(* The comparison of a room                                                *)

\* The devices of some rows in their order.
InOrder(rows) ==
    LET S == {w.device : w \in rows}
    IN  CHOOSE f \in [1..Cardinality(S) -> S] :
           \A i, j \in 1..Cardinality(S) : i < j => f[i] < f[j]

\* Variation: the last row is taken for served when one is left.
MoreLeftTwo(end, total) == end + 1 < total

MoreLeft(end, total) == end < total

\* The next page of at most limit rows, after the cursor.
Served(s, limit) ==
    LET all == InOrder(s.rows)
        start == IF s.cursor = Nil THEN 0
                 ELSE Cardinality({i \in 1..Len(all) : all[i] <= s.cursor})
        page == SubSeq(all, start + 1, IF start + limit < Len(all) THEN start + limit
                                       ELSE Len(all))
        more == MoreLeft(start + Len(page), Len(all)) /\ page # <<>>
    IN  [s EXCEPT !.served = IF s.cursor = Nil THEN page ELSE @ \o page,
                  !.cursor = IF more THEN Last(page) ELSE Nil]

\* room:comparison without a token reads the membership and makes two attempts,
\* each with awaited reads of the revision, of the members, of their snapshots
\* and of the revision again.
Compare(d) ==
    /\ Ready(d)
    /\ member[d] # Out
    /\ op' = [op EXCEPT ![d] = [stage |-> "attempt", attempt |-> 1,
                                room |-> member[d].room]]
    /\ UNCHANGED <<dirVars, toldVars, connVars, session, pushVars>>

Attempt(d) ==
    /\ op[d].stage = "attempt"
    /\ session' = [session EXCEPT ![d] = NoSession]
    /\ op' = [op EXCEPT ![d] = [stage |-> "members", attempt |-> op[d].attempt,
                                room |-> op[d].room, rev |-> revision[op[d].room]]]
    /\ UNCHANGED <<dirVars, toldVars, connVars, pushVars>>

CompareMembers(d) ==
    /\ op[d].stage = "members"
    /\ op' = [op EXCEPT ![d] =
          [stage |-> "snapshots", attempt |-> op[d].attempt, room |-> op[d].room,
           rev |-> op[d].rev,
           listed |-> {<<e, member[e].name>> :
                         e \in {x \in Devices : member[x].room = op[d].room}}]]
    /\ UNCHANGED <<dirVars, toldVars, connVars, session, pushVars>>

\* getRoomSnapshots joins the snapshots with the memberships of that moment.
CompareSnapshots(d) ==
    /\ op[d].stage = "snapshots"
    /\ LET row(m) ==
             LET shown == IF snapshot[m[1]].room = op[d].room /\ member[m[1]].room = op[d].room
                          THEN snapshot[m[1]] ELSE NoSnapshot
             IN  [device |-> m[1], name |-> m[2], rev |-> shown.rev,
                  content |-> shown.content]
       IN  op' = [op EXCEPT ![d] =
             [stage |-> "check", attempt |-> op[d].attempt, room |-> op[d].room,
              rev |-> op[d].rev, rows |-> {row(m) : m \in op[d].listed}]]
    /\ UNCHANGED <<dirVars, toldVars, connVars, session, pushVars>>

\* The revision is read again, and used when the await is over; shown is what
\* the room showed at this moment (history), or Nil if it changed without a
\* new revision.
Reread(r) == [after |-> revision[r], shown |-> IF r \in silent THEN Nil ELSE Content(r)]

CompareReread(d) ==
    /\ op[d].stage = "check"
    /\ op' = [op EXCEPT ![d] =
          [stage |-> "checked", attempt |-> op[d].attempt, room |-> op[d].room,
           rev |-> op[d].rev, rows |-> op[d].rows, last |-> Reread(op[d].room)]]
    /\ UNCHANGED <<dirVars, toldVars, connVars, session, pushVars>>

\* Variation: the revision that was read again is not looked at.
StillAlways(last, rev) == TRUE

StillAt(last, rev) == last.after = rev

CompareAnswer(d, limit) ==
    /\ op[d].stage = "checked"
    /\ IF StillAt(op[d].last, op[d].rev)
         THEN /\ session' = [session EXCEPT ![d] =
                    IF d \in connected
                      THEN Served([room |-> op[d].room, rev |-> op[d].rev,
                                   rows |-> op[d].rows, served |-> <<>>,
                                   cursor |-> Nil], limit)
                      ELSE NoSession]
              /\ op' = [op EXCEPT ![d] = Idle]
         ELSE /\ op' = [op EXCEPT ![d] =
                          IF op[d].attempt = 1
                            THEN [stage |-> "attempt", attempt |-> 2, room |-> op[d].room]
                            ELSE Idle]
              /\ UNCHANGED session
    /\ UNCHANGED <<dirVars, toldVars, connVars, pushVars>>

\* With the token and the cursor of the last answer: the next page, unless the
\* room is another one by now, the token has expired, or the revision, which is
\* awaited again, is another one.
NextPage(d) ==
    /\ Ready(d)
    /\ session[d] # NoSession /\ member[d] # Out
    /\ op' = [op EXCEPT ![d] = [stage |-> "token", room |-> member[d].room]]
    /\ UNCHANGED <<dirVars, toldVars, connVars, session, pushVars>>

PageReread(d, expired) ==
    /\ op[d].stage = "token"
    /\ IF session[d] # NoSession /\ session[d].room = op[d].room /\ ~expired
         THEN /\ op' = [op EXCEPT ![d] = [stage |-> "page", last |-> Reread(op[d].room)]]
              /\ UNCHANGED session
         ELSE /\ op' = [op EXCEPT ![d] = Idle]
              /\ session' = [session EXCEPT ![d] = NoSession]
    /\ UNCHANGED <<dirVars, toldVars, connVars, pushVars>>

ServePage(d, limit) ==
    /\ op[d].stage = "page"
    /\ session' = [session EXCEPT ![d] =
          IF session[d] # NoSession /\ StillAt(op[d].last, session[d].rev)
            THEN Served(@, limit) ELSE NoSession]
    /\ op' = [op EXCEPT ![d] = Idle]
    /\ UNCHANGED <<dirVars, toldVars, connVars, pushVars>>

-----------------------------------------------------------------------------
Step(d) ==
    \/ MoveAdapter(d) \/ MoveAdapterFails(d) \/ PersistMove(d) \/ PersistMoveFails(d)
    \/ RestoreAdapter(d) \/ RestoreAdapterFails(d)
    \/ ReadRevision(d) \/ AnnounceRevision(d)
    \/ SaveSnapshot(d) \/ ReadStored(d) \/ Push(d) \/ ReadInitial(d) \/ SendInitial(d)
    \/ Attempt(d) \/ CompareMembers(d) \/ CompareSnapshots(d) \/ CompareReread(d)
    \/ \E expired \in BOOLEAN : PageReread(d, expired)
    \/ \E limit \in PageSizes : CompareAnswer(d, limit) \/ ServePage(d, limit)

Next ==
    \E d \in Devices :
       \/ Connect(d) \/ Disconnect(d) \/ Close(d) \/ Step(d)
       \/ "move" \in Ops /\ \E n \in Names, to \in Legacy : Move(d, to, n)
       \/ "leave" \in Ops /\ Move(d, Nil, Nil)
       \/ "rename" \in Ops /\ \E n \in Names : Rename(d, n)
       \/ "pool" \in Ops /\ \E n \in Names : PoolJoin(d, n)
       \/ "expire" \in Ops /\ Expire(d)
       \/ "delete" \in Ops /\ AdminDelete(d)
       \/ RemoveTemporary(d)
       \/ "upload" \in Ops /\ \E rev \in 1..MaxClientRevision, c \in Contents :
                                 Upload(d, rev, c)
       \/ "follow" \in Ops /\ (Unfollow(d) \/ \E t \in Devices : Follow(d, t))
       \/ "compare" \in Ops /\ (Compare(d) \/ NextPage(d))

Spec == Init /\ [][Next]_vars

-----------------------------------------------------------------------------
(* Properties *)

\* A stored snapshot is of the room its device is in: switching, leaving,
\* expiring and an upload that was under way meanwhile leave none behind.
SnapshotInMemberRoom ==
    \A d \in Devices : snapshot[d] # NoSnapshot => snapshot[d].room = member[d].room

\* A page of a comparison shows one state of the room: the one it had when its
\* revision was read last, within the same request.  What others change while
\* the comparison is computed leads to another attempt, what they change between
\* pages to a refusal.  Two changes raise no revision and are not noticed: a
\* device joins or leaves the pool, and a temporary device is removed.
PageIsCurrent ==
    [][\A d \in Devices :
          session'[d] # session[d] /\ session'[d] # NoSession =>
              op[d].last.shown \in {Nil, session'[d].rows}]_vars

\* The pages of a comparison follow each other in the order of the devices,
\* with nothing left out: what was served is everything up to the cursor.
PagesInOrder ==
    \A d \in Devices :
        session[d] # NoSession =>
            LET all == InOrder(session[d].rows) IN
            /\ IsPrefix(session[d].served, all)
            /\ IF session[d].cursor = Nil THEN session[d].served = all
               ELSE Last(session[d].served) = session[d].cursor

\* A connection is never told an older revision of a room after a newer one,
\* however long a handler waited for the revision it announces.
RevisionsToldIncrease ==
    [][\A d \in Devices, r \in Legacy : seen'[d][r] >= seen[d][r]]_vars

\* When nothing is under way, the latest revision of every room has been
\* announced, and every connected member of the room was told it; but for rooms
\* an administrator deleted data of, whose new revision is not announced
\* (admin.ts:400 emits broadcasters:changed only).
LatestChangeTold ==
    (\A d \in Devices : op[d] = Idle) =>
        /\ \A r \in Legacy \ purged : revision[r] > 0 => announced[r] = revision[r]
        /\ \A d \in connected : member[d].room \in Legacy =>
              seen[d][member[d].room] = announced[member[d].room]

\* A connection that has nothing under way is in the namespace of its room: it
\* hears of every change, also after a switch that failed half-way and was taken
\* back.  Where taking it back failed too, nothing is promised until the
\* connection moves again.
HearsOwnRoom ==
    \A d \in connected \ stranded :
        op[d] = Idle => {member[d].room} \cap Legacy \subseteq joined[d]

=============================================================================
