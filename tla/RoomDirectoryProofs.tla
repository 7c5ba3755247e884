------------------------- MODULE RoomDirectoryProofs -------------------------
(***************************************************************************)
(* Theorems about RoomDirectory, for every set of devices, rooms, names    *)
(* and contents, every bound, both kinds of services and every choice of   *)
(* requests, with and without faults where a theorem says nothing of them. *)
(***************************************************************************)
EXTENDS RoomDirectory, FiniteSetTheorems, WellFoundedInduction, TLAPS

-----------------------------------------------------------------------------
(* The inductive invariant                                                 *)

Memberships == [room : Rooms, name : Names] \cup {Out}

Moving == {"adapter", "persist", "restore"}

Moves == [stage : Moving, from : Rooms \cup {Nil}, as : Names \cup {Nil},
          to : Legacy \cup {Nil}, name : Names \cup {Nil}]

Uploads == [stage : {"upload"}, room : Rooms, rev : 1..MaxClientRevision,
            content : Contents]

RoomLists == Seq(Rooms) \ {<<>>}

\* What a suspended handler carries from one await to the next.
Carries(o) ==
    /\ o.stage \in Moving => o \in Moves /\ (o.to # Nil => o.name \in Names)
    /\ o.stage = "upload" => o \in Uploads
    /\ o.stage \in {"revision", "announce"} => o.rooms \in RoomLists
    /\ o.stage = "announce" => o.rev \in Int

HandlersOK == DOMAIN op = Devices /\ \A d \in Devices : Carries(op[d])

DirectoryOK ==
    /\ member \in [Devices -> Memberships]
    /\ snapshot \in [Devices -> Snapshots]
    /\ revision \in [Rooms -> Int]
    /\ SnapshotInMemberRoom

\* Nobody was told more than was announced.
ToldOK ==
    /\ announced \in [Legacy -> Int]
    /\ seen \in [Devices -> [Legacy -> Int]]
    /\ \A d \in Devices, r \in Legacy : seen[d][r] <= announced[r]

\* A switch under way remembers the room the socket has to hear again if it
\* fails, and is in the namespace of the new room before it is stored.  Only
\* where taking it back failed does a socket not hear its room.
Hears(d) ==
    d \in connected =>
        /\ op[d].stage \notin Moving =>
             d \in stranded \/ {member[d].room} \cap Legacy \subseteq joined[d]
        /\ op[d].stage \in Moving => {member[d].room} \cap Legacy \subseteq {op[d].from}
        /\ op[d].stage = "persist" => {op[d].to} \cap Legacy \subseteq joined[d]

NamespacesOK ==
    /\ connected \subseteq Devices /\ joined \in [Devices -> SUBSET Legacy]
    /\ \A d \in Devices : Hears(d)

Inv == DirectoryOK /\ HandlersOK /\ ToldOK /\ NamespacesOK

\* What a connection was told is not taken back.
Rising == \A d \in Devices, r \in Legacy : seen'[d][r] >= seen[d][r]

-----------------------------------------------------------------------------
(* Steps of one part of the state                                          *)

LEMMA RoomValues ==
    /\ Nil \notin Rooms /\ Pool \notin Legacy /\ Pool \in Rooms
    /\ Legacy \subseteq Rooms
    /\ Out.room = Nil /\ NoSnapshot.room = Nil
    /\ Out \in Memberships /\ NoSnapshot \in Snapshots
    /\ \A m \in Memberships : m = Out \/ (m.room \in Rooms /\ m.name \in Names)
    /\ Idle.stage = "idle" /\ Carries(Idle) /\ "idle" \notin Moving
  BY RoomsAssumption DEF Rooms, Out, NoSnapshot, Memberships, Snapshots, Idle, Carries, Moving

\* One handler goes on and carries something else.
LEMMA HandlerStep ==
    ASSUME HandlersOK, NEW d \in Devices, NEW o, Carries(o), op' = [op EXCEPT ![d] = o]
    PROVE  /\ HandlersOK' /\ op'[d] = o
           /\ \A e \in Devices \ {d} : op'[e] = op[e]
  BY DEF HandlersOK, Carries

\* One device gets another membership and another snapshot.
LEMMA DirectoryStep ==
    ASSUME DirectoryOK, NEW d \in Devices, NEW m \in Memberships, NEW s \in Snapshots,
           s # NoSnapshot => s.room = m.room,
           member' = [member EXCEPT ![d] = m], snapshot' = [snapshot EXCEPT ![d] = s],
           revision' \in [Rooms -> Int]
    PROVE  DirectoryOK' /\ member'[d] = m
  BY DEF DirectoryOK, SnapshotInMemberRoom

LEMMA BumpedType ==
    ASSUME revision \in [Rooms -> Int], NEW rooms
    PROVE  Bumped(rooms) \in [Rooms -> Int]
  BY DEF Bumped

\* An announcement goes to some connections, and only when it is newer.
LEMMA AnnounceStep ==
    ASSUME ToldOK, NEW d \in Devices, NEW r, NEW rev \in Int, Announce(d, r, rev)
    PROVE  ToldOK' /\ Rising
  <1>1. CASE UNCHANGED toldVars
    BY <1>1 DEF toldVars, ToldOK, Rising
  <1>2. CASE r \in Legacy /\ rev > announced[r] /\ ~ UNCHANGED toldVars
    <2>1. /\ announced' = [announced EXCEPT ![r] = rev]
          /\ seen' = [e \in Devices |->
                       IF r \in joined[e] \/ (e = d /\ d \in connected)
                         THEN [seen[e] EXCEPT ![r] = rev] ELSE seen[e]]
      BY <1>2 DEF Announce, Newer
    <2>2. announced' \in [Legacy -> Int] /\ seen' \in [Devices -> [Legacy -> Int]]
      BY <1>2, <2>1 DEF ToldOK
    <2>3. ASSUME NEW e \in Devices, NEW q \in Legacy
          PROVE  seen'[e][q] <= announced'[q] /\ seen'[e][q] >= seen[e][q]
      <3>1. /\ seen[e] \in [Legacy -> Int] /\ seen[e][q] <= announced[q]
            /\ announced[q] \in Int /\ seen[e][q] \in Int
        BY DEF ToldOK
      <3>2. announced'[q] = IF q = r THEN rev ELSE announced[q]
        BY <2>1 DEF ToldOK
      <3>3. seen'[e][q] = seen[e][q] \/ (q = r /\ seen'[e][q] = rev)
        BY <2>1, <3>1
      <3> QED
        BY <1>2, <3>1, <3>2, <3>3
    <2> QED
      BY <2>2, <2>3 DEF ToldOK, Rising
  <1> QED
    BY <1>1, <1>2 DEF Announce, Newer

\* What a connection hears depends on its own operation, membership and
\* namespaces.
LEMMA HearsStep ==
    ASSUME NamespacesOK, NEW d \in Devices, Hears(d)',
           joined' \in [Devices -> SUBSET Legacy], connected' \subseteq connected \cup {d},
           \A e \in Devices \ {d} :
              /\ op'[e] = op[e] /\ member'[e] = member[e] /\ joined'[e] = joined[e]
              /\ e \in connected' => e \in connected
              /\ e \in stranded => e \in stranded'
    PROVE  NamespacesOK'
  BY DEF NamespacesOK, Hears

\* A step that leaves the shared content and its readers alone.
LEMMA ElsewhereStep ==
    ASSUME Inv, NEW d \in Devices, NEW o, Carries(o), o.stage \notin Moving,
           op[d].stage \notin Moving, op' = [op EXCEPT ![d] = o],
           UNCHANGED <<dirVars, toldVars, connected, joined, stranded>>
    PROVE  Inv' /\ Rising
  <1>1. DirectoryOK' /\ ToldOK' /\ Rising
    BY DEF Inv, DirectoryOK, SnapshotInMemberRoom, ToldOK, Rising, dirVars, toldVars
  <1>2. HandlersOK' /\ op'[d] = o /\ \A e \in Devices \ {d} : op'[e] = op[e]
    BY HandlerStep DEF Inv
  <1>3. Hears(d)'
    BY <1>2 DEF Inv, NamespacesOK, Hears, dirVars, Moving
  <1>4. NamespacesOK'
    BY <1>2, <1>3, HearsStep DEF Inv, NamespacesOK, dirVars
  <1> QED
    BY <1>1, <1>2, <1>4 DEF Inv

LEMMA NothingStep ==
    ASSUME Inv, UNCHANGED <<dirVars, toldVars, connected, joined, stranded, op>>
    PROVE  Inv' /\ Rising
  BY DEF Inv, DirectoryOK, SnapshotInMemberRoom, ToldOK, Rising, HandlersOK, NamespacesOK,
         Hears, dirVars, toldVars

-----------------------------------------------------------------------------
(* Operations                                                              *)

LEMMA MembershipOf ==
    ASSUME Inv, NEW d \in Devices
    PROVE  /\ member[d] \in Memberships /\ snapshot[d] \in Snapshots
           /\ member[d].room \in Rooms \cup {Nil}
           /\ member[d] # Out => member[d].room \in Rooms
           /\ snapshot[d] # NoSnapshot => snapshot[d].room = member[d].room
           /\ Carries(op[d]) /\ DOMAIN op = Devices
  BY RoomValues DEF Inv, DirectoryOK, HandlersOK, SnapshotInMemberRoom

LEMMA ListedType ==
    ASSUME NEW r \in Rooms \cup {Nil}
    PROVE  Listed(r) \in Seq(Rooms) /\ (r # Nil => Listed(r) # <<>>)
  BY RoomsAssumption DEF Listed

LEMMA ToldOfMoveType ==
    ASSUME NEW from \in Rooms \cup {Nil}, NEW to \in Rooms \cup {Nil}, NEW renamed
    PROVE  ToldOfMove(from, to, renamed) \in Seq(Rooms)
  BY ListedType DEF ToldOfMove

LEMMA AnnouncingCarries ==
    ASSUME NEW rooms \in Seq(Rooms)
    PROVE  Carries(Announcing(rooms)) /\ Announcing(rooms).stage \notin Moving
  BY RoomValues DEF Announcing, Carries, RoomLists, Moving

LEMMA ConnectionStep ==
    ASSUME Inv, NEW d \in Devices, Connect(d) \/ Disconnect(d) \/ Close(d)
    PROVE  Inv' /\ Rising
  <1>1. CASE Connect(d)
    <2>1. DirectoryOK' /\ HandlersOK'
      BY <1>1 DEF Connect, dirVars, Inv, DirectoryOK, SnapshotInMemberRoom, HandlersOK
    <2>2. ToldOK' /\ Rising
      BY <1>1 DEF Connect, Inv, ToldOK, Rising
    <2>3. joined' \in [Devices -> SUBSET Legacy] /\ joined'[d] = {member[d].room} \cap Legacy
      BY <1>1 DEF Connect, Inv, NamespacesOK
    <2>4. Hears(d)'
      BY <1>1, <2>3, RoomValues DEF Connect, Hears, dirVars, Moving
    <2>5. /\ connected' \subseteq connected \cup {d}
          /\ \A e \in Devices \ {d} :
                /\ op'[e] = op[e] /\ member'[e] = member[e] /\ joined'[e] = joined[e]
                /\ e \in connected' => e \in connected
                /\ e \in stranded => e \in stranded'
      BY <1>1 DEF Connect, Inv, NamespacesOK, dirVars
    <2> QED
      BY <2>1, <2>2, <2>3, <2>4, <2>5, HearsStep DEF Inv
  <1>2. CASE Disconnect(d)
    <2>1. DirectoryOK' /\ HandlersOK'
      BY <1>2 DEF Disconnect, dirVars, Inv, DirectoryOK, SnapshotInMemberRoom, HandlersOK
    <2>2. ToldOK' /\ Rising
      BY <1>2 DEF Disconnect, Inv, ToldOK, Rising, toldVars
    <2>3. joined' \in [Devices -> SUBSET Legacy] /\ Hears(d)'
      BY <1>2 DEF Disconnect, Inv, NamespacesOK, Hears
    <2>4. /\ connected' \subseteq connected \cup {d}
          /\ \A e \in Devices \ {d} :
                /\ op'[e] = op[e] /\ member'[e] = member[e] /\ joined'[e] = joined[e]
                /\ e \in connected' => e \in connected
                /\ e \in stranded => e \in stranded'
      BY <1>2 DEF Disconnect, Inv, NamespacesOK, dirVars
    <2> QED
      BY <2>1, <2>2, <2>3, <2>4, HearsStep DEF Inv
  <1>3. CASE Close(d)
    BY <1>3, NothingStep DEF Close
  <1> QED
    BY <1>1, <1>2, <1>3

LEMMA AnnouncementStep ==
    ASSUME Inv, NEW d \in Devices, ReadRevision(d) \/ AnnounceRevision(d)
    PROVE  Inv' /\ Rising
  <1>0. Carries(op[d])
    BY MembershipOf
  <1>1. CASE ReadRevision(d)
    <2> DEFINE o == [stage |-> "announce", rooms |-> op[d].rooms,
                     rev |-> revision[Head(op[d].rooms)]]
    <2>1. op[d].rooms \in RoomLists /\ Head(op[d].rooms) \in Rooms
      BY <1>0, <1>1 DEF ReadRevision, Carries, RoomLists
    <2>2. revision[Head(op[d].rooms)] \in Int
      BY <2>1 DEF Inv, DirectoryOK
    <2>3. Carries(o) /\ o.stage \notin Moving /\ op[d].stage \notin Moving
      BY <1>1, <2>1, <2>2 DEF ReadRevision, Carries, Moving
    <2> HIDE DEF o
    <2>4. op' = [op EXCEPT ![d] = o]
      BY <1>1 DEF ReadRevision, o
    <2> QED
      BY <1>1, <2>3, <2>4, ElsewhereStep DEF ReadRevision, connVars
  <1>2. CASE AnnounceRevision(d)
    <2> DEFINE o == Announcing(Tail(op[d].rooms))
    <2>1. op[d].rooms \in RoomLists /\ op[d].rev \in Int
      BY <1>0, <1>2 DEF AnnounceRevision, Carries
    <2>2. Tail(op[d].rooms) \in Seq(Rooms)
      BY <2>1 DEF RoomLists
    <2>3. Carries(o) /\ o.stage \notin Moving
      BY <2>2, AnnouncingCarries
    <2> HIDE DEF o
    <2>4. op' = [op EXCEPT ![d] = o] /\ UNCHANGED <<dirVars, connVars>>
      BY <1>2 DEF AnnounceRevision, o
    <2>5. HandlersOK' /\ op'[d] = o /\ \A e \in Devices \ {d} : op'[e] = op[e]
      BY <2>3, <2>4, HandlerStep DEF Inv
    <2>6. DirectoryOK'
      BY <2>4 DEF Inv, DirectoryOK, SnapshotInMemberRoom, dirVars
    <2>7. ToldOK' /\ Rising
      <3>1. Announce(d, Head(op[d].rooms), op[d].rev)
        BY <1>2 DEF AnnounceRevision
      <3> QED
        BY <2>1, <3>1, AnnounceStep DEF Inv
    <2>8. Hears(d)'
      BY <1>2, <2>3, <2>4, <2>5 DEF AnnounceRevision, Inv, NamespacesOK, Hears, dirVars,
         connVars, Moving
    <2>9. NamespacesOK'
      BY <2>4, <2>5, <2>8, HearsStep DEF Inv, NamespacesOK, dirVars, connVars
    <2> QED
      BY <2>5, <2>6, <2>7, <2>9 DEF Inv
  <1> QED
    BY <1>1, <1>2

\* A switch under way goes to another stage.
LEMMA StageCarries ==
    ASSUME NEW o, Carries(o), o.stage \in Moving, NEW stage \in Moving
    PROVE  LET after == [o EXCEPT !.stage = stage] IN
           /\ Carries(after) /\ after.stage = stage
           /\ after.to = o.to /\ after.from = o.from /\ after.as = o.as
  BY DEF Carries, Moves, Moving

LEMMA MoveStep ==
    ASSUME Inv, NEW d \in Devices, NEW to \in Legacy \cup {Nil}, NEW n \in Names \cup {Nil},
           to # Nil => n \in Names, Move(d, to, n)
    PROVE  Inv' /\ Rising
  <1> DEFINE o == [stage |-> "adapter", from |-> member[d].room, as |-> member[d].name,
                   to |-> to, name |-> n]
  <1>1. Carries(o) /\ o.stage = "adapter" /\ o.from = member[d].room
    <2>1. member[d].room \in Rooms \cup {Nil} /\ member[d].name \in Names \cup {Nil}
      BY MembershipOf, RoomValues DEF Out
    <2> QED
      BY <2>1 DEF Carries, Moves, Moving
  <1> HIDE DEF o
  <1>2. op' = [op EXCEPT ![d] = o] /\ UNCHANGED <<dirVars, toldVars, connVars>>
    BY DEF Move, o
  <1>3. HandlersOK' /\ op'[d] = o /\ \A e \in Devices \ {d} : op'[e] = op[e]
    BY <1>1, <1>2, HandlerStep DEF Inv
  <1>4. DirectoryOK' /\ ToldOK' /\ Rising
    BY <1>2 DEF Inv, DirectoryOK, SnapshotInMemberRoom, ToldOK, Rising, dirVars, toldVars
  <1>5. Hears(d)'
    BY <1>1, <1>2, <1>3 DEF Hears, dirVars, Moving
  <1>6. NamespacesOK'
    BY <1>2, <1>3, <1>5, HearsStep DEF Inv, NamespacesOK, dirVars, connVars
  <1> QED
    BY <1>3, <1>4, <1>6 DEF Inv

LEMMA AdapterStep ==
    ASSUME Inv, NEW d \in Devices,
           \/ MoveAdapter(d) \/ MoveAdapterFails(d) \/ PersistMoveFails(d)
           \/ RestoreAdapter(d) \/ RestoreAdapterFails(d)
    PROVE  Inv' /\ Rising
  <1> DEFINE next(stage) == [op[d] EXCEPT !.stage = stage]
  <1>1. /\ op[d].stage \in Moving /\ Carries(op[d])
        /\ op[d].from \in Rooms \cup {Nil} /\ op[d].to \in Legacy \cup {Nil}
        /\ joined[d] \subseteq Legacy /\ Hears(d)
        /\ joined \in [Devices -> SUBSET Legacy]
    <2>1. op[d].stage \in Moving
      BY DEF MoveAdapter, MoveAdapterFails, PersistMoveFails, RestoreAdapter,
         RestoreAdapterFails, Moving
    <2>2. Carries(op[d])
      BY MembershipOf
    <2>3. joined \in [Devices -> SUBSET Legacy] /\ Hears(d)
      BY DEF Inv, NamespacesOK
    <2> QED
      BY <2>1, <2>2, <2>3 DEF Carries, Moves
  <1>2. UNCHANGED <<dirVars, toldVars, connected>>
    BY DEF MoveAdapter, MoveAdapterFails, PersistMoveFails, RestoreAdapter,
       RestoreAdapterFails, connVars
  <1>3. DirectoryOK' /\ ToldOK' /\ Rising
    BY <1>2 DEF Inv, DirectoryOK, SnapshotInMemberRoom, ToldOK, Rising, dirVars, toldVars
  <1>4. PICK o : Carries(o) /\ op' = [op EXCEPT ![d] = o] /\ o \in {next("persist"), next("restore"), Idle}
    <2>1. Carries(next("persist")) /\ Carries(next("restore")) /\ Carries(Idle)
      BY <1>1, StageCarries, RoomValues DEF Moving
    <2> QED
      BY <2>1 DEF MoveAdapter, MoveAdapterFails, PersistMoveFails, RestoreAdapter,
         RestoreAdapterFails
  <1>5. HandlersOK' /\ op'[d] = o /\ \A e \in Devices \ {d} : op'[e] = op[e]
    BY <1>4, HandlerStep DEF Inv
  <1>6. PICK j : /\ j \subseteq Legacy /\ joined' = [joined EXCEPT ![d] = j]
    <2>1. CASE PersistMoveFails(d)
      BY <1>1, <2>1 DEF PersistMoveFails, connVars
    <2>2. CASE MoveAdapter(d)
      BY <1>1, <2>2 DEF MoveAdapter, Arrived, Joined
    <2>3. CASE MoveAdapterFails(d)
      BY <1>1, <2>3 DEF MoveAdapterFails, Arrived, Joined
    <2>4. CASE RestoreAdapter(d)
      BY <1>1, <2>4 DEF RestoreAdapter, Restored
    <2>5. CASE RestoreAdapterFails(d)
      BY <1>1, <2>5 DEF RestoreAdapterFails, Restored
    <2> QED
      BY <2>1, <2>2, <2>3, <2>4, <2>5
  <1>7. joined' \in [Devices -> SUBSET Legacy] /\ joined'[d] = j
    BY <1>1, <1>6
  <1>8. Hears(d)'
    <2>1. CASE MoveAdapter(d)
      <3>1. /\ op'[d] = next("persist") /\ op'[d].stage = "persist"
            /\ op'[d].to = op[d].to /\ op'[d].from = op[d].from
        BY <1>1, <2>1, StageCarries DEF MoveAdapter, Moving, Inv, HandlersOK
      <3>2. d \in connected => joined'[d] = Arrived(d)
        BY <1>1, <2>1 DEF MoveAdapter
      <3> QED
        BY <1>1, <1>2, <3>1, <3>2 DEF Hears, Arrived, dirVars, Moving
    <2>2. CASE MoveAdapterFails(d) \/ PersistMoveFails(d)
      <3>1. /\ op'[d] = next("restore") /\ op'[d].stage = "restore"
            /\ op'[d].to = op[d].to /\ op'[d].from = op[d].from
        <4>1. op' = [op EXCEPT ![d] = next("restore")]
          BY <2>2 DEF MoveAdapterFails, PersistMoveFails
        <4>2. op'[d] = next("restore")
          BY <4>1 DEF Inv, HandlersOK
        <4> QED
          BY <1>1, <4>2, StageCarries DEF Moving
      <3> QED
        BY <1>1, <1>2, <3>1 DEF Hears, dirVars, Moving
    <2>3. CASE RestoreAdapter(d)
      <3>1. op'[d] = Idle
        BY <2>3 DEF RestoreAdapter, Inv, HandlersOK
      <3>2. d \in connected => joined'[d] = Restored(d)
        BY <1>1, <2>3 DEF RestoreAdapter
      <3> QED
        BY <1>1, <1>2, <3>1, <3>2, RoomValues DEF Hears, Restored, dirVars
    <2>4. CASE RestoreAdapterFails(d)
      <3>1. op'[d] = Idle
        BY <2>4 DEF RestoreAdapterFails, Inv, HandlersOK
      <3>2. d \in connected => d \in stranded'
        BY <2>4 DEF RestoreAdapterFails
      <3> QED
        BY <1>2, <3>1, <3>2, RoomValues DEF Hears
    <2> QED
      BY <2>1, <2>2, <2>3, <2>4
  <1>9. \A e \in Devices \ {d} : e \in stranded => e \in stranded'
    BY DEF MoveAdapter, MoveAdapterFails, PersistMoveFails, RestoreAdapter,
       RestoreAdapterFails, connVars
  <1>10. NamespacesOK'
    BY <1>2, <1>5, <1>6, <1>7, <1>8, <1>9, HearsStep DEF Inv, NamespacesOK, dirVars
  <1> QED
    BY <1>3, <1>5, <1>10 DEF Inv

\* joinRoom and leaveRoom: the old snapshot goes with the old membership.
LEMMA PersistStep ==
    ASSUME Inv, NEW d \in Devices, PersistMove(d)
    PROVE  Inv' /\ Rising
  <1> DEFINE from == member[d].room
             to == op[d].to
             renamed == member[d].name # op[d].name
             m == IF to = Nil THEN Out ELSE [room |-> to, name |-> op[d].name]
             s == IF from \in {to, Nil} THEN snapshot[d] ELSE NoSnapshot
             o == Announcing(ToldOfMove(op[d].from, to, op[d].as # op[d].name))
  <1>1. /\ op[d] \in Moves /\ (to # Nil => op[d].name \in Names) /\ op[d].stage = "persist"
        /\ op[d].from \in Rooms \cup {Nil} /\ to \in Legacy \cup {Nil}
        /\ op[d].stage \in Moving /\ to \in Rooms \cup {Nil}
    BY MembershipOf, RoomValues DEF PersistMove, Carries, Moves, Moving
  <1>2. m \in Memberships /\ m.room = to
    BY <1>1, RoomValues DEF Memberships
  <1>3. s \in Snapshots /\ (s # NoSnapshot => s.room = m.room)
    BY <1>2, MembershipOf, RoomValues DEF Snapshots
  <1>4. Carries(o) /\ o.stage \notin Moving
    BY <1>1, ToldOfMoveType, AnnouncingCarries
  <1>5. revision' \in [Rooms -> Int]
    BY BumpedType DEF PersistMove, Bump, Inv, DirectoryOK
  <1>6. /\ member' = [member EXCEPT ![d] = m]
        /\ snapshot' = [snapshot EXCEPT ![d] = s]
        /\ op' = [op EXCEPT ![d] = o]
        /\ UNCHANGED <<toldVars, connVars>>
    BY DEF PersistMove
  <1> HIDE DEF m, s, o
  <1>7. DirectoryOK' /\ member'[d] = m
    BY <1>2, <1>3, <1>5, <1>6, DirectoryStep DEF Inv
  <1>8. HandlersOK' /\ op'[d] = o /\ \A e \in Devices \ {d} : op'[e] = op[e]
    BY <1>4, <1>6, HandlerStep DEF Inv
  <1>9. ToldOK' /\ Rising
    BY <1>6 DEF Inv, ToldOK, Rising, toldVars
  <1>10. Hears(d)'
    <2>1. d \in connected => {op[d].to} \cap Legacy \subseteq joined[d]
      BY <1>1 DEF Inv, NamespacesOK, Hears
    <2> QED
      BY <1>2, <1>4, <1>6, <1>7, <1>8, <2>1 DEF Hears, connVars, Moving
  <1>11. NamespacesOK'
    <2>1. \A e \in Devices \ {d} : member'[e] = member[e]
      BY <1>6 DEF Inv, DirectoryOK
    <2> QED
      BY <1>6, <1>8, <1>10, <2>1, HearsStep DEF Inv, NamespacesOK, connVars
  <1> QED
    BY <1>7, <1>8, <1>9, <1>11 DEF Inv

LEMMA RenameStep ==
    ASSUME Inv, NEW d \in Devices, NEW n \in Names, Rename(d, n)
    PROVE  Inv' /\ Rising
  <1> DEFINE m == [member[d] EXCEPT !.name = n]
             o == Announcing(<<member[d].room>>)
  <1>1. member[d].room \in Rooms /\ member[d] \in [room : Rooms, name : Names]
    <2>1. member[d] # Out
      BY DEF Rename
    <2> QED
      BY <2>1, MembershipOf DEF Memberships
  <1>2. m \in Memberships /\ m.room = member[d].room
    BY <1>1 DEF Memberships
  <1>3. Carries(o) /\ o.stage \notin Moving
    <2>1. <<member[d].room>> \in Seq(Rooms)
      BY <1>1
    <2> QED
      BY <2>1, AnnouncingCarries
  <1>4. revision' \in [Rooms -> Int]
    BY BumpedType DEF Rename, Bump, Inv, DirectoryOK
  <1>5. /\ member' = [member EXCEPT ![d] = m]
        /\ snapshot' = [snapshot EXCEPT ![d] = snapshot[d]]
        /\ op' = [op EXCEPT ![d] = o]
        /\ UNCHANGED <<toldVars, connVars>> /\ op[d].stage \notin Moving
    BY RoomValues DEF Rename, Ready, Inv, DirectoryOK
  <1> HIDE DEF m, o
  <1>6. DirectoryOK' /\ member'[d] = m
    BY <1>2, <1>4, <1>5, DirectoryStep, MembershipOf DEF Inv
  <1>7. HandlersOK' /\ op'[d] = o /\ \A e \in Devices \ {d} : op'[e] = op[e]
    BY <1>3, <1>5, HandlerStep DEF Inv
  <1>8. ToldOK' /\ Rising
    BY <1>5 DEF Inv, ToldOK, Rising, toldVars
  <1>9. Hears(d)'
    BY <1>2, <1>3, <1>5, <1>6, <1>7 DEF Inv, NamespacesOK, Hears, connVars, Moving
  <1>10. NamespacesOK'
    <2>1. \A e \in Devices \ {d} : member'[e] = member[e]
      BY <1>5 DEF Inv, DirectoryOK
    <2> QED
      BY <1>5, <1>7, <1>9, <2>1, HearsStep DEF Inv, NamespacesOK, connVars
  <1> QED
    BY <1>6, <1>7, <1>8, <1>10 DEF Inv

LEMMA PoolStep ==
    ASSUME Inv, NEW d \in Devices,
           (\E n \in Names : PoolJoin(d, n)) \/ Expire(d) \/ RemoveTemporary(d) \/ AdminDelete(d)
    PROVE  Inv' /\ Rising
  <1>1. PICK m \in Memberships, s \in Snapshots :
           /\ s # NoSnapshot => s.room = m.room
           /\ m.room \notin Legacy
           /\ member' = [member EXCEPT ![d] = m]
           /\ snapshot' = [snapshot EXCEPT ![d] = s]
    <2>1. CASE Expire(d) \/ RemoveTemporary(d) \/ AdminDelete(d)
      <3>1. Out.room \notin Legacy
        BY RoomValues
      <3> QED
        BY <2>1, <3>1, RoomValues DEF Expire, RemoveTemporary, AdminDelete, Leaves
    <2>2. ASSUME NEW n \in Names, PoolJoin(d, n)
          PROVE  \E m \in Memberships, s \in Snapshots :
                    /\ s # NoSnapshot => s.room = m.room
                    /\ m.room \notin Legacy
                    /\ member' = [member EXCEPT ![d] = m]
                    /\ snapshot' = [snapshot EXCEPT ![d] = s]
      <3> DEFINE m == [room |-> Pool, name |-> n]
                 s == IF snapshot[d] # NoSnapshot /\ member[d].room \in Legacy
                        THEN [snapshot[d] EXCEPT !.room = Pool] ELSE snapshot[d]
      <3>1. m \in Memberships /\ m.room = Pool /\ Pool \notin Legacy
        BY RoomValues DEF Memberships
      <3>2. s \in Snapshots /\ (s # NoSnapshot => s.room = Pool)
        <4>1. CASE snapshot[d] = NoSnapshot
          BY <4>1, RoomValues
        <4>2. CASE snapshot[d] # NoSnapshot /\ member[d].room \in Legacy
          <5>1. snapshot[d] \in [room : Rooms, rev : 1..MaxClientRevision, content : Contents]
            BY <4>2, MembershipOf DEF Snapshots
          <5> QED
            BY <4>2, <5>1, RoomValues DEF Snapshots
        <4>3. CASE snapshot[d] # NoSnapshot /\ member[d].room \notin Legacy
          <5>1. snapshot[d] \in Snapshots /\ snapshot[d].room = member[d].room
            BY <4>3, MembershipOf
          <5>2. snapshot[d].room \in Rooms
            BY <4>3, MembershipOf DEF Snapshots
          <5> QED
            BY <4>3, <5>1, <5>2 DEF Rooms
        <4> QED
          BY <4>1, <4>2, <4>3
      <3>3. member' = [member EXCEPT ![d] = m] /\ snapshot' = [snapshot EXCEPT ![d] = s]
        BY <2>2 DEF PoolJoin
      <3> HIDE DEF m, s
      <3> QED
        BY <3>1, <3>2, <3>3
    <2> QED
      BY <2>1, <2>2
  <1>2. UNCHANGED <<toldVars, connVars, op>> /\ revision' \in [Rooms -> Int]
    BY BumpedType DEF PoolJoin, Expire, RemoveTemporary, AdminDelete, Bump, Hush, Inv, DirectoryOK
  <1>3. DirectoryOK' /\ member'[d] = m
    BY <1>1, <1>2, DirectoryStep DEF Inv
  <1>4. HandlersOK' /\ ToldOK' /\ Rising
    BY <1>2 DEF Inv, HandlersOK, ToldOK, Rising, toldVars
  <1>5. Hears(d)'
    <2>1. Hears(d)
      BY DEF Inv, NamespacesOK
    <2> QED
      BY <1>1, <1>2, <1>3, <2>1 DEF Hears, connVars
  <1>6. NamespacesOK'
    <2>1. \A e \in Devices \ {d} : member'[e] = member[e]
      BY <1>1 DEF Inv, DirectoryOK
    <2> QED
      BY <1>2, <1>5, <2>1, HearsStep DEF Inv, NamespacesOK, connVars
  <1> QED
    BY <1>3, <1>4, <1>6 DEF Inv

\* saveSnapshot looks at the membership again: an upload that was under way
\* while its device moved stores nothing.
LEMMA SaveStep ==
    ASSUME Inv, NEW d \in Devices, SaveSnapshot(d)
    PROVE  Inv' /\ Rising
  <1> DEFINE r == op[d].room
             s == [room |-> r, rev |-> op[d].rev, content |-> op[d].content]
  <1>1. op[d] \in Uploads /\ op[d].stage = "upload" /\ op[d].stage \notin Moving
    BY MembershipOf DEF SaveSnapshot, Carries, Moving
  <1>2. CASE ~Accepts(d, r, op[d].rev, op[d].content)
    <2>1. op' = [op EXCEPT ![d] = Idle] /\ UNCHANGED <<dirVars, toldVars, connVars>>
      BY <1>2 DEF SaveSnapshot, dirVars
    <2> QED
      BY <1>1, <2>1, RoomValues, ElsewhereStep DEF connVars
  <1>3. CASE Accepts(d, r, op[d].rev, op[d].content)
    <2> DEFINE o == IF r = Pool THEN [stage |-> "stored"] ELSE Idle
    <2>1. s \in Snapshots /\ s.room = member[d].room
      BY <1>1, <1>3 DEF Snapshots, Uploads, Accepts
    <2>2. Carries(o) /\ o.stage \notin Moving
      BY RoomValues DEF Carries, Moving
    <2>3. /\ snapshot' = [snapshot EXCEPT ![d] = s] /\ op' = [op EXCEPT ![d] = o]
          /\ revision' = Bumped({r}) /\ Announce(d, r, revision'[r])
          /\ UNCHANGED <<member, connVars>>
      BY <1>3 DEF SaveSnapshot, Bump
    <2>4. r \in Rooms
      BY <1>1 DEF Uploads
    <2> HIDE DEF r, s, o
    <2>5. revision' \in [Rooms -> Int]
      BY <2>3, BumpedType DEF Inv, DirectoryOK
    <2>6. DirectoryOK'
      <3>1. member' = [member EXCEPT ![d] = member[d]]
        BY <2>3 DEF Inv, DirectoryOK
      <3>2. DirectoryOK /\ member[d] \in Memberships
        BY MembershipOf DEF Inv
      <3> QED
        BY <2>1, <2>3, <2>5, <3>1, <3>2, DirectoryStep
    <2>7. HandlersOK' /\ op'[d] = o /\ \A e \in Devices \ {d} : op'[e] = op[e]
      BY <2>2, <2>3, HandlerStep DEF Inv
    <2>8. ToldOK' /\ Rising
      BY <2>3, <2>4, <2>5, AnnounceStep DEF Inv
    <2>9. Hears(d)'
      BY <1>1, <2>2, <2>3, <2>7 DEF Inv, NamespacesOK, Hears, connVars, Moving
    <2>10. NamespacesOK'
      BY <2>3, <2>7, <2>9, HearsStep DEF Inv, NamespacesOK, connVars
    <2> QED
      BY <2>6, <2>7, <2>8, <2>10 DEF Inv
  <1> QED
    BY <1>2, <1>3

LEMMA ComparingStep ==
    ASSUME NEW d \in Devices,
           \/ Compare(d) \/ Attempt(d) \/ CompareMembers(d) \/ CompareSnapshots(d)
           \/ CompareReread(d) \/ NextPage(d) \/ \E expired \in BOOLEAN : PageReread(d, expired)
           \/ \E limit \in PageSizes : CompareAnswer(d, limit) \/ ServePage(d, limit)
    PROVE  \E o : /\ op' = [op EXCEPT ![d] = o]
                  /\ o.stage \in {"attempt", "members", "snapshots", "check", "checked",
                                  "token", "page", "idle"}
  <1> DEFINE Stages == {"attempt", "members", "snapshots", "check", "checked", "token", "page",
                        "idle"}
             Later(o) == op' = [op EXCEPT ![d] = o] /\ o.stage \in Stages
  <1> SUFFICES \E o : Later(o)
    OBVIOUS
  <1>1. CASE CompareMembers(d)
    <2> DEFINE o == [stage |-> "snapshots", attempt |-> op[d].attempt,
                     room |-> op[d].room, rev |-> op[d].rev,
                     listed |-> {<<e, member[e].name>> :
                                   e \in {x \in Devices : member[x].room = op[d].room}}]
    <2>1. o.stage = "snapshots"
      OBVIOUS
    <2>2. op' = [op EXCEPT ![d] = o]
      BY <1>1 DEF CompareMembers
    <2> HIDE DEF o
    <2>3. Later(o)
      BY <2>1, <2>2
    <2> QED
      BY <2>3
  <1>2. CASE CompareSnapshots(d)
    <2> DEFINE row(m) ==
                 LET shown == IF snapshot[m[1]].room = op[d].room
                                   /\ member[m[1]].room = op[d].room
                              THEN snapshot[m[1]] ELSE NoSnapshot
                 IN  [device |-> m[1], name |-> m[2], rev |-> shown.rev,
                      content |-> shown.content]
               o == [stage |-> "check", attempt |-> op[d].attempt,
                     room |-> op[d].room, rev |-> op[d].rev,
                     rows |-> {row(m) : m \in op[d].listed}]
    <2>1. o.stage = "check"
      OBVIOUS
    <2>2. op' = [op EXCEPT ![d] = o]
      BY <1>2 DEF CompareSnapshots
    <2> HIDE DEF o
    <2>3. Later(o)
      BY <2>1, <2>2
    <2> QED
      BY <2>3
  <1>3. CASE CompareReread(d)
    <2>1. Later([stage |-> "checked", attempt |-> op[d].attempt, room |-> op[d].room,
                 rev |-> op[d].rev, rows |-> op[d].rows, last |-> Reread(op[d].room)])
      BY <1>3 DEF CompareReread
    <2> QED
      BY <2>1
  <1>4. CASE Compare(d)
    <2>1. Later([stage |-> "attempt", attempt |-> 1, room |-> member[d].room])
      BY <1>4 DEF Compare
    <2> QED
      BY <2>1
  <1>5. CASE Attempt(d)
    <2>1. Later([stage |-> "members", attempt |-> op[d].attempt, room |-> op[d].room,
                 rev |-> revision[op[d].room]])
      BY <1>5 DEF Attempt
    <2> QED
      BY <2>1
  <1>6. CASE NextPage(d)
    <2>1. Later([stage |-> "token", room |-> member[d].room])
      BY <1>6 DEF NextPage
    <2> QED
      BY <2>1
  <1>7. ASSUME NEW expired \in BOOLEAN, PageReread(d, expired) PROVE \E o : Later(o)
    <2>1. Later([stage |-> "page", last |-> Reread(op[d].room)]) \/ Later(Idle)
      BY <1>7, RoomValues DEF PageReread
    <2> QED
      BY <2>1
  <1>8. ASSUME NEW limit \in PageSizes, CompareAnswer(d, limit) PROVE \E o : Later(o)
    <2>1. Later(Idle) \/ Later([stage |-> "attempt", attempt |-> 2, room |-> op[d].room])
      BY <1>8, RoomValues DEF CompareAnswer
    <2> QED
      BY <2>1
  <1>9. ASSUME NEW limit \in PageSizes, ServePage(d, limit) PROVE \E o : Later(o)
    <2>1. Later(Idle)
      BY <1>9, RoomValues DEF ServePage
    <2> QED
      BY <2>1
  <1> QED
    BY <1>1, <1>2, <1>3, <1>4, <1>5, <1>6, <1>7, <1>8, <1>9

LEMMA ComparisonStep ==
    ASSUME Inv, NEW d \in Devices,
           \/ Compare(d) \/ Attempt(d) \/ CompareMembers(d) \/ CompareSnapshots(d)
           \/ CompareReread(d) \/ NextPage(d) \/ \E expired \in BOOLEAN : PageReread(d, expired)
           \/ \E limit \in PageSizes : CompareAnswer(d, limit) \/ ServePage(d, limit)
    PROVE  Inv' /\ Rising
  <1>1. op[d].stage \notin Moving /\ UNCHANGED <<dirVars, toldVars, connVars>>
    BY RoomValues DEF Compare, Attempt, CompareMembers, CompareSnapshots, CompareReread,
       NextPage, PageReread, CompareAnswer, ServePage, Ready, Moving
  <1>2. PICK o : /\ op' = [op EXCEPT ![d] = o]
                 /\ o.stage \in {"attempt", "members", "snapshots", "check", "checked",
                                 "token", "page", "idle"}
    BY ComparingStep
  <1>3. Carries(o) /\ o.stage \notin Moving
    BY <1>2 DEF Carries, Moving
  <1> QED
    BY <1>1, <1>2, <1>3, ElsewhereStep DEF connVars

LEMMA ReaderStep ==
    ASSUME Inv, NEW d \in Devices,
           \/ \E rev \in 1..MaxClientRevision, c \in Contents : Upload(d, rev, c)
           \/ ReadStored(d) \/ Push(d) \/ ReadInitial(d) \/ SendInitial(d)
           \/ \E t \in Devices : Follow(d, t)
    PROVE  Inv' /\ Rising
  <1>1. op[d].stage \notin Moving /\ UNCHANGED <<dirVars, toldVars, connected, joined, stranded>>
    BY RoomValues DEF Upload, ReadStored, Push, ReadInitial, SendInitial, Follow, Ready,
       Moving, connVars
  <1> DEFINE Later(o) == Carries(o) /\ o.stage \notin Moving /\ op' = [op EXCEPT ![d] = o]
  <1>2. SUFFICES \E o : Later(o)
    BY <1>1, ElsewhereStep
  <1>3. ASSUME NEW rev \in 1..MaxClientRevision, NEW c \in Contents, Upload(d, rev, c)
        PROVE  \E o : Later(o)
    <2>1. member[d].room \in Rooms
      <3>1. member[d] # Out
        BY <1>3 DEF Upload
      <3> QED
        BY <3>1, MembershipOf
    <2>2. Later([stage |-> "upload", room |-> member[d].room, rev |-> rev, content |-> c])
      BY <1>3, <2>1 DEF Upload, Carries, Uploads, Moving
    <2> QED
      BY <2>2
  <1>4. CASE ReadStored(d)
    <2>1. Later([stage |-> "push", copy |-> Copied(d)])
      BY <1>4 DEF ReadStored, Carries, Moving
    <2> QED
      BY <2>1
  <1>5. CASE Push(d) \/ SendInitial(d)
    <2>1. Later(Idle)
      BY <1>5, RoomValues DEF Push, SendInitial
    <2> QED
      BY <2>1
  <1>6. CASE ReadInitial(d)
    <2>1. Later([stage |-> "send", copy |-> Copied(op[d].target)])
      BY <1>6 DEF ReadInitial, Carries, Moving
    <2> QED
      BY <2>1
  <1>7. ASSUME NEW t \in Devices, Follow(d, t)
        PROVE  \E o : Later(o)
    <2>1. Later([stage |-> "initial", target |-> t])
      BY <1>7 DEF Follow, Carries, Moving
    <2> QED
      BY <2>1
  <1> QED
    BY <1>3, <1>4, <1>5, <1>6, <1>7

LEMMA InvInit == Init => Inv
  <1> SUFFICES ASSUME Init PROVE Inv
    OBVIOUS
  <1>1. DirectoryOK
    BY RoomValues DEF Init, DirectoryOK, SnapshotInMemberRoom
  <1>2. HandlersOK
    BY RoomValues DEF Init, HandlersOK
  <1>3. ToldOK /\ NamespacesOK
    BY DEF Init, ToldOK, NamespacesOK, Hears
  <1> QED
    BY <1>1, <1>2, <1>3 DEF Inv

LEMMA InvNext == Inv /\ [Next]_vars => Inv' /\ (Rising \/ UNCHANGED vars)
  <1> SUFFICES ASSUME Inv, [Next]_vars PROVE Inv' /\ (Rising \/ UNCHANGED vars)
    OBVIOUS
  <1>1. CASE UNCHANGED vars
    BY <1>1, NothingStep DEF vars, connVars
  <1>2. CASE Next
    <2>1. PICK d \in Devices :
             \/ Connect(d) \/ Disconnect(d) \/ Close(d) \/ Step(d)
             \/ "move" \in Ops /\ \E n \in Names, to \in Legacy : Move(d, to, n)
             \/ "leave" \in Ops /\ Move(d, Nil, Nil)
             \/ "rename" \in Ops /\ \E n \in Names : Rename(d, n)
             \/ "pool" \in Ops /\ \E n \in Names : PoolJoin(d, n)
             \/ "expire" \in Ops /\ Expire(d)
             \/ "delete" \in Ops /\ AdminDelete(d)
             \/ RemoveTemporary(d)
             \/ "upload" \in Ops /\ \E rev \in 1..MaxClientRevision, c \in Contents :
                                       Upload(d, rev, c)
             \/ "follow" \in Ops /\ (Unfollow(d) \/ \E t \in Devices : Follow(d, t))
             \/ "compare" \in Ops /\ (Compare(d) \/ NextPage(d))
      BY <1>2, Zenon DEF Next
    <2>2. CASE Connect(d) \/ Disconnect(d) \/ Close(d)
      BY <2>2, ConnectionStep
    <2>3. CASE Step(d)
      BY <2>3, AdapterStep, PersistStep, AnnouncementStep, SaveStep, ReaderStep,
         ComparisonStep DEF Step
    <2>4. ASSUME NEW n \in Names, NEW to \in Legacy, Move(d, to, n)
          PROVE  Inv' /\ Rising
      BY <2>4, MoveStep
    <2>5. CASE Move(d, Nil, Nil)
      BY <2>5, MoveStep
    <2>6. CASE \/ \E n \in Names : Rename(d, n) \/ PoolJoin(d, n)
               \/ Expire(d) \/ RemoveTemporary(d) \/ AdminDelete(d)
      BY <2>6, RenameStep, PoolStep
    <2>7. CASE \/ \E rev \in 1..MaxClientRevision, c \in Contents : Upload(d, rev, c)
               \/ \E t \in Devices : Follow(d, t)
               \/ Compare(d) \/ NextPage(d)
      BY <2>7, ReaderStep, ComparisonStep
    <2>8. CASE Unfollow(d)
      BY <2>8, NothingStep DEF Unfollow, connVars
    <2> QED
      BY <2>1, <2>2, <2>3, <2>4, <2>5, <2>6, <2>7, <2>8
  <1> QED
    BY <1>1, <1>2

-----------------------------------------------------------------------------
(* Telling the latest change, as long as nothing throws                    *)

\* Room r has a revision that was not announced; the handler o will announce it.
Behind(r) == revision[r] > 0 /\ announced[r] < revision[r]
Settles(o, r) ==
    \/ o.stage = "revision" /\ \E i \in 1..Len(o.rooms) : o.rooms[i] = r
    \/ o.stage = "announce" /\ \E i \in 2..Len(o.rooms) : o.rooms[i] = r
    \/ o.stage = "announce" /\ Head(o.rooms) = r /\ o.rev = revision[r]

\* A connection hears its room, except between the namespaces of a switch.
Listens(d) ==
    /\ d \in connected /\ member[d].room \in Legacy
    /\ op[d].stage = "persist" => op[d].to = member[d].room

\* The handler o is about to tell room r something newer than what it was told.
Catches(o, r) ==
    \/ o.stage = "revision" /\ \E i \in 1..Len(o.rooms) : o.rooms[i] = r
    \/ o.stage = "announce" /\ \E i \in 2..Len(o.rooms) : o.rooms[i] = r
    \/ o.stage = "announce" /\ Head(o.rooms) = r /\ o.rev > announced[r]

\* A connection has heard what its room was told, or is itself about to tell it.
UpToDate(d) ==
    Listens(d) =>
       \/ seen[d][member[d].room] = announced[member[d].room]
       \/ Behind(member[d].room) /\ Catches(op[d], member[d].room)

\* A switch knows where its device comes from, unless the device left the pool
\* or was deleted meanwhile.
StillFrom(d) ==
    \/ member[d].room = op[d].from /\ member[d].name = op[d].as
    \/ member[d] = Out /\ (op[d].from = Pool \/ (op[d].from \in purged /\ d \notin connected))

HandlerTells(d) ==
    /\ op[d].stage # "restore"
    /\ op[d].stage = "announce" => op[d].rev <= revision[Head(op[d].rooms)]
    /\ op[d].stage \in Moving => StillFrom(d)
    /\ d \in connected /\ op[d].stage = "adapter" => {member[d].room} \cap Legacy \subseteq joined[d]

TellsOK ==
    /\ stranded = {}
    /\ \A r \in Rooms : revision[r] >= 0
    /\ \A r \in Legacy : announced[r] <= revision[r]
    /\ \A r \in Legacy \ purged : Behind(r) => \E d \in Devices : Settles(op[d], r)
    /\ \A d \in Devices : HandlerTells(d) /\ UpToDate(d)

LEMMA RevisionTypes ==
    ASSUME Inv
    PROVE  /\ \A r \in Rooms : revision[r] \in Int
           /\ \A r \in Legacy : r \in Rooms /\ announced[r] \in Int
  BY RoomValues DEF Inv, DirectoryOK, ToldOK

\* Steps that announce nothing: only d goes on.
LEMMA SilentStep ==
    ASSUME Inv, Inv', TellsOK, NEW d \in Devices,
           announced' = announced, purged \subseteq purged', stranded' \subseteq stranded,
           \A r \in Rooms : revision'[r] >= revision[r],
           \A e \in Devices \ {d} :
              /\ op'[e] = op[e] /\ member'[e] = member[e] /\ joined'[e] = joined[e]
              /\ seen'[e] = seen[e] /\ (e \in connected' => e \in connected),
           HandlerTells(d)', UpToDate(d)',
           \A r \in Legacy : \/ r \in purged' \/ Settles(op[d], r)'
                             \/ revision'[r] = revision[r] /\ ~Settles(op[d], r)
    PROVE  TellsOK'
  <1>1. /\ \A r \in Rooms : revision[r] \in Int /\ revision'[r] \in Int
        /\ \A r \in Legacy : r \in Rooms /\ announced[r] \in Int
    BY RevisionTypes, RoomValues DEF Inv, DirectoryOK
  <1>2. \A r \in Rooms : revision'[r] >= 0
    BY <1>1 DEF TellsOK
  <1>3. \A r \in Legacy : announced'[r] <= revision'[r]
    BY <1>1 DEF TellsOK
  <1>4. ASSUME NEW r \in Legacy, r \notin purged', Behind(r)'
        PROVE  \E e \in Devices : Settles(op[e], r)'
    <2>1. CASE Settles(op[d], r)'
      BY <2>1
    <2>2. CASE revision'[r] = revision[r] /\ ~Settles(op[d], r)
      <3>1. Behind(r) /\ r \in Legacy \ purged
        BY <1>4, <2>2 DEF Behind
      <3>2. PICK e \in Devices : Settles(op[e], r)
        BY <3>1 DEF TellsOK
      <3>3. e # d
        BY <2>2, <3>2
      <3>4. Settles(op[e], r)'
        BY <2>2, <3>2, <3>3 DEF Settles
      <3> QED
        BY <3>4
    <2> QED
      BY <1>4, <2>1, <2>2
  <1>5. ASSUME NEW e \in Devices \ {d} PROVE HandlerTells(e)' /\ UpToDate(e)'
    <2>1. HandlerTells(e) /\ UpToDate(e) /\ Carries(op[e])
      BY MembershipOf DEF TellsOK
    <2>2. HandlerTells(e)'
      <3>1. CASE op[e].stage = "announce"
        <4>1. Head(op[e].rooms) \in Rooms /\ op[e].rev \in Int
          BY <2>1, <3>1 DEF Carries, RoomLists
        <4> QED
          BY <1>1, <2>1, <3>1, <4>1 DEF HandlerTells, Moving
      <3>2. CASE op[e].stage # "announce"
        <4>1. StillFrom(e) => StillFrom(e)'
          BY DEF StillFrom
        <4> QED
          BY <2>1, <3>2, <4>1 DEF HandlerTells
      <3> QED
        BY <3>1, <3>2
    <2>3. UpToDate(e)'
      <3> SUFFICES ASSUME Listens(e)'
                   PROVE  \/ seen'[e][member'[e].room] = announced'[member'[e].room]
                          \/ Behind(member[e].room)' /\ Catches(op[e], member[e].room)'
        BY DEF UpToDate
      <3>1. Listens(e) /\ member[e].room \in Legacy /\ member'[e] = member[e]
        BY DEF Listens
      <3>2. CASE seen[e][member[e].room] = announced[member[e].room]
        BY <3>1, <3>2
      <3>3. CASE Behind(member[e].room) /\ Catches(op[e], member[e].room)
        <4>1. Behind(member[e].room)'
          BY <1>1, <3>1, <3>3 DEF Behind
        <4>2. Catches(op[e], member[e].room)'
          BY <3>1, <3>3 DEF Catches
        <4> QED
          BY <4>1, <4>2
      <3> QED
        BY <2>1, <3>1, <3>2, <3>3 DEF UpToDate
    <2> QED
      BY <2>2, <2>3
  <1> QED
    BY <1>2, <1>3, <1>4, <1>5 DEF TellsOK

\* Who listens to its room is in the namespace.
LEMMA ListenersJoined ==
    ASSUME Inv, TellsOK, NEW d \in Devices, Listens(d)
    PROVE  member[d].room \in joined[d]
  BY DEF Inv, NamespacesOK, Hears, TellsOK, HandlerTells, Listens, Moving

\* A handler that is neither moving nor announcing changes nothing of it.
LEMMA BystanderStep ==
    ASSUME Inv, Inv', TellsOK, NEW d \in Devices, NEW o,
           op[d].stage \notin Moving \cup {"revision", "announce"},
           o.stage \notin Moving \cup {"announce"},
           op' = [op EXCEPT ![d] = o],
           UNCHANGED <<revision, member, purged, toldVars, connected, joined, stranded>>
    PROVE  TellsOK'
  <1>1. op'[d] = o /\ \A e \in Devices \ {d} : op'[e] = op[e]
    BY DEF Inv, HandlersOK
  <1>2. HandlerTells(d)'
    BY <1>1 DEF HandlerTells, Moving
  <1>3. UpToDate(d)'
    <2>1. UpToDate(d)
      BY DEF TellsOK
    <2> QED
      BY <1>1, <2>1 DEF UpToDate, Listens, Behind, Catches, Moving, toldVars
  <1>4. \A r \in Legacy : ~Settles(op[d], r)
    BY DEF Settles
  <1>5. \A r \in Rooms : revision'[r] >= revision[r]
    BY RevisionTypes
  <1> QED
    BY <1>1, <1>2, <1>3, <1>4, <1>5, SilentStep DEF toldVars

LEMMA IdleTells ==
    ASSUME Inv, Inv', TellsOK,
           UNCHANGED <<revision, member, purged, toldVars, connected, joined, stranded, op>>
    PROVE  TellsOK'
  BY DEF TellsOK, HandlerTells, StillFrom, UpToDate, Catches, Listens, Behind, Settles, toldVars

LEMMA ConnectionTells ==
    ASSUME Inv, Inv', TellsOK, NEW d \in Devices, Connect(d) \/ Disconnect(d) \/ Close(d)
    PROVE  TellsOK'
  <1>1. CASE Connect(d)
    <2>1. /\ op' = op /\ op[d] = Idle /\ UNCHANGED <<dirVars, announced>>
          /\ connected' = connected \cup {d} /\ seen' = [seen EXCEPT ![d] = announced]
          /\ \A e \in Devices \ {d} : joined'[e] = joined[e]
      BY <1>1 DEF Connect, Inv, NamespacesOK
    <2>2. HandlerTells(d)' /\ \A r \in Legacy : ~Settles(op[d], r)
      BY <2>1, RoomValues DEF HandlerTells, Settles
    <2>6. purged' = purged /\ stranded' = stranded
      BY <1>1, <2>1 DEF Connect, dirVars
    <2>3. UpToDate(d)'
      BY <2>1 DEF UpToDate, Listens, Inv, ToldOK
    <2>4. \A r \in Rooms : revision'[r] >= revision[r]
      BY <2>1, RevisionTypes DEF dirVars
    <2>5. \A e \in Devices \ {d} :
              /\ op'[e] = op[e] /\ member'[e] = member[e] /\ joined'[e] = joined[e]
              /\ seen'[e] = seen[e] /\ (e \in connected' => e \in connected)
      BY <2>1 DEF dirVars, Inv, ToldOK
    <2> QED
      BY <2>1, <2>2, <2>3, <2>4, <2>5, <2>6, SilentStep DEF dirVars
  <1>2. CASE Disconnect(d)
    <2>1. /\ connected' = connected \ {d} /\ UNCHANGED <<dirVars, toldVars, op>>
          /\ stranded' \subseteq stranded
          /\ \A e \in Devices \ {d} : joined'[e] = joined[e]
      BY <1>2 DEF Disconnect, Inv, NamespacesOK
    <2>2. \A e \in Devices : StillFrom(e) => StillFrom(e)'
      BY <2>1 DEF StillFrom, dirVars
    <2> QED
      BY <2>1, <2>2 DEF TellsOK, HandlerTells, UpToDate, Catches, Listens, Behind, Settles,
         dirVars, toldVars
  <1>3. CASE Close(d)
    BY <1>3, IdleTells DEF Close, dirVars
  <1> QED
    BY <1>1, <1>2, <1>3

LEMMA MoveTells ==
    ASSUME Inv, Inv', TellsOK, NEW d \in Devices, NEW to \in Legacy \cup {Nil},
           NEW n \in Names \cup {Nil}, Move(d, to, n)
    PROVE  TellsOK'
  <1> DEFINE o == [stage |-> "adapter", from |-> member[d].room, as |-> member[d].name,
                   to |-> to, name |-> n]
  <1>1. o.stage = "adapter" /\ o.from = member[d].room /\ o.as = member[d].name
    OBVIOUS
  <1> HIDE DEF o
  <1>2. /\ op' = [op EXCEPT ![d] = o] /\ op[d].stage = "idle"
        /\ UNCHANGED <<dirVars, toldVars, connVars>>
    BY RoomValues DEF Move, Ready, o
  <1>3. op'[d] = o /\ \A e \in Devices \ {d} : op'[e] = op[e]
    BY <1>2 DEF Inv, HandlersOK
  <1>4. HandlerTells(d)'
    <2>1. StillFrom(d)'
      BY <1>1, <1>2, <1>3 DEF StillFrom, dirVars
    <2>2. d \in connected => {member[d].room} \cap Legacy \subseteq joined[d]
      BY <1>2 DEF Inv, NamespacesOK, Hears, TellsOK, Moving
    <2> QED
      BY <1>1, <1>2, <1>3, <2>1, <2>2 DEF HandlerTells, dirVars, connVars, Moving
  <1>5. UpToDate(d)'
    <2>1. UpToDate(d)
      BY DEF TellsOK
    <2> QED
      BY <1>1, <1>2, <1>3, <2>1
         DEF UpToDate, Catches, Listens, Behind, dirVars, toldVars, connVars
  <1>6. /\ \A r \in Rooms : revision'[r] >= revision[r]
        /\ \A r \in Legacy : revision'[r] = revision[r] /\ ~Settles(op[d], r)
    BY <1>2, RevisionTypes DEF dirVars, Settles
  <1> QED
    BY <1>2, <1>3, <1>4, <1>5, <1>6, SilentStep DEF dirVars, toldVars, connVars

LEMMA AdapterTells ==
    ASSUME Inv, Inv', TellsOK, NEW d \in Devices, MoveAdapter(d)
    PROVE  TellsOK'
  <1>1. /\ op[d].stage = "adapter" /\ Carries(op[d])
        /\ op' = [op EXCEPT ![d].stage = "persist"] /\ UNCHANGED <<dirVars, toldVars, connected>>
        /\ stranded' \subseteq stranded
        /\ \A e \in Devices \ {d} : joined'[e] = joined[e]
    BY MembershipOf DEF MoveAdapter, Inv, NamespacesOK
  <1>2. /\ op'[d].stage = "persist" /\ op'[d].from = op[d].from /\ op'[d].to = op[d].to
        /\ op'[d].as = op[d].as
        /\ \A e \in Devices \ {d} : op'[e] = op[e]
    BY <1>1 DEF Inv, HandlersOK, Carries, Moves, Moving
  <1>3. HandlerTells(d)'
    <2>1. StillFrom(d)'
      BY <1>1, <1>2 DEF TellsOK, HandlerTells, StillFrom, dirVars, Moving
    <2> QED
      BY <1>2, <2>1 DEF HandlerTells, Moving
  <1>4. UpToDate(d)'
    <2>1. UpToDate(d)
      BY DEF TellsOK
    <2> QED
      BY <1>1, <1>2, <2>1 DEF UpToDate, Catches, Listens, Behind, dirVars, toldVars
  <1>5. /\ \A r \in Rooms : revision'[r] >= revision[r]
        /\ \A r \in Legacy : revision'[r] = revision[r] /\ ~Settles(op[d], r)
    BY <1>1, RevisionTypes DEF dirVars, Settles
  <1> QED
    BY <1>1, <1>2, <1>3, <1>4, <1>5, SilentStep DEF dirVars, toldVars

OnList(L, r) == \E i \in 1..Len(L) : L[i] = r

\* Every legacy room a move changes is on the list of rooms to be told.
LEMMA ChangedRoomsTold ==
    ASSUME NEW from \in Rooms \cup {Nil}, NEW home \in Rooms \cup {Nil}, NEW to \in Legacy \cup {Nil},
           NEW renamed \in BOOLEAN, NEW bumping \in BOOLEAN, bumping = (renamed /\ to # Nil),
           NEW told \in BOOLEAN, (from = home /\ told = renamed) \/ (from = Nil /\ home # to),
           NEW r \in Legacy \cap BumpedByMove(from, to, bumping)
    PROVE  OnList(ToldOfMove(home, to, told), r)
  <1> DEFINE L == ToldOfMove(home, to, told)
  <1> SUFFICES \E i \in 1..Len(L) : L[i] = r
    BY DEF OnList
  <1>1. r \in {from, to} \ {Nil} /\ (from # to \/ (renamed /\ to # Nil)) /\ r # Pool /\ r # Nil
    BY RoomValues DEF BumpedByMove
  <1>2. CASE home = to
    <2>1. from = to /\ r = to /\ renamed /\ told
      BY <1>1, <1>2, RoomValues
    <2>2. L = <<r>>
      BY <1>1, <1>2, <2>1 DEF ToldOfMove, Listed
    <2>3. Len(L) = 1 /\ L[1] = r
      BY <2>2
    <2> QED
      BY <2>3
  <1>3. CASE home # to
    <2>1. L = Listed(home) \o Listed(to)
      BY <1>3 DEF ToldOfMove
    <2>2. CASE r = to
      <3>1. Listed(to) = <<r>>
        BY <1>1, <2>2 DEF Listed
      <3>2. CASE home = Nil
        <4>1. Len(L) = 1 /\ L[1] = r
          BY <2>1, <3>1, <3>2 DEF Listed
        <4> QED
          BY <4>1
      <3>3. CASE home # Nil
        <4>1. Len(L) = 2 /\ L[2] = r
          BY <2>1, <3>1, <3>3 DEF Listed
        <4> QED
          BY <4>1
      <3> QED
        BY <3>2, <3>3
    <2>3. CASE r # to
      <3>1. r = from /\ home = r
        BY <1>1, <2>3
      <3>2. Listed(home) = <<r>> /\ Listed(to) \in Seq(Rooms)
        BY <1>1, <3>1, ListedType, RoomValues DEF Listed
      <3>3. Len(L) >= 1 /\ L[1] = r
        BY <2>1, <3>2
      <3> QED
        BY <3>3
    <2> QED
      BY <2>2, <2>3
  <1> QED
    BY <1>2, <1>3

LEMMA BumpedRises ==
    ASSUME Inv, NEW rooms, revision' = Bumped(rooms)
    PROVE  \A r \in Rooms : revision'[r] = IF r \in rooms THEN revision[r] + 1 ELSE revision[r]
  BY DEF Bumped

\* A room whose revision was bumped is behind until it is told.
LEMMA BumpedBehind ==
    ASSUME Inv, TellsOK, NEW rooms, revision' = Bumped(rooms), announced' = announced,
           NEW r \in Legacy \cap rooms
    PROVE  Behind(r)'
  <1>1. /\ r \in Rooms /\ revision[r] \in Int /\ announced[r] \in Int /\ revision[r] >= 0
        /\ announced[r] <= revision[r] /\ revision'[r] = revision[r] + 1
    BY RevisionTypes, BumpedRises DEF TellsOK
  <1> QED
    BY <1>1 DEF Behind

LEMMA PersistTells ==
    ASSUME Inv, Inv', TellsOK, NEW d \in Devices, PersistMove(d)
    PROVE  TellsOK'
  <1>1. PICK from, to, home, renamed, told :
            /\ from = member[d].room /\ to = op[d].to /\ home = op[d].from
            /\ renamed = (member[d].name # op[d].name) /\ told = (op[d].as # op[d].name)
    OBVIOUS
  <1>0. PICK bumping \in BOOLEAN : bumping = (renamed /\ to # Nil)
    OBVIOUS
  <1> DEFINE rooms == BumpedByMove(from, to, bumping)
             L == ToldOfMove(home, to, told)
  <1>2. /\ op[d].stage = "persist" /\ to \in Legacy \cup {Nil} /\ home \in Rooms \cup {Nil}
        /\ from \in Rooms \cup {Nil} /\ renamed \in BOOLEAN /\ told \in BOOLEAN
    BY <1>1, MembershipOf DEF PersistMove, Carries, Moves, Moving
  <1>14. \/ from = home /\ told = renamed
         \/ from = Nil /\ (home = Pool \/ (home \in purged /\ d \notin connected))
    <2>1. StillFrom(d)
      BY <1>2 DEF TellsOK, HandlerTells, Moving
    <2> QED
      BY <1>1, <2>1, RoomValues DEF StillFrom
  <1>3. /\ revision' = Bumped(rooms) /\ op' = [op EXCEPT ![d] = Announcing(L)]
        /\ UNCHANGED <<toldVars, connVars, purged>>
    BY <1>0, <1>1 DEF PersistMove, Bump
  <1>4. member'[d].room = to /\ \A e \in Devices \ {d} : member'[e] = member[e]
    BY <1>1, RoomValues DEF PersistMove, Inv, DirectoryOK
  <1>5. op'[d] = Announcing(L) /\ \A e \in Devices \ {d} : op'[e] = op[e]
    BY <1>3 DEF Inv, HandlersOK
  <1>6. ASSUME NEW r \in Legacy \cap rooms, r \notin purged \/ d \in connected
        PROVE  OnList(L, r)
    <2>1. (from = home /\ told = renamed) \/ (from = Nil /\ home # to)
      <3>1. CASE from = home /\ told = renamed
        BY <3>1
      <3>2. CASE from = Nil /\ (home = Pool \/ (home \in purged /\ d \notin connected))
        <4>1. r = to /\ r # Pool
          BY <3>2, RoomValues DEF BumpedByMove
        <4> QED
          BY <1>6, <3>2, <4>1
      <3> QED
        BY <1>14, <3>1, <3>2
    <2> QED
      BY <1>0, <1>2, <2>1, ChangedRoomsTold
  <1>7. to \in Legacy /\ to \notin rooms => from = to /\ ~bumping
    BY <1>0, RoomValues DEF BumpedByMove
  <1> HIDE DEF L, rooms
  <1>8. /\ Announcing(L).stage \in {"idle", "revision"}
        /\ \A r : OnList(L, r) => Announcing(L).stage = "revision" /\ Announcing(L).rooms = L
    BY RoomValues DEF Announcing, OnList
  <1>9. HandlerTells(d)'
    BY <1>5, <1>8 DEF HandlerTells, Moving
  <1>13. ASSUME NEW r, OnList(L, r)
         PROVE  Settles(op[d], r)' /\ Catches(op[d], r)'
    <2>1. op'[d].stage = "revision" /\ op'[d].rooms = L
      BY <1>5, <1>8, <1>13
    <2>2. PICK i \in 1..Len(L) : L[i] = r
      BY <1>13 DEF OnList
    <2>3. \E j \in 1..Len(op'[d].rooms) : op'[d].rooms[j] = r
      BY <2>1, <2>2, Zenon
    <2> QED
      BY <2>1, <2>3, Zenon DEF Settles, Catches
  <1>10. \A r \in Legacy : \/ r \in purged' \/ Settles(op[d], r)'
                           \/ revision'[r] = revision[r] /\ ~Settles(op[d], r)
    <2> TAKE r \in Legacy
    <2>1. CASE r \in rooms
      BY <1>3, <1>6, <1>13, <2>1
    <2>2. CASE r \notin rooms
      <3>1. r \in Rooms /\ revision'[r] = revision[r]
        BY <1>3, <2>2, BumpedRises, RoomValues
      <3> QED
        BY <1>2, <3>1 DEF Settles
    <2> QED
      BY <2>1, <2>2
  <1>11. \A r \in Rooms : revision'[r] >= revision[r]
    BY <1>3, BumpedRises, RevisionTypes
  <1>12. UpToDate(d)'
    <2> SUFFICES ASSUME Listens(d)'
                 PROVE  \/ seen'[d][to] = announced'[to]
                        \/ Behind(to)' /\ Catches(op[d], to)'
      BY <1>4 DEF UpToDate, Behind, Catches
    <2>1. to \in Legacy /\ d \in connected
      BY <1>3, <1>4 DEF Listens, connVars
    <2>2. CASE to \in rooms
      <3>1. Behind(to)'
        BY <1>3, <2>1, <2>2, BumpedBehind DEF toldVars
      <3>2. OnList(L, to)
        BY <1>6, <2>1, <2>2
      <3> QED
        BY <1>13, <3>1, <3>2
    <2>3. CASE to \notin rooms
      <3>1. from = to /\ revision'[to] = revision[to]
        BY <1>3, <1>7, <2>1, <2>3, BumpedRises, RoomValues
      <3>2. Listens(d)
        BY <1>1, <1>3, <2>1, <3>1 DEF Listens, connVars
      <3>3. seen[d][to] = announced[to] \/ Catches(op[d], to)
        BY <1>1, <3>1, <3>2 DEF TellsOK, UpToDate
      <3>4. seen[d][to] = announced[to]
        BY <1>2, <3>3 DEF Catches
      <3> QED
        BY <1>3, <3>4 DEF toldVars
    <2> QED
      BY <2>2, <2>3
  <1> QED
    BY <1>3, <1>4, <1>5, <1>9, <1>10, <1>11, <1>12, SilentStep DEF toldVars, connVars

LEMMA RenameTells ==
    ASSUME Inv, Inv', TellsOK, NEW d \in Devices, NEW n \in Names, Rename(d, n)
    PROVE  TellsOK'
  <1>1. PICK r : r = member[d].room
    OBVIOUS
  <1>2. /\ r \in Rooms /\ op[d] = Idle /\ revision' = Bumped({r})
        /\ op' = [op EXCEPT ![d] = Announcing(<<r>>)]
        /\ UNCHANGED <<toldVars, connVars, purged>>
        /\ member'[d].room = r /\ \A e \in Devices \ {d} : member'[e] = member[e]
    BY <1>1, MembershipOf DEF Rename, Bump, Ready, Inv, DirectoryOK
  <1>3. /\ op'[d].stage = "revision" /\ op'[d].rooms = <<r>>
        /\ \A e \in Devices \ {d} : op'[e] = op[e]
    BY <1>2 DEF Inv, HandlersOK, Announcing
  <1>8. \A q \in Rooms : revision'[q] = IF q \in {r} THEN revision[q] + 1 ELSE revision[q]
    BY <1>2, BumpedRises
  <1>4. HandlerTells(d)'
    BY <1>3 DEF HandlerTells, Moving
  <1>9. Settles(op[d], r)' /\ Catches(op[d], r)'
    <2>1. 1 \in 1..Len(<<r>>) /\ <<r>>[1] = r
      OBVIOUS
    <2>2. \E j \in 1..Len(op'[d].rooms) : op'[d].rooms[j] = r
      BY <1>3, <2>1, Zenon
    <2> QED
      BY <1>3, <2>2, Zenon DEF Settles, Catches
  <1>5. \A q \in Legacy : \/ q \in purged' \/ Settles(op[d], q)'
                          \/ revision'[q] = revision[q] /\ ~Settles(op[d], q)
    <2> TAKE q \in Legacy
    <2>1. CASE q = r
      BY <1>9, <2>1
    <2>2. CASE q # r
      <3>1. q \in Rooms /\ revision'[q] = revision[q]
        BY <1>2, <1>8, <2>2, RoomValues
      <3> QED
        BY <1>2, <3>1, RoomValues DEF Settles
    <2> QED
      BY <2>1, <2>2
  <1>6. \A q \in Rooms : revision'[q] >= revision[q]
    BY <1>8, RevisionTypes
  <1>7. UpToDate(d)'
    <2> SUFFICES ASSUME r \in Legacy PROVE Behind(r)'
      BY <1>2, <1>9 DEF UpToDate, Listens, Behind, Catches
    <2> QED
      BY <1>2, BumpedBehind DEF toldVars
  <1> QED
    BY <1>2, <1>3, <1>4, <1>5, <1>6, <1>7, SilentStep DEF toldVars, connVars

LEMMA PoolTells ==
    ASSUME Inv, Inv', TellsOK, NEW d \in Devices,
           Expire(d) \/ RemoveTemporary(d) \/ \E n \in Names : PoolJoin(d, n)
    PROVE  TellsOK'
  <1>1. /\ UNCHANGED <<revision, toldVars, connVars, op, purged>>
        /\ member'[d].room \notin Legacy /\ \A e \in Devices \ {d} : member'[e] = member[e]
        /\ op[d] = Idle \/ (member[d].room = Pool /\ member'[d] = Out)
    BY RoomValues DEF Expire, RemoveTemporary, PoolJoin, Leaves, Hush, Ready, Inv, DirectoryOK
  <1>2. HandlerTells(d)'
    <2>1. HandlerTells(d)
      BY DEF TellsOK
    <2>2. op[d].stage \in Moving => StillFrom(d)'
      BY <1>1, <2>1, RoomValues DEF HandlerTells, StillFrom, Moving
    <2> QED
      BY <1>1, <2>1, <2>2, RoomValues DEF HandlerTells, Moving, toldVars, connVars
  <1>3. UpToDate(d)'
    BY <1>1 DEF UpToDate, Listens
  <1>4. \A r \in Rooms : revision'[r] >= revision[r]
    BY <1>1, RevisionTypes
  <1>5. ASSUME NEW e \in Devices \ {d} PROVE HandlerTells(e)' /\ UpToDate(e)'
    <2>1. HandlerTells(e) /\ UpToDate(e) /\ (StillFrom(e) => StillFrom(e)')
      BY <1>1 DEF TellsOK, StillFrom, connVars
    <2> QED
      BY <1>1, <2>1 DEF HandlerTells, UpToDate, Catches, Listens, Behind, toldVars, connVars
  <1>6. \A r \in Legacy \ purged' : Behind(r)' => \E e \in Devices : Settles(op[e], r)'
    BY <1>1 DEF TellsOK, Behind, Settles, toldVars
  <1> QED
    BY <1>1, <1>2, <1>3, <1>5, <1>6 DEF TellsOK, toldVars, connVars

\* Nobody is told of a deletion, so its room is no longer among those the
\* property speaks of.
LEMMA DeletionTells ==
    ASSUME Inv, Inv', TellsOK, NEW d \in Devices, AdminDelete(d)
    PROVE  TellsOK'
  <1>1. PICK q : q = member[d].room
    OBVIOUS
  <1>2. /\ q \in Rooms /\ revision' = Bumped({q}) /\ purged' = purged \cup {q}
        /\ d \notin connected /\ member[d] # Out /\ member'[d] = Out
        /\ \A e \in Devices \ {d} : member'[e] = member[e]
        /\ UNCHANGED <<toldVars, connVars, op>>
    BY <1>1, MembershipOf DEF AdminDelete, Leaves, Bump, Inv, DirectoryOK
  <1>3. \A r \in Rooms : revision'[r] = IF r \in {q} THEN revision[r] + 1 ELSE revision[r]
    BY <1>2, BumpedRises
  <1>4. \A r \in Rooms : revision'[r] >= revision[r]
    BY <1>3, RevisionTypes
  <1>5. HandlerTells(d)'
    <2>1. HandlerTells(d) /\ Carries(op[d])
      BY MembershipOf DEF TellsOK
    <2>2. op[d].stage \in Moving => StillFrom(d)'
      BY <1>1, <1>2, <2>1 DEF HandlerTells, StillFrom, connVars
    <2>3. CASE op[d].stage = "announce"
      <3>1. Head(op[d].rooms) \in Rooms /\ op[d].rev \in Int
        BY <2>1, <2>3 DEF Carries, RoomLists
      <3>2. op[d].rev <= revision[Head(op[d].rooms)]
        BY <2>1, <2>3 DEF HandlerTells
      <3>3. op[d].rev <= revision'[Head(op[d].rooms)]
        BY <1>3, <3>1, <3>2, RevisionTypes
      <3> QED
        BY <1>2, <2>3, <3>3 DEF HandlerTells, Moving
    <2>4. CASE op[d].stage # "announce"
      BY <1>2, <2>1, <2>2, <2>4 DEF HandlerTells, connVars
    <2> QED
      BY <2>3, <2>4
  <1>6. UpToDate(d)'
    BY <1>2 DEF UpToDate, Listens, connVars
  <1>7. \A r \in Legacy : \/ r \in purged' \/ Settles(op[d], r)'
                          \/ revision'[r] = revision[r] /\ ~Settles(op[d], r)
    <2> SUFFICES ASSUME NEW r \in Legacy, r # q
                 PROVE  Settles(op[d], r)' \/ (revision'[r] = revision[r] /\ ~Settles(op[d], r))
      BY <1>2
    <2>1. revision'[r] = revision[r]
      BY <1>3, RoomValues
    <2> QED
      BY <1>2, <2>1 DEF Settles
  <1> QED
    BY <1>2, <1>4, <1>5, <1>6, <1>7, SilentStep DEF toldVars, connVars

\* Revision rev of room r is announced in the same step that makes it, or later.
LEMMA TellingStep ==
    ASSUME Inv, Inv', TellsOK, NEW d \in Devices, NEW r \in Legacy, NEW rev \in Int,
           announced[r] < rev, rev <= revision'[r],
           \A q \in Rooms : IF q = r THEN revision'[q] >= revision[q]
                           ELSE revision'[q] = revision[q],
           announced' = [announced EXCEPT ![r] = rev],
           \A e \in Devices : /\ r \in joined[e] => seen'[e] = [seen[e] EXCEPT ![r] = rev]
                              /\ \A q \in Legacy \ {r} : seen'[e][q] = seen[e][q],
           UNCHANGED <<member, purged, connVars>>,
           op[d].stage \notin Moving, op'[d].stage \notin Moving \cup {"announce"},
           \A q \in Legacy \ {r} : Catches(op[d], q) => Catches(op[d], q)',
           \A e \in Devices \ {d} : op'[e] = op[e],
           \A q \in Legacy \ purged : Behind(q)' => \E e \in Devices : Settles(op[e], q)'
    PROVE  TellsOK'
  <1>1. /\ \A q \in Rooms : revision[q] \in Int /\ revision'[q] \in Int /\ revision[q] >= 0
        /\ \A q \in Legacy : q \in Rooms /\ announced[q] \in Int /\ announced[q] <= revision[q]
        /\ \A q \in Legacy : announced'[q] = IF q = r THEN rev ELSE announced[q]
    BY RevisionTypes, RoomValues DEF Inv, DirectoryOK, ToldOK, TellsOK
  <1>2. \A q \in Rooms : revision'[q] >= revision[q]
    BY <1>1
  <1>3. \A q \in Rooms : revision'[q] >= 0
    BY <1>1, <1>2
  <1>4. \A q \in Legacy : announced'[q] <= revision'[q]
    BY <1>1, <1>2
  <1>5. HandlerTells(d)'
    BY DEF HandlerTells, Moving
  <1>6. ASSUME NEW e \in Devices \ {d} PROVE HandlerTells(e)'
    <2>1. HandlerTells(e) /\ Carries(op[e])
      BY MembershipOf DEF TellsOK
    <2>2. CASE op[e].stage = "announce"
      <3>1. Head(op[e].rooms) \in Rooms /\ op[e].rev \in Int
        BY <2>1, <2>2 DEF Carries, RoomLists
      <3>2. op[e].rev <= revision[Head(op[e].rooms)]
        BY <2>1, <2>2 DEF HandlerTells
      <3>3. op[e].rev <= revision'[Head(op[e].rooms)]
        BY <1>1, <1>2, <3>1, <3>2
      <3> QED
        BY <2>2, <3>3 DEF HandlerTells, Moving
    <2>3. CASE op[e].stage # "announce"
      <3>1. StillFrom(e) => StillFrom(e)'
        BY DEF StillFrom, connVars
      <3> QED
        BY <2>1, <2>3, <3>1 DEF HandlerTells, connVars
    <2> QED
      BY <2>2, <2>3
  <1>7. ASSUME NEW e \in Devices PROVE UpToDate(e)'
    <2> SUFFICES ASSUME Listens(e)'
                 PROVE  \/ seen'[e][member[e].room] = announced'[member[e].room]
                        \/ Behind(member[e].room)' /\ Catches(op[e], member[e].room)'
      BY DEF UpToDate, Behind, Catches
    <2>1. Listens(e)
      BY DEF Listens, connVars, Moving
    <2>2. PICK q \in Legacy : q = member[e].room
      BY <2>1 DEF Listens
    <2>3. seen[e][q] = announced[q] \/ (Behind(q) /\ Catches(op[e], q))
      BY <2>1, <2>2 DEF TellsOK, UpToDate
    <2>4. CASE q = r
      <3>1. r \in joined[e]
        BY <2>1, <2>2, <2>4, ListenersJoined
      <3>2. seen'[e][r] = rev
        BY <3>1 DEF Inv, ToldOK
      <3> QED
        BY <1>1, <2>2, <2>4, <3>2
    <2>5. CASE q # r
      <3>1. seen'[e][q] = seen[e][q] /\ announced'[q] = announced[q] /\ revision'[q] = revision[q]
        BY <1>1, <2>5
      <3>2. Behind(q) => Behind(q)'
        BY <3>1 DEF Behind
      <3>3. Catches(op[e], q) => Catches(op[e], q)'
        <4>1. CASE e = d
          BY <2>5, <4>1
        <4>2. CASE e # d
          BY <3>1, <4>2 DEF Catches
        <4> QED
          BY <4>1, <4>2
      <3>4. seen'[e][q] = announced'[q] \/ (Behind(q)' /\ Catches(op[e], q)')
        BY <2>3, <3>1, <3>2, <3>3
      <3> QED
        BY <2>2, <3>4
    <2> QED
      BY <2>4, <2>5
  <1> QED
    BY <1>3, <1>4, <1>5, <1>6, <1>7 DEF TellsOK, connVars

LEMMA SaveTells ==
    ASSUME Inv, Inv', TellsOK, NEW d \in Devices, SaveSnapshot(d)
    PROVE  TellsOK'
  <1>1. PICK r : r = op[d].room
    OBVIOUS
  <1>2. /\ op[d].stage = "upload" /\ Carries(op[d]) /\ r \in Rooms
        /\ UNCHANGED <<member, purged, connVars>>
    BY <1>1, MembershipOf DEF SaveSnapshot, Carries, Uploads
  <1>3. CASE ~Accepts(d, r, op[d].rev, op[d].content)
    <2>1. UNCHANGED <<revision, toldVars>> /\ op' = [op EXCEPT ![d] = Idle]
      BY <1>1, <1>3 DEF SaveSnapshot
    <2> QED
      BY <1>2, <2>1, BystanderStep, RoomValues DEF connVars, Moving
  <1>4. CASE Accepts(d, r, op[d].rev, op[d].content)
    <2>1. PICK o : o = IF r = Pool THEN [stage |-> "stored"] ELSE Idle
      OBVIOUS
    <2>2. /\ revision' = Bumped({r}) /\ op' = [op EXCEPT ![d] = o]
          /\ Announce(d, r, revision'[r])
      BY <1>1, <1>4, <2>1 DEF SaveSnapshot, Bump
    <2>3. o.stage \in {"idle", "stored"}
      BY <2>1, RoomValues
    <2>4. op'[d] = o /\ \A e \in Devices \ {d} : op'[e] = op[e]
      BY <2>2 DEF Inv, HandlersOK
    <2>5. \A q \in Rooms : /\ revision[q] \in Int /\ revision[q] >= 0
                           /\ revision'[q] = IF q \in {r} THEN revision[q] + 1 ELSE revision[q]
      BY <2>2, BumpedRises, RevisionTypes DEF TellsOK
    <2>6. \A q \in Legacy : ~Settles(op[d], q) /\ ~Catches(op[d], q)
      BY <1>2 DEF Settles, Catches
    <2>7. CASE r = Pool
      <3>1. /\ UNCHANGED toldVars
            /\ \A q \in Legacy : q \in Rooms /\ q # r
        BY <2>2, <2>7, RoomValues DEF Announce
      <3>2. UpToDate(d)'
        <4>1. UpToDate(d)
          BY DEF TellsOK
        <4> QED
          BY <1>2, <2>3, <2>4, <2>6, <3>1, <4>1 DEF UpToDate, Listens, toldVars, connVars
      <3>3. /\ \A q \in Rooms : revision'[q] >= revision[q]
            /\ \A q \in Legacy : revision'[q] = revision[q]
        BY <2>5, <3>1
      <3>4. HandlerTells(d)'
        BY <2>3, <2>4 DEF HandlerTells, Moving
      <3> QED
        BY <1>2, <2>4, <2>6, <3>1, <3>2, <3>3, <3>4, SilentStep DEF toldVars, connVars
    <2>8. CASE r # Pool
      <3>1. PICK rev \in Int : rev = revision'[r] /\ rev = revision[r] + 1 /\ rev > 0
        BY <1>2, <2>5
      <3>2. r \in Legacy /\ announced[r] < rev
        BY <1>2, <2>8, <3>1, RevisionTypes, RoomValues DEF TellsOK, Rooms
      <3>3. /\ announced' = [announced EXCEPT ![r] = rev]
            /\ seen' = [e \in Devices |->
                          IF r \in joined[e] \/ (e = d /\ d \in connected)
                            THEN [seen[e] EXCEPT ![r] = rev] ELSE seen[e]]
        BY <2>2, <3>1, <3>2 DEF Announce, Newer
      <3>4. \A e \in Devices : /\ r \in joined[e] => seen'[e] = [seen[e] EXCEPT ![r] = rev]
                               /\ \A q \in Legacy \ {r} : seen'[e][q] = seen[e][q]
        BY <3>3 DEF Inv, ToldOK
      <3>5. \A q \in Rooms : IF q = r THEN revision'[q] >= revision[q]
                            ELSE revision'[q] = revision[q]
        BY <2>5
      <3>6. ASSUME NEW q \in Legacy \ purged, Behind(q)' PROVE \E e \in Devices : Settles(op[e], q)'
        <4>1. announced'[q] = IF q = r THEN rev ELSE announced[q]
          BY <3>3 DEF Inv, ToldOK
        <4>2. announced'[q] < revision'[q] /\ revision'[q] > 0
          BY <3>6 DEF Behind
        <4>3. q # r
          <5> SUFFICES ASSUME q = r PROVE FALSE
            OBVIOUS
          <5>1. rev < rev
            BY <3>1, <4>1, <4>2
          <5> QED
            BY <5>1
        <4>4. Behind(q) /\ revision'[q] = revision[q]
          BY <2>5, <4>1, <4>2, <4>3, RoomValues DEF Behind
        <4>5. PICK e \in Devices : Settles(op[e], q)
          BY <4>4 DEF TellsOK
        <4>6. e # d
          BY <2>6, <4>5
        <4> QED
          BY <2>4, <4>4, <4>5, <4>6 DEF Settles
      <3>7. op[d].stage \notin Moving /\ op'[d].stage \notin Moving \cup {"announce"}
        BY <1>2, <2>3, <2>4 DEF Moving
      <3>8. rev <= revision'[r]
        BY <3>1
      <3> QED
        BY <1>2, <2>4, <2>6, <3>1, <3>2, <3>3, <3>4, <3>5, <3>6, <3>7, <3>8, TellingStep
    <2> QED
      BY <2>7, <2>8
  <1> QED
    BY <1>3, <1>4

\* The list of a suspended announcement: its head is told next, its tail later.
LEMMA HeadAndTail ==
    ASSUME NEW L \in RoomLists
    PROVE  /\ Head(L) \in Rooms
           /\ Tail(L) # <<>> => Tail(L) \in RoomLists
           /\ \A r : OnList(L, r) <=> Head(L) = r \/ OnList(Tail(L), r)
           /\ \A r : OnList(Tail(L), r) <=> \E i \in 2..Len(L) : L[i] = r
  <1>1. /\ L \in Seq(Rooms) /\ Len(L) \in Nat /\ Len(L) >= 1 /\ Head(L) = L[1] /\ L[1] \in Rooms
        /\ Tail(L) \in Seq(Rooms) /\ Len(Tail(L)) = Len(L) - 1
        /\ \A i \in 1..Len(L) - 1 : Tail(L)[i] = L[i + 1]
    BY DEF RoomLists
  <1>2. ASSUME NEW r PROVE OnList(Tail(L), r) <=> \E i \in 2..Len(L) : L[i] = r
    <2>1. ASSUME NEW i \in 2..Len(L), L[i] = r PROVE OnList(Tail(L), r)
      <3>1. i - 1 \in 1..Len(Tail(L)) /\ Tail(L)[i - 1] = r
        BY <1>1, <2>1
      <3> QED
        BY <3>1 DEF OnList
    <2>2. ASSUME NEW i \in 1..Len(Tail(L)), Tail(L)[i] = r PROVE \E j \in 2..Len(L) : L[j] = r
      <3>1. i + 1 \in 2..Len(L) /\ L[i + 1] = r
        BY <1>1, <2>2
      <3> QED
        BY <3>1
    <2> QED
      BY <2>1, <2>2 DEF OnList
  <1>3. ASSUME NEW r PROVE OnList(L, r) <=> Head(L) = r \/ \E i \in 2..Len(L) : L[i] = r
    <2>1. 1 \in 1..Len(L) /\ 1..Len(L) = {1} \cup 2..Len(L)
      BY <1>1
    <2> QED
      BY <1>1, <2>1 DEF OnList
  <1> QED
    BY <1>1, <1>2, <1>3 DEF RoomLists

LEMMA AnnouncementTells ==
    ASSUME Inv, Inv', TellsOK, NEW d \in Devices, ReadRevision(d) \/ AnnounceRevision(d)
    PROVE  TellsOK'
  <1>1. PICK L, r : L = op[d].rooms /\ r = Head(L)
    OBVIOUS
  <1>2. /\ L \in RoomLists /\ r \in Rooms
        /\ Tail(L) # <<>> => Tail(L) \in RoomLists
        /\ \A q : OnList(L, q) <=> r = q \/ OnList(Tail(L), q)
        /\ \A q : OnList(Tail(L), q) <=> \E i \in 2..Len(L) : L[i] = q
        /\ op[d].stage \in {"revision", "announce"} /\ Carries(op[d])
    <2>1. L \in RoomLists /\ op[d].stage \in {"revision", "announce"} /\ Carries(op[d])
      BY <1>1, MembershipOf DEF Carries, ReadRevision, AnnounceRevision
    <2> QED
      BY <1>1, <2>1, HeadAndTail
  <1>3. \A q \in Rooms : revision[q] \in Int /\ (q \in Legacy => announced[q] \in Int)
    BY RevisionTypes
  <1>4. CASE ReadRevision(d)
    <2>1. PICK rev : rev = revision[r]
      OBVIOUS
    <2>2. PICK o : o = [stage |-> "announce", rooms |-> L, rev |-> rev]
      OBVIOUS
    <2>3. /\ op' = [op EXCEPT ![d] = o] /\ UNCHANGED <<dirVars, toldVars, connVars>>
          /\ op[d].stage = "revision" /\ o.stage = "announce" /\ o.rooms = L /\ o.rev = rev
      BY <1>1, <1>4, <2>1, <2>2 DEF ReadRevision
    <2>4. op'[d] = o /\ \A e \in Devices \ {d} : op'[e] = op[e]
      BY <2>3 DEF Inv, HandlersOK
    <2>5. HandlerTells(d)'
      BY <1>1, <1>2, <1>3, <2>1, <2>3, <2>4 DEF HandlerTells, Moving, dirVars
    <2>9. ASSUME NEW q \in Legacy, Behind(q), Catches(op[d], q) PROVE Catches(op[d], q)'
      <3>1. OnList(L, q)
        BY <1>1, <2>3, <2>9 DEF Catches, OnList
      <3>2. CASE r = q
        <4>1. rev > announced'[q]
          BY <2>1, <2>3, <2>9, <3>2, RevisionTypes DEF Behind, toldVars
        <4> QED
          BY <1>1, <2>3, <2>4, <3>2, <4>1 DEF Catches
      <3>3. CASE r # q
        <4>1. \E i \in 2..Len(op'[d].rooms) : op'[d].rooms[i] = q
          BY <1>2, <2>3, <2>4, <3>1, <3>3
        <4> QED
          BY <2>3, <2>4, <4>1 DEF Catches
      <3> QED
        BY <3>2, <3>3
    <2>6. UpToDate(d)'
      <3>1. UpToDate(d)
        BY DEF TellsOK
      <3>2. \A q \in Legacy : Behind(q) => Behind(q)'
        BY <2>3 DEF Behind, dirVars, toldVars
      <3>3. Listens(d)' => Listens(d) /\ member'[d] = member[d]
        BY <2>3, <2>4 DEF Listens, dirVars, connVars
      <3> QED
        BY <2>3, <2>9, <3>1, <3>2, <3>3 DEF UpToDate, Listens, toldVars
    <2>7. \A q \in Legacy : \/ q \in purged' \/ Settles(op[d], q)'
                            \/ revision'[q] = revision[q] /\ ~Settles(op[d], q)
      <3> TAKE q \in Legacy
      <3>1. CASE OnList(L, q)
        <4>1. CASE r = q
          BY <1>1, <2>1, <2>3, <2>4, <4>1 DEF Settles, dirVars
        <4>2. CASE r # q
          <5>1. \E i \in 2..Len(op'[d].rooms) : op'[d].rooms[i] = q
            BY <1>2, <2>3, <2>4, <3>1, <4>2
          <5> QED
            BY <2>3, <2>4, <5>1 DEF Settles
        <4> QED
          BY <4>1, <4>2
      <3>2. CASE ~OnList(L, q)
        BY <1>1, <2>3, <3>2 DEF Settles, OnList, dirVars
      <3> QED
        BY <3>1, <3>2
    <2>8. \A q \in Rooms : revision'[q] >= revision[q]
      BY <1>3, <2>3 DEF dirVars
    <2> QED
      BY <2>3, <2>4, <2>5, <2>6, <2>7, <2>8, SilentStep DEF dirVars, toldVars, connVars
  <1>5. CASE AnnounceRevision(d)
    <2>1. PICK rev : rev = op[d].rev
      OBVIOUS
    <2>2. /\ op' = [op EXCEPT ![d] = Announcing(Tail(L))] /\ Announce(d, r, rev)
          /\ UNCHANGED <<dirVars, connVars>> /\ op[d].stage = "announce" /\ rev \in Int
      BY <1>1, <1>2, <1>5, <2>1 DEF AnnounceRevision, Carries
    <2>3. rev <= revision[r]
      BY <1>1, <2>1, <2>2 DEF TellsOK, HandlerTells
    <2>4. op'[d] = Announcing(Tail(L)) /\ \A e \in Devices \ {d} : op'[e] = op[e]
      BY <2>2 DEF Inv, HandlersOK
    <2>5. /\ op'[d].stage \in {"idle", "revision"}
          /\ \A q : OnList(Tail(L), q) => op'[d].stage = "revision" /\ op'[d].rooms = Tail(L)
      BY <2>4, RoomValues DEF Announcing, OnList
    <2>6. HandlerTells(d)'
      BY <2>5 DEF HandlerTells, Moving
    <2>7. \A q \in Legacy : Settles(op[d], q) <=> OnList(Tail(L), q) \/ (r = q /\ rev = revision[q])
      BY <1>1, <1>2, <2>1, <2>2, Zenon DEF Settles
    <2>8. \A q \in Legacy : OnList(Tail(L), q) => Settles(op[d], q)'
      <3> SUFFICES ASSUME NEW q \in Legacy, OnList(Tail(L), q) PROVE Settles(op[d], q)'
        OBVIOUS
      <3>1. \E i \in 1..Len(op'[d].rooms) : op'[d].rooms[i] = q
        BY <2>5 DEF OnList
      <3> QED
        BY <2>5, <3>1 DEF Settles
    <2>11. ASSUME NEW q \in Legacy, OnList(Tail(L), q) PROVE Catches(op[d], q)'
      <3>1. \E i \in 1..Len(op'[d].rooms) : op'[d].rooms[i] = q
        BY <2>5, <2>11 DEF OnList
      <3> QED
        BY <2>5, <2>11, <3>1 DEF Catches
    <2>12. \A q \in Legacy : Catches(op[d], q) <=> OnList(Tail(L), q) \/ (r = q /\ rev > announced[q])
      BY <1>1, <1>2, <2>1, <2>2, Zenon DEF Catches
    <2>9. CASE r \in Legacy /\ announced[r] < rev
      <3>1. /\ announced' = [announced EXCEPT ![r] = rev]
            /\ seen' = [e \in Devices |->
                          IF r \in joined[e] \/ (e = d /\ d \in connected)
                            THEN [seen[e] EXCEPT ![r] = rev] ELSE seen[e]]
        BY <1>3, <2>2, <2>9 DEF Announce, Newer
      <3>2. \A e \in Devices : /\ r \in joined[e] => seen'[e] = [seen[e] EXCEPT ![r] = rev]
                               /\ \A q \in Legacy \ {r} : seen'[e][q] = seen[e][q]
        BY <3>1 DEF Inv, ToldOK
      <3>3. \A q \in Rooms : IF q = r THEN revision'[q] >= revision[q]
                            ELSE revision'[q] = revision[q]
        BY <1>3, <2>2 DEF dirVars
      <3>4. ASSUME NEW q \in Legacy \ purged, Behind(q)' PROVE \E e \in Devices : Settles(op[e], q)'
        <4>1. /\ announced'[q] = IF q = r THEN rev ELSE announced[q]
              /\ revision'[q] = revision[q] /\ q \in Rooms
          BY <2>2, <3>1, RoomValues DEF Inv, ToldOK, dirVars
        <4>2. announced'[q] < revision'[q] /\ revision'[q] > 0
          BY <3>4 DEF Behind
        <4>3. Behind(q)
          <5>1. CASE q = r
            <6>1. announced[r] < revision[r]
              BY <1>2, <1>3, <2>2, <2>3, <2>9
            <6> QED
              BY <4>1, <4>2, <5>1, <6>1 DEF Behind
          <5>2. CASE q # r
            BY <4>1, <4>2, <5>2 DEF Behind
          <5> QED
            BY <5>1, <5>2
        <4>4. PICK e \in Devices : Settles(op[e], q)
          BY <4>3 DEF TellsOK
        <4>5. CASE e # d
          BY <2>4, <4>1, <4>4, <4>5 DEF Settles
        <4>6. CASE e = d
          <5>1. ~(r = q /\ rev = revision[q])
            <6> SUFFICES ASSUME r = q, rev = revision[q] PROVE FALSE
              OBVIOUS
            <6>1. rev < rev
              BY <4>1, <4>2
            <6> QED
              BY <2>2, <6>1
          <5>2. OnList(Tail(L), q)
            BY <2>7, <4>4, <4>6, <5>1
          <5> QED
            BY <2>8, <5>2
        <4> QED
          BY <4>5, <4>6
      <3>5. op[d].stage \notin Moving /\ op'[d].stage \notin Moving \cup {"announce"}
        BY <2>2, <2>5 DEF Moving
      <3>6. rev <= revision'[r] /\ revision[r] = revision'[r]
        BY <2>2, <2>3 DEF dirVars
      <3>7. \A q \in Legacy \ {r} : Catches(op[d], q) => Catches(op[d], q)'
        BY <2>11, <2>12
      <3> QED
        BY <2>2, <2>4, <2>9, <3>1, <3>2, <3>3, <3>4, <3>5, <3>6, <3>7, TellingStep DEF dirVars
    <2>10. CASE ~(r \in Legacy /\ announced[r] < rev)
      <3>1. UNCHANGED toldVars
        BY <1>3, <2>2, <2>10 DEF Announce, Newer
      <3>2. UpToDate(d)'
        <4>1. UpToDate(d)
          BY DEF TellsOK
        <4>2. ASSUME NEW q \in Legacy, Catches(op[d], q) PROVE Catches(op[d], q)'
          <5>1. ~(r = q /\ rev > announced[q])
            BY <1>3, <2>2, <2>10
          <5> QED
            BY <2>11, <2>12, <4>2, <5>1
        <4>3. \A q \in Legacy : Behind(q) => Behind(q)'
          BY <2>2, <3>1 DEF Behind, dirVars, toldVars
        <4>4. Listens(d)' => Listens(d) /\ member'[d] = member[d]
          BY <2>2 DEF Listens, dirVars, connVars, Moving
        <4> QED
          BY <3>1, <4>1, <4>2, <4>3, <4>4 DEF UpToDate, Listens, toldVars
      <3>3. ASSUME NEW e \in Devices \ {d} PROVE HandlerTells(e)' /\ UpToDate(e)'
        <4>1. HandlerTells(e) /\ UpToDate(e) /\ (StillFrom(e) => StillFrom(e)')
          BY <2>2, <2>4 DEF TellsOK, StillFrom, dirVars, connVars
        <4> QED
          BY <2>2, <2>4, <3>1, <4>1
             DEF HandlerTells, UpToDate, Catches, Listens, Behind, dirVars, toldVars, connVars
      <3>4. ASSUME NEW q \in Legacy \ purged, Behind(q)' PROVE \E e \in Devices : Settles(op[e], q)'
        <4>1. Behind(q) /\ revision'[q] = revision[q]
          BY <2>2, <3>1, <3>4 DEF Behind, dirVars, toldVars
        <4>2. PICK e \in Devices : Settles(op[e], q)
          BY <4>1 DEF TellsOK
        <4>3. CASE e # d
          BY <2>4, <4>1, <4>2, <4>3 DEF Settles
        <4>4. CASE e = d
          <5>1. ~(r = q /\ rev = revision[q])
            BY <1>3, <2>2, <2>10, <4>1 DEF Behind
          <5>2. OnList(Tail(L), q)
            BY <2>7, <4>2, <4>4, <5>1
          <5> QED
            BY <2>8, <5>2
        <4> QED
          BY <4>3, <4>4
      <3>5. /\ \A q \in Rooms : revision'[q] >= 0
            /\ \A q \in Legacy : announced'[q] <= revision'[q]
        BY <2>2, <3>1 DEF TellsOK, dirVars, toldVars
      <3> QED
        BY <2>2, <2>6, <3>2, <3>3, <3>4, <3>5 DEF TellsOK, dirVars, connVars
    <2> QED
      BY <2>9, <2>10
  <1> QED
    BY <1>4, <1>5

LEMMA ReaderTells ==
    ASSUME Inv, Inv', TellsOK, NEW d \in Devices,
           \/ \E rev \in 1..MaxClientRevision, c \in Contents : Upload(d, rev, c)
           \/ ReadStored(d) \/ Push(d) \/ ReadInitial(d) \/ SendInitial(d)
           \/ \E t \in Devices : Follow(d, t)
    PROVE  TellsOK'
  <1>1. op[d].stage \notin Moving \cup {"revision", "announce"}
    BY RoomValues DEF Upload, ReadStored, Push, ReadInitial, SendInitial, Follow, Ready, Moving
  <1>2. UNCHANGED <<dirVars, toldVars, connVars>>
    BY DEF Upload, ReadStored, Push, ReadInitial, SendInitial, Follow
  <1> DEFINE Later(o) == /\ o.stage \notin Moving \cup {"announce"}
                         /\ op' = [op EXCEPT ![d] = o]
  <1>3. SUFFICES \E o : Later(o)
    BY <1>1, <1>2, BystanderStep DEF dirVars, connVars
  <1>4. ASSUME NEW rev \in 1..MaxClientRevision, NEW c \in Contents, Upload(d, rev, c)
        PROVE  \E o : Later(o)
    <2>1. Later([stage |-> "upload", room |-> member[d].room, rev |-> rev, content |-> c])
      BY <1>4 DEF Upload, Moving
    <2> QED
      BY <2>1
  <1>5. CASE ReadStored(d)
    <2>1. Later([stage |-> "push", copy |-> Copied(d)])
      BY <1>5 DEF ReadStored, Moving
    <2> QED
      BY <2>1
  <1>6. CASE Push(d) \/ SendInitial(d)
    <2>1. Later(Idle)
      BY <1>6, RoomValues DEF Push, SendInitial, Moving
    <2> QED
      BY <2>1
  <1>7. CASE ReadInitial(d)
    <2>1. Later([stage |-> "send", copy |-> Copied(op[d].target)])
      BY <1>7 DEF ReadInitial, Moving
    <2> QED
      BY <2>1
  <1>8. ASSUME NEW t \in Devices, Follow(d, t) PROVE \E o : Later(o)
    <2>1. Later([stage |-> "initial", target |-> t])
      BY <1>8 DEF Follow, Moving
    <2> QED
      BY <2>1
  <1> QED
    BY <1>4, <1>5, <1>6, <1>7, <1>8

LEMMA ComparisonTells ==
    ASSUME Inv, Inv', TellsOK, NEW d \in Devices,
           \/ Compare(d) \/ Attempt(d) \/ CompareMembers(d) \/ CompareSnapshots(d)
           \/ CompareReread(d) \/ NextPage(d) \/ \E expired \in BOOLEAN : PageReread(d, expired)
           \/ \E limit \in PageSizes : CompareAnswer(d, limit) \/ ServePage(d, limit)
    PROVE  TellsOK'
  <1>1. /\ op[d].stage \notin Moving \cup {"revision", "announce"}
        /\ UNCHANGED <<dirVars, toldVars, connVars>>
    BY RoomValues DEF Compare, Attempt, CompareMembers, CompareSnapshots, CompareReread,
       NextPage, PageReread, CompareAnswer, ServePage, Ready, Moving
  <1>2. PICK o : /\ op' = [op EXCEPT ![d] = o]
                 /\ o.stage \in {"attempt", "members", "snapshots", "check", "checked",
                                 "token", "page", "idle"}
    BY ComparingStep
  <1>3. o.stage \notin Moving \cup {"announce"}
    BY <1>2 DEF Moving
  <1> QED
    BY <1>1, <1>2, <1>3, BystanderStep DEF dirVars, connVars

LEMMA TellsInit == Init => TellsOK
  BY RoomValues DEF Init, TellsOK, HandlerTells, UpToDate, Listens, Behind, Moving

\* Without a thrown error, no handler leaves a room behind that it changed.
LEMMA TellsNext ==
    ASSUME Inv, Inv', TellsOK, ~Faults, [Next]_vars
    PROVE  TellsOK'
  <1>1. CASE UNCHANGED vars
    BY <1>1, IdleTells DEF vars, dirVars, connVars
  <1>2. CASE Next
    <2>1. PICK d \in Devices :
             \/ Connect(d) \/ Disconnect(d) \/ Close(d) \/ Step(d)
             \/ "move" \in Ops /\ \E n \in Names, to \in Legacy : Move(d, to, n)
             \/ "leave" \in Ops /\ Move(d, Nil, Nil)
             \/ "rename" \in Ops /\ \E n \in Names : Rename(d, n)
             \/ "pool" \in Ops /\ \E n \in Names : PoolJoin(d, n)
             \/ "expire" \in Ops /\ Expire(d)
             \/ "delete" \in Ops /\ AdminDelete(d)
             \/ RemoveTemporary(d)
             \/ "upload" \in Ops /\ \E rev \in 1..MaxClientRevision, c \in Contents :
                                       Upload(d, rev, c)
             \/ "follow" \in Ops /\ (Unfollow(d) \/ \E t \in Devices : Follow(d, t))
             \/ "compare" \in Ops /\ (Compare(d) \/ NextPage(d))
      BY <1>2, Zenon DEF Next
    <2>2. CASE Connect(d) \/ Disconnect(d) \/ Close(d)
      BY <2>2, ConnectionTells
    <2>3. CASE Step(d)
      <3>1. /\ ~MoveAdapterFails(d) /\ ~PersistMoveFails(d)
            /\ ~RestoreAdapter(d) /\ ~RestoreAdapterFails(d)
        BY DEF MoveAdapterFails, PersistMoveFails, RestoreAdapter, RestoreAdapterFails,
           TellsOK, HandlerTells
      <3> QED
        BY <2>3, <3>1, AdapterTells, PersistTells, AnnouncementTells, SaveTells, ReaderTells,
           ComparisonTells DEF Step
    <2>4. ASSUME NEW n \in Names, NEW to \in Legacy, Move(d, to, n) PROVE TellsOK'
      BY <2>4, MoveTells
    <2>5. CASE Move(d, Nil, Nil)
      BY <2>5, MoveTells
    <2>6. CASE \/ \E n \in Names : Rename(d, n) \/ PoolJoin(d, n)
               \/ Expire(d) \/ RemoveTemporary(d) \/ AdminDelete(d)
      BY <2>6, RenameTells, PoolTells, DeletionTells
    <2>7. CASE \/ \E rev \in 1..MaxClientRevision, c \in Contents : Upload(d, rev, c)
               \/ \E t \in Devices : Follow(d, t)
               \/ Compare(d) \/ NextPage(d)
      BY <2>7, ReaderTells, ComparisonTells
    <2>8. CASE Unfollow(d)
      BY <2>8, IdleTells DEF Unfollow, dirVars, connVars
    <2> QED
      BY <2>1, <2>2, <2>3, <2>4, <2>5, <2>6, <2>7, <2>8
  <1> QED
    BY <1>1, <1>2

LEMMA TellsImplies == Inv /\ TellsOK => LatestChangeTold
  <1> SUFFICES ASSUME Inv, TellsOK, \A d \in Devices : op[d] = Idle
               PROVE  /\ \A r \in Legacy \ purged :
                            revision[r] > 0 => announced[r] = revision[r]
                      /\ \A d \in connected : member[d].room \in Legacy =>
                            seen[d][member[d].room] = announced[member[d].room]
    BY DEF LatestChangeTold
  <1>1. \A r \in Legacy \ purged : ~Behind(r)
    BY RoomValues DEF TellsOK, Settles
  <1>2. \A r \in Legacy \ purged : revision[r] > 0 => announced[r] = revision[r]
    BY <1>1, RevisionTypes DEF Behind, TellsOK
  <1>3. ASSUME NEW d \in connected, member[d].room \in Legacy
        PROVE  seen[d][member[d].room] = announced[member[d].room]
    BY <1>3, RoomValues DEF TellsOK, UpToDate, Catches, Listens, Inv, NamespacesOK
  <1> QED
    BY <1>2, <1>3

-----------------------------------------------------------------------------
(* The comparison of a room                                                *)

Comparing == {"attempt", "members", "snapshots", "check", "checked", "page"}

\* What the read of the members returns.
Listing(r) == {<<e, member[e].name>> : e \in {x \in Devices : member[x].room = r}}

\* These rows were read of room r at revision rev, or the room changed since.
StillShown(r, rev, shown, rows) == r \notin silent /\ rev = revision[r] => shown = rows

\* What a comparison under way has read is of the room as it is, as long as the
\* room has the revision that was read first and did not change without a new
\* one; once the revision was read again, of the room as it was then.
Compares(d) ==
    /\ op[d].stage \in {"attempt", "members", "snapshots", "check"} => op[d].room \in Rooms
    /\ op[d].stage \in {"members", "snapshots", "check"} =>
          op[d].rev \in Int /\ op[d].rev <= revision[op[d].room]
    /\ op[d].stage = "snapshots" =>
          StillShown(op[d].room, op[d].rev, Listing(op[d].room), op[d].listed)
    /\ op[d].stage = "check" =>
          StillShown(op[d].room, op[d].rev, Content(op[d].room), op[d].rows)
    /\ op[d].stage = "checked" =>
          /\ op[d].room \in Rooms /\ op[d].rev \in Int /\ op[d].rev <= revision[op[d].room]
          /\ op[d].last.after = op[d].rev => op[d].last.shown \in {Nil, op[d].rows}
          /\ StillShown(op[d].room, op[d].rev, Content(op[d].room), op[d].rows)
    /\ op[d].stage = "page" /\ session[d] # NoSession =>
          (op[d].last.after = session[d].rev => op[d].last.shown \in {Nil, session[d].rows})

AsSession(s) == [room |-> s.room, rev |-> s.rev, rows |-> s.rows, served |-> s.served,
                 cursor |-> s.cursor]

\* So is the comparison whose pages are being served.
Shows(d) ==
    /\ session[d] = AsSession(session[d])
    /\ session[d] # NoSession =>
          /\ session[d].room \in Rooms /\ session[d].rev \in Int
          /\ session[d].rev <= revision[session[d].room]
          /\ StillShown(session[d].room, session[d].rev, Content(session[d].room),
                        session[d].rows)

PagesOK ==
    /\ DOMAIN session = Devices
    /\ \A d \in Devices : Compares(d) /\ Shows(d)

\* A page that is served shows the room as it was when its revision was read last.
Current(d) ==
    session'[d] # session[d] /\ session'[d] # NoSession =>
        op[d].last.shown \in {Nil, session'[d].rows}

\* The content of r is as it was.
Same(r) ==
    \A e \in Devices : /\ member'[e].room = r <=> member[e].room = r
                       /\ member[e].room = r => member'[e] = member[e] /\ snapshot'[e] = snapshot[e]

\* Who changes the content of a room that is compared gives it a new revision,
\* or is on record.
Stamped(r) ==
    /\ revision'[r] >= revision[r]
    /\ revision'[r] = revision[r] /\ r \notin silent' =>
          r \notin silent /\ (Same(r) \/ r \notin Compared)

LEMMA SameContent ==
    ASSUME NEW r, Same(r)
    PROVE  Content(r)' = Content(r) /\ Listing(r)' = Listing(r)
  <1>1. {e \in Devices : member'[e].room = r} = {e \in Devices : member[e].room = r}
    BY DEF Same
  <1>2. PICK S : S = {e \in Devices : member[e].room = r}
    OBVIOUS
  <1>3. \A e \in S : member'[e] = member[e] /\ snapshot'[e] = snapshot[e]
    BY <1>2 DEF Same
  <1>4. {[device |-> e, name |-> member'[e].name, rev |-> snapshot'[e].rev,
           content |-> snapshot'[e].content] : e \in S}
        = {[device |-> e, name |-> member[e].name, rev |-> snapshot[e].rev,
            content |-> snapshot[e].content] : e \in S}
    BY <1>3
  <1>5. {<<e, member'[e].name>> : e \in S} = {<<e, member[e].name>> : e \in S}
    BY <1>3
  <1> QED
    BY <1>1, <1>2, <1>4, <1>5 DEF Content, Row, Listing

\* What was read of a room stays of the room as it is.
LEMMA ShownKeeps ==
    ASSUME Inv, Inv', NEW r \in Rooms, Stamped(r), r \in Compared,
           NEW rev \in Int, rev <= revision[r], NEW rows
    PROVE  /\ rev <= revision'[r]
           /\ StillShown(r, rev, Content(r), rows) => StillShown(r, rev, Content(r), rows)'
           /\ StillShown(r, rev, Listing(r), rows) => StillShown(r, rev, Listing(r), rows)'
  <1>1. revision[r] \in Int /\ revision'[r] \in Int
    BY DEF Inv, DirectoryOK
  <1>2. rev <= revision'[r]
    BY <1>1 DEF Stamped
  <1>3. r \notin silent' /\ rev = revision'[r] => r \notin silent /\ rev = revision[r] /\ Same(r)
    BY <1>1 DEF Stamped
  <1> QED
    BY <1>2, <1>3, SameContent DEF StillShown

LEMMA ShowsKeeps ==
    ASSUME Inv, Inv', PagesOK, \A r \in Rooms : Stamped(r),
           NEW e \in Devices, session'[e] = session[e]
    PROVE  Shows(e)'
  <1>1. PICK s : s = session[e]
    OBVIOUS
  <1>2. session'[e] = s /\ Shows(e)
    BY <1>1 DEF PagesOK
  <1>3. CASE s = NoSession
    BY <1>1, <1>2, <1>3 DEF Shows, AsSession
  <1>4. CASE s # NoSession
    <2>1. PICK r, rev, rows : r = s.room /\ rev = s.rev /\ rows = s.rows
      OBVIOUS
    <2>2. /\ r \in Rooms /\ rev \in Int /\ rev <= revision[r]
          /\ StillShown(r, rev, Content(r), rows)
      BY <1>1, <1>2, <1>4, <2>1 DEF Shows
    <2>3. r \in Compared
      BY <1>1, <2>1, <2>2 DEF Compared
    <2>4. rev <= revision'[r] /\ StillShown(r, rev, Content(r), rows)'
      BY <2>2, <2>3, ShownKeeps
    <2>5. s = AsSession(s)
      BY <1>1, <1>2 DEF Shows
    <2> QED
      BY <1>2, <2>1, <2>2, <2>4, <2>5 DEF Shows, AsSession
  <1> QED
    BY <1>3, <1>4

LEMMA ComparesKeeps ==
    ASSUME Inv, Inv', PagesOK, \A r \in Rooms : Stamped(r),
           NEW e \in Devices, op'[e] = op[e],
           session'[e] = session[e] \/ session'[e] = NoSession
    PROVE  Compares(e)'
  <1>1. PICK o : o = op[e]
    OBVIOUS
  <1>2. op'[e] = o /\ Compares(e)
    BY <1>1 DEF PagesOK
  <1>3. CASE o.stage \in {"members", "snapshots", "check", "checked"}
    <2>1. PICK r, rev, rows, listed :
             r = o.room /\ rev = o.rev /\ rows = o.rows /\ listed = o.listed
      OBVIOUS
    <2>2. r \in Rooms /\ rev \in Int /\ rev <= revision[r]
      BY <1>1, <1>2, <1>3, <2>1 DEF Compares
    <2>3. r \in Compared
      BY <1>1, <1>3, <2>1, <2>2 DEF Compared
    <2>4. /\ rev <= revision'[r]
          /\ StillShown(r, rev, Content(r), rows) => StillShown(r, rev, Content(r), rows)'
          /\ StillShown(r, rev, Listing(r), listed) => StillShown(r, rev, Listing(r), listed)'
      BY <2>2, <2>3, ShownKeeps
    <2>5. o.stage = "snapshots" => StillShown(r, rev, Listing(r), listed)
      BY <1>1, <1>2, <2>1 DEF Compares
    <2>6. o.stage \in {"check", "checked"} => StillShown(r, rev, Content(r), rows)
      BY <1>1, <1>2, <2>1 DEF Compares
    <2>7. o.stage = "checked" => (o.last.after = rev => o.last.shown \in {Nil, rows})
      BY <1>1, <1>2, <2>1 DEF Compares
    <2> QED
      BY <1>2, <1>3, <2>1, <2>2, <2>4, <2>5, <2>6, <2>7 DEF Compares
  <1>4. CASE o.stage \notin {"members", "snapshots", "check", "checked"}
    BY <1>1, <1>2, <1>4 DEF Compares
  <1> QED
    BY <1>3, <1>4

\* Only d goes on, and every change of a room is stamped.
LEMMA SharedStep ==
    ASSUME Inv, Inv', PagesOK, NEW d \in Devices, \A r \in Rooms : Stamped(r),
           \A e \in Devices \ {d} : op'[e] = op[e] /\ session'[e] = session[e],
           DOMAIN session' = Devices, Compares(d)', Shows(d)', Current(d)
    PROVE  PagesOK' /\ \A e \in Devices : Current(e)
  <1>1. \A e \in Devices \ {d} : Compares(e)' /\ Shows(e)'
    BY ComparesKeeps, ShowsKeeps
  <1>2. \A e \in Devices \ {d} : Current(e)
    BY DEF Current
  <1> QED
    BY <1>1, <1>2 DEF PagesOK

LEMMA UnchangedStamped ==
    ASSUME Inv, UNCHANGED dirVars
    PROVE  \A r \in Rooms : Stamped(r)
  BY DEF Stamped, Same, dirVars, Inv, DirectoryOK

\* Steps that leave the content of the rooms alone.
LEMMA PrivateStep ==
    ASSUME Inv, Inv', PagesOK, NEW d \in Devices, UNCHANGED dirVars,
           \A e \in Devices \ {d} : op'[e] = op[e] /\ session'[e] = session[e],
           DOMAIN session' = Devices, Compares(d)', Shows(d)', Current(d)
    PROVE  PagesOK' /\ \A e \in Devices : Current(e)
  BY UnchangedStamped, SharedStep

LEMMA ServedKeeps ==
    ASSUME NEW s, s = AsSession(s), NEW limit
    PROVE  /\ Served(s, limit) = AsSession(Served(s, limit))
           /\ Served(s, limit).room = s.room /\ Served(s, limit).rev = s.rev
           /\ Served(s, limit).rows = s.rows
  <1>1. \E a, c : Served(s, limit) = [s EXCEPT !.served = a, !.cursor = c]
    BY DEF Served
  <1>2. PICK a, c, t : t = Served(s, limit) /\ t = [s EXCEPT !.served = a, !.cursor = c]
    BY <1>1
  <1>3. t = AsSession(t) /\ t.room = s.room /\ t.rev = s.rev /\ t.rows = s.rows
    BY <1>2 DEF AsSession
  <1> QED
    BY <1>2, <1>3

LEMMA ConnectionPages ==
    ASSUME Inv, Inv', PagesOK, NEW d \in Devices,
           Connect(d) \/ Disconnect(d) \/ Close(d) \/ Unfollow(d)
    PROVE  PagesOK' /\ \A e \in Devices : Current(e)
  <1>1. /\ UNCHANGED <<dirVars, op>> /\ DOMAIN session' = Devices
        /\ session'[d] = session[d] \/ session'[d] = NoSession
        /\ \A e \in Devices \ {d} : session'[e] = session[e]
    BY DEF Connect, Disconnect, Close, Unfollow, PagesOK
  <1>2. \A r \in Rooms : Stamped(r)
    BY <1>1, UnchangedStamped
  <1>3. Compares(d)'
    BY <1>1, <1>2, ComparesKeeps
  <1>4. Shows(d)'
    <2>1. CASE session'[d] = session[d]
      BY <1>2, <2>1, ShowsKeeps
    <2>2. CASE session'[d] = NoSession
      BY <2>2 DEF Shows, AsSession, NoSession
    <2> QED
      BY <1>1, <2>1, <2>2
  <1>5. Current(d)
    BY <1>1 DEF Current
  <1> QED
    BY <1>1, <1>2, <1>3, <1>4, <1>5, SharedStep

\* A handler that is not comparing goes on.
LEMMA AsidePages ==
    ASSUME Inv, Inv', PagesOK, NEW d \in Devices, NEW o,
           op' = [op EXCEPT ![d] = o], o.stage \notin Comparing,
           \A r \in Rooms : Stamped(r), session' = session
    PROVE  PagesOK' /\ \A e \in Devices : Current(e)
  <1>1. op'[d] = o /\ \A e \in Devices \ {d} : op'[e] = op[e]
    BY DEF Inv, HandlersOK
  <1>2. Compares(d)'
    BY <1>1 DEF Compares, Comparing
  <1>3. Shows(d)'
    BY ShowsKeeps
  <1>4. Current(d) /\ DOMAIN session' = Devices
    BY DEF Current, PagesOK
  <1> QED
    BY <1>1, <1>2, <1>3, <1>4, SharedStep

LEMMA AsideOp ==
    ASSUME Inv, NEW d \in Devices,
           \/ \E to \in Legacy \cup {Nil}, n \in Names \cup {Nil} : Move(d, to, n)
           \/ MoveAdapter(d) \/ MoveAdapterFails(d) \/ PersistMoveFails(d)
           \/ RestoreAdapter(d) \/ RestoreAdapterFails(d)
           \/ ReadRevision(d) \/ AnnounceRevision(d)
           \/ \E rev \in 1..MaxClientRevision, c \in Contents : Upload(d, rev, c)
           \/ ReadStored(d) \/ Push(d) \/ ReadInitial(d) \/ SendInitial(d)
           \/ \E t \in Devices : Follow(d, t)
           \/ PersistMove(d) \/ (\E n \in Names : Rename(d, n)) \/ SaveSnapshot(d)
    PROVE  \E o : o.stage \notin Comparing /\ op' = [op EXCEPT ![d] = o]
  <1> DEFINE Aside(o) == o.stage \notin Comparing /\ op' = [op EXCEPT ![d] = o]
  <1> SUFFICES \E o : Aside(o)
    OBVIOUS
  <1>1. ASSUME NEW to, NEW n, Move(d, to, n) PROVE \E o : Aside(o)
    <2>1. Aside([stage |-> "adapter", from |-> member[d].room, as |-> member[d].name,
                 to |-> to, name |-> n])
      BY <1>1 DEF Move, Comparing
    <2> QED
      BY <2>1
  <1>2. CASE MoveAdapter(d) \/ MoveAdapterFails(d) \/ PersistMoveFails(d)
    <2>1. Carries(op[d]) /\ op[d].stage \in {"adapter", "persist"}
      BY <1>2, MembershipOf DEF MoveAdapter, MoveAdapterFails, PersistMoveFails
    <2>2. PICK stage \in {"persist", "restore"} : op' = [op EXCEPT ![d].stage = stage]
      BY <1>2 DEF MoveAdapter, MoveAdapterFails, PersistMoveFails
    <2>3. op' = [op EXCEPT ![d] = [op[d] EXCEPT !.stage = stage]]
      BY <2>2
    <2>4. [op[d] EXCEPT !.stage = stage].stage = stage
      BY <2>1 DEF Carries, Moves, Moving
    <2>5. Aside([op[d] EXCEPT !.stage = stage])
      BY <2>2, <2>3, <2>4 DEF Comparing
    <2> QED
      BY <2>5
  <1>3. CASE RestoreAdapter(d) \/ RestoreAdapterFails(d) \/ Push(d) \/ SendInitial(d)
    <2>1. Aside(Idle)
      BY <1>3, RoomValues DEF RestoreAdapter, RestoreAdapterFails, Push, SendInitial, Comparing
    <2> QED
      BY <2>1
  <1>4. CASE ReadRevision(d)
    <2>1. Aside([stage |-> "announce", rooms |-> op[d].rooms,
                 rev |-> revision[Head(op[d].rooms)]])
      BY <1>4 DEF ReadRevision, Comparing
    <2> QED
      BY <2>1
  <1>5. CASE AnnounceRevision(d)
    <2>1. Aside(Announcing(Tail(op[d].rooms)))
      BY <1>5, RoomValues DEF AnnounceRevision, Announcing, Comparing
    <2> QED
      BY <2>1
  <1>6. ASSUME NEW rev \in 1..MaxClientRevision, NEW c \in Contents, Upload(d, rev, c)
         PROVE  \E o : Aside(o)
    <2>1. Aside([stage |-> "upload", room |-> member[d].room, rev |-> rev, content |-> c])
      BY <1>6 DEF Upload, Comparing
    <2> QED
      BY <2>1
  <1>7. CASE ReadStored(d)
    <2>1. Aside([stage |-> "push", copy |-> Copied(d)])
      BY <1>7 DEF ReadStored, Comparing
    <2> QED
      BY <2>1
  <1>8. CASE ReadInitial(d)
    <2>1. Aside([stage |-> "send", copy |-> Copied(op[d].target)])
      BY <1>8 DEF ReadInitial, Comparing
    <2> QED
      BY <2>1
  <1>9. ASSUME NEW t \in Devices, Follow(d, t) PROVE \E o : Aside(o)
    <2>1. Aside([stage |-> "initial", target |-> t])
      BY <1>9 DEF Follow, Comparing
    <2> QED
      BY <2>1
  <1>10. CASE PersistMove(d)
    <2>1. PICK L : L = ToldOfMove(op[d].from, op[d].to, op[d].as # op[d].name)
      OBVIOUS
    <2>2. op' = [op EXCEPT ![d] = Announcing(L)]
      BY <1>10, <2>1 DEF PersistMove
    <2>3. Announcing(L).stage \notin Comparing
      BY RoomValues DEF Announcing, Comparing
    <2>4. Aside(Announcing(L))
      BY <2>2, <2>3
    <2> QED
      BY <2>4
  <1>11. CASE \E n \in Names : Rename(d, n)
    <2>1. Aside(Announcing(<<member[d].room>>))
      BY <1>11, RoomValues DEF Rename, Announcing, Comparing
    <2> QED
      BY <2>1
  <1>12. CASE SaveSnapshot(d)
    <2>1. Aside(Idle) \/ Aside([stage |-> "stored"])
      <3>1. op' = [op EXCEPT ![d] = Idle] \/ op' = [op EXCEPT ![d] = [stage |-> "stored"]]
        BY <1>12 DEF SaveSnapshot
      <3> QED
        BY <3>1, RoomValues DEF Comparing
    <2> QED
      BY <2>1
  <1> QED
    BY <1>1, <1>2, <1>3, <1>4, <1>5, <1>6, <1>7, <1>8, <1>9, <1>10, <1>11, <1>12

\* Handlers that leave the shared content alone and are not comparing.
LEMMA BystanderPages ==
    ASSUME Inv, Inv', PagesOK, NEW d \in Devices,
           \/ \E to \in Legacy \cup {Nil}, n \in Names \cup {Nil} : Move(d, to, n)
           \/ MoveAdapter(d) \/ MoveAdapterFails(d) \/ PersistMoveFails(d)
           \/ RestoreAdapter(d) \/ RestoreAdapterFails(d)
           \/ ReadRevision(d) \/ AnnounceRevision(d)
           \/ \E rev \in 1..MaxClientRevision, c \in Contents : Upload(d, rev, c)
           \/ ReadStored(d) \/ Push(d) \/ ReadInitial(d) \/ SendInitial(d)
           \/ \E t \in Devices : Follow(d, t)
    PROVE  PagesOK' /\ \A e \in Devices : Current(e)
  <1>1. UNCHANGED <<dirVars, session>>
    BY DEF Move, MoveAdapter, MoveAdapterFails, PersistMoveFails, RestoreAdapter,
       RestoreAdapterFails, ReadRevision, AnnounceRevision, Upload, ReadStored, Push,
       ReadInitial, SendInitial, Follow
  <1>2. \A r \in Rooms : Stamped(r)
    BY <1>1, UnchangedStamped
  <1>3. PICK o : o.stage \notin Comparing /\ op' = [op EXCEPT ![d] = o]
    BY AsideOp
  <1> QED
    BY <1>1, <1>2, <1>3, AsidePages

\* A room that is given a new revision is stamped, and so is one that is left alone.
LEMMA BumpStamps ==
    ASSUME Inv, NEW rooms, Bump(rooms), NEW r \in Rooms, r \notin rooms => Same(r)
    PROVE  Stamped(r)
  <1>1. revision[r] \in Int
    BY DEF Inv, DirectoryOK
  <1>2. revision'[r] = IF r \in rooms THEN revision[r] + 1 ELSE revision[r]
    BY DEF Bump, Bumped
  <1>3. silent' = silent \ rooms
    BY DEF Bump
  <1> QED
    BY <1>1, <1>2, <1>3 DEF Stamped

\* A room that changes without one is on record if it is compared.
LEMMA HushStamps ==
    ASSUME Inv, NEW rooms, Hush(rooms), NEW r \in Rooms, r \notin rooms => Same(r)
    PROVE  Stamped(r)
  <1>1. revision[r] \in Int
    BY DEF Inv, DirectoryOK
  <1> QED
    BY <1>1 DEF Hush, Stamped

\* d leaves, enters or stays in rooms, and the other devices stay as they are.
LEMMA OnlyMover ==
    ASSUME NEW d \in Devices, NEW r,
           member[d].room # r, member'[d].room # r,
           \A e \in Devices \ {d} : member'[e] = member[e] /\ snapshot'[e] = snapshot[e]
    PROVE  Same(r)
  BY DEF Same

LEMMA PoolPages ==
    ASSUME Inv, Inv', PagesOK, NEW d \in Devices,
           \/ (\E n \in Names : PoolJoin(d, n)) \/ Expire(d)
           \/ RemoveTemporary(d) \/ AdminDelete(d)
    PROVE  PagesOK' /\ \A e \in Devices : Current(e)
  <1>1. op' = op /\ session' = session
    BY DEF PoolJoin, Expire, RemoveTemporary, AdminDelete
  <1>2. PICK q : q = member[d].room
    OBVIOUS
  <1>3. \A e \in Devices \ {d} : member'[e] = member[e] /\ snapshot'[e] = snapshot[e]
    BY DEF PoolJoin, Expire, RemoveTemporary, AdminDelete, Leaves, Inv, DirectoryOK
  <1>4. member'[d].room \in {Pool, Nil}
    BY RoomValues DEF PoolJoin, Expire, RemoveTemporary, AdminDelete, Leaves, Inv, DirectoryOK
  <1>5. ASSUME NEW r \in Rooms PROVE Stamped(r)
    <2>1. CASE Expire(d) \/ RemoveTemporary(d)
      <3>1. member'[d].room = Nil /\ r # Nil /\ Hush({q})
        BY <1>2, <2>1, RoomValues
           DEF Expire, RemoveTemporary, Leaves, Inv, DirectoryOK
      <3>2. r # q => Same(r)
        BY <1>2, <1>3, <3>1, OnlyMover
      <3> QED
        BY <3>1, <3>2, HushStamps
    <2>2. CASE AdminDelete(d)
      <3>1. member'[d].room = Nil /\ r # Nil /\ Bump({q})
        BY <1>2, <2>2, RoomValues DEF AdminDelete, Leaves, Inv, DirectoryOK
      <3>2. r # q => Same(r)
        BY <1>2, <1>3, <3>1, OnlyMover
      <3> QED
        BY <3>1, <3>2, BumpStamps
    <2>3. CASE \E n \in Names : PoolJoin(d, n)
      <3>1. member'[d].room = Pool /\ Hush({q, Pool})
        BY <1>2, <2>3 DEF PoolJoin, Inv, DirectoryOK
      <3>2. r \notin {q, Pool} => Same(r)
        BY <1>2, <1>3, <3>1, OnlyMover
      <3> QED
        BY <3>1, <3>2, HushStamps
    <2> QED
      BY <2>1, <2>2, <2>3
  <1>6. ASSUME NEW e \in Devices PROVE Compares(e)' /\ Shows(e)' /\ Current(e)
    BY <1>1, <1>5, ComparesKeeps, ShowsKeeps DEF Current
  <1> QED
    BY <1>1, <1>6 DEF PagesOK

\* Storing a move, a new name and a snapshot change the content of rooms, and
\* stamp each.
LEMMA ChangingPages ==
    ASSUME Inv, Inv', PagesOK, NEW d \in Devices,
           PersistMove(d) \/ (\E n \in Names : Rename(d, n)) \/ SaveSnapshot(d)
    PROVE  PagesOK' /\ \A e \in Devices : Current(e)
  <1>1. CASE PersistMove(d)
    <2>1. PICK from, to, bumping :
              /\ from = member[d].room /\ to = op[d].to
              /\ bumping = (member[d].name # op[d].name /\ to # Nil)
      OBVIOUS
    <2>2. /\ to \in Legacy \cup {Nil} /\ from \in Rooms \cup {Nil} /\ member[d] \in Memberships
      BY <1>1, <2>1, MembershipOf DEF PersistMove, Carries, Moves, Moving
    <2>3. Bump(BumpedByMove(from, to, bumping))
      BY <1>1, <2>1 DEF PersistMove
    <2>4. /\ member' = [member EXCEPT ![d] = IF to = Nil THEN Out
                                             ELSE [room |-> to, name |-> op[d].name]]
          /\ snapshot' = [snapshot EXCEPT ![d] = IF from \in {to, Nil} THEN @ ELSE NoSnapshot]
      BY <1>1, <2>1 DEF PersistMove
    <2>5. \A e \in Devices \ {d} : member'[e] = member[e] /\ snapshot'[e] = snapshot[e]
      BY <2>4
    <2>6. member'[d].room = to
      BY <2>4, RoomValues DEF Inv, DirectoryOK
    <2>7. ASSUME NEW r \in Rooms, r \notin BumpedByMove(from, to, bumping) PROVE Same(r)
      <3>1. CASE r \in {from, to}
        <4>1. from = to /\ ~bumping /\ to # Nil /\ r = to
          BY <2>7, <3>1, RoomValues DEF BumpedByMove
        <4>2. member[d] = [room |-> to, name |-> op[d].name]
          BY <2>1, <2>2, <4>1, RoomValues DEF Memberships
        <4>3. member'[d] = member[d] /\ snapshot'[d] = snapshot[d]
          BY <2>4, <4>1, <4>2 DEF Inv, DirectoryOK
        <4> QED
          BY <2>5, <4>3 DEF Same
      <3>2. CASE r \notin {from, to}
        BY <2>1, <2>5, <2>6, <3>2, OnlyMover
      <3> QED
        BY <3>1, <3>2
    <2>8. \A r \in Rooms : Stamped(r)
      BY <2>3, <2>7, BumpStamps
    <2>9. PICK o : o.stage \notin Comparing /\ op' = [op EXCEPT ![d] = o]
      BY <1>1, AsideOp
    <2>10. session' = session
      BY <1>1 DEF PersistMove
    <2> QED
      BY <2>8, <2>9, <2>10, AsidePages
  <1>2. ASSUME NEW n \in Names, Rename(d, n) PROVE PagesOK' /\ \A e \in Devices : Current(e)
    <2>1. PICK q : q = member[d].room
      OBVIOUS
    <2>2. /\ member' = [member EXCEPT ![d].name = n] /\ Bump({q})
          /\ UNCHANGED <<snapshot, session>>
      BY <1>2, <2>1 DEF Rename
    <2>3. \A e \in Devices : member'[e].room = member[e].room /\ (e # d => member'[e] = member[e])
      BY <1>2, <2>2, MembershipOf DEF Rename, Inv, DirectoryOK, Memberships, Out
    <2>4. \A r \in Rooms : Stamped(r)
      <3>1. \A r \in Rooms : r \notin {q} => Same(r)
        BY <2>1, <2>2, <2>3 DEF Same
      <3> QED
        BY <2>2, <3>1, BumpStamps
    <2>5. PICK o : o.stage \notin Comparing /\ op' = [op EXCEPT ![d] = o]
      BY <1>2, AsideOp
    <2> QED
      BY <2>2, <2>4, <2>5, AsidePages
  <1>3. CASE SaveSnapshot(d)
    <2>1. PICK q : q = op[d].room
      OBVIOUS
    <2>2. UNCHANGED <<member, session>>
      BY <1>3 DEF SaveSnapshot
    <2>3. PICK o : o.stage \notin Comparing /\ op' = [op EXCEPT ![d] = o]
      BY <1>3, AsideOp
    <2>4. \A r \in Rooms : Stamped(r)
      <3>1. CASE Accepts(d, q, op[d].rev, op[d].content)
        <4>1. /\ Bump({q}) /\ member[d].room = q
              /\ \A e \in Devices \ {d} : snapshot'[e] = snapshot[e]
          BY <1>3, <2>1, <3>1 DEF SaveSnapshot, Accepts, Inv, DirectoryOK
        <4>2. \A r \in Rooms : r \notin {q} => Same(r)
          BY <2>2, <4>1 DEF Same
        <4> QED
          BY <4>1, <4>2, BumpStamps
      <3>2. CASE ~Accepts(d, q, op[d].rev, op[d].content)
        <4>1. UNCHANGED dirVars
          BY <1>3, <2>1, <3>2 DEF SaveSnapshot, dirVars
        <4> QED
          BY <4>1, UnchangedStamped
      <3> QED
        BY <3>1, <3>2
    <2> QED
      BY <2>2, <2>3, <2>4, AsidePages
  <1> QED
    BY <1>1, <1>2, <1>3

\* The reads of a comparison.
LEMMA ComparePages ==
    ASSUME Inv, Inv', PagesOK, NEW d \in Devices,
           \/ Compare(d) \/ Attempt(d) \/ CompareMembers(d) \/ CompareSnapshots(d)
           \/ CompareReread(d)
    PROVE  PagesOK' /\ \A e \in Devices : Current(e)
  <1>1. \A r \in Rooms : revision[r] \in Int
    BY DEF Inv, DirectoryOK
  <1>2. Compares(d) /\ UNCHANGED dirVars /\ DOMAIN session = Devices /\ DOMAIN op = Devices
    BY DEF PagesOK, Compare, Attempt, CompareMembers, CompareSnapshots, CompareReread, Inv,
       HandlersOK
  <1>3. PICK o : op' = [op EXCEPT ![d] = o]
    BY ComparingStep
  <1>4. op'[d] = o /\ \A e \in Devices \ {d} : op'[e] = op[e]
    BY <1>2, <1>3
  <1>5. /\ session' = session \/ session' = [session EXCEPT ![d] = NoSession]
        /\ DOMAIN session' = Devices /\ session'[d] \in {session[d], NoSession}
        /\ \A e \in Devices \ {d} : session'[e] = session[e]
    BY <1>2 DEF Compare, Attempt, CompareMembers, CompareSnapshots, CompareReread
  <1>6. Shows(d)' /\ Current(d)
    <2>1. CASE session'[d] = session[d]
      BY <1>2, <2>1, UnchangedStamped, ShowsKeeps DEF Current
    <2>2. CASE session'[d] = NoSession
      BY <2>2 DEF Shows, AsSession, NoSession, Current
    <2> QED
      BY <1>5, <2>1, <2>2
  <1>7. SUFFICES Compares(d)'
    BY <1>2, <1>4, <1>5, <1>6, PrivateStep
  <1>8. /\ revision' = revision /\ silent' = silent
        /\ \A r : Content(r)' = Content(r) /\ Listing(r)' = Listing(r)
    BY <1>2 DEF Content, Row, Listing, dirVars
  <1>9. CASE Compare(d)
    <2>1. member[d] # Out /\ op'[d].stage = "attempt" /\ op'[d].room = member[d].room
      BY <1>2, <1>9 DEF Compare
    <2> QED
      BY <2>1, MembershipOf DEF Compares
  <1>10. CASE Attempt(d)
    <2>1. /\ op'[d].stage = "members" /\ op'[d].room = op[d].room
          /\ op'[d].rev = revision[op[d].room] /\ op[d].stage = "attempt"
      BY <1>2, <1>10 DEF Attempt
    <2>2. op[d].room \in Rooms
      BY <1>2, <2>1 DEF Compares
    <2> QED
      BY <1>1, <1>8, <2>1, <2>2 DEF Compares
  <1>11. PICK r, rev : r = op[d].room /\ rev = op[d].rev
    OBVIOUS
  <1>12. op[d].stage \in {"members", "snapshots", "check"} =>
            r \in Rooms /\ rev \in Int /\ rev <= revision[r]
    BY <1>2, <1>11 DEF Compares
  <1>13. CASE CompareMembers(d)
    <2>1. /\ op'[d].stage = "snapshots" /\ op'[d].room = r /\ op'[d].rev = rev
          /\ op'[d].listed = Listing(r) /\ op[d].stage = "members"
      BY <1>2, <1>11, <1>13 DEF CompareMembers, Listing
    <2> QED
      BY <1>8, <1>12, <2>1 DEF Compares, StillShown
  <1>14. CASE CompareSnapshots(d)
    <2> DEFINE shown(m) == IF snapshot[m[1]].room = r /\ member[m[1]].room = r
                           THEN snapshot[m[1]] ELSE NoSnapshot
               row(m) == [device |-> m[1], name |-> m[2], rev |-> shown(m).rev,
                          content |-> shown(m).content]
    <2>1. /\ op'[d].stage = "check" /\ op'[d].room = r /\ op'[d].rev = rev
          /\ op'[d].rows = {row(m) : m \in op[d].listed} /\ op[d].stage = "snapshots"
      BY <1>2, <1>11, <1>14 DEF CompareSnapshots
    <2>2. ASSUME op[d].listed = Listing(r) PROVE op'[d].rows = Content(r)
      <3>1. ASSUME NEW e \in Devices, member[e].room = r
            PROVE  row(<<e, member[e].name>>) = Row(e)
        <4>1. snapshot[e].room = r \/ snapshot[e] = NoSnapshot
          BY <3>1, MembershipOf
        <4>2. shown(<<e, member[e].name>>) = snapshot[e]
          BY <3>1, <4>1
        <4> QED
          BY <4>2 DEF Row
      <3> HIDE DEF row
      <3>2. {row(m) : m \in Listing(r)} = Content(r)
        BY <3>1 DEF Listing, Content
      <3> QED
        BY <2>1, <2>2, <3>2
    <2>3. StillShown(r, rev, Listing(r), op[d].listed)
      BY <1>2, <1>11, <2>1 DEF Compares
    <2>4. StillShown(r, rev, Content(r), op[d].rows)'
      BY <1>8, <2>1, <2>2, <2>3 DEF StillShown
    <2> HIDE DEF row
    <2> QED
      BY <1>8, <1>12, <2>1, <2>4 DEF Compares
  <1>15. CASE CompareReread(d)
    <2>1. PICK last : last = Reread(r)
      OBVIOUS
    <2>2. /\ op'[d].stage = "checked" /\ op'[d].room = r /\ op'[d].rev = rev
          /\ op'[d].rows = op[d].rows /\ op'[d].last = last /\ op[d].stage = "check"
      BY <1>2, <1>11, <1>15, <2>1 DEF CompareReread
    <2>3. PICK rows : rows = op[d].rows
      OBVIOUS
    <2>4. StillShown(r, rev, Content(r), rows)
      BY <1>2, <1>11, <2>2, <2>3 DEF Compares
    <2>5. last.after = revision[r] /\ last.shown = IF r \in silent THEN Nil ELSE Content(r)
      BY <2>1 DEF Reread
    <2>6. last.after = rev => last.shown \in {Nil, rows}
      BY <2>4, <2>5 DEF StillShown
    <2>7. StillShown(r, rev, Content(r), rows)'
      BY <1>8, <2>4 DEF StillShown
    <2> QED
      BY <1>8, <1>12, <2>2, <2>3, <2>6, <2>7 DEF Compares
  <1> QED
    BY <1>9, <1>10, <1>13, <1>14, <1>15

\* The answers: the first page when the room still had the revision that was read
\* first, the next ones as long as it had.
LEMMA AnswerPages ==
    ASSUME Inv, Inv', PagesOK, NEW d \in Devices,
           \/ NextPage(d) \/ \E expired \in BOOLEAN : PageReread(d, expired)
           \/ \E limit \in PageSizes : CompareAnswer(d, limit) \/ ServePage(d, limit)
    PROVE  PagesOK' /\ \A e \in Devices : Current(e)
  <1>1. \A r \in Rooms : revision[r] \in Int
    BY DEF Inv, DirectoryOK
  <1>2. Compares(d) /\ Shows(d) /\ DOMAIN session = Devices /\ DOMAIN op = Devices
    BY DEF PagesOK, Inv, HandlersOK
  <1>3. UNCHANGED dirVars
    BY DEF NextPage, PageReread, CompareAnswer, ServePage
  <1>4. /\ revision' = revision /\ silent' = silent
        /\ \A r : Content(r)' = Content(r) /\ Listing(r)' = Listing(r)
    BY <1>3 DEF Content, Row, Listing, dirVars
  <1>5. PICK o : op' = [op EXCEPT ![d] = o]
    BY ComparingStep
  <1>6. op'[d] = o /\ \A e \in Devices \ {d} : op'[e] = op[e]
    BY <1>2, <1>5
  \* what an answer leaves in the session
  <1>7. ASSUME NEW s, s = AsSession(s), s.room \in Rooms, s.rev \in Int,
               s.rev <= revision[s.room], StillShown(s.room, s.rev, Content(s.room), s.rows),
               op[d].last.shown \in {Nil, s.rows}, NEW limit,
               session' = [session EXCEPT ![d] = Served(s, limit)]
        PROVE  Shows(d)' /\ Current(d)
    <2>1. PICK t : t = Served(s, limit)
      OBVIOUS
    <2>2. /\ session'[d] = t /\ t = AsSession(t) /\ t.room = s.room /\ t.rev = s.rev
          /\ t.rows = s.rows
      BY <1>2, <1>7, <2>1, ServedKeeps
    <2>3. Current(d)
      BY <1>7, <2>2 DEF Current
    <2>4. StillShown(t.room, t.rev, Content(t.room)', t.rows)
      BY <1>4, <1>7, <2>2
    <2>5. Shows(d)'
      BY <1>4, <1>7, <2>2, <2>4 DEF Shows, StillShown
    <2> QED
      BY <2>3, <2>5
  <1>8. ASSUME session' = [session EXCEPT ![d] = NoSession] PROVE Shows(d)' /\ Current(d)
    BY <1>2, <1>8 DEF Shows, AsSession, NoSession, Current
  <1>9. ASSUME session' = session PROVE Shows(d)' /\ Current(d)
    BY <1>3, <1>9, UnchangedStamped, ShowsKeeps DEF Current
  <1>10. CASE NextPage(d)
    <2>1. op'[d].stage = "token" /\ session' = session
      BY <1>2, <1>10 DEF NextPage
    <2>2. Compares(d)'
      BY <2>1 DEF Compares
    <2> QED
      BY <1>2, <1>3, <1>6, <1>9, <2>1, <2>2, PrivateStep
  <1>11. ASSUME NEW expired \in BOOLEAN, PageReread(d, expired)
         PROVE  PagesOK' /\ \A e \in Devices : Current(e)
    <2>1. CASE session[d] # NoSession /\ session[d].room = op[d].room /\ ~expired
      <3>1. PICK s, last : s = session[d] /\ last = Reread(s.room)
        OBVIOUS
      <3>2. op' = [op EXCEPT ![d] = [stage |-> "page", last |-> last]] /\ session' = session
        BY <1>11, <2>1, <3>1 DEF PageReread
      <3>3. op'[d].stage = "page" /\ op'[d].last = last
        BY <1>2, <3>2
      <3>4. StillShown(s.room, s.rev, Content(s.room), s.rows)
        BY <1>2, <2>1, <3>1 DEF Shows
      <3>5. /\ last.after = revision[s.room]
            /\ last.shown = IF s.room \in silent THEN Nil ELSE Content(s.room)
        BY <3>1 DEF Reread
      <3>6. last.after = s.rev => last.shown \in {Nil, s.rows}
        BY <3>4, <3>5 DEF StillShown
      <3>7. Compares(d)'
        BY <3>1, <3>2, <3>3, <3>6 DEF Compares
      <3> QED
        BY <1>2, <1>3, <1>6, <1>9, <3>2, <3>7, PrivateStep
    <2>2. CASE ~(session[d] # NoSession /\ session[d].room = op[d].room /\ ~expired)
      <3>1. op' = [op EXCEPT ![d] = Idle] /\ session' = [session EXCEPT ![d] = NoSession]
        BY <1>11, <2>2 DEF PageReread
      <3>2. /\ op'[d] = Idle /\ DOMAIN session' = Devices
            /\ \A e \in Devices \ {d} : op'[e] = op[e] /\ session'[e] = session[e]
        BY <1>2, <3>1
      <3>3. Compares(d)'
        BY <3>2, RoomValues DEF Compares
      <3> QED
        BY <1>3, <1>8, <3>1, <3>2, <3>3, PrivateStep
    <2> QED
      BY <2>1, <2>2
  <1>12. ASSUME NEW limit \in PageSizes, CompareAnswer(d, limit)
         PROVE  PagesOK' /\ \A e \in Devices : Current(e)
    <2>1. PICK r, rev, rows, last : /\ r = op[d].room /\ rev = op[d].rev /\ rows = op[d].rows
                                    /\ last = op[d].last
      OBVIOUS
    <2>2. /\ r \in Rooms /\ rev \in Int /\ rev <= revision[r]
          /\ StillShown(r, rev, Content(r), rows)
          /\ last.after = rev => last.shown \in {Nil, rows}
      BY <1>2, <1>12, <2>1 DEF CompareAnswer, Compares
    <2>3. CASE StillAt(last, rev)
      <3>1. PICK s : s = [room |-> r, rev |-> rev, rows |-> rows, served |-> <<>>, cursor |-> Nil]
        OBVIOUS
      <3>2. /\ op' = [op EXCEPT ![d] = Idle]
            /\ session' = [session EXCEPT ![d] = IF d \in connected THEN Served(s, limit)
                                                 ELSE NoSession]
        BY <1>12, <2>1, <2>3, <3>1 DEF CompareAnswer
      <3>3. /\ op'[d] = Idle /\ DOMAIN session' = Devices
            /\ \A e \in Devices \ {d} : op'[e] = op[e] /\ session'[e] = session[e]
        BY <1>2, <3>2
      <3>4. Compares(d)'
        BY <3>3, RoomValues DEF Compares
      <3>5. s = AsSession(s) /\ s.room = r /\ s.rev = rev /\ s.rows = rows
        BY <3>1 DEF AsSession
      <3>6. Shows(d)' /\ Current(d)
        <4>1. CASE d \in connected
          <5>1. session' = [session EXCEPT ![d] = Served(s, limit)]
            BY <3>2, <4>1
          <5>2. op[d].last.shown \in {Nil, s.rows}
            BY <2>1, <2>2, <2>3, <3>5 DEF StillAt
          <5>3. /\ s.room \in Rooms /\ s.rev \in Int /\ s.rev <= revision[s.room]
                /\ StillShown(s.room, s.rev, Content(s.room), s.rows)
            BY <2>2, <3>5
          <5> QED
            BY <1>7, <3>5, <5>1, <5>2, <5>3
        <4>2. CASE d \notin connected
          <5>1. session' = [session EXCEPT ![d] = NoSession]
            BY <3>2, <4>2
          <5> QED
            BY <1>8, <5>1
        <4> QED
          BY <4>1, <4>2
      <3> QED
        BY <1>3, <3>3, <3>4, <3>6, PrivateStep
    <2>4. CASE ~StillAt(last, rev)
      <3>1. PICK a : a = IF op[d].attempt = 1 THEN [stage |-> "attempt", attempt |-> 2, room |-> r]
                         ELSE Idle
        OBVIOUS
      <3>2. op' = [op EXCEPT ![d] = a] /\ session' = session
        BY <1>12, <2>1, <2>4, <3>1 DEF CompareAnswer
      <3>3. a = Idle \/ (a.stage = "attempt" /\ a.room = r)
        BY <3>1
      <3>4. op'[d] = a
        BY <1>2, <3>2
      <3>5. Compares(d)'
        BY <2>2, <3>3, <3>4, RoomValues DEF Compares
      <3> QED
        BY <1>2, <1>3, <1>6, <1>9, <3>2, <3>5, PrivateStep
    <2> QED
      BY <2>3, <2>4
  <1>13. ASSUME NEW limit \in PageSizes, ServePage(d, limit)
         PROVE  PagesOK' /\ \A e \in Devices : Current(e)
    <2>1. PICK s, last : s = session[d] /\ last = op[d].last
      OBVIOUS
    <2>2. /\ op' = [op EXCEPT ![d] = Idle] /\ op[d].stage = "page"
          /\ \/ /\ s # NoSession /\ StillAt(last, s.rev)
                /\ session' = [session EXCEPT ![d] = Served(s, limit)]
             \/ session' = [session EXCEPT ![d] = NoSession]
      BY <1>13, <2>1 DEF ServePage
    <2>3. /\ op'[d] = Idle /\ DOMAIN session' = Devices
          /\ \A e \in Devices \ {d} : op'[e] = op[e] /\ session'[e] = session[e]
      BY <1>2, <2>2
    <2>4. Compares(d)'
      BY <2>3, RoomValues DEF Compares
    <2>5. Shows(d)' /\ Current(d)
      <3>1. CASE /\ s # NoSession /\ StillAt(last, s.rev)
                 /\ session' = [session EXCEPT ![d] = Served(s, limit)]
        <4>1. /\ s = AsSession(s) /\ s.room \in Rooms /\ s.rev \in Int
              /\ s.rev <= revision[s.room] /\ StillShown(s.room, s.rev, Content(s.room), s.rows)
          BY <1>2, <2>1, <3>1 DEF Shows
        <4>2. last.shown \in {Nil, s.rows}
          BY <1>2, <2>1, <2>2, <3>1 DEF Compares, StillAt
        <4> QED
          BY <1>7, <2>1, <3>1, <4>1, <4>2
      <3>2. CASE session' = [session EXCEPT ![d] = NoSession]
        BY <1>8, <3>2
      <3> QED
        BY <2>2, <3>1, <3>2
    <2> QED
      BY <1>3, <2>3, <2>4, <2>5, PrivateStep
  <1> QED
    BY <1>10, <1>11, <1>12, <1>13

LEMMA PagesInit == Init => PagesOK
  <1> SUFFICES ASSUME Init, NEW d \in Devices PROVE Compares(d) /\ Shows(d)
    BY DEF Init, PagesOK
  <1>1. NoSession = AsSession(NoSession)
    BY DEF AsSession, NoSession
  <1>2. op[d] = Idle /\ session[d] = NoSession
    BY DEF Init
  <1> QED
    BY <1>1, <1>2, RoomValues DEF Compares, Shows

LEMMA PagesNext ==
    ASSUME Inv, Inv', PagesOK, [Next]_vars
    PROVE  PagesOK' /\ (UNCHANGED vars \/ \A e \in Devices : Current(e))
  <1>1. CASE UNCHANGED vars
    <2>1. op' = op /\ session' = session /\ UNCHANGED dirVars
      BY <1>1 DEF vars
    <2>2. \A e \in Devices : Compares(e)' /\ Shows(e)'
      BY <2>1, UnchangedStamped, ComparesKeeps, ShowsKeeps
    <2> QED
      BY <1>1, <2>1, <2>2 DEF PagesOK
  <1>2. CASE Next
    <2>1. PICK d \in Devices :
             \/ Connect(d) \/ Disconnect(d) \/ Close(d) \/ Step(d)
             \/ "move" \in Ops /\ \E n \in Names, to \in Legacy : Move(d, to, n)
             \/ "leave" \in Ops /\ Move(d, Nil, Nil)
             \/ "rename" \in Ops /\ \E n \in Names : Rename(d, n)
             \/ "pool" \in Ops /\ \E n \in Names : PoolJoin(d, n)
             \/ "expire" \in Ops /\ Expire(d)
             \/ "delete" \in Ops /\ AdminDelete(d)
             \/ RemoveTemporary(d)
             \/ "upload" \in Ops /\ \E rev \in 1..MaxClientRevision, c \in Contents :
                                       Upload(d, rev, c)
             \/ "follow" \in Ops /\ (Unfollow(d) \/ \E t \in Devices : Follow(d, t))
             \/ "compare" \in Ops /\ (Compare(d) \/ NextPage(d))
      BY <1>2, Zenon DEF Next
    <2>2. CASE Connect(d) \/ Disconnect(d) \/ Close(d) \/ Unfollow(d)
      BY <2>2, ConnectionPages
    <2>3. CASE Step(d)
      BY <2>3, BystanderPages, ChangingPages, ComparePages, AnswerPages DEF Step
    <2>4. ASSUME NEW n \in Names, NEW to \in Legacy, Move(d, to, n)
          PROVE  PagesOK' /\ \A e \in Devices : Current(e)
      BY <2>4, BystanderPages
    <2>5. CASE Move(d, Nil, Nil)
      BY <2>5, BystanderPages
    <2>6. CASE \E n \in Names : Rename(d, n)
      BY <2>6, ChangingPages
    <2>7. CASE \/ \E rev \in 1..MaxClientRevision, c \in Contents : Upload(d, rev, c)
               \/ \E t \in Devices : Follow(d, t)
      BY <2>7, BystanderPages
    <2>8. CASE Compare(d) \/ NextPage(d)
      BY <2>8, ComparePages, AnswerPages
    <2>9. CASE \/ (\E n \in Names : PoolJoin(d, n)) \/ Expire(d)
               \/ RemoveTemporary(d) \/ AdminDelete(d)
      BY <2>9, PoolPages
    <2> QED
      BY <2>1, <2>2, <2>3, <2>4, <2>5, <2>6, <2>7, <2>8, <2>9
  <1> QED
    BY <1>1, <1>2

-----------------------------------------------------------------------------
(* The pages of a comparison                                               *)

\* A set of numbers has a least element: what takes the place of induction.
LEMMA LeastElement ==
    ASSUME NEW T \in SUBSET Nat, T # {}
    PROVE  \E n \in T : \A m \in T : n <= m
  <1>1. OpToRel(<, Nat) = {ss \in Nat \X Nat : ss[1] < ss[2]}
    BY Zenon DEF OpToRel
  <1>2. \E x \in T : \A y \in T : ~ (<<y, x>> \in OpToRel(<, Nat))
    BY NatLessThanWellFounded, WFMin, Zenon
  <1>3. PICK x \in T : \A y \in T : ~ (<<y, x>> \in {ss \in Nat \X Nat : ss[1] < ss[2]})
    BY <1>1, <1>2, Zenon
  <1>4. ASSUME NEW y \in T PROVE x <= y
    <2>1. <<y, x>> \in Nat \X Nat /\ <<y, x>>[1] = y /\ <<y, x>>[2] = x
      OBVIOUS
    <2>2. ~ (<<y, x>>[1] < <<y, x>>[2])
      BY <1>3, <2>1, Zenon
    <2> QED
      BY <2>1, <2>2
  <1> QED
    BY <1>4

\* A finite set of numbers is bounded: a least set that is not would have an
\* element to remove.
LEMMA BoundExists ==
    ASSUME NEW S \in SUBSET (Nat \ {0}), IsFiniteSet(S)
    PROVE  \E n \in Nat : S \subseteq 1..n
  <1> DEFINE Unbounded(T) == T \in SUBSET (Nat \ {0}) /\ IsFiniteSet(T)
                               /\ \A n \in Nat : ~(T \subseteq 1..n)
             Bad == {m \in Nat : \E T : Unbounded(T) /\ Cardinality(T) = m}
  <1>1. SUFFICES ASSUME Unbounded(S) PROVE FALSE
    OBVIOUS
  <1>2. Cardinality(S) \in Bad
    <2>1. Cardinality(S) \in Nat
      BY FS_CardinalityType
    <2> QED
      BY <1>1, <2>1
  <1>3. PICK m \in Bad : \A k \in Bad : m <= k
    <2>1. Bad \in SUBSET Nat /\ Bad # {}
      BY <1>2
    <2> HIDE DEF Bad
    <2> QED
      BY <2>1, LeastElement
  <1>4. PICK T : Unbounded(T) /\ Cardinality(T) = m
    BY <1>3
  <1>5. PICK x : x \in T
    <2>1. ~(T \subseteq 1..0)
      BY <1>4
    <2> QED
      BY <2>1
  <1>6. IsFiniteSet(T \ {x}) /\ Cardinality(T \ {x}) = m - 1
    BY <1>4, <1>5, FS_RemoveElement
  <1>7. m - 1 \in Nat
    <2>1. Cardinality(T \ {x}) \in Nat
      BY <1>6, FS_CardinalityType
    <2> QED
      BY <1>6, <2>1
  <1>8. m - 1 \notin Bad
    BY <1>3, <1>7
  <1>9. PICK n \in Nat : T \ {x} \subseteq 1..n
    <2>1. ~Unbounded(T \ {x})
      BY <1>6, <1>7, <1>8
    <2> QED
      BY <1>4, <1>6, <2>1
  <1>10. PICK k \in Nat : T \subseteq 1..k
    <2>1. x \in Nat \ {0}
      BY <1>4, <1>5
    <2>2. CASE x <= n
      <3>1. T \subseteq 1..n
        BY <1>9, <2>1, <2>2
      <3> QED
        BY <3>1
    <2>3. CASE ~(x <= n)
      <3>1. T \subseteq 1..x
        BY <1>9, <2>1, <2>3
      <3> QED
        BY <2>1, <3>1
    <2> QED
      BY <2>2, <2>3
  <1> QED
    BY <1>4, <1>10

\* f lists the elements of I in their order.
Lists(f, I) ==
    /\ f \in [1..Cardinality(I) -> I]
    /\ \A i, j \in 1..Cardinality(I) : i < j => f[i] < f[j]

LEMMA PlacesFinite ==
    ASSUME NEW n \in Nat, NEW I \in SUBSET (1..n)
    PROVE  IsFiniteSet(I) /\ Cardinality(I) \in Nat
  <1>1. IsFiniteSet(1..n)
    BY FS_Interval
  <1> QED
    BY <1>1, FS_Subset, FS_CardinalityType

\* Every set of places can be listed in order: by its largest element.
LEMMA ListExists ==
    ASSUME NEW n \in Nat, NEW I \in SUBSET (1..n)
    PROVE  \E f : Lists(f, I)
  <1> DEFINE Bad == {m \in Nat : \E J \in SUBSET (1..m) : \A f : ~Lists(f, J)}
  <1>1. SUFFICES Bad = {}
    <2>1. n \notin Bad
      BY <1>1
    <2> QED
      BY <2>1
  <1>2. SUFFICES ASSUME Bad # {} PROVE FALSE
    OBVIOUS
  <1>3. PICK m \in Bad : \A k \in Bad : m <= k
    <2>1. Bad \in SUBSET Nat
      OBVIOUS
    <2> HIDE DEF Bad
    <2> QED
      BY <1>2, <2>1, LeastElement
  <1>4. PICK J \in SUBSET (1..m) : \A f : ~Lists(f, J)
    BY <1>3
  <1>5. m \in Nat /\ IsFiniteSet(J) /\ Cardinality(J) \in Nat
    BY <1>3, PlacesFinite
  <1>6. m # 0
    <2> SUFFICES ASSUME m = 0 PROVE FALSE
      OBVIOUS
    <2>1. J = {}
      BY <1>5
    <2>2. Cardinality(J) = 0
      BY <2>1, FS_EmptySet
    <2>3. Lists(<<>>, J)
      BY <2>1, <2>2 DEF Lists
    <2> QED
      BY <2>3, <1>4
  <1>7. m - 1 \in Nat /\ m - 1 \notin Bad
    BY <1>3, <1>5, <1>6
  <1>8. \A K \in SUBSET (1..(m - 1)) : \E f : Lists(f, K)
    BY <1>7
  <1>9. CASE m \notin J
    <2>1. J \in SUBSET (1..(m - 1))
      BY <1>9, <1>5
    <2> QED
      BY <2>1, <1>8, <1>4
  <1>10. CASE m \in J
    <2> DEFINE K == J \ {m}
    <2>1. K \in SUBSET (1..(m - 1))
      BY <1>5
    <2>2. Cardinality(K) = Cardinality(J) - 1
      BY <1>10, <1>5, FS_RemoveElement
    <2>3. PICK f : Lists(f, K)
      BY <2>1, <1>8
    <2> DEFINE g == [i \in 1..Cardinality(J) |-> IF i = Cardinality(J) THEN m ELSE f[i]]
    <2>4. ASSUME NEW i \in 1..Cardinality(J), i # Cardinality(J)
          PROVE  i \in 1..Cardinality(K) /\ f[i] \in K /\ g[i] = f[i]
      <3>1. i \in 1..Cardinality(K)
        BY <2>2, <2>4, <1>5
      <3>2. f[i] \in K
        BY <2>3, <3>1 DEF Lists
      <3> QED
        BY <2>4, <3>1, <3>2
    <2>5. g \in [1..Cardinality(J) -> J]
      BY <2>4, <1>10
    <2>6. ASSUME NEW i \in 1..Cardinality(J), NEW j \in 1..Cardinality(J), i < j
          PROVE  g[i] < g[j]
      <3>1. i \in 1..Cardinality(K) /\ f[i] \in K /\ g[i] = f[i]
        BY <2>4, <2>6, <1>5
      <3>2. CASE j = Cardinality(J)
        <4>1. f[i] \in 1..(m - 1) /\ g[j] = m
          BY <3>1, <3>2, <2>1
        <4> QED
          BY <3>1, <4>1, <1>5
      <3>3. CASE j # Cardinality(J)
        BY <3>1, <3>3, <2>2, <2>3, <2>4, <2>6 DEF Lists
      <3> QED
        BY <3>2, <3>3
    <2>7. Lists(g, J)
      BY <2>5, <2>6 DEF Lists
    <2> QED
      BY <2>7, <1>4
  <1> QED
    BY <1>9, <1>10


DevicesOf(rows) == {w.device : w \in rows}

\* The devices of the rows, in their order.
LEMMA InOrderLists ==
    ASSUME NEW rows, DevicesOf(rows) \subseteq Devices
    PROVE  LET n == Cardinality(DevicesOf(rows)) IN
           /\ n \in Nat /\ InOrder(rows) \in [1..n -> Devices] /\ Len(InOrder(rows)) = n
           /\ \A i, j \in 1..n : i < j => InOrder(rows)[i] < InOrder(rows)[j]
           /\ \A i \in 1..n : InOrder(rows)[i] \in Nat
  <1> DEFINE S == DevicesOf(rows)
             n == Cardinality(S)
             f == InOrder(rows)
  <1>1. PICK m \in Nat : Devices \subseteq 1..m
    BY DevicesAssumption, BoundExists
  <1>2. n \in Nat
    BY <1>1, PlacesFinite
  <1>3. \E g : Lists(g, S)
    BY <1>1, ListExists
  <1>4. f \in [1..n -> S] /\ \A i, j \in 1..n : i < j => f[i] < f[j]
    <2>1. \E g \in [1..n -> S] : \A i, j \in 1..n : i < j => g[i] < g[j]
      BY <1>3 DEF Lists
    <2> QED
      BY <2>1, Zenon DEF InOrder, DevicesOf
  <1>5. S \subseteq Devices /\ Devices \subseteq Nat
    BY <1>1
  <1> HIDE DEF f, n, S
  <1>6. f \in [1..n -> Devices] /\ \A i \in 1..n : f[i] \in Nat
    BY <1>4, <1>5
  <1>7. Len(f) = n
    BY <1>2, <1>6
  <1> QED
    BY <1>2, <1>4, <1>6, <1>7 DEF f, n, S

\* What was served is everything up to the cursor.
Ordered(s) ==
    /\ DevicesOf(s.rows) \subseteq Devices
    /\ LET all == InOrder(s.rows) IN
       \E k \in 0..Len(all) :
          /\ s.served = SubSeq(all, 1, k)
          /\ IF s.cursor = Nil THEN k = Len(all) ELSE k >= 1 /\ s.cursor = all[k]

LEMMA ServedInOrder ==
    ASSUME NEW s, s = AsSession(s), DevicesOf(s.rows) \subseteq Devices,
           s.cursor # Nil => Ordered(s), NEW limit \in PageSizes
    PROVE  Ordered(Served(s, limit))
  <1>1. PICK all, n : all = InOrder(s.rows) /\ n = Len(all)
    OBVIOUS
  <1>2. /\ n \in Nat /\ all \in [1..n -> Devices] /\ Len(all) = n /\ all \in Seq(Devices)
        /\ \A i, j \in 1..n : i < j => all[i] < all[j]
        /\ \A i \in 1..n : all[i] \in Nat /\ all[i] # Nil
    BY <1>1, InOrderLists, ValuesAssumption
  <1>3. limit \in Nat /\ limit >= 1
    BY PagesAssumption
  <1>4. PICK start : start = IF s.cursor = Nil THEN 0
                            ELSE Cardinality({i \in 1..Len(all) : all[i] <= s.cursor})
    OBVIOUS
  <1>5. PICK end : end = IF start + limit < n THEN start + limit ELSE n
    OBVIOUS
  <1>6. PICK page : page = SubSeq(all, start + 1, end)
    OBVIOUS
  <1>7. PICK more : more = (MoreLeft(start + Len(page), n) /\ page # <<>>)
    OBVIOUS
  <1>8. PICK t : t = Served(s, limit)
    OBVIOUS
  <1>9. t = [s EXCEPT !.served = IF s.cursor = Nil THEN page ELSE s.served \o page,
                      !.cursor = IF more THEN Last(page) ELSE Nil]
    BY <1>1, <1>4, <1>5, <1>6, <1>7, <1>8 DEF Served, AsSession
  <1>10. /\ t.rows = s.rows /\ t.served = IF s.cursor = Nil THEN page ELSE s.served \o page
         /\ t.cursor = IF more THEN Last(page) ELSE Nil
    BY <1>9 DEF AsSession
  \* where the page starts
  <1>11. /\ start \in 0..n
         /\ IF s.cursor = Nil THEN start = 0 ELSE s.served = SubSeq(all, 1, start)
    <2>1. CASE s.cursor = Nil
      BY <1>2, <1>4, <2>1
    <2>2. CASE s.cursor # Nil
      <3>1. PICK k \in 1..n : s.served = SubSeq(all, 1, k) /\ s.cursor = all[k]
        BY <1>1, <1>2, <2>2 DEF Ordered
      <3>2. {i \in 1..Len(all) : all[i] <= s.cursor} = 1..k
        <4>1. ASSUME NEW i \in 1..n PROVE all[i] <= all[k] <=> i <= k
          <5>1. i < k \/ i = k \/ k < i
            BY <1>2
          <5>2. all[i] \in Nat /\ all[k] \in Nat
            BY <1>2
          <5> QED
            BY <1>2, <5>1, <5>2
        <4> QED
          BY <1>2, <3>1, <4>1
      <3>3. Cardinality(1..k) = k
        BY <1>2, FS_Interval
      <3>4. start = Cardinality({i \in 1..Len(all) : all[i] <= s.cursor})
        BY <1>4, <2>2
      <3>5. start = k
        BY <3>2, <3>3, <3>4, Zenon
      <3> QED
        BY <1>2, <2>2, <3>1, <3>5
    <2> QED
      BY <2>1, <2>2
  <1>12. /\ end \in start..n /\ (end < n => end > start) /\ page \in Seq(Devices)
         /\ Len(page) = end - start /\ \A i \in 1..end - start : page[i] = all[start + i]
    BY <1>2, <1>3, <1>5, <1>6, <1>11
  <1>13. t.served = SubSeq(all, 1, end)
    <2>1. CASE s.cursor = Nil
      <3>1. start = 0 /\ start + 1 = 1
        BY <1>11, <2>1
      <3> QED
        BY <1>6, <1>10, <2>1, <3>1, Zenon
    <2>2. CASE s.cursor # Nil
      <3>1. SubSeq(all, 1, start) \o SubSeq(all, start + 1, end) = SubSeq(all, 1, end)
        <4>1. PICK A : A = SubSeq(all, 1, start)
          OBVIOUS
        <4>2. /\ A \in Seq(Devices) /\ Len(A) = start
              /\ \A i \in 1..start : A[i] = all[i]
          BY <1>2, <1>11, <4>1
        <4>3. PICK B : B = SubSeq(all, 1, end)
          OBVIOUS
        <4>4. /\ B \in Seq(Devices) /\ Len(B) = end
              /\ \A i \in 1..end : B[i] = all[i]
          BY <1>2, <1>11, <1>12, <4>3
        <4>5. PICK C : C = A \o page
          OBVIOUS
        <4>6. /\ C \in Seq(Devices) /\ Len(C) = end
              /\ \A i \in 1..end : C[i] = IF i <= start THEN A[i] ELSE page[i - start]
          <5>1. C \in Seq(Devices) /\ Len(C) = Len(A) + Len(page)
            <6>1. A \in Seq(Devices) /\ page \in Seq(Devices)
              BY <1>12, <4>2
            <6>2. A \o page \in Seq(Devices) /\ Len(A \o page) = Len(A) + Len(page)
              BY <6>1
            <6> QED
              BY <4>5, <6>2
          <5>2. Len(C) = end
            BY <1>2, <1>11, <1>12, <4>2, <5>1
          <5>3. \A i \in 1..Len(A) + Len(page) :
                   C[i] = IF i <= Len(A) THEN A[i] ELSE page[i - Len(A)]
            BY <1>12, <4>2, <4>5
          <5> QED
            BY <4>2, <5>1, <5>2, <5>3
        <4>7. ASSUME NEW i \in 1..end PROVE C[i] = B[i]
          <5>1. CASE i <= start
            BY <1>2, <1>11, <1>12, <4>2, <4>4, <4>6, <5>1
          <5>2. CASE ~(i <= start)
            <6>1. i - start \in 1..end - start /\ start + (i - start) = i
              BY <1>2, <1>11, <1>12, <5>2
            <6>2. page[i - start] = all[i]
              BY <1>12, <6>1
            <6> QED
              BY <4>4, <4>6, <5>2, <6>2
          <5> QED
            BY <5>1, <5>2
        <4>8. C = B
          BY <4>4, <4>6, <4>7
        <4> QED
          BY <1>6, <4>1, <4>3, <4>5, <4>8
      <3> QED
        BY <1>6, <1>10, <1>11, <2>2, <3>1
    <2> QED
      BY <2>1, <2>2
  <1>14. more => end > start /\ t.cursor = all[end] /\ t.cursor # Nil
    <2> SUFFICES ASSUME more PROVE end > start /\ t.cursor = all[end] /\ t.cursor # Nil
      OBVIOUS
    <2>1. page # <<>>
      BY <1>7
    <2>2. end > start
      BY <1>2, <1>11, <1>12, <2>1
    <2>3. t.cursor = page[end - start]
      BY <1>10, <1>12 DEF Last
    <2>4. t.cursor = all[end] /\ end \in 1..n
      BY <1>2, <1>11, <1>12, <2>2, <2>3
    <2> QED
      BY <1>2, <2>2, <2>4
  <1>15. ~more => end = n /\ t.cursor = Nil
    <2> SUFFICES ASSUME ~more, end < n PROVE FALSE
      BY <1>2, <1>10, <1>11, <1>12
    <2>1. page # <<>>
      BY <1>2, <1>11, <1>12
    <2>2. ~(start + Len(page) < n)
      BY <1>7, <2>1 DEF MoreLeft
    <2> QED
      BY <1>2, <1>11, <1>12, <2>2
  <1>16. /\ end \in 0..n /\ t.served = SubSeq(all, 1, end)
         /\ IF t.cursor = Nil THEN end = n ELSE end >= 1 /\ t.cursor = all[end]
    BY <1>2, <1>11, <1>12, <1>13, <1>14, <1>15
  <1>17. Ordered(t)
    BY <1>1, <1>10, <1>16 DEF Ordered
  <1> QED
    BY <1>8, <1>17

LEMMA OrderedPages ==
    ASSUME NEW s, Ordered(s)
    PROVE  LET all == InOrder(s.rows) IN
           /\ IsPrefix(s.served, all)
           /\ IF s.cursor = Nil THEN s.served = all ELSE Last(s.served) = s.cursor
  <1>1. PICK all, n : all = InOrder(s.rows) /\ n = Len(all)
    OBVIOUS
  <1>2. n \in Nat /\ all \in [1..n -> Devices] /\ all \in Seq(Devices)
    <2>1. DevicesOf(s.rows) \subseteq Devices
      BY DEF Ordered
    <2>2. PICK c \in Nat : all \in [1..c -> Devices]
      BY <1>1, <2>1, InOrderLists
    <2>3. all \in Seq(Devices) /\ Len(all) = c
      BY <2>2
    <2> QED
      BY <1>1, <2>2, <2>3
  <1>3. PICK k \in 0..n : /\ s.served = SubSeq(all, 1, k)
                          /\ IF s.cursor = Nil THEN k = n ELSE k >= 1 /\ s.cursor = all[k]
    BY <1>1 DEF Ordered
  <1>4. Len(s.served) = k /\ \A i \in 1..k : s.served[i] = all[i]
    BY <1>1, <1>2, <1>3
  <1>5. SubSeq(s.served, 1, k) = SubSeq(all, 1, k)
    BY <1>1, <1>2, <1>3, <1>4
  <1>6. IsPrefix(s.served, all)
    BY <1>1, <1>2, <1>3, <1>4, <1>5 DEF IsPrefix
  <1>7. s.cursor = Nil => s.served = all
    BY <1>1, <1>2, <1>3
  <1>8. s.cursor # Nil => Last(s.served) = s.cursor
    BY <1>3, <1>4 DEF Last
  <1> QED
    BY <1>1, <1>6, <1>7, <1>8

\* A comparison under way and one that is being served list devices, and what was
\* served of the latter is everything up to the cursor.
Serves(d) ==
    /\ op[d].stage = "snapshots" => \A m \in op[d].listed : m[1] \in Devices
    /\ op[d].stage \in {"check", "checked"} => DevicesOf(op[d].rows) \subseteq Devices
    /\ session[d] = AsSession(session[d])
    /\ session[d] # NoSession => Ordered(session[d])
ServesOK == DOMAIN session = Devices /\ \A d \in Devices : Serves(d)

\* Only d goes on.
LEMMA ServesStep ==
    ASSUME ServesOK, NEW d \in Devices, Serves(d)', DOMAIN session' = Devices,
           \A e \in Devices \ {d} : op'[e] = op[e] /\ session'[e] = session[e]
    PROVE  ServesOK'
  <1>1. ASSUME NEW e \in Devices \ {d} PROVE Serves(e)'
    <2>1. PICK t : t = session[e]
      OBVIOUS
    <2>2. session'[e] = t /\ op'[e] = op[e] /\ Serves(e)
      BY <2>1 DEF ServesOK
    <2>3. t # NoSession => Ordered(t)
      BY <2>1, <2>2 DEF Serves
    <2>4. session'[e] # NoSession => Ordered(session[e])'
      <3>1. t # NoSession => Ordered(t)'
        BY <2>3 DEF Ordered, DevicesOf, InOrder
      <3> QED
        BY <2>2, <3>1
    <2>5. session'[e] = AsSession(session'[e])
      BY <2>1, <2>2 DEF Serves
    <2>6. /\ op'[e].stage = "snapshots" => \A m \in op'[e].listed : m[1] \in Devices
          /\ op'[e].stage \in {"check", "checked"} => DevicesOf(op'[e].rows) \subseteq Devices
      BY <2>2 DEF Serves
    <2> QED
      BY <2>4, <2>5, <2>6 DEF Serves, AsSession, DevicesOf
  <1> QED
    BY <1>1 DEF ServesOK

LEMMA ServesNext ==
    ASSUME Inv, ServesOK, [Next]_vars
    PROVE  ServesOK'
  <1>1. CASE UNCHANGED vars
    BY <1>1 DEF ServesOK, Serves, vars
  <1>2. ASSUME NEW d \in Devices, NEW o, op' = [op EXCEPT ![d] = o],
               o.stage \notin {"snapshots", "check", "checked"},
               \/ session' = session \/ session' = [session EXCEPT ![d] = NoSession]
        PROVE  ServesOK'
    <2>1. /\ op'[d] = o /\ DOMAIN session' = Devices
          /\ \A e \in Devices \ {d} : op'[e] = op[e] /\ session'[e] = session[e]
          /\ session'[d] = session[d] \/ session'[d] = NoSession
      BY <1>2 DEF Inv, HandlersOK, ServesOK
    <2>2. Serves(d)'
      BY <1>2, <2>1 DEF ServesOK, Serves, AsSession, NoSession
    <2> QED
      BY <2>1, <2>2, ServesStep
  <1>3. ASSUME NEW d \in Devices, op' = op,
               \/ session' = session \/ session' = [session EXCEPT ![d] = NoSession]
        PROVE  ServesOK'
    <2>1. /\ DOMAIN session' = Devices
          /\ \A e \in Devices \ {d} : op'[e] = op[e] /\ session'[e] = session[e]
          /\ session'[d] = session[d] \/ session'[d] = NoSession
      BY <1>3 DEF ServesOK
    <2>2. Serves(d)'
      BY <1>3, <2>1 DEF ServesOK, Serves, AsSession, NoSession
    <2> QED
      BY <2>1, <2>2, ServesStep
  <1>4. ASSUME NEW d \in Devices, CompareMembers(d) PROVE ServesOK'
    <2>1. /\ op'[d].stage = "snapshots" /\ op'[d].listed = Listing(op[d].room)
          /\ session' = session /\ \A e \in Devices \ {d} : op'[e] = op[e]
      BY <1>4 DEF CompareMembers, Listing, Inv, HandlersOK
    <2>2. \A m \in Listing(op[d].room) : m[1] \in Devices
      BY DEF Listing
    <2>3. Serves(d)' /\ DOMAIN session' = Devices
      BY <2>1, <2>2 DEF ServesOK, Serves
    <2> QED
      BY <2>1, <2>3, ServesStep
  <1>5. ASSUME NEW d \in Devices, CompareSnapshots(d) PROVE ServesOK'
    <2> DEFINE shown(m) == IF snapshot[m[1]].room = op[d].room /\ member[m[1]].room = op[d].room
                           THEN snapshot[m[1]] ELSE NoSnapshot
               row(m) == [device |-> m[1], name |-> m[2], rev |-> shown(m).rev,
                          content |-> shown(m).content]
    <2>1. /\ op'[d].stage = "check" /\ op'[d].rows = {row(m) : m \in op[d].listed}
          /\ session' = session /\ \A e \in Devices \ {d} : op'[e] = op[e]
          /\ op[d].stage = "snapshots"
      BY <1>5 DEF CompareSnapshots, Inv, HandlersOK
    <2>2. \A m \in op[d].listed : row(m).device = m[1] /\ m[1] \in Devices
      BY <2>1 DEF ServesOK, Serves
    <2> HIDE DEF row
    <2>3. DevicesOf(op'[d].rows) \subseteq Devices
      BY <2>1, <2>2 DEF DevicesOf
    <2>4. Serves(d)' /\ DOMAIN session' = Devices
      BY <2>1, <2>3 DEF ServesOK, Serves, DevicesOf
    <2> QED
      BY <2>1, <2>4, ServesStep
  <1>6. ASSUME NEW d \in Devices, NEW s, s = AsSession(s), DevicesOf(s.rows) \subseteq Devices,
               s.cursor # Nil => Ordered(s), NEW limit \in PageSizes,
               session' = [session EXCEPT ![d] = Served(s, limit)],
               op' = op \/ op' = [op EXCEPT ![d] = Idle]
        PROVE  ServesOK'
    <2>1. PICK t : t = Served(s, limit)
      OBVIOUS
    <2>2. t = AsSession(t) /\ Ordered(t)
      BY <1>6, <2>1, ServedKeeps, ServedInOrder
    <2>3. /\ session'[d] = t /\ DOMAIN session' = Devices
          /\ op'[d] = op[d] \/ op'[d] = Idle
          /\ \A e \in Devices \ {d} : op'[e] = op[e] /\ session'[e] = session[e]
      BY <1>6, <2>1 DEF ServesOK, Inv, HandlersOK
    <2>4. Ordered(session[d])'
      <3>1. Ordered(session'[d])
        BY <2>2, <2>3
      <3> QED
        BY <3>1 DEF Ordered, DevicesOf, InOrder
    <2>5. Serves(d)'
      BY <2>2, <2>3, <2>4, RoomValues DEF ServesOK, Serves, AsSession
    <2> QED
      BY <2>3, <2>5, ServesStep
  <1>7. ASSUME NEW d \in Devices, CompareReread(d) PROVE ServesOK'
    <2>1. /\ op'[d].stage = "checked" /\ op'[d].rows = op[d].rows /\ op[d].stage = "check"
          /\ session' = session /\ \A e \in Devices \ {d} : op'[e] = op[e]
      BY <1>7 DEF CompareReread, Inv, HandlersOK
    <2>2. Serves(d)' /\ DOMAIN session' = Devices
      BY <2>1 DEF ServesOK, Serves, DevicesOf
    <2> QED
      BY <2>1, <2>2, ServesStep
  <1>8. ASSUME NEW d \in Devices, NEW limit \in PageSizes, CompareAnswer(d, limit)
        PROVE  ServesOK'
    <2>1. op[d].stage = "checked" /\ DevicesOf(op[d].rows) \subseteq Devices
      BY <1>8 DEF CompareAnswer, ServesOK, Serves
    <2>2. PICK still \in BOOLEAN : still = StillAt(op[d].last, op[d].rev)
      BY DEF StillAt
    <2>3. CASE still /\ d \in connected
      <3>1. PICK s : s = [room |-> op[d].room, rev |-> op[d].rev, rows |-> op[d].rows,
                          served |-> <<>>, cursor |-> Nil]
        OBVIOUS
      <3>2. s = AsSession(s) /\ s.rows = op[d].rows /\ s.cursor = Nil
        BY <3>1 DEF AsSession
      <3>3. /\ op' = [op EXCEPT ![d] = Idle] /\ session' = [session EXCEPT ![d] = Served(s, limit)]
        BY <1>8, <2>2, <2>3, <3>1 DEF CompareAnswer
      <3>4. DevicesOf(s.rows) \subseteq Devices
        BY <2>1, <3>2
      <3> QED
        BY <1>6, <3>2, <3>3, <3>4
    <2>4. CASE still /\ d \notin connected
      <3>1. op' = [op EXCEPT ![d] = Idle] /\ session' = [session EXCEPT ![d] = NoSession]
        BY <1>8, <2>2, <2>4 DEF CompareAnswer
      <3> QED
        BY <1>2, <3>1, RoomValues
    <2>5. CASE ~still
      <3>1. PICK o : o = IF op[d].attempt = 1
                           THEN [stage |-> "attempt", attempt |-> 2, room |-> op[d].room]
                         ELSE Idle
        OBVIOUS
      <3>2. op' = [op EXCEPT ![d] = o] /\ session' = session
        BY <1>8, <2>2, <2>5, <3>1 DEF CompareAnswer
      <3>3. o.stage \in {"attempt", "idle"}
        BY <3>1, RoomValues
      <3> QED
        BY <1>2, <3>2, <3>3
    <2> QED
      BY <2>3, <2>4, <2>5
  <1>9. ASSUME NEW d \in Devices,
               \/ Compare(d) \/ Attempt(d) \/ NextPage(d)
               \/ \E expired \in BOOLEAN : PageReread(d, expired)
        PROVE  ServesOK'
    <2>1. PICK o : op' = [op EXCEPT ![d] = o] /\ o.stage \in {"attempt", "members", "token",
                                                              "page", "idle"}
      <3>1. CASE Compare(d)
        <4>1. PICK o : o = [stage |-> "attempt", attempt |-> 1, room |-> member[d].room]
          OBVIOUS
        <4>2. op' = [op EXCEPT ![d] = o] /\ o.stage = "attempt"
          BY <3>1, <4>1 DEF Compare
        <4> QED
          BY <4>2
      <3>2. CASE Attempt(d)
        <4>1. PICK o : o = [stage |-> "members", attempt |-> op[d].attempt, room |-> op[d].room,
                            rev |-> revision[op[d].room]]
          OBVIOUS
        <4>2. op' = [op EXCEPT ![d] = o] /\ o.stage = "members"
          BY <3>2, <4>1 DEF Attempt
        <4> QED
          BY <4>2
      <3>3. CASE NextPage(d)
        <4>1. PICK o : o = [stage |-> "token", room |-> member[d].room]
          OBVIOUS
        <4>2. op' = [op EXCEPT ![d] = o] /\ o.stage = "token"
          BY <3>3, <4>1 DEF NextPage
        <4> QED
          BY <4>2
      <3>4. ASSUME NEW expired \in BOOLEAN, PageReread(d, expired)
            PROVE  \E o : op' = [op EXCEPT ![d] = o] /\ o.stage \in {"attempt", "members",
                                                                   "token", "page", "idle"}
        <4>1. PICK o : o = [stage |-> "page", last |-> Reread(op[d].room)]
          OBVIOUS
        <4>2. op' = [op EXCEPT ![d] = o] \/ op' = [op EXCEPT ![d] = Idle]
          BY <3>4, <4>1 DEF PageReread
        <4>3. o.stage = "page" /\ Idle.stage = "idle"
          BY <4>1, RoomValues
        <4> QED
          BY <4>2, <4>3
      <3> QED
        BY <1>9, <3>1, <3>2, <3>3, <3>4
    <2>2. session' = session \/ session' = [session EXCEPT ![d] = NoSession]
      BY <1>9 DEF Compare, Attempt, NextPage, PageReread
    <2> QED
      BY <1>2, <2>1, <2>2
  <1>10. ASSUME NEW d \in Devices,
                \/ \E to \in Legacy \cup {Nil}, n \in Names \cup {Nil} : Move(d, to, n)
                \/ MoveAdapter(d) \/ MoveAdapterFails(d) \/ PersistMoveFails(d)
                \/ RestoreAdapter(d) \/ RestoreAdapterFails(d)
                \/ ReadRevision(d) \/ AnnounceRevision(d)
                \/ \E rev \in 1..MaxClientRevision, c \in Contents : Upload(d, rev, c)
                \/ ReadStored(d) \/ Push(d) \/ ReadInitial(d) \/ SendInitial(d)
                \/ \E t \in Devices : Follow(d, t)
                \/ PersistMove(d) \/ (\E n \in Names : Rename(d, n)) \/ SaveSnapshot(d)
         PROVE  ServesOK'
    <2>1. session' = session
      BY <1>10 DEF Move, MoveAdapter, MoveAdapterFails, PersistMoveFails, RestoreAdapter,
         RestoreAdapterFails, ReadRevision, AnnounceRevision, Upload, ReadStored, Push, ReadInitial, SendInitial,
         Follow, PersistMove, Rename, SaveSnapshot
    <2>2. PICK o : o.stage \notin Comparing /\ op' = [op EXCEPT ![d] = o]
      BY <1>10, AsideOp
    <2>3. o.stage \notin {"snapshots", "check", "checked"}
      BY <2>2 DEF Comparing
    <2> QED
      BY <1>2, <2>1, <2>2, <2>3
  <1>11. ASSUME NEW d \in Devices,
                \/ Connect(d) \/ Disconnect(d) \/ Close(d) \/ Unfollow(d) \/ Expire(d)
                \/ (\E n \in Names : PoolJoin(d, n)) \/ RemoveTemporary(d) \/ AdminDelete(d)
         PROVE  ServesOK'
    <2>1. /\ op' = op
          /\ session' = session \/ session' = [session EXCEPT ![d] = NoSession]
      BY <1>11 DEF Connect, Disconnect, Close, Unfollow, Expire, PoolJoin, RemoveTemporary,
         AdminDelete
    <2> QED
      BY <1>3, <2>1
  <1>12. ASSUME NEW d \in Devices, NEW limit \in PageSizes, ServePage(d, limit)
         PROVE  ServesOK'
    <2>1. PICK s : s = session[d]
      OBVIOUS
    <2>2. /\ op' = [op EXCEPT ![d] = Idle]
          /\ \/ s # NoSession /\ session' = [session EXCEPT ![d] = Served(s, limit)]
             \/ session' = [session EXCEPT ![d] = NoSession]
      BY <1>12, <2>1 DEF ServePage
    <2>3. s # NoSession => s = AsSession(s) /\ Ordered(s) /\ DevicesOf(s.rows) \subseteq Devices
      BY <2>1 DEF ServesOK, Serves, Ordered
    <2>4. CASE s # NoSession /\ session' = [session EXCEPT ![d] = Served(s, limit)]
      BY <1>6, <2>2, <2>3, <2>4
    <2>5. CASE session' = [session EXCEPT ![d] = NoSession]
      BY <1>2, <2>2, <2>5, RoomValues
    <2> QED
      BY <2>2, <2>4, <2>5
  <1>13. CASE Next
    <2>1. PICK d \in Devices :
             \/ Connect(d) \/ Disconnect(d) \/ Close(d) \/ Step(d)
             \/ "move" \in Ops /\ \E n \in Names, to \in Legacy : Move(d, to, n)
             \/ "leave" \in Ops /\ Move(d, Nil, Nil)
             \/ "rename" \in Ops /\ \E n \in Names : Rename(d, n)
             \/ "pool" \in Ops /\ \E n \in Names : PoolJoin(d, n)
             \/ "expire" \in Ops /\ Expire(d)
             \/ "delete" \in Ops /\ AdminDelete(d)
             \/ RemoveTemporary(d)
             \/ "upload" \in Ops /\ \E rev \in 1..MaxClientRevision, c \in Contents :
                                       Upload(d, rev, c)
             \/ "follow" \in Ops /\ (Unfollow(d) \/ \E t \in Devices : Follow(d, t))
             \/ "compare" \in Ops /\ (Compare(d) \/ NextPage(d))
      BY <1>13, Zenon DEF Next
    <2>2. CASE Step(d)
      BY <1>4, <1>5, <1>7, <1>8, <1>9, <1>10, <1>12, <2>2 DEF Step
    <2>3. CASE \/ \E n \in Names, to \in Legacy : Move(d, to, n)
               \/ Move(d, Nil, Nil)
               \/ \E n \in Names : Rename(d, n)
               \/ \E rev \in 1..MaxClientRevision, c \in Contents : Upload(d, rev, c)
               \/ \E t \in Devices : Follow(d, t)
      BY <1>10, <2>3
    <2>4. CASE \/ Connect(d) \/ Disconnect(d) \/ Close(d) \/ Unfollow(d) \/ Expire(d)
               \/ (\E n \in Names : PoolJoin(d, n)) \/ RemoveTemporary(d) \/ AdminDelete(d)
      BY <1>11, <2>4
    <2>5. CASE Compare(d) \/ NextPage(d)
      BY <1>9, <2>5
    <2> QED
      BY <2>1, <2>2, <2>3, <2>4, <2>5
  <1> QED
    BY <1>1, <1>13

LEMMA ServesInit == Init => ServesOK
  <1> SUFFICES ASSUME Init, NEW d \in Devices PROVE Serves(d)
    BY DEF Init, ServesOK
  <1>1. NoSession = AsSession(NoSession)
    BY DEF AsSession, NoSession
  <1>2. op[d] = Idle /\ session[d] = NoSession
    BY DEF Init
  <1> QED
    BY <1>1, <1>2, RoomValues DEF Serves

-----------------------------------------------------------------------------
(* The theorems                                                            *)

\* The directory, what the handlers carry, what was told and the namespaces stay
\* as the handlers of socket.ts rely on.
THEOREM InvHolds == Spec => []Inv
  BY InvInit, InvNext, PTL DEF Spec

\* A stored snapshot is of the room its device is in (saveSnapshot, joinRoom,
\* leaveRoom, joinUnifiedPool and the retention sweep together), however the
\* awaits of an upload and of other operations are interleaved.
THEOREM SnapshotInMemberRoomHolds == Spec => []SnapshotInMemberRoom
  <1>1. Inv => SnapshotInMemberRoom
    BY DEF Inv, DirectoryOK
  <1> QED
    BY <1>1, InvHolds, PTL

\* A connection that has nothing under way is in the namespace of its room, also
\* after a switch that failed in setAdapterMembership or in joinRoom and was taken
\* back; only a call of restoreAdapterMembership that throws as well strands it.
THEOREM HearsOwnRoomHolds == Spec => []HearsOwnRoom
  <1>1. Inv => HearsOwnRoom
    <2> SUFFICES ASSUME Inv, NEW d \in connected \ stranded, op[d] = Idle
                 PROVE  {member[d].room} \cap Legacy \subseteq joined[d]
      BY DEF HearsOwnRoom
    <2>1. Hears(d)
      BY DEF Inv, NamespacesOK
    <2> QED
      BY <2>1, RoomValues DEF Hears
  <1> QED
    BY <1>1, InvHolds, PTL

\* announceRoomNotification never tells a connection an older revision after a
\* newer one.
THEOREM RevisionsToldIncreaseHolds == Spec => RevisionsToldIncrease
  <1>1. Inv /\ [Next]_vars => [\A d \in Devices, r \in Legacy : seen'[d][r] >= seen[d][r]]_vars
    BY InvNext DEF Rising
  <1> QED
    BY <1>1, InvHolds, PTL DEF Spec, RevisionsToldIncrease

\* As long as no call throws, the latest revision of every room was announced and
\* told to whoever is connected to it, once nothing is under way: the handlers of
\* socket.ts that changed a room announce what they read after the change.  The
\* administrator's deletion does not, and the rooms it changed are excepted.
THEOREM LatestChangeToldHolds == ~Faults => (Spec => []LatestChangeTold)
  <1> SUFFICES ASSUME ~Faults PROVE Spec => []LatestChangeTold
    OBVIOUS
  <1>1. Inv /\ Inv' /\ TellsOK /\ [Next]_vars => TellsOK'
    BY TellsNext
  <1> QED
    BY <1>1, TellsInit, TellsImplies, InvHolds, PTL DEF Spec

\* Every page of a comparison shows the room as it was when its revision was read
\* last, in the same request, however the awaits of the comparison are interleaved
\* with what others do, unless the room changed meanwhile without a new revision:
\* buildComparison with its retry and the check of the session by the next page.
THEOREM PageIsCurrentHolds == Spec => PageIsCurrent
  <1>1. Inv /\ Inv' /\ PagesOK /\ [Next]_vars =>
          PagesOK' /\ [\A d \in Devices :
                         session'[d] # session[d] /\ session'[d] # NoSession =>
                           op[d].last.shown \in {Nil, session'[d].rows}]_vars
    BY PagesNext DEF Current
  <1> QED
    BY <1>1, PagesInit, InvHolds, PTL DEF Spec, PageIsCurrent

\* The pages of a comparison follow each other in the order of the devices with
\* nothing left out, whatever the limits and wherever the cursor is (the paging of
\* room:comparison).
THEOREM PagesInOrderHolds == Spec => []PagesInOrder
  <1>1. ServesOK => PagesInOrder
    BY OrderedPages DEF ServesOK, Serves, PagesInOrder
  <1>2. Inv /\ ServesOK /\ [Next]_vars => ServesOK'
    BY ServesNext
  <1> QED
    BY <1>1, <1>2, ServesInit, InvHolds, PTL DEF Spec

=============================================================================
