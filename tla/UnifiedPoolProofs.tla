-------------------------- MODULE UnifiedPoolProofs --------------------------
(***************************************************************************)
(* Theorems about UnifiedPool, for every set of devices, connections and   *)
(* names, every bound and both kinds of services.                          *)
(***************************************************************************)
EXTENDS UnifiedPool, SequenceTheorems, TLAPS

-----------------------------------------------------------------------------
(* Facts about the data *)

LEMMA RequestFields ==
    ASSUME NEW r \in AllRequests
    PROVE  /\ r.op \in {"join", "rename", "room_rename", "room_join"} => r.name \in Names
           /\ r.op = "room_join" => r.to \in Rooms
           /\ r.op = "start" => r.to \in Devices
  BY DEF AllRequests

LEMMA OperationFields ==
    ASSUME NEW o \in Operation
    PROVE  /\ o.kind \in {"init", "event", "awaiting", "closed", "cleanup"}
           /\ o.kind \in {"event", "awaiting"} => o.request \in AllRequests
           /\ o.kind # "cleanup" => o.conn \in Conns
           /\ o.wasActive \in BOOLEAN
  <1>1. CASE o \in [kind : {"event", "awaiting"}, conn : Conns, wasActive : {FALSE},
                    request : AllRequests]
    BY <1>1
  <1>2. CASE o \in [kind : {"init"}, conn : Conns, wasActive : {FALSE}, request : {Nil}]
    BY <1>2
  <1>3. CASE o \in [kind : {"closed"}, conn : Conns, wasActive : BOOLEAN, request : {Nil}]
    BY <1>3
  <1>4. CASE o = Cleanup
    BY <1>4 DEF Cleanup
  <1> QED
    BY <1>1, <1>2, <1>3, <1>4 DEF Operation

LEMMA HeadTail ==
    ASSUME TypeOK, NEW d \in Devices, queue[d] # <<>>
    PROVE  /\ Head1(d) \in Operation
           /\ Tail(queue[d]) \in Seq(Operation)
           /\ Next1(d) \in [Devices -> Seq(Operation)]
  BY DEF TypeOK, Head1, Next1

LEMMA UnexpiredType ==
    ASSUME NEW m \in [Devices -> Membership], NEW since
    PROVE  Unexpired(m, since) \in [Devices -> Membership]
  BY DEF Unexpired, Membership

LEMMA FreshType ==
    ASSUME NEW rel \in [Devices -> Relation]
    PROVE  Fresh(rel) \in [Devices -> Relation]
  BY DEF Fresh, Relation

LEMMA UnfollowedType ==
    ASSUME NEW rel \in [Devices -> Relation], NEW d
    PROVE  Unfollowed(rel, d) \in [Devices -> Relation]
  BY DEF Unfollowed, Relation

LEMMA PublishType ==
    ASSUME NEW m \in [Devices -> Membership], NEW rel \in [Devices -> Relation], NEW since,
           Publish(m, rel, since)
    PROVE  membership' \in [Devices -> Membership] /\ relation' \in [Devices -> Relation]
  BY UnexpiredType, FreshType DEF Publish

LEMMA NoRowTypes == NoMembership \in Membership /\ NoRelation \in Relation
  BY DEF Membership, Relation

LEMMA LobbyDataDeletedType ==
    ASSUME TypeOK, NEW gone, LobbyDataDeleted(gone)
    PROVE  membership' \in [Devices -> Membership] /\ relation' \in [Devices -> Relation]
  <1> DEFINE members == [d \in Devices |-> IF d \in gone THEN NoMembership ELSE membership[d]]
             rows == [v \in Devices |-> IF v \in gone \/ relation[v].target \in gone
                                        THEN NoRelation ELSE relation[v]]
  <1>1. members \in [Devices -> Membership] /\ rows \in [Devices -> Relation]
    BY NoRowTypes DEF TypeOK
  <1>2. Publish(members, rows, idle)
    BY DEF LobbyDataDeleted
  <1> QED
    BY <1>1, <1>2, PublishType

-----------------------------------------------------------------------------
(* Type correctness *)

LEMMA CloseSocketType ==
    ASSUME TypeOK, NEW d \in Devices, NEW c \in Conns, CloseSocket(d, c)
    PROVE  /\ open' \in [Devices -> SUBSET Conns]
           /\ active' \in [Devices -> Conns \cup {Nil}]
           /\ queue' \in [Devices -> Seq(Operation)]
  <1>1. Closed(c, active[d] = c) \in Operation
    BY DEF Operation, Closed
  <1> QED
    BY <1>1 DEF TypeOK, CloseSocket

LEMMA DisconnectDeviceType ==
    ASSUME TypeOK, NEW d \in Devices, DisconnectDevice(d)
    PROVE  /\ open' \in [Devices -> SUBSET Conns]
           /\ active' \in [Devices -> Conns \cup {Nil}]
           /\ queue' \in [Devices -> Seq(Operation)]
  <1>1. CASE Online(d)
    <2>1. active[d] \in Conns
      BY <1>1 DEF TypeOK, Online
    <2> QED
      BY <1>1, <2>1, CloseSocketType DEF DisconnectDevice
  <1>2. CASE ~Online(d)
    BY <1>2 DEF DisconnectDevice, TypeOK
  <1> QED
    BY <1>1, <1>2

LEMMA AppendSeq ==
    ASSUME NEW S, NEW s \in Seq(S), NEW x \in S
    PROVE  Append(s, x) \in Seq(S)
  OBVIOUS

LEMMA ConcatSeq ==
    ASSUME NEW S, NEW s \in Seq(S), NEW u \in Seq(S)
    PROVE  s \o u \in Seq(S)
  OBVIOUS

LEMMA SingletonSeq ==
    ASSUME NEW S, NEW x \in S
    PROVE  <<x>> \in Seq(S)
  OBVIOUS

LEMMA ReplacedClosedType ==
    ASSUME TypeOK, NEW d \in Devices, NEW c \in Conns
    PROVE  ReplacedClosed(d, c) \in Seq(Operation)
  <1>1. CASE Replaced(d, c) = {}
    BY <1>1 DEF ReplacedClosed
  <1>2. CASE Replaced(d, c) # {}
    <2>1. active[d] \in Conns
      BY <1>2 DEF Replaced, TypeOK
    <2>2. Closed(active[d], FALSE) \in Operation
      BY <2>1 DEF Operation, Closed
    <2> QED
      BY <1>2, <2>2, SingletonSeq DEF ReplacedClosed
  <1> QED
    BY <1>1, <1>2

\* Giving a pool member another name keeps the table well formed.
LEMMA RenamedType ==
    ASSUME TypeOK, NEW d \in Devices, InPool(d), NEW n \in Names
    PROVE  [membership EXCEPT ![d].name = n] \in [Devices -> Membership]
  <1>1. membership[d] \in [room : Rooms, name : Names]
    BY DEF TypeOK, Membership, InPool, NoMembership
  <1>2. [membership[d] EXCEPT !.name = n] \in Membership
    BY <1>1 DEF Membership
  <1> QED
    BY <1>2 DEF TypeOK

LEMMA HandleType ==
    ASSUME TypeOK, NEW d \in Devices, NEW r \in AllRequests, Handle(d, r) \/ NoEffect
    PROVE  /\ membership' \in [Devices -> Membership]
           /\ relation' \in [Devices -> Relation]
           /\ leftover' \subseteq Devices
  <1>0. CASE NoEffect
    BY <1>0 DEF NoEffect, TypeOK
  <1>1. CASE r.op = "join" /\ BroadcasterJoin(d, r.name)
    <2>1. r.name \in Names
      BY <1>1, RequestFields
    <2>2. [membership EXCEPT ![d] = [room |-> "pool", name |-> r.name]]
            \in [Devices -> Membership]
      BY <2>1 DEF TypeOK, Membership, Rooms
    <2> QED
      BY <1>1, <1>0, <2>2, PublishType DEF BroadcasterJoin, TypeOK
  <1>2. CASE r.op = "rename" /\ BroadcasterRename(d, r.name)
    <2>1. r.name \in Names
      BY <1>2, RequestFields
    <2>2. CASE InPool(d)
      <3>1. [membership EXCEPT ![d].name = r.name] \in [Devices -> Membership]
        BY <2>1, <2>2, RenamedType
      <3> QED
        BY <1>0, <1>2, <3>1, PublishType DEF BroadcasterRename, TypeOK
    <2>3. CASE ~InPool(d)
      BY <1>0, <1>2, <2>3 DEF BroadcasterRename
    <2> QED
      BY <2>2, <2>3
  <1>3. CASE r.op = "room_join" /\ RoomJoin(d, r.name, r.to)
    <2>1. r.name \in Names /\ r.to \in Rooms
      BY <1>3, RequestFields
    <2>2. [membership EXCEPT ![d] = [room |-> r.to, name |-> r.name]]
            \in [Devices -> Membership]
      BY <2>1 DEF TypeOK, Membership
    <2>3. CASE d \notin registered
      BY <1>0, <1>3, <2>3 DEF RoomJoin
    <2>4. CASE d \in registered
      BY <1>3, <2>2, <2>4 DEF RoomJoin, TypeOK
    <2> QED
      BY <2>3, <2>4
  <1>4. CASE r.op = "room_rename" /\ RoomRename(d, r.name)
    <2>1. r.name \in Names
      BY <1>4, RequestFields
    <2>2. CASE membership[d] = NoMembership
      BY <1>0, <1>4, <2>2 DEF RoomRename
    <2>3. CASE membership[d] # NoMembership
      <3>1. [membership EXCEPT ![d].name = r.name] \in [Devices -> Membership]
        BY <2>1, <2>3 DEF TypeOK, Membership
      <3> QED
        BY <1>4, <2>3, <3>1 DEF RoomRename, TypeOK
    <2> QED
      BY <2>2, <2>3
  <1>5. CASE r.op = "room_leave" /\ RoomLeave(d)
    BY <1>5, NoRowTypes DEF RoomLeave, TypeOK
  <1>6. CASE r.op = "start" /\ RealtimeStart(d, r.to)
    <2>1. r.to \in Devices
      BY <1>6, RequestFields
    <2>2. /\ Unexpired(membership, idle) \in [Devices -> Membership]
          /\ Fresh(relation) \in [Devices -> Relation]
      BY UnexpiredType, FreshType DEF TypeOK
    <2>3. [target |-> r.to, age |-> 0] \in Relation
      BY <2>1, ClockAssumption DEF Relation
    <2>4. [Fresh(relation) EXCEPT ![d] = [target |-> r.to, age |-> 0]] \in [Devices -> Relation]
      BY <2>2, <2>3
    <2> QED
      BY <1>6, <2>2, <2>4 DEF RealtimeStart, TypeOK
  <1>7. CASE r.op = "heartbeat" /\ RealtimeHeartbeat(d)
    <2>1. [relation[d] EXCEPT !.age = 0] \in Relation
      <3>1. CASE relation[d] \in [target : Devices, age : 0..StaleAfter]
        BY <3>1, ClockAssumption DEF Relation
      <3>2. CASE relation[d] = NoRelation
        BY <3>2 DEF Relation, NoRelation
      <3> QED
        BY <3>1, <3>2 DEF TypeOK, Relation
    <2>2. [relation EXCEPT ![d].age = 0] \in [Devices -> Relation]
      BY <2>1 DEF TypeOK
    <2> QED
      BY <1>7, <2>2 DEF RealtimeHeartbeat, TypeOK
  <1>8. CASE r.op = "stop" /\ RealtimeStop(d)
    <2>1. [relation EXCEPT ![d] = NoRelation] \in [Devices -> Relation]
      BY NoRowTypes DEF TypeOK
    <2> QED
      BY <1>8, <2>1, FreshType DEF RealtimeStop, StopViewer, TypeOK
  <1>9. CASE r.op = "list" /\ BroadcastersList
    BY <1>9, PublishType DEF BroadcastersList, TypeOK
  <1> QED
    BY <1>0, <1>1, <1>2, <1>3, <1>4, <1>5, <1>6, <1>7, <1>8, <1>9 DEF Handle

LEMMA TypeInit == Init => TypeOK
  <1> SUFFICES ASSUME Init PROVE TypeOK
    OBVIOUS
  <1>1. membership \in [Devices -> Membership] /\ relation \in [Devices -> Relation]
    BY NoRowTypes DEF Init
  <1> QED
    BY <1>1, ClockAssumption, BoundAssumption DEF Init, TypeOK

LEMMA TypeRun ==
    ASSUME TypeOK, NEW d \in Devices, Run(d)
    PROVE  TypeOK'
  <1>0. 0 \in 0..Retention
    BY ClockAssumption
  <1>1. CASE RunInit(d)
    <2>1. Head1(d).conn \in Conns
      BY <1>1, HeadTail, OperationFields DEF RunInit
    <2>2. PICK c \in Conns : c = Head1(d).conn
      BY <2>1
    <2>3. Tail(queue[d]) \o ReplacedClosed(d, c) \in Seq(Operation)
      BY <1>1, HeadTail, ReplacedClosedType DEF RunInit
    <2>4. CASE c \notin open[d]
      <3>1. queue' = Next1(d) /\ queue' \in [Devices -> Seq(Operation)]
        BY <1>1, <2>2, <2>4, HeadTail DEF RunInit
      <3>2. idle' \in [Devices -> 0..Retention]
        BY <1>0, <1>1, <2>2, <2>4 DEF RunInit, TypeOK
      <3> QED
        BY <1>1, <2>2, <2>4, <3>1, <3>2 DEF RunInit, TypeOK
    <2>5. CASE c \in open[d]
      <3>1. queue' = [queue EXCEPT ![d] = Tail(@) \o ReplacedClosed(d, c)]
        BY <1>1, <2>2, <2>5 DEF RunInit
      <3>2. queue' \in [Devices -> Seq(Operation)]
        BY <2>3, <3>1 DEF TypeOK
      <3>3. /\ idle' = [idle EXCEPT ![d] = 0]
            /\ timer' = timer \ {d}
            /\ active' = [active EXCEPT ![d] = c]
            /\ open' = [open EXCEPT ![d] = @ \ Replaced(d, c)]
            /\ UNCHANGED <<registered, membership, relation, banned, restarts, leftover>>
        BY <1>1, <2>2, <2>5 DEF RunInit
      <3>4. idle' \in [Devices -> 0..Retention] /\ timer' \subseteq Temporary
        BY <1>0, <3>3 DEF TypeOK
      <3>5. open' \in [Devices -> SUBSET Conns] /\ active' \in [Devices -> Conns \cup {Nil}]
        BY <3>3 DEF TypeOK
      <3> QED
        BY <3>2, <3>3, <3>4, <3>5 DEF TypeOK
    <2> QED
      BY <2>4, <2>5
  <1>2. CASE RunInitUnrestored(d)
    <2>1. Head1(d).conn \in Conns /\ Tail(queue[d]) \in Seq(Operation)
      BY <1>2, HeadTail, OperationFields DEF RunInitUnrestored
    <2>2. Closed(Head1(d).conn, FALSE) \in Operation
      BY <2>1 DEF Operation, Closed
    <2> QED
      <3>1. queue' = [queue EXCEPT ![d] = Append(Tail(@), Closed(Head1(d).conn, FALSE))]
        BY <1>2 DEF RunInitUnrestored
      <3>2. Append(Tail(queue[d]), Closed(Head1(d).conn, FALSE)) \in Seq(Operation)
        BY <2>1, <2>2, AppendSeq
      <3>3. queue' \in [Devices -> Seq(Operation)]
        BY <3>1, <3>2 DEF TypeOK
      <3> QED
        BY <1>2, <2>1, <3>3 DEF RunInitUnrestored, TypeOK
  <1>3. CASE RunInitUnlinked(d)
    <2>1. Head1(d).conn \in Conns /\ Tail(queue[d]) \in Seq(Operation)
      BY <1>3, HeadTail, OperationFields DEF RunInitUnlinked
    <2>2. PICK c \in Conns : c = Head1(d).conn
      BY <2>1
    <2>3. Closed(c, FALSE) \in Operation
      BY DEF Operation, Closed
    <2>4. Tail(queue[d]) \o Append(ReplacedClosed(d, c), Closed(c, FALSE)) \in Seq(Operation)
      <3>1. Append(ReplacedClosed(d, c), Closed(c, FALSE)) \in Seq(Operation)
        BY <2>3, ReplacedClosedType, AppendSeq
      <3> QED
        BY <2>1, <3>1, ConcatSeq
    <2> QED
      <3>1. queue' = [queue EXCEPT ![d] =
                        Tail(@) \o Append(ReplacedClosed(d, c), Closed(c, FALSE))]
        BY <1>3, <2>2 DEF RunInitUnlinked
      <3>2. queue' \in [Devices -> Seq(Operation)]
        BY <2>4, <3>1 DEF TypeOK
      <3>3. open' \in [Devices -> SUBSET Conns]
        BY <1>3, <2>2 DEF RunInitUnlinked, TypeOK
      <3> QED
        BY <1>0, <1>3, <3>2, <3>3 DEF RunInitUnlinked, TypeOK
  <1>4. CASE Suspend(d)
    <2>1. /\ Head(queue[d]).conn \in Conns /\ Head(queue[d]).request \in AllRequests
          /\ Tail(queue[d]) \in Seq(Operation)
      BY <1>4, HeadTail, OperationFields DEF Suspend, Head1
    <2>2. Awaiting(Head(queue[d]).conn, Head(queue[d]).request) \in Operation
      BY <2>1 DEF Operation, Awaiting
    <2>3. <<Awaiting(Head(queue[d]).conn, Head(queue[d]).request)>> \o Tail(queue[d])
             \in Seq(Operation)
      BY <2>1, <2>2, SingletonSeq
    <2> QED
      BY <1>4, <2>3 DEF Suspend, TypeOK
  <1>5. CASE RunEvent(d)
    <2>1. Head1(d).request \in AllRequests /\ queue' \in [Devices -> Seq(Operation)]
      BY <1>5, HeadTail, OperationFields DEF RunEvent
    <2>2. Handle(d, Head1(d).request) \/ NoEffect
      BY <1>5 DEF RunEvent
    <2> QED
      BY <1>5, <2>1, <2>2, HandleType DEF RunEvent, TypeOK
  <1>6. CASE RunClosed(d)
    <2>1. membership' \in [Devices -> Membership] /\ relation' \in [Devices -> Relation]
      <3>1. CASE Head1(d).wasActive /\ InPool(d)
        BY <1>6, <3>1, PublishType, UnfollowedType DEF RunClosed, TypeOK
      <3>2. CASE ~(Head1(d).wasActive /\ InPool(d))
        BY <1>6, <3>2 DEF RunClosed, TypeOK
      <3> QED
        BY <3>1, <3>2
    <2>2. timer' \subseteq Temporary
      BY <1>6 DEF RunClosed, Scheduled, TypeOK
    <2>3. queue' \in [Devices -> Seq(Operation)]
      BY <1>6, HeadTail DEF RunClosed
    <2> QED
      BY <1>0, <1>6, <2>1, <2>2, <2>3 DEF RunClosed, TypeOK
  <1>7. CASE RunCleanup(d)
    <2>1. /\ [membership EXCEPT ![d] = NoMembership] \in [Devices -> Membership]
          /\ Unfollowed(relation, d) \in [Devices -> Relation]
          /\ Fresh(Unfollowed(relation, d)) \in [Devices -> Relation]
      BY NoRowTypes, UnfollowedType, FreshType DEF TypeOK
    <2>2. membership' \in [Devices -> Membership] /\ relation' \in [Devices -> Relation]
      <3>1. CASE Online(d)
        BY <1>7, <3>1 DEF RunCleanup, TypeOK
      <3>2. CASE ~Online(d) /\ d \in registered
        BY <1>7, <2>1, <3>2, PublishType DEF RunCleanup
      <3>3. CASE ~Online(d) /\ d \notin registered
        BY <1>7, <2>1, <3>3 DEF RunCleanup
      <3> QED
        BY <3>1, <3>2, <3>3
    <2>3. queue' \in [Devices -> Seq(Operation)] /\ registered' \subseteq Devices
      BY <1>7, HeadTail DEF RunCleanup, TypeOK
    <2> QED
      BY <1>7, <2>2, <2>3 DEF RunCleanup, TypeOK
  <1> QED
    BY <1>1, <1>2, <1>3, <1>4, <1>5, <1>6, <1>7 DEF Run

LEMMA TypeArrival ==
    ASSUME TypeOK, NEW d \in Devices,
           \/ Register(d) \/ TimerFires(d)
           \/ \E c \in Conns : Connect(d, c) \/ Drop(d, c)
           \/ \E c \in Conns, r \in Requests : Submit(d, c, r)
    PROVE  TypeOK'
  <1>0. 0 \in 0..Retention
    BY ClockAssumption
  <1>1. CASE Register(d)
    BY <1>0, <1>1 DEF Register, TypeOK
  <1>2. CASE TimerFires(d)
    <2>1. Append(queue[d], Cleanup) \in Seq(Operation)
      BY AppendSeq DEF TypeOK, Operation
    <2> QED
      BY <1>2, <2>1 DEF TimerFires, TypeOK
  <1>3. ASSUME NEW c \in Conns, Connect(d, c) PROVE TypeOK'
    <2>1. Append(queue[d], Setup(c)) \in Seq(Operation)
      <3>1. Setup(c) \in Operation
        BY DEF Operation, Setup
      <3> QED
        BY <3>1, AppendSeq DEF TypeOK
    <2> QED
      BY <1>3, <2>1 DEF Connect, TypeOK
  <1>4. ASSUME NEW c \in Conns, Drop(d, c) PROVE TypeOK'
    <2>1. CloseSocket(d, c)
      BY <1>4 DEF Drop
    <2> QED
      BY <1>4, <2>1, CloseSocketType DEF Drop, TypeOK
  <1>5. ASSUME NEW c \in Conns, NEW r \in Requests, Submit(d, c, r) PROVE TypeOK'
    <2>1. Append(queue[d], Event(c, r)) \in Seq(Operation)
      <3>1. Event(c, r) \in Operation
        BY DEF Operation, Event, Requests
      <3> QED
        BY <3>1, AppendSeq DEF TypeOK
    <2> QED
      BY <1>5, <2>1 DEF Submit, TypeOK
  <1> QED
    BY <1>1, <1>2, <1>3, <1>4, <1>5

LEMMA TypeAdminister ==
    ASSUME TypeOK, NEW d \in Devices, Administer(d)
    PROVE  TypeOK'
  <1>0. [relation EXCEPT ![d] = NoRelation] \in [Devices -> Relation]
    BY NoRowTypes DEF TypeOK
  <1>1. CASE AdminDisconnect(d)
    BY <1>1, DisconnectDeviceType, PublishType DEF AdminDisconnect, TypeOK
  <1>2. CASE Ban(d)
    BY <1>0, <1>2, DisconnectDeviceType, PublishType DEF Ban, TypeOK
  <1>3. CASE Unban(d)
    BY <1>3, PublishType DEF Unban, TypeOK
  <1>4. CASE AdminStopRealtime(d)
    BY <1>0, <1>4, PublishType DEF AdminStopRealtime, TypeOK
  <1>5. CASE AdminDeleteData(d)
    BY <1>5, LobbyDataDeletedType DEF AdminDeleteData, TypeOK
  <1> QED
    BY <1>1, <1>2, <1>3, <1>4, <1>5 DEF Administer

LEMMA TypeCleanupOffline ==
    ASSUME TypeOK, AdminCleanupOffline
    PROVE  TypeOK'
  <1> DEFINE kicked == {d \in Temporary : InPool(d) /\ Online(d)}
  <1>1. open' \in [Devices -> SUBSET Conns] /\ active' \in [Devices -> Conns \cup {Nil}]
    BY DEF AdminCleanupOffline, TypeOK
  <1>2. ASSUME NEW d \in Devices, d \in kicked
        PROVE  Append(queue[d], Closed(active[d], TRUE)) \in Seq(Operation)
    <2>1. active[d] \in Conns
      BY <1>2 DEF Online, TypeOK
    <2>2. Closed(active[d], TRUE) \in Operation
      BY <2>1 DEF Operation, Closed
    <2> QED
      BY <2>2, AppendSeq DEF TypeOK
  <1>3. queue' \in [Devices -> Seq(Operation)]
    BY <1>2 DEF AdminCleanupOffline, TypeOK
  <1>4. membership' \in [Devices -> Membership] /\ relation' \in [Devices -> Relation]
    BY LobbyDataDeletedType DEF AdminCleanupOffline
  <1> QED
    BY <1>1, <1>3, <1>4 DEF AdminCleanupOffline, TypeOK

LEMMA TypeStep == TypeOK /\ [Next]_vars => TypeOK'
  <1> SUFFICES ASSUME TypeOK, [Next]_vars PROVE TypeOK'
    OBVIOUS
  <1>1. CASE Tick
    <2>1. idle' \in [Devices -> 0..Retention]
      BY <1>1, ClockAssumption DEF Tick, TypeOK
    <2>2. relation' \in [Devices -> Relation]
      <3>1. ASSUME NEW v \in Devices, relation[v] # NoRelation, relation[v].age < StaleAfter
            PROVE  [relation[v] EXCEPT !.age = @ + 1] \in Relation
        BY <3>1, ClockAssumption DEF TypeOK, Relation
      <3> QED
        BY <1>1, <3>1 DEF Tick, TypeOK
    <2> QED
      BY <1>1, <2>1, <2>2 DEF Tick, TypeOK
  <1>2. CASE Sweep
    BY <1>2, PublishType DEF Sweep, TypeOK
  <1>3. CASE Restart
    BY <1>3, BoundAssumption DEF Restart, TypeOK
  <1>4. CASE UNCHANGED vars
    BY <1>4 DEF vars, TypeOK
  <1> QED
    BY <1>1, <1>2, <1>3, <1>4, TypeArrival, TypeRun, TypeAdminister, TypeCleanupOffline
    DEF Next

\* Every variable keeps its type: the rows of the three tables are well formed
\* and only temporary devices ever have a clean-up timer.
THEOREM TypeCorrect == Spec => []TypeOK
  BY TypeInit, TypeStep, PTL DEF Spec

-----------------------------------------------------------------------------
(* Nobody follows a follower *)

\* Every row of new is a row of old with the same target, or no row.
Shrunk(new, old) ==
    \A v \in Devices : new[v].target = old[v].target \/ new[v].target = Nil

\* The only step that adds a row.
Started ==
    \E d, t \in Devices :
        /\ d # t /\ Online(t)
        /\ ~ReverseBlocked(Fresh(relation), d, t)
        /\ relation' = [Fresh(relation) EXCEPT ![d] = [target |-> t, age |-> 0]]
        /\ leftover' = leftover \ {d}

LEMMA ShrunkBy ==
    ASSUME TypeOK, NEW d
    PROVE  /\ \A rel : Shrunk(rel, relation) => Shrunk(Fresh(rel), relation)
           /\ Shrunk(Fresh(relation), relation)
           /\ Shrunk(Unfollowed(relation, d), relation)
           /\ Shrunk([relation EXCEPT ![d] = NoRelation], relation)
           /\ Shrunk(relation, relation)
  BY DEF Shrunk, Fresh, Unfollowed, NoRelation, TypeOK

LEMMA PublishShrinks ==
    ASSUME TypeOK, NEW m, NEW rel, NEW since, Shrunk(rel, relation), Publish(m, rel, since)
    PROVE  Shrunk(relation', relation)
  BY ShrunkBy DEF Publish

LEMMA LobbyShrinks ==
    ASSUME TypeOK, NEW gone, LobbyDataDeleted(gone)
    PROVE  Shrunk(relation', relation)
  <1> DEFINE rows == [v \in Devices |-> IF v \in gone \/ relation[v].target \in gone
                                        THEN NoRelation ELSE relation[v]]
             members == [d \in Devices |-> IF d \in gone THEN NoMembership ELSE membership[d]]
  <1>1. Shrunk(rows, relation)
    BY DEF Shrunk, NoRelation
  <1>2. Publish(members, rows, idle)
    BY DEF LobbyDataDeleted
  <1> QED
    BY <1>1, <1>2, PublishShrinks

LEMMA HandleRelation ==
    ASSUME TypeOK, NEW d \in Devices, NEW r \in AllRequests, Handle(d, r) \/ NoEffect
    PROVE  Shrunk(relation', relation) \/ Started
  <1>0. CASE relation' = relation
    BY <1>0, ShrunkBy
  <1>1. CASE r.op = "join" /\ BroadcasterJoin(d, r.name)
    BY <1>0, <1>1, ShrunkBy, PublishShrinks DEF BroadcasterJoin, NoEffect
  <1>2. CASE r.op = "rename" /\ BroadcasterRename(d, r.name)
    BY <1>0, <1>2, ShrunkBy, PublishShrinks DEF BroadcasterRename, NoEffect
  <1>3. CASE RoomJoin(d, r.name, r.to) \/ RoomRename(d, r.name) \/ RoomLeave(d) \/ NoEffect
    BY <1>0, <1>3 DEF RoomJoin, RoomRename, RoomLeave, NoEffect
  <1>4. CASE r.op = "start" /\ RealtimeStart(d, r.to)
    <2>1. r.to \in Devices
      BY <1>4, RequestFields
    <2>2. \/ relation' = relation
          \/ relation' = Fresh(relation)
          \/ /\ d # r.to /\ Online(r.to) /\ ~ReverseBlocked(Fresh(relation), d, r.to)
             /\ relation' = [Fresh(relation) EXCEPT ![d] = [target |-> r.to, age |-> 0]]
             /\ leftover' = leftover \ {d}
      BY <1>4 DEF RealtimeStart
    <2> QED
      BY <1>0, <2>1, <2>2, ShrunkBy DEF Started
  <1>5. CASE r.op = "heartbeat" /\ RealtimeHeartbeat(d)
    <2>1. relation' = [relation EXCEPT ![d].age = 0]
      BY <1>5 DEF RealtimeHeartbeat
    <2>2. \A v \in Devices : relation'[v].target = relation[v].target
      <3>1. relation[d] \in [target : Devices \cup {Nil}, age : 0..StaleAfter]
        BY ClockAssumption DEF TypeOK, Relation, NoRelation
      <3> QED
        BY <2>1, <3>1 DEF TypeOK
    <2> QED
      BY <2>2 DEF Shrunk
  <1>6. CASE r.op = "stop" /\ RealtimeStop(d)
    BY <1>0, <1>6, ShrunkBy DEF RealtimeStop, StopViewer
  <1>7. CASE r.op = "list" /\ BroadcastersList
    BY <1>7, ShrunkBy, PublishShrinks DEF BroadcastersList
  <1> QED
    BY <1>1, <1>2, <1>3, <1>4, <1>5, <1>6, <1>7 DEF Handle

LEMMA RelationStep == TypeOK /\ [Next]_vars => Shrunk(relation', relation) \/ Started
  <1> SUFFICES ASSUME TypeOK, [Next]_vars PROVE Shrunk(relation', relation) \/ Started
    OBVIOUS
  <1>0. CASE relation' = relation
    BY <1>0, ShrunkBy
  <1>1. ASSUME NEW d \in Devices, RunEvent(d) PROVE Shrunk(relation', relation) \/ Started
    <2>1. Head1(d).request \in AllRequests
      BY <1>1, HeadTail, OperationFields DEF RunEvent
    <2>2. Handle(d, Head1(d).request) \/ NoEffect
      BY <1>1 DEF RunEvent
    <2> QED
      BY <2>1, <2>2, HandleRelation
  <1>2. ASSUME NEW d \in Devices, RunClosed(d) PROVE Shrunk(relation', relation)
    <2>1. \/ relation' = relation
          \/ relation' = Fresh(Unfollowed(relation, d))
      BY <1>2 DEF RunClosed, Publish
    <2> QED
      BY <1>0, <2>1, ShrunkBy
  <1>3. ASSUME NEW d \in Devices, RunCleanup(d) PROVE Shrunk(relation', relation)
    <2>1. \/ relation' = relation
          \/ relation' = Unfollowed(relation, d)
          \/ relation' = Fresh(Unfollowed(relation, d))
      BY <1>3 DEF RunCleanup, Publish
    <2> QED
      BY <2>1, ShrunkBy
  <1>4. ASSUME NEW d \in Devices, Administer(d) PROVE Shrunk(relation', relation)
    <2>1. CASE AdminDisconnect(d)
      BY <2>1, ShrunkBy, PublishShrinks DEF AdminDisconnect
    <2>2. CASE Ban(d)
      BY <2>2, ShrunkBy, PublishShrinks DEF Ban
    <2>3. CASE Unban(d)
      BY <1>0, <2>3, ShrunkBy, PublishShrinks DEF Unban
    <2>4. CASE AdminStopRealtime(d)
      BY <2>4, ShrunkBy, PublishShrinks DEF AdminStopRealtime
    <2>5. CASE AdminDeleteData(d)
      BY <2>5, LobbyShrinks DEF AdminDeleteData
    <2> QED
      BY <1>4, <2>1, <2>2, <2>3, <2>4, <2>5 DEF Administer
  <1>5. CASE AdminCleanupOffline
    BY <1>5, LobbyShrinks DEF AdminCleanupOffline
  <1>6. CASE Sweep
    BY <1>6, ShrunkBy, PublishShrinks DEF Sweep
  <1>7. CASE Tick
    <2>1. ASSUME NEW v \in Devices PROVE relation'[v].target = relation[v].target
      <3>1. relation[v] \in [target : Devices \cup {Nil}, age : 0..StaleAfter]
        BY ClockAssumption DEF TypeOK, Relation, NoRelation
      <3> QED
        BY <1>7, <3>1 DEF Tick
    <2> QED
      BY <2>1 DEF Shrunk
  <1>8. CASE Restart
    BY <1>0, <1>8 DEF Restart
  <1>9. ASSUME NEW d \in Devices,
               \/ Register(d) \/ TimerFires(d)
               \/ \E c \in Conns : Connect(d, c) \/ Drop(d, c)
               \/ \E c \in Conns, r \in Requests : Submit(d, c, r)
               \/ RunInit(d) \/ RunInitUnrestored(d) \/ RunInitUnlinked(d) \/ Suspend(d)
        PROVE  Shrunk(relation', relation)
    <2>1. Register(d) \/ TimerFires(d) => relation' = relation
      BY DEF Register, TimerFires
    <2>2. \A c \in Conns : Connect(d, c) \/ Drop(d, c) => relation' = relation
      BY DEF Connect, Drop
    <2>3. \A c \in Conns, r \in Requests : Submit(d, c, r) => relation' = relation
      BY DEF Submit
    <2>4. RunInit(d) => relation' = relation
      BY DEF RunInit
    <2>5. RunInitUnrestored(d) \/ RunInitUnlinked(d) \/ Suspend(d) => relation' = relation
      BY DEF RunInitUnrestored, RunInitUnlinked, Suspend
    <2> QED
      BY <1>9, <2>1, <2>2, <2>3, <2>4, <2>5, ShrunkBy
  <1>10. CASE UNCHANGED vars
    BY <1>0, <1>10 DEF vars
  <1> QED
    BY <1>1, <1>2, <1>3, <1>4, <1>5, <1>6, <1>7, <1>8, <1>9, <1>10 DEF Next, Run

LEMMA NoMutualFollowStep ==
    TypeOK /\ NoMutualFollow /\ [Next]_vars => NoMutualFollow'
  <1> SUFFICES ASSUME TypeOK, NoMutualFollow, [Next]_vars PROVE NoMutualFollow'
    OBVIOUS
  <1>1. CASE Shrunk(relation', relation)
    BY <1>1, DevicesAssumption DEF Shrunk, NoMutualFollow
  <1>2. CASE Started
    <2>1. PICK d, t \in Devices :
             /\ d # t
             /\ ~ReverseBlocked(Fresh(relation), d, t)
             /\ relation' = [Fresh(relation) EXCEPT ![d] = [target |-> t, age |-> 0]]
      BY <1>2 DEF Started
    <2>2. Fresh(relation)[t].target # d
      BY <2>1 DEF ReverseBlocked
    <2>3. Fresh(relation) \in [Devices -> Relation]
      BY FreshType DEF TypeOK
    <2>4. /\ relation'[d].target = t
          /\ \A v \in Devices \ {d} : relation'[v] = Fresh(relation)[v]
      BY <2>1, <2>3
    <2>5. Shrunk(Fresh(relation), relation)
      BY ShrunkBy
    <2> QED
      BY <2>1, <2>2, <2>4, <2>5, DevicesAssumption DEF Shrunk, NoMutualFollow
  <1> QED
    BY <1>1, <1>2, RelationStep

\* Two broadcasters never follow each other, whatever the order in which
\* requests, heartbeats, expiry and disconnections are served.
THEOREM NoMutualFollowHolds == Spec => []NoMutualFollow
  <1>1. Init => NoMutualFollow
    BY DevicesAssumption DEF Init, NoMutualFollow, NoRelation
  <1> QED
    BY <1>1, NoMutualFollowStep, TypeCorrect, PTL DEF Spec

-----------------------------------------------------------------------------
(* Nobody follows a pool member that is offline *)

HasDisconnection(s) == \E c \in Conns, i \in 1..Len(s) : s[i] = Closed(c, TRUE)

Served(d) == Online(d) \/ HasDisconnection(queue[d])

\* A handler that waits for its service is the head of its queue ...
OnlyHeadAwaits(s) == \A i \in 2..Len(s) : s[i].kind # "awaiting"
AwaitingFirst == \A d \in Devices : OnlyHeadAwaits(queue[d])

\* ... and the device it belongs to has not gone unnoticed.
AwaitingServed ==
    \A d \in Devices : queue[d] # <<>> /\ Head1(d).kind = "awaiting" => Served(d)

FollowInvariant == FollowedTargetOnline /\ AwaitingFirst /\ AwaitingServed

LEMMA ServedIs ==
    ASSUME NEW d \in Devices
    PROVE  /\ DisconnectionQueued(d) <=> HasDisconnection(queue[d])
           /\ DisconnectionQueued(d)' <=> HasDisconnection(queue'[d])
           /\ Served(d)' <=> (active'[d] # Nil \/ HasDisconnection(queue'[d]))
  BY DEF DisconnectionQueued, HasDisconnection, Pending, Served, Online

LEMMA AppendElements ==
    ASSUME NEW S, NEW s \in Seq(S), NEW x \in S
    PROVE  /\ Len(Append(s, x)) = Len(s) + 1
           /\ \A i \in 1..Len(s) : Append(s, x)[i] = s[i]
           /\ Append(s, x)[Len(s) + 1] = x
  OBVIOUS

LEMMA TailConcatElements ==
    ASSUME NEW S, NEW s \in Seq(S), NEW u \in Seq(S), s # <<>>
    PROVE  /\ Len(s) \in Nat \ {0} /\ Len(u) \in Nat
           /\ Len(Tail(s) \o u) = Len(s) - 1 + Len(u)
           /\ \A i \in 1..(Len(s) - 1) : (Tail(s) \o u)[i] = s[i + 1]
           /\ \A i \in 1..Len(u) : (Tail(s) \o u)[Len(s) - 1 + i] = u[i]
           /\ Head(s) = s[1]
  <1>1. Tail(s) \in Seq(S) /\ Len(Tail(s)) = Len(s) - 1 /\ Len(s) \in Nat \ {0}
    OBVIOUS
  <1>2. \A i \in 1..(Len(s) - 1) : Tail(s)[i] = s[i + 1]
    OBVIOUS
  <1>3. /\ Len(Tail(s) \o u) = Len(Tail(s)) + Len(u)
        /\ \A i \in 1..Len(Tail(s)) : (Tail(s) \o u)[i] = Tail(s)[i]
        /\ \A i \in 1..Len(u) : (Tail(s) \o u)[Len(Tail(s)) + i] = u[i]
    BY <1>1
  <1> QED
    BY <1>1, <1>2, <1>3

LEMMA DisconnectionAppend ==
    ASSUME NEW s \in Seq(Operation), NEW x \in Operation
    PROVE  /\ HasDisconnection(s) => HasDisconnection(Append(s, x))
           /\ \A c \in Conns : x = Closed(c, TRUE) => HasDisconnection(Append(s, x))
  <1>1. Len(s) \in Nat
    OBVIOUS
  <1> DEFINE longer == Append(s, x)
  <1>2. /\ Len(longer) = Len(s) + 1
        /\ \A i \in 1..Len(s) : longer[i] = s[i]
        /\ longer[Len(s) + 1] = x
    BY AppendElements
  <1>3. SUFFICES /\ HasDisconnection(s) => HasDisconnection(longer)
                 /\ \A c \in Conns : x = Closed(c, TRUE) => HasDisconnection(longer)
    OBVIOUS
  <1> HIDE DEF longer
  <1>4. Len(s) + 1 \in 1..Len(longer) /\ 1..Len(s) \subseteq 1..Len(longer)
    BY <1>1, <1>2
  <1> QED
    BY <1>2, <1>4 DEF HasDisconnection

LEMMA DisconnectionTail ==
    ASSUME NEW s \in Seq(Operation), NEW u \in Seq(Operation), s # <<>>,
           HasDisconnection(s), ~(Head(s).kind = "closed" /\ Head(s).wasActive)
    PROVE  HasDisconnection(Tail(s) \o u)
  <1>1. PICK c \in Conns, i \in 1..Len(s) : s[i] = Closed(c, TRUE)
    BY DEF HasDisconnection
  <1>2. Closed(c, TRUE).kind = "closed" /\ Closed(c, TRUE).wasActive
    BY DEF Closed
  <1>3. i # 1
    <2>1. Head(s) = s[1]
      BY TailConcatElements
    <2> QED
      BY <1>1, <1>2, <2>1
  <1>4. /\ i - 1 \in 1..Len(Tail(s) \o u)
        /\ (Tail(s) \o u)[i - 1] = s[i]
    <2>1. i - 1 \in 1..(Len(s) - 1) /\ (i - 1) + 1 = i
      BY <1>3, TailConcatElements
    <2> QED
      BY <2>1, TailConcatElements
  <1> QED
    BY <1>1, <1>4 DEF HasDisconnection

LEMMA HeadAwaitsAppend ==
    ASSUME NEW s \in Seq(Operation), NEW x \in Operation, x.kind # "awaiting",
           OnlyHeadAwaits(s)
    PROVE  /\ OnlyHeadAwaits(Append(s, x))
           /\ Head(Append(s, x)).kind = "awaiting" => s # <<>> /\ Head(s).kind = "awaiting"
  <1>1. Len(s) \in Nat /\ Append(s, x) \in Seq(Operation) /\ Append(s, x) # <<>>
    BY AppendSeq
  <1>2. OnlyHeadAwaits(Append(s, x))
    BY <1>1, AppendElements DEF OnlyHeadAwaits
  <1>3. Head(Append(s, x)) = Append(s, x)[1]
    BY <1>1
  <1>4. CASE s = <<>>
    BY <1>1, <1>2, <1>3, <1>4, AppendElements
  <1>5. CASE s # <<>>
    <2>1. 1 \in 1..Len(s) /\ Head(s) = s[1]
      BY <1>5
    <2> QED
      BY <1>2, <1>3, <1>5, <2>1, AppendElements
  <1> QED
    BY <1>4, <1>5

LEMMA HeadAwaitsTail ==
    ASSUME NEW s \in Seq(Operation), NEW u \in Seq(Operation), s # <<>>,
           \A i \in 1..Len(u) : u[i].kind = "closed",
           OnlyHeadAwaits(s)
    PROVE  \A i \in 1..Len(Tail(s) \o u) : (Tail(s) \o u)[i].kind # "awaiting"
  <1> SUFFICES ASSUME NEW i \in 1..Len(Tail(s) \o u)
               PROVE  (Tail(s) \o u)[i].kind # "awaiting"
    OBVIOUS
  <1>1. CASE i \in 1..(Len(s) - 1)
    <2>1. i + 1 \in 2..Len(s)
      BY <1>1, TailConcatElements
    <2> QED
      BY <1>1, <2>1, TailConcatElements DEF OnlyHeadAwaits
  <1>2. CASE i \notin 1..(Len(s) - 1)
    <2>1. i - (Len(s) - 1) \in 1..Len(u) /\ Len(s) - 1 + (i - (Len(s) - 1)) = i
      BY <1>2, TailConcatElements
    <2>2. (Tail(s) \o u)[i] = u[i - (Len(s) - 1)]
      BY <2>1, TailConcatElements
    <2> QED
      BY <2>1, <2>2
  <1> QED
    BY <1>1, <1>2

LEMMA AppendAsConcat ==
    ASSUME NEW S, NEW s \in Seq(S), NEW x \in S
    PROVE  Append(s, x) = s \o <<x>>
  OBVIOUS

LEMMA AppendKind ==
    ASSUME NEW s \in Seq(Operation), NEW x \in Operation, x.kind = "closed",
           \A i \in 1..Len(s) : s[i].kind = "closed"
    PROVE  \A i \in 1..Len(Append(s, x)) : Append(s, x)[i].kind = "closed"
  <1> DEFINE longer == Append(s, x)
  <1>1. /\ Len(longer) = Len(s) + 1
        /\ \A i \in 1..Len(s) : longer[i] = s[i]
        /\ longer[Len(s) + 1] = x
    BY AppendElements
  <1>2. Len(s) \in Nat
    OBVIOUS
  <1>3. SUFFICES \A i \in 1..Len(longer) : longer[i].kind = "closed"
    OBVIOUS
  <1> HIDE DEF longer
  <1> QED
    BY <1>1, <1>2

LEMMA SingletonElements ==
    ASSUME NEW x, NEW i \in 1..Len(<<x>>)
    PROVE  <<x>>[i] = x
  OBVIOUS

LEMMA TailConcatNothing ==
    ASSUME NEW S, NEW s \in Seq(S)
    PROVE  s = s \o <<>>
  OBVIOUS

\* What one step may do to the connection and the queue of device t.
Untouched(t) == queue'[t] = queue[t] /\ active'[t] = active[t]
Appended(t) ==
    /\ active'[t] = active[t]
    /\ \E x \in Operation : x.kind # "awaiting" /\ queue'[t] = Append(queue[t], x)
Severed(t) ==
    \E c \in Conns : /\ queue'[t] = Append(queue[t], Closed(c, active[t] = c))
                    /\ active'[t] = IF active[t] = c THEN Nil ELSE active[t]
Popped(t) ==
    /\ queue[t] # <<>>
    /\ \E u \in Seq(Operation) : /\ \A i \in 1..Len(u) : u[i].kind = "closed"
                               /\ queue'[t] = Tail(queue[t]) \o u
    /\ active'[t] \in {active[t]} \cup Conns \/ RunInitUnlinked(t)
    /\ Head1(t).kind = "closed" => RunClosed(t)

DeviceChange(t) ==
    Untouched(t) \/ Appended(t) \/ Severed(t) \/ Popped(t) \/ Suspend(t) \/ Restart

LEMMA ReplacedClosedKind ==
    ASSUME TypeOK, NEW d \in Devices, NEW c \in Conns
    PROVE  /\ \A i \in 1..Len(ReplacedClosed(d, c)) : ReplacedClosed(d, c)[i].kind = "closed"
           /\ \A i \in 1..Len(Append(ReplacedClosed(d, c), Closed(c, FALSE))) :
                 Append(ReplacedClosed(d, c), Closed(c, FALSE))[i].kind = "closed"
  <1>1. \A i \in 1..Len(ReplacedClosed(d, c)) : ReplacedClosed(d, c)[i].kind = "closed"
    <2>1. CASE Replaced(d, c) = {}
      BY <2>1 DEF ReplacedClosed
    <2>2. CASE Replaced(d, c) # {}
      <3>1. Closed(active[d], FALSE).kind = "closed"
        BY DEF Closed
      <3>2. ReplacedClosed(d, c) = <<Closed(active[d], FALSE)>>
        BY <2>2 DEF ReplacedClosed
      <3> QED
        BY <3>1, <3>2, SingletonElements
    <2> QED
      BY <2>1, <2>2
  <1>2. Closed(c, FALSE) \in Operation /\ Closed(c, FALSE).kind = "closed"
    BY DEF Operation, Closed
  <1> QED
    BY <1>1, <1>2, ReplacedClosedType, AppendKind

LEMMA NextPops ==
    ASSUME TypeOK, NEW d \in Devices, queue[d] # <<>>, queue' = Next1(d),
           active'[d] \in {active[d]} \cup Conns,
           Head1(d).kind = "closed" => RunClosed(d)
    PROVE  Popped(d)
  <1>1. queue'[d] = Tail(queue[d])
    BY DEF Next1, TypeOK
  <1>2. Tail(queue[d]) = Tail(queue[d]) \o <<>>
    BY HeadTail, TailConcatNothing
  <1>3. <<>> \in Seq(Operation) /\ \A i \in 1..Len(<<>>) : <<>>[i].kind = "closed"
    OBVIOUS
  <1> QED
    BY <1>1, <1>2, <1>3 DEF Popped

LEMMA RunChange ==
    ASSUME TypeOK, NEW d \in Devices, Run(d), NEW t \in Devices
    PROVE  DeviceChange(t)
  <1>0. CASE t # d
    <2>1. queue'[t] = queue[t]
      <3>1. RunInit(d) => queue'[t] = queue[t]
        BY <1>0 DEF RunInit, Next1, TypeOK
      <3>2. RunInitUnrestored(d) \/ RunInitUnlinked(d) => queue'[t] = queue[t]
        BY <1>0 DEF RunInitUnrestored, RunInitUnlinked, TypeOK
      <3>3. Suspend(d) \/ RunEvent(d) \/ RunClosed(d) \/ RunCleanup(d) => queue'[t] = queue[t]
        BY <1>0 DEF Suspend, RunEvent, RunClosed, RunCleanup, Next1, TypeOK
      <3> QED
        BY <3>1, <3>2, <3>3 DEF Run
    <2>2. active'[t] = active[t]
      <3>1. RunInit(d) => active'[t] = active[t]
        BY <1>0 DEF RunInit, TypeOK
      <3>2. RunInitUnrestored(d) \/ RunInitUnlinked(d) => active'[t] = active[t]
        BY <1>0 DEF RunInitUnrestored, RunInitUnlinked, TypeOK
      <3>3. Suspend(d) \/ RunEvent(d) \/ RunClosed(d) \/ RunCleanup(d) => active'[t] = active[t]
        BY DEF Suspend, RunEvent, RunClosed, RunCleanup
      <3> QED
        BY <3>1, <3>2, <3>3 DEF Run
    <2> QED
      BY <2>1, <2>2 DEF DeviceChange, Untouched
  <1> SUFFICES ASSUME t = d PROVE DeviceChange(d)
    BY <1>0
  <1>1. CASE RunInit(d)
    <2>1. Head1(d).conn \in Conns /\ queue[d] # <<>> /\ Head1(d).kind = "init"
      BY <1>1, HeadTail, OperationFields DEF RunInit
    <2>2. PICK c \in Conns : c = Head1(d).conn
      BY <2>1
    <2>3. CASE c \notin open[d]
      <3>1. queue' = Next1(d) /\ active' = active
        BY <1>1, <2>2, <2>3 DEF RunInit
      <3> QED
        BY <2>1, <3>1, NextPops DEF DeviceChange
    <2>4. CASE c \in open[d]
      <3>1. /\ queue'[d] = Tail(queue[d]) \o ReplacedClosed(d, c)
            /\ active'[d] = c
        BY <1>1, <2>2, <2>4 DEF RunInit, TypeOK
      <3> QED
        BY <2>1, <3>1, ReplacedClosedType, ReplacedClosedKind DEF DeviceChange, Popped
    <2> QED
      BY <2>3, <2>4
  <1>2. CASE RunInitUnrestored(d)
    <2>1. /\ Head1(d).conn \in Conns /\ Tail(queue[d]) \in Seq(Operation)
          /\ queue[d] # <<>> /\ Head1(d).kind = "init" /\ active'[d] = active[d]
      BY <1>2, HeadTail, OperationFields DEF RunInitUnrestored
    <2>2. PICK c \in Conns : c = Head1(d).conn
      BY <2>1
    <2>3. Closed(c, FALSE) \in Operation /\ Closed(c, FALSE).kind = "closed"
      BY DEF Operation, Closed
    <2>4. queue'[d] = Append(Tail(queue[d]), Closed(c, FALSE))
      BY <1>2, <2>2 DEF RunInitUnrestored, TypeOK
    <2>5. Append(Tail(queue[d]), Closed(c, FALSE)) = Tail(queue[d]) \o <<Closed(c, FALSE)>>
      BY <2>1, <2>3, AppendAsConcat
    <2>6. \A i \in 1..Len(<<Closed(c, FALSE)>>) : <<Closed(c, FALSE)>>[i].kind = "closed"
      BY <2>3, SingletonElements
    <2> QED
      BY <2>1, <2>3, <2>4, <2>5, <2>6, SingletonSeq DEF DeviceChange, Popped
  <1>3. CASE RunInitUnlinked(d)
    <2>1. /\ Head1(d).conn \in Conns /\ queue[d] # <<>> /\ Head1(d).kind = "init"
      BY <1>3, HeadTail, OperationFields DEF RunInitUnlinked
    <2>2. PICK c \in Conns : c = Head1(d).conn
      BY <2>1
    <2>3. Closed(c, FALSE) \in Operation
      BY DEF Operation, Closed
    <2>4. Append(ReplacedClosed(d, c), Closed(c, FALSE)) \in Seq(Operation)
      BY <2>3, ReplacedClosedType, AppendSeq
    <2>5. queue'[d] = Tail(queue[d]) \o Append(ReplacedClosed(d, c), Closed(c, FALSE))
      BY <1>3, <2>2 DEF RunInitUnlinked, TypeOK
    <2> QED
      BY <1>3, <2>1, <2>4, <2>5, ReplacedClosedKind DEF DeviceChange, Popped
  <1>4. CASE RunEvent(d) \/ RunClosed(d) \/ RunCleanup(d)
    <2>1. /\ queue[d] # <<>> /\ queue' = Next1(d) /\ active' = active
          /\ Head1(d).kind = "closed" => RunClosed(d)
      BY <1>4 DEF RunEvent, RunClosed, RunCleanup
    <2> QED
      BY <2>1, NextPops DEF DeviceChange
  <1> QED
    BY <1>1, <1>2, <1>3, <1>4 DEF Run, DeviceChange

LEMMA DisconnectChange ==
    ASSUME TypeOK, NEW d \in Devices, NEW c \in Conns, CloseSocket(d, c), NEW t \in Devices
    PROVE  Untouched(t) \/ Severed(t)
  <1>1. CASE t = d
    BY <1>1 DEF CloseSocket, Severed, TypeOK
  <1>2. CASE t # d
    BY <1>2 DEF CloseSocket, Untouched, TypeOK
  <1> QED
    BY <1>1, <1>2

LEMMA DisconnectDeviceChange ==
    ASSUME TypeOK, NEW d \in Devices, DisconnectDevice(d), NEW t \in Devices
    PROVE  Untouched(t) \/ Severed(t)
  <1>1. CASE Online(d)
    <2>1. active[d] \in Conns
      BY <1>1 DEF Online, TypeOK
    <2> QED
      BY <1>1, <2>1, DisconnectChange DEF DisconnectDevice
  <1>2. CASE ~Online(d)
    BY <1>2 DEF DisconnectDevice, Untouched
  <1> QED
    BY <1>1, <1>2

LEMMA DeviceStep ==
    ASSUME TypeOK, [Next]_vars, NEW t \in Devices
    PROVE  DeviceChange(t)
  <1>0. CASE queue' = queue /\ active' = active
    BY <1>0 DEF DeviceChange, Untouched
  <1>1. ASSUME NEW d \in Devices, NEW c \in Conns, Drop(d, c) PROVE DeviceChange(t)
    BY <1>1, DisconnectChange DEF Drop, DeviceChange
  <1>2. ASSUME NEW d \in Devices, NEW x \in Operation, x.kind # "awaiting",
               active' = active, queue' = [queue EXCEPT ![d] = Append(@, x)]
        PROVE  DeviceChange(t)
    <2>1. CASE t = d
      BY <1>2, <2>1 DEF DeviceChange, Appended, TypeOK
    <2>2. CASE t # d
      BY <1>2, <2>2 DEF DeviceChange, Untouched, TypeOK
    <2> QED
      BY <2>1, <2>2
  <1>3. ASSUME NEW d \in Devices, TimerFires(d) PROVE DeviceChange(t)
    <2>1. Cleanup \in Operation /\ Cleanup.kind # "awaiting"
      BY DEF Operation, Cleanup
    <2> QED
      BY <1>2, <1>3, <2>1 DEF TimerFires
  <1>4. ASSUME NEW d \in Devices, NEW c \in Conns, Connect(d, c) PROVE DeviceChange(t)
    <2>1. Setup(c) \in Operation /\ Setup(c).kind # "awaiting"
      BY DEF Operation, Setup
    <2> QED
      BY <1>2, <1>4, <2>1 DEF Connect
  <1>5. ASSUME NEW d \in Devices, NEW c \in Conns, NEW r \in Requests, Submit(d, c, r)
        PROVE  DeviceChange(t)
    <2>1. Event(c, r) \in Operation /\ Event(c, r).kind # "awaiting"
      BY DEF Operation, Event, Requests
    <2> QED
      BY <1>2, <1>5, <2>1 DEF Submit
  <1>6. ASSUME NEW d \in Devices, Administer(d) PROVE DeviceChange(t)
    <2>1. CASE AdminDisconnect(d) \/ Ban(d)
      BY <2>1, DisconnectDeviceChange DEF AdminDisconnect, Ban, DeviceChange
    <2>2. CASE Unban(d) \/ AdminStopRealtime(d) \/ AdminDeleteData(d)
      BY <1>0, <2>2 DEF Unban, AdminStopRealtime, AdminDeleteData
    <2> QED
      BY <1>6, <2>1, <2>2 DEF Administer
  <1>7. CASE AdminCleanupOffline
    <2> DEFINE kicked == {d \in Temporary : InPool(d) /\ Online(d)}
    <2>1. CASE t \in kicked
      <3>1. active[t] \in Conns
        BY <2>1 DEF Online, TypeOK
      <3>2. queue'[t] = Append(queue[t], Closed(active[t], TRUE)) /\ active'[t] = Nil
        BY <1>7, <2>1 DEF AdminCleanupOffline
      <3> QED
        BY <3>1, <3>2 DEF DeviceChange, Severed
    <2>2. CASE t \notin kicked
      BY <1>7, <2>2 DEF AdminCleanupOffline, DeviceChange, Untouched
    <2> QED
      BY <2>1, <2>2
  <1>8. ASSUME NEW d \in Devices, Register(d) PROVE DeviceChange(t)
    BY <1>0, <1>8 DEF Register
  <1>9. CASE Tick \/ Sweep \/ UNCHANGED vars
    BY <1>0, <1>9 DEF Tick, Sweep, vars
  <1>10. CASE Restart
    BY <1>10 DEF DeviceChange
  <1> QED
    BY <1>1, <1>3, <1>4, <1>5, <1>6, <1>7, <1>8, <1>9, <1>10, RunChange DEF Next

LEMMA ConsTailElements ==
    ASSUME NEW S, NEW s \in Seq(S), s # <<>>, NEW y \in S
    PROVE  /\ Len(<<y>> \o Tail(s)) = Len(s)
           /\ \A i \in 2..Len(s) : (<<y>> \o Tail(s))[i] = s[i]
  <1>1. Tail(s) \in Seq(S) /\ Len(Tail(s)) = Len(s) - 1 /\ Len(s) \in Nat \ {0}
    OBVIOUS
  <1>2. \A i \in 1..(Len(s) - 1) : Tail(s)[i] = s[i + 1]
    OBVIOUS
  <1>3. <<y>> \in Seq(S) /\ Len(<<y>>) = 1
    OBVIOUS
  <1>4. /\ Len(<<y>> \o Tail(s)) = 1 + Len(Tail(s))
        /\ \A i \in 1..(1 + Len(Tail(s))) : (<<y>> \o Tail(s))[i] =
              IF i <= 1 THEN <<y>>[i] ELSE Tail(s)[i - 1]
    BY <1>1, <1>3, ConcatProperties
  <1> QED
    BY <1>1, <1>2, <1>4

LEMMA AwaitingFirstStep ==
    ASSUME TypeOK, AwaitingFirst, [Next]_vars
    PROVE  AwaitingFirst'
  <1> SUFFICES ASSUME NEW t \in Devices PROVE OnlyHeadAwaits(queue'[t])
    BY DEF AwaitingFirst, OnlyHeadAwaits
  <1>0. queue[t] \in Seq(Operation) /\ OnlyHeadAwaits(queue[t])
    BY DEF TypeOK, AwaitingFirst
  <1>1. CASE Untouched(t)
    BY <1>0, <1>1 DEF Untouched
  <1>2. CASE Appended(t)
    BY <1>0, <1>2, HeadAwaitsAppend DEF Appended
  <1>3. CASE Severed(t)
    <2>1. PICK c \in Conns : queue'[t] = Append(queue[t], Closed(c, active[t] = c))
      BY <1>3 DEF Severed
    <2>2. Closed(c, active[t] = c) \in Operation /\ Closed(c, active[t] = c).kind # "awaiting"
      BY DEF Operation, Closed
    <2> QED
      BY <1>0, <2>1, <2>2, HeadAwaitsAppend
  <1>4. CASE Popped(t)
    <2>1. PICK u \in Seq(Operation) : /\ \A i \in 1..Len(u) : u[i].kind = "closed"
                                     /\ queue'[t] = Tail(queue[t]) \o u
      BY <1>4 DEF Popped
    <2>2. \A i \in 1..Len(queue'[t]) : queue'[t][i].kind # "awaiting"
      BY <1>0, <1>4, <2>1, HeadAwaitsTail DEF Popped
    <2> QED
      BY <2>2 DEF OnlyHeadAwaits
  <1>5. CASE Suspend(t)
    <2>1. PICK y \in Operation : queue'[t] = <<y>> \o Tail(queue[t])
      <3>1. Head(queue[t]).conn \in Conns /\ Head(queue[t]).request \in AllRequests
        BY <1>5, HeadTail, OperationFields DEF Suspend, Head1
      <3>2. Awaiting(Head(queue[t]).conn, Head(queue[t]).request) \in Operation
        BY <3>1 DEF Operation, Awaiting
      <3> QED
        BY <1>5, <3>2 DEF Suspend, TypeOK
    <2>2. queue[t] # <<>>
      BY <1>5 DEF Suspend
    <2> QED
      BY <1>0, <2>1, <2>2, ConsTailElements DEF OnlyHeadAwaits
  <1>6. CASE Restart
    BY <1>6 DEF Restart, OnlyHeadAwaits
  <1> QED
    BY <1>1, <1>2, <1>3, <1>4, <1>5, <1>6, DeviceStep DEF DeviceChange

\* Appending to the queue of a device that is served, or cutting it off, leaves
\* it served.
LEMMA ServedOnward ==
    ASSUME TypeOK, NEW t \in Devices, Served(t), Untouched(t) \/ Appended(t) \/ Severed(t)
    PROVE  Served(t)'
  <1>0. queue[t] \in Seq(Operation)
    BY DEF TypeOK
  <1>1. CASE Untouched(t)
    BY <1>1, ServedIs DEF Untouched, Served, Online
  <1>2. CASE Appended(t)
    <2>1. PICK x \in Operation : queue'[t] = Append(queue[t], x) /\ active'[t] = active[t]
      BY <1>2 DEF Appended
    <2> QED
      BY <1>0, <2>1, DisconnectionAppend, ServedIs DEF Served, Online
  <1>3. CASE Severed(t)
    <2>1. PICK c \in Conns : /\ queue'[t] = Append(queue[t], Closed(c, active[t] = c))
                             /\ active'[t] = IF active[t] = c THEN Nil ELSE active[t]
      BY <1>3 DEF Severed
    <2>2. Closed(c, active[t] = c) \in Operation
      BY DEF Operation, Closed
    <2>3. CASE active[t] = c
      <3>1. Closed(c, active[t] = c) = Closed(c, TRUE)
        BY <2>3
      <3> QED
        BY <1>0, <2>1, <2>2, <3>1, DisconnectionAppend, ServedIs
    <2>4. CASE active[t] # c
      BY <1>0, <2>1, <2>2, <2>4, DisconnectionAppend, ServedIs DEF Served, Online
    <2> QED
      BY <2>3, <2>4
  <1> QED
    BY <1>1, <1>2, <1>3

\* Nothing but its own tear-down, a set-up that fails half-way and a restart
\* takes a device that is served out of service.
LEMMA ServedStep ==
    ASSUME TypeOK, [Next]_vars, NEW t \in Devices, Served(t),
           ~Restart, ~RunInitUnlinked(t), ~(RunClosed(t) /\ Head1(t).wasActive)
    PROVE  Served(t)'
  <1>1. CASE Untouched(t) \/ Appended(t) \/ Severed(t)
    BY <1>1, ServedOnward
  <1>2. CASE Popped(t)
    <2>0. queue[t] \in Seq(Operation) /\ queue[t] # <<>> /\ Nil \notin Conns
      BY <1>2, ConnsAssumption DEF Popped, TypeOK
    <2>1. PICK u \in Seq(Operation) : queue'[t] = Tail(queue[t]) \o u
      BY <1>2 DEF Popped
    <2>2. CASE Online(t)
      BY <1>2, <2>0, <2>2, ServedIs DEF Popped, Online
    <2>3. CASE HasDisconnection(queue[t])
      <3>1. ~(Head(queue[t]).kind = "closed" /\ Head(queue[t]).wasActive)
        BY <1>2 DEF Popped, Head1
      <3> QED
        BY <2>0, <2>1, <2>3, <3>1, DisconnectionTail, ServedIs
    <2> QED
      BY <2>2, <2>3 DEF Served
  <1>3. CASE Suspend(t)
    <2>1. active' = active /\ active[t] \in Conns
      BY <1>3, HeadTail, OperationFields DEF Suspend
    <2> QED
      BY <2>1, ConnsAssumption, ServedIs
  <1> QED
    BY <1>1, <1>2, <1>3, DeviceStep DEF DeviceChange

LEMMA AwaitingServedStep ==
    ASSUME TypeOK, AwaitingFirst, AwaitingServed, [Next]_vars
    PROVE  AwaitingServed'
  <1> SUFFICES ASSUME NEW t \in Devices, queue'[t] # <<>>, Head(queue'[t]).kind = "awaiting"
               PROVE  Served(t)'
    BY DEF AwaitingServed, Head1
  <1>0. queue[t] \in Seq(Operation) /\ OnlyHeadAwaits(queue[t])
    BY DEF TypeOK, AwaitingFirst
  <1>1. CASE Untouched(t) \/ Appended(t) \/ Severed(t)
    <2>1. queue[t] # <<>> /\ Head(queue[t]).kind = "awaiting"
      <3>1. CASE Untouched(t)
        BY <3>1 DEF Untouched
      <3>2. CASE Appended(t)
        BY <1>0, <3>2, HeadAwaitsAppend DEF Appended
      <3>3. CASE Severed(t)
        <4>1. PICK c \in Conns : queue'[t] = Append(queue[t], Closed(c, active[t] = c))
          BY <3>3 DEF Severed
        <4>2. /\ Closed(c, active[t] = c) \in Operation
              /\ Closed(c, active[t] = c).kind # "awaiting"
          BY DEF Operation, Closed
        <4> QED
          BY <1>0, <4>1, <4>2, HeadAwaitsAppend
      <3> QED
        BY <1>1, <3>1, <3>2, <3>3
    <2>2. Served(t)
      BY <2>1 DEF AwaitingServed, Head1
    <2> QED
      BY <1>1, <2>2, ServedOnward
  <1>2. CASE Popped(t)
    <2>1. PICK u \in Seq(Operation) : /\ \A i \in 1..Len(u) : u[i].kind = "closed"
                                     /\ queue'[t] = Tail(queue[t]) \o u
      BY <1>2 DEF Popped
    <2>2. \A i \in 1..Len(queue'[t]) : queue'[t][i].kind # "awaiting"
      BY <1>0, <1>2, <2>1, HeadAwaitsTail DEF Popped
    <2>3. queue'[t] \in Seq(Operation)
      BY TypeStep DEF TypeOK
    <2>4. 1 \in 1..Len(queue'[t]) /\ Head(queue'[t]) = queue'[t][1]
      BY <2>3
    <2> QED
      BY <2>2, <2>4
  <1>3. CASE Suspend(t)
    <2>1. active' = active /\ active[t] \in Conns
      BY <1>3, HeadTail, OperationFields DEF Suspend
    <2> QED
      BY <2>1, ConnsAssumption, ServedIs
  <1>4. CASE Restart
    BY <1>4 DEF Restart
  <1> QED
    BY <1>1, <1>2, <1>3, <1>4, DeviceStep DEF DeviceChange

\* The members of m in the pool are members now.
Within(m) == \A t \in Devices : m[t].room = "pool" => InPool(t)

LEMMA WithinBy ==
    ASSUME TypeOK, NEW d
    PROVE  /\ \A m, since : Within(m) => Within(Unexpired(m, since))
           /\ Within([membership EXCEPT ![d] = NoMembership])
           /\ Within(membership)
  BY DEF Within, Unexpired, NoMembership, InPool, TypeOK

LEMMA PublishWithin ==
    ASSUME TypeOK, NEW m, NEW rel, NEW since, Within(m), Publish(m, rel, since)
    PROVE  Within(membership')
  BY WithinBy DEF Publish

LEMMA LobbyWithin ==
    ASSUME TypeOK, NEW gone, LobbyDataDeleted(gone)
    PROVE  Within(membership')
  <1> DEFINE members == [d \in Devices |-> IF d \in gone THEN NoMembership ELSE membership[d]]
             rows == [v \in Devices |-> IF v \in gone \/ relation[v].target \in gone
                                        THEN NoRelation ELSE relation[v]]
  <1>1. Within(members)
    BY DEF Within, NoMembership, InPool
  <1>2. Publish(members, rows, idle)
    BY DEF LobbyDataDeleted
  <1> QED
    BY <1>1, <1>2, PublishWithin

\* A handler brings nobody but its own device into the pool.
LEMMA HandleWithin ==
    ASSUME TypeOK, NEW d \in Devices, NEW r \in AllRequests, Handle(d, r) \/ NoEffect,
           NEW t \in Devices, t # d, membership'[t].room = "pool"
    PROVE  InPool(t)
  <1>0. CASE membership' = membership
    BY <1>0 DEF InPool
  <1>1. ASSUME NEW m \in [Devices -> Membership], m[t] = membership[t],
               membership' = Unexpired(m, idle)
        PROVE  InPool(t)
    BY <1>1 DEF Unexpired, NoMembership, InPool
  <1>2. ASSUME NEW m, membership' = [membership EXCEPT ![d] = m]
        PROVE  InPool(t)
    BY <1>2 DEF InPool, TypeOK
  <1>3. CASE r.op = "join" /\ BroadcasterJoin(d, r.name)
    <2>1. r.name \in Names
      BY <1>3, RequestFields
    <2>2. [membership EXCEPT ![d] = [room |-> "pool", name |-> r.name]]
            \in [Devices -> Membership]
      BY <2>1 DEF TypeOK, Membership, Rooms
    <2>3. [membership EXCEPT ![d] = [room |-> "pool", name |-> r.name]][t] = membership[t]
      BY DEF TypeOK
    <2> QED
      BY <1>0, <1>1, <1>3, <2>2, <2>3 DEF BroadcasterJoin, NoEffect, Publish
  <1>4. CASE r.op = "rename" /\ BroadcasterRename(d, r.name)
    <2>1. r.name \in Names
      BY <1>4, RequestFields
    <2>2. CASE InPool(d)
      <3>1. [membership EXCEPT ![d].name = r.name] \in [Devices -> Membership]
        BY <2>1, <2>2, RenamedType
      <3>2. [membership EXCEPT ![d].name = r.name][t] = membership[t]
        BY DEF TypeOK
      <3> QED
        BY <1>0, <1>1, <1>4, <3>1, <3>2 DEF BroadcasterRename, NoEffect, Publish
    <2>3. CASE ~InPool(d)
      BY <1>0, <1>4, <2>3 DEF BroadcasterRename, NoEffect
    <2> QED
      BY <2>2, <2>3
  <1>5. CASE RoomJoin(d, r.name, r.to) \/ RoomLeave(d)
    BY <1>0, <1>2, <1>5 DEF RoomJoin, RoomLeave, NoEffect
  <1>6. CASE RoomRename(d, r.name)
    <2>1. membership' = membership
          \/ membership' = [membership EXCEPT ![d] = [@ EXCEPT !.name = r.name]]
      BY <1>6 DEF RoomRename, NoEffect
    <2> QED
      BY <1>0, <1>2, <2>1
  <1>7. CASE RealtimeStart(d, r.to)
    BY <1>1, <1>7 DEF RealtimeStart, TypeOK
  <1>8. CASE RealtimeHeartbeat(d) \/ RealtimeStop(d) \/ NoEffect
    BY <1>0, <1>8 DEF RealtimeHeartbeat, RealtimeStop, NoEffect
  <1>9. CASE BroadcastersList
    BY <1>1, <1>9 DEF BroadcastersList, Publish, TypeOK
  <1> QED
    BY <1>3, <1>4, <1>5, <1>6, <1>7, <1>8, <1>9 DEF Handle

LEMMA PoolStep ==
    ASSUME TypeOK, AwaitingServed, [Next]_vars, NEW t \in Devices,
           membership'[t].room = "pool"
    PROVE  InPool(t) \/ Served(t)
  <1>0. CASE Within(membership')
    BY <1>0 DEF Within
  <1>1. CASE membership' = membership
    BY <1>1 DEF InPool
  <1>2. ASSUME NEW d \in Devices, RunEvent(d) PROVE InPool(t) \/ Served(t)
    <2>1. /\ queue[d] # <<>> /\ Head1(d).kind \in {"event", "awaiting"}
          /\ Head1(d).request \in AllRequests /\ Head1(d).conn \in Conns
      BY <1>2, HeadTail, OperationFields DEF RunEvent
    <2>2. Handle(d, Head1(d).request) \/ NoEffect
      BY <1>2 DEF RunEvent
    <2>3. CASE t # d
      BY <2>1, <2>2, <2>3, HandleWithin
    <2>4. CASE t = d
      <3>1. CASE Head1(d).kind = "awaiting"
        BY <2>1, <2>4, <3>1 DEF AwaitingServed
      <3>2. CASE active[d] = Head1(d).conn
        BY <2>1, <2>4, <3>2, ConnsAssumption DEF Served, Online
      <3>3. CASE NoEffect
        BY <1>1, <3>3 DEF NoEffect
      <3> QED
        BY <1>2, <3>1, <3>2, <3>3 DEF RunEvent
    <2> QED
      BY <2>3, <2>4
  <1>3. ASSUME NEW d \in Devices, RunClosed(d) PROVE Within(membership')
    <2>1. membership' = membership \/ membership' = Unexpired(membership, idle')
      BY <1>3 DEF RunClosed, Publish
    <2> QED
      BY <2>1, WithinBy
  <1>4. ASSUME NEW d \in Devices, RunCleanup(d) PROVE Within(membership')
    <2> DEFINE members == [membership EXCEPT ![d] = NoMembership]
    <2>1. \/ membership' = membership
          \/ membership' = members
          \/ membership' = Unexpired(members, idle)
      BY <1>4 DEF RunCleanup, Publish
    <2> QED
      BY <2>1, WithinBy
  <1>5. ASSUME NEW d \in Devices, Administer(d) PROVE Within(membership')
    <2>1. CASE AdminDisconnect(d)
      BY <2>1, WithinBy DEF AdminDisconnect, Publish
    <2>2. CASE Ban(d)
      BY <2>2, WithinBy DEF Ban, Publish
    <2>3. CASE Unban(d)
      BY <2>3, WithinBy DEF Unban, Publish
    <2>4. CASE AdminStopRealtime(d)
      BY <2>4, WithinBy DEF AdminStopRealtime, Publish
    <2>5. CASE AdminDeleteData(d)
      BY <2>5, LobbyWithin DEF AdminDeleteData
    <2> QED
      BY <1>5, <2>1, <2>2, <2>3, <2>4, <2>5 DEF Administer
  <1>6. CASE AdminCleanupOffline
    BY <1>0, <1>6, LobbyWithin DEF AdminCleanupOffline
  <1>7. CASE Sweep
    BY <1>0, <1>7, WithinBy DEF Sweep, Publish
  <1>8. ASSUME NEW d \in Devices,
               \/ Register(d) \/ TimerFires(d)
               \/ \E c \in Conns : Connect(d, c) \/ Drop(d, c)
               \/ \E c \in Conns, r \in Requests : Submit(d, c, r)
               \/ RunInit(d) \/ RunInitUnrestored(d) \/ RunInitUnlinked(d) \/ Suspend(d)
        PROVE  membership' = membership
    <2>1. Register(d) \/ TimerFires(d) => membership' = membership
      BY DEF Register, TimerFires
    <2>2. \A c \in Conns : Connect(d, c) \/ Drop(d, c) => membership' = membership
      BY DEF Connect, Drop
    <2>3. \A c \in Conns, r \in Requests : Submit(d, c, r) => membership' = membership
      BY DEF Submit
    <2>4. RunInit(d) => membership' = membership
      BY DEF RunInit
    <2>5. RunInitUnrestored(d) \/ RunInitUnlinked(d) \/ Suspend(d) => membership' = membership
      BY DEF RunInitUnrestored, RunInitUnlinked, Suspend
    <2> QED
      BY <1>8, <2>1, <2>2, <2>3, <2>4, <2>5
  <1>9. CASE Tick \/ Restart \/ UNCHANGED vars
    BY <1>1, <1>9 DEF Tick, Restart, vars
  <1> QED
    BY <1>0, <1>1, <1>2, <1>3, <1>4, <1>5, <1>6, <1>7, <1>8, <1>9 DEF Next, Run

\* Only a restart and a successful start take a viewer off the exceptions.
LEMMA LeftoverStep ==
    ASSUME TypeOK, [Next]_vars
    PROVE  leftover \subseteq leftover' \/ Restart \/ Started
  <1>0. CASE leftover' = leftover
    BY <1>0
  <1>1. ASSUME NEW d \in Devices, RunEvent(d)
        PROVE  leftover \subseteq leftover' \/ Restart \/ Started
    <2>1. Head1(d).request \in AllRequests
      BY <1>1, HeadTail, OperationFields DEF RunEvent
    <2> DEFINE r == Head1(d).request
    <2>2. CASE NoEffect \/ BroadcasterJoin(d, r.name) \/ BroadcasterRename(d, r.name)
      <3>1. NoEffect => leftover' = leftover
        BY DEF NoEffect
      <3>2. BroadcasterJoin(d, r.name) => leftover' = leftover
        BY <3>1 DEF BroadcasterJoin
      <3>3. BroadcasterRename(d, r.name) => leftover' = leftover
        BY <3>1 DEF BroadcasterRename
      <3> QED
        BY <1>0, <2>2, <3>1, <3>2, <3>3
    <2>4. CASE RoomJoin(d, r.name, r.to) \/ RoomRename(d, r.name) \/ RoomLeave(d)
      BY <1>0, <2>4 DEF NoEffect, RoomJoin, RoomRename, RoomLeave
    <2>5. CASE RealtimeHeartbeat(d) \/ RealtimeStop(d) \/ BroadcastersList
      BY <1>0, <2>5 DEF RealtimeHeartbeat, RealtimeStop, BroadcastersList
    <2>3. CASE r.op = "start" /\ RealtimeStart(d, r.to)
      <3>1. r.to \in Devices
        BY <2>1, <2>3, RequestFields
      <3> QED
        BY <1>0, <2>3, <3>1 DEF RealtimeStart, Started
    <2> QED
      BY <1>1, <2>2, <2>3, <2>4, <2>5 DEF RunEvent, Handle
  <1>2. ASSUME NEW d \in Devices, Run(d), ~RunEvent(d) PROVE leftover \subseteq leftover'
    <2>1. RunInit(d) => leftover' = leftover
      BY DEF RunInit
    <2>2. RunInitUnrestored(d) \/ Suspend(d) => leftover' = leftover
      BY DEF RunInitUnrestored, Suspend
    <2>3. RunInitUnlinked(d) => leftover \subseteq leftover'
      BY DEF RunInitUnlinked
    <2>4. RunClosed(d) \/ RunCleanup(d) => leftover' = leftover
      BY DEF RunClosed, RunCleanup
    <2> QED
      BY <1>2, <2>1, <2>2, <2>3, <2>4 DEF Run
  <1>3. ASSUME NEW d \in Devices,
               \/ Register(d) \/ TimerFires(d)
               \/ \E c \in Conns : Connect(d, c) \/ Drop(d, c)
               \/ \E c \in Conns, r \in Requests : Submit(d, c, r)
        PROVE  leftover' = leftover
    BY <1>3 DEF Register, TimerFires, Connect, Drop, Submit
  <1>4. ASSUME NEW d \in Devices, Administer(d) PROVE leftover' = leftover
    BY <1>4 DEF Administer, AdminDisconnect, Ban, Unban, AdminStopRealtime, AdminDeleteData
  <1>5. CASE AdminCleanupOffline \/ Tick \/ Sweep \/ UNCHANGED vars
    BY <1>0, <1>5 DEF AdminCleanupOffline, Tick, Sweep, vars
  <1> QED
    BY <1>0, <1>1, <1>2, <1>3, <1>4, <1>5 DEF Next

LEMMA FollowStep ==
    TypeOK /\ FollowInvariant /\ [Next]_vars => FollowInvariant'
  <1> SUFFICES ASSUME TypeOK, FollowInvariant, [Next]_vars PROVE FollowInvariant'
    OBVIOUS
  <1>1. AwaitingFirst' /\ AwaitingServed'
    BY AwaitingFirstStep, AwaitingServedStep DEF FollowInvariant
  <1>2. FollowedTargetOnline'
    <2> SUFFICES ASSUME NEW v \in Devices, v \notin leftover', NEW t \in Devices,
                        relation'[v].target = t, membership'[t].room = "pool"
                 PROVE  Served(t)'
      BY ServedIs DEF FollowedTargetOnline, InPool, Served, Online
    <2>0. t # Nil /\ NoRelation.target = Nil
      BY DevicesAssumption DEF NoRelation
    <2>1. ~Restart
      BY <2>0 DEF Restart
    <2>2. ~RunInitUnlinked(t)
      BY DEF RunInitUnlinked
    <2>3. InPool(t) \/ Served(t)
      BY PoolStep DEF FollowInvariant
    <2>4. (v \notin leftover /\ relation[v].target = t) \/ Online(t)
      <3>1. CASE Started
        <4>1. PICK d, s \in Devices :
                 /\ Online(s)
                 /\ relation' = [Fresh(relation) EXCEPT ![d] = [target |-> s, age |-> 0]]
                 /\ leftover' = leftover \ {d}
          BY <3>1 DEF Started
        <4>2. Fresh(relation) \in [Devices -> Relation]
          BY FreshType DEF TypeOK
        <4>3. CASE v = d
          BY <4>1, <4>2, <4>3
        <4>4. CASE v # d
          <5>1. relation'[v] = Fresh(relation)[v]
            BY <4>1, <4>2, <4>4
          <5> QED
            BY <2>0, <4>1, <4>4, <5>1, ShrunkBy DEF Shrunk
        <4> QED
          BY <4>3, <4>4
      <3>2. CASE ~Started
        BY <2>0, <2>1, <3>2, RelationStep, LeftoverStep DEF Shrunk
      <3> QED
        BY <3>1, <3>2
    <2>5. Served(t)
      BY <2>3, <2>4, ServedIs DEF FollowInvariant, FollowedTargetOnline, Served
    <2>6. CASE RunClosed(t) /\ Head1(t).wasActive
      <3>1. CASE InPool(t)
        <4>1. relation' = Fresh(Unfollowed(relation, t))
          BY <2>6, <3>1 DEF RunClosed, Publish
        <4>2. Unfollowed(relation, t)[v].target # t
          BY <2>0 DEF Unfollowed
        <4> QED
          BY <2>0, <4>1, <4>2 DEF Fresh
      <3>2. CASE ~InPool(t)
        BY <2>6, <3>2 DEF RunClosed, InPool
      <3> QED
        BY <3>1, <3>2
    <2>7. CASE ~(RunClosed(t) /\ Head1(t).wasActive)
      BY <2>1, <2>2, <2>5, <2>7, ServedStep
    <2> QED
      BY <2>6, <2>7
  <1> QED
    BY <1>1, <1>2 DEF FollowInvariant

\* A pool member somebody follows is online or about to be cut loose, whatever
\* the services, the faults of the set-up, the clean-ups and the restarts.
THEOREM FollowedTargetOnlineHolds == Spec => []FollowedTargetOnline
  <1>1. Init => FollowInvariant
    <2> SUFFICES ASSUME Init PROVE FollowInvariant
      OBVIOUS
    <2>1. FollowedTargetOnline
      BY DevicesAssumption DEF Init, FollowedTargetOnline, NoRelation
    <2>2. AwaitingFirst /\ AwaitingServed
      BY DEF Init, AwaitingFirst, AwaitingServed, OnlyHeadAwaits
    <2> QED
      BY <2>1, <2>2 DEF FollowInvariant
  <1>2. FollowInvariant => FollowedTargetOnline
    BY DEF FollowInvariant
  <1> QED
    BY <1>1, <1>2, FollowStep, TypeCorrect, PTL DEF Spec

-----------------------------------------------------------------------------
(* The sockets of a device and the set-ups queued for them.                *)

SetupIn(s, c) == \E i \in 1..Len(s) : s[i] = Setup(c)
OneSetup(s, c) ==
    \A i, j \in 1..Len(s) : s[i] = Setup(c) /\ s[j] = Setup(c) => i = j

\* A device with sockets o, active socket a and queue s has no zombie; beyond
\* NoZombieConnection, a socket is set up once and not active before that.
Attended(o, a, s) ==
    /\ \A c \in o : c = a \/ SetupIn(s, c)
    /\ a \in o \cup {Nil}
    /\ \A c \in Conns : OneSetup(s, c)
    /\ \A c \in Conns : SetupIn(s, c) => a # c

AllAttended == \A d \in Devices : Attended(open[d], active[d], queue[d])

\* What a step does to the set-ups of a queue: nothing, add one, take the head.
SameSetups(s, new) ==
    \A c \in Conns : /\ SetupIn(new, c) <=> SetupIn(s, c)
                     /\ OneSetup(s, c) => OneSetup(new, c)
SetupAdded(s, new, c) ==
    /\ ~SetupIn(s, c)
    /\ \A e \in Conns : /\ SetupIn(new, e) <=> SetupIn(s, e) \/ e = c
                        /\ OneSetup(s, e) => OneSetup(new, e)
SetupTaken(s, new, c) ==
    /\ SetupIn(s, c)
    /\ OneSetup(s, c) => ~SetupIn(new, c)
    /\ \A e \in Conns : /\ e # c => (SetupIn(new, e) <=> SetupIn(s, e))
                        /\ OneSetup(s, e) => OneSetup(new, e)

LEMMA SetupApart ==
    ASSUME NEW c \in Conns, NEW o \in Operation
    PROVE  /\ o = Setup(c) => o.kind = "init" /\ o.conn = c
           /\ o.kind = "init" => o = Setup(o.conn) /\ o.conn \in Conns
  <1>1. CASE o \in [kind : {"event", "awaiting"}, conn : Conns, wasActive : {FALSE},
                    request : AllRequests]
    BY <1>1 DEF Setup
  <1>2. CASE o \in [kind : {"init"}, conn : Conns, wasActive : {FALSE}, request : {Nil}]
    <2>1. /\ o = [kind |-> o.kind, conn |-> o.conn, wasActive |-> o.wasActive,
                  request |-> o.request]
          /\ o.kind = "init" /\ o.conn \in Conns /\ o.wasActive = FALSE /\ o.request = Nil
      BY <1>2
    <2>2. o = Setup(o.conn)
      BY <2>1, Zenon DEF Setup
    <2>3. o = Setup(c) => o.conn = c
      BY DEF Setup
    <2> QED
      BY <2>1, <2>2, <2>3
  <1>3. CASE o \in [kind : {"closed"}, conn : Conns, wasActive : BOOLEAN, request : {Nil}]
    BY <1>3 DEF Setup
  <1>4. CASE o = Cleanup
    BY <1>4 DEF Cleanup, Setup
  <1> QED
    BY <1>1, <1>2, <1>3, <1>4 DEF Operation

LEMMA SetupAppend ==
    ASSUME NEW s \in Seq(Operation), NEW x \in Operation
    PROVE  /\ x.kind # "init" => SameSetups(s, Append(s, x))
           /\ \A c \in Conns : x = Setup(c) /\ ~SetupIn(s, c) => SetupAdded(s, Append(s, x), c)
  <1>1. Len(s) \in Nat
    OBVIOUS
  <1>2. PICK longer : longer = Append(s, x)
    OBVIOUS
  <1>3. /\ Len(longer) = Len(s) + 1
        /\ \A i \in 1..Len(s) : longer[i] = s[i]
        /\ longer[Len(s) + 1] = x
    BY <1>2, AppendElements
  <1>4. \A i \in 1..Len(longer) : i \in 1..Len(s) \/ i = Len(s) + 1
    BY <1>1, <1>3
  <1>5. \A i \in 1..Len(s) : i \in 1..Len(longer) /\ i # Len(s) + 1
    BY <1>1, <1>3
  <1>6. Len(s) + 1 \in 1..Len(longer)
    BY <1>1, <1>3
  <1>7. \A c \in Conns : SetupIn(longer, c) <=> SetupIn(s, c) \/ x = Setup(c)
    BY <1>3, <1>4, <1>5, <1>6 DEF SetupIn
  <1>8. ASSUME NEW c \in Conns, OneSetup(s, c), x = Setup(c) => ~SetupIn(s, c)
        PROVE  OneSetup(longer, c)
    <2> SUFFICES ASSUME NEW i \in 1..Len(longer), NEW j \in 1..Len(longer),
                        longer[i] = Setup(c), longer[j] = Setup(c)
                 PROVE  i = j
      BY DEF OneSetup
    <2>1. CASE i \in 1..Len(s) /\ j \in 1..Len(s)
      BY <1>3, <1>8, <2>1 DEF OneSetup
    <2>2. CASE i = Len(s) + 1 /\ j = Len(s) + 1
      BY <2>2
    <2>3. CASE i \in 1..Len(s) /\ j = Len(s) + 1
      BY <1>3, <1>8, <2>3 DEF SetupIn
    <2>4. CASE i = Len(s) + 1 /\ j \in 1..Len(s)
      BY <1>3, <1>8, <2>4 DEF SetupIn
    <2> QED
      BY <1>4, <2>1, <2>2, <2>3, <2>4
  <1>9. ASSUME x.kind # "init" PROVE SameSetups(s, longer)
    <2>1. \A c \in Conns : x # Setup(c)
      BY <1>9, SetupApart
    <2> QED
      BY <1>7, <1>8, <2>1 DEF SameSetups
  <1>10. ASSUME NEW c \in Conns, x = Setup(c), ~SetupIn(s, c) PROVE SetupAdded(s, longer, c)
    <2>1. \A e \in Conns : x = Setup(e) <=> e = c
      BY <1>10 DEF Setup
    <2> QED
      BY <1>7, <1>8, <1>10, <2>1 DEF SetupAdded
  <1> QED
    BY <1>2, <1>9, <1>10

LEMMA SetupTail ==
    ASSUME NEW s \in Seq(Operation), NEW u \in Seq(Operation), s # <<>>,
           \A i \in 1..Len(u) : u[i].kind # "init"
    PROVE  /\ Head(s).kind # "init" => SameSetups(s, Tail(s) \o u)
           /\ \A c \in Conns : Head(s) = Setup(c) => SetupTaken(s, Tail(s) \o u, c)
  <1>1. PICK new : new = Tail(s) \o u
    OBVIOUS
  <1>2. /\ Len(s) \in Nat \ {0} /\ Len(u) \in Nat
        /\ Len(new) = Len(s) - 1 + Len(u)
        /\ \A i \in 1..(Len(s) - 1) : new[i] = s[i + 1]
        /\ \A i \in 1..Len(u) : new[Len(s) - 1 + i] = u[i]
        /\ Head(s) = s[1]
    BY <1>1, TailConcatElements
  <1>3. \A i \in 1..Len(u), c \in Conns : u[i] # Setup(c)
    BY SetupApart
  <1>4. ASSUME NEW i \in 1..Len(new), NEW c \in Conns, new[i] = Setup(c)
        PROVE  i + 1 \in 1..Len(s) /\ s[i + 1] = Setup(c)
    <2>1. CASE i \in 1..(Len(s) - 1)
      BY <1>2, <1>4, <2>1
    <2>2. CASE i \notin 1..(Len(s) - 1)
      <3>1. i - (Len(s) - 1) \in 1..Len(u) /\ Len(s) - 1 + (i - (Len(s) - 1)) = i
        BY <1>2, <2>2
      <3>2. new[i] = u[i - (Len(s) - 1)]
        BY <1>2, <3>1
      <3> QED
        BY <1>3, <1>4, <3>1, <3>2
    <2> QED
      BY <2>1, <2>2
  <1>5. ASSUME NEW i \in 1..Len(s), NEW c \in Conns, s[i] = Setup(c), i # 1
        PROVE  i - 1 \in 1..Len(new) /\ new[i - 1] = Setup(c)
    <2>1. i - 1 \in 1..(Len(s) - 1) /\ (i - 1) + 1 = i
      BY <1>2, <1>5
    <2> QED
      BY <1>2, <1>5, <2>1
  <1>6. \A c \in Conns : SetupIn(new, c) => SetupIn(s, c)
    BY <1>4 DEF SetupIn
  <1>7. \A c \in Conns : SetupIn(s, c) /\ Head(s) # Setup(c) => SetupIn(new, c)
    BY <1>2, <1>5 DEF SetupIn
  <1>8. ASSUME NEW c \in Conns, OneSetup(s, c) PROVE OneSetup(new, c)
    <2> SUFFICES ASSUME NEW i \in 1..Len(new), NEW j \in 1..Len(new),
                        new[i] = Setup(c), new[j] = Setup(c)
                 PROVE  i = j
      BY DEF OneSetup
    <2>1. i + 1 = j + 1
      BY <1>4, <1>8 DEF OneSetup
    <2> QED
      BY <1>2, <2>1
  <1>9. ASSUME Head(s).kind # "init" PROVE SameSetups(s, new)
    <2>1. \A c \in Conns : Head(s) # Setup(c)
      BY <1>9 DEF Setup
    <2> QED
      BY <1>6, <1>7, <1>8, <2>1 DEF SameSetups
  <1>10. ASSUME NEW c \in Conns, Head(s) = Setup(c) PROVE SetupTaken(s, new, c)
    <2>1. \A e \in Conns : e # c => Head(s) # Setup(e)
      BY <1>10 DEF Setup
    <2>2. 1 \in 1..Len(s) /\ s[1] = Setup(c)
      BY <1>2, <1>10
    <2>3. ASSUME OneSetup(s, c), SetupIn(new, c) PROVE FALSE
      <3>1. PICK i \in 1..Len(new) : new[i] = Setup(c)
        BY <2>3 DEF SetupIn
      <3>2. i + 1 = 1
        BY <1>4, <2>2, <2>3, <3>1 DEF OneSetup
      <3> QED
        BY <1>2, <3>2
    <2> QED
      BY <1>6, <1>7, <1>8, <2>1, <2>2, <2>3 DEF SetupTaken, SetupIn
  <1> QED
    BY <1>1, <1>9, <1>10

LEMMA AttendedSame ==
    ASSUME NEW o \in SUBSET Conns, NEW a \in Conns \cup {Nil}, NEW s, NEW new,
           Attended(o, a, s), SameSetups(s, new)
    PROVE  /\ Attended(o, a, new)
           /\ \A c \in Conns : Attended(o \ {c}, IF a = c THEN Nil ELSE a, new)
  <1>1. Attended(o, a, new)
    BY DEF Attended, SameSetups
  <1>2. ASSUME NEW c \in Conns PROVE Attended(o \ {c}, IF a = c THEN Nil ELSE a, new)
    BY <1>1, <1>2, ConnsAssumption DEF Attended
  <1> QED
    BY <1>1, <1>2

LEMMA AttendedAdded ==
    ASSUME NEW o \in SUBSET Conns, NEW a \in Conns \cup {Nil}, NEW s, NEW new,
           NEW c \in Conns, c \notin o,
           Attended(o, a, s), SetupAdded(s, new, c)
    PROVE  Attended(o \cup {c}, a, new)
  <1>1. a # c
    BY ConnsAssumption DEF Attended
  <1> QED
    BY <1>1 DEF Attended, SetupAdded

LEMMA AttendedTaken ==
    ASSUME NEW o \in SUBSET Conns, NEW a \in Conns \cup {Nil}, NEW s, NEW new,
           NEW c \in Conns, Attended(o, a, s), SetupTaken(s, new, c)
    PROVE  /\ c \notin o => Attended(o, a, new)
           /\ c \in o => Attended(o \ ({a} \ {Nil, c}), c, new)
           /\ Attended(o \ {c}, a, new)
           /\ Attended((o \ {c}) \ ({a} \ {Nil, c}), Nil, new)
  <1>1. a # c /\ ~SetupIn(new, c) /\ \A e \in Conns : OneSetup(new, e)
    BY DEF Attended, SetupTaken
  <1>2. \A e \in Conns : e # c => (SetupIn(new, e) <=> SetupIn(s, e))
    BY DEF SetupTaken
  <1>3. Attended(o \ {c}, a, new)
    BY <1>1, <1>2 DEF Attended
  <1>4. c \notin o => Attended(o, a, new)
    BY <1>1, <1>2 DEF Attended
  <1>5. c \in o => Attended(o \ ({a} \ {Nil, c}), c, new)
    BY <1>1, <1>2, ConnsAssumption DEF Attended
  <1>6. Attended((o \ {c}) \ ({a} \ {Nil, c}), Nil, new)
    BY <1>1, <1>2, ConnsAssumption DEF Attended
  <1> QED
    BY <1>3, <1>4, <1>5, <1>6

LEMMA SetupCloses ==
    ASSUME TypeOK, NEW d \in Devices, NEW c \in Conns, CloseSocket(d, c)
    PROVE  /\ open'[d] = open[d] \ {c}
           /\ active'[d] = IF active[d] = c THEN Nil ELSE active[d]
           /\ SameSetups(queue[d], queue'[d])
           /\ \A t \in Devices \ {d} : open'[t] = open[t] /\ active'[t] = active[t]
                                       /\ queue'[t] = queue[t]
  <1>1. Closed(c, active[d] = c) \in Operation /\ Closed(c, active[d] = c).kind # "init"
    BY DEF Operation, Closed
  <1>2. queue'[d] = Append(queue[d], Closed(c, active[d] = c)) /\ queue[d] \in Seq(Operation)
    BY DEF CloseSocket, TypeOK
  <1>3. SameSetups(queue[d], queue'[d])
    BY <1>1, <1>2, SetupAppend
  <1>4. /\ open'[d] = open[d] \ {c}
        /\ active'[d] = IF active[d] = c THEN Nil ELSE active[d]
    BY DEF CloseSocket, TypeOK
  <1>5. \A t \in Devices \ {d} : open'[t] = open[t] /\ active'[t] = active[t]
                                  /\ queue'[t] = queue[t]
    BY DEF CloseSocket, TypeOK
  <1> QED
    BY <1>3, <1>4, <1>5

LEMMA SameSetupsSelf == \A s : SameSetups(s, s)
  BY DEF SameSetups

LEMMA SetupPops ==
    ASSUME TypeOK, NEW d \in Devices, queue[d] # <<>>, queue' = Next1(d)
    PROVE  /\ Head1(d).kind # "init" => SameSetups(queue[d], queue'[d])
           /\ \A c \in Conns : Head1(d) = Setup(c) => SetupTaken(queue[d], queue'[d], c)
  <1>1. queue'[d] = Tail(queue[d]) /\ queue[d] \in Seq(Operation)
    BY DEF Next1, TypeOK
  <1>2. Tail(queue[d]) = Tail(queue[d]) \o <<>>
    BY HeadTail, TailConcatNothing
  <1>3. <<>> \in Seq(Operation) /\ \A i \in 1..Len(<<>>) : <<>>[i].kind # "init"
    OBVIOUS
  <1> QED
    BY <1>1, <1>2, <1>3, SetupTail DEF Head1

LEMMA SetupReplaced ==
    ASSUME TypeOK, NEW d \in Devices, queue[d] # <<>>, NEW c \in Conns, Head1(d) = Setup(c)
    PROVE  /\ SetupTaken(queue[d], Tail(queue[d]) \o ReplacedClosed(d, c), c)
           /\ SetupTaken(queue[d], Append(Tail(queue[d]), Closed(c, FALSE)), c)
           /\ SetupTaken(queue[d],
                Tail(queue[d]) \o Append(ReplacedClosed(d, c), Closed(c, FALSE)), c)
  <1>1. queue[d] \in Seq(Operation) /\ Tail(queue[d]) \in Seq(Operation)
    BY HeadTail DEF TypeOK
  <1>2. /\ ReplacedClosed(d, c) \in Seq(Operation)
        /\ \A i \in 1..Len(ReplacedClosed(d, c)) : ReplacedClosed(d, c)[i].kind # "init"
    BY ReplacedClosedType, ReplacedClosedKind
  <1>3. Closed(c, FALSE) \in Operation /\ Closed(c, FALSE).kind # "init"
    BY DEF Operation, Closed
  <1>4. PICK u : u = Append(ReplacedClosed(d, c), Closed(c, FALSE))
    OBVIOUS
  <1>5. u \in Seq(Operation) /\ \A i \in 1..Len(u) : u[i].kind # "init"
    BY <1>2, <1>3, <1>4, AppendSeq, ReplacedClosedKind
  <1>6. PICK w : w = <<Closed(c, FALSE)>>
    OBVIOUS
  <1>7. w \in Seq(Operation) /\ \A i \in 1..Len(w) : w[i].kind # "init"
    BY <1>3, <1>6, SingletonSeq, SingletonElements
  <1>8. Append(Tail(queue[d]), Closed(c, FALSE)) = Tail(queue[d]) \o w
    BY <1>1, <1>3, <1>6, AppendAsConcat
  <1>9. SetupTaken(queue[d], Tail(queue[d]) \o ReplacedClosed(d, c), c)
    BY <1>1, <1>2, SetupTail DEF Head1
  <1>10. SetupTaken(queue[d], Tail(queue[d]) \o u, c)
    BY <1>1, <1>5, SetupTail DEF Head1
  <1>11. SetupTaken(queue[d], Tail(queue[d]) \o w, c)
    BY <1>1, <1>7, SetupTail DEF Head1
  <1> QED
    BY <1>4, <1>8, <1>9, <1>10, <1>11

\* What one step may do to the sockets of device t and to its queued set-ups.
SocketsSame(t) ==
    /\ open'[t] = open[t] /\ active'[t] = active[t]
    /\ SameSetups(queue[t], queue'[t])
SocketGone(t, c) ==
    /\ open'[t] = open[t] \ {c}
    /\ active'[t] = IF active[t] = c THEN Nil ELSE active[t]
    /\ SameSetups(queue[t], queue'[t])
SocketNew(t, c) ==
    /\ c \notin open[t] /\ t \notin banned /\ banned' = banned
    /\ open'[t] = open[t] \cup {c} /\ active'[t] = active[t]
    /\ SetupAdded(queue[t], queue'[t], c)
SocketSetUp(t, c) ==
    /\ SetupTaken(queue[t], queue'[t], c)
    /\ \/ c \notin open[t] /\ open'[t] = open[t] /\ active'[t] = active[t]
       \/ c \in open[t] /\ open'[t] = open[t] \ Replaced(t, c) /\ active'[t] = c
       \/ open'[t] = open[t] \ {c} /\ active'[t] = active[t]
       \/ open'[t] = (open[t] \ {c}) \ Replaced(t, c) /\ active'[t] = Nil
SocketsLost(t) == open'[t] = {} /\ active'[t] = Nil /\ queue'[t] = <<>>

SocketChange(t) ==
    \/ SocketsSame(t)
    \/ \E c \in Conns : SocketGone(t, c)
    \/ \E c \in Conns : SocketNew(t, c)
    \/ \E c \in Conns : SocketSetUp(t, c)
    \/ SocketsLost(t)

LEMMA SocketsUntouched ==
    ASSUME NEW t \in Devices, open'[t] = open[t], active'[t] = active[t], queue'[t] = queue[t]
    PROVE  SocketChange(t)
  BY SameSetupsSelf DEF SocketChange, SocketsSame

LEMMA SocketClosed ==
    ASSUME TypeOK, NEW d \in Devices, NEW c \in Conns, CloseSocket(d, c), NEW t \in Devices
    PROVE  SocketChange(t)
  <1>1. CASE t = d
    BY <1>1, SetupCloses DEF SocketChange, SocketGone
  <1>2. CASE t # d
    BY <1>2, SetupCloses, SocketsUntouched
  <1> QED
    BY <1>1, <1>2

LEMMA SocketDisconnected ==
    ASSUME TypeOK, NEW d \in Devices, DisconnectDevice(d), NEW t \in Devices
    PROVE  SocketChange(t)
  <1>1. CASE Online(d)
    <2>1. active[d] \in Conns
      BY <1>1 DEF Online, TypeOK
    <2> QED
      BY <1>1, <2>1, SocketClosed DEF DisconnectDevice
  <1>2. CASE ~Online(d)
    BY <1>2, SocketsUntouched DEF DisconnectDevice
  <1> QED
    BY <1>1, <1>2

LEMMA SocketAppended ==
    ASSUME TypeOK, NEW d \in Devices, NEW x \in Operation, x.kind # "init",
           open' = open, active' = active, queue' = [queue EXCEPT ![d] = Append(@, x)],
           NEW t \in Devices
    PROVE  SocketChange(t)
  <1>1. CASE t = d
    <2>1. queue[d] \in Seq(Operation) /\ queue'[d] = Append(queue[d], x)
      BY DEF TypeOK
    <2> QED
      BY <1>1, <2>1, SetupAppend DEF SocketChange, SocketsSame
  <1>2. CASE t # d
    BY <1>2, SocketsUntouched DEF TypeOK
  <1> QED
    BY <1>1, <1>2

LEMMA SocketConnected ==
    ASSUME TypeOK, NEW d \in Devices, NEW c \in Conns, Connect(d, c), NEW t \in Devices
    PROVE  SocketChange(t)
  <1>1. CASE t = d
    <2>1. queue[d] \in Seq(Operation) /\ queue'[d] = Append(queue[d], Setup(c))
      BY DEF TypeOK, Connect
    <2>2. ~SetupIn(queue[d], c)
      <3>1. Setup(c).conn = c
        BY DEF Setup
      <3> QED
        BY <3>1 DEF Connect, Pending, SetupIn
    <2>3. Setup(c) \in Operation
      BY DEF Operation, Setup
    <2>4. SetupAdded(queue[d], queue'[d], c)
      BY <2>1, <2>2, <2>3, SetupAppend
    <2>5. /\ c \notin open[d] /\ d \notin banned /\ banned' = banned
          /\ open'[d] = open[d] \cup {c} /\ active'[d] = active[d]
      BY DEF Connect, TypeOK
    <2> QED
      BY <1>1, <2>4, <2>5 DEF SocketChange, SocketNew
  <1>2. CASE t # d
    <2>1. open'[t] = open[t] /\ active'[t] = active[t] /\ queue'[t] = queue[t]
      BY <1>2 DEF Connect, TypeOK
    <2> QED
      BY <2>1, SocketsUntouched
  <1> QED
    BY <1>1, <1>2

LEMMA SocketOthers ==
    ASSUME TypeOK, NEW d \in Devices, Run(d), NEW t \in Devices, t # d
    PROVE  open'[t] = open[t] /\ active'[t] = active[t] /\ queue'[t] = queue[t]
  <1>1. CASE RunInit(d)
    BY <1>1 DEF RunInit, Next1, TypeOK
  <1>2. CASE RunInitUnrestored(d)
    BY <1>2 DEF RunInitUnrestored, TypeOK
  <1>3. CASE RunInitUnlinked(d)
    BY <1>3 DEF RunInitUnlinked, TypeOK
  <1>4. CASE Suspend(d)
    BY <1>4 DEF Suspend, TypeOK
  <1>5. CASE RunEvent(d) \/ RunClosed(d) \/ RunCleanup(d)
    <2>1. queue' = Next1(d) /\ open' = open /\ active' = active
      BY <1>5 DEF RunEvent, RunClosed, RunCleanup
    <2> QED
      BY <2>1 DEF Next1, TypeOK
  <1> QED
    BY <1>1, <1>2, <1>3, <1>4, <1>5 DEF Run

LEMMA SetupHead ==
    ASSUME TypeOK, NEW d \in Devices, queue[d] # <<>>, Head1(d).kind = "init"
    PROVE  Head1(d).conn \in Conns /\ Head1(d) = Setup(Head1(d).conn)
  <1>1. Head1(d) \in Operation
    BY HeadTail
  <1>2. Head1(d).conn \in Conns
    BY <1>1, OperationFields
  <1> QED
    BY <1>1, <1>2, SetupApart

LEMMA SuspendKeepsSetups ==
    ASSUME TypeOK, NEW d \in Devices, Suspend(d)
    PROVE  SameSetups(queue[d], queue'[d])
  <1>1. PICK y \in Operation : y.kind = "awaiting" /\ queue'[d] = <<y>> \o Tail(queue[d])
    <2>1. Head(queue[d]).conn \in Conns /\ Head(queue[d]).request \in AllRequests
      BY HeadTail, OperationFields DEF Suspend, Head1
    <2>2. /\ Awaiting(Head(queue[d]).conn, Head(queue[d]).request) \in Operation
          /\ Awaiting(Head(queue[d]).conn, Head(queue[d]).request).kind = "awaiting"
      BY <2>1 DEF Operation, Awaiting
    <2> QED
      BY <2>2 DEF Suspend, TypeOK
  <1>2. PICK s : s = queue[d]
    OBVIOUS
  <1>3. PICK new : new = queue'[d]
    OBVIOUS
  <1>4. s \in Seq(Operation) /\ s # <<>> /\ Head(s).kind = "event"
    BY <1>2 DEF Suspend, TypeOK, Head1
  <1>5. Len(new) = Len(s) /\ \A i \in 2..Len(s) : new[i] = s[i]
    BY <1>1, <1>2, <1>3, <1>4, ConsTailElements
  <1>6. Len(s) \in Nat \ {0} /\ s[1] = Head(s) /\ new[1] = y
    <2>1. Len(s) \in Nat \ {0} /\ s[1] = Head(s)
      BY <1>4
    <2>2. Tail(s) \in Seq(Operation)
      BY <1>4
    <2>3. (<<y>> \o Tail(s))[1] = y
      BY <1>1, <2>2
    <2> QED
      BY <1>1, <1>2, <1>3, <2>1, <2>3
  <1>7. \A c \in Conns : s[1] # Setup(c) /\ new[1] # Setup(c)
    BY <1>1, <1>4, <1>6 DEF Setup
  <1>8. \A c \in Conns, i \in 1..Len(s) : new[i] = Setup(c) <=> s[i] = Setup(c)
    <2> SUFFICES ASSUME NEW c \in Conns, NEW i \in 1..Len(s)
                 PROVE  new[i] = Setup(c) <=> s[i] = Setup(c)
      OBVIOUS
    <2>1. CASE i = 1
      BY <1>7, <2>1
    <2>2. CASE i \in 2..Len(s)
      BY <1>5, <2>2
    <2> QED
      BY <1>6, <2>1, <2>2
  <1> QED
    BY <1>2, <1>3, <1>5, <1>8 DEF SameSetups, SetupIn, OneSetup

LEMMA SocketRun ==
    ASSUME TypeOK, NEW d \in Devices, Run(d), NEW t \in Devices
    PROVE  SocketChange(t)
  <1>0. CASE t # d
    BY <1>0, SocketOthers, SocketsUntouched
  <1> SUFFICES ASSUME t = d PROVE SocketChange(d)
    BY <1>0
  <1>1. CASE RunInit(d)
    <2>1. queue[d] # <<>> /\ Head1(d).kind = "init"
      BY <1>1 DEF RunInit
    <2>2. PICK c \in Conns : c = Head1(d).conn /\ Head1(d) = Setup(c)
      BY <2>1, SetupHead
    <2>3. CASE c \notin open[d]
      <3>1. queue' = Next1(d) /\ open' = open /\ active' = active
        BY <1>1, <2>2, <2>3 DEF RunInit
      <3>2. SetupTaken(queue[d], queue'[d], c)
        BY <2>1, <2>2, <3>1, SetupPops
      <3> QED
        BY <2>3, <3>1, <3>2 DEF SocketChange, SocketSetUp
    <2>4. CASE c \in open[d]
      <3>1. /\ queue'[d] = Tail(queue[d]) \o ReplacedClosed(d, c)
            /\ active'[d] = c /\ open'[d] = open[d] \ Replaced(d, c)
        BY <1>1, <2>2, <2>4 DEF RunInit, TypeOK
      <3>2. SetupTaken(queue[d], queue'[d], c)
        BY <2>1, <2>2, <3>1, SetupReplaced
      <3> QED
        BY <2>4, <3>1, <3>2 DEF SocketChange, SocketSetUp
    <2> QED
      BY <2>3, <2>4
  <1>2. CASE RunInitUnrestored(d)
    <2>1. queue[d] # <<>> /\ Head1(d).kind = "init"
      BY <1>2 DEF RunInitUnrestored
    <2>2. PICK c \in Conns : c = Head1(d).conn /\ Head1(d) = Setup(c)
      BY <2>1, SetupHead
    <2>3. /\ queue'[d] = Append(Tail(queue[d]), Closed(c, FALSE))
          /\ active'[d] = active[d] /\ open'[d] = open[d] \ {c}
      BY <1>2, <2>2 DEF RunInitUnrestored, TypeOK
    <2>4. SetupTaken(queue[d], queue'[d], c)
      BY <2>1, <2>2, <2>3, SetupReplaced
    <2> QED
      BY <2>3, <2>4 DEF SocketChange, SocketSetUp
  <1>3. CASE RunInitUnlinked(d)
    <2>1. queue[d] # <<>> /\ Head1(d).kind = "init"
      BY <1>3 DEF RunInitUnlinked
    <2>2. PICK c \in Conns : c = Head1(d).conn /\ Head1(d) = Setup(c)
      BY <2>1, SetupHead
    <2>3. /\ queue'[d] = Tail(queue[d]) \o Append(ReplacedClosed(d, c), Closed(c, FALSE))
          /\ active'[d] = Nil /\ open'[d] = (open[d] \ {c}) \ Replaced(d, c)
      BY <1>3, <2>2 DEF RunInitUnlinked, TypeOK
    <2>4. SetupTaken(queue[d], queue'[d], c)
      BY <2>1, <2>2, <2>3, SetupReplaced
    <2> QED
      BY <2>3, <2>4 DEF SocketChange, SocketSetUp
  <1>4. CASE Suspend(d)
    BY <1>4, SuspendKeepsSetups DEF SocketChange, SocketsSame, Suspend
  <1>5. CASE RunEvent(d) \/ RunClosed(d) \/ RunCleanup(d)
    <2>1. /\ queue[d] # <<>> /\ queue' = Next1(d) /\ active' = active /\ open' = open
          /\ Head1(d).kind # "init"
      BY <1>5 DEF RunEvent, RunClosed, RunCleanup
    <2>2. SameSetups(queue[d], queue'[d])
      BY <2>1, SetupPops
    <2> QED
      BY <2>1, <2>2 DEF SocketChange, SocketsSame
  <1> QED
    BY <1>1, <1>2, <1>3, <1>4, <1>5 DEF Run

LEMMA SocketStep ==
    ASSUME TypeOK, [Next]_vars, NEW t \in Devices
    PROVE  SocketChange(t)
  <1>0. CASE queue' = queue /\ active' = active /\ open' = open
    BY <1>0, SocketsUntouched
  <1>1. ASSUME NEW d \in Devices, NEW c \in Conns, Drop(d, c) PROVE SocketChange(t)
    BY <1>1, SocketClosed DEF Drop
  <1>2. ASSUME NEW d \in Devices, TimerFires(d) PROVE SocketChange(t)
    <2>1. Cleanup \in Operation /\ Cleanup.kind # "init"
      BY DEF Operation, Cleanup
    <2> QED
      BY <1>2, <2>1, SocketAppended DEF TimerFires
  <1>3. ASSUME NEW d \in Devices, NEW c \in Conns, NEW r \in Requests, Submit(d, c, r)
        PROVE  SocketChange(t)
    <2>1. Event(c, r) \in Operation /\ Event(c, r).kind # "init"
      BY DEF Operation, Event, Requests
    <2> QED
      BY <1>3, <2>1, SocketAppended DEF Submit
  <1>4. ASSUME NEW d \in Devices, Administer(d) PROVE SocketChange(t)
    <2>1. CASE AdminDisconnect(d) \/ Ban(d)
      BY <2>1, SocketDisconnected DEF AdminDisconnect, Ban
    <2>2. CASE Unban(d) \/ AdminStopRealtime(d) \/ AdminDeleteData(d)
      BY <1>0, <2>2 DEF Unban, AdminStopRealtime, AdminDeleteData
    <2> QED
      BY <1>4, <2>1, <2>2 DEF Administer
  <1>5. CASE AdminCleanupOffline
    <2> DEFINE kicked == {d \in Temporary : InPool(d) /\ Online(d)}
    <2>1. CASE t \in kicked
      <3>1. active[t] \in Conns
        BY <2>1 DEF Online, TypeOK
      <3>2. /\ queue'[t] = Append(queue[t], Closed(active[t], TRUE)) /\ active'[t] = Nil
            /\ open'[t] = open[t] \ {active[t]} /\ queue[t] \in Seq(Operation)
        BY <1>5, <2>1 DEF AdminCleanupOffline, TypeOK
      <3>3. Closed(active[t], TRUE) \in Operation /\ Closed(active[t], TRUE).kind # "init"
        BY <3>1 DEF Operation, Closed
      <3>4. SameSetups(queue[t], queue'[t])
        BY <3>2, <3>3, SetupAppend
      <3> QED
        BY <3>1, <3>2, <3>4 DEF SocketChange, SocketGone
    <2>2. CASE t \notin kicked
      BY <1>5, <2>2, SocketsUntouched DEF AdminCleanupOffline
    <2> QED
      BY <2>1, <2>2
  <1>6. ASSUME NEW d \in Devices, Register(d) PROVE SocketChange(t)
    BY <1>0, <1>6 DEF Register
  <1>7. CASE Tick \/ Sweep \/ UNCHANGED vars
    BY <1>0, <1>7 DEF Tick, Sweep, vars
  <1>8. CASE Restart
    BY <1>8 DEF SocketChange, SocketsLost, Restart
  <1> QED
    BY <1>1, <1>2, <1>3, <1>4, <1>5, <1>6, <1>7, <1>8, SocketRun, SocketConnected DEF Next

LEMMA AttendedStep ==
    ASSUME TypeOK, AllAttended, [Next]_vars
    PROVE  AllAttended'
  <1> SUFFICES ASSUME NEW t \in Devices PROVE Attended(open'[t], active'[t], queue'[t])
    BY DEF AllAttended
  <1>0. /\ open[t] \in SUBSET Conns /\ active[t] \in Conns \cup {Nil}
        /\ Attended(open[t], active[t], queue[t])
    BY DEF TypeOK, AllAttended
  <1>1. CASE SocketsSame(t)
    BY <1>0, <1>1, AttendedSame DEF SocketsSame
  <1>2. ASSUME NEW c \in Conns, SocketGone(t, c)
        PROVE  Attended(open'[t], active'[t], queue'[t])
    <2>1. Attended(open[t] \ {c}, IF active[t] = c THEN Nil ELSE active[t], queue'[t])
      BY <1>0, <1>2, AttendedSame DEF SocketGone
    <2>2. CASE active[t] = c
      BY <1>2, <2>1, <2>2 DEF SocketGone
    <2>3. CASE active[t] # c
      BY <1>2, <2>1, <2>3 DEF SocketGone
    <2> QED
      BY <2>2, <2>3
  <1>3. ASSUME NEW c \in Conns, SocketNew(t, c)
        PROVE  Attended(open'[t], active'[t], queue'[t])
    BY <1>0, <1>3, AttendedAdded DEF SocketNew
  <1>4. ASSUME NEW c \in Conns, SocketSetUp(t, c)
        PROVE  Attended(open'[t], active'[t], queue'[t])
    <2>1. SetupTaken(queue[t], queue'[t], c)
      BY <1>4 DEF SocketSetUp
    <2>2. /\ c \notin open[t] => Attended(open[t], active[t], queue'[t])
          /\ c \in open[t] => Attended(open[t] \ Replaced(t, c), c, queue'[t])
          /\ Attended(open[t] \ {c}, active[t], queue'[t])
          /\ Attended((open[t] \ {c}) \ Replaced(t, c), Nil, queue'[t])
      BY <1>0, <2>1, AttendedTaken, Zenon DEF Replaced
    <2> QED
      BY <1>4, <2>2 DEF SocketSetUp
  <1>5. CASE SocketsLost(t)
    BY <1>5 DEF SocketsLost, Attended, SetupIn, OneSetup
  <1> QED
    BY <1>1, <1>2, <1>3, <1>4, <1>5, SocketStep DEF SocketChange

\* Replacing a connection, failing a set-up, kicking or banning a device and
\* restarting leave no socket that is connected and neither active nor waiting
\* for its set-up.
THEOREM NoZombieConnectionHolds == Spec => []NoZombieConnection
  <1>1. Init => AllAttended
    BY DEF Init, AllAttended, Attended, SetupIn, OneSetup
  <1>2. AllAttended => NoZombieConnection
    BY DEF AllAttended, Attended, NoZombieConnection, SetupIn, Pending
  <1> QED
    BY <1>1, <1>2, AttendedStep, TypeCorrect, PTL DEF Spec

=============================================================================
