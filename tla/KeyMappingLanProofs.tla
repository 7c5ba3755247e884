------------------------ MODULE KeyMappingLanProofs ------------------------
(***************************************************************************)
(* Theorems about KeyMappingLan, for every number of changes and moves.    *)
(***************************************************************************)
EXTENDS KeyMappingLan, SequenceTheorems, TLAPS

-----------------------------------------------------------------------------
(* The types of what travels                                               *)

ServerFrame ==
    [t : {"hello"}] \cup [t : {"subscribe"}, on : BOOLEAN, sub : Nat]
    \cup [t : {"propose"}, v : Versions] \cup [t : {"request"}, id : Nat]
ClientFrame ==
    [t : {"accepted", "rejected"}] \cup [t : {"policy"}, ok : BOOLEAN]
    \cup [t : {"snapshot"}, id : Nat, v : Versions]
    \cup [t : {"push"}, rev : Nat, sub : Nat, v : Versions]
Message ==
    [t : {"changed", "error"}] \cup [t : {"snapshot"}, v : Versions]
    \cup [t : {"push"}, rev : Nat, v : Versions]

Captain == [match : Versions, rev : Nat, allow : BOOLEAN, gen : Nat, posted : Seq(Versions)]
Socket == [conn : {"none", "accepted", "paired"}, hello : BOOLEAN, told : Nat, on : BOOLEAN,
           sub : Nat, last : Nat, pend : Nat]
Client == [match : Versions, rev : Nat, keys : 0..1, recv : BOOLEAN, send : BOOLEAN, sub : Nat,
           last : Nat, was : BOOLEAN, offer : Versions \cup {None}, base : Versions \cup {None},
           undo : Versions \cup {None}, applied : Versions \cup {None}, waits : BOOLEAN,
           req : Nat]
Thread == [at : {"off", "dial", "start", "run"}, on : BOOLEAN, sub : Nat, last : Nat, pend : Nat,
           done : Nat, asked : Nat]
Status == [running : BOOLEAN, connected : BOOLEAN, subscribed : BOOLEAN, policy : BOOLEAN]
Change == [by : {"captain", "client"}, ok : BOOLEAN]

HistoryTyped == edits \in Seq(Change) /\ own \in [credit : Int, since : BOOLEAN] /\ moves \in Nat
CaptainTyped == srv \in Captain /\ sock \in Socket /\ shown \in BOOLEAN /\ mask \in 0..1
WireTyped ==
    /\ link \in {"none", "dial", "up", "cut"}
    /\ toSrv \in Seq(ServerFrame) /\ toCli \in Seq(ClientFrame)
ClientTyped ==
    /\ cli \in Client /\ run \in Thread /\ stat \in Status /\ box \in Seq(Message)
    /\ (cli.offer = None <=> cli.base = None) /\ (cli.undo = None <=> cli.applied = None)
Typed == HistoryTyped /\ CaptainTyped /\ WireTyped /\ ClientTyped

-----------------------------------------------------------------------------
(* The inductive invariants                                                *)

\* What is displayed belongs to a client that was greeted or is being greeted.
ShownOK ==
    /\ sock.conn = "paired" => shown \/ sock.hello
    /\ sock.hello => sock.conn = "paired"
    /\ KeysOnlyWhileShown

\* The revisions the client's thread has not offered yet are changes of its own.
CreditOK ==
    /\ own.credit >= 0
    /\ run.at = "run" => /\ run.done <= run.pend /\ run.pend <= cli.rev
                         /\ own.credit >= cli.rev - run.done

\* A state with a revision: never newer than the captain's, the same if equal.
Told(r, v) == r <= srv.rev /\ (r = srv.rev => v = srv.match)
ToldOK ==
    /\ srv.rev >= 1 /\ sock.pend <= srv.rev
    /\ cli.last <= srv.rev
    /\ ~own.since => Told(cli.last, cli.match)
    /\ \A i \in 1..Len(toCli) : toCli[i].t = "push" => Told(toCli[i].rev, toCli[i].v)
    /\ \A i \in 1..Len(box) : box[i].t = "push" => Told(box[i].rev, box[i].v)

\* Subscriptions are numbered upwards on their way to the captain, and what the
\* captain will know once it has read all is what the client's thread sent last.
NumbersOK ==
    /\ cli.sub = 0 => ~cli.recv
    /\ run.at # "run" => run.sub = 0 /\ ~run.on
    /\ stat.connected <=> run.at \in {"start", "run"}
    /\ run.sub <= cli.sub
    /\ run.sub = cli.sub => run.on = cli.recv
    /\ run.sub = cli.sub /\ cli.recv => stat.subscribed
LinkOK == link \in {"none", "dial"} => run.at \in {"off", "dial"} /\ toCli = <<>>
LearnsFrom(s, known, knownOn, sent, sentOn) ==
    /\ known <= sent
    /\ \A i \in 1..Len(s) : s[i].t = "subscribe" => s[i].sub <= sent
    /\ (\A i \in 1..Len(s) : s[i].t # "subscribe") => known = sent /\ knownOn = sentOn
    /\ \A i \in 1..Len(s) :
          s[i].t = "subscribe" /\ (\A j \in 1..Len(s) : j > i => s[j].t # "subscribe") =>
              s[i].sub = sent /\ s[i].on = sentOn
HeardOK == link = "up" => LearnsFrom(toSrv, sock.sub, sock.on, run.sub, run.on)

\* What the captain pushed last to the present subscription is on its way or
\* was heard; what was heard is on its way to the window or was taken over, and
\* the window has no loss of connection to notice that would make it forget.
Carries(s, n, r) == \E i \in 1..Len(s) : s[i].t = "push" /\ s[i].sub = n /\ s[i].rev = r
PushOnWire == Carries(toCli, cli.sub, sock.last)
PushedOK ==
    link = "up" /\ sock.sub = cli.sub /\ cli.recv /\ sock.last > 0 =>
        run.last >= sock.last \/ PushOnWire
Notice(b) == \E j \in 1..Len(b) : b[j].t = "changed"
Comes(b, was, r) ==
    \E i \in 1..Len(b) :
        /\ b[i].t = "push" /\ b[i].rev = r
        /\ was \/ \E j \in 1..Len(b) : j < i /\ b[j].t = "changed"
\* The captain's state of that revision was refused, or has changed since.
Refused(r) == r <= srv.rev /\ (r = srv.rev => srv.match \in Invalid)
NoticeOK == run.at \in {"start", "run"} => cli.was \/ Notice(box)
TakenOK ==
    run.at = "run" /\ run.sub = cli.sub /\ cli.recv /\ run.last > 0 =>
        Comes(box, cli.was, run.last) \/ (cli.was /\ cli.last >= run.last) \/ Refused(run.last)

ConvergeInvariant == ToldOK /\ NumbersOK /\ LinkOK /\ HeardOK /\ PushedOK
                     /\ NoticeOK /\ TakenOK

-----------------------------------------------------------------------------
(* Sequences                                                               *)

LEMMA AppendIs ==
    ASSUME NEW S, NEW s \in Seq(S), NEW x \in S
    PROVE  /\ Append(s, x) \in Seq(S)
           /\ Len(Append(s, x)) = Len(s) + 1 /\ Len(s) \in Nat
           /\ \A i \in 1..Len(s) : Append(s, x)[i] = s[i]
           /\ Append(s, x)[Len(s) + 1] = x
  OBVIOUS

LEMMA TailIs ==
    ASSUME NEW S, NEW s \in Seq(S), s # <<>>
    PROVE  /\ Head(s) \in S /\ Tail(s) \in Seq(S) /\ Head(s) = s[1]
           /\ Len(Tail(s)) = Len(s) - 1 /\ Len(s) \in Nat \ {0}
           /\ \A i \in 1..(Len(s) - 1) : Tail(s)[i] = s[i + 1]
  OBVIOUS

LEMMA SingletonIs ==
    ASSUME NEW S, NEW x \in S
    PROVE  <<x>> \in Seq(S) /\ Len(<<x>>) = 1 /\ <<x>>[1] = x
  OBVIOUS

LEMMA EmptyIs == \A S : <<>> \in Seq(S)
  OBVIOUS

LEMMA PostedIs ==
    ASSUME NEW b \in Seq(Message), NEW m \in Message
    PROVE  /\ Posted(b, m) \in Seq(Message)
           /\ Posted(b, m) = Append(b, m) \/
                (Posted(b, m) = b /\ m.t = "changed" /\ b # <<>> /\ b[Len(b)] = m)
  BY AppendIs DEF Posted

LEMMA Messages ==
    /\ Changed \in Message /\ Failed \in Message
    /\ Changed.t = "changed" /\ Failed.t = "error"
    /\ \A v \in Versions : [t |-> "snapshot", v |-> v] \in Message
    /\ \A v \in Versions, r \in Nat : [t |-> "push", rev |-> r, v |-> v] \in Message
  BY DEF Message, Changed, Failed

LEMMA MessageFields ==
    ASSUME NEW m \in Message
    PROVE  /\ m.t \in {"changed", "error", "snapshot", "push"}
           /\ m.t \in {"snapshot", "push"} => m.v \in Versions
           /\ m.t = "push" => m.rev \in Nat
  BY DEF Message

LEMMA ServerFrames ==
    /\ [t |-> "hello"] \in ServerFrame
    /\ \A o \in BOOLEAN, n \in Nat : [t |-> "subscribe", on |-> o, sub |-> n] \in ServerFrame
    /\ \A v \in Versions : [t |-> "propose", v |-> v] \in ServerFrame
    /\ \A n \in Nat : [t |-> "request", id |-> n] \in ServerFrame
  BY DEF ServerFrame

LEMMA ServerFrameFields ==
    ASSUME NEW f \in ServerFrame
    PROVE  /\ f.t = "subscribe" => f.on \in BOOLEAN /\ f.sub \in Nat
           /\ f.t = "propose" => f.v \in Versions
           /\ f.t = "request" => f.id \in Nat
  BY DEF ServerFrame

LEMMA ClientFrames ==
    /\ [t |-> "accepted"] \in ClientFrame /\ [t |-> "rejected"] \in ClientFrame
    /\ \A o \in BOOLEAN : [t |-> "policy", ok |-> o] \in ClientFrame
    /\ \A n \in Nat, v \in Versions : [t |-> "snapshot", id |-> n, v |-> v] \in ClientFrame
    /\ \A r \in Nat, n \in Nat, v \in Versions :
          [t |-> "push", rev |-> r, sub |-> n, v |-> v] \in ClientFrame
  BY DEF ClientFrame

LEMMA ClientFrameFields ==
    ASSUME NEW f \in ClientFrame
    PROVE  /\ f.t = "policy" => f.ok \in BOOLEAN
           /\ f.t = "snapshot" => f.id \in Nat /\ f.v \in Versions
           /\ f.t = "push" => f.rev \in Nat /\ f.sub \in Nat /\ f.v \in Versions
  BY DEF ClientFrame

LEMMA ToClientOne ==
    ASSUME toCli \in Seq(ClientFrame), NEW f \in ClientFrame, ToClient(<<f>>)
    PROVE  toCli' = IF link = "up" THEN Append(toCli, f) ELSE toCli
  <1>1. toCli \o <<f>> = Append(toCli, f)
    OBVIOUS
  <1> QED
    BY <1>1 DEF ToClient

LEMMA ToClientTwo ==
    ASSUME toCli \in Seq(ClientFrame), NEW f \in ClientFrame, NEW g \in ClientFrame,
           ToClient(<<f, g>>)
    PROVE  toCli' = IF link = "up" THEN Append(Append(toCli, f), g) ELSE toCli
  <1>1. toCli \o <<f, g>> = Append(Append(toCli, f), g)
    OBVIOUS
  <1> QED
    BY <1>1 DEF ToClient

-----------------------------------------------------------------------------
(* Type correctness                                                        *)

LEMMA TypeInit == Init => Typed
  <1> SUFFICES ASSUME Init PROVE Typed
    OBVIOUS
  <1>1. HistoryTyped
    BY EmptyIs DEF Init, HistoryTyped
  <1>2. 0 \in Versions /\ None \in Versions \cup {None}
    BY BoundsAssumption DEF Versions
  <1>3. CaptainTyped
    <2>1. <<>> \in Seq(Versions)
      BY EmptyIs
    <2>2. srv \in Captain
      BY <1>2, <2>1 DEF Init, Captain
    <2>3. sock \in Socket
      BY DEF Init, Socket, NoClient
    <2> QED
      <3>1. shown = FALSE /\ mask = 0
        BY DEF Init
      <3>2. mask \in 0..1
        BY <3>1
      <3> QED
        BY <2>2, <2>3, <3>1, <3>2 DEF CaptainTyped
  <1>4. WireTyped
    BY EmptyIs DEF Init, WireTyped
  <1>5. ClientTyped
    BY EmptyIs, <1>2 DEF Init, ClientTyped, Client, Thread, Status, Idle
  <1> QED
    BY <1>1, <1>3, <1>4, <1>5 DEF Typed

LEMMA EditTyped ==
    ASSUME Typed, NEW by \in {"captain", "client"}, NEW ok \in BOOLEAN, Edit(by, ok)
    PROVE  edits' \in Seq(Change) /\ Len(edits') \in Versions /\ Len(edits') = Len(edits) + 1
  <1>1. edits \in Seq(Change) /\ [by |-> by, ok |-> ok] \in Change
    BY DEF Typed, HistoryTyped, Change
  <1> QED
    BY <1>1, AppendIs, BoundsAssumption DEF Edit, Versions

LEMMA CaptainWindowTyped ==
    ASSUME Typed, CaptainWindow
    PROVE  Typed'
  <1>1. CASE SrvEdit
    <2>1. HistoryTyped' /\ Len(edits') \in Versions
      BY <1>1, EditTyped DEF SrvEdit, Typed, HistoryTyped
    <2>2. srv \in Captain
      BY DEF Typed, CaptainTyped
    <2>3. srv' \in Captain
      <3>1. PICK n \in Versions : n = Len(edits')
        BY <2>1
      <3>2. PICK r \in Nat : r = srv.rev + 1
        BY <2>2 DEF Captain
      <3>3. srv' = [srv EXCEPT !.match = n, !.rev = r]
        BY <1>1, <3>1, <3>2 DEF SrvEdit
      <3> QED
        BY <2>2, <3>3 DEF Captain
    <2> QED
      BY <1>1, <2>1, <2>3 DEF SrvEdit, Typed, CaptainTyped, WireTyped, ClientTyped,
                              wireVars, clientVars
  <1>2. CASE SrvAllow
    <2>1. srv \in Captain /\ moves \in Nat
      BY DEF Typed, CaptainTyped, HistoryTyped
    <2>2. srv' \in Captain
      <3>1. PICK b \in BOOLEAN : b = ~srv.allow
        OBVIOUS
      <3>2. PICK g \in Nat : g = srv.gen + 1
        BY <2>1 DEF Captain
      <3>3. srv' = [srv EXCEPT !.allow = b, !.gen = g]
        BY <1>2, <3>1, <3>2 DEF SrvAllow
      <3> QED
        BY <2>1, <3>3 DEF Captain
    <2>3. moves' \in Nat
      BY <1>2, <2>1 DEF SrvAllow, Move
    <2> QED
      BY <1>2, <2>2, <2>3 DEF SrvAllow, Typed, HistoryTyped, CaptainTyped, WireTyped, ClientTyped,
                              wireVars, clientVars
  <1>3. CASE SrvPropose
    <2>1. srv \in Captain /\ srv.posted \in Seq(Versions) /\ srv.posted # <<>>
      BY <1>3 DEF SrvPropose, Typed, CaptainTyped, Captain
    <2>2. Head(srv.posted) \in Versions /\ Tail(srv.posted) \in Seq(Versions)
      BY <2>1, TailIs
    <2>3. srv' \in Captain
      <3>1. PICK p \in Versions, rest \in Seq(Versions) :
               p = Head(srv.posted) /\ rest = Tail(srv.posted)
        BY <2>2
      <3>2. PICK m \in Versions : m = IF MayApply(p) THEN p ELSE srv.match
        BY <2>1, <3>1 DEF Captain
      <3>3. PICK r \in Nat : r = IF MayApply(p) /\ p # srv.match THEN srv.rev + 1 ELSE srv.rev
        BY <2>1 DEF Captain
      <3>4. srv' = [srv EXCEPT !.posted = rest, !.match = m, !.rev = r]
        BY <1>3, <3>1, <3>2, <3>3 DEF SrvPropose
      <3> QED
        BY <2>1, <3>4 DEF Captain
    <2> QED
      BY <1>3, <2>3 DEF SrvPropose, Typed, HistoryTyped, CaptainTyped, WireTyped, ClientTyped,
                        wireVars, clientVars, historyVars
  <1> QED
    BY <1>1, <1>2, <1>3 DEF CaptainWindow

LEMMA ReceiveTyped ==
    ASSUME Typed, SrvReceive
    PROVE  Typed'
  <1>1. toSrv \in Seq(ServerFrame) /\ toSrv # <<>>
    BY DEF Typed, WireTyped, SrvReceive
  <1>2. toSrv' \in Seq(ServerFrame)
    BY <1>1, TailIs DEF SrvReceive
  <1>3. PICK f \in ServerFrame : f = Head(toSrv)
    BY <1>1, TailIs
  <1>4. HistoryTyped' /\ ClientTyped' /\ link' = link
    BY DEF SrvReceive, Typed, HistoryTyped, ClientTyped, historyVars, clientVars
  <1>5. toCli \in Seq(ClientFrame) /\ srv \in Captain /\ sock \in Socket
    BY DEF Typed, WireTyped, CaptainTyped
  <1>6. SUFFICES CaptainTyped' /\ toCli' \in Seq(ClientFrame)
    BY <1>2, <1>4 DEF Typed, WireTyped
  <1>7. CASE SrvHello(f)
    <2>1. /\ [t |-> "accepted"] \in ClientFrame
          /\ [t |-> "policy", ok |-> srv.allow] \in ClientFrame
      BY <1>5, ClientFrames DEF Captain
    <2>2. toCli' \in Seq(ClientFrame)
      <3>1. PICK g \in ClientFrame, h \in ClientFrame :
               g = [t |-> "accepted"] /\ h = [t |-> "policy", ok |-> srv.allow]
        BY <2>1
      <3>2. toCli' = IF link = "up" THEN Append(Append(toCli, g), h) ELSE toCli
        BY <1>5, <1>7, <3>1, ToClientTwo DEF SrvHello
      <3> QED
        BY <1>5, <3>2, AppendIs
    <2> QED
      BY <1>7, <2>2 DEF SrvHello, Typed, CaptainTyped, Socket
  <1>8. CASE SrvRequest(f)
    <2>1. [t |-> "snapshot", id |-> f.id, v |-> srv.match] \in ClientFrame
      BY <1>5, <1>8, ClientFrames, ServerFrameFields DEF SrvRequest, Captain
    <2>2. toCli' \in Seq(ClientFrame)
      BY <1>5, <1>8, <2>1, ToClientOne, AppendIs DEF SrvRequest
    <2> QED
      BY <1>8, <2>2 DEF SrvRequest, Typed, CaptainTyped
  <1>9. CASE SrvSubscribe(f)
    <2>1. f.on \in BOOLEAN /\ f.sub \in Nat /\ srv.rev \in Nat
      BY <1>5, <1>9, ServerFrameFields DEF SrvSubscribe, Captain
    <2> QED
      BY <1>5, <1>9, <2>1 DEF SrvSubscribe, Typed, CaptainTyped, Socket
  <1>10. CASE SrvProposal(f)
    <2>1. f.v \in Versions /\ srv.posted \in Seq(Versions)
      BY <1>5, <1>10, ServerFrameFields DEF SrvProposal, Captain
    <2>2. Append(srv.posted, f.v) \in Seq(Versions)
      BY <2>1, AppendIs
    <2>3. srv' \in Captain
      BY <1>5, <1>10, <2>2 DEF SrvProposal, Captain
    <2> QED
      BY <1>5, <1>10, <2>3 DEF SrvProposal, Typed, CaptainTyped
  <1> QED
    BY <1>3, <1>7, <1>8, <1>9, <1>10 DEF SrvReceive

LEMMA CaptainThreadTyped ==
    ASSUME Typed, CaptainThread
    PROVE  Typed'
  <1>0. /\ toCli \in Seq(ClientFrame) /\ srv \in Captain /\ sock \in Socket
        /\ srv.rev \in Nat /\ srv.gen \in Nat /\ srv.match \in Versions /\ srv.allow \in BOOLEAN
        /\ sock.pend \in Nat /\ sock.sub \in Nat /\ cli.keys \in 0..1
    BY DEF Typed, WireTyped, CaptainTyped, Captain, Socket, ClientTyped, Client
  <1>1. CASE SrvAccept
    <2>1. <<[t |-> "hello"]>> \in Seq(ServerFrame) /\ <<[t |-> "rejected"]>> \in Seq(ClientFrame)
      BY ServerFrames, ClientFrames, SingletonIs
    <2>2. WireTyped'
      BY <1>1, <2>1, EmptyIs DEF SrvAccept, Typed, WireTyped
    <2>3. CaptainTyped'
      <3>1. sock' \in Socket
        <4>1. sock' \in {sock, [NoClient EXCEPT !.conn = "accepted", !.pend = sock.pend,
                                              !.told = sock.told]}
          BY <1>1 DEF SrvAccept
        <4>2. NoClient \in Socket /\ sock.pend \in Nat /\ sock.told \in Nat
          BY <1>0 DEF NoClient, Socket
        <4> QED
          BY <1>0, <4>1, <4>2 DEF Socket
      <3> QED
        BY <1>1, <3>1 DEF SrvAccept, Typed, CaptainTyped
    <2> QED
      BY <1>1, <2>2, <2>3 DEF SrvAccept, Typed, HistoryTyped, ClientTyped, historyVars, clientVars
  <1>2. CASE SrvGreeted
    BY <1>2 DEF SrvGreeted, Typed, HistoryTyped, CaptainTyped, WireTyped, ClientTyped, Socket,
                Captain, wireVars, clientVars, historyVars
  <1>3. CASE SrvState
    BY <1>0, <1>3 DEF SrvState, Typed, HistoryTyped, CaptainTyped, WireTyped, ClientTyped,
                wireVars, clientVars, historyVars
  <1>4. CASE SrvPolicy
    <2>1. toCli' \in Seq(ClientFrame)
      <3>1. PICK f \in ClientFrame : f = [t |-> "policy", ok |-> srv.allow]
        BY <1>0, ClientFrames
      <3>2. toCli' = IF link = "up" THEN Append(toCli, f) ELSE toCli
        BY <1>0, <1>4, <3>1, ToClientOne DEF SrvPolicy
      <3> QED
        BY <1>0, <3>2, AppendIs
    <2> QED
      BY <1>4, <1>0, <2>1 DEF SrvPolicy, Typed, HistoryTyped, CaptainTyped, WireTyped,
                ClientTyped, Socket, clientVars, historyVars
  <1>5. CASE SrvObserve
    BY <1>0, <1>5 DEF SrvObserve, Typed, HistoryTyped, CaptainTyped, WireTyped, ClientTyped,
                Socket, wireVars, clientVars, historyVars
  <1>6. CASE SrvPush
    <2>1. toCli' \in Seq(ClientFrame)
      <3>1. PICK f \in ClientFrame :
               f = [t |-> "push", rev |-> sock.pend, sub |-> sock.sub, v |-> srv.match]
        BY <1>0, ClientFrames
      <3>2. toCli' = IF link = "up" THEN Append(toCli, f) ELSE toCli
        BY <1>0, <1>6, <3>1, ToClientOne DEF SrvPush
      <3> QED
        BY <1>0, <3>2, AppendIs
    <2> QED
      BY <1>6, <1>0, <2>1 DEF SrvPush, Typed, HistoryTyped, CaptainTyped, WireTyped,
                ClientTyped, Socket, clientVars, historyVars
  <1>7. CASE SrvLose
    <2>1. moves' \in Nat
      BY <1>7 DEF SrvLose, Move, Typed, HistoryTyped
    <2>2. WireTyped'
      BY <1>7, EmptyIs DEF SrvLose, SrvForget, HangUp, Typed, WireTyped
    <2>3. CaptainTyped'
      <3>1. sock' \in Socket
        BY <1>0, <1>7 DEF SrvLose, SrvForget, Closed, Socket
      <3> QED
        <4>1. srv' = srv /\ shown' = FALSE /\ mask' = 0
          BY <1>7 DEF SrvLose, SrvForget
        <4>2. srv \in Captain /\ mask' \in 0..1
          BY <1>0, <4>1
        <4> QED
          BY <3>1, <4>1, <4>2 DEF CaptainTyped
    <2> QED
      BY <1>7, <2>1, <2>2, <2>3 DEF SrvLose, Typed, HistoryTyped, ClientTyped, clientVars
  <1>8. CASE SrvSendFails
    BY <1>8, EmptyIs DEF SrvSendFails, Typed, HistoryTyped, CaptainTyped, WireTyped, ClientTyped,
                Socket, clientVars, historyVars
  <1> QED
    BY <1>1, <1>2, <1>3, <1>4, <1>5, <1>6, <1>7, <1>8, ReceiveTyped DEF CaptainThread

\* Records of the window that a handler changes, and what it leaves alone.
ClientOK(c) ==
    /\ c \in Client
    /\ (c.offer = None <=> c.base = None) /\ (c.undo = None <=> c.applied = None)
SameBut(c, d) ==
    d.recv = c.recv /\ d.sub = c.sub /\ d.was = c.was /\ d.send = c.send /\ d.waits = c.waits
    /\ d.req = c.req
SameState(c, d) == d.match = c.match /\ d.rev = c.rev /\ d.last = c.last

LEMMA NothingOfferedOK ==
    ASSUME NEW c, ClientOK(c)
    PROVE  /\ ClientOK(NothingOffered(c)) /\ SameBut(c, NothingOffered(c))
           /\ SameState(c, NothingOffered(c))
  BY DEF ClientOK, Client, NothingOffered, SameBut, SameState

LEMMA ClearedOK ==
    ASSUME NEW c, ClientOK(c)
    PROVE  ClientOK(Cleared(c)) /\ SameBut(c, Cleared(c)) /\ SameState(c, Cleared(c))
  <1>1. PICK d : d = NothingOffered(c)
    OBVIOUS
  <1>2. ClientOK(d) /\ SameBut(c, d) /\ SameState(c, d)
    BY <1>1, NothingOfferedOK
  <1>3. PICK e : e = [d EXCEPT !.undo = None, !.applied = None]
    OBVIOUS
  <1>4. ClientOK(e) /\ SameBut(d, e) /\ SameState(d, e)
    BY <1>2, <1>3 DEF ClientOK, Client, SameBut, SameState
  <1>5. Cleared(c) = e
    BY <1>1, <1>3 DEF Cleared
  <1> QED
    BY <1>2, <1>4, <1>5 DEF SameBut, SameState

LEMMA TakenIs ==
    ASSUME NEW c, ClientOK(c), NEW v \in Versions
    PROVE  /\ ClientOK(Taken(c, v)) /\ SameBut(c, Taken(c, v))
           /\ Taken(c, v).last = c.last /\ Taken(c, v).match = v
           /\ Taken(c, v).rev \in {c.rev, c.rev + 1}
           /\ Taken(c, v).offer = c.offer /\ Taken(c, v).base = c.base
  <1>1. PICK r \in Nat : r = IF v # c.match THEN c.rev + 1 ELSE c.rev
    BY DEF ClientOK, Client
  <1>2. Taken(c, v) = [c EXCEPT !.match = v, !.rev = r]
    BY <1>1 DEF Taken
  <1> QED
    BY <1>1, <1>2 DEF ClientOK, Client, SameBut

LEMMA PushedIs ==
    ASSUME NEW m, m.v \in Versions, m.rev \in Nat, ClientOK(cli)
    PROVE  /\ ClientOK(Pushed(m)) /\ SameBut(cli, Pushed(m))
           /\ Pushed(m).match = m.v /\ Pushed(m).last = m.rev /\ Pushed(m).rev = cli.rev
  <1>1. PICK v \in Versions, r \in Nat : v = m.v /\ r = m.rev
    OBVIOUS
  <1>2. PICK d : d = [cli EXCEPT !.match = v, !.last = r]
    OBVIOUS
  <1>3. ClientOK(d) /\ SameBut(cli, d) /\ d.match = v /\ d.last = r /\ d.rev = cli.rev
    BY <1>2 DEF ClientOK, Client, SameBut
  <1>4. Pushed(m) = Cleared(d)
    BY <1>1, <1>2 DEF Pushed
  <1> QED
    BY <1>1, <1>3, <1>4, ClearedOK DEF SameBut, SameState

LEMMA SubscribedIs ==
    ASSUME NEW c, ClientOK(c), NEW on \in BOOLEAN, cli.recv \in BOOLEAN
    PROVE  /\ ClientOK(Subscribed(c, on)) /\ SameState(c, Subscribed(c, on))
           /\ Subscribed(c, on).was = c.was /\ Subscribed(c, on).recv = on
           /\ cli.recv # on => Subscribed(c, on).sub = c.sub + 1
           /\ cli.recv = on => Subscribed(c, on).sub = c.sub
  <1>1. PICK n \in Nat : n = IF cli.recv # on THEN c.sub + 1 ELSE c.sub
    BY DEF ClientOK, Client
  <1>2. Subscribed(c, on) = [c EXCEPT !.recv = on, !.sub = n]
    BY <1>1 DEF Subscribed
  <1> QED
    BY <1>1, <1>2 DEF ClientOK, Client, SameState

LEMMA ClientHere ==
    ASSUME Typed
    PROVE  /\ ClientOK(cli) /\ cli \in Client /\ cli.recv \in BOOLEAN /\ cli.send \in BOOLEAN
           /\ cli.match \in Versions /\ cli.rev \in Nat /\ cli.sub \in Nat /\ cli.last \in Nat
           /\ cli.was \in BOOLEAN /\ cli.waits \in BOOLEAN /\ cli.req \in Nat
           /\ cli.keys \in 0..1 /\ cli.offer \in Versions \cup {None}
           /\ cli.undo \in Versions \cup {None}
           /\ run \in Thread /\ run.at \in {"off", "dial", "start", "run"} /\ run.on \in BOOLEAN
           /\ run.sub \in Nat /\ run.last \in Nat /\ run.pend \in Nat /\ run.done \in Nat
           /\ run.asked \in Nat
           /\ stat \in Status /\ stat.connected \in BOOLEAN /\ stat.running \in BOOLEAN
           /\ stat.policy \in BOOLEAN /\ stat.subscribed \in BOOLEAN
           /\ box \in Seq(Message)
           /\ own \in [credit : Int, since : BOOLEAN] /\ own.credit \in Int
           /\ own.since \in BOOLEAN /\ moves \in Nat
  <1>1. cli \in Client /\ ClientOK(cli)
    BY DEF Typed, ClientTyped, ClientOK
  <1>2. run \in Thread /\ stat \in Status /\ box \in Seq(Message)
    BY DEF Typed, ClientTyped
  <1>3. own \in [credit : Int, since : BOOLEAN] /\ moves \in Nat
    BY DEF Typed, HistoryTyped
  <1>4. /\ cli.recv \in BOOLEAN /\ cli.send \in BOOLEAN
        /\ cli.match \in Versions /\ cli.rev \in Nat /\ cli.sub \in Nat /\ cli.last \in Nat
        /\ cli.was \in BOOLEAN /\ cli.waits \in BOOLEAN /\ cli.req \in Nat
        /\ cli.keys \in 0..1 /\ cli.offer \in Versions \cup {None}
        /\ cli.undo \in Versions \cup {None}
    BY <1>1 DEF Client
  <1>5. /\ run.at \in {"off", "dial", "start", "run"} /\ run.on \in BOOLEAN
        /\ run.sub \in Nat /\ run.last \in Nat /\ run.pend \in Nat /\ run.done \in Nat
        /\ run.asked \in Nat
    BY <1>2 DEF Thread
  <1>6. /\ stat.connected \in BOOLEAN /\ stat.running \in BOOLEAN
        /\ stat.policy \in BOOLEAN /\ stat.subscribed \in BOOLEAN
    BY <1>2 DEF Status
  <1>7. own.credit \in Int /\ own.since \in BOOLEAN
    BY <1>3
  <1> QED
    BY <1>1, <1>2, <1>3, <1>4, <1>5, <1>6, <1>7

LEMMA OwnChangeIs ==
    ASSUME Typed, OwnChange
    PROVE  /\ own' \in [credit : Int, since : BOOLEAN]
           /\ own'.credit = own.credit + 1 /\ own'.since = TRUE
  <1>1. PICK n \in Int : n = own.credit + 1
    BY ClientHere
  <1>2. own' = [credit |-> n, since |-> TRUE]
    BY <1>1 DEF OwnChange
  <1> QED
    BY <1>1, <1>2

LEMMA ShowSubscribedIs ==
    ASSUME Typed, NEW on \in BOOLEAN, ShowSubscribed(on)
    PROVE  /\ stat' \in Status /\ stat'.running = stat.running
           /\ stat'.connected = stat.connected /\ stat'.policy = stat.policy
           /\ stat'.subscribed = (on /\ stat.connected)
  <1>1. PICK b \in BOOLEAN : b = (on /\ stat.connected)
    OBVIOUS
  <1>2. stat' = [stat EXCEPT !.subscribed = b]
    BY <1>1, Zenon DEF ShowSubscribed
  <1>3. stat \in Status
    BY ClientHere
  <1>4. /\ stat' \in Status /\ stat'.running = stat.running
        /\ stat'.connected = stat.connected /\ stat'.policy = stat.policy
        /\ stat'.subscribed = b
    BY <1>2, <1>3 DEF Status
  <1> QED
    BY <1>1, <1>4, Zenon

\* The parts of the type invariant from what a client's action gives.
LEMMA ClientTypedBy ==
    ASSUME Typed, ClientOK(cli'), run' \in Thread, stat' \in Status, box' \in Seq(Message)
    PROVE  ClientTyped'
  BY DEF ClientTyped, ClientOK

LEMMA CaptainTypedBy ==
    ASSUME Typed, UNCHANGED captainVars
    PROVE  CaptainTyped'
  BY DEF Typed, CaptainTyped, captainVars

LEMMA HistoryTypedBy ==
    ASSUME Typed, edits' = edits, own' \in [credit : Int, since : BOOLEAN], Move \/ moves' = moves
    PROVE  HistoryTyped'
  <1>1. moves' \in Nat
    BY ClientHere DEF Move
  <1> QED
    BY <1>1 DEF Typed, HistoryTyped

LEMMA WireTypedBy ==
    ASSUME Typed, UNCHANGED wireVars
    PROVE  WireTyped'
  BY DEF Typed, WireTyped, wireVars

LEMMA PostedTyped ==
    ASSUME Typed
    PROVE  Posted(box, Changed) \in Seq(Message) /\ Posted(box, Failed) \in Seq(Message)
  BY ClientHere, PostedIs, Messages

\* The switches of the window.
LEMMA CliReceiveIs ==
    ASSUME Typed, CliReceive
    PROVE  /\ ClientOK(cli') /\ stat' \in Status /\ cli'.match = cli.match /\ cli'.rev = cli.rev
           /\ cli'.last = 0 /\ cli'.was = cli.was /\ cli'.sub = cli.sub + 1
           /\ cli'.recv = ~cli.recv /\ stat'.connected = stat.connected
           /\ run' = run /\ stat'.policy = stat.policy
  <1>0. PICK on \in BOOLEAN : on = ~cli.recv
    OBVIOUS
  <1>1. PICK b \in BOOLEAN : b = (cli.send /\ on)
    OBVIOUS
  <1>2. PICK c : c = [cli EXCEPT !.send = b, !.last = 0]
    OBVIOUS
  <1>3. ClientOK(c) /\ c.match = cli.match /\ c.rev = cli.rev /\ c.was = cli.was
        /\ c.sub = cli.sub /\ c.last = 0
    BY <1>2, ClientHere DEF ClientOK, Client
  <1>4. PICK d : d = Cleared(c)
    OBVIOUS
  <1>5. ClientOK(d) /\ SameBut(c, d) /\ SameState(c, d)
    BY <1>3, <1>4, ClearedOK
  <1>6. c = [cli EXCEPT !.send = @ /\ on, !.last = 0]
    BY <1>1, <1>2, Zenon
  <1>7. cli' = Subscribed(d, on) /\ ShowSubscribed(on)
    BY <1>0, <1>4, <1>6, Zenon DEF CliReceive
  <1>8. cli.recv # on
    BY <1>0, ClientHere
  <1>9. ClientOK(cli') /\ SameState(d, cli') /\ cli'.was = d.was /\ cli'.recv = on
        /\ cli'.sub = d.sub + 1
    BY <1>5, <1>7, <1>8, ClientHere, SubscribedIs
  <1>10. stat' \in Status /\ stat'.connected = stat.connected /\ stat'.policy = stat.policy
    BY <1>7, ShowSubscribedIs
  <1>11. run' = run
    BY DEF CliReceive
  <1> QED
    BY <1>0, <1>3, <1>5, <1>9, <1>10, <1>11 DEF SameBut, SameState

LEMMA CliSendIs ==
    ASSUME Typed, CliSend
    PROVE  /\ ClientOK(cli') /\ stat' \in Status /\ cli'.match = cli.match /\ cli'.rev = cli.rev
           /\ cli'.was = cli.was /\ run' = run /\ stat'.connected = stat.connected
           /\ stat'.policy = stat.policy
           /\ \/ cli'.last = 0 /\ cli'.sub = cli.sub + 1 /\ cli'.recv = TRUE
              \/ /\ cli'.last = cli.last /\ cli'.sub = cli.sub /\ cli'.recv = cli.recv
                 /\ stat' = stat
  <1>1. PICK on \in BOOLEAN : on = ~cli.send
    OBVIOUS
  <1>2. PICK c : c = [cli EXCEPT !.send = on]
    OBVIOUS
  <1>3. ClientOK(c) /\ SameState(cli, c) /\ c.was = cli.was /\ c.sub = cli.sub
        /\ c.recv = cli.recv
    BY <1>2, ClientHere DEF ClientOK, Client, SameState
  <1>0. run' = run
    BY DEF CliSend
  <1>4. CASE on /\ ~cli.recv
    <2>1. PICK d : d = [c EXCEPT !.last = 0]
      OBVIOUS
    <2>2. ClientOK(d) /\ d.match = cli.match /\ d.rev = cli.rev /\ d.was = cli.was
          /\ d.sub = cli.sub /\ d.last = 0
      BY <1>3, <2>1 DEF ClientOK, Client, SameState
    <2>3. cli' = Subscribed(d, TRUE) /\ ShowSubscribed(TRUE)
      BY <1>1, <1>2, <1>4, <2>1, Zenon DEF CliSend
    <2>4. ClientOK(cli') /\ SameState(d, cli') /\ cli'.was = d.was /\ cli'.recv = TRUE
          /\ cli'.sub = d.sub + 1
      BY <1>4, <2>2, <2>3, ClientHere, SubscribedIs
    <2>5. stat' \in Status /\ stat'.connected = stat.connected /\ stat'.policy = stat.policy
      BY <2>3, ShowSubscribedIs
    <2> QED
      BY <1>0, <2>2, <2>4, <2>5 DEF SameState
  <1>5. CASE ~(on /\ ~cli.recv)
    <2>1. cli' = c /\ stat' = stat
      BY <1>1, <1>2, <1>5, Zenon DEF CliSend
    <2> QED
      BY <1>0, <1>3, <2>1, ClientHere DEF SameState
  <1> QED
    BY <1>4, <1>5

LEMMA CliApplyIs ==
    ASSUME Typed, CliApply
    PROVE  /\ ClientOK(cli') /\ SameBut(cli, cli') /\ cli'.last = cli.last
           /\ \/ SameState(cli, cli') /\ own' = own
              \/ OwnChange /\ cli'.rev \in {cli.rev, cli.rev + 1}
  <1>1. CASE cli.recv \/ ~stat.connected \/ ~MayTake
    BY <1>1, ClientHere, NothingOfferedOK DEF CliApply, SameState
  <1>2. CASE ~(cli.recv \/ ~stat.connected \/ ~MayTake)
    <2>1. PICK v \in Versions : v = cli.offer
      BY ClientHere DEF CliApply
    <2>2. PICK c : c = Taken(cli, v)
      OBVIOUS
    <2>3. ClientOK(c) /\ SameBut(cli, c) /\ c.last = cli.last /\ c.rev \in {cli.rev, cli.rev + 1}
      BY <2>2, ClientHere, TakenIs
    <2>4. PICK m \in Versions : m = cli.match
      BY ClientHere
    <2>5. PICK d : d = [c EXCEPT !.undo = m, !.applied = v]
      OBVIOUS
    <2>6. ClientOK(d) /\ SameBut(c, d) /\ SameState(c, d)
      BY <2>3, <2>5, NoneAssumption DEF ClientOK, Client, SameBut, SameState
    <2>7. cli' = NothingOffered(d) /\ OwnChange
      BY <1>2, <2>1, <2>2, <2>4, <2>5 DEF CliApply
    <2> QED
      BY <2>3, <2>6, <2>7, NothingOfferedOK DEF SameBut, SameState
  <1> QED
    BY <1>1, <1>2

LEMMA CliUndoIs ==
    ASSUME Typed, CliUndo
    PROVE  /\ ClientOK(cli') /\ SameBut(cli, cli') /\ cli'.last = cli.last
           /\ OwnChange /\ cli'.rev \in {cli.rev, cli.rev + 1}
  <1>1. PICK v \in Versions : v = cli.undo
    BY ClientHere DEF CliUndo
  <1>2. PICK c : c = Taken(cli, v)
    OBVIOUS
  <1>3. ClientOK(c) /\ SameBut(cli, c) /\ c.last = cli.last /\ c.rev \in {cli.rev, cli.rev + 1}
    BY <1>2, ClientHere, TakenIs
  <1>4. cli' = Cleared(c) /\ OwnChange
    BY <1>1, <1>2 DEF CliUndo
  <1> QED
    BY <1>3, <1>4, ClearedOK DEF SameBut, SameState

LEMMA LooksAtStatusIs ==
    ASSUME Typed, NEW m, LooksAtStatus(m)
    PROVE  /\ ClientOK(cli') /\ own' = own /\ stat' \in Status /\ stat'.connected = stat.connected
           /\ cli'.recv = cli.recv /\ cli'.sub = cli.sub /\ cli'.was = stat.connected
           /\ cli'.match = cli.match /\ cli'.rev = cli.rev
           /\ cli'.last = IF cli.was # stat.connected THEN 0 ELSE cli.last
           /\ stat' = stat \/ (stat'.subscribed = (cli.recv /\ stat.connected) /\ stat.connected)
           /\ stat'.policy = stat.policy
  <1>0. cli.was \in BOOLEAN /\ stat.connected \in BOOLEAN /\ cli.recv \in BOOLEAN
    BY ClientHere
  <1>1. PICK gone \in BOOLEAN : gone = (cli.was /\ ~stat.connected)
    OBVIOUS
  <1>2. PICK back \in BOOLEAN : back = (~cli.was /\ stat.connected)
    OBVIOUS
  <1>3. PICK c : c = IF gone THEN NothingOffered(cli) ELSE cli
    OBVIOUS
  <1>4. ClientOK(c) /\ SameBut(cli, c) /\ SameState(cli, c)
    BY <1>3, ClientHere, NothingOfferedOK DEF SameBut, SameState
  <1>5. PICK w \in BOOLEAN : w = stat.connected
    BY <1>0
  <1>6. PICK l \in Nat : l = IF gone \/ back THEN 0 ELSE c.last
    BY <1>4 DEF ClientOK, Client
  <1>7. /\ cli' = [c EXCEPT !.was = w, !.last = l] /\ own' = own
        /\ IF back THEN ShowSubscribed(cli.recv) ELSE UNCHANGED stat
    BY <1>1, <1>2, <1>3, <1>5, <1>6, Zenon DEF LooksAtStatus
  <1>8. ClientOK(cli') /\ SameBut([c EXCEPT !.was = w], cli') /\ cli'.last = l /\ cli'.was = w
        /\ cli'.match = c.match /\ cli'.rev = c.rev /\ cli'.recv = c.recv /\ cli'.sub = c.sub
    BY <1>4, <1>7 DEF ClientOK, Client, SameBut
  <1>9. gone \/ back <=> cli.was # stat.connected
    BY <1>0, <1>1, <1>2
  <1>10. cli'.last = IF cli.was # stat.connected THEN 0 ELSE cli.last
    BY <1>4, <1>6, <1>8, <1>9 DEF SameState
  <1>11. /\ stat' \in Status /\ stat'.connected = stat.connected /\ stat'.policy = stat.policy
         /\ stat' = stat \/ (stat'.subscribed = (cli.recv /\ stat.connected) /\ stat.connected)
    <2>1. CASE back
      BY <1>0, <1>2, <1>7, <2>1, ShowSubscribedIs
    <2>2. CASE ~back
      BY <1>7, <2>2, ClientHere
    <2> QED
      BY <2>1, <2>2
  <1> QED
    BY <1>4, <1>5, <1>7, <1>8, <1>10, <1>11 DEF SameBut, SameState

LEMMA TakesPushIs ==
    ASSUME Typed, NEW m \in Message, TakesPush(m)
    PROVE  /\ ClientOK(cli') /\ stat' = stat /\ SameBut(cli, cli') /\ cli'.rev = cli.rev
           /\ own' \in [credit : Int, since : BOOLEAN] /\ own'.credit = own.credit
           /\ m.t = "push" /\ m.rev \in Nat
           /\ IF Takes(m)
              THEN cli'.match = m.v /\ cli'.last = m.rev
              ELSE cli' = cli /\ own' = own
  <1>1. m.t = "push" /\ m.rev \in Nat /\ m.v \in Versions /\ stat' = stat
    BY MessageFields DEF TakesPush
  <1>2. CASE Takes(m)
    <2>1. cli' = Pushed(m) /\ own' = [own EXCEPT !.since = FALSE]
      BY <1>2 DEF TakesPush
    <2>2. own' \in [credit : Int, since : BOOLEAN] /\ own'.credit = own.credit
      BY <2>1, ClientHere
    <2> QED
      BY <1>1, <1>2, <2>1, <2>2, ClientHere, PushedIs
  <1>3. CASE ~Takes(m)
    BY <1>1, <1>3, ClientHere DEF TakesPush, SameBut
  <1> QED
    BY <1>2, <1>3

LEMMA TakesAnswerIs ==
    ASSUME Typed, NEW m \in Message, TakesAnswer(m)
    PROVE  /\ ClientOK(cli') /\ SameBut(cli, cli') /\ SameState(cli, cli')
           /\ stat' = stat /\ own' = own /\ m.t # "push" /\ m.t # "changed"
  <1>1. CASE m.t = "error" \/ cli.recv \/ m.v \in Invalid
    BY <1>1, ClientHere, NothingOfferedOK DEF TakesAnswer
  <1>2. CASE ~(m.t = "error" \/ cli.recv \/ m.v \in Invalid)
    <2>1. PICK v \in Versions, b \in Versions : v = m.v /\ b = cli.match
      BY <1>2, ClientHere, MessageFields DEF TakesAnswer
    <2>2. cli' = [cli EXCEPT !.base = b, !.offer = v]
      BY <1>2, <2>1 DEF TakesAnswer
    <2>3. cli' \in Client
      BY <2>2, ClientHere DEF Client
    <2>4. ClientOK(cli')
      BY <2>1, <2>2, <2>3, ClientHere, NoneAssumption DEF ClientOK, Client
    <2>5. SameBut(cli, cli') /\ SameState(cli, cli')
      BY <2>2, ClientHere DEF Client, SameBut, SameState
    <2> QED
      BY <1>2, <2>4, <2>5 DEF TakesAnswer
  <1> QED
    BY <1>1, <1>2

LEMMA CliStartIs ==
    ASSUME Typed, CliStart
    PROVE  /\ ClientOK(cli') /\ SameState(cli, cli') /\ cli'.recv = cli.recv
           /\ cli'.sub = cli.sub /\ cli'.was = cli.was
           /\ run' \in Thread /\ run'.at = "dial" /\ run'.sub = 0 /\ run'.on = FALSE
           /\ stat' \in Status /\ stat'.connected = FALSE
           /\ box' = Posted(box, Changed) /\ link' = "none" /\ toCli' = <<>>
  <1>1. cli' = [cli EXCEPT !.waits = FALSE]
    BY DEF CliStart
  <1>2. /\ ClientOK(cli') /\ SameState(cli, cli') /\ cli'.recv = cli.recv
        /\ cli'.sub = cli.sub /\ cli'.was = cli.was
    BY <1>1, ClientHere DEF ClientOK, Client, SameState
  <1>3. run' \in Thread /\ run'.at = "dial" /\ run'.sub = 0 /\ run'.on = FALSE
    BY DEF CliStart, Idle, Thread
  <1>4. stat' \in Status /\ stat'.connected = FALSE
    BY DEF CliStart, Status
  <1> QED
    BY <1>2, <1>3, <1>4 DEF CliStart

LEMMA CliStopIs ==
    ASSUME Typed, CliStop
    PROVE  /\ ClientOK(cli') /\ cli'.match = cli.match /\ cli'.rev = cli.rev /\ cli'.last = 0
           /\ cli'.recv = cli.recv /\ cli'.sub = cli.sub /\ cli'.was = cli.was
           /\ run' \in Thread /\ run'.at = "off" /\ run'.sub = 0 /\ run'.on = FALSE
           /\ stat' \in Status /\ stat'.connected = FALSE
           /\ box' = Posted(box, Changed) /\ link' = "none" /\ toCli' = <<>>
  <1>1. PICK c : c = Cleared(cli)
    OBVIOUS
  <1>2. ClientOK(c) /\ SameBut(cli, c) /\ SameState(cli, c)
    BY <1>1, ClientHere, ClearedOK
  <1>3. cli' = [c EXCEPT !.waits = FALSE, !.last = 0]
    BY <1>1 DEF CliStop
  <1>4. /\ ClientOK(cli') /\ cli'.match = c.match /\ cli'.rev = c.rev /\ cli'.last = 0
        /\ cli'.recv = c.recv /\ cli'.sub = c.sub /\ cli'.was = c.was
    BY <1>2, <1>3 DEF ClientOK, Client
  <1>5. run' \in Thread /\ run'.at = "off" /\ run'.sub = 0 /\ run'.on = FALSE
    BY DEF CliStop, Idle, Thread
  <1>6. stat' \in Status /\ stat'.connected = FALSE
    BY DEF CliStop, Status
  <1> QED
    BY <1>2, <1>4, <1>5, <1>6 DEF CliStop, SameBut, SameState

LEMMA CliEditIs ==
    ASSUME Typed, CliEdit
    PROVE  /\ ClientOK(cli') /\ SameBut(cli, cli') /\ cli'.last = cli.last
           /\ cli'.rev = cli.rev + 1 /\ OwnChange
  <1>1. (Own /\ stat.connected) \in BOOLEAN
    BY ClientHere DEF Own
  <1>2. PICK v \in Versions : v = Len(edits')
    BY <1>1, EditTyped DEF CliEdit
  <1>3. PICK r \in Nat : r = cli.rev + 1
    BY ClientHere
  <1>4. cli' = [cli EXCEPT !.match = v, !.rev = r] /\ OwnChange
    BY <1>2, <1>3 DEF CliEdit
  <1>5. ClientOK(cli') /\ SameBut(cli, cli') /\ cli'.last = cli.last /\ cli'.rev = r
    BY <1>4, ClientHere DEF ClientOK, Client, SameBut
  <1> QED
    BY <1>3, <1>4, <1>5

LEMMA CliKeysIs ==
    ASSUME Typed, CliKeys
    PROVE  ClientOK(cli') /\ SameBut(cli, cli') /\ SameState(cli, cli')
  <1>1. PICK k \in 0..1 : k = 1 - cli.keys
    BY ClientHere
  <1>2. cli' = [cli EXCEPT !.keys = k]
    BY <1>1 DEF CliKeys
  <1> QED
    BY <1>2, ClientHere DEF ClientOK, Client, SameBut, SameState

LEMMA CliRequestIs ==
    ASSUME Typed, CliRequest
    PROVE  /\ ClientOK(cli') /\ SameState(cli, cli') /\ cli'.recv = cli.recv
           /\ cli'.sub = cli.sub /\ cli'.was = cli.was
  <1>0. PICK n \in Nat : n = cli.req + 1
    BY ClientHere
  <1>1. cli' = [cli EXCEPT !.waits = TRUE, !.req = n]
    BY <1>0 DEF CliRequest
  <1> QED
    BY <1>1, ClientHere DEF ClientOK, Client, SameState

LEMMA ClientWindowTyped ==
    ASSUME Typed, ClientWindow
    PROVE  Typed'
  <1>1. CASE CliEdit
    <2>1. (Own /\ stat.connected) \in BOOLEAN
      BY ClientHere DEF Own
    <2>2. edits' \in Seq(Change)
      BY <1>1, <2>1, EditTyped DEF CliEdit
    <2>3. HistoryTyped'
      BY <1>1, <2>2, OwnChangeIs, ClientHere DEF CliEdit, HistoryTyped
    <2> QED
      BY <1>1, <2>3, CliEditIs, ClientTypedBy, CaptainTypedBy, WireTypedBy, ClientHere
         DEF CliEdit, Typed
  <1>2. CASE CliKeys
    BY <1>2, CliKeysIs, HistoryTypedBy, ClientTypedBy, CaptainTypedBy, WireTypedBy, ClientHere
       DEF CliKeys, Typed
  <1>3. CASE CliReceive
    BY <1>3, CliReceiveIs, HistoryTypedBy, ClientTypedBy, CaptainTypedBy, WireTypedBy, ClientHere,
       PostedTyped DEF CliReceive, Typed
  <1>4. CASE CliSend
    BY <1>4, CliSendIs, HistoryTypedBy, ClientTypedBy, CaptainTypedBy, WireTypedBy, ClientHere,
       PostedTyped DEF CliSend, Typed
  <1>5. CASE CliRequest
    BY <1>5, CliRequestIs, HistoryTypedBy, ClientTypedBy, CaptainTypedBy, WireTypedBy, ClientHere
       DEF CliRequest, Typed
  <1>6. CASE CliApply
    BY <1>6, CliApplyIs, OwnChangeIs, HistoryTypedBy, ClientTypedBy, CaptainTypedBy, WireTypedBy,
       ClientHere DEF CliApply, Typed
  <1>7. CASE CliCancel
    BY <1>7, NothingOfferedOK, HistoryTypedBy, ClientTypedBy, CaptainTypedBy, WireTypedBy,
       ClientHere DEF CliCancel, Typed, historyVars
  <1>8. CASE CliUndo
    BY <1>8, CliUndoIs, OwnChangeIs, HistoryTypedBy, ClientTypedBy, CaptainTypedBy, WireTypedBy,
       ClientHere DEF CliUndo, Typed
  <1>9. CASE CliHandle
    <2>1. box # <<>> /\ box \in Seq(Message)
      BY <1>9, ClientHere DEF CliHandle
    <2>2. Head(box) \in Message /\ Tail(box) \in Seq(Message)
      BY <2>1, TailIs
    <2>3. ClientOK(cli') /\ stat' \in Status /\ own' \in [credit : Int, since : BOOLEAN]
      <3>1. CASE LooksAtStatus(Head(box))
        BY <3>1, LooksAtStatusIs, ClientHere
      <3>2. CASE TakesPush(Head(box))
        BY <2>2, <3>2, TakesPushIs, ClientHere
      <3>3. CASE TakesAnswer(Head(box))
        BY <2>2, <3>3, TakesAnswerIs, ClientHere
      <3> QED
        BY <1>9, <3>1, <3>2, <3>3 DEF CliHandle
    <2> QED
      BY <1>9, <2>2, <2>3, HistoryTypedBy, ClientTypedBy, CaptainTypedBy, WireTypedBy, ClientHere
         DEF CliHandle, Typed
  <1>10. CASE CliStart
    <2>1. WireTyped'
      BY <1>10, CliStartIs, EmptyIs DEF CliStart, Typed, WireTyped
    <2> QED
      BY <1>10, <2>1, CliStartIs, HistoryTypedBy, ClientTypedBy, CaptainTypedBy, ClientHere,
         PostedTyped DEF CliStart, Typed
  <1>11. CASE CliStop
    <2>1. WireTyped'
      BY <1>11, CliStopIs, EmptyIs DEF CliStop, Typed, WireTyped
    <2> QED
      BY <1>11, <2>1, CliStopIs, HistoryTypedBy, ClientTypedBy, CaptainTypedBy, ClientHere,
         PostedTyped DEF CliStop, Typed, historyVars
  <1> QED
    BY <1>1, <1>2, <1>3, <1>4, <1>5, <1>6, <1>7, <1>8, <1>9, <1>10, <1>11 DEF ClientWindow

\* What the client's thread does to its own record, its status and the window's.
LEMMA CliAcceptedIs ==
    ASSUME Typed, CliAccepted
    PROVE  /\ run' \in Thread /\ run'.at = "start" /\ run'.sub = 0 /\ run'.on = FALSE
           /\ run'.last = 0
           /\ stat' \in Status /\ stat'.connected = TRUE
  <1>1. run' = [Idle EXCEPT !.at = "start"]
    BY DEF CliAccepted
  <1>2. stat' = [stat EXCEPT !.connected = TRUE, !.subscribed = FALSE, !.policy = FALSE]
    BY DEF CliAccepted
  <1>3. stat' \in Status /\ stat'.connected = TRUE
    BY <1>2, ClientHere DEF Status
  <1> QED
    BY <1>1, <1>3 DEF Idle, Thread

LEMMA CliBaselineIs ==
    ASSUME Typed, CliBaseline
    PROVE  /\ run' \in Thread /\ run.at = "start" /\ run'.at = "run"
           /\ run'.sub = run.sub /\ run'.on = run.on /\ run'.last = run.last
           /\ run'.pend = cli.rev /\ run'.done = cli.rev
  <1>1. PICK r \in Nat : r = cli.rev
    BY ClientHere
  <1>2. run' = [run EXCEPT !.at = "run", !.pend = r, !.done = r] /\ run.at = "start"
    BY <1>1 DEF CliBaseline
  <1> QED
    BY <1>1, <1>2, ClientHere DEF Thread

LEMMA CliRejectedIs ==
    ASSUME Typed, CliRejected
    PROVE  /\ run' \in Thread /\ run'.at = "off" /\ run'.sub = 0 /\ run'.on = FALSE
           /\ stat' \in Status /\ stat'.connected = FALSE
  BY DEF CliRejected, Idle, Thread, Status

LEMMA CliLostIs ==
    ASSUME Typed, CliLost
    PROVE  /\ run' \in Thread /\ run'.at = "dial" /\ run'.sub = 0 /\ run'.on = FALSE
           /\ stat' \in Status /\ stat'.connected = FALSE
           /\ ClientOK(cli') /\ SameState(cli, cli') /\ cli'.recv = cli.recv
           /\ cli'.sub = cli.sub /\ cli'.was = cli.was
           /\ box' = Posted(box, Changed) \/ box' = Posted(Append(box, Failed), Changed)
  <1>1. cli' = [cli EXCEPT !.waits = FALSE]
    BY DEF CliLost
  <1>2. /\ ClientOK(cli') /\ SameState(cli, cli') /\ cli'.recv = cli.recv
        /\ cli'.sub = cli.sub /\ cli'.was = cli.was
    BY <1>1, ClientHere DEF ClientOK, Client, SameState
  <1>3. run' \in Thread /\ run'.at = "dial" /\ run'.sub = 0 /\ run'.on = FALSE
    BY DEF CliLost, Idle, Thread
  <1>4. stat' = [stat EXCEPT !.connected = FALSE, !.subscribed = FALSE]
    BY DEF CliLost
  <1>5. stat' \in Status /\ stat'.connected = FALSE
    BY <1>4, ClientHere DEF Status
  <1> QED
    BY <1>2, <1>3, <1>5 DEF CliLost

LEMMA CliSubscribeIs ==
    ASSUME Typed, CliSubscribe
    PROVE  /\ run' \in Thread /\ run'.at = "run" /\ run'.sub = cli.sub /\ run'.on = cli.recv
           /\ run'.last = 0 /\ run'.pend = run.pend /\ run'.done = run.done
           /\ stat' \in Status /\ stat'.connected = stat.connected
           /\ stat'.subscribed = cli.recv
           /\ \E f \in ServerFrame :
                 /\ f.t = "subscribe" /\ f.sub = cli.sub /\ f.on = cli.recv
                 /\ toSrv' = IF link = "up" THEN Append(toSrv, f) ELSE toSrv
  <1>1. PICK n \in Nat, o \in BOOLEAN : n = cli.sub /\ o = cli.recv
    BY ClientHere
  <1>2. run' = [run EXCEPT !.sub = n, !.on = o, !.last = 0] /\ run.at = "run"
    BY <1>1 DEF CliSubscribe
  <1>3. run' \in Thread /\ run'.at = "run" /\ run'.sub = n /\ run'.on = o /\ run'.last = 0
        /\ run'.pend = run.pend /\ run'.done = run.done
    BY <1>2, ClientHere DEF Thread
  <1>4. stat' = [stat EXCEPT !.subscribed = o]
    BY <1>1 DEF CliSubscribe
  <1>5. stat' \in Status /\ stat'.connected = stat.connected /\ stat'.subscribed = o
    BY <1>4, ClientHere DEF Status
  <1>6. PICK f \in ServerFrame : f = [t |-> "subscribe", on |-> o, sub |-> n]
    BY ServerFrames
  <1>7. toSrv' = IF link = "up" THEN Append(toSrv, f) ELSE toSrv
    BY <1>1, <1>6 DEF CliSubscribe, ToServer
  <1>8. f.t = "subscribe" /\ f.sub = n /\ f.on = o
    BY <1>6
  <1> QED
    BY <1>1, <1>3, <1>5, <1>7, <1>8

LEMMA CliObserveIs ==
    ASSUME Typed, CliObserve
    PROVE  /\ run' \in Thread /\ run'.at = run.at /\ run'.sub = run.sub /\ run'.on = run.on
           /\ run'.last = run.last /\ run'.pend = cli.rev /\ run'.done \in {run.done, cli.rev}
  <1>1. PICK r \in Nat, d \in Nat : r = cli.rev /\ d = IF Own THEN run.done ELSE cli.rev
    BY ClientHere
  <1>2. run' = [run EXCEPT !.pend = r, !.done = d]
    BY <1>1 DEF CliObserve
  <1>3. run' \in Thread /\ run'.at = run.at /\ run'.sub = run.sub /\ run'.on = run.on
        /\ run'.last = run.last /\ run'.pend = r /\ run'.done = d
    BY <1>2, ClientHere DEF Thread
  <1> QED
    BY <1>1, <1>3

LEMMA CliUploadIs ==
    ASSUME Typed, CliUpload
    PROVE  /\ run' \in Thread /\ run'.at = run.at /\ run'.sub = run.sub /\ run'.on = run.on
           /\ run'.last = run.last /\ run'.pend = run.pend /\ run'.done = run.pend
           /\ own' \in [credit : Int, since : BOOLEAN]
           /\ own'.credit = own.credit - 1 /\ own'.since = own.since
           /\ \E f \in ServerFrame :
                 /\ f.t = "propose"
                 /\ toSrv' = IF link = "up" THEN Append(toSrv, f) ELSE toSrv
  <1>1. PICK n \in Int : n = own.credit - 1
    BY ClientHere
  <1>2. own' = [own EXCEPT !.credit = n]
    BY <1>1 DEF CliUpload
  <1>3. own' \in [credit : Int, since : BOOLEAN] /\ own'.credit = n /\ own'.since = own.since
    BY <1>2, ClientHere
  <1>4. PICK p \in Nat : p = run.pend
    BY ClientHere
  <1>5. run' = [run EXCEPT !.done = p]
    BY <1>4 DEF CliUpload
  <1>6. run' \in Thread /\ run'.at = run.at /\ run'.sub = run.sub /\ run'.on = run.on
        /\ run'.last = run.last /\ run'.pend = run.pend /\ run'.done = p
    BY <1>5, ClientHere DEF Thread
  <1>7. PICK f \in ServerFrame : f = [t |-> "propose", v |-> cli.match]
    BY ServerFrames, ClientHere
  <1>8. f.t = "propose" /\ toSrv' = IF link = "up" THEN Append(toSrv, f) ELSE toSrv
    BY <1>7 DEF CliUpload, ToServer
  <1> QED
    BY <1>1, <1>3, <1>4, <1>6, <1>8

LEMMA CliAskIs ==
    ASSUME Typed, CliAsk
    PROVE  /\ run' \in Thread /\ run'.at = run.at /\ run'.sub = run.sub /\ run'.on = run.on
           /\ run'.last = run.last /\ run'.pend = run.pend /\ run'.done = run.done
           /\ \E f \in ServerFrame :
                 /\ f.t = "request"
                 /\ toSrv' = IF link = "up" THEN Append(toSrv, f) ELSE toSrv
  <1>1. PICK n \in Nat : n = cli.req
    BY ClientHere
  <1>2. run' = [run EXCEPT !.asked = n]
    BY <1>1 DEF CliAsk
  <1>3. run' \in Thread /\ run'.at = run.at /\ run'.sub = run.sub /\ run'.on = run.on
        /\ run'.last = run.last /\ run'.pend = run.pend /\ run'.done = run.done
    BY <1>2, ClientHere DEF Thread
  <1>4. PICK f \in ServerFrame : f = [t |-> "request", id |-> n]
    BY ServerFrames
  <1>5. f.t = "request" /\ toSrv' = IF link = "up" THEN Append(toSrv, f) ELSE toSrv
    BY <1>1, <1>4 DEF CliAsk, ToServer
  <1> QED
    BY <1>3, <1>5

\* The window's and the thread's records once a request has ended.
SameThread ==
    /\ run' \in Thread /\ run'.at = run.at /\ run'.sub = run.sub /\ run'.on = run.on
    /\ run'.pend = run.pend /\ run'.done = run.done
SameWindow ==
    /\ ClientOK(cli') /\ SameState(cli, cli') /\ cli'.recv = cli.recv
    /\ cli'.sub = cli.sub /\ cli'.was = cli.was

LEMMA RequestEnded ==
    ASSUME Typed, cli' = [cli EXCEPT !.waits = FALSE], run' = [run EXCEPT !.asked = 0]
    PROVE  SameThread /\ SameWindow /\ run'.last = run.last
  <1>1. SameThread /\ run'.last = run.last
    BY ClientHere DEF Thread, SameThread
  <1>2. SameWindow
    BY ClientHere DEF ClientOK, Client, SameState, SameWindow
  <1> QED
    BY <1>1, <1>2

LEMMA NothingMoved ==
    ASSUME Typed
    PROVE  /\ cli' = cli => SameWindow
           /\ run' = run => SameThread /\ run'.last = run.last
  BY ClientHere DEF SameState, SameWindow, SameThread

\* A frame that is heard: a push is handed on if it is newer than the last one.
LEMMA CliHearIs ==
    ASSUME Typed, CliHear
    PROVE  LET f == Head(toCli) IN
           /\ SameThread /\ SameWindow /\ run.at = "run"
           /\ stat' \in Status /\ stat'.connected = stat.connected
           /\ stat'.subscribed = stat.subscribed
           /\ f \in ClientFrame /\ Tail(toCli) \in Seq(ClientFrame) /\ toCli' = Tail(toCli)
           /\ \/ box' = box
              \/ \E m \in Message : box' = Posted(box, m) /\ m.t # "push"
              \/ /\ f.t = "push" /\ cli.recv /\ f.sub = cli.sub /\ f.rev > run.last
                 /\ \E m \in Message : /\ box' = Posted(box, m)
                                       /\ m.t = "push" /\ m.rev = f.rev /\ m.v = f.v
           /\ run'.last = IF f.t = "push" /\ cli.recv /\ f.sub = cli.sub /\ f.rev > run.last
                          THEN f.rev ELSE run.last
  <1>1. toCli \in Seq(ClientFrame) /\ toCli # <<>> /\ toCli' = Tail(toCli) /\ run.at = "run"
    BY DEF Typed, WireTyped, CliHear
  <1>2. PICK f \in ClientFrame : f = Head(toCli)
    BY <1>1, TailIs
  <1>3. Tail(toCli) \in Seq(ClientFrame)
    BY <1>1, TailIs
  <1>4. SUFFICES
           /\ SameThread /\ SameWindow
           /\ stat' \in Status /\ stat'.connected = stat.connected
           /\ stat'.subscribed = stat.subscribed
           /\ \/ box' = box
              \/ \E m \in Message : box' = Posted(box, m) /\ m.t # "push"
              \/ /\ f.t = "push" /\ cli.recv /\ f.sub = cli.sub /\ f.rev > run.last
                 /\ \E m \in Message : /\ box' = Posted(box, m)
                                       /\ m.t = "push" /\ m.rev = f.rev /\ m.v = f.v
           /\ run'.last = IF f.t = "push" /\ cli.recv /\ f.sub = cli.sub /\ f.rev > run.last
                          THEN f.rev ELSE run.last
    BY <1>1, <1>2, <1>3
  <1>5. CASE HearsSnapshot(f)
    <2>1. f.t = "snapshot" /\ f.v \in Versions /\ stat' = stat
      BY <1>5, ClientFrameFields DEF HearsSnapshot
    <2>2. CASE cli.waits /\ f.id = cli.req
      <3>1. /\ cli' = [cli EXCEPT !.waits = FALSE] /\ run' = [run EXCEPT !.asked = 0]
            /\ box' = Posted(box, [t |-> "snapshot", v |-> f.v])
        BY <1>5, <2>2 DEF HearsSnapshot
      <3>2. PICK m \in Message : m = [t |-> "snapshot", v |-> f.v]
        BY <2>1, Messages
      <3>3. m.t # "push" /\ box' = Posted(box, m)
        BY <3>1, <3>2
      <3> QED
        BY <2>1, <3>1, <3>3, RequestEnded, ClientHere
    <2>3. CASE ~(cli.waits /\ f.id = cli.req)
      BY <1>5, <2>1, <2>3, NothingMoved, ClientHere DEF HearsSnapshot
    <2> QED
      BY <2>2, <2>3
  <1>6. CASE HearsPush(f)
    <2>1. f.t = "push" /\ f.v \in Versions /\ f.rev \in Nat /\ stat' = stat /\ cli' = cli
      BY <1>6, ClientFrameFields DEF HearsPush
    <2>2. CASE cli.recv /\ f.sub = cli.sub /\ f.rev > run.last
      <3>1. PICK r \in Nat : r = f.rev
        BY <2>1
      <3>2. run' = [run EXCEPT !.last = r] /\ box' = Posted(box, [t |-> "push", rev |-> r, v |-> f.v])
        BY <1>6, <2>2, <3>1 DEF HearsPush
      <3>3. SameThread /\ run'.last = r
        BY <3>2, ClientHere DEF Thread, SameThread
      <3>4. PICK m \in Message : m = [t |-> "push", rev |-> r, v |-> f.v]
        BY <2>1, Messages
      <3>5. m.t = "push" /\ m.rev = r /\ m.v = f.v /\ box' = Posted(box, m)
        BY <3>2, <3>4
      <3> QED
        BY <2>1, <2>2, <3>1, <3>3, <3>5, NothingMoved, ClientHere
    <2>3. CASE ~(cli.recv /\ f.sub = cli.sub /\ f.rev > run.last)
      BY <1>6, <2>1, <2>3, NothingMoved, ClientHere DEF HearsPush
    <2> QED
      BY <2>2, <2>3
  <1>7. CASE HearsPolicy(f)
    <2>1. PICK o \in BOOLEAN : o = f.ok
      BY <1>7, ClientFrameFields DEF HearsPolicy
    <2>2. stat' = [stat EXCEPT !.policy = o] /\ f.t = "policy" /\ cli' = cli /\ run' = run
          /\ box' = Posted(box, Changed)
      BY <1>7, <2>1 DEF HearsPolicy
    <2>3. stat' \in Status /\ stat'.connected = stat.connected
          /\ stat'.subscribed = stat.subscribed
      BY <2>2, ClientHere DEF Status
    <2>4. Changed \in Message /\ Changed.t # "push"
      BY Messages
    <2> QED
      BY <2>2, <2>3, <2>4, NothingMoved
  <1> QED
    BY <1>2, <1>5, <1>6, <1>7 DEF CliHear

LEMMA ClientThreadTyped ==
    ASSUME Typed, ClientThread
    PROVE  Typed'
  <1>0. toSrv \in Seq(ServerFrame) /\ toCli \in Seq(ClientFrame)
    BY DEF Typed, WireTyped
  <1>1. CASE CliDial
    <2>1. WireTyped'
      BY <1>1, EmptyIs DEF CliDial, Typed, WireTyped
    <2> QED
      BY <1>1, <2>1, HistoryTypedBy, ClientTypedBy, CaptainTypedBy, ClientHere
         DEF CliDial, Typed, historyVars, clientVars
  <1>2. CASE CliAccepted
    <2>1. WireTyped'
      BY <1>0, <1>2, TailIs DEF CliAccepted, Typed, WireTyped
    <2> QED
      BY <1>2, <2>1, CliAcceptedIs, HistoryTypedBy, ClientTypedBy, CaptainTypedBy, ClientHere,
         PostedTyped DEF CliAccepted, Typed, historyVars
  <1>11. CASE CliBaseline
    BY <1>11, CliBaselineIs, HistoryTypedBy, ClientTypedBy, CaptainTypedBy, WireTypedBy, ClientHere
       DEF CliBaseline, Typed, historyVars
  <1>3. CASE CliRejected
    <2>1. WireTyped'
      BY <1>3, EmptyIs DEF CliRejected, Typed, WireTyped
    <2> QED
      BY <1>3, <2>1, CliRejectedIs, HistoryTypedBy, ClientTypedBy, CaptainTypedBy, ClientHere,
         PostedTyped DEF CliRejected, Typed, historyVars
  <1>4. CASE CliLost
    <2>1. WireTyped'
      BY <1>4, EmptyIs DEF CliLost, Typed, WireTyped
    <2>2. box' \in Seq(Message)
      <3>1. Append(box, Failed) \in Seq(Message)
        BY ClientHere, AppendIs, Messages
      <3>2. Posted(Append(box, Failed), Changed) \in Seq(Message)
        BY <3>1, PostedIs, Messages
      <3> QED
        BY <1>4, <3>2, CliLostIs, PostedTyped
    <2> QED
      BY <1>4, <2>1, <2>2, CliLostIs, HistoryTypedBy, ClientTypedBy, CaptainTypedBy, ClientHere
         DEF CliLost, Typed, historyVars
  <1>5. CASE CliSubscribe
    <2>1. toSrv' \in Seq(ServerFrame)
      BY <1>0, <1>5, CliSubscribeIs, AppendIs
    <2>2. WireTyped'
      BY <1>5, <2>1 DEF CliSubscribe, Typed, WireTyped
    <2> QED
      BY <1>5, <2>2, CliSubscribeIs, HistoryTypedBy, ClientTypedBy, CaptainTypedBy, ClientHere,
         PostedTyped DEF CliSubscribe, Typed, historyVars
  <1>6. CASE CliObserve
    BY <1>6, CliObserveIs, HistoryTypedBy, ClientTypedBy, CaptainTypedBy, WireTypedBy, ClientHere
       DEF CliObserve, Typed, historyVars
  <1>7. CASE CliUpload
    <2>1. toSrv' \in Seq(ServerFrame)
      <3>1. PICK f \in ServerFrame :
               toSrv' = IF link = "up" THEN Append(toSrv, f) ELSE toSrv
        BY <1>7, CliUploadIs
      <3> QED
        BY <1>0, <3>1, AppendIs
    <2>2. WireTyped'
      BY <1>7, <2>1 DEF CliUpload, Typed, WireTyped
    <2> QED
      BY <1>7, <2>2, CliUploadIs, HistoryTypedBy, ClientTypedBy, CaptainTypedBy, ClientHere
         DEF CliUpload, Typed
  <1>8. CASE CliAsk
    <2>1. toSrv' \in Seq(ServerFrame)
      BY <1>0, <1>8, CliAskIs, AppendIs
    <2>2. WireTyped'
      BY <1>8, <2>1 DEF CliAsk, Typed, WireTyped
    <2> QED
      BY <1>8, <2>2, CliAskIs, HistoryTypedBy, ClientTypedBy, CaptainTypedBy, ClientHere
         DEF CliAsk, Typed, historyVars
  <1>9. CASE CliTimeout
    <2>1. ClientOK(cli') /\ run' \in Thread /\ stat' = stat /\ box' = Posted(box, Failed)
      BY <1>9, RequestEnded DEF CliTimeout, SameThread, SameWindow
    <2> QED
      BY <1>9, <2>1, HistoryTypedBy, ClientTypedBy, CaptainTypedBy, WireTypedBy, ClientHere,
         PostedTyped DEF CliTimeout, Typed, historyVars
  <1>10. CASE CliHear
    <2>1. ClientOK(cli') /\ run' \in Thread /\ stat' \in Status
      BY <1>10, CliHearIs DEF SameThread, SameWindow
    <2>2. box' \in Seq(Message)
      <3>1. box' = box \/ \E m \in Message : box' = Posted(box, m)
        BY <1>10, CliHearIs
      <3>2. box \in Seq(Message)
        BY ClientHere
      <3> QED
        BY <3>1, <3>2, PostedIs
    <2>3. toCli' \in Seq(ClientFrame)
      BY <1>10, CliHearIs
    <2>4. WireTyped'
      BY <1>10, <2>3 DEF CliHear, Typed, WireTyped
    <2> QED
      BY <1>10, <2>1, <2>2, <2>4, HistoryTypedBy, ClientTypedBy, CaptainTypedBy, ClientHere
         DEF CliHear, Typed, historyVars
  <1> QED
    BY <1>1, <1>2, <1>3, <1>4, <1>5, <1>6, <1>7, <1>8, <1>9, <1>10, <1>11 DEF ClientThread

LEMMA TypeStep == Typed /\ [Next]_vars => Typed'
  <1> SUFFICES ASSUME Typed, [Next]_vars PROVE Typed'
    OBVIOUS
  <1>1. CASE Cut
    BY <1>1, HistoryTypedBy, CaptainTypedBy, ClientTypedBy, ClientHere
       DEF Cut, Typed, WireTyped, clientVars
  <1>2. CASE UNCHANGED vars
    BY <1>2 DEF vars, Typed, HistoryTyped, CaptainTyped, WireTyped, ClientTyped
  <1> QED
    BY <1>1, <1>2, CaptainWindowTyped, CaptainThreadTyped, ClientWindowTyped, ClientThreadTyped
       DEF Next

\* The records, frames and messages of both machines keep their types, and what
\* the window offers, or can undo, it has completely or not at all.
THEOREM TypeCorrect == Spec => []TypeOK
  <1>1. Typed => TypeOK
    <2> SUFFICES ASSUME Typed PROVE TypeOK
      OBVIOUS
    <2>1. /\ edits \in Seq(Change) /\ srv.match \in Versions
          /\ sock.conn \in {"none", "accepted", "paired"}
      BY DEF Typed, HistoryTyped, CaptainTyped, Captain, Socket
    <2> QED
      BY <2>1, ClientHere
         DEF Typed, WireTyped, CaptainTyped, ClientTyped, ClientOK, TypeOK, Change
  <1> QED
    BY <1>1, TypeInit, TypeStep, PTL DEF Spec

-----------------------------------------------------------------------------
(* Keys and credit                                                         *)

LEMMA ReceiveIs ==
    ASSUME Typed, SrvReceive
    PROVE  /\ mask' = mask /\ shown' = shown
           /\ \/ sock.conn = "accepted" /\ sock'.conn = "paired" /\ sock'.hello = TRUE
              \/ sock'.conn = sock.conn /\ sock'.hello = sock.hello
  <1>1. sock \in Socket /\ srv.rev \in Nat
    BY DEF Typed, CaptainTyped, Captain
  <1>2. PICK f : f = Head(toSrv)
    OBVIOUS
  <1>3. CASE SrvHello(f)
    BY <1>1, <1>3 DEF SrvHello, Socket
  <1>4. CASE SrvRequest(f) \/ SrvProposal(f)
    BY <1>4 DEF SrvRequest, SrvProposal
  <1>5. CASE SrvSubscribe(f)
    BY <1>1, <1>5 DEF SrvSubscribe, Socket
  <1> QED
    BY <1>2, <1>3, <1>4, <1>5 DEF SrvReceive

LEMMA ShownStep ==
    ASSUME Typed, ShownOK, [Next]_vars
    PROVE  ShownOK'
  <1>0. sock \in Socket
    BY DEF Typed, CaptainTyped
  <1>1. CASE UNCHANGED captainVars
    BY <1>1 DEF captainVars, ShownOK, KeysOnlyWhileShown
  <1>2. CASE CaptainWindow
    BY <1>2 DEF CaptainWindow, SrvEdit, SrvAllow, SrvPropose, ShownOK, KeysOnlyWhileShown
  <1>3. CASE SrvAccept
    <2>1. CASE sock.conn = "none"
      BY <1>3, <2>1 DEF SrvAccept, NoClient, ShownOK, KeysOnlyWhileShown
    <2>2. CASE sock.conn # "none"
      BY <1>3, <2>2 DEF SrvAccept, ShownOK, KeysOnlyWhileShown
    <2> QED
      BY <2>1, <2>2
  <1>4. CASE SrvReceive
    BY <1>4, ReceiveIs DEF ShownOK, KeysOnlyWhileShown
  <1>5. CASE SrvGreeted
    BY <1>0, <1>5 DEF SrvGreeted, Socket, ShownOK, KeysOnlyWhileShown
  <1>6. CASE SrvState
    BY <1>6 DEF SrvState, Serving, ShownOK, KeysOnlyWhileShown
  <1>7. CASE SrvPolicy \/ SrvObserve \/ SrvPush
    <2>1. /\ sock'.conn = sock.conn /\ sock'.hello = sock.hello /\ mask' = mask /\ shown' = shown
      BY <1>0, <1>7 DEF SrvPolicy, SrvObserve, SrvPush, Socket
    <2> QED
      BY <2>1 DEF ShownOK, KeysOnlyWhileShown
  <1>8. CASE SrvLose
    BY <1>0, <1>8 DEF SrvLose, SrvForget, Closed, Socket, ShownOK, KeysOnlyWhileShown
  <1>9. CASE SrvSendFails
    BY <1>0, <1>9 DEF SrvSendFails, Socket, ShownOK, KeysOnlyWhileShown
  <1>10. CASE ClientWindow
    BY <1>1, <1>10 DEF ClientWindow, CliEdit, CliKeys, CliReceive, CliSend, CliRequest, CliApply,
       CliCancel, CliUndo, CliHandle, CliStart, CliStop
  <1>11. CASE ClientThread
    BY <1>1, <1>11 DEF ClientThread, CliDial, CliAccepted, CliBaseline, CliRejected, CliLost, CliSubscribe,
       CliObserve, CliUpload, CliAsk, CliTimeout, CliHear
  <1> QED
    BY <1>1, <1>2, <1>3, <1>4, <1>5, <1>6, <1>7, <1>8, <1>9, <1>10, <1>11
       DEF Next, CaptainThread, Cut, vars, captainVars

\* Whichever way a connection ends, no key stays displayed of a client that is
\* not shown as connected.
THEOREM KeysOnlyWhileShownHolds == Spec => []KeysOnlyWhileShown
  <1>1. Init => ShownOK
    BY DEF Init, NoClient, ShownOK, KeysOnlyWhileShown
  <1>2. ShownOK => KeysOnlyWhileShown
    BY DEF ShownOK
  <1> QED
    BY <1>1, <1>2, ShownStep, TypeInit, TypeStep, PTL DEF Spec

\* The credit of the window's own changes and the revisions that its thread knows.
CreditAs == own'.credit = own.credit /\ cli'.rev = cli.rev
ThreadAs == run'.at = run.at /\ run'.pend = run.pend /\ run'.done = run.done

LEMMA CreditStep ==
    ASSUME Typed, CreditOK, [Next]_vars
    PROVE  CreditOK'
  <1>0. /\ own.credit \in Int /\ cli.rev \in Nat /\ run.pend \in Nat /\ run.done \in Nat
    BY ClientHere
  <1>1. CASE CreditAs /\ ThreadAs
    BY <1>1 DEF CreditAs, ThreadAs, CreditOK
  <1>2. CASE run' = run /\ own'.credit = own.credit + 1 /\ cli'.rev \in {cli.rev, cli.rev + 1}
    BY <1>0, <1>2 DEF CreditOK
  <1>3. CASE CreditAs /\ run'.at # "run"
    BY <1>3 DEF CreditAs, CreditOK
  <1>4. CASE CaptainWindow \/ CaptainThread \/ Cut \/ UNCHANGED vars
    <2>1. own' = own /\ cli' = cli /\ run' = run
      BY <1>4 DEF CaptainWindow, CaptainThread, SrvEdit, SrvAllow, SrvPropose, SrvAccept, SrvReceive,
         SrvGreeted, SrvState, SrvPolicy, SrvObserve, SrvPush, SrvLose, SrvSendFails, Cut,
         historyVars, clientVars, vars
    <2> QED
      BY <1>1, <2>1 DEF CreditAs, ThreadAs
  <1>5. CASE CliEdit
    BY <1>2, <1>5, CliEditIs, OwnChangeIs DEF CliEdit
  <1>6. CASE CliKeys \/ CliReceive \/ CliSend \/ CliRequest
    <2>1. own' = own /\ cli'.rev = cli.rev /\ run' = run
      BY <1>6, CliKeysIs, CliReceiveIs, CliSendIs, CliRequestIs
         DEF CliKeys, CliReceive, CliSend, CliRequest, SameState
    <2> QED
      BY <1>1, <2>1 DEF CreditAs, ThreadAs
  <1>7. CASE CliApply
    <2>1. run' = run
      BY <1>7 DEF CliApply
    <2>2. CASE SameState(cli, cli') /\ own' = own
      BY <1>1, <2>1, <2>2 DEF CreditAs, ThreadAs, SameState
    <2> QED
      BY <1>2, <1>7, <2>1, <2>2, CliApplyIs, OwnChangeIs
  <1>8. CASE CliCancel
    BY <1>1, <1>8, NothingOfferedOK, ClientHere
       DEF CliCancel, historyVars, CreditAs, ThreadAs, SameState
  <1>9. CASE CliUndo
    BY <1>2, <1>9, CliUndoIs, OwnChangeIs DEF CliUndo
  <1>10. CASE CliHandle
    <2>1. Head(box) \in Message /\ run' = run
      BY <1>10, ClientHere, TailIs DEF CliHandle
    <2>2. CreditAs
      <3>1. CASE LooksAtStatus(Head(box))
        BY <3>1, LooksAtStatusIs DEF CreditAs
      <3>2. CASE TakesPush(Head(box))
        BY <2>1, <3>2, TakesPushIs DEF CreditAs
      <3>3. CASE TakesAnswer(Head(box))
        BY <2>1, <3>3, TakesAnswerIs DEF CreditAs, SameState
      <3> QED
        BY <1>10, <3>1, <3>2, <3>3 DEF CliHandle
    <2> QED
      BY <1>1, <2>1, <2>2 DEF ThreadAs
  <1>11. CASE CliStart
    BY <1>3, <1>11, CliStartIs DEF CliStart, CreditAs, SameState
  <1>12. CASE CliStop
    BY <1>3, <1>12, CliStopIs DEF CliStop, CreditAs, historyVars
  <1>13. CASE CliDial
    BY <1>1, <1>13 DEF CliDial, CreditAs, ThreadAs, historyVars, clientVars
  <1>23. CASE CliAccepted
    BY <1>3, <1>23, CliAcceptedIs DEF CliAccepted, CreditAs, historyVars
  <1>14. CASE CliBaseline
    <2>1. own' = own /\ cli' = cli /\ run'.pend = cli.rev /\ run'.done = cli.rev
      BY <1>14, CliBaselineIs DEF CliBaseline, historyVars
    <2> QED
      BY <1>0, <2>1 DEF CreditOK
  <1>15. CASE CliRejected
    BY <1>3, <1>15, CliRejectedIs DEF CliRejected, CreditAs, historyVars
  <1>16. CASE CliLost
    BY <1>3, <1>16, CliLostIs DEF CliLost, CreditAs, historyVars, SameState
  <1>17. CASE CliSubscribe
    <2>1. own' = own /\ cli' = cli /\ ThreadAs
      BY <1>17, CliSubscribeIs DEF CliSubscribe, ThreadAs, historyVars
    <2> QED
      BY <1>1, <2>1 DEF CreditAs
  <1>18. CASE CliObserve
    <2>1. /\ own' = own /\ cli' = cli /\ run'.at = run.at /\ run'.pend = cli.rev
          /\ run'.done \in {run.done, cli.rev}
      BY <1>18, CliObserveIs DEF CliObserve, historyVars
    <2> QED
      BY <1>0, <2>1 DEF CreditOK
  <1>19. CASE CliUpload
    <2>1. /\ own'.credit = own.credit - 1 /\ cli' = cli /\ run'.at = run.at /\ run.at = "run"
          /\ run'.pend = run.pend /\ run'.done = run.pend /\ run.pend # run.done
      BY <1>19, CliUploadIs DEF CliUpload
    <2> QED
      BY <1>0, <2>1 DEF CreditOK
  <1>20. CASE CliAsk
    BY <1>1, <1>20, CliAskIs DEF CliAsk, CreditAs, ThreadAs, historyVars
  <1>21. CASE CliTimeout
    BY <1>1, <1>21, RequestEnded
       DEF CliTimeout, SameThread, SameWindow, SameState, CreditAs, ThreadAs, historyVars
  <1>22. CASE CliHear
    <2>1. own' = own
      BY <1>22 DEF CliHear, historyVars
    <2> QED
      BY <1>1, <1>22, <2>1, CliHearIs DEF SameThread, SameWindow, SameState, CreditAs, ThreadAs
  <1> QED
    BY <1>4, <1>5, <1>6, <1>7, <1>8, <1>9, <1>10, <1>11, <1>12, <1>13, <1>14, <1>15, <1>16, <1>17,
       <1>18, <1>19, <1>20, <1>21, <1>22, <1>23 DEF Next, ClientWindow, ClientThread

\* Each proposal is owed for a change of the client's own: a state the client
\* took over from the captain never makes it propose.
THEOREM ProposalsOwedHolds == Spec => []ProposalsOwed
  <1>1. Init => CreditOK
    BY DEF Init, Idle, CreditOK
  <1>2. CreditOK => ProposalsOwed
    BY DEF CreditOK, ProposalsOwed
  <1> QED
    BY <1>1, <1>2, CreditStep, TypeInit, TypeStep, PTL DEF Spec

-----------------------------------------------------------------------------
(* Where pushes come from                                                  *)

In(s, x) == \E j \in 1..Len(s) : s[j] = x

LEMMA AppendIn ==
    ASSUME NEW S, NEW s \in Seq(S), NEW x \in S
    PROVE  \A i \in 1..Len(Append(s, x)) : In(s, Append(s, x)[i]) \/ Append(s, x)[i] = x
  <1>1. PICK u : u = Append(s, x)
    OBVIOUS
  <1>2. Len(u) = Len(s) + 1 /\ Len(s) \in Nat /\ (\A i \in 1..Len(s) : u[i] = s[i])
        /\ u[Len(s) + 1] = x
    BY <1>1, AppendIs
  <1>3. \A i \in 1..Len(u) : In(s, u[i]) \/ u[i] = x
    <2> SUFFICES ASSUME NEW i \in 1..Len(u) PROVE In(s, u[i]) \/ u[i] = x
      OBVIOUS
    <2>1. i \in 1..Len(s) \/ i = Len(s) + 1
      BY <1>2
    <2> QED
      BY <1>2, <2>1 DEF In
  <1> QED
    BY <1>1, <1>3

LEMMA TailIn ==
    ASSUME NEW S, NEW s \in Seq(S), s # <<>>
    PROVE  (\A i \in 1..Len(Tail(s)) : In(s, Tail(s)[i])) /\ In(s, Head(s))
  <1>1. PICK u : u = Tail(s)
    OBVIOUS
  <1>2. /\ Len(u) = Len(s) - 1 /\ Len(s) \in Nat \ {0} /\ Head(s) = s[1]
        /\ \A i \in 1..(Len(s) - 1) : u[i] = s[i + 1]
    BY <1>1, TailIs
  <1>3. \A i \in 1..Len(u) : In(s, u[i])
    <2> SUFFICES ASSUME NEW i \in 1..Len(u) PROVE In(s, u[i])
      OBVIOUS
    <2>1. i + 1 \in 1..Len(s) /\ u[i] = s[i + 1]
      BY <1>2
    <2> QED
      BY <2>1 DEF In
  <1>4. In(s, Head(s))
    BY <1>2 DEF In
  <1> QED
    BY <1>1, <1>3, <1>4

LEMMA SelfIn == \A s : \A i \in 1..Len(s) : In(s, s[i])
  BY DEF In

\* The pushes of a sequence of frames or messages that were not in another.
NoNewPush(s, u) == \A i \in 1..Len(u) : u[i].t = "push" => In(s, u[i])

LEMMA NoNewPushSame == \A s : NoNewPush(s, s) /\ NoNewPush(s, <<>>)
  <1>1. \A s : NoNewPush(s, s)
    BY DEF NoNewPush, In
  <1>2. \A s : NoNewPush(s, <<>>)
    BY DEF NoNewPush
  <1> QED
    BY <1>1, <1>2

LEMMA NoNewPushTail ==
    ASSUME NEW S, NEW s \in Seq(S), s # <<>>
    PROVE  NoNewPush(s, Tail(s))
  BY TailIn DEF NoNewPush

LEMMA NoNewPushAppend ==
    ASSUME NEW S, NEW s \in Seq(S), NEW x \in S, x.t # "push"
    PROVE  NoNewPush(s, Append(s, x))
  BY AppendIn DEF NoNewPush

LEMMA NoNewPushTwice ==
    ASSUME NEW S, NEW s \in Seq(S), NEW x \in S, NEW y \in S, x.t # "push", y.t # "push"
    PROVE  NoNewPush(s, Append(Append(s, x), y))
  <1>1. PICK u \in Seq(S) : u = Append(s, x)
    BY AppendIs
  <1>2. NoNewPush(s, u)
    BY <1>1, NoNewPushAppend
  <1>3. NoNewPush(u, Append(u, y))
    BY NoNewPushAppend
  <1>4. \A z : In(u, z) /\ z.t = "push" => In(s, z)
    BY <1>2 DEF In, NoNewPush
  <1>5. PICK w : w = Append(u, y)
    OBVIOUS
  <1>6. NoNewPush(s, w)
    BY <1>3, <1>4, <1>5 DEF NoNewPush
  <1> QED
    BY <1>1, <1>5, <1>6

PushAdded(u, f) ==
    \A i \in 1..Len(u) : u[i].t = "push" => In(toCli, u[i]) \/ u[i] = f
LEMMA WireComes ==
    ASSUME Typed, [Next]_vars
    PROVE  \/ NoNewPush(toCli, toCli')
           \/ /\ SrvPush
              /\ \E f \in ClientFrame :
                    /\ f.t = "push" /\ f.rev = sock.pend /\ f.sub = sock.sub /\ f.v = srv.match
                    /\ PushAdded(toCli', f)
                    /\ toCli' = IF link = "up" THEN Append(toCli, f) ELSE toCli
  <1>0. /\ toCli \in Seq(ClientFrame) /\ srv.match \in Versions /\ srv.allow \in BOOLEAN
        /\ sock.pend \in Nat /\ sock.sub \in Nat
    BY DEF Typed, WireTyped, CaptainTyped, Captain, Socket
  <1>1. CASE toCli' = toCli \/ toCli' = <<>>
    BY <1>1, NoNewPushSame
  <1>2. CASE toCli' = Tail(toCli) /\ toCli # <<>>
    BY <1>0, <1>2, NoNewPushTail
  <1>3. ASSUME NEW f \in ClientFrame, f.t # "push",
               toCli' = IF link = "up" THEN Append(toCli, f) ELSE toCli
        PROVE  NoNewPush(toCli, toCli')
    BY <1>0, <1>3, NoNewPushSame, NoNewPushAppend
  <1>4. CASE CaptainWindow
    BY <1>1, <1>4 DEF CaptainWindow, SrvEdit, SrvAllow, SrvPropose, wireVars
  <1>5. CASE SrvAccept
    <2>1. CASE toCli' = <<[t |-> "rejected"]>>
      <3>1. PICK f \in ClientFrame : f = [t |-> "rejected"]
        BY ClientFrames
      <3>2. f.t # "push" /\ toCli' = <<f>>
        BY <2>1, <3>1
      <3>3. Len(<<f>>) = 1 /\ <<f>>[1] = f
        OBVIOUS
      <3>4. \A i \in 1..Len(toCli') : toCli'[i] = f
        BY <3>2, <3>3
      <3> QED
        BY <3>2, <3>4 DEF NoNewPush
    <2> QED
      BY <1>1, <1>5, <2>1 DEF SrvAccept
  <1>6. CASE SrvReceive
    <2>1. toSrv # <<>> /\ toSrv \in Seq(ServerFrame)
      BY <1>6 DEF SrvReceive, Typed, WireTyped
    <2>2. PICK g \in ServerFrame : g = Head(toSrv)
      BY <2>1, TailIs
    <2>3. CASE SrvHello(g)
      <3>1. PICK f \in ClientFrame, h \in ClientFrame :
               f = [t |-> "accepted"] /\ h = [t |-> "policy", ok |-> srv.allow]
        BY <1>0, ClientFrames
      <3>2. f.t # "push" /\ h.t # "push"
        BY <3>1
      <3>3. toCli' = IF link = "up" THEN Append(Append(toCli, f), h) ELSE toCli
        BY <1>0, <2>3, <3>1, ToClientTwo DEF SrvHello
      <3> QED
        BY <1>0, <3>2, <3>3, NoNewPushSame, NoNewPushTwice
    <2>4. CASE SrvRequest(g)
      <3>1. PICK f \in ClientFrame : f = [t |-> "snapshot", id |-> g.id, v |-> srv.match]
        BY <1>0, <2>4, ClientFrames, ServerFrameFields DEF SrvRequest
      <3>2. f.t # "push"
        BY <3>1
      <3>3. toCli' = IF link = "up" THEN Append(toCli, f) ELSE toCli
        BY <1>0, <2>4, <3>1, ToClientOne DEF SrvRequest
      <3> QED
        BY <1>3, <3>2, <3>3
    <2>5. CASE SrvSubscribe(g) \/ SrvProposal(g)
      BY <1>1, <2>5 DEF SrvSubscribe, SrvProposal
    <2> QED
      BY <1>6, <2>2, <2>3, <2>4, <2>5 DEF SrvReceive
  <1>7. CASE SrvPolicy
    <2>1. PICK f \in ClientFrame : f = [t |-> "policy", ok |-> srv.allow]
      BY <1>0, ClientFrames
    <2>2. f.t # "push"
      BY <2>1
    <2>3. toCli' = IF link = "up" THEN Append(toCli, f) ELSE toCli
      BY <1>0, <1>7, <2>1, ToClientOne DEF SrvPolicy
    <2> QED
      BY <1>3, <2>2, <2>3
  <1>8. CASE SrvPush
    <2>1. PICK f \in ClientFrame :
             f = [t |-> "push", rev |-> sock.pend, sub |-> sock.sub, v |-> srv.match]
      BY <1>0, ClientFrames
    <2>2. f.t = "push" /\ f.rev = sock.pend /\ f.sub = sock.sub /\ f.v = srv.match
      BY <2>1
    <2>3. toCli' = IF link = "up" THEN Append(toCli, f) ELSE toCli
      BY <1>0, <1>8, <2>1, ToClientOne DEF SrvPush
    <2>4. PushAdded(toCli', f)
      BY <1>0, <2>3, AppendIn, SelfIn DEF PushAdded
    <2> QED
      BY <1>8, <2>2, <2>3, <2>4
  <1>9. CASE SrvGreeted \/ SrvState \/ SrvObserve \/ SrvLose \/ SrvSendFails
    BY <1>1, <1>9 DEF SrvGreeted, SrvState, SrvObserve, SrvLose, SrvSendFails, wireVars
  <1>10. CASE ClientWindow
    BY <1>1, <1>10 DEF ClientWindow, CliEdit, CliKeys, CliReceive, CliSend, CliRequest, CliApply,
       CliCancel, CliUndo, CliHandle, CliStart, CliStop, wireVars
  <1>11. CASE CliAccepted \/ CliHear
    BY <1>2, <1>11 DEF CliAccepted, CliHear
  <1>12. CASE ClientThread /\ ~(CliAccepted \/ CliHear)
    BY <1>1, <1>12 DEF ClientThread, CliDial, CliBaseline, CliRejected, CliLost, CliSubscribe,
       CliObserve, CliUpload, CliAsk, CliTimeout, wireVars
  <1> QED
    BY <1>1, <1>4, <1>5, <1>6, <1>7, <1>8, <1>9, <1>10, <1>11, <1>12
       DEF Next, CaptainThread, Cut, vars, wireVars

\* What a step does to the box: nothing, handle the head, post a message.
BoxPosted(m) == box' = Posted(box, m) \/ box' = Posted(Append(box, Failed), m)
BoxChange ==
    \/ box' = box
    \/ CliHandle
    \/ BoxPosted(Changed) \/ box' = Posted(box, Failed)
    \/ CliHear
LEMMA BoxStep ==
    ASSUME Typed, [Next]_vars
    PROVE  BoxChange
  <1>1. CASE CaptainWindow \/ CaptainThread \/ Cut \/ UNCHANGED vars
    BY <1>1 DEF CaptainWindow, CaptainThread, SrvEdit, SrvAllow, SrvPropose, SrvAccept, SrvReceive,
         SrvGreeted, SrvState, SrvPolicy, SrvObserve, SrvPush, SrvLose, SrvSendFails, Cut,
         clientVars, vars, BoxChange
  <1>2. CASE ClientWindow
    BY <1>2 DEF ClientWindow, CliEdit, CliKeys, CliReceive, CliSend, CliRequest, CliApply,
       CliCancel, CliUndo, CliStart, CliStop, BoxChange, BoxPosted
  <1>3. CASE CliLost
    BY <1>3, CliLostIs DEF BoxChange, BoxPosted
  <1>4. CASE ClientThread /\ ~CliLost
    BY <1>4 DEF ClientThread, CliDial, CliAccepted, CliBaseline, CliRejected, CliSubscribe,
       CliObserve, CliUpload, CliAsk, CliTimeout, clientVars, BoxChange, BoxPosted
  <1> QED
    BY <1>1, <1>2, <1>3, <1>4 DEF Next

LEMMA PostedNoPush ==
    ASSUME NEW b \in Seq(Message), NEW m \in Message, m.t # "push"
    PROVE  NoNewPush(b, Posted(b, m))
  <1>1. CASE Posted(b, m) = b
    BY <1>1, NoNewPushSame, Zenon
  <1>2. CASE Posted(b, m) = Append(b, m)
    <2>1. NoNewPush(b, Append(b, m))
      BY NoNewPushAppend
    <2> QED
      BY <1>2, <2>1, Zenon
  <1> QED
    BY <1>1, <1>2, PostedIs

LEMMA BoxComes ==
    ASSUME Typed, [Next]_vars
    PROVE  \/ NoNewPush(box, box')
           \/ /\ CliHear /\ Head(toCli).t = "push" /\ cli.recv /\ Head(toCli).sub = cli.sub
              /\ \E m \in Message : /\ m.t = "push" /\ m.rev = Head(toCli).rev
                                    /\ m.v = Head(toCli).v /\ box' = Append(box, m)
  <1>0. box \in Seq(Message) /\ Append(box, Failed) \in Seq(Message)
    BY ClientHere, AppendIs, Messages
  <1>1. CASE box' = box
    BY <1>1, NoNewPushSame
  <1>2. CASE CliHandle
    BY <1>0, <1>2, NoNewPushTail DEF CliHandle
  <1>3. CASE BoxPosted(Changed)
    <2>1. CASE box' = Posted(box, Changed)
      BY <1>0, <2>1, PostedNoPush, Messages
    <2>2. CASE box' = Posted(Append(box, Failed), Changed)
      <3>1. PICK u \in Seq(Message) : u = Append(box, Failed)
        BY <1>0
      <3>2. NoNewPush(box, u) /\ box' = Posted(u, Changed)
        BY <1>0, <2>2, <3>1, NoNewPushAppend, Messages
      <3>3. CASE Posted(u, Changed) = u
        BY <3>2, <3>3
      <3>4. CASE Posted(u, Changed) = Append(u, Changed)
        <4>1. box' = Append(Append(box, Failed), Changed)
          BY <3>1, <3>2, <3>4
        <4> QED
          BY <1>0, <4>1, NoNewPushTwice, Messages
      <3> QED
        BY <3>1, <3>3, <3>4, PostedIs, Messages
    <2> QED
      BY <1>3, <2>1, <2>2 DEF BoxPosted
  <1>4. CASE box' = Posted(box, Failed)
    BY <1>0, <1>4, PostedNoPush, Messages
  <1>5. CASE CliHear
    <2>1. ASSUME NEW m \in Message, box' = Posted(box, m), m.t # "push"
          PROVE  NoNewPush(box, box')
      BY <1>0, <2>1, PostedNoPush
    <2>2. ASSUME NEW m \in Message, box' = Posted(box, m), m.t = "push"
          PROVE  box' = Append(box, m)
      BY <1>0, <2>2, PostedIs
    <2> QED
      BY <1>1, <1>5, <2>1, <2>2, CliHearIs
  <1> QED
    BY <1>1, <1>2, <1>3, <1>4, <1>5, BoxStep DEF BoxChange

-----------------------------------------------------------------------------
(* Revisions                                                               *)

\* A step leaves the captain's state alone or gives it a new revision.
SameRevision == srv'.rev = srv.rev /\ srv'.match = srv.match
ToldNext(r, v) == r <= srv'.rev /\ (r = srv'.rev => v = srv'.match)

LEMMA RevisionStep ==
    ASSUME Typed, [Next]_vars
    PROVE  srv.rev \in Nat /\ (SameRevision \/ srv'.rev = srv.rev + 1)
  <1>0. srv \in Captain /\ srv.rev \in Nat
    BY DEF Typed, CaptainTyped, Captain
  <1>1. CASE SrvEdit
    <2>1. PICK r \in Nat : r = srv.rev + 1
      BY <1>0
    <2>2. PICK m : m = Len(edits')
      OBVIOUS
    <2>3. srv' = [srv EXCEPT !.match = m, !.rev = r]
      BY <1>1, <2>1, <2>2 DEF SrvEdit
    <2> QED
      BY <1>0, <2>1, <2>3 DEF Captain
  <1>2. CASE SrvAllow
    BY <1>0, <1>2 DEF SrvAllow, Captain, SameRevision
  <1>3. CASE SrvPropose
    <2>1. PICK p, rest : p = Head(srv.posted) /\ rest = Tail(srv.posted)
      OBVIOUS
    <2>2. PICK m, r : /\ m = IF MayApply(p) THEN p ELSE srv.match
                      /\ r = IF MayApply(p) /\ p # srv.match THEN srv.rev + 1 ELSE srv.rev
      OBVIOUS
    <2>3. srv' = [srv EXCEPT !.posted = rest, !.match = m, !.rev = r]
      BY <1>3, <2>1, <2>2 DEF SrvPropose
    <2>4. srv'.match = m /\ srv'.rev = r
      BY <1>0, <2>3 DEF Captain
    <2>5. CASE MayApply(p) /\ p # srv.match
      BY <1>0, <2>2, <2>4, <2>5
    <2>6. CASE ~(MayApply(p) /\ p # srv.match)
      BY <1>0, <2>2, <2>4, <2>6 DEF SameRevision
    <2> QED
      BY <2>5, <2>6
  <1>4. CASE SrvReceive
    BY <1>0, <1>4 DEF SrvReceive, SrvHello, SrvRequest, SrvSubscribe, SrvProposal, Captain,
       SameRevision
  <1>5. CASE CaptainThread /\ ~SrvReceive
    BY <1>0, <1>5 DEF CaptainThread, SrvAccept, SrvGreeted, SrvState, SrvPolicy, SrvObserve, SrvPush,
       SrvLose, SrvSendFails, SameRevision
  <1>6. CASE ClientWindow
    BY <1>0, <1>6 DEF ClientWindow, CliEdit, CliKeys, CliReceive, CliSend, CliRequest, CliApply,
       CliCancel, CliUndo, CliHandle, CliStart, CliStop, captainVars, SameRevision
  <1>7. CASE ClientThread \/ Cut \/ UNCHANGED vars
    BY <1>0, <1>7 DEF ClientThread, CliDial, CliAccepted, CliBaseline, CliRejected, CliLost, CliSubscribe,
       CliObserve, CliUpload, CliAsk, CliTimeout, CliHear, Cut, vars, captainVars, SameRevision
  <1> QED
    BY <1>1, <1>2, <1>3, <1>4, <1>5, <1>6, <1>7 DEF Next, CaptainWindow

LEMMA ToldStays ==
    ASSUME Typed, [Next]_vars, NEW r \in Nat, NEW v, Told(r, v)
    PROVE  ToldNext(r, v)
  BY RevisionStep DEF Told, ToldNext, SameRevision

RefusedNext(r) == r <= srv'.rev /\ (r = srv'.rev => srv'.match \in Invalid)
LEMMA RefusedStays ==
    ASSUME Typed, [Next]_vars, NEW r \in Nat, Refused(r)
    PROVE  RefusedNext(r)
  BY RevisionStep DEF Refused, RefusedNext, SameRevision

\* What TakenOK says of a step, its disjuncts hidden behind names.
TakenNext(r) == Comes(box', cli'.was, r) \/ (cli'.was /\ cli'.last >= r) \/ RefusedNext(r)
LEMMA TakenOKBy ==
    ASSUME NEW r, r = run'.last,
           run'.at = "run" /\ run'.sub = cli'.sub /\ cli'.recv /\ r > 0 => TakenNext(r)
    PROVE  TakenOK'
  BY DEF TakenOK, TakenNext, Refused, RefusedNext

LEMMA PendStep ==
    ASSUME Typed, [Next]_vars, sock.pend <= srv.rev
    PROVE  sock'.pend <= srv'.rev
  <1>0. sock \in Socket /\ sock.pend \in Nat /\ srv.rev \in Nat
    BY DEF Typed, CaptainTyped, Captain, Socket
  <1>1. CASE sock'.pend = sock.pend
    BY <1>0, <1>1, RevisionStep DEF SameRevision
  <1>2. CASE SrvReceive
    <2>1. srv'.rev = srv.rev
      <3>1. srv \in Captain
        BY DEF Typed, CaptainTyped
      <3> QED
        BY <1>2, <3>1 DEF SrvReceive, SrvHello, SrvRequest, SrvSubscribe, SrvProposal, Captain
    <2>2. sock'.pend \in {sock.pend, srv.rev}
      BY <1>0, <1>2 DEF SrvReceive, SrvHello, SrvRequest, SrvSubscribe, SrvProposal, Socket
    <2> QED
      BY <1>0, <2>1, <2>2
  <1>3. CASE SrvObserve
    <2>1. sock'.pend = srv.rev /\ srv' = srv
      BY <1>0, <1>3 DEF SrvObserve, Socket
    <2> QED
      BY <1>0, <2>1
  <1>4. CASE CaptainThread /\ ~SrvReceive /\ ~SrvObserve
    <2>1. SrvAccept => sock'.pend = sock.pend
      BY <1>0 DEF SrvAccept, NoClient
    <2>2. CaptainThread /\ ~SrvReceive /\ ~SrvObserve /\ ~SrvAccept => sock'.pend = sock.pend
      BY <1>0 DEF CaptainThread, SrvGreeted, SrvState, SrvPolicy, SrvPush, SrvLose, SrvForget, Closed,
         SrvSendFails, Socket
    <2> QED
      BY <1>1, <1>4, <2>1, <2>2
  <1>5. CASE CaptainWindow \/ ClientWindow
    BY <1>1, <1>5 DEF CaptainWindow, SrvEdit, SrvAllow, SrvPropose, ClientWindow, CliEdit, CliKeys,
       CliReceive, CliSend, CliRequest, CliApply, CliCancel, CliUndo, CliHandle, CliStart, CliStop,
       captainVars
  <1>6. CASE ClientThread \/ Cut \/ UNCHANGED vars
    BY <1>1, <1>6 DEF ClientThread, CliDial, CliAccepted, CliBaseline, CliRejected, CliLost, CliSubscribe,
       CliObserve, CliUpload, CliAsk, CliTimeout, CliHear, Cut, vars, captainVars
  <1> QED
    BY <1>2, <1>3, <1>4, <1>5, <1>6 DEF Next

\* What the window has, and how old it is.
WindowTold == cli.last <= srv.rev /\ (~own.since => Told(cli.last, cli.match))
WindowAs == cli'.last \in {0, cli.last} /\ cli'.match = cli.match /\ own'.since = own.since
LEMMA WindowToldStep ==
    ASSUME Typed, ToldOK, [Next]_vars
    PROVE  WindowTold'
  <1>0. /\ cli.last \in Nat /\ srv.rev \in Nat /\ srv.rev >= 1 /\ cli.last <= srv.rev
        /\ srv'.rev \in Nat /\ srv'.rev >= srv.rev
    <2>1. cli.last \in Nat
      BY ClientHere
    <2>2. cli.last <= srv.rev
      BY DEF ToldOK
    <2>3. srv.rev \in Nat /\ srv.rev >= 1 /\ srv'.rev \in Nat /\ srv'.rev >= srv.rev
      <3>1. srv.rev >= 1
        BY DEF ToldOK
      <3> QED
        BY <3>1, RevisionStep DEF SameRevision
    <2> QED
      BY <2>1, <2>2, <2>3
  <1>1. CASE WindowAs
    <2>1. cli'.last <= srv'.rev
      BY <1>0, <1>1 DEF WindowAs
    <2>2. ASSUME ~own'.since PROVE ToldNext(cli'.last, cli'.match)
      <3>1. Told(cli.last, cli.match)
        BY <1>1, <2>2 DEF ToldOK, WindowAs
      <3>2. CASE cli'.last = cli.last
        BY <1>0, <1>1, <3>1, <3>2, ToldStays DEF WindowAs
      <3>3. CASE cli'.last = 0
        BY <1>0, <3>3 DEF ToldNext
      <3> QED
        BY <1>1, <3>2, <3>3 DEF WindowAs
    <2> QED
      BY <2>1, <2>2 DEF WindowTold, Told, ToldNext
  <1>2. CASE cli'.last = cli.last /\ own'.since
    BY <1>0, <1>2 DEF WindowTold
  <1>3. CASE CaptainWindow \/ CaptainThread \/ Cut \/ UNCHANGED vars
    <2>1. own' = own /\ cli' = cli
      BY <1>3 DEF CaptainWindow, CaptainThread, SrvEdit, SrvAllow, SrvPropose, SrvAccept, SrvReceive,
         SrvGreeted, SrvState, SrvPolicy, SrvObserve, SrvPush, SrvLose, SrvSendFails, Cut,
         historyVars, clientVars, vars
    <2> QED
      BY <1>1, <2>1 DEF WindowAs
  <1>4. CASE CliEdit \/ CliUndo
    BY <1>2, <1>4, CliEditIs, CliUndoIs, OwnChangeIs
  <1>5. CASE CliKeys \/ CliReceive \/ CliSend \/ CliRequest
    BY <1>1, <1>5, CliKeysIs, CliReceiveIs, CliSendIs, CliRequestIs
       DEF CliKeys, CliReceive, CliSend, CliRequest, SameState, WindowAs
  <1>6. CASE CliApply
    <2>1. CASE SameState(cli, cli') /\ own' = own
      BY <1>1, <2>1 DEF WindowAs, SameState
    <2> QED
      BY <1>2, <1>6, <2>1, CliApplyIs, OwnChangeIs
  <1>7. CASE CliCancel
    BY <1>1, <1>7, NothingOfferedOK, ClientHere DEF CliCancel, historyVars, WindowAs, SameState
  <1>8. CASE CliHandle
    <2>1. box # <<>> /\ box \in Seq(Message)
      BY <1>8, ClientHere DEF CliHandle
    <2>2. Head(box) \in Message /\ Head(box) = box[1] /\ 1 \in 1..Len(box)
      BY <2>1, TailIs
    <2>3. CASE LooksAtStatus(Head(box))
      BY <1>1, <2>3, LooksAtStatusIs DEF WindowAs
    <2>4. CASE TakesPush(Head(box))
      <3>1. PICK m \in Message : m = Head(box)
        BY <2>2
      <3>2. m.t = "push" /\ m.rev \in Nat /\ Told(m.rev, m.v)
        BY <2>2, <2>4, <3>1, TakesPushIs DEF ToldOK
      <3>3. CASE cli'.match = m.v /\ cli'.last = m.rev
        BY <1>0, <3>2, <3>3, ToldStays DEF WindowTold, Told, ToldNext
      <3>4. CASE cli' = cli /\ own' = own
        BY <1>1, <3>4 DEF WindowAs
      <3> QED
        BY <2>4, <3>1, <3>3, <3>4, TakesPushIs
    <2>5. CASE TakesAnswer(Head(box))
      BY <1>1, <2>2, <2>5, TakesAnswerIs DEF WindowAs, SameState
    <2> QED
      BY <1>8, <2>3, <2>4, <2>5 DEF CliHandle
  <1>9. CASE CliStart
    BY <1>1, <1>9, CliStartIs DEF CliStart, WindowAs, SameState
  <1>10. CASE CliStop
    BY <1>1, <1>10, CliStopIs DEF CliStop, WindowAs, historyVars
  <1>11. CASE CliDial \/ CliAccepted \/ CliBaseline \/ CliRejected \/ CliObserve \/ CliAsk
    BY <1>1, <1>11 DEF CliDial, CliAccepted, CliBaseline, CliRejected, CliObserve, CliAsk, WindowAs,
       historyVars, clientVars
  <1>12. CASE CliLost
    BY <1>1, <1>12, CliLostIs DEF CliLost, WindowAs, historyVars, SameState
  <1>13. CASE CliSubscribe
    BY <1>1, <1>13 DEF CliSubscribe, WindowAs, historyVars
  <1>14. CASE CliUpload
    BY <1>1, <1>14, CliUploadIs DEF CliUpload, WindowAs
  <1>15. CASE CliTimeout
    BY <1>1, <1>15, RequestEnded DEF CliTimeout, SameWindow, SameState, WindowAs, historyVars
  <1>16. CASE CliHear
    <2>1. own' = own
      BY <1>16 DEF CliHear, historyVars
    <2> QED
      BY <1>1, <1>16, <2>1, CliHearIs DEF SameWindow, SameState, WindowAs
  <1> QED
    BY <1>3, <1>4, <1>5, <1>6, <1>7, <1>8, <1>9, <1>10, <1>11, <1>12, <1>13, <1>14, <1>15, <1>16
       DEF Next, ClientWindow, ClientThread

AllToldNext(s) == \A i \in 1..Len(s) : s[i].t = "push" => ToldNext(s[i].rev, s[i].v)

LEMMA ToldStep ==
    ASSUME Typed, ToldOK, [Next]_vars
    PROVE  ToldOK'
  <1>0. /\ toCli \in Seq(ClientFrame) /\ box \in Seq(Message)
        /\ toCli' \in Seq(ClientFrame) /\ box' \in Seq(Message)
        /\ srv.rev \in Nat /\ sock.pend \in Nat /\ srv.rev >= 1 /\ sock.pend <= srv.rev
    <2>1. Typed'
      BY TypeStep
    <2>2. toCli' \in Seq(ClientFrame) /\ box' \in Seq(Message)
      BY <2>1 DEF Typed, WireTyped, ClientTyped
    <2> QED
      BY <2>2 DEF Typed, WireTyped, ClientTyped, CaptainTyped, Captain, Socket, ToldOK
  <1>1. \A f : In(toCli, f) /\ f.t = "push" => ToldNext(f.rev, f.v)
    <2> SUFFICES ASSUME NEW j \in 1..Len(toCli), toCli[j].t = "push"
                 PROVE  ToldNext(toCli[j].rev, toCli[j].v)
      BY DEF In
    <2>1. PICK f \in ClientFrame : f = toCli[j]
      BY <1>0
    <2>2. f.rev \in Nat /\ Told(f.rev, f.v)
      BY <2>1, ClientFrameFields DEF ToldOK
    <2> QED
      BY <2>1, <2>2, ToldStays
  <1>2. \A m : In(box, m) /\ m.t = "push" => ToldNext(m.rev, m.v)
    <2> SUFFICES ASSUME NEW j \in 1..Len(box), box[j].t = "push"
                 PROVE  ToldNext(box[j].rev, box[j].v)
      BY DEF In
    <2>1. PICK m \in Message : m = box[j]
      BY <1>0
    <2>2. m.rev \in Nat /\ Told(m.rev, m.v)
      BY <2>1, MessageFields DEF ToldOK
    <2> QED
      BY <2>1, <2>2, ToldStays
  <1>3. AllToldNext(toCli')
    <2>1. CASE NoNewPush(toCli, toCli')
      BY <1>1, <2>1 DEF NoNewPush, AllToldNext
    <2>2. ASSUME SrvPush, NEW f \in ClientFrame, f.t = "push", f.rev = sock.pend,
                 f.v = srv.match, PushAdded(toCli', f)
          PROVE  AllToldNext(toCli')
      <3>1. Told(f.rev, f.v) /\ f.rev \in Nat
        BY <1>0, <2>2 DEF Told
      <3>2. ToldNext(f.rev, f.v)
        BY <3>1, ToldStays
      <3> QED
        BY <1>1, <2>2, <3>2 DEF PushAdded, AllToldNext
    <2> QED
      BY <2>1, <2>2, WireComes
  <1>4. AllToldNext(box')
    <2>1. CASE NoNewPush(box, box')
      BY <1>2, <2>1 DEF NoNewPush, AllToldNext
    <2>2. ASSUME CliHear, NEW m \in Message, m.t = "push", Head(toCli).t = "push",
                 m.rev = Head(toCli).rev, m.v = Head(toCli).v, box' = Append(box, m)
          PROVE  AllToldNext(box')
      <3>1. toCli # <<>>
        BY <2>2 DEF CliHear
      <3>2. In(toCli, Head(toCli))
        BY <1>0, <3>1, TailIn
      <3>3. ToldNext(m.rev, m.v)
        BY <1>1, <2>2, <3>2
      <3>4. \A i \in 1..Len(box') : In(box, box'[i]) \/ box'[i] = m
        BY <1>0, <2>2, AppendIn
      <3> QED
        BY <1>2, <3>3, <3>4 DEF AllToldNext
    <2> QED
      BY <2>1, <2>2, BoxComes
  <1>5. srv'.rev >= 1 /\ sock'.pend <= srv'.rev
    BY <1>0, RevisionStep, PendStep DEF SameRevision
  <1> QED
    BY <1>3, <1>4, <1>5, WindowToldStep
       DEF ToldOK, WindowTold, AllToldNext, Told, ToldNext

-----------------------------------------------------------------------------
(* Subscriptions                                                           *)

SubscriptionAs ==
    /\ cli'.sub = cli.sub /\ cli'.recv = cli.recv
    /\ run'.at = run.at /\ run'.sub = run.sub /\ run'.on = run.on
    /\ stat'.connected = stat.connected

\* The thread starts over, unconnected.
StartsOver ==
    /\ cli'.sub = cli.sub /\ cli'.recv = cli.recv
    /\ run'.at \in {"off", "dial"} /\ run'.sub = 0 /\ run'.on = FALSE
    /\ stat'.connected = FALSE

LEMMA StartsOverBy ==
    ASSUME Typed, CliStart \/ CliStop \/ CliRejected \/ CliLost
    PROVE  StartsOver /\ link' = "none" /\ toCli' = <<>>
  <1>1. CASE CliStart
    BY <1>1, CliStartIs DEF StartsOver
  <1>2. CASE CliStop
    BY <1>2, CliStopIs DEF StartsOver
  <1>3. CASE CliRejected
    BY <1>3, CliRejectedIs DEF StartsOver, CliRejected
  <1>4. CASE CliLost
    BY <1>4, CliLostIs DEF StartsOver, CliLost
  <1> QED
    BY <1>1, <1>2, <1>3, <1>4

\* Every action but those of the subscription and of the connection leaves both
\* alone.
Others ==
    \/ CaptainWindow \/ CaptainThread \/ Cut \/ UNCHANGED vars
    \/ CliEdit \/ CliKeys \/ CliRequest \/ CliApply \/ CliCancel \/ CliUndo \/ CliHandle
    \/ CliDial \/ CliObserve \/ CliUpload \/ CliAsk \/ CliTimeout \/ CliHear
NextCases ==
    Others \/ CliReceive \/ CliSend \/ CliSubscribe \/ CliAccepted \/ CliBaseline
    \/ CliStart \/ CliStop \/ CliRejected \/ CliLost
LEMMA NextIs == [Next]_vars => NextCases
  BY DEF Next, NextCases, Others, ClientWindow, ClientThread

LEMMA HandleAs ==
    ASSUME Typed, CliHandle
    PROVE  /\ run' = run /\ cli'.sub = cli.sub /\ cli'.recv = cli.recv
           /\ stat'.connected = stat.connected
           /\ stat'.subscribed = stat.subscribed
                \/ (stat'.subscribed = (cli.recv /\ stat.connected) /\ stat.connected)
  <1>1. Head(box) \in Message /\ run' = run
    BY ClientHere, TailIs DEF CliHandle
  <1>2. CASE LooksAtStatus(Head(box))
    BY <1>1, <1>2, LooksAtStatusIs
  <1>3. CASE TakesPush(Head(box))
    BY <1>1, <1>3, TakesPushIs DEF SameBut
  <1>4. CASE TakesAnswer(Head(box))
    BY <1>1, <1>4, TakesAnswerIs DEF SameBut
  <1> QED
    BY <1>1, <1>2, <1>3, <1>4 DEF CliHandle

LEMMA OthersAs ==
    ASSUME Typed, Others
    PROVE  /\ SubscriptionAs
           /\ \/ stat'.subscribed = stat.subscribed
              \/ stat'.subscribed = (cli.recv /\ stat.connected) /\ stat.connected
  <1>1. CASE cli' = cli /\ run' = run /\ stat' = stat
    BY <1>1 DEF SubscriptionAs
  <1>2. CASE CaptainWindow \/ CaptainThread \/ Cut \/ UNCHANGED vars
    BY <1>1, <1>2 DEF CaptainWindow, CaptainThread, SrvEdit, SrvAllow, SrvPropose, SrvAccept,
       SrvReceive, SrvGreeted, SrvState, SrvPolicy, SrvObserve, SrvPush, SrvLose, SrvSendFails, Cut,
       clientVars, vars
  <1>3. CASE CliEdit \/ CliKeys \/ CliRequest \/ CliApply \/ CliUndo
    <2>1. run' = run /\ stat' = stat
      BY <1>3 DEF CliEdit, CliKeys, CliRequest, CliApply, CliUndo
    <2>2. cli'.sub = cli.sub /\ cli'.recv = cli.recv
      BY <1>3, CliEditIs, CliKeysIs, CliRequestIs, CliApplyIs, CliUndoIs DEF SameBut
    <2> QED
      BY <2>1, <2>2 DEF SubscriptionAs
  <1>4. CASE CliCancel
    BY <1>4, NothingOfferedOK, ClientHere DEF CliCancel, SubscriptionAs, SameBut
  <1>5. CASE CliHandle
    BY <1>5, HandleAs DEF SubscriptionAs
  <1>6. CASE CliDial
    BY <1>1, <1>6 DEF CliDial, clientVars
  <1>7. CASE CliObserve \/ CliUpload \/ CliAsk
    <2>1. cli' = cli /\ stat' = stat
      BY <1>7 DEF CliObserve, CliUpload, CliAsk
    <2>2. run'.at = run.at /\ run'.sub = run.sub /\ run'.on = run.on
      BY <1>7, CliObserveIs, CliUploadIs, CliAskIs
    <2> QED
      BY <2>1, <2>2 DEF SubscriptionAs
  <1>8. CASE CliTimeout
    BY <1>8, RequestEnded DEF CliTimeout, SameWindow, SameThread, SubscriptionAs
  <1>9. CASE CliHear
    BY <1>9, CliHearIs DEF SameWindow, SameThread, SubscriptionAs
  <1> QED
    BY <1>2, <1>3, <1>4, <1>5, <1>6, <1>7, <1>8, <1>9 DEF Others

LEMMA NumbersStep ==
    ASSUME Typed, NumbersOK, [Next]_vars
    PROVE  NumbersOK'
  <1>0. /\ cli.sub \in Nat /\ run.sub \in Nat /\ cli.recv \in BOOLEAN /\ run.on \in BOOLEAN
        /\ run.at \in {"off", "dial", "start", "run"} /\ stat.subscribed \in BOOLEAN
        /\ stat.connected \in BOOLEAN
    BY ClientHere
  <1>1. CASE Others
    BY <1>0, <1>1, OthersAs DEF SubscriptionAs, NumbersOK
  <1>2. CASE CliReceive
    <2>1. /\ cli'.sub = cli.sub + 1 /\ run' = run /\ stat'.connected = stat.connected
      BY <1>2, CliReceiveIs
    <2> QED
      BY <1>0, <2>1 DEF NumbersOK
  <1>3. CASE CliSend
    <2>1. run' = run /\ stat'.connected = stat.connected
      BY <1>3, CliSendIs
    <2>2. CASE cli'.sub = cli.sub + 1
      BY <1>0, <2>1, <2>2 DEF NumbersOK
    <2>3. CASE cli'.sub = cli.sub /\ cli'.recv = cli.recv /\ stat' = stat
      BY <1>0, <2>1, <2>3 DEF NumbersOK
    <2> QED
      BY <1>3, <2>2, <2>3, CliSendIs
  <1>4. CASE CliSubscribe
    <2>1. /\ run'.at = "run" /\ run'.sub = cli.sub /\ run'.on = cli.recv /\ cli' = cli
          /\ stat'.connected = stat.connected /\ stat'.subscribed = cli.recv /\ run.at = "run"
          /\ cli.sub # 0
      BY <1>4, CliSubscribeIs DEF CliSubscribe
    <2> QED
      BY <1>0, <2>1 DEF NumbersOK
  <1>5. CASE CliAccepted
    <2>1. /\ run'.at = "start" /\ run'.sub = 0 /\ run'.on = FALSE /\ cli' = cli
          /\ stat'.connected = TRUE
      BY <1>5, CliAcceptedIs DEF CliAccepted
    <2>2. cli.sub = 0 => cli.recv = FALSE
      BY <1>0 DEF NumbersOK
    <2>3. run'.sub <= cli'.sub
      BY <1>0, <2>1
    <2>4. cli'.sub = 0 => ~cli'.recv
      BY <2>1, <2>2
    <2>5. run'.sub = cli'.sub => run'.on = cli'.recv
      BY <2>1, <2>2
    <2> QED
      BY <2>1, <2>2, <2>3, <2>4, <2>5 DEF NumbersOK
  <1>6. CASE CliStart \/ CliStop \/ CliRejected \/ CliLost
    <2>1. StartsOver
      BY <1>6, StartsOverBy
    <2>2. cli.sub = 0 => cli.recv = FALSE
      BY <1>0 DEF NumbersOK
    <2>3. run'.sub <= cli'.sub
      BY <1>0, <2>1 DEF StartsOver
    <2>4. cli'.sub = 0 => ~cli'.recv
      BY <2>1, <2>2 DEF StartsOver
    <2>5. run'.sub = cli'.sub => run'.on = cli'.recv
      BY <2>1, <2>2 DEF StartsOver
    <2> QED
      BY <2>1, <2>2, <2>3, <2>4, <2>5 DEF StartsOver, NumbersOK
  <1>7. CASE CliBaseline
    <2>1. /\ run.at = "start" /\ run'.at = "run" /\ run'.sub = run.sub /\ run'.on = run.on
          /\ cli' = cli /\ stat' = stat
      BY <1>7, CliBaselineIs DEF CliBaseline
    <2> QED
      BY <1>0, <2>1 DEF NumbersOK
  <1> QED
    BY <1>1, <1>2, <1>3, <1>4, <1>5, <1>6, <1>7, NextIs DEF NextCases

\* What the captain learns from the frames on their way, as they come and go.
LEMMA LearnsOther ==
    ASSUME NEW s \in Seq(ServerFrame), NEW f \in ServerFrame, f.t # "subscribe",
           NEW k \in Nat, NEW ko, NEW n \in Nat, NEW no, LearnsFrom(s, k, ko, n, no)
    PROVE  LearnsFrom(Append(s, f), k, ko, n, no)
  <1>1. PICK u : u = Append(s, f)
    OBVIOUS
  <1>2. /\ Len(u) = Len(s) + 1 /\ Len(s) \in Nat /\ (\A i \in 1..Len(s) : u[i] = s[i])
        /\ u[Len(s) + 1] = f
    BY <1>1, AppendIs
  <1>3. \A i \in 1..Len(u) : u[i].t = "subscribe" => i \in 1..Len(s) /\ u[i] = s[i]
    <2> SUFFICES ASSUME NEW i \in 1..Len(u), u[i].t = "subscribe"
                 PROVE  i \in 1..Len(s) /\ u[i] = s[i]
      OBVIOUS
    <2>1. i # Len(s) + 1
      BY <1>2
    <2> QED
      BY <1>2, <2>1
  <1>4. \A i \in 1..Len(s) : i \in 1..Len(u) /\ u[i] = s[i]
    BY <1>2
  <1>5. LearnsFrom(u, k, ko, n, no)
    BY <1>3, <1>4 DEF LearnsFrom
  <1> QED
    BY <1>1, <1>5

LEMMA LearnsSubscription ==
    ASSUME NEW s \in Seq(ServerFrame), NEW f \in ServerFrame, f.t = "subscribe",
           NEW k \in Nat, NEW ko, NEW n \in Nat, NEW no, LearnsFrom(s, k, ko, n, no),
           n <= f.sub
    PROVE  LearnsFrom(Append(s, f), k, ko, f.sub, f.on)
  <1>0. f.sub \in Nat
    BY ServerFrameFields
  <1>1. PICK u : u = Append(s, f)
    OBVIOUS
  <1>2. /\ Len(u) = Len(s) + 1 /\ Len(s) \in Nat /\ (\A i \in 1..Len(s) : u[i] = s[i])
        /\ u[Len(s) + 1] = f
    BY <1>1, AppendIs
  <1>3. k <= f.sub
    BY <1>0 DEF LearnsFrom
  <1>4. ASSUME NEW i \in 1..Len(u), u[i].t = "subscribe" PROVE u[i].sub <= f.sub
    <2>1. CASE i = Len(s) + 1
      BY <1>0, <1>2, <2>1
    <2>2. CASE i \in 1..Len(s)
      <3>1. s[i] \in ServerFrame /\ s[i].t = "subscribe" /\ s[i].sub <= n
        BY <1>2, <1>4, <2>2 DEF LearnsFrom
      <3>2. s[i].sub \in Nat
        BY <3>1, ServerFrameFields
      <3> QED
        BY <1>0, <1>2, <2>2, <3>1, <3>2
    <2> QED
      BY <1>2, <2>1, <2>2
  <1>5. ~\A i \in 1..Len(u) : u[i].t # "subscribe"
    BY <1>2
  <1>6. ASSUME NEW i \in 1..Len(u), \A j \in 1..Len(u) : j > i => u[j].t # "subscribe"
        PROVE  u[i] = f
    <2>1. Len(s) + 1 \in 1..Len(u)
      BY <1>2
    <2>2. ~(Len(s) + 1 > i)
      BY <1>2, <1>6, <2>1
    <2> QED
      BY <1>2, <2>2
  <1>7. LearnsFrom(u, k, ko, f.sub, f.on)
    BY <1>3, <1>4, <1>5, <1>6 DEF LearnsFrom
  <1> QED
    BY <1>1, <1>7

LEMMA LearnsTail ==
    ASSUME NEW s \in Seq(ServerFrame), s # <<>>,
           NEW k \in Nat, NEW ko, NEW n \in Nat, NEW no, LearnsFrom(s, k, ko, n, no)
    PROVE  /\ Head(s).t # "subscribe" => LearnsFrom(Tail(s), k, ko, n, no)
           /\ Head(s).t = "subscribe" => LearnsFrom(Tail(s), Head(s).sub, Head(s).on, n, no)
  <1>1. PICK u : u = Tail(s)
    OBVIOUS
  <1>2. /\ Len(u) = Len(s) - 1 /\ Len(s) \in Nat \ {0} /\ Head(s) = s[1]
        /\ \A i \in 1..(Len(s) - 1) : u[i] = s[i + 1]
    BY <1>1, TailIs
  <1>3. \A i \in 1..Len(u) : i + 1 \in 1..Len(s) /\ u[i] = s[i + 1]
    BY <1>2
  <1>4. \A j \in 1..Len(s) : j = 1 \/ (j - 1 \in 1..Len(u) /\ u[j - 1] = s[j])
    <2> SUFFICES ASSUME NEW j \in 1..Len(s), j # 1
                 PROVE  j - 1 \in 1..Len(u) /\ u[j - 1] = s[j]
      OBVIOUS
    <2>1. j - 1 \in 1..(Len(s) - 1) /\ (j - 1) + 1 = j
      BY <1>2
    <2> QED
      BY <1>2, <2>1
  <1>5. \A i \in 1..Len(u) : u[i].t = "subscribe" => u[i].sub <= n
    BY <1>3 DEF LearnsFrom
  <1>6. ASSUME NEW i \in 1..Len(u), u[i].t = "subscribe",
               \A j \in 1..Len(u) : j > i => u[j].t # "subscribe"
        PROVE  u[i].sub = n /\ u[i].on = no
    <2>1. ASSUME NEW j \in 1..Len(s), j > i + 1 PROVE s[j].t # "subscribe"
      <3>1. j # 1 /\ j - 1 > i
        BY <1>2, <2>1
      <3> QED
        BY <1>4, <1>6, <3>1
    <2>2. i + 1 \in 1..Len(s) /\ s[i + 1].t = "subscribe" /\ u[i] = s[i + 1]
      BY <1>3, <1>6
    <2> QED
      BY <2>1, <2>2 DEF LearnsFrom
  <1>7. CASE Head(s).t # "subscribe"
    <2>1. (\A i \in 1..Len(u) : u[i].t # "subscribe") => \A j \in 1..Len(s) : s[j].t # "subscribe"
      BY <1>2, <1>4, <1>7
    <2>2. LearnsFrom(u, k, ko, n, no)
      BY <1>5, <1>6, <2>1 DEF LearnsFrom
    <2> QED
      BY <1>1, <1>7, <2>2
  <1>8. CASE Head(s).t = "subscribe"
    <2>0. 1 \in 1..Len(s) /\ s[1].t = "subscribe"
      BY <1>2, <1>8
    <2>1. s[1].sub <= n
      BY <2>0 DEF LearnsFrom
    <2>2. (\A i \in 1..Len(u) : u[i].t # "subscribe") =>
            \A j \in 1..Len(s) : j > 1 => s[j].t # "subscribe"
      BY <1>2, <1>4
    <2>3. (\A i \in 1..Len(u) : u[i].t # "subscribe") => s[1].sub = n /\ s[1].on = no
      BY <2>0, <2>2 DEF LearnsFrom
    <2>4. LearnsFrom(u, s[1].sub, s[1].on, n, no)
      BY <1>5, <1>6, <2>1, <2>3 DEF LearnsFrom
    <2> QED
      BY <1>1, <1>2, <1>8, <2>4
  <1> QED
    BY <1>7, <1>8

LEMMA LearnsHello == \A o : LearnsFrom(<<[t |-> "hello"]>>, 0, o, 0, o)
  <1>1. PICK f \in ServerFrame : f = [t |-> "hello"]
    BY ServerFrames
  <1>2. PICK u : u = <<f>>
    OBVIOUS
  <1>3. Len(u) = 1 /\ u[1] = f /\ f.t # "subscribe"
    BY <1>1, <1>2
  <1>4. \A i \in 1..Len(u) : u[i].t # "subscribe"
    BY <1>3
  <1>5. \A o : LearnsFrom(u, 0, o, 0, o)
    BY <1>4 DEF LearnsFrom
  <1> QED
    BY <1>1, <1>2, <1>5

LEMMA LinkStep ==
    ASSUME Typed, LinkOK, [Next]_vars
    PROVE  LinkOK'
  <1>0. toCli \in Seq(ClientFrame)
    BY DEF Typed, WireTyped
  <1>1. CASE CliStart \/ CliStop \/ CliRejected \/ CliLost
    BY <1>1, StartsOverBy DEF StartsOver, LinkOK
  <1>2. CASE CliAccepted
    BY <1>2 DEF CliAccepted, LinkOK
  <1>10. CASE CliBaseline
    BY <1>10 DEF CliBaseline, wireVars, LinkOK
  <1>3. CASE CliDial
    BY <1>3 DEF CliDial, clientVars, LinkOK
  <1>4. CASE SrvAccept
    BY <1>4 DEF SrvAccept, LinkOK
  <1>5. CASE SrvLose
    BY <1>5 DEF SrvLose, SrvForget, HangUp, clientVars, LinkOK
  <1>6. CASE Cut
    BY <1>6 DEF Cut, LinkOK
  <1>7. CASE CliHear
    BY <1>7 DEF CliHear, LinkOK
  <1>8. CASE (CaptainThread \/ CaptainWindow \/ UNCHANGED vars) /\ ~SrvAccept /\ ~SrvLose
    <2>1. link' = link /\ run' = run
      BY <1>8 DEF CaptainWindow, CaptainThread, SrvEdit, SrvAllow, SrvPropose, SrvReceive,
         SrvGreeted, SrvState, SrvPolicy, SrvObserve, SrvPush, SrvSendFails, clientVars, vars, wireVars
    <2>2. link # "up" => toCli' = toCli
      BY <1>8 DEF CaptainWindow, CaptainThread, SrvEdit, SrvAllow, SrvPropose, SrvReceive,
         SrvHello, SrvRequest, SrvSubscribe, SrvProposal, ToClient,
         SrvGreeted, SrvState, SrvPolicy, SrvObserve, SrvPush, SrvSendFails, clientVars, vars, wireVars
    <2> QED
      BY <2>1, <2>2 DEF LinkOK
  <1>9. CASE CliReceive \/ CliSend \/ CliSubscribe
        \/ CliEdit \/ CliKeys \/ CliRequest \/ CliApply \/ CliCancel \/ CliUndo \/ CliHandle
        \/ CliObserve \/ CliUpload \/ CliAsk \/ CliTimeout
    <2>1. link' = link /\ toCli' = toCli
      BY <1>9 DEF CliReceive, CliSend, CliSubscribe, CliEdit, CliKeys, CliRequest, CliApply, CliCancel,
         CliUndo, CliHandle, CliObserve, CliUpload, CliAsk, CliTimeout, wireVars
    <2>2. run'.at = run.at
      BY <1>9, OthersAs, CliReceiveIs, CliSendIs, CliSubscribeIs
         DEF Others, SubscriptionAs, CliSubscribe
    <2> QED
      BY <2>1, <2>2 DEF LinkOK
  <1> QED
    BY <1>1, <1>2, <1>3, <1>4, <1>5, <1>6, <1>7, <1>8, <1>9, <1>10, NextIs DEF NextCases, Others

\* Everything is read and written between the two ends but by a subscription.
LEMMA HeardSame ==
    ASSUME Typed, HeardOK, link' = "up" => link = "up",
           run'.sub = run.sub, run'.on = run.on,
           sock'.sub = sock.sub, sock'.on = sock.on,
           \/ toSrv' = toSrv
           \/ \E f \in ServerFrame : /\ f.t # "subscribe"
                                     /\ toSrv' = IF link = "up" THEN Append(toSrv, f) ELSE toSrv
    PROVE  HeardOK'
  <1> SUFFICES ASSUME link' = "up"
               PROVE  LearnsFrom(toSrv', sock'.sub, sock'.on, run'.sub, run'.on)
    BY DEF HeardOK
  <1>1. PICK k \in Nat : k = sock.sub
    BY DEF Typed, CaptainTyped, Socket
  <1>2. PICK n \in Nat : n = run.sub
    BY ClientHere
  <1>3. PICK ko : ko = sock.on
    OBVIOUS
  <1>4. PICK no : no = run.on
    OBVIOUS
  <1>5. PICK s \in Seq(ServerFrame) : s = toSrv
    BY DEF Typed, WireTyped
  <1>6. LearnsFrom(s, k, ko, n, no)
    BY <1>1, <1>2, <1>3, <1>4, <1>5 DEF HeardOK
  <1>7. CASE toSrv' = toSrv
    BY <1>1, <1>2, <1>3, <1>4, <1>5, <1>6, <1>7
  <1>8. ASSUME NEW f \in ServerFrame, f.t # "subscribe",
               toSrv' = IF link = "up" THEN Append(toSrv, f) ELSE toSrv
        PROVE  LearnsFrom(toSrv', sock'.sub, sock'.on, run'.sub, run'.on)
    <2>1. toSrv' = Append(s, f)
      BY <1>5, <1>8
    <2>2. LearnsFrom(Append(s, f), k, ko, n, no)
      BY <1>6, <1>8, LearnsOther
    <2> QED
      BY <1>1, <1>2, <1>3, <1>4, <2>1, <2>2
  <1> QED
    BY <1>7, <1>8

LEMMA HeardReceive ==
    ASSUME Typed, HeardOK, SrvReceive
    PROVE  HeardOK'
  <1> SUFFICES ASSUME link' = "up"
               PROVE  LearnsFrom(toSrv', sock'.sub, sock'.on, run'.sub, run'.on)
    BY DEF HeardOK
  <1>0. /\ link = "up" /\ run' = run /\ toSrv # <<>> /\ toSrv' = Tail(toSrv)
        /\ sock \in Socket /\ toSrv \in Seq(ServerFrame)
    BY DEF SrvReceive, clientVars, Typed, WireTyped, CaptainTyped
  <1>1. PICK k \in Nat : k = sock.sub
    BY <1>0 DEF Socket
  <1>2. PICK n \in Nat : n = run.sub
    BY ClientHere
  <1>3. PICK ko : ko = sock.on
    OBVIOUS
  <1>4. PICK no : no = run.on
    OBVIOUS
  <1>5. PICK s \in Seq(ServerFrame) : s = toSrv
    BY <1>0
  <1>6. LearnsFrom(s, k, ko, n, no)
    BY <1>0, <1>1, <1>2, <1>3, <1>4, <1>5 DEF HeardOK
  <1>7. PICK f \in ServerFrame : f = Head(s)
    BY <1>0, <1>5, TailIs
  <1>8. CASE SrvSubscribe(f)
    <2>1. f.t = "subscribe" /\ sock'.sub = f.sub /\ sock'.on = f.on
      BY <1>0, <1>8 DEF SrvSubscribe, Socket
    <2>2. LearnsFrom(Tail(s), f.sub, f.on, n, no)
      BY <1>0, <1>5, <1>6, <1>7, <2>1, LearnsTail
    <2> QED
      BY <1>0, <1>2, <1>4, <1>5, <2>1, <2>2
  <1>9. CASE SrvHello(f) \/ SrvRequest(f) \/ SrvProposal(f)
    <2>1. f.t # "subscribe"
      BY <1>9 DEF SrvHello, SrvRequest, SrvProposal
    <2>2. sock'.sub = sock.sub /\ sock'.on = sock.on
      BY <1>0, <1>9 DEF SrvHello, SrvRequest, SrvProposal, Socket
    <2>3. LearnsFrom(Tail(s), k, ko, n, no)
      BY <1>0, <1>5, <1>6, <1>7, <2>1, LearnsTail
    <2> QED
      BY <1>0, <1>1, <1>2, <1>3, <1>4, <1>5, <2>2, <2>3
  <1> QED
    BY <1>5, <1>7, <1>8, <1>9 DEF SrvReceive

LEMMA HeardStep ==
    ASSUME Typed, NumbersOK, LinkOK, HeardOK, [Next]_vars
    PROVE  HeardOK'
  <1>0. /\ sock \in Socket /\ toSrv \in Seq(ServerFrame)
    BY DEF Typed, WireTyped, CaptainTyped
  <1>1. CASE link' # "up"
    BY <1>1 DEF HeardOK
  <1>2. CASE CliStart \/ CliStop \/ CliRejected \/ CliLost \/ CliDial \/ Cut
        \/ SrvLose \/ SrvSendFails
    BY <1>1, <1>2, StartsOverBy DEF CliDial, Cut, SrvLose, SrvForget, HangUp, SrvSendFails
  <1>3. CASE SrvAccept
    <2> SUFFICES ASSUME link' = "up"
                 PROVE  LearnsFrom(toSrv', sock'.sub, sock'.on, run'.sub, run'.on)
      BY DEF HeardOK
    <2>1. toSrv' = <<[t |-> "hello"]>> /\ run' = run /\ link = "dial"
      BY <1>3 DEF SrvAccept, clientVars
    <2>2. sock'.sub = 0 /\ sock'.on = FALSE
      BY <1>3 DEF SrvAccept, NoClient
    <2>3. run.sub = 0 /\ run.on = FALSE
      BY <2>1, ClientHere DEF LinkOK, NumbersOK
    <2> QED
      BY <2>1, <2>2, <2>3, LearnsHello
  <1>4. CASE SrvReceive
    BY <1>4, HeardReceive
  <1>5. CASE (CaptainThread \/ CaptainWindow \/ UNCHANGED vars)
             /\ ~SrvAccept /\ ~SrvLose /\ ~SrvReceive /\ ~SrvSendFails
    <2>1. link' = link /\ run' = run /\ toSrv' = toSrv
      BY <1>5 DEF CaptainWindow, CaptainThread, SrvEdit, SrvAllow, SrvPropose,
         SrvGreeted, SrvState, SrvPolicy, SrvObserve, SrvPush, clientVars, vars, wireVars
    <2>2. sock'.sub = sock.sub /\ sock'.on = sock.on
      BY <1>0, <1>5 DEF CaptainWindow, CaptainThread, SrvEdit, SrvAllow, SrvPropose,
         SrvGreeted, SrvState, SrvPolicy, SrvObserve, SrvPush, vars, Socket
    <2> QED
      BY <2>1, <2>2, HeardSame
  <1>6. CASE CliReceive \/ CliSend
        \/ CliEdit \/ CliKeys \/ CliRequest \/ CliApply \/ CliCancel \/ CliUndo \/ CliHandle
        \/ CliObserve \/ CliTimeout \/ CliHear
    <2>1. link' = link /\ toSrv' = toSrv /\ sock' = sock
      BY <1>6 DEF CliReceive, CliSend, CliEdit, CliKeys, CliRequest, CliApply, CliCancel,
         CliUndo, CliHandle, CliObserve, CliTimeout, CliHear, wireVars, captainVars
    <2>2. run'.sub = run.sub /\ run'.on = run.on
      BY <1>6, OthersAs, CliReceiveIs, CliSendIs DEF Others, SubscriptionAs
    <2> QED
      BY <2>1, <2>2, HeardSame
  <1>7. CASE CliUpload \/ CliAsk
    <2>1. link' = link /\ sock' = sock
      BY <1>7 DEF CliUpload, CliAsk, captainVars
    <2>2. run'.sub = run.sub /\ run'.on = run.on
      BY <1>7, CliUploadIs, CliAskIs
    <2>3. \E f \in ServerFrame : /\ f.t # "subscribe"
                                 /\ toSrv' = IF link = "up" THEN Append(toSrv, f) ELSE toSrv
      BY <1>7, CliUploadIs, CliAskIs
    <2> QED
      BY <2>1, <2>2, <2>3, HeardSame
  <1>8. CASE CliAccepted
    <2>1. link' = link /\ toSrv' = toSrv /\ sock' = sock /\ run.at = "dial"
      BY <1>8 DEF CliAccepted, captainVars
    <2>2. run.sub = 0 /\ run.on = FALSE
      BY <2>1, ClientHere DEF NumbersOK
    <2>3. run'.sub = run.sub /\ run'.on = run.on
      BY <1>8, <2>2, CliAcceptedIs
    <2> QED
      BY <2>1, <2>3, HeardSame
  <1>10. CASE CliBaseline
    <2>1. link' = link /\ toSrv' = toSrv /\ sock' = sock
      BY <1>10 DEF CliBaseline, captainVars, wireVars
    <2> QED
      BY <1>10, <2>1, CliBaselineIs, HeardSame
  <1>9. CASE CliSubscribe
    <2> SUFFICES ASSUME link' = "up"
                 PROVE  LearnsFrom(toSrv', sock'.sub, sock'.on, run'.sub, run'.on)
      BY DEF HeardOK
    <2>1. link = "up" /\ sock' = sock
      BY <1>9 DEF CliSubscribe, captainVars
    <2>2. PICK f \in ServerFrame : /\ f.t = "subscribe" /\ f.sub = cli.sub /\ f.on = cli.recv
                                   /\ toSrv' = IF link = "up" THEN Append(toSrv, f) ELSE toSrv
      BY <1>9, CliSubscribeIs
    <2>3. run'.sub = f.sub /\ run'.on = f.on
      BY <1>9, <2>2, CliSubscribeIs
    <2>4. PICK k \in Nat : k = sock.sub
      BY <1>0 DEF Socket
    <2>5. PICK n \in Nat : n = run.sub
      BY ClientHere
    <2>6. PICK ko : ko = sock.on
      OBVIOUS
    <2>7. PICK no : no = run.on
      OBVIOUS
    <2>8. PICK s \in Seq(ServerFrame) : s = toSrv
      BY <1>0
    <2>9. LearnsFrom(s, k, ko, n, no) /\ n <= f.sub
      BY <2>1, <2>2, <2>4, <2>5, <2>6, <2>7, <2>8 DEF HeardOK, NumbersOK
    <2>10. LearnsFrom(Append(s, f), k, ko, f.sub, f.on)
      BY <2>2, <2>9, LearnsSubscription
    <2> QED
      BY <2>1, <2>2, <2>3, <2>4, <2>6, <2>8, <2>10
  <1> QED
    BY <1>2, <1>3, <1>4, <1>5, <1>6, <1>7, <1>8, <1>9, <1>10
       DEF Next, CaptainThread, ClientWindow, ClientThread

-----------------------------------------------------------------------------
(* Pushes on their way                                                     *)

LEMMA CarriesMore ==
    ASSUME NEW S, NEW s \in Seq(S), NEW x \in S
    PROVE  \A n, r : Carries(s, n, r) => Carries(Append(s, x), n, r)
  <1>1. PICK u : u = Append(s, x)
    OBVIOUS
  <1>2. \A i \in 1..Len(s) : i \in 1..Len(u) /\ u[i] = s[i]
    BY <1>1, AppendIs
  <1> QED
    BY <1>1, <1>2 DEF Carries

LEMMA CarriesTail ==
    ASSUME NEW S, NEW s \in Seq(S), s # <<>>, NEW n, NEW r, Carries(s, n, r)
    PROVE  \/ Carries(Tail(s), n, r)
           \/ Head(s).t = "push" /\ Head(s).sub = n /\ Head(s).rev = r
  <1>1. PICK u : u = Tail(s)
    OBVIOUS
  <1>2. /\ Len(u) = Len(s) - 1 /\ Len(s) \in Nat \ {0} /\ Head(s) = s[1]
        /\ \A i \in 1..(Len(s) - 1) : u[i] = s[i + 1]
    BY <1>1, TailIs
  <1>3. PICK j \in 1..Len(s) : s[j].t = "push" /\ s[j].sub = n /\ s[j].rev = r
    BY DEF Carries
  <1>4. CASE j = 1
    BY <1>2, <1>3, <1>4
  <1>5. CASE j # 1
    <2>1. j - 1 \in 1..Len(u) /\ (j - 1) + 1 = j /\ j - 1 \in 1..(Len(s) - 1)
      BY <1>2, <1>5
    <2>2. u[j - 1] = s[j]
      BY <1>2, <2>1
    <2> QED
      BY <1>1, <1>3, <2>1, <2>2 DEF Carries
  <1> QED
    BY <1>4, <1>5

PushedSame ==
    /\ link' = "up" => link = "up"
    /\ cli'.sub = cli.sub /\ cli'.recv = cli.recv /\ run'.last = run.last
    /\ sock'.sub = sock.sub /\ sock'.last = sock.last
LEMMA PushedSameStep ==
    ASSUME PushedOK, PushedSame, \A n, r : Carries(toCli, n, r) => Carries(toCli', n, r)
    PROVE  PushedOK'
  BY DEF PushedOK, PushedSame, PushOnWire

\* Frames that are not pushes may follow.
LEMMA PushedReceive ==
    ASSUME Typed, PushedOK, SrvReceive
    PROVE  PushedOK'
  <1>0. /\ link' = link /\ run' = run /\ cli' = cli
        /\ sock \in Socket /\ toCli \in Seq(ClientFrame) /\ srv \in Captain
    BY DEF SrvReceive, clientVars, Typed, WireTyped, CaptainTyped
  <1>1. PICK f : f = Head(toSrv)
    OBVIOUS
  <1>2. f \in ServerFrame
    BY <1>1, TailIs DEF SrvReceive, Typed, WireTyped
  <1>3. CASE SrvSubscribe(f)
    <2>1. sock'.last = 0
      BY <1>0, <1>3 DEF SrvSubscribe, Socket
    <2> QED
      BY <2>1 DEF PushedOK
  <1>4. CASE SrvHello(f) \/ SrvRequest(f) \/ SrvProposal(f)
    <2>1. sock'.sub = sock.sub /\ sock'.last = sock.last
      BY <1>0, <1>4 DEF SrvHello, SrvRequest, SrvProposal, Socket
    <2>2. \A n, r : Carries(toCli, n, r) => Carries(toCli', n, r)
      <3>1. CASE SrvProposal(f)
        BY <3>1 DEF SrvProposal
      <3>2. CASE SrvRequest(f)
        <4>1. PICK g \in ClientFrame : g = [t |-> "snapshot", id |-> f.id, v |-> srv.match]
          BY <1>0, <1>2, <3>2, ServerFrameFields, ClientFrames DEF SrvRequest, Captain
        <4>2. ToClient(<<g>>)
          BY <3>2, <4>1 DEF SrvRequest
        <4>3. toCli' = toCli \/ toCli' = Append(toCli, g)
          BY <1>0, <4>2, ToClientOne
        <4> QED
          BY <1>0, <4>3, CarriesMore
      <3>3. CASE SrvHello(f)
        <4>1. PICK a \in ClientFrame : a = [t |-> "accepted"]
          BY ClientFrames
        <4>2. PICK g \in ClientFrame : g = [t |-> "policy", ok |-> srv.allow]
          BY <1>0, ClientFrames DEF Captain
        <4>3. ToClient(<<a, g>>)
          BY <3>3, <4>1, <4>2 DEF SrvHello
        <4>4. toCli' = toCli \/ toCli' = Append(Append(toCli, a), g)
          BY <1>0, <4>3, ToClientTwo
        <4>5. PICK u \in Seq(ClientFrame) : u = Append(toCli, a)
          BY <1>0, AppendIs
        <4>6. \A n, r : Carries(toCli, n, r) => Carries(u, n, r)
          BY <1>0, <4>5, CarriesMore
        <4>7. \A n, r : Carries(u, n, r) => Carries(Append(u, g), n, r)
          BY CarriesMore
        <4> QED
          BY <4>4, <4>5, <4>6, <4>7
      <3> QED
        BY <1>4, <3>1, <3>2, <3>3
    <2> QED
      BY <1>0, <2>1, <2>2, PushedSameStep DEF PushedSame
  <1> QED
    BY <1>1, <1>3, <1>4 DEF SrvReceive

LEMMA PushedPush ==
    ASSUME Typed, SrvPush
    PROVE  PushedOK'
  <1>0. /\ sock \in Socket /\ toCli \in Seq(ClientFrame) /\ srv \in Captain
    BY DEF Typed, WireTyped, CaptainTyped
  <1>1. PICK p \in Nat : p = sock.pend
    BY <1>0 DEF Socket
  <1>2. sock' = [sock EXCEPT !.last = p] /\ link' = link /\ cli' = cli
    BY <1>1 DEF SrvPush, clientVars
  <1>3. sock'.last = p /\ sock'.sub = sock.sub
    BY <1>0, <1>2 DEF Socket
  <1>4. PICK f \in ClientFrame : f = [t |-> "push", rev |-> p, sub |-> sock.sub, v |-> srv.match]
    BY <1>0, <1>1, ClientFrames DEF Captain, Socket
  <1>5. ToClient(<<f>>)
    BY <1>1, <1>4 DEF SrvPush
  <1>6. ASSUME link' = "up", sock'.sub = cli'.sub PROVE Carries(toCli', cli'.sub, sock'.last)
    <2>1. PICK u : u = Append(toCli, f)
      OBVIOUS
    <2>2. toCli' = u
      BY <1>0, <1>2, <1>5, <1>6, <2>1, ToClientOne
    <2>3. Len(u) \in 1..Len(u) /\ u[Len(u)] = f
      BY <1>0, <2>1, AppendIs
    <2>4. f.t = "push" /\ f.sub = cli'.sub /\ f.rev = sock'.last
      BY <1>3, <1>4, <1>6
    <2> QED
      BY <2>2, <2>3, <2>4 DEF Carries
  <1> QED
    BY <1>6 DEF PushedOK, PushOnWire

LEMMA PushedHear ==
    ASSUME Typed, PushedOK, CliHear
    PROVE  PushedOK'
  <1>0. /\ link' = link /\ sock' = sock /\ toCli' = Tail(toCli) /\ toCli # <<>>
        /\ toCli \in Seq(ClientFrame) /\ cli'.sub = cli.sub /\ cli'.recv = cli.recv
    BY CliHearIs DEF CliHear, captainVars, Typed, WireTyped, SameWindow
  <1>1. PICK f \in ClientFrame : f = Head(toCli)
    BY <1>0, TailIs
  <1>2. run'.last = IF f.t = "push" /\ cli.recv /\ f.sub = cli.sub /\ f.rev > run.last
                    THEN f.rev ELSE run.last
    BY <1>1, CliHearIs
  <1>3. run.last \in Nat /\ (f.t = "push" => f.rev \in Nat) /\ sock.last \in Nat
    BY ClientHere, <1>1, ClientFrameFields DEF Typed, CaptainTyped, Socket
  <1> SUFFICES ASSUME link' = "up", sock'.sub = cli'.sub, cli'.recv, sock'.last > 0
               PROVE  run'.last >= sock'.last \/ Carries(toCli', cli'.sub, sock'.last)
    BY DEF PushedOK, PushOnWire
  <1>4. run'.last >= run.last /\ run'.last \in Nat
    BY <1>2, <1>3
  <1>5. CASE run.last >= sock.last
    BY <1>0, <1>3, <1>4, <1>5
  <1>6. CASE Carries(toCli, cli.sub, sock.last)
    <2>1. CASE Carries(Tail(toCli), cli.sub, sock.last)
      BY <1>0, <2>1
    <2>2. CASE f.t = "push" /\ f.sub = cli.sub /\ f.rev = sock.last
      BY <1>0, <1>2, <1>3, <2>2
    <2> QED
      BY <1>0, <1>1, <1>6, <2>1, <2>2, CarriesTail
  <1> QED
    BY <1>0, <1>5, <1>6 DEF PushedOK, PushOnWire

LEMMA PushedStep ==
    ASSUME Typed, NumbersOK, HeardOK, PushedOK, [Next]_vars
    PROVE  PushedOK'
  <1>0. /\ sock \in Socket /\ sock.sub \in Nat /\ cli.sub \in Nat /\ run.sub \in Nat
        /\ cli.recv \in BOOLEAN /\ run.on \in BOOLEAN /\ run.at \in {"off", "dial", "start", "run"}
    BY ClientHere DEF Typed, CaptainTyped, Socket
  <1>1. CASE link' # "up"
    BY <1>1 DEF PushedOK
  <1>2. CASE CliStart \/ CliStop \/ CliRejected \/ CliLost \/ CliDial \/ Cut
        \/ SrvLose \/ SrvSendFails
    BY <1>1, <1>2, StartsOverBy DEF CliDial, Cut, SrvLose, SrvForget, HangUp, SrvSendFails
  <1>3. CASE SrvAccept
    <2>1. link' = "up" => sock'.last = 0
      BY <1>3 DEF SrvAccept, NoClient
    <2> QED
      BY <2>1 DEF PushedOK
  <1>4. CASE SrvReceive \/ SrvPush \/ CliHear
    BY <1>4, PushedReceive, PushedPush, PushedHear
  <1>5. CASE (CaptainThread \/ CaptainWindow \/ UNCHANGED vars)
             /\ ~SrvAccept /\ ~SrvLose /\ ~SrvReceive /\ ~SrvSendFails /\ ~SrvPush
    <2>1. link' = link /\ run' = run /\ cli' = cli
      BY <1>5 DEF CaptainWindow, CaptainThread, SrvEdit, SrvAllow, SrvPropose,
         SrvGreeted, SrvState, SrvPolicy, SrvObserve, clientVars, vars, wireVars
    <2>2. sock'.sub = sock.sub /\ sock'.last = sock.last
      BY <1>0, <1>5 DEF CaptainWindow, CaptainThread, SrvEdit, SrvAllow, SrvPropose,
         SrvGreeted, SrvState, SrvPolicy, SrvObserve, vars, Socket
    <2>3. CASE SrvPolicy
      <3>1. PICK f \in ClientFrame : f = [t |-> "policy", ok |-> srv.allow]
        BY ClientFrames DEF Typed, CaptainTyped, Captain
      <3>2. ToClient(<<f>>) /\ toCli \in Seq(ClientFrame)
        BY <2>3, <3>1 DEF SrvPolicy, Typed, WireTyped
      <3>3. toCli' = toCli \/ toCli' = Append(toCli, f)
        BY <3>2, ToClientOne
      <3>4. \A n, r : Carries(toCli, n, r) => Carries(toCli', n, r)
        BY <3>2, <3>3, CarriesMore
      <3> QED
        BY <2>1, <2>2, <3>4, PushedSameStep DEF PushedSame
    <2>4. CASE ~SrvPolicy
      <3>1. toCli' = toCli
        BY <1>5, <2>4 DEF CaptainWindow, CaptainThread, SrvEdit, SrvAllow, SrvPropose,
           SrvGreeted, SrvState, SrvObserve, vars, wireVars
      <3> QED
        BY <2>1, <2>2, <3>1, PushedSameStep DEF PushedSame
    <2> QED
      BY <2>3, <2>4
  <1>6. CASE CliEdit \/ CliKeys \/ CliRequest \/ CliApply \/ CliCancel \/ CliUndo \/ CliHandle
        \/ CliObserve \/ CliTimeout \/ CliUpload \/ CliAsk
    <2>1. link' = link /\ toCli' = toCli /\ sock' = sock
      BY <1>6 DEF CliEdit, CliKeys, CliRequest, CliApply, CliCancel,
         CliUndo, CliHandle, CliObserve, CliTimeout, CliUpload, CliAsk, wireVars, captainVars
    <2>2. cli'.sub = cli.sub /\ cli'.recv = cli.recv
      BY <1>6, OthersAs DEF Others, SubscriptionAs
    <2>3. run'.last = run.last
      <3>1. CASE CliObserve \/ CliUpload \/ CliAsk
        BY <3>1, CliObserveIs, CliUploadIs, CliAskIs
      <3>2. CASE CliTimeout
        BY <3>2, RequestEnded DEF CliTimeout
      <3> QED
        BY <1>6, <3>1, <3>2 DEF CliEdit, CliKeys, CliRequest, CliApply, CliCancel, CliUndo, CliHandle
    <2> QED
      BY <2>1, <2>2, <2>3, PushedSameStep DEF PushedSame
  <1>7. CASE CliReceive \/ CliSend
    <2>1. link' = link /\ toCli' = toCli /\ sock' = sock /\ run' = run
      BY <1>7 DEF CliReceive, CliSend, wireVars, captainVars
    <2>2. CASE cli'.sub = cli.sub + 1
      <3>1. link' = "up" => sock'.sub # cli'.sub
        BY <1>0, <2>1, <2>2 DEF HeardOK, LearnsFrom, NumbersOK
      <3> QED
        BY <3>1 DEF PushedOK
    <2>3. CASE cli'.sub = cli.sub /\ cli'.recv = cli.recv
      BY <2>1, <2>3, PushedSameStep DEF PushedSame
    <2> QED
      BY <1>7, <2>2, <2>3, CliReceiveIs, CliSendIs
  <1>8. CASE CliAccepted
    <2>1. link' = link /\ sock' = sock /\ cli' = cli /\ run.at = "dial"
      BY <1>8 DEF CliAccepted, captainVars
    <2>2. run.sub = 0
      BY <2>1 DEF NumbersOK
    <2>3. link' = "up" /\ sock'.sub = cli'.sub => ~cli'.recv
      BY <1>0, <2>1, <2>2 DEF HeardOK, LearnsFrom, NumbersOK
    <2> QED
      BY <2>3 DEF PushedOK
  <1>10. CASE CliBaseline
    <2>1. link' = link /\ toCli' = toCli /\ sock' = sock /\ cli' = cli
      BY <1>10 DEF CliBaseline, captainVars, wireVars
    <2> QED
      BY <1>10, <2>1, CliBaselineIs, PushedSameStep DEF PushedSame
  <1>9. CASE CliSubscribe
    <2>1. link' = link /\ sock' = sock /\ cli' = cli /\ (run.sub # cli.sub \/ run.on # cli.recv)
      BY <1>9 DEF CliSubscribe, captainVars
    <2>2. run.sub # cli.sub /\ run.sub <= cli.sub
      BY <2>1 DEF NumbersOK
    <2>3. link' = "up" => sock'.sub # cli'.sub
      BY <1>0, <2>1, <2>2 DEF HeardOK, LearnsFrom
    <2> QED
      BY <2>3 DEF PushedOK
  <1> QED
    BY <1>2, <1>3, <1>4, <1>5, <1>6, <1>7, <1>8, <1>9, <1>10
       DEF Next, CaptainThread, ClientWindow, ClientThread

-----------------------------------------------------------------------------
(* Messages on their way to the window                                     *)

Grown(b, u) == \A i \in 1..Len(b) : i \in 1..Len(u) /\ u[i] = b[i]

LEMMA GrownAppend ==
    ASSUME NEW S, NEW b \in Seq(S), NEW x \in S
    PROVE  Grown(b, Append(b, x))
  BY AppendIs DEF Grown

LEMMA GrownTwice ==
    ASSUME NEW b, NEW u, NEW w, Grown(b, u), Grown(u, w)
    PROVE  Grown(b, w)
  BY DEF Grown

LEMMA GrownSame == \A b : Grown(b, b)
  BY DEF Grown

LEMMA GrownPosted ==
    ASSUME NEW b \in Seq(Message), NEW m \in Message
    PROVE  Grown(b, Posted(b, m))
  <1>1. PICK u : u = Posted(b, m)
    OBVIOUS
  <1>2. u = b \/ u = Append(b, m)
    BY <1>1, PostedIs
  <1>3. SUFFICES Grown(b, u)
    BY <1>1
  <1>4. CASE u = b
    BY <1>4, GrownSame
  <1>5. CASE u = Append(b, m)
    BY <1>5, GrownAppend
  <1> QED
    BY <1>2, <1>4, <1>5

LEMMA NoticeGrown ==
    ASSUME NEW b, NEW u, Grown(b, u)
    PROVE  /\ Notice(b) => Notice(u)
           /\ \A w, r : Comes(b, w, r) => Comes(u, w, r)
  BY DEF Grown, Notice, Comes

LEMMA NoticePosted ==
    ASSUME NEW b \in Seq(Message)
    PROVE  Notice(Posted(b, Changed))
  <1>1. Changed \in Message /\ Changed.t = "changed"
    BY Messages
  <1>2. PICK u : u = Posted(b, Changed)
    OBVIOUS
  <1> SUFFICES Notice(u)
    BY <1>2
  <1>3. CASE u = Append(b, Changed)
    <2>1. PICK m \in Message : m = Changed
      BY <1>1
    <2>2. PICK n \in Nat : n = Len(b) + 1
      BY AppendIs
    <2>3. Len(u) = n /\ u[n] = m
      BY <1>3, <2>1, <2>2, AppendIs
    <2>4. n \in 1..Len(u) /\ u[n].t = "changed"
      BY <1>1, <2>1, <2>2, <2>3
    <2> QED
      BY <2>4 DEF Notice
  <1>4. CASE u = b /\ b # <<>> /\ b[Len(b)] = Changed
    <2>1. PICK n : n = Len(b)
      OBVIOUS
    <2>2. n \in 1..Len(u)
      BY <1>4, <2>1
    <2>3. u[n] = Changed
      BY <1>4, <2>1
    <2>4. u[n].t = "changed"
      BY <1>1, <2>3
    <2> QED
      BY <2>2, <2>4 DEF Notice
  <1> QED
    BY <1>1, <1>2, <1>3, <1>4, PostedIs

\* What handling the head leaves of what was to come.
LEMMA NoticeTail ==
    ASSUME NEW b \in Seq(Message), b # <<>>, Head(b).t # "changed", Notice(b)
    PROVE  Notice(Tail(b))
  <1>1. PICK u : u = Tail(b)
    OBVIOUS
  <1>2. /\ Len(u) = Len(b) - 1 /\ Len(b) \in Nat \ {0} /\ Head(b) = b[1]
        /\ \A i \in 1..(Len(b) - 1) : u[i] = b[i + 1]
    BY <1>1, TailIs
  <1>3. PICK j \in 1..Len(b) : b[j].t = "changed"
    BY DEF Notice
  <1>4. j - 1 \in 1..(Len(b) - 1) /\ (j - 1) + 1 = j
    BY <1>2, <1>3
  <1>5. u[j - 1] = b[j]
    BY <1>2, <1>4
  <1>6. Notice(u)
    BY <1>2, <1>3, <1>4, <1>5 DEF Notice
  <1> QED
    BY <1>1, <1>6

LEMMA ComesTail ==
    ASSUME NEW b \in Seq(Message), b # <<>>, NEW w \in BOOLEAN, NEW r, Comes(b, w, r)
    PROVE  \/ Head(b).t = "push" /\ Head(b).rev = r /\ w
           \/ Head(b).t = "changed" /\ Comes(Tail(b), TRUE, r)
           \/ Head(b).t # "changed" /\ Comes(Tail(b), w, r)
  <1>1. PICK u : u = Tail(b)
    OBVIOUS
  <1>2. /\ Len(u) = Len(b) - 1 /\ Len(b) \in Nat \ {0} /\ Head(b) = b[1]
        /\ \A i \in 1..(Len(b) - 1) : u[i] = b[i + 1]
    BY <1>1, TailIs
  <1>3. PICK i \in 1..Len(b) :
           /\ b[i].t = "push" /\ b[i].rev = r
           /\ w \/ \E j \in 1..Len(b) : j < i /\ b[j].t = "changed"
    BY DEF Comes
  <1>4. CASE i = 1
    <2>1. ~\E j \in 1..Len(b) : j < i
      BY <1>2, <1>4
    <2> QED
      BY <1>2, <1>3, <1>4, <2>1
  <1>5. CASE i # 1
    <2>1. i - 1 \in 1..Len(u) /\ i - 1 \in 1..(Len(b) - 1) /\ (i - 1) + 1 = i
      BY <1>2, <1>5
    <2>2. u[i - 1] = b[i]
      BY <1>2, <2>1
    <2>3. CASE Head(b).t = "changed"
      <3>1. Comes(u, TRUE, r)
        BY <1>3, <2>1, <2>2 DEF Comes
      <3> QED
        BY <1>1, <2>3, <3>1
    <2>4. CASE Head(b).t # "changed" /\ w
      <3>1. Comes(u, w, r)
        BY <1>3, <2>1, <2>2, <2>4 DEF Comes
      <3> QED
        BY <1>1, <2>4, <3>1
    <2>5. CASE Head(b).t # "changed" /\ ~w
      <3>1. PICK j \in 1..Len(b) : j < i /\ b[j].t = "changed"
        BY <1>3, <2>5
      <3>2. j # 1
        BY <1>2, <2>5, <3>1
      <3>3. j - 1 \in 1..Len(u) /\ j - 1 \in 1..(Len(b) - 1) /\ (j - 1) + 1 = j /\ j - 1 < i - 1
        BY <1>2, <3>1, <3>2
      <3>4. u[j - 1] = b[j]
        BY <1>2, <3>3
      <3>5. Comes(u, w, r)
        BY <1>3, <2>1, <2>2, <3>1, <3>3, <3>4 DEF Comes
      <3> QED
        BY <1>1, <2>5, <3>5
    <2> QED
      BY <2>3, <2>4, <2>5
  <1> QED
    BY <1>4, <1>5

LEMMA ComesLast ==
    ASSUME NEW b \in Seq(Message), NEW m \in Message, m.t = "push", NEW w, w \/ Notice(b)
    PROVE  Comes(Append(b, m), w, m.rev)
  <1>1. PICK u : u = Append(b, m)
    OBVIOUS
  <1>2. /\ Len(u) = Len(b) + 1 /\ Len(b) \in Nat /\ (\A i \in 1..Len(b) : u[i] = b[i])
        /\ u[Len(b) + 1] = m
    BY <1>1, AppendIs
  <1>3. Len(b) + 1 \in 1..Len(u)
    BY <1>2
  <1>4. CASE w
    BY <1>1, <1>2, <1>3, <1>4 DEF Comes
  <1>5. CASE Notice(b)
    <2>1. PICK j \in 1..Len(b) : b[j].t = "changed"
      BY <1>5 DEF Notice
    <2>2. j \in 1..Len(u) /\ j < Len(b) + 1 /\ u[j].t = "changed"
      BY <1>2, <2>1
    <2> QED
      BY <1>1, <1>2, <1>3, <2>2 DEF Comes
  <1> QED
    BY <1>4, <1>5

LEMMA BoxGrows ==
    ASSUME Typed, [Next]_vars, ~CliHandle \/ CliReceive \/ CliSend \/ CliSubscribe
    PROVE  Grown(box, box')
  <1>0. box \in Seq(Message) /\ Changed \in Message /\ Failed \in Message
    BY ClientHere, Messages
  <1>1. CASE box' = box
    BY <1>1, GrownSame
  <1>2. CASE box' = Posted(box, Changed) \/ box' = Posted(box, Failed)
    BY <1>0, <1>2, GrownPosted
  <1>3. CASE box' = Posted(Append(box, Failed), Changed)
    <2>1. PICK u \in Seq(Message) : u = Append(box, Failed)
      BY <1>0, AppendIs
    <2>2. Grown(box, u)
      BY <1>0, <2>1, GrownAppend
    <2>3. Grown(u, Posted(u, Changed))
      BY <1>0, GrownPosted
    <2>4. PICK w : w = Posted(u, Changed)
      OBVIOUS
    <2>5. Grown(box, w)
      BY <2>2, <2>3, <2>4, GrownTwice
    <2> QED
      BY <1>3, <2>1, <2>4, <2>5
  <1>4. CASE CliHear
    <2>1. ASSUME NEW m \in Message, box' = Posted(box, m) PROVE Grown(box, box')
      BY <1>0, <2>1, GrownPosted
    <2> QED
      BY <1>1, <1>4, <2>1, CliHearIs
  <1> QED
    BY <1>1, <1>2, <1>3, <1>4, BoxStep
       DEF BoxChange, BoxPosted, CliReceive, CliSend, CliSubscribe

LEMMA OthersKeep ==
    ASSUME Typed, Others, ~CliHandle
    PROVE  /\ cli'.was = cli.was /\ cli'.last = cli.last
           /\ CliHear \/ run'.last = run.last
  <1>1. CASE CaptainWindow \/ CaptainThread \/ Cut \/ UNCHANGED vars \/ CliDial
    <2>1. cli' = cli /\ run' = run
      BY <1>1 DEF CaptainWindow, CaptainThread, SrvEdit, SrvAllow, SrvPropose, SrvAccept,
         SrvReceive, SrvGreeted, SrvState, SrvPolicy, SrvObserve, SrvPush, SrvLose, SrvSendFails, Cut,
         CliDial, clientVars, vars
    <2> QED
      BY <2>1
  <1>2. CASE CliEdit \/ CliKeys \/ CliRequest \/ CliApply \/ CliUndo \/ CliCancel
    <2>1. run' = run
      BY <1>2 DEF CliEdit, CliKeys, CliRequest, CliApply, CliUndo, CliCancel
    <2>2. CASE CliCancel
      <3>1. PICK c : c = NothingOffered(cli)
        OBVIOUS
      <3>2. SameBut(cli, c) /\ SameState(cli, c)
        BY <3>1, ClientHere, NothingOfferedOK
      <3> QED
        BY <2>1, <2>2, <3>1, <3>2 DEF CliCancel, SameBut, SameState
    <2>3. CASE ~CliCancel
      BY <1>2, <2>1, <2>3, CliEditIs, CliKeysIs, CliRequestIs, CliApplyIs, CliUndoIs
         DEF SameBut, SameState
    <2> QED
      BY <2>2, <2>3
  <1>3. CASE CliObserve \/ CliUpload \/ CliAsk
    <2>1. cli' = cli
      BY <1>3 DEF CliObserve, CliUpload, CliAsk
    <2>2. run'.last = run.last
      BY <1>3, CliObserveIs, CliUploadIs, CliAskIs
    <2> QED
      BY <2>1, <2>2
  <1>4. CASE CliTimeout
    BY <1>4, RequestEnded DEF CliTimeout, SameWindow, SameState
  <1>5. CASE CliHear
    BY <1>5, CliHearIs DEF SameWindow, SameState
  <1> QED
    BY <1>1, <1>2, <1>3, <1>4, <1>5 DEF Others

\* A push of the present subscription that is newer is handed to the window.
LEMMA PushHanded ==
    ASSUME Typed, CliHear, Head(toCli).t = "push", cli.recv, Head(toCli).sub = cli.sub,
           Head(toCli).rev > run.last
    PROVE  \E m \in Message : /\ m.t = "push" /\ m.rev = Head(toCli).rev
                              /\ box' = Append(box, m)
  <1>1. PICK f \in ClientFrame : f = Head(toCli)
    BY TailIs DEF CliHear, Typed, WireTyped
  <1>2. f.rev \in Nat /\ f.v \in Versions
    BY <1>1, ClientFrameFields
  <1>3. box' = Posted(box, [t |-> "push", rev |-> f.rev, v |-> f.v])
    BY <1>1 DEF CliHear, HearsSnapshot, HearsPush, HearsPolicy
  <1>4. PICK m \in Message : m = [t |-> "push", rev |-> f.rev, v |-> f.v]
    BY <1>2, Messages
  <1>5. m.t = "push" /\ m.rev = f.rev /\ box' = Posted(box, m)
    BY <1>3, <1>4
  <1>6. box' = Append(box, m)
    BY <1>5, ClientHere, PostedIs
  <1> QED
    BY <1>1, <1>5, <1>6

\* The window's next look at the status, or its having looked, once connected.
LEMMA NoticeStep ==
    ASSUME Typed, NumbersOK, NoticeOK, [Next]_vars
    PROVE  NoticeOK'
  <1>1. CASE CliStart \/ CliStop \/ CliRejected \/ CliLost
    BY <1>1, StartsOverBy DEF StartsOver, NoticeOK
  <1>2. CASE CliAccepted
    <2>1. box' = Posted(box, Changed) /\ box \in Seq(Message)
      BY <1>2, ClientHere DEF CliAccepted
    <2>2. Notice(box')
      BY <2>1, NoticePosted
    <2> QED
      BY <2>2 DEF NoticeOK
  <1>3. CASE CliHandle
    <2>1. run' = run /\ box' = Tail(box) /\ box # <<>> /\ box \in Seq(Message)
      BY <1>3, ClientHere DEF CliHandle
    <2>2. PICK m \in Message : m = Head(box)
      BY <2>1, TailIs
    <2> SUFFICES ASSUME run.at \in {"start", "run"} PROVE cli'.was \/ Notice(box')
      BY <2>1 DEF NoticeOK
    <2>3. CASE LooksAtStatus(m)
      BY <2>3, ClientHere, LooksAtStatusIs DEF NumbersOK
    <2>4. CASE TakesPush(m) \/ TakesAnswer(m)
      <3>1. cli'.was = cli.was
        BY <2>4, TakesPushIs, TakesAnswerIs DEF SameBut
      <3>2. m.t # "changed"
        BY <2>4 DEF TakesPush, TakesAnswer
      <3>3. Notice(box) => Notice(box')
        BY <2>1, <2>2, <3>2, NoticeTail
      <3> QED
        BY <3>1, <3>3 DEF NoticeOK
    <2> QED
      BY <1>3, <2>2, <2>3, <2>4 DEF CliHandle
  <1>4. CASE (Others /\ ~CliHandle) \/ CliReceive \/ CliSend \/ CliSubscribe
    <2>1. cli'.was = cli.was
      BY <1>4, OthersKeep, CliReceiveIs, CliSendIs DEF CliSubscribe
    <2>2. run'.at = run.at
      BY <1>4, OthersAs, CliReceiveIs, CliSendIs, CliSubscribeIs DEF SubscriptionAs, CliSubscribe
    <2>3. Notice(box) => Notice(box')
      BY <1>4, BoxGrows, NoticeGrown
    <2> QED
      BY <2>1, <2>2, <2>3 DEF NoticeOK
  <1>5. CASE CliBaseline
    <2>1. cli' = cli /\ box' = box /\ run.at = "start"
      BY <1>5 DEF CliBaseline
    <2> QED
      BY <2>1 DEF NoticeOK
  <1> QED
    BY <1>1, <1>2, <1>3, <1>4, <1>5, NextIs DEF NextCases

\* The window takes what was pushed last: it is connected, and knows it once it
\* has seen the last change of the status.
LEMMA TakenHandle ==
    ASSUME Typed, ToldOK, NumbersOK, TakenOK, CliHandle, [Next]_vars
    PROVE  TakenOK'
  <1>0. /\ run' = run /\ box' = Tail(box) /\ box # <<>> /\ box \in Seq(Message)
        /\ cli'.sub = cli.sub /\ cli'.recv = cli.recv
        /\ cli.was \in BOOLEAN /\ cli.last \in Nat /\ run.last \in Nat
        /\ stat.connected \in BOOLEAN /\ stat.subscribed \in BOOLEAN /\ cli.recv \in BOOLEAN
    BY ClientHere, HandleAs DEF CliHandle
  <1>1. PICK m \in Message : m = Head(box)
    BY <1>0, TailIs
  <1>2. PICK r \in Nat : r = run.last
    BY <1>0
  <1>3. PICK w \in BOOLEAN : w = cli.was
    BY <1>0
  <1> SUFFICES ASSUME run.at = "run", run.sub = cli.sub, cli.recv, r > 0
               PROVE  TakenNext(r)
    BY <1>0, <1>2, TakenOKBy
  <1>4. stat.connected /\ stat.subscribed
    BY <1>0 DEF NumbersOK
  <1>5. Comes(box, w, r) \/ (w /\ cli.last >= r) \/ Refused(r)
    BY <1>2, <1>3 DEF TakenOK
  <1>10. ASSUME Refused(r) PROVE TakenNext(r)
    BY <1>10, RefusedStays DEF TakenNext
  <1>6. Comes(box, w, r) =>
           \/ m.t = "push" /\ m.rev = r /\ w
           \/ m.t = "changed" /\ Comes(box', TRUE, r)
           \/ m.t # "changed" /\ Comes(box', w, r)
    BY <1>0, <1>1, ComesTail
  <1>7. CASE LooksAtStatus(m)
    <2>1. m.t = "changed"
      BY <1>7 DEF LooksAtStatus
    <2>2. cli'.was = TRUE /\ cli'.last = IF cli.was # stat.connected THEN 0 ELSE cli.last
      BY <1>4, <1>7, LooksAtStatusIs
    <2>3. CASE Comes(box', TRUE, r)
      BY <2>2, <2>3 DEF TakenNext
    <2>4. CASE w /\ cli.last >= r
      BY <1>3, <1>4, <2>2, <2>4 DEF TakenNext
    <2> QED
      BY <1>5, <1>6, <1>10, <2>1, <2>3, <2>4
  <1>8. CASE TakesPush(m)
    <2>1. m.t = "push" /\ m.rev \in Nat /\ cli'.was = w
      BY <1>3, <1>8, TakesPushIs DEF SameBut
    <2>2. /\ Takes(m) => cli'.last = m.rev /\ m.rev > cli.last
          /\ ~Takes(m) => cli'.last = cli.last
      BY <1>8, TakesPushIs DEF Takes
    <2>3. CASE m.rev = r /\ w
      <3>1. CASE m.v \in Invalid
        <4>1. \A i \in 1..Len(box) : box[i].t = "push" => Told(box[i].rev, box[i].v)
          BY DEF ToldOK
        <4>2. 1 \in 1..Len(box) /\ m = box[1]
          BY <1>0, <1>1
        <4>3. Told(m.rev, m.v)
          BY <2>1, <4>1, <4>2
        <4>4. Refused(r)
          BY <2>3, <3>1, <4>3 DEF Told, Refused
        <4> QED
          BY <1>10, <4>4
      <3>2. CASE m.v \notin Invalid
        <4>1. Takes(m) \/ cli.last >= r
          BY <1>0, <1>4, <2>3, <3>2 DEF Takes
        <4>2. cli'.last >= r
          BY <1>0, <2>1, <2>2, <2>3, <4>1
        <4> QED
          BY <2>1, <2>3, <4>2, Zenon DEF TakenNext
      <3> QED
        BY <3>1, <3>2
    <2>4. CASE Comes(box', w, r)
      BY <2>1, <2>4 DEF TakenNext
    <2>5. CASE w /\ cli.last >= r
      <3>1. cli'.last >= r
        BY <1>0, <2>1, <2>2, <2>5
      <3> QED
        BY <2>1, <2>5, <3>1, Zenon DEF TakenNext
    <2> QED
      BY <1>5, <1>6, <1>10, <2>1, <2>3, <2>4, <2>5
  <1>9. CASE TakesAnswer(m)
    <2>1. m.t # "push" /\ m.t # "changed" /\ cli'.was = w /\ cli'.last = cli.last
      BY <1>3, <1>9, TakesAnswerIs DEF SameBut, SameState
    <2> QED
      BY <1>5, <1>6, <1>10, <2>1 DEF TakenNext
  <1> QED
    BY <1>1, <1>7, <1>8, <1>9 DEF CliHandle

LEMMA TakenHear ==
    ASSUME Typed, NoticeOK, TakenOK, CliHear, [Next]_vars
    PROVE  TakenOK'
  <1>0. /\ run.at = "run" /\ run'.sub = run.sub /\ cli'.sub = cli.sub /\ cli'.recv = cli.recv
        /\ cli'.was = cli.was /\ cli'.last = cli.last /\ box \in Seq(Message)
        /\ run.last \in Nat
    BY CliHearIs, ClientHere DEF SameThread, SameWindow, SameState
  <1>1. CASE Head(toCli).t = "push" /\ cli.recv /\ Head(toCli).sub = cli.sub
             /\ Head(toCli).rev > run.last
    <2>1. run'.last = Head(toCli).rev
      BY <1>1, CliHearIs
    <2>2. PICK m \in Message : /\ m.t = "push" /\ m.rev = Head(toCli).rev
                               /\ box' = Append(box, m)
      BY <1>1, PushHanded
    <2>3. PICK w : w = cli.was
      OBVIOUS
    <2>4. w \/ Notice(box)
      BY <1>0, <2>3 DEF NoticeOK
    <2>5. Comes(Append(box, m), w, m.rev)
      BY <1>0, <2>2, <2>4, ComesLast
    <2>6. Comes(box', cli'.was, run'.last)
      BY <1>0, <2>1, <2>2, <2>3, <2>5
    <2> QED
      BY <2>6 DEF TakenOK
  <1>2. CASE ~(Head(toCli).t = "push" /\ cli.recv /\ Head(toCli).sub = cli.sub
               /\ Head(toCli).rev > run.last)
    <2>1. run'.last = run.last
      BY <1>2, CliHearIs
    <2>2. ~CliHandle
      BY <1>0 DEF CliHear, CliHandle, wireVars
    <2>3. \A w, r : Comes(box, w, r) => Comes(box', w, r)
      BY <2>2, BoxGrows, NoticeGrown
    <2>4. PICK r \in Nat : r = run.last
      BY <1>0
    <2> SUFFICES ASSUME run.sub = cli.sub, cli.recv, r > 0 PROVE TakenNext(r)
      BY <1>0, <2>1, <2>4, TakenOKBy
    <2>5. Comes(box, cli.was, r) \/ (cli.was /\ cli.last >= r) \/ Refused(r)
      BY <1>0, <2>4 DEF TakenOK
    <2>6. Refused(r) => RefusedNext(r)
      BY RefusedStays
    <2> QED
      BY <1>0, <2>3, <2>5, <2>6 DEF TakenNext
  <1> QED
    BY <1>1, <1>2

LEMMA TakenStep ==
    ASSUME Typed, ToldOK, NumbersOK, NoticeOK, TakenOK, [Next]_vars
    PROVE  TakenOK'
  <1>0. cli.sub \in Nat /\ run.sub \in Nat /\ run.last \in Nat
    BY ClientHere
  <1>1. CASE CliStart \/ CliStop \/ CliRejected \/ CliLost
    BY <1>1, StartsOverBy DEF StartsOver, TakenOK
  <1>2. CASE CliAccepted \/ CliSubscribe
    <2>1. run'.last = 0
      BY <1>2, CliAcceptedIs, CliSubscribeIs
    <2> QED
      BY <2>1 DEF TakenOK
  <1>3. CASE CliHandle
    BY <1>3, TakenHandle
  <1>4. CASE CliHear
    BY <1>4, TakenHear
  <1>5. CASE (CliReceive \/ CliSend) /\ cli'.sub = cli.sub + 1
    <2>1. run' = run
      BY <1>5, CliReceiveIs, CliSendIs
    <2>2. run'.sub # cli'.sub
      BY <1>0, <1>5, <2>1 DEF NumbersOK
    <2> QED
      BY <2>2 DEF TakenOK
  <1>6. CASE (Others /\ ~CliHandle /\ ~CliHear) \/ (CliSend /\ cli'.sub # cli.sub + 1)
    <2>1. /\ cli'.was = cli.was /\ cli'.last = cli.last
          /\ run'.last = run.last
      BY <1>6, OthersKeep, CliSendIs
    <2>2. /\ run'.at = run.at /\ run'.sub = run.sub /\ cli'.sub = cli.sub
          /\ cli'.recv = cli.recv
      BY <1>6, OthersAs, CliSendIs DEF SubscriptionAs
    <2>3. \A w, r : Comes(box, w, r) => Comes(box', w, r)
      BY <1>6, BoxGrows, NoticeGrown
    <2>4. PICK r \in Nat : r = run.last
      BY <1>0
    <2> SUFFICES ASSUME run.at = "run", run.sub = cli.sub, cli.recv, r > 0
                 PROVE  TakenNext(r)
      BY <2>1, <2>2, <2>4, TakenOKBy
    <2>5. Comes(box, cli.was, r) \/ (cli.was /\ cli.last >= r) \/ Refused(r)
      BY <2>4 DEF TakenOK
    <2>6. Refused(r) => RefusedNext(r)
      BY RefusedStays
    <2> QED
      BY <2>1, <2>3, <2>5, <2>6 DEF TakenNext
  <1>7. CASE CliBaseline
    <2>1. run.at = "start" /\ run'.sub = run.sub /\ cli' = cli
      BY <1>7, CliBaselineIs DEF CliBaseline
    <2>2. run.sub = 0
      BY <2>1 DEF NumbersOK
    <2>3. ~(run'.sub = cli'.sub /\ cli'.recv)
      BY <2>1, <2>2 DEF NumbersOK
    <2> QED
      BY <2>3 DEF TakenOK
  <1> QED
    BY <1>1, <1>2, <1>3, <1>4, <1>5, <1>6, <1>7, NextIs, CliReceiveIs DEF NextCases

LEMMA ConvergeInit == Init => ConvergeInvariant
  <1> SUFFICES ASSUME Init PROVE ConvergeInvariant
    OBVIOUS
  <1>1. /\ srv.rev = 1 /\ srv.match = 0 /\ sock.pend = 0 /\ cli.last = 0 /\ cli.match = 0
        /\ cli.sub = 0 /\ cli.recv = FALSE /\ run.at = "off" /\ run.sub = 0 /\ run.on = FALSE
        /\ stat.connected = FALSE /\ stat.subscribed = FALSE
    BY DEF Init, NoClient, Idle
  <1>2. toCli = <<>> /\ box = <<>> /\ link = "none"
    BY DEF Init
  <1>3. ToldOK
    BY <1>1, <1>2 DEF ToldOK, Told
  <1>4. NumbersOK /\ LinkOK /\ HeardOK /\ PushedOK
    <2>1. run.sub <= cli.sub
      BY <1>1
    <2>2. run.on = cli.recv
      BY <1>1
    <2>3. NumbersOK
      BY <1>1, <2>1, <2>2 DEF NumbersOK
    <2> QED
      BY <1>1, <1>2, <2>3 DEF LinkOK, HeardOK, PushedOK
  <1>5. NoticeOK /\ TakenOK
    BY <1>1 DEF NoticeOK, TakenOK
  <1> QED
    BY <1>3, <1>4, <1>5 DEF ConvergeInvariant

LEMMA ConvergeStep == Typed /\ ConvergeInvariant /\ [Next]_vars => ConvergeInvariant'
  <1> SUFFICES ASSUME Typed, ConvergeInvariant, [Next]_vars PROVE ConvergeInvariant'
    OBVIOUS
  <1>1. ToldOK /\ NumbersOK /\ LinkOK /\ HeardOK /\ PushedOK /\ NoticeOK /\ TakenOK
    BY DEF ConvergeInvariant
  <1>2. ToldOK' /\ NumbersOK' /\ LinkOK'
    BY <1>1, ToldStep, NumbersStep, LinkStep
  <1>3. HeardOK' /\ PushedOK' /\ NoticeOK' /\ TakenOK'
    BY <1>1, HeardStep, PushedStep, NoticeStep, TakenStep
  <1> QED
    BY <1>2, <1>3 DEF ConvergeInvariant

\* With nothing on the way, the last subscription was heard, what was pushed to
\* it last was handed on and taken, and it was the captain's present state.
LEMMA Converges == Typed /\ ConvergeInvariant => Converged
  <1> SUFFICES ASSUME Typed, ConvergeInvariant, Quiet, cli.recv, ~own.since,
                      srv.match \notin Invalid
               PROVE  cli.match = srv.match
    BY DEF Converged
  <1>0. /\ cli.sub \in Nat /\ run.sub \in Nat /\ run.last \in Nat /\ cli.last \in Nat
        /\ sock.sub \in Nat /\ sock.last \in Nat /\ sock.pend \in Nat /\ srv.rev \in Nat
        /\ sock.on \in BOOLEAN /\ cli.recv \in BOOLEAN
    BY ClientHere DEF Typed, CaptainTyped, Socket, Captain
  <1>1. /\ link = "up" /\ run.at = "run" /\ toSrv = <<>> /\ toCli = <<>> /\ box = <<>>
        /\ run.sub = cli.sub /\ run.on = cli.recv /\ sock.pend = srv.rev
        /\ (sock.on => sock.pend = sock.last)
    BY DEF Quiet
  <1>2. ToldOK /\ HeardOK /\ PushedOK /\ TakenOK
    BY DEF ConvergeInvariant
  <1>3. sock.sub = run.sub /\ sock.on = run.on
    <2>1. LearnsFrom(toSrv, sock.sub, sock.on, run.sub, run.on)
      BY <1>1, <1>2 DEF HeardOK
    <2>2. PICK s : s = toSrv
      OBVIOUS
    <2>3. PICK a : a = sock.on
      OBVIOUS
    <2>4. PICK b : b = run.on
      OBVIOUS
    <2>5. \A i \in 1..Len(s) : s[i].t # "subscribe"
      BY <1>1, <2>2
    <2>6. LearnsFrom(s, sock.sub, a, run.sub, b)
      BY <2>1, <2>2, <2>3, <2>4
    <2>7. sock.sub = run.sub /\ a = b
      BY <2>5, <2>6 DEF LearnsFrom
    <2> QED
      BY <2>3, <2>4, <2>7
  <1>4. sock.on
    BY <1>1, <1>3
  <1>5. sock.last = srv.rev /\ srv.rev >= 1
    BY <1>1, <1>2, <1>4 DEF ToldOK
  <1>6. run.last >= srv.rev
    <2>1. ~Carries(toCli, cli.sub, sock.last)
      BY <1>1 DEF Carries
    <2> QED
      BY <1>0, <1>1, <1>2, <1>3, <1>5, <2>1 DEF PushedOK, PushOnWire
  <1>7. cli.last >= run.last
    <2>1. ~Comes(box, cli.was, run.last)
      BY <1>1 DEF Comes
    <2> QED
      BY <1>0, <1>1, <1>2, <1>5, <1>6, <2>1 DEF TakenOK, Refused
  <1>8. cli.last <= srv.rev /\ Told(cli.last, cli.match)
    BY <1>2 DEF ToldOK
  <1> QED
    BY <1>0, <1>6, <1>7, <1>8 DEF Told

\* THE STATE OF THE TEAM: a client that receives automatically and made no change
\* of its own since has the captain's state once nothing is on its way: the
\* revisions, the numbers of the subscriptions and the looks at the status make
\* up for switches, lost connections and messages that crossed.
THEOREM ConvergedHolds == Spec => []Converged
  <1>1. Spec => []Typed
    BY TypeInit, TypeStep, PTL DEF Spec
  <1>2. ConvergeInvariant /\ Typed /\ [Next]_vars => ConvergeInvariant'
    BY ConvergeStep
  <1> QED
    BY <1>1, <1>2, ConvergeInit, Converges, PTL DEF Spec

=============================================================================
