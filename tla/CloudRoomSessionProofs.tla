---------------------- MODULE CloudRoomSessionProofs ----------------------
(***************************************************************************)
(* Theorems about CloudRoomSession, for every set of names and every bound *)
(* on commands and faults: what is saved as the name of this machine was   *)
(* given by the server, and a room shown as confirmed is one this machine  *)
(* is a member of.                                                         *)
(*                                                                         *)
(* The handlers of the window end in a set of desks.  The invariant is     *)
(* stated of a desk, for a server and the names it gave: an outcome that   *)
(* keeps it keeps the invariant of the state.                              *)
(***************************************************************************)
EXTENDS CloudRoomSession, SequenceTheorems, TLAPS

-----------------------------------------------------------------------------
(* The inductive invariant                                                 *)

Known == Tokens \cup {None}
Named == Names \cup {None}
Windows ==
    [joining : BOOLEAN, registering : BOOLEAN, restoring : BOOLEAN, confirmed : BOOLEAN,
     renaming : BOOLEAN, leaving : BOOLEAN, joinDue : BOOLEAN, leaveDue : BOOLEAN,
     room : Named, pending : Named, token : Known, dev : Devices, tries : 0..4]
Inis == [room : Named, token : Known, dev : Devices]
Calls ==
    [op : {"register"}, arg : Devices] \cup [op : {"join", "rename"}, arg : Names]
    \cup [op : {"leave"}, arg : {None}]
Given == {"joined", "renamed"}
Others == {"join refused", "join failed", "rename failed", "left", "leave failed",
           "authentication failed"}
Registrations == {"registered", "registration error"}
Events ==
    [t : {"registered"}, arg : Tokens] \cup [t : {"registration error"}, arg : {"taken", "timeout"}]
    \cup [t : Given, arg : Names] \cup [t : Others, arg : Named]
Desks ==
    [win : Windows, ini : Inis, calls : Seq(Calls), inbox : Seq(Events), key : Known, spent : Nat]
Servers == [epoch : 0..MaxFaults, devs : SUBSET Devices, names : [Devices -> Named],
            removed : SUBSET Devices]

\* A token the server gave: of this database, and then known to it, or of one before.
TokenOK(t, s) == t # None => t.epoch <= s.epoch /\ (t.epoch = s.epoch => t.dev \in s.devs)
\* Whom the server has as a member, or removed by itself.
Kept(s) == {x \in Devices : s.names[x] # None} \cup s.removed
\* The server knows the token, and whoever has it is a member, or was removed.
MemberIf(t, s) == t # None /\ t.epoch = s.epoch /\ t.dev \in s.devs => t.dev \in Kept(s)

Calling(d, ops) == \E i \in 1..Len(d.calls) : d.calls[i].op \in ops
Hearing(d, kinds) == \E i \in 1..Len(d.inbox) : d.inbox[i].t \in kinds
AtRegistration(d) == Calling(d, {"register"}) \/ Hearing(d, Registrations)
LeaveEnds == {"left", "leave failed"}
AtLeave(d) == Calling(d, {"leave"}) \/ Hearing(d, LeaveEnds)

\* Names and tokens come from the server.
Sound(d, s, g) ==
    /\ {d.win.room, d.ini.room} \subseteq g \cup {None}
    /\ TokenOK(d.win.token, s) /\ TokenOK(d.ini.token, s) /\ TokenOK(d.key, s)
Heard(d, s, g) ==
    \A i \in 1..Len(d.inbox) :
       /\ d.inbox[i].t \in Given => d.inbox[i].arg \in g
       /\ d.inbox[i].t = "registered" => TokenOK(d.inbox[i].arg, s)
\* A client without a token does nothing but register, under a pending name.
Kinds(d) ==
    /\ d.key = None => /\ \A i \in 1..Len(d.calls) : d.calls[i].op = "register"
                       /\ \A i \in 1..Len(d.inbox) : d.inbox[i].t \in Registrations
                       /\ ~d.win.confirmed
    /\ AtRegistration(d) => d.key = None /\ d.win.pending # None
\* A leave is asked for once, and the window waits for it.
LeavesOnce(q) == \A i, j \in 1..Len(q) : q[i].op = "leave" /\ q[j].op = "leave" => i = j
EndsOnce(q) == \A i, j \in 1..Len(q) : q[i].t \in LeaveEnds /\ q[j].t \in LeaveEnds => i = j
LeaveOnce(d) ==
    /\ AtLeave(d) => d.win.leaving
    /\ LeavesOnce(d.calls) /\ EndsOnce(d.inbox)
    /\ Calling(d, {"leave"}) => ~Hearing(d, LeaveEnds)
\* A room shown as confirmed is that of the client's token.
Linked(d, s) ==
    d.win.confirmed => /\ d.win.token \in {None, d.key}
                       /\ d.win.leaving \/ MemberIf(d.win.token, s)
\* What was answered to the join under way still holds.
Joins(d, s) ==
    /\ d.win.joining => /\ d.win.token \in {None, d.key} /\ ~AtLeave(d)
                        /\ Hearing(d, {"joined"}) => MemberIf(d.key, s)
    /\ d.win.registering => /\ d.win.joining /\ ~d.win.restoring
                            /\ d.win.token = None /\ d.key = None
Calm(d, s, g) == d \in Desks /\ Sound(d, s, g) /\ Heard(d, s, g) /\ Kinds(d) /\ LeaveOnce(d) /\ Linked(d, s)
DeskOK(d, s, g) == Calm(d, s, g) /\ Joins(d, s)

ServerOK ==
    /\ srv \in Servers /\ granted \subseteq Names /\ faults \in 0..MaxFaults /\ srv.epoch <= faults
    /\ auth \in BOOLEAN /\ commands \in Nat
Inv == ServerOK /\ DeskOK(Desk(inbox), srv, granted)

-----------------------------------------------------------------------------
(* The desks                                                               *)

LEMMA DeskIs ==
    ASSUME NEW d \in Desks
    PROVE  /\ d.win \in Windows /\ d.ini \in Inis /\ d.calls \in Seq(Calls)
           /\ d.inbox \in Seq(Events) /\ d.key \in Known /\ d.spent \in Nat
           /\ d.win.room \in Named /\ d.win.pending \in Named /\ d.win.token \in Known
           /\ d.win.dev \in Devices /\ d.win.tries \in 0..4
           /\ d.ini.room \in Named /\ d.ini.token \in Known
  <1>1. /\ d.win \in Windows /\ d.ini \in Inis /\ d.calls \in Seq(Calls)
        /\ d.inbox \in Seq(Events) /\ d.key \in Known /\ d.spent \in Nat
    BY DEF Desks
  <1> QED
    BY <1>1 DEF Windows, Inis

LEMMA NoneIs == None \in Known /\ None \in Named /\ None \notin Tokens /\ None \notin Names
  BY NamesAssumption, TokensAssumption DEF Known, Named

\* What the window knows of itself, and the queues, which the helpers leave alone.
SameRoom(e, d) == e.win.room = d.win.room /\ e.win.pending = d.win.pending
SameToken(e, d) == e.win.token = d.win.token /\ e.win.dev = d.win.dev /\ e.win.tries = d.win.tries
SameQueues(e, d) == e.calls = d.calls /\ e.inbox = d.inbox /\ e.key = d.key

LEMMA FailedIs ==
    ASSUME NEW d \in Desks
    PROVE  /\ Failed(d) \in Desks /\ Failed(d).win = d.win /\ Failed(d).ini = d.ini
           /\ SameQueues(Failed(d), d)
  BY DEF Failed, Desks, SameQueues

LEMMA ConfiguredIs ==
    ASSUME NEW d \in Desks
    PROVE  /\ Configured(d) \in Desks /\ Configured(d).win = d.win /\ Configured(d).ini = d.ini
           /\ Configured(d).calls = <<>> /\ Configured(d).inbox = <<>>
           /\ Configured(d).key = d.win.token
  <1>1. PICK t \in Known : t = d.win.token
    BY DeskIs
  <1>2. <<>> \in Seq(Calls) /\ <<>> \in Seq(Events)
    OBVIOUS
  <1>3. Configured(d) = [d EXCEPT !.calls = <<>>, !.inbox = <<>>, !.key = t]
    BY <1>1 DEF Configured
  <1> QED
    BY <1>1, <1>2, <1>3 DEF Desks

LEMMA SavedIs ==
    ASSUME NEW d \in Desks
    PROVE  /\ Saved(d) \in Desks /\ Saved(d).win = d.win /\ SameQueues(Saved(d), d)
           /\ Saved(d).ini.room = d.win.room /\ Saved(d).ini.token = d.win.token
  BY DEF Saved, Desks, Windows, Inis, SameQueues

LEMMA AskedIs ==
    ASSUME NEW d \in Desks, NEW op, NEW arg, Call(op, arg) \in Calls
    PROVE  /\ Asked(d, op, arg) \in Desks /\ Asked(d, op, arg).win = d.win
           /\ Asked(d, op, arg).ini = d.ini /\ Asked(d, op, arg).inbox = d.inbox
           /\ Asked(d, op, arg).key = d.key
           /\ Asked(d, op, arg).calls = Append(d.calls, Call(op, arg))
  <1>0. PICK q \in Seq(Calls) : q = d.calls
    BY DeskIs
  <1>1. PICK c \in Seq(Calls) : c = Append(d.calls, Call(op, arg))
    <2>1. Append(q, Call(op, arg)) \in Seq(Calls)
      OBVIOUS
    <2> QED
      BY <1>0, <2>1
  <1>2. Asked(d, op, arg) = [d EXCEPT !.calls = c]
    BY <1>1 DEF Asked
  <1> QED
    BY <1>1, <1>2 DEF Desks

LEMMA NotJoiningIs ==
    ASSUME NEW d \in Desks
    PROVE  /\ NotJoining(d) \in Desks /\ NotJoining(d).ini = d.ini /\ SameQueues(NotJoining(d), d)
           /\ NotJoining(d).win.joining = FALSE /\ NotJoining(d).win.registering = FALSE
           /\ NotJoining(d).win.confirmed = d.win.confirmed
           /\ NotJoining(d).win.leaving = d.win.leaving
           /\ SameRoom(NotJoining(d), d) /\ SameToken(NotJoining(d), d)
  BY DEF NotJoining, Desks, Windows, SameRoom, SameToken, SameQueues

LEMMA LapsedIs ==
    ASSUME NEW d \in Desks
    PROVE  /\ Lapsed(d) \in Desks /\ Lapsed(d).ini = d.ini /\ SameQueues(Lapsed(d), d)
           /\ Lapsed(d).win.joining = FALSE /\ Lapsed(d).win.registering = FALSE
           /\ Lapsed(d).win.confirmed = FALSE
           /\ Lapsed(d).win.leaving = d.win.leaving
           /\ SameRoom(Lapsed(d), d) /\ SameToken(Lapsed(d), d)
  <1>1. PICK w \in Windows : w = NotJoining(d).win
    BY NotJoiningIs, DeskIs
  <1>2. PICK v : v = [w EXCEPT !.restoring = FALSE, !.confirmed = FALSE]
    OBVIOUS
  <1>3. /\ v \in Windows /\ v.joining = w.joining /\ v.registering = w.registering
        /\ v.confirmed = FALSE /\ v.leaving = w.leaving
        /\ v.room = w.room /\ v.pending = w.pending
        /\ v.token = w.token /\ v.dev = w.dev /\ v.tries = w.tries
    BY <1>1, <1>2 DEF Windows
  <1>4. PICK e \in Desks : e = NotJoining(d)
    BY NotJoiningIs
  <1>5. Lapsed(d) = [e EXCEPT !.win = v]
    BY <1>1, <1>2, <1>4 DEF Lapsed, Desks
  <1>6. /\ Lapsed(d) \in Desks /\ Lapsed(d).ini = e.ini /\ SameQueues(Lapsed(d), e)
        /\ Lapsed(d).win = v
    BY <1>3, <1>4, <1>5 DEF Desks, SameQueues
  <1> QED
    BY <1>1, <1>3, <1>4, <1>6, NotJoiningIs DEF SameQueues, SameRoom, SameToken

LEMMA DisabledIs ==
    ASSUME NEW d \in Desks
    PROVE  /\ Disabled(d) \in Desks /\ Disabled(d).ini = d.ini
           /\ Disabled(d).calls = <<>> /\ Disabled(d).inbox = <<>> /\ Disabled(d).key = None
           /\ Disabled(d).win.joining = FALSE /\ Disabled(d).win.registering = FALSE
           /\ Disabled(d).win.confirmed = FALSE
           /\ SameRoom(Disabled(d), d) /\ SameToken(Disabled(d), d)
  <1>1. PICK w \in Windows : w = Closed(d.win, d.win.pending, d.win.tries)
    BY DeskIs DEF Closed, Windows
  <1>2. <<>> \in Seq(Calls) /\ <<>> \in Seq(Events) /\ None \in Known
    BY NoneIs
  <1>3. Disabled(d) = [d EXCEPT !.win = w, !.calls = <<>>, !.inbox = <<>>, !.key = None]
    BY <1>1 DEF Disabled
  <1>4. /\ Disabled(d) \in Desks /\ Disabled(d).ini = d.ini /\ Disabled(d).win = w
        /\ Disabled(d).calls = <<>> /\ Disabled(d).inbox = <<>> /\ Disabled(d).key = None
    BY <1>2, <1>3 DEF Desks
  <1>5. /\ w.joining = FALSE /\ w.registering = FALSE /\ w.confirmed = FALSE
        /\ w.room = d.win.room /\ w.pending = d.win.pending /\ w.token = d.win.token
        /\ w.dev = d.win.dev /\ w.tries = d.win.tries
    BY <1>1 DEF Closed
  <1> QED
    BY <1>4, <1>5 DEF SameRoom, SameToken

-----------------------------------------------------------------------------
(* What keeps the invariant of a desk                                      *)

\* The queues stay: the window forgets a token, or that it is confirmed, but not a leave.
LEMMA CalmKept ==
    ASSUME NEW s, NEW g, NEW d, NEW e \in Desks, Calm(d, s, g), Sound(e, s, g), SameQueues(e, d),
           e.win.confirmed => d.win.confirmed /\ e.win.token \in {None, d.win.token},
           d.win.leaving = e.win.leaving,
           e.win.pending = d.win.pending \/ e.win.pending # None
    PROVE  Calm(e, s, g)
  <1>1. e.calls = d.calls /\ e.inbox = d.inbox /\ e.key = d.key
    BY DEF SameQueues
  <1>2. Heard(e, s, g)
    BY <1>1 DEF Calm, Heard
  <1>3. Kinds(e)
    BY <1>1 DEF Calm, Kinds, AtRegistration, Calling, Hearing
  <1>4. LeaveOnce(e)
    <2>1. AtLeave(e) = AtLeave(d) /\ \A k : Calling(e, k) = Calling(d, k) /\ Hearing(e, k) = Hearing(d, k)
      BY <1>1 DEF AtLeave, Calling, Hearing
    <2> QED
      BY <1>1, <2>1 DEF Calm, LeaveOnce
  <1>5. Linked(e, s)
    BY <1>1 DEF Calm, Linked, MemberIf
  <1> QED
    BY <1>2, <1>3, <1>4, <1>5 DEF Calm

LEMMA JoinsKept ==
    ASSUME NEW s, NEW d, NEW e, Joins(d, s), SameQueues(e, d),
           e.win.joining => d.win.joining /\ e.win.token \in {None, d.win.token},
           e.win.registering => /\ d.win.registering /\ e.win.joining /\ ~e.win.restoring
                                /\ e.win.token \in {None, d.win.token}
    PROVE  Joins(e, s)
  BY DEF Joins, SameQueues, AtLeave, Calling, Hearing

LEMMA JoinsWhenNot ==
    ASSUME NEW s, NEW d, d.win.joining = FALSE, d.win.registering = FALSE
    PROVE  Joins(d, s)
  BY DEF Joins

\* Nothing is on its way.
LEMMA FreshCalm ==
    ASSUME NEW s, NEW g, NEW d \in Desks, Sound(d, s, g), d.calls = <<>>, d.inbox = <<>>,
           d.win.confirmed = FALSE
    PROVE  /\ Calm(d, s, g)
           /\ ~AtLeave(d) /\ ~Hearing(d, {"joined"})
  <1>1. Len(d.calls) = 0 /\ Len(d.inbox) = 0 /\ \A i \in 1..0 : FALSE
    OBVIOUS
  <1>2. \A ops : ~Calling(d, ops) /\ ~Hearing(d, ops)
    BY <1>1 DEF Calling, Hearing
  <1>3. Heard(d, s, g)
    BY <1>1 DEF Heard
  <1>4. Kinds(d)
    BY <1>1, <1>2 DEF Kinds, AtRegistration
  <1>5. LeaveOnce(d)
    BY <1>1, <1>2 DEF LeaveOnce, AtLeave, LeavesOnce, EndsOnce
  <1> QED
    BY <1>2, <1>3, <1>4, <1>5 DEF Calm, Linked, AtLeave

\* A call is added that is not a leave.
LEMMA CalledIs ==
    ASSUME NEW d \in Desks, NEW c
    PROVE  /\ Len(Append(d.calls, c)) = Len(d.calls) + 1 /\ Len(d.calls) \in Nat
           /\ \A i \in 1..Len(d.calls) : Append(d.calls, c)[i] = d.calls[i]
           /\ Append(d.calls, c)[Len(d.calls) + 1] = c
           /\ \A i \in 1..(Len(d.calls) + 1) : i \in 1..Len(d.calls) \/ i = Len(d.calls) + 1
  <1>1. PICK q \in Seq(Calls) : q = d.calls
    BY DeskIs
  <1>2. q \in Seq(Calls \cup {c})
    BY SeqMonotonic
  <1>3. /\ Len(Append(q, c)) = Len(q) + 1 /\ Len(q) \in Nat
        /\ \A i \in 1..Len(q) : Append(q, c)[i] = q[i]
        /\ Append(q, c)[Len(q) + 1] = c
    BY <1>2
  <1> QED
    BY <1>1, <1>3

LEMMA CalmAsked ==
    ASSUME NEW s, NEW g, NEW d \in Desks, Calm(d, s, g), NEW op \in {"register", "join", "rename"},
           NEW arg, Call(op, arg) \in Calls,
           IF op = "register" THEN d.key = None /\ d.win.pending # None ELSE d.key # None
    PROVE  /\ Calm(Asked(d, op, arg), s, g)
           /\ Joins(d, s) => Joins(Asked(d, op, arg), s)
  <1>1. PICK e \in Desks : e = Asked(d, op, arg)
    BY AskedIs
  <1>2. /\ e.win = d.win /\ e.ini = d.ini /\ e.inbox = d.inbox /\ e.key = d.key
        /\ e.calls = Append(d.calls, Call(op, arg))
    BY <1>1, AskedIs
  <1>3. /\ Len(e.calls) = Len(d.calls) + 1 /\ Len(d.calls) \in Nat
        /\ \A i \in 1..Len(d.calls) : e.calls[i] = d.calls[i]
        /\ e.calls[Len(d.calls) + 1].op = op
        /\ \A i \in 1..Len(e.calls) : i \in 1..Len(d.calls) \/ i = Len(d.calls) + 1
    BY <1>2, CalledIs DEF Call
  <1>4. \A ops : Calling(e, ops) => Calling(d, ops) \/ op \in ops
    BY <1>3 DEF Calling
  <1>5. \A kinds : Hearing(e, kinds) <=> Hearing(d, kinds)
    BY <1>2 DEF Hearing
  <1>6. AtLeave(e) => AtLeave(d)
    BY <1>4, <1>5 DEF AtLeave
  <1>7. Kinds(e)
    BY <1>2, <1>3, <1>4, <1>5 DEF Calm, Kinds, AtRegistration
  <1>8. LeaveOnce(e)
    <2>1. LeavesOnce(e.calls)
      BY <1>3 DEF Calm, LeaveOnce, LeavesOnce
    <2>2. Calling(e, {"leave"}) => Calling(d, {"leave"})
      BY <1>4
    <2> QED
      BY <1>2, <1>5, <1>6, <2>1, <2>2 DEF Calm, LeaveOnce
  <1>9. Sound(e, s, g) /\ Heard(e, s, g) /\ Linked(e, s)
    BY <1>2 DEF Calm, Sound, Heard, Linked
  <1>10. Joins(d, s) => Joins(e, s)
    BY <1>2, <1>5, <1>6 DEF Joins
  <1> QED
    BY <1>1, <1>7, <1>8, <1>9, <1>10 DEF Calm

-----------------------------------------------------------------------------
(* What the functions of the window end in                                 *)

LEMMA WindowSet ==
    ASSUME NEW d \in Desks, NEW w \in Windows
    PROVE  /\ [d EXCEPT !.win = w] \in Desks /\ [d EXCEPT !.win = w].win = w
           /\ [d EXCEPT !.win = w].ini = d.ini /\ SameQueues([d EXCEPT !.win = w], d)
  BY DEF Desks, SameQueues

LEMMA StopsOK ==
    ASSUME NEW s, NEW g, NEW d, Calm(d, s, g)
    PROVE  /\ Calm(Failed(d), s, g) /\ DeskOK(NotJoining(Failed(d)), s, g)
           /\ DeskOK(Lapsed(d), s, g)
           /\ DeskOK(d, s, g) => DeskOK(Failed(d), s, g)
  <1>1. d \in Desks /\ Sound(d, s, g)
    BY DEF Calm
  <1>2. PICK f \in Desks : f = Failed(d)
    BY <1>1, FailedIs
  <1>3. f.win = d.win /\ f.ini = d.ini /\ SameQueues(f, d)
    BY <1>1, <1>2, FailedIs
  <1>4. Sound(f, s, g)
    BY <1>1, <1>3 DEF Sound, SameQueues
  <1>5. Calm(f, s, g)
    BY <1>3, <1>4, CalmKept
  <1>6. Joins(d, s) => Joins(f, s)
    BY <1>3 DEF Joins, SameQueues, AtLeave, Calling, Hearing
  <1>7. DeskOK(NotJoining(f), s, g)
    <2>1. PICK n \in Desks : n = NotJoining(f)
      BY NotJoiningIs
    <2>2. /\ n.ini = f.ini /\ SameQueues(n, f) /\ SameRoom(n, f) /\ SameToken(n, f)
          /\ n.win.joining = FALSE /\ n.win.registering = FALSE
          /\ n.win.confirmed = f.win.confirmed /\ n.win.leaving = f.win.leaving
      BY <2>1, NotJoiningIs
    <2>3. Sound(n, s, g)
      BY <1>4, <2>2 DEF Sound, SameQueues, SameRoom, SameToken
    <2>4. Calm(n, s, g)
      BY <1>5, <2>2, <2>3, CalmKept DEF SameRoom, SameToken
    <2> QED
      BY <2>1, <2>2, <2>4, JoinsWhenNot DEF DeskOK
  <1>8. DeskOK(Lapsed(d), s, g)
    <2>1. PICK n \in Desks : n = Lapsed(d)
      BY <1>1, LapsedIs
    <2>2. /\ n.ini = d.ini /\ SameQueues(n, d) /\ SameRoom(n, d) /\ SameToken(n, d)
          /\ n.win.joining = FALSE /\ n.win.registering = FALSE
          /\ n.win.confirmed = FALSE /\ n.win.leaving = d.win.leaving
      BY <1>1, <2>1, LapsedIs
    <2>3. Sound(n, s, g)
      BY <1>1, <2>2 DEF Sound, SameQueues, SameRoom, SameToken
    <2>4. Calm(n, s, g)
      BY <2>2, <2>3, CalmKept DEF SameRoom, SameToken
    <2> QED
      BY <2>1, <2>2, <2>4, JoinsWhenNot DEF DeskOK
  <1> QED
    BY <1>2, <1>5, <1>6, <1>7, <1>8 DEF DeskOK

LEMMA RegistrationOK ==
    ASSUME NEW s, NEW g, NEW d, Calm(d, s, g), d.win.pending # None, NEW e \in Registration(d)
    PROVE  DeskOK(e, s, g)
  <1>0. d \in Desks /\ Sound(d, s, g) /\ d.win \in Windows
    BY DeskIs DEF Calm
  <1>1. PICK v \in Windows : v = [d.win EXCEPT !.token = None]
    BY <1>0, NoneIs DEF Windows
  <1>2. /\ v.token = None /\ v.room = d.win.room /\ v.pending = d.win.pending /\ v.dev = d.win.dev
        /\ v.confirmed = d.win.confirmed /\ v.leaving = d.win.leaving
    BY <1>0, <1>1 DEF Windows
  <1>3. PICK b \in Desks : b = [d EXCEPT !.win = v]
    BY <1>0, WindowSet
  <1>4. b.win = v /\ b.ini = d.ini /\ SameQueues(b, d)
    BY <1>0, <1>3, WindowSet
  <1>5. b = [d EXCEPT !.win.token = None]
    BY <1>0, <1>1, <1>3 DEF Desks
  <1>6. Sound(b, s, g)
    BY <1>0, <1>2, <1>4 DEF Sound, SameQueues, TokenOK
  <1>7. Calm(b, s, g)
    BY <1>2, <1>4, <1>6, CalmKept
  <1>8. PICK c \in Desks : c = Saved(b)
    BY SavedIs
  <1>9. c.win = v /\ c.ini.room = v.room /\ c.ini.token = None
    BY <1>2, <1>4, <1>8, SavedIs
  <1>10. PICK f \in Desks : f = Configured(c)
    BY ConfiguredIs
  <1>11. f.win = v /\ f.ini = c.ini /\ f.calls = <<>> /\ f.inbox = <<>> /\ f.key = None
    BY <1>2, <1>9, <1>10, ConfiguredIs
  <1>12. PICK w : w = [v EXCEPT !.registering = TRUE, !.joining = TRUE, !.restoring = FALSE,
                                !.confirmed = FALSE, !.joinDue = TRUE]
    OBVIOUS
  <1>13. /\ w \in Windows /\ w.registering = TRUE /\ w.joining = TRUE /\ w.restoring = FALSE
         /\ w.confirmed = FALSE /\ w.token = v.token /\ w.room = v.room /\ w.pending = v.pending
    BY <1>12 DEF Windows
  <1>14. PICK r \in Desks : r = [f EXCEPT !.win = w]
    BY <1>13, WindowSet
  <1>15. r.win = w /\ r.ini = f.ini /\ r.calls = <<>> /\ r.inbox = <<>> /\ r.key = None
    BY <1>11, <1>13, <1>14, WindowSet DEF SameQueues
  <1>16. r = [Configured(Saved(b)) EXCEPT
                 !.win.registering = TRUE, !.win.joining = TRUE, !.win.restoring = FALSE,
                 !.win.confirmed = FALSE, !.win.joinDue = TRUE]
    BY <1>8, <1>10, <1>11, <1>12, <1>14 DEF Desks
  <1>17. Sound(r, s, g)
    BY <1>0, <1>2, <1>9, <1>11, <1>13, <1>15 DEF Sound, TokenOK
  <1>18. Calm(r, s, g) /\ ~AtLeave(r) /\ ~Hearing(r, {"joined"})
    BY <1>13, <1>15, <1>17, FreshCalm
  <1>19. Joins(r, s)
    BY <1>2, <1>13, <1>15, <1>18 DEF Joins
  <1>20. e \in {Asked(r, "register", d.win.dev), NotJoining(Failed(r)), NotJoining(Failed(b))}
    BY <1>5, <1>16 DEF Registration
  <1>21. DeskOK(Asked(r, "register", d.win.dev), s, g)
    <2>1. Call("register", d.win.dev) \in Calls
      BY <1>0, DeskIs DEF Call, Calls
    <2>2. r.win.pending # None
      BY <1>2, <1>13, <1>15
    <2> QED
      BY <1>15, <1>18, <1>19, <2>1, <2>2, CalmAsked DEF DeskOK
  <1> QED
    BY <1>7, <1>18, <1>20, <1>21, StopsOK

LEMMA RestorationOK ==
    ASSUME NEW s, NEW g, NEW d, Calm(d, s, g), NEW e \in Restoration(d)
    PROVE  DeskOK(e, s, g)
  <1>0. d \in Desks /\ Sound(d, s, g) /\ d.win \in Windows /\ d.win.room \in Named
    BY DeskIs DEF Calm
  <1>1. CASE d.win.room = None \/ d.win.token = None
    <2>1. e = Lapsed(d)
      BY <1>1 DEF Restoration
    <2> QED
      BY <2>1, StopsOK
  <1>2. CASE ~(d.win.room = None \/ d.win.token = None)
    <2>1. PICK w : w = [d.win EXCEPT !.pending = d.win.room, !.joining = TRUE, !.registering = FALSE,
                                     !.restoring = TRUE, !.confirmed = FALSE, !.joinDue = TRUE]
      OBVIOUS
    <2>2. /\ w \in Windows /\ w.joining = TRUE /\ w.registering = FALSE /\ w.confirmed = FALSE
          /\ w.token = d.win.token /\ w.room = d.win.room
      BY <1>0, <2>1 DEF Windows
    <2>3. PICK f \in Desks : f = [d EXCEPT !.win = w]
      BY <1>0, <2>2, WindowSet
    <2>4. f.win = w /\ f.ini = d.ini
      BY <1>0, <2>2, <2>3, WindowSet
    <2>5. f = [d EXCEPT !.win.pending = d.win.room, !.win.joining = TRUE, !.win.registering = FALSE,
                        !.win.restoring = TRUE, !.win.confirmed = FALSE, !.win.joinDue = TRUE]
      BY <1>0, <2>1, <2>3 DEF Desks
    <2>6. PICK r \in Desks : r = Configured(f)
      BY ConfiguredIs
    <2>7. r.win = w /\ r.ini = d.ini /\ r.calls = <<>> /\ r.inbox = <<>> /\ r.key = w.token
      BY <2>4, <2>6, ConfiguredIs
    <2>8. Sound(r, s, g)
      BY <1>0, <2>2, <2>7 DEF Sound
    <2>9. Calm(r, s, g) /\ ~AtLeave(r) /\ ~Hearing(r, {"joined"})
      BY <2>2, <2>7, <2>8, FreshCalm
    <2>10. Joins(r, s)
      BY <2>2, <2>7, <2>9 DEF Joins
    <2>11. e \in {Asked(r, "join", d.win.room), Lapsed(Failed(r))}
      BY <1>2, <2>5, <2>6 DEF Restoration
    <2>12. DeskOK(Asked(r, "join", d.win.room), s, g)
      <3>1. Call("join", d.win.room) \in Calls
        BY <1>0, <1>2 DEF Call, Calls, Named
      <3>2. r.key # None
        BY <1>2, <2>2, <2>7
      <3> QED
        BY <2>9, <2>10, <3>1, <3>2, CalmAsked DEF DeskOK
    <2>13. DeskOK(Lapsed(Failed(r)), s, g)
      <3>1. PICK q : q = Failed(r)
        OBVIOUS
      <3>2. Calm(q, s, g)
        BY <2>9, <3>1, StopsOK
      <3> QED
        BY <3>1, <3>2, StopsOK
    <2> QED
      BY <2>11, <2>12, <2>13
  <1> QED
    BY <1>1, <1>2

LEMMA CancellationOK ==
    ASSUME NEW s, NEW g, NEW d, Calm(d, s, g), NEW e \in Cancellation(d)
    PROVE  DeskOK(e, s, g)
  <1>0. d \in Desks /\ Sound(d, s, g) /\ d.win \in Windows
    BY DeskIs DEF Calm
  <1>1. CASE ~d.win.restoring /\ d.win.room # None /\ d.win.token # None
    <2>1. PICK w : w = [d.win EXCEPT !.registering = FALSE]
      OBVIOUS
    <2>2. /\ w \in Windows /\ w.confirmed = d.win.confirmed /\ w.leaving = d.win.leaving
          /\ w.token = d.win.token /\ w.room = d.win.room /\ w.pending = d.win.pending
      BY <1>0, <2>1 DEF Windows
    <2>3. PICK f \in Desks : f = [d EXCEPT !.win = w]
      BY <1>0, <2>2, WindowSet
    <2>4. f.win = w /\ f.ini = d.ini /\ SameQueues(f, d)
      BY <1>0, <2>2, <2>3, WindowSet
    <2>5. f = [d EXCEPT !.win.registering = FALSE]
      BY <1>0, <2>1, <2>3 DEF Desks
    <2>6. Sound(f, s, g)
      BY <1>0, <2>2, <2>4 DEF Sound, SameQueues
    <2>7. Calm(f, s, g)
      BY <2>2, <2>4, <2>6, CalmKept
    <2>8. e \in Restoration(f)
      BY <1>1, <2>5 DEF Cancellation
    <2> QED
      BY <2>7, <2>8, RestorationOK
  <1>2. CASE ~(~d.win.restoring /\ d.win.room # None /\ d.win.token # None)
    <2>1. PICK f \in Desks : f = Configured(d)
      BY <1>0, ConfiguredIs
    <2>2. f.win = d.win /\ f.ini = d.ini /\ f.calls = <<>> /\ f.inbox = <<>> /\ f.key = d.win.token
      BY <1>0, <2>1, ConfiguredIs
    <2>3. PICK n \in Desks : n = Lapsed(f)
      BY LapsedIs
    <2>4. /\ n.ini = d.ini /\ n.calls = <<>> /\ n.inbox = <<>> /\ n.key = d.win.token
          /\ n.win.joining = FALSE /\ n.win.registering = FALSE /\ n.win.confirmed = FALSE
          /\ n.win.room = d.win.room /\ n.win.token = d.win.token
      <3>1. /\ n.ini = f.ini /\ SameQueues(n, f) /\ SameRoom(n, f) /\ SameToken(n, f)
            /\ n.win.joining = FALSE /\ n.win.registering = FALSE /\ n.win.confirmed = FALSE
        BY <2>1, <2>3, LapsedIs
      <3> QED
        BY <2>2, <3>1 DEF SameQueues, SameRoom, SameToken
    <2>5. Sound(n, s, g)
      BY <1>0, <2>4 DEF Sound
    <2>6. Calm(n, s, g)
      BY <2>4, <2>5, FreshCalm
    <2>7. e = n
      BY <1>2, <2>1, <2>3 DEF Cancellation
    <2> QED
      BY <2>4, <2>6, <2>7, JoinsWhenNot DEF DeskOK
  <1> QED
    BY <1>1, <1>2

LEMMA JoiningOK ==
    ASSUME NEW s, NEW g, NEW d, DeskOK(d, s, g), d.key # None, d.win.pending # None,
           NEW e \in Joining(d)
    PROVE  DeskOK(e, s, g)
  <1>1. d \in Desks /\ Calm(d, s, g) /\ Joins(d, s)
    BY DEF DeskOK, Calm
  <1>2. CASE e = Asked(d, "join", d.win.pending)
    <2>1. Call("join", d.win.pending) \in Calls
      BY <1>1, DeskIs DEF Call, Calls, Named
    <2> QED
      BY <1>1, <1>2, <2>1, CalmAsked DEF DeskOK
  <1>3. CASE e \in Cancellation(Failed(d))
    <2>1. PICK f : f = Failed(d)
      OBVIOUS
    <2>2. Calm(f, s, g)
      BY <1>1, <2>1, StopsOK
    <2> QED
      BY <1>3, <2>1, <2>2, CancellationOK
  <1> QED
    BY <1>2, <1>3 DEF Joining

-----------------------------------------------------------------------------
(* The steps of the window                                                 *)

\* What else the window notes of itself.
LEMMA NotedOK ==
    ASSUME NEW s, NEW g, NEW d, DeskOK(d, s, g), NEW e \in Desks, e.ini = d.ini, SameQueues(e, d),
           SameRoom(e, d), SameToken(e, d), e.win.joining = d.win.joining,
           e.win.registering = d.win.registering, e.win.restoring = d.win.restoring,
           e.win.confirmed = d.win.confirmed, e.win.leaving = d.win.leaving
    PROVE  DeskOK(e, s, g)
  <1>1. Calm(d, s, g) /\ Joins(d, s) /\ Sound(d, s, g)
    BY DEF DeskOK, Calm
  <1>2. Sound(e, s, g)
    BY <1>1 DEF Sound, SameRoom, SameToken, SameQueues
  <1>3. Calm(e, s, g)
    BY <1>1, <1>2, CalmKept DEF SameRoom, SameToken
  <1>4. Joins(e, s)
    BY <1>1 DEF Joins, SameToken, SameQueues, AtLeave, Calling, Hearing
  <1> QED
    BY <1>3, <1>4 DEF DeskOK

LEMMA EndsOK ==
    ASSUME ServerOK, NEW S, Ends(S), \A d \in S : DeskOK(d, srv, granted),
           UNCHANGED <<srv, granted>>, auth' \in BOOLEAN, commands' \in Nat
    PROVE  Inv'
  <1>1. PICK d \in S : /\ win' = d.win /\ ini' = d.ini /\ calls' = d.calls /\ inbox' = d.inbox
                       /\ key' = d.key /\ faults' = faults + d.spent /\ faults' <= MaxFaults
    BY DEF Ends
  <1>2. d \in Desks /\ DeskOK(d, srv, granted) /\ d.spent \in Nat
    BY <1>1, DeskIs DEF DeskOK, Calm
  <1>3. PICK e : e = Desk(inbox)'
    OBVIOUS
  <1>4. e = [win |-> d.win, ini |-> d.ini, calls |-> d.calls, inbox |-> d.inbox, key |-> d.key,
             spent |-> 0]
    BY <1>1, <1>3 DEF Desk
  <1>5. e \in Desks /\ e.win = d.win /\ e.ini = d.ini /\ SameQueues(e, d)
    BY <1>2, <1>4, DeskIs DEF Desks, SameQueues
  <1>6. DeskOK(e, srv, granted)
    BY <1>2, <1>5, NotedOK DEF SameRoom, SameToken
  <1>7. ServerOK'
    <2>1. srv' = srv /\ granted' = granted /\ srv.epoch \in Nat
      BY BoundsAssumption DEF ServerOK, Servers
    <2>2. faults' \in 0..MaxFaults /\ srv.epoch <= faults'
      BY <1>1, <1>2, <2>1, BoundsAssumption DEF ServerOK
    <2> QED
      BY <2>1, <2>2 DEF ServerOK
  <1>8. DeskOK(Desk(inbox)', srv', granted')
    BY <1>3, <1>6
  <1> QED
    BY <1>7, <1>8 DEF Inv

LEMMA InboxIs ==
    ASSUME Inv
    PROVE  /\ DeskOK(Desk(inbox), srv, granted) /\ Desk(inbox) \in Desks
           /\ Desk(inbox).win = win /\ Desk(inbox).ini = ini /\ Desk(inbox).calls = calls
           /\ Desk(inbox).inbox = inbox /\ Desk(inbox).key = key
           /\ win \in Windows /\ ini \in Inis /\ calls \in Seq(Calls) /\ inbox \in Seq(Events)
           /\ key \in Known /\ win.room \in Named /\ win.pending \in Named /\ win.token \in Known
           /\ win.dev \in Devices /\ win.tries \in 0..4
  <1>1. DeskOK(Desk(inbox), srv, granted) /\ Desk(inbox) \in Desks
    BY DEF Inv, DeskOK, Calm
  <1>2. /\ Desk(inbox).win = win /\ Desk(inbox).ini = ini /\ Desk(inbox).calls = calls
        /\ Desk(inbox).inbox = inbox /\ Desk(inbox).key = key
    BY DEF Desk
  <1> QED
    BY <1>1, <1>2, DeskIs

\* The message that is handled leaves the inbox.
LEMMA BoxIs ==
    ASSUME Inv, inbox # <<>>
    PROVE  /\ DeskOK(Desk(Box), srv, granted) /\ Desk(Box) \in Desks
           /\ Desk(Box).win = win /\ Desk(Box).ini = ini /\ Desk(Box).calls = calls
           /\ Desk(Box).inbox = Box /\ Desk(Box).key = key
           /\ Head(inbox) \in Events
           /\ Head(inbox).t \in Registrations => key = None /\ win.pending # None
           /\ Head(inbox).t \notin Registrations => key # None
           /\ Head(inbox).t \in Given => Head(inbox).arg \in granted
           /\ Head(inbox).t = "registered" => TokenOK(Head(inbox).arg, srv)
           /\ Head(inbox).t \in LeaveEnds => win.leaving /\ ~AtLeave(Desk(Box)) /\ ~win.joining
           /\ Head(inbox).t = "joined" /\ win.joining => MemberIf(key, srv)
  <1>1. PICK d \in Desks : d = Desk(inbox)
    BY InboxIs
  <1>2. /\ DeskOK(d, srv, granted) /\ Calm(d, srv, granted) /\ Joins(d, srv)
        /\ d.win = win /\ d.ini = ini /\ d.calls = calls /\ d.inbox = inbox /\ d.key = key
    BY <1>1, InboxIs DEF DeskOK
  <1>3. inbox \in Seq(Events)
    BY InboxIs
  <1>4. PICK q \in Seq(Events) : q = Box
    <2>1. Tail(inbox) \in Seq(Events)
      BY <1>3
    <2> QED
      BY <2>1 DEF Box
  <1>5. /\ 1 \in 1..Len(inbox) /\ Head(inbox) = inbox[1] /\ Head(inbox) \in Events
        /\ \A i \in 1..Len(q) : i + 1 \in 1..Len(inbox) /\ q[i] = inbox[i + 1]
        /\ \A i \in 1..Len(q) : i \in Int /\ i + 1 # 1
    BY <1>3, <1>4 DEF Box
  <1>6. PICK e : e = Desk(Box)
    OBVIOUS
  <1>7. /\ e \in Desks /\ e.win = win /\ e.ini = ini /\ e.calls = calls /\ e.inbox = q /\ e.key = key
    <2>1. win \in Windows /\ ini \in Inis /\ calls \in Seq(Calls) /\ key \in Known
      BY InboxIs
    <2>2. e = [win |-> win, ini |-> ini, calls |-> calls, inbox |-> q, key |-> key, spent |-> 0]
      BY <1>4, <1>6 DEF Desk
    <2> QED
      BY <2>1, <2>2 DEF Desks
  <1>8. \A kinds : Hearing(e, kinds) => Hearing(d, kinds)
    BY <1>2, <1>5, <1>7 DEF Hearing
  <1>9. \A ops : Calling(e, ops) <=> Calling(d, ops)
    BY <1>2, <1>7 DEF Calling
  <1>10. Sound(e, srv, granted) /\ Heard(e, srv, granted) /\ Linked(e, srv)
    <2>1. Heard(e, srv, granted)
      BY <1>2, <1>5, <1>7 DEF Calm, Heard
    <2> QED
      BY <1>2, <1>7, <2>1 DEF Calm, Sound, Linked
  <1>11. Kinds(e)
    <2>1. AtRegistration(e) => AtRegistration(d)
      BY <1>8, <1>9 DEF AtRegistration
    <2>2. e.key = None => \A i \in 1..Len(e.inbox) : e.inbox[i].t \in Registrations
      BY <1>2, <1>5, <1>7 DEF Calm, Kinds
    <2> QED
      BY <1>2, <1>7, <2>1, <2>2 DEF Calm, Kinds
  <1>12. AtLeave(e) => AtLeave(d)
    BY <1>8, <1>9 DEF AtLeave
  <1>13. LeaveOnce(e)
    <2>1. EndsOnce(q)
      <3> SUFFICES ASSUME NEW i \in 1..Len(q), NEW j \in 1..Len(q),
                          q[i].t \in LeaveEnds, q[j].t \in LeaveEnds
                   PROVE  i = j
        BY DEF EndsOnce
      <3>1. i + 1 = j + 1
        BY <1>2, <1>5 DEF Calm, LeaveOnce, EndsOnce
      <3> QED
        BY <1>5, <3>1
    <2> QED
      BY <1>2, <1>7, <1>8, <1>9, <1>12, <2>1 DEF Calm, LeaveOnce
  <1>14. Joins(e, srv)
    BY <1>2, <1>7, <1>8, <1>12 DEF Joins
  <1>15. DeskOK(e, srv, granted)
    BY <1>7, <1>10, <1>11, <1>13, <1>14 DEF DeskOK, Calm
  <1>16. \A kinds : Head(inbox).t \in kinds => Hearing(d, kinds)
    BY <1>2, <1>5 DEF Hearing
  <1>17. /\ Head(inbox).t \in Registrations => key = None /\ win.pending # None
         /\ Head(inbox).t \notin Registrations => key # None
    <2>1. Head(inbox).t \in Registrations => AtRegistration(d)
      BY <1>16 DEF AtRegistration
    <2> QED
      BY <1>2, <1>5, <2>1 DEF Calm, Kinds
  <1>18. /\ Head(inbox).t \in Given => Head(inbox).arg \in granted
         /\ Head(inbox).t = "registered" => TokenOK(Head(inbox).arg, srv)
    BY <1>2, <1>5 DEF Calm, Heard
  <1>19. Head(inbox).t \in LeaveEnds => win.leaving /\ ~AtLeave(e) /\ ~win.joining
    <2> SUFFICES ASSUME Head(inbox).t \in LeaveEnds
                 PROVE  win.leaving /\ ~AtLeave(e) /\ ~win.joining
      OBVIOUS
    <2>1. Hearing(d, LeaveEnds) /\ AtLeave(d)
      BY <1>16 DEF AtLeave
    <2>2. win.leaving /\ ~win.joining /\ ~Calling(d, {"leave"}) /\ EndsOnce(inbox)
      BY <1>2, <2>1 DEF Calm, LeaveOnce, Joins
    <2>3. ~Hearing(e, LeaveEnds)
      BY <1>5, <1>7, <2>2 DEF Hearing, EndsOnce
    <2> QED
      BY <1>9, <2>2, <2>3 DEF AtLeave
  <1>20. Head(inbox).t = "joined" /\ win.joining => MemberIf(key, srv)
    BY <1>2, <1>16 DEF Joins
  <1> QED
    BY <1>4, <1>5, <1>6, <1>7, <1>15, <1>17, <1>18, <1>19, <1>20

LEMMA JoinCommandStep ==
    ASSUME Inv, NEW n \in Names, JoinCommand(n)
    PROVE  Inv'
  <1>1. PICK k \in Desks : k = Desk(inbox)
    BY InboxIs
  <1>2. /\ Calm(k, srv, granted) /\ Sound(k, srv, granted) /\ k.win = win /\ k.ini = ini
        /\ win \in Windows /\ n \in Named /\ n # None /\ 0 \in 0..4
    BY <1>1, InboxIs, NoneIs DEF DeskOK, Calm, Named
  <1>3. PICK w : w = [win EXCEPT !.pending = n, !.joining = TRUE, !.registering = FALSE,
                                 !.restoring = FALSE, !.tries = 0, !.joinDue = TRUE]
    OBVIOUS
  <1>4. /\ w \in Windows /\ w.pending = n /\ w.joining = TRUE /\ w.registering = FALSE
        /\ w.token = win.token /\ w.room = win.room
        /\ w.confirmed = win.confirmed /\ w.leaving = win.leaving
    BY <1>2, <1>3 DEF Windows
  <1>5. PICK d \in Desks : d = [k EXCEPT !.win = w]
    BY <1>4, WindowSet
  <1>6. d.win = w /\ d.ini = ini /\ SameQueues(d, k)
    BY <1>2, <1>4, <1>5, WindowSet
  <1>7. d = [Desk(inbox) EXCEPT !.win.pending = n, !.win.joining = TRUE, !.win.registering = FALSE,
                                !.win.restoring = FALSE, !.win.tries = 0, !.win.joinDue = TRUE]
    BY <1>1, <1>2, <1>3, <1>5 DEF Desks
  <1>8. Sound(d, srv, granted)
    BY <1>2, <1>4, <1>6 DEF Sound, SameQueues
  <1>9. Calm(d, srv, granted)
    BY <1>2, <1>4, <1>6, <1>8, CalmKept
  <1>10. PICK f \in Desks : f = Configured(Saved(d))
    <2>1. Saved(d) \in Desks
      BY SavedIs
    <2> QED
      BY <2>1, ConfiguredIs
  <1>11. /\ f.win = w /\ f.ini.room = w.room /\ f.ini.token = w.token
         /\ f.calls = <<>> /\ f.inbox = <<>> /\ f.key = w.token
    <2>1. PICK c \in Desks : c = Saved(d)
      BY SavedIs
    <2>2. c.win = w /\ c.ini.room = w.room /\ c.ini.token = w.token
      BY <1>6, <2>1, SavedIs
    <2> QED
      BY <1>10, <2>1, <2>2, ConfiguredIs
  <1>12. PICK v : v = [w EXCEPT !.confirmed = FALSE]
    OBVIOUS
  <1>13. /\ v \in Windows /\ v.confirmed = FALSE /\ v.pending = n /\ v.joining = TRUE
         /\ v.registering = FALSE /\ v.token = w.token /\ v.room = w.room
    BY <1>4, <1>12 DEF Windows
  <1>14. PICK r \in Desks : r = [f EXCEPT !.win = v]
    BY <1>10, <1>13, WindowSet
  <1>15. /\ r.win = v /\ r.ini.room = w.room /\ r.ini.token = w.token
         /\ r.calls = <<>> /\ r.inbox = <<>> /\ r.key = w.token
    BY <1>10, <1>11, <1>13, <1>14, WindowSet DEF SameQueues
  <1>16. r = [Configured(Saved(d)) EXCEPT !.win.confirmed = FALSE]
    BY <1>10, <1>11, <1>12, <1>14 DEF Desks
  <1>17. Sound(r, srv, granted)
    BY <1>2, <1>4, <1>13, <1>15 DEF Sound
  <1>18. Calm(r, srv, granted) /\ ~AtLeave(r) /\ ~Hearing(r, {"joined"})
    BY <1>13, <1>14, <1>15, <1>17, FreshCalm
  <1>19. DeskOK(r, srv, granted)
    BY <1>13, <1>15, <1>18 DEF DeskOK, Joins
  <1>20. PICK S : S = IF win.token = None THEN Registration(d) ELSE {NotJoining(Failed(d))} \cup Joining(r)
    OBVIOUS
  <1>21. Ends(S)
    BY <1>7, <1>16, <1>20 DEF JoinCommand
  <1>22. \A e \in S : DeskOK(e, srv, granted)
    <2>1. CASE win.token = None
      BY <1>2, <1>4, <1>6, <1>9, <1>20, <2>1, RegistrationOK
    <2>2. CASE win.token # None
      <3>1. DeskOK(NotJoining(Failed(d)), srv, granted)
        BY <1>9, StopsOK
      <3>2. \A e \in Joining(r) : DeskOK(e, srv, granted)
        BY <1>2, <1>4, <1>13, <1>15, <1>19, <2>2, JoiningOK
      <3> QED
        BY <1>20, <2>2, <3>1, <3>2
    <2> QED
      BY <2>1, <2>2
  <1>23. UNCHANGED <<srv, granted>> /\ auth' \in BOOLEAN /\ commands' \in Nat
    BY DEF JoinCommand, Command, Inv, ServerOK
  <1> QED
    BY <1>21, <1>22, <1>23, EndsOK DEF Inv

LEMMA CancelStep ==
    ASSUME Inv, CancelCommand \/ JoinDeadline
    PROVE  Inv'
  <1>1. PICK S : S = Cancellation(Desk(inbox))
    OBVIOUS
  <1>2. Ends(S)
    BY <1>1 DEF CancelCommand, JoinDeadline
  <1>3. \A e \in S : DeskOK(e, srv, granted)
    BY <1>1, InboxIs, CancellationOK DEF DeskOK
  <1>4. UNCHANGED <<srv, granted>> /\ auth' \in BOOLEAN /\ commands' \in Nat
    BY DEF CancelCommand, JoinDeadline, Command, Inv, ServerOK
  <1> QED
    BY <1>2, <1>3, <1>4, EndsOK DEF Inv

LEMMA RenameCommandStep ==
    ASSUME Inv, NEW n \in Names, RenameCommand(n)
    PROVE  Inv'
  <1>1. PICK k \in Desks : k = Desk(inbox)
    BY InboxIs
  <1>2. /\ DeskOK(k, srv, granted) /\ Calm(k, srv, granted) /\ Joins(k, srv)
        /\ Sound(k, srv, granted) /\ k.win = win /\ k.key = key
        /\ win \in Windows /\ n \in Named /\ n # None
    BY <1>1, InboxIs, NoneIs DEF DeskOK, Calm, Named
  <1>3. PICK w : w = [win EXCEPT !.pending = n]
    OBVIOUS
  <1>4. /\ w \in Windows /\ w.pending = n /\ w.joining = win.joining
        /\ w.registering = win.registering /\ w.restoring = win.restoring
        /\ w.token = win.token /\ w.room = win.room
        /\ w.confirmed = win.confirmed /\ w.leaving = win.leaving
    BY <1>2, <1>3 DEF Windows
  <1>5. PICK d \in Desks : d = [k EXCEPT !.win = w]
    BY <1>4, WindowSet
  <1>6. d.win = w /\ d.ini = k.ini /\ SameQueues(d, k)
    BY <1>4, <1>5, WindowSet
  <1>7. d = [Desk(inbox) EXCEPT !.win.pending = n]
    BY <1>1, <1>2, <1>3, <1>5 DEF Desks
  <1>8. Sound(d, srv, granted)
    BY <1>2, <1>4, <1>6 DEF Sound, SameQueues
  <1>9. DeskOK(d, srv, granted)
    <2>1. Calm(d, srv, granted)
      BY <1>2, <1>4, <1>6, <1>8, CalmKept
    <2>2. Joins(d, srv)
      BY <1>2, <1>4, <1>6, JoinsKept DEF Joins
    <2> QED
      BY <2>1, <2>2 DEF DeskOK
  <1>10. PICK p \in Nat : p = IF key = None THEN 0 ELSE 1
    OBVIOUS
  <1>11. PICK a : a = [d EXCEPT !.win.renaming = FALSE, !.spent = p]
    OBVIOUS
  <1>12. DeskOK(a, srv, granted)
    <2>1. /\ a \in Desks /\ a.ini = d.ini /\ SameQueues(a, d) /\ SameRoom(a, d) /\ SameToken(a, d)
          /\ a.win.joining = d.win.joining /\ a.win.registering = d.win.registering
          /\ a.win.restoring = d.win.restoring /\ a.win.confirmed = d.win.confirmed
          /\ a.win.leaving = d.win.leaving
      BY <1>5, <1>10, <1>11 DEF Desks, Windows, SameQueues, SameRoom, SameToken
    <2> QED
      BY <1>9, <2>1, NotedOK
  <1>13. PICK q : q = Asked(d, "rename", n)
    OBVIOUS
  <1>14. key # None => DeskOK(q, srv, granted)
    <2>1. Call("rename", n) \in Calls
      BY DEF Call, Calls
    <2>2. d.key = key
      BY <1>2, <1>6 DEF SameQueues
    <2> QED
      BY <1>5, <1>9, <1>13, <2>1, <2>2, CalmAsked DEF DeskOK
  <1>15. PICK b : b = [q EXCEPT !.win.renaming = TRUE]
    OBVIOUS
  <1>16. key # None => DeskOK(b, srv, granted)
    <2> SUFFICES ASSUME key # None PROVE DeskOK(b, srv, granted)
      OBVIOUS
    <2>1. q \in Desks /\ DeskOK(q, srv, granted)
      BY <1>14 DEF DeskOK, Calm
    <2>2. /\ b \in Desks /\ b.ini = q.ini /\ SameQueues(b, q) /\ SameRoom(b, q) /\ SameToken(b, q)
          /\ b.win.joining = q.win.joining /\ b.win.registering = q.win.registering
          /\ b.win.restoring = q.win.restoring /\ b.win.confirmed = q.win.confirmed
          /\ b.win.leaving = q.win.leaving
      BY <1>15, <2>1 DEF Desks, Windows, SameQueues, SameRoom, SameToken
    <2> QED
      BY <2>1, <2>2, NotedOK
  <1>17. PICK S : S = {a} \cup (IF key = None THEN {} ELSE {b})
    OBVIOUS
  <1>18. Ends(S)
    BY <1>7, <1>10, <1>11, <1>13, <1>15, <1>17 DEF RenameCommand
  <1>19. \A e \in S : DeskOK(e, srv, granted)
    BY <1>12, <1>16, <1>17
  <1>20. UNCHANGED <<srv, granted>> /\ auth' \in BOOLEAN /\ commands' \in Nat
    BY DEF RenameCommand, Command, Inv, ServerOK
  <1> QED
    BY <1>18, <1>19, <1>20, EndsOK DEF Inv

\* The window waits no longer for a leave, and shows no room.
LEMMA CalmLeft ==
    ASSUME NEW s, NEW g, NEW d, NEW e \in Desks, Calm(d, s, g), Sound(e, s, g), SameQueues(e, d),
           ~AtLeave(d), e.win.confirmed = FALSE,
           d.key # None \/ e.win.pending = d.win.pending
    PROVE  Calm(e, s, g)
  <1>1. e.calls = d.calls /\ e.inbox = d.inbox /\ e.key = d.key
    BY DEF SameQueues
  <1>2. \A k : (Calling(e, k) <=> Calling(d, k)) /\ (Hearing(e, k) <=> Hearing(d, k))
    BY <1>1 DEF Calling, Hearing
  <1>3. Heard(e, s, g)
    BY <1>1 DEF Calm, Heard
  <1>4. Kinds(e)
    BY <1>1, <1>2 DEF Calm, Kinds, AtRegistration
  <1>5. LeaveOnce(e)
    BY <1>1, <1>2 DEF Calm, LeaveOnce, AtLeave
  <1> QED
    BY <1>3, <1>4, <1>5 DEF Calm, Linked

LEMMA LeaveAsked ==
    ASSUME NEW s, NEW g, NEW d, Calm(d, s, g), d.key # None, ~AtLeave(d),
           d.win.joining = FALSE, d.win.registering = FALSE
    PROVE  DeskOK([Asked(d, "leave", None) EXCEPT !.win.leaving = TRUE, !.win.leaveDue = TRUE], s, g)
  <1>0. d \in Desks /\ Sound(d, s, g) /\ Call("leave", None) \in Calls
    BY DEF Calm, Call, Calls
  <1>1. PICK q \in Desks : q = Asked(d, "leave", None)
    BY <1>0, AskedIs
  <1>2. /\ q.win = d.win /\ q.ini = d.ini /\ q.inbox = d.inbox /\ q.key = d.key
        /\ q.calls = Append(d.calls, Call("leave", None))
    BY <1>0, <1>1, AskedIs
  <1>3. PICK e : e = [q EXCEPT !.win.leaving = TRUE, !.win.leaveDue = TRUE]
    OBVIOUS
  <1>4. /\ e \in Desks /\ e.ini = q.ini /\ SameQueues(e, q) /\ SameRoom(e, q) /\ SameToken(e, q)
        /\ e.win.joining = q.win.joining /\ e.win.registering = q.win.registering
        /\ e.win.confirmed = q.win.confirmed /\ e.win.leaving = TRUE
    BY <1>1, <1>3 DEF Desks, Windows, SameQueues, SameRoom, SameToken
  <1>5. /\ e.calls = Append(d.calls, Call("leave", None)) /\ e.inbox = d.inbox /\ e.key = d.key
        /\ e.ini = d.ini /\ e.win.room = d.win.room /\ e.win.token = d.win.token
        /\ e.win.pending = d.win.pending /\ e.win.confirmed = d.win.confirmed
    BY <1>2, <1>4 DEF SameQueues, SameRoom, SameToken
  <1>6. /\ Len(e.calls) = Len(d.calls) + 1 /\ Len(d.calls) \in Nat
        /\ \A i \in 1..Len(d.calls) : e.calls[i] = d.calls[i]
        /\ e.calls[Len(d.calls) + 1].op = "leave"
        /\ \A i \in 1..Len(e.calls) : i \in 1..Len(d.calls) \/ i = Len(d.calls) + 1
    BY <1>0, <1>5, CalledIs DEF Call
  <1>7. \A ops : Calling(e, ops) => Calling(d, ops) \/ "leave" \in ops
    BY <1>6 DEF Calling
  <1>8. \A k : Hearing(e, k) <=> Hearing(d, k)
    BY <1>5 DEF Hearing
  <1>9. Sound(e, s, g) /\ Heard(e, s, g) /\ Linked(e, s)
    BY <1>0, <1>4, <1>5 DEF Calm, Sound, Heard, Linked
  <1>10. Kinds(e)
    BY <1>5, <1>7, <1>8 DEF Calm, Kinds, AtRegistration
  <1>11. LeaveOnce(e)
    <2>1. LeavesOnce(e.calls)
      BY <1>6 DEF AtLeave, Calling, LeavesOnce
    <2>2. EndsOnce(e.inbox) /\ ~Hearing(e, LeaveEnds)
      BY <1>5, <1>8 DEF Calm, LeaveOnce, AtLeave
    <2> QED
      BY <1>4, <2>1, <2>2 DEF LeaveOnce
  <1>12. Calm(e, s, g)
    BY <1>4, <1>9, <1>10, <1>11 DEF Calm
  <1> QED
    BY <1>1, <1>2, <1>3, <1>4, <1>12, JoinsWhenNot DEF DeskOK

LEMMA LeaveCommandStep ==
    ASSUME Inv, LeaveCommand
    PROVE  Inv'
  <1>1. PICK k \in Desks : k = Desk(inbox)
    BY InboxIs
  <1>2. /\ Calm(k, srv, granted) /\ Sound(k, srv, granted) /\ k.win = win /\ win \in Windows
        /\ win.joining = FALSE /\ win.registering = FALSE /\ win.leaving = FALSE
    <2>1. win.joining \in BOOLEAN /\ win.registering \in BOOLEAN /\ win.leaving \in BOOLEAN
      BY InboxIs DEF Windows
    <2> QED
      BY <1>1, <2>1, InboxIs DEF DeskOK, Calm, LeaveCommand, Busy
  <1>3. PICK d : d = IF win.confirmed THEN Desk(inbox)
                     ELSE [Configured(Desk(inbox)) EXCEPT !.win.restoring = FALSE]
    OBVIOUS
  <1>4. /\ d \in Desks /\ Calm(d, srv, granted) /\ ~AtLeave(d)
        /\ d.win.joining = FALSE /\ d.win.registering = FALSE
    <2>1. CASE win.confirmed
      BY <1>1, <1>2, <1>3, <2>1 DEF Calm, LeaveOnce
    <2>2. CASE ~win.confirmed
      <3>1. PICK f \in Desks : f = Configured(k)
        BY ConfiguredIs
      <3>2. f.win = win /\ f.ini = k.ini /\ f.calls = <<>> /\ f.inbox = <<>> /\ f.key = win.token
        BY <1>2, <3>1, ConfiguredIs
      <3>3. PICK w : w = [win EXCEPT !.restoring = FALSE]
        OBVIOUS
      <3>4. /\ w \in Windows /\ w.joining = FALSE /\ w.registering = FALSE /\ w.confirmed = FALSE
            /\ w.room = win.room /\ w.token = win.token
        BY <1>2, <2>2, <3>3 DEF Windows
      <3>5. PICK e \in Desks : e = [f EXCEPT !.win = w]
        BY <3>1, <3>4, WindowSet
      <3>6. e.win = w /\ e.ini = k.ini /\ e.calls = <<>> /\ e.inbox = <<>> /\ e.key = win.token
        BY <3>1, <3>2, <3>4, <3>5, WindowSet DEF SameQueues
      <3>7. e = d
        BY <1>1, <1>3, <2>2, <3>1, <3>2, <3>3, <3>5 DEF Desks
      <3>8. Sound(e, srv, granted)
        BY <1>2, <3>4, <3>6 DEF Sound
      <3>9. Calm(e, srv, granted) /\ ~AtLeave(e)
        BY <3>4, <3>5, <3>6, <3>8, FreshCalm
      <3> QED
        BY <3>4, <3>5, <3>6, <3>7, <3>9
    <2> QED
      BY <2>1, <2>2
  <1>5. PICK p \in Nat : p = IF d.key = None THEN 0 ELSE 1
    OBVIOUS
  <1>6. PICK a : a = [d EXCEPT !.win.leaving = FALSE, !.win.leaveDue = FALSE,
                               !.win.confirmed = FALSE, !.spent = p]
    OBVIOUS
  <1>7. DeskOK(a, srv, granted)
    <2>1. /\ a \in Desks /\ a.ini = d.ini /\ SameQueues(a, d) /\ SameRoom(a, d) /\ SameToken(a, d)
          /\ a.win.joining = FALSE /\ a.win.registering = FALSE /\ a.win.confirmed = FALSE
      BY <1>4, <1>5, <1>6 DEF Desks, Windows, SameQueues, SameRoom, SameToken
    <2>2. Sound(a, srv, granted)
      BY <1>4, <2>1 DEF Calm, Sound, SameQueues, SameRoom, SameToken
    <2>3. Calm(a, srv, granted)
      BY <1>4, <2>1, <2>2, CalmLeft DEF SameRoom
    <2> QED
      BY <2>1, <2>3, JoinsWhenNot DEF DeskOK
  <1>8. PICK b : b = [Asked(d, "leave", None) EXCEPT !.win.leaving = TRUE, !.win.leaveDue = TRUE]
    OBVIOUS
  <1>9. d.key # None => DeskOK(b, srv, granted)
    BY <1>4, <1>8, LeaveAsked
  <1>10. PICK S : S = (IF d.key = None THEN {} ELSE {b}) \cup {a}
    OBVIOUS
  <1>11. Ends(S)
    BY <1>3, <1>5, <1>6, <1>8, <1>10 DEF LeaveCommand
  <1>12. \A e \in S : DeskOK(e, srv, granted)
    BY <1>7, <1>9, <1>10
  <1>13. UNCHANGED <<srv, granted>> /\ auth' \in BOOLEAN /\ commands' \in Nat
    BY DEF LeaveCommand, Command, Inv, ServerOK
  <1> QED
    BY <1>11, <1>12, <1>13, EndsOK DEF Inv

LEMMA DisabledOK ==
    ASSUME NEW s, NEW g, NEW d \in Desks, Sound(d, s, g)
    PROVE  DeskOK(Disabled(d), s, g)
  <1>1. PICK e \in Desks : e = Disabled(d)
    BY DisabledIs
  <1>2. /\ e.ini = d.ini /\ e.calls = <<>> /\ e.inbox = <<>> /\ e.key = None
        /\ e.win.joining = FALSE /\ e.win.registering = FALSE /\ e.win.confirmed = FALSE
        /\ SameRoom(e, d) /\ SameToken(e, d)
    BY <1>1, DisabledIs
  <1>3. Sound(e, s, g)
    BY <1>2 DEF Sound, SameRoom, SameToken, TokenOK
  <1>4. Calm(e, s, g)
    BY <1>1, <1>2, <1>3, FreshCalm
  <1> QED
    BY <1>1, <1>2, <1>4, JoinsWhenNot DEF DeskOK

LEMMA DisableStep ==
    ASSUME Inv, Disable
    PROVE  Inv'
  <1>1. PICK d : d = Disabled(Desk(inbox))
    OBVIOUS
  <1>2. DeskOK(d, srv, granted)
    BY <1>1, InboxIs, DisabledOK DEF DeskOK, Calm
  <1>3. PICK S : S = {Failed(d)}
    OBVIOUS
  <1>4. Ends(S)
    BY <1>1, <1>3 DEF Disable
  <1>5. \A e \in S : DeskOK(e, srv, granted)
    BY <1>2, <1>3, StopsOK DEF DeskOK
  <1>6. UNCHANGED <<srv, granted>> /\ auth' \in BOOLEAN /\ commands' \in Nat
    BY DEF Disable, Inv, ServerOK
  <1> QED
    BY <1>4, <1>5, <1>6, EndsOK DEF Inv

LEMMA AuthorizeStep ==
    ASSUME Inv, Authorize
    PROVE  Inv'
  <1>1. PICK k \in Desks : k = Disabled(Desk(inbox))
    BY InboxIs, DisabledIs
  <1>2. DeskOK(k, srv, granted) /\ k.win.room = win.room /\ k.win.token = win.token
        /\ k.calls = <<>> /\ k.inbox = <<>> /\ k.key = None
        /\ k.win.joining = FALSE /\ k.win.registering = FALSE /\ k.win.confirmed = FALSE
    <2>1. PICK j \in Desks : j = Desk(inbox)
      BY InboxIs
    <2>2. j.win = win /\ Sound(j, srv, granted)
      BY <2>1, InboxIs DEF DeskOK, Calm
    <2>3. DeskOK(k, srv, granted)
      BY <1>1, <2>1, <2>2, DisabledOK
    <2>4. /\ k.calls = <<>> /\ k.inbox = <<>> /\ k.key = None
          /\ k.win.joining = FALSE /\ k.win.registering = FALSE /\ k.win.confirmed = FALSE
          /\ SameRoom(k, j) /\ SameToken(k, j)
      BY <1>1, <2>1, DisabledIs
    <2> QED
      BY <2>2, <2>3, <2>4 DEF SameRoom, SameToken
  <1>3. PICK d \in Desks : d = Saved(k)
    BY <1>1, SavedIs
  <1>4. /\ d.win = k.win /\ SameQueues(d, k) /\ d.ini.room = k.win.room /\ d.ini.token = k.win.token
    BY <1>1, <1>3, SavedIs
  <1>5. Sound(d, srv, granted)
    BY <1>2, <1>4 DEF DeskOK, Calm, Sound, SameQueues
  <1>6. Calm(d, srv, granted)
    BY <1>2, <1>3, <1>4, <1>5, FreshCalm DEF SameQueues
  <1>7. PICK w : w = [d.win EXCEPT !.pending = win.room]
    OBVIOUS
  <1>8. /\ w \in Windows /\ w.pending = win.room /\ w.room = d.win.room /\ w.token = d.win.token
        /\ w.confirmed = d.win.confirmed /\ w.leaving = d.win.leaving
    BY <1>3, <1>7, DeskIs, InboxIs DEF Windows
  <1>9. PICK f \in Desks : f = [d EXCEPT !.win = w]
    BY <1>3, <1>8, WindowSet
  <1>10. f.win = w /\ f.ini = d.ini /\ SameQueues(f, d)
    BY <1>3, <1>8, <1>9, WindowSet
  <1>11. f = [d EXCEPT !.win.pending = win.room]
    BY <1>3, <1>7, <1>9 DEF Desks
  <1>12. Sound(f, srv, granted)
    BY <1>5, <1>8, <1>10 DEF Sound, SameQueues
  <1>13. win.room # None => Calm(f, srv, granted)
    BY <1>6, <1>8, <1>9, <1>10, <1>12, CalmKept
  <1>14. PICK S : S = IF win.room = None THEN {d}
                     ELSE IF win.token = None THEN Registration(f) ELSE Restoration(d)
    OBVIOUS
  <1>15. Ends(S)
    BY <1>1, <1>3, <1>11, <1>14 DEF Authorize
  <1>16. \A e \in S : DeskOK(e, srv, granted)
    <2>1. CASE win.room = None
      BY <1>2, <1>4, <1>6, <1>14, <2>1, JoinsWhenNot DEF DeskOK
    <2>2. CASE win.room # None /\ win.token = None
      BY <1>8, <1>10, <1>13, <1>14, <2>2, RegistrationOK
    <2>3. CASE win.room # None /\ win.token # None
      BY <1>6, <1>14, <2>3, RestorationOK
    <2> QED
      BY <2>1, <2>2, <2>3
  <1>17. UNCHANGED <<srv, granted>> /\ auth' \in BOOLEAN /\ commands' \in Nat
    BY DEF Authorize, Inv, ServerOK
  <1> QED
    BY <1>15, <1>16, <1>17, EndsOK DEF Inv

LEMMA LoadedIs ==
    ASSUME NEW i \in Inis
    PROVE  /\ Loaded(i) \in Windows /\ Loaded(i).room = i.room /\ Loaded(i).token = i.token
           /\ Loaded(i).joining = FALSE /\ Loaded(i).registering = FALSE
           /\ Loaded(i).confirmed = FALSE
  <1>1. 0 \in 0..4 /\ None \in Named /\ i.room \in Named /\ i.token \in Known /\ i.dev \in Devices
    BY NoneIs DEF Inis
  <1> QED
    BY <1>1 DEF Loaded, Closed, Windows

\* What the program finds in config.ini.
LEMMA LoadedOK ==
    ASSUME NEW s, NEW g, NEW i \in Inis, NEW d,
           d = [win |-> Loaded(i), ini |-> i, calls |-> <<>>, inbox |-> <<>>, key |-> None,
                spent |-> 0],
           i.room \in g \cup {None}, TokenOK(i.token, s)
    PROVE  DeskOK(d, s, g)
  <1>1. /\ d.win = Loaded(i) /\ d.ini = i /\ d.calls = <<>> /\ d.inbox = <<>> /\ d.key = None
        /\ d \in Desks
    <2>1. Loaded(i) \in Windows /\ None \in Known
      BY LoadedIs, NoneIs
    <2>2. <<>> \in Seq(Calls) /\ <<>> \in Seq(Events)
      OBVIOUS
    <2> QED
      BY <2>1, <2>2 DEF Desks
  <1>2. Sound(d, s, g)
    BY <1>1, LoadedIs DEF Sound, TokenOK
  <1>3. Calm(d, s, g)
    BY <1>1, <1>2, LoadedIs, FreshCalm
  <1> QED
    BY <1>1, <1>3, LoadedIs, JoinsWhenNot DEF DeskOK

LEMMA RestartStep ==
    ASSUME Inv, Restart
    PROVE  Inv'
  <1>1. ini \in Inis /\ ini.room \in granted \cup {None} /\ TokenOK(ini.token, srv)
    BY InboxIs DEF DeskOK, Calm, Sound
  <1>2. /\ win' = Loaded(ini) /\ ini' = ini /\ calls' = <<>> /\ inbox' = <<>> /\ key' = None
        /\ srv' = srv /\ granted' = granted /\ auth' = FALSE /\ commands' = commands
        /\ faults' = faults + 1 /\ faults < MaxFaults
    BY DEF Restart
  <1>3. PICK d : d = Desk(inbox)'
    OBVIOUS
  <1>4. d = [win |-> Loaded(ini), ini |-> ini, calls |-> <<>>, inbox |-> <<>>, key |-> None,
             spent |-> 0]
    BY <1>2, <1>3 DEF Desk
  <1>5. DeskOK(d, srv, granted)
    BY <1>1, <1>4, LoadedOK
  <1>6. ServerOK'
    <2>1. /\ srv \in Servers /\ granted \subseteq Names /\ commands \in Nat
          /\ faults \in 0..MaxFaults /\ srv.epoch <= faults /\ srv.epoch \in Nat
      BY BoundsAssumption DEF Inv, ServerOK, Servers
    <2>2. faults' \in 0..MaxFaults /\ srv.epoch <= faults'
      BY <1>2, <2>1, BoundsAssumption
    <2> QED
      BY <1>2, <2>1, <2>2 DEF ServerOK
  <1> QED
    BY <1>2, <1>3, <1>5, <1>6 DEF Inv

LEMMA LeaveDeadlineStep ==
    ASSUME Inv, LeaveDeadline
    PROVE  Inv'
  <1>1. PICK k \in Desks : k = Desk(inbox)
    BY InboxIs
  <1>2. /\ Joins(k, srv) /\ Sound(k, srv, granted) /\ k.win = win /\ k.key = key
    BY <1>1, InboxIs DEF DeskOK, Calm
  <1>3. PICK f \in Desks : f = Configured(k)
    BY <1>1, ConfiguredIs
  <1>4. f.win = win /\ f.ini = k.ini /\ f.calls = <<>> /\ f.inbox = <<>> /\ f.key = win.token
    BY <1>1, <1>2, <1>3, ConfiguredIs
  <1>5. PICK a : a = [f EXCEPT !.win.leaving = FALSE, !.win.leaveDue = FALSE,
                               !.win.confirmed = FALSE]
    OBVIOUS
  <1>6. /\ a \in Desks /\ a.ini = f.ini /\ SameQueues(a, f) /\ SameRoom(a, f) /\ SameToken(a, f)
        /\ a.win.joining = f.win.joining /\ a.win.registering = f.win.registering
        /\ a.win.restoring = f.win.restoring /\ a.win.confirmed = FALSE
    <2>1. PICK u \in Windows : u = f.win
      BY <1>3 DEF Desks
    <2>2. PICK w : w = [u EXCEPT !.leaving = FALSE, !.leaveDue = FALSE, !.confirmed = FALSE]
      OBVIOUS
    <2>3. w \in Windows
      BY <2>1, <2>2 DEF Windows
    <2>4. /\ w.joining = u.joining /\ w.registering = u.registering /\ w.restoring = u.restoring
          /\ w.confirmed = FALSE /\ w.room = u.room /\ w.pending = u.pending /\ w.token = u.token
          /\ w.dev = u.dev /\ w.tries = u.tries
      BY <2>1, <2>2 DEF Windows
    <2>5. a = [f EXCEPT !.win = w]
      BY <1>3, <1>5, <2>1, <2>2 DEF Desks
    <2>6. a \in Desks /\ a.win = w /\ a.ini = f.ini /\ SameQueues(a, f)
      BY <1>3, <2>3, <2>5, WindowSet
    <2> QED
      BY <2>1, <2>4, <2>6 DEF SameRoom, SameToken
  <1>7. /\ a.calls = <<>> /\ a.inbox = <<>> /\ a.key = win.token /\ a.win.token = win.token
        /\ a.win.room = win.room /\ a.ini = k.ini
    BY <1>4, <1>6 DEF SameQueues, SameRoom, SameToken
  <1>8. Sound(a, srv, granted)
    BY <1>2, <1>7 DEF Sound
  <1>9. Calm(a, srv, granted) /\ ~AtLeave(a) /\ ~Hearing(a, {"joined"})
    BY <1>6, <1>7, <1>8, FreshCalm
  <1>10. Joins(a, srv)
    BY <1>2, <1>4, <1>6, <1>7, <1>9 DEF Joins
  <1>11. PICK S : S = {a}
    OBVIOUS
  <1>12. Ends(S)
    BY <1>1, <1>3, <1>5, <1>11 DEF LeaveDeadline
  <1>13. \A e \in S : DeskOK(e, srv, granted)
    BY <1>9, <1>10, <1>11 DEF DeskOK
  <1>14. UNCHANGED <<srv, granted>> /\ auth' \in BOOLEAN /\ commands' \in Nat
    BY DEF LeaveDeadline, Inv, ServerOK
  <1> QED
    BY <1>12, <1>13, <1>14, EndsOK DEF Inv

LEMMA SavedOK ==
    ASSUME NEW s, NEW g, NEW d, Calm(d, s, g)
    PROVE  /\ Calm(Saved(d), s, g) /\ Saved(d).win = d.win
           /\ DeskOK(d, s, g) => DeskOK(Saved(d), s, g)
  <1>1. PICK e \in Desks : e = Saved(d)
    BY SavedIs DEF Calm
  <1>2. e.win = d.win /\ SameQueues(e, d) /\ e.ini.room = d.win.room /\ e.ini.token = d.win.token
    BY <1>1, SavedIs DEF Calm
  <1>3. Sound(e, s, g)
    BY <1>2 DEF Calm, Sound, SameQueues
  <1>4. Calm(e, s, g)
    BY <1>1, <1>2, <1>3, CalmKept
  <1>5. Joins(d, s) => Joins(e, s)
    BY <1>2 DEF Joins, SameQueues, AtLeave, Calling, Hearing
  <1> QED
    BY <1>1, <1>2, <1>4, <1>5 DEF DeskOK

LEMMA EventIs ==
    ASSUME NEW e \in Events
    PROVE  /\ e.t = "registered" => e.arg \in Tokens
           /\ e.t \in Given => e.arg \in Names
  BY DEF Events, Given, Others

LEMMA RegisteredStep ==
    ASSUME Inv, Registered
    PROVE  Inv'
  <1>0. inbox # <<>> /\ Head(inbox).t = "registered"
    BY DEF Registered, Message
  <1>1. PICK k \in Desks : k = Desk(Box)
    BY <1>0, BoxIs
  <1>2. /\ Calm(k, srv, granted) /\ Sound(k, srv, granted) /\ k.win = win /\ win \in Windows
        /\ k.key = None /\ win.pending # None /\ win.confirmed = FALSE
    <2>1. DeskOK(k, srv, granted) /\ k.win = win /\ k.key = key /\ key = None /\ win.pending # None
      BY <1>0, <1>1, BoxIs DEF Registrations
    <2>2. win.confirmed \in BOOLEAN /\ win \in Windows
      BY InboxIs DEF Windows
    <2> QED
      BY <2>1, <2>2 DEF DeskOK, Calm, Kinds
  <1>3. PICK t \in Tokens : t = Head(inbox).arg
    BY <1>0, BoxIs, EventIs
  <1>4. t # None /\ t \in Known /\ TokenOK(t, srv)
    BY <1>0, <1>3, BoxIs, NoneIs DEF Known
  <1>5. PICK w : w = [win EXCEPT !.token = t]
    OBVIOUS
  <1>6. /\ w \in Windows /\ w.token = t /\ w.room = win.room /\ w.pending = win.pending
        /\ w.confirmed = FALSE /\ w.leaving = win.leaving
    BY <1>2, <1>4, <1>5 DEF Windows
  <1>7. PICK d \in Desks : d = [k EXCEPT !.win = w]
    BY <1>1, <1>6, WindowSet
  <1>8. d.win = w /\ d.ini = k.ini /\ SameQueues(d, k)
    BY <1>1, <1>6, <1>7, WindowSet
  <1>9. d = [Desk(Box) EXCEPT !.win.token = Head(inbox).arg]
    BY <1>1, <1>2, <1>3, <1>5, <1>7 DEF Desks
  <1>10. Sound(d, srv, granted)
    BY <1>2, <1>4, <1>6, <1>8 DEF Sound, SameQueues
  <1>11. Calm(d, srv, granted)
    BY <1>2, <1>6, <1>7, <1>8, <1>10, CalmKept
  <1>12. PICK c \in Desks : c = Saved(d)
    BY <1>7, SavedIs
  <1>13. c.win = w /\ c.ini.room = w.room /\ c.ini.token = t
    <2>1. c.win = d.win /\ c.ini.room = d.win.room /\ c.ini.token = d.win.token
      BY <1>7, <1>12, SavedIs
    <2> QED
      BY <1>6, <1>8, <2>1
  <1>14. PICK f \in Desks : f = Configured(c)
    BY <1>12, ConfiguredIs
  <1>15. f.win = w /\ f.ini = c.ini /\ f.calls = <<>> /\ f.inbox = <<>> /\ f.key = t
    BY <1>6, <1>12, <1>13, <1>14, ConfiguredIs
  <1>16. PICK v : v = [w EXCEPT !.registering = FALSE]
    OBVIOUS
  <1>17. /\ v \in Windows /\ v.registering = FALSE /\ v.confirmed = FALSE /\ v.token = t
         /\ v.room = w.room /\ v.pending = w.pending
    BY <1>6, <1>16 DEF Windows
  <1>18. PICK r \in Desks : r = [f EXCEPT !.win = v]
    BY <1>14, <1>17, WindowSet
  <1>19. r.win = v /\ r.ini = c.ini /\ r.calls = <<>> /\ r.inbox = <<>> /\ r.key = t
    BY <1>14, <1>15, <1>17, <1>18, WindowSet DEF SameQueues
  <1>20. r = [Configured(Saved(d)) EXCEPT !.win.registering = FALSE]
    BY <1>12, <1>14, <1>15, <1>16, <1>18 DEF Desks
  <1>21. Sound(r, srv, granted)
    BY <1>4, <1>6, <1>8, <1>10, <1>13, <1>17, <1>19 DEF Sound
  <1>22. DeskOK(r, srv, granted)
    <2>1. Calm(r, srv, granted) /\ ~AtLeave(r) /\ ~Hearing(r, {"joined"})
      BY <1>17, <1>18, <1>19, <1>21, FreshCalm
    <2> QED
      BY <1>17, <1>19, <2>1 DEF DeskOK, Joins
  <1>23. PICK S : S = IF Head(inbox).arg.dev # win.dev THEN Cancellation(k)
                      ELSE {NotJoining(Failed(d))} \cup Joining(r)
    OBVIOUS
  <1>24. Ends(S)
    BY <1>1, <1>9, <1>20, <1>23 DEF Registered
  <1>25. \A e \in S : DeskOK(e, srv, granted)
    <2>1. \A e \in Cancellation(k) : DeskOK(e, srv, granted)
      BY <1>2, CancellationOK
    <2>2. DeskOK(NotJoining(Failed(d)), srv, granted)
      BY <1>11, StopsOK
    <2>3. \A e \in Joining(r) : DeskOK(e, srv, granted)
      BY <1>2, <1>4, <1>6, <1>17, <1>19, <1>22, JoiningOK
    <2> QED
      BY <1>23, <2>1, <2>2, <2>3
  <1>26. UNCHANGED <<srv, granted>> /\ auth' \in BOOLEAN /\ commands' \in Nat
    BY DEF Registered, Handled, Inv, ServerOK
  <1> QED
    BY <1>24, <1>25, <1>26, EndsOK DEF Inv

LEMMA RegistrationErrorStep ==
    ASSUME Inv, RegistrationError
    PROVE  Inv'
  <1>0. inbox # <<>> /\ Head(inbox).t = "registration error"
        /\ (Head(inbox).arg = "taken" => win.dev + 1 \in Devices)
    BY DEF RegistrationError, Message
  <1>1. PICK k \in Desks : k = Desk(Box)
    BY <1>0, BoxIs
  <1>2. /\ Calm(k, srv, granted) /\ Sound(k, srv, granted) /\ k.win = win /\ win \in Windows
        /\ win.pending # None /\ win.tries \in 0..4
    BY <1>0, <1>1, BoxIs, InboxIs DEF DeskOK, Calm, Registrations
  <1>3. PICK w : w = [win EXCEPT !.registering = FALSE]
    OBVIOUS
  <1>4. /\ w \in Windows /\ w.token = win.token /\ w.room = win.room /\ w.pending = win.pending
        /\ w.confirmed = win.confirmed /\ w.leaving = win.leaving
        /\ w.tries = win.tries /\ w.dev = win.dev
    BY <1>2, <1>3 DEF Windows
  <1>5. PICK d \in Desks : d = [k EXCEPT !.win = w]
    BY <1>1, <1>4, WindowSet
  <1>6. d.win = w /\ d.ini = k.ini /\ SameQueues(d, k)
    BY <1>1, <1>4, <1>5, WindowSet
  <1>7. d = [Desk(Box) EXCEPT !.win.registering = FALSE]
    BY <1>1, <1>2, <1>3, <1>5 DEF Desks
  <1>8. Sound(d, srv, granted)
    BY <1>2, <1>4, <1>6 DEF Sound, SameQueues
  <1>9. Calm(d, srv, granted)
    BY <1>2, <1>4, <1>5, <1>6, <1>8, CalmKept
  <1>10. PICK S : S = IF Head(inbox).arg = "taken" /\ win.tries < 4
                      THEN Registration([d EXCEPT !.win.tries = @ + 1, !.win.dev = @ + 1])
                      ELSE Cancellation(d)
    OBVIOUS
  <1>11. Ends(S)
    BY <1>7, <1>10 DEF RegistrationError
  <1>12. ASSUME Head(inbox).arg = "taken", win.tries < 4, NEW e \in S
         PROVE  DeskOK(e, srv, granted)
    <2>1. PICK tries \in 0..4 : tries = w.tries + 1
      BY <1>2, <1>4, <1>12
    <2>2. PICK dev \in Devices : dev = w.dev + 1
      BY <1>0, <1>4, <1>12
    <2>3. PICK v : v = [w EXCEPT !.tries = tries, !.dev = dev]
      OBVIOUS
    <2>4. /\ v \in Windows /\ v.token = w.token /\ v.room = w.room /\ v.pending = w.pending
          /\ v.confirmed = w.confirmed /\ v.leaving = w.leaving
      BY <1>4, <2>1, <2>2, <2>3 DEF Windows
    <2>5. PICK f \in Desks : f = [d EXCEPT !.win = v]
      BY <1>5, <2>4, WindowSet
    <2>6. f.win = v /\ f.ini = d.ini /\ SameQueues(f, d)
      BY <1>5, <2>4, <2>5, WindowSet
    <2>7. f = [d EXCEPT !.win.tries = @ + 1, !.win.dev = @ + 1]
      BY <1>4, <1>5, <1>6, <2>1, <2>2, <2>3, <2>5 DEF Desks, Windows
    <2>8. Sound(f, srv, granted)
      BY <1>8, <1>6, <2>4, <2>6 DEF Sound, SameQueues
    <2>9. Calm(f, srv, granted)
      BY <1>6, <1>9, <2>4, <2>5, <2>6, <2>8, CalmKept
    <2>10. f.win.pending # None
      BY <1>2, <1>4, <2>4, <2>6
    <2> QED
      BY <1>10, <1>12, <2>7, <2>9, <2>10, RegistrationOK
  <1>13. \A e \in S : DeskOK(e, srv, granted)
    BY <1>9, <1>10, <1>12, CancellationOK
  <1>14. UNCHANGED <<srv, granted>> /\ auth' \in BOOLEAN /\ commands' \in Nat
    BY DEF RegistrationError, Handled, Inv, ServerOK
  <1> QED
    BY <1>11, <1>13, <1>14, EndsOK DEF Inv

LEMMA JoinResultStep ==
    ASSUME Inv, JoinResult
    PROVE  Inv'
  <1>0. inbox # <<>> /\ Head(inbox).t \in {"joined", "join refused", "join failed"}
    BY DEF JoinResult, Message
  <1>1. PICK k \in Desks : k = Desk(Box)
    BY <1>0, BoxIs
  <1>2. /\ DeskOK(k, srv, granted) /\ k.win = win /\ win \in Windows /\ k.key = key /\ key # None
        /\ win.room \in Named /\ win.pending \in Named
    BY <1>0, <1>1, BoxIs, InboxIs DEF Registrations
  <1>3. Calm(k, srv, granted) /\ Joins(k, srv) /\ Sound(k, srv, granted)
    BY <1>2 DEF DeskOK, Calm
  <1>4. PICK done : done = [k EXCEPT !.win.joining = FALSE, !.win.restoring = FALSE,
                               !.win.confirmed = TRUE, !.win.joinDue = FALSE,
                               !.win.room = win.pending]
    OBVIOUS
  <1>5. ASSUME win.joining, Head(inbox).t = "joined", Head(inbox).arg = win.pending
        PROVE  DeskOK(done, srv, granted)
    <2>1. PICK w : w = [win EXCEPT !.joining = FALSE, !.restoring = FALSE, !.confirmed = TRUE,
                                   !.joinDue = FALSE, !.room = win.pending]
      OBVIOUS
    <2>2. /\ w \in Windows /\ w.joining = FALSE /\ w.registering = win.registering
          /\ w.room = win.pending /\ w.pending = win.pending /\ w.token = win.token
          /\ w.leaving = win.leaving
      <3>1. /\ w.joining = FALSE /\ w.registering = win.registering
            /\ w.room = win.pending /\ w.pending = win.pending /\ w.token = win.token
            /\ w.leaving = win.leaving
        BY <1>2, <2>1 DEF Windows
      <3>2. win \in Windows /\ win.pending \in Named
        BY <1>2
      <3>3. w \in Windows
        BY <2>1, <3>2 DEF Windows
      <3> QED
        BY <3>1, <3>3
    <2>3. PICK d \in Desks : d = [k EXCEPT !.win = w]
      BY <1>1, <2>2, WindowSet
    <2>4. d.win = w /\ d.ini = k.ini /\ SameQueues(d, k)
      BY <1>1, <2>2, <2>3, WindowSet
    <2>5. d = done
      BY <1>1, <1>2, <1>4, <2>1, <2>3 DEF Desks
    <2>6. win.pending \in granted
      BY <1>0, <1>5, BoxIs DEF Given
    <2>7. Sound(d, srv, granted)
      BY <1>2, <1>3, <2>2, <2>4, <2>6 DEF Sound, SameQueues
    <2>8. win.token \in {None, key} /\ ~AtLeave(k) /\ MemberIf(key, srv)
      BY <1>0, <1>2, <1>3, <1>5, BoxIs DEF Joins
    <2>9. win.registering = FALSE
      <3>1. win.registering \in BOOLEAN
        BY <1>2 DEF Windows
      <3> QED
        BY <1>2, <1>3, <3>1 DEF Joins
    <2>10. d.calls = k.calls /\ d.inbox = k.inbox /\ d.key = key
      BY <1>2, <2>4 DEF SameQueues
    <2>11. \A a : (Calling(d, a) <=> Calling(k, a)) /\ (Hearing(d, a) <=> Hearing(k, a))
      BY <2>10 DEF Calling, Hearing
    <2>12. Heard(d, srv, granted)
      BY <1>3, <2>10 DEF Calm, Heard
    <2>13. Kinds(d)
      BY <1>2, <1>3, <2>10, <2>11 DEF Calm, Kinds, AtRegistration
    <2>14. LeaveOnce(d)
      BY <1>3, <2>8, <2>10, <2>11 DEF Calm, LeaveOnce, AtLeave
    <2>15. Linked(d, srv)
      BY <2>2, <2>4, <2>8, <2>10 DEF Linked, MemberIf
    <2>16. Calm(d, srv, granted)
      BY <2>3, <2>7, <2>12, <2>13, <2>14, <2>15 DEF Calm
    <2> QED
      BY <2>2, <2>4, <2>5, <2>9, <2>16, JoinsWhenNot DEF DeskOK
  <1>6. PICK S : S = IF ~win.joining THEN {k}
                     ELSE IF Head(inbox).t = "join refused" THEN Cancellation(k)
                     ELSE IF Head(inbox).t = "joined" /\ Head(inbox).arg = win.pending
                     THEN {Saved(done), Failed(done)}
                     ELSE {k}
    OBVIOUS
  <1>7. Ends(S)
    BY <1>1, <1>4, <1>6 DEF JoinResult
  <1>8. \A e \in S : DeskOK(e, srv, granted)
    <2>1. \A e \in Cancellation(k) : DeskOK(e, srv, granted)
      BY <1>3, CancellationOK
    <2>2. DeskOK(done, srv, granted) =>
             DeskOK(Saved(done), srv, granted) /\ DeskOK(Failed(done), srv, granted)
      BY SavedOK, StopsOK DEF DeskOK
    <2> QED
      BY <1>2, <1>5, <1>6, <2>1, <2>2
  <1>9. UNCHANGED <<srv, granted>> /\ auth' \in BOOLEAN /\ commands' \in Nat
    BY DEF JoinResult, Handled, Inv, ServerOK
  <1> QED
    BY <1>7, <1>8, <1>9, EndsOK DEF Inv

LEMMA RenameResultStep ==
    ASSUME Inv, RenameResult
    PROVE  Inv'
  <1>0. inbox # <<>>
    BY DEF RenameResult, Message
  <1>1. PICK k \in Desks : k = Desk(Box)
    BY <1>0, BoxIs
  <1>2. /\ DeskOK(k, srv, granted) /\ k.win = win /\ win \in Windows
        /\ win.room \in Named /\ win.pending \in Named
    BY <1>0, <1>1, BoxIs, InboxIs
  <1>3. PICK d : d = [k EXCEPT !.win.renaming = FALSE]
    OBVIOUS
  <1>4. /\ d \in Desks /\ d.ini = k.ini /\ SameQueues(d, k) /\ SameRoom(d, k) /\ SameToken(d, k)
        /\ d.win.joining = k.win.joining /\ d.win.registering = k.win.registering
        /\ d.win.restoring = k.win.restoring /\ d.win.confirmed = k.win.confirmed
        /\ d.win.leaving = k.win.leaving
    BY <1>1, <1>3 DEF Desks, Windows, SameQueues, SameRoom, SameToken
  <1>5. DeskOK(d, srv, granted)
    BY <1>2, <1>4, NotedOK
  <1>6. Calm(d, srv, granted) /\ Joins(d, srv) /\ Sound(d, srv, granted)
    BY <1>5 DEF DeskOK, Calm
  <1>7. PICK done : done = [d EXCEPT !.win.room = win.pending]
    OBVIOUS
  <1>8. ASSUME Head(inbox).t = "renamed", Head(inbox).arg = win.pending
        PROVE  DeskOK(done, srv, granted)
    <2>1. win.pending \in granted
      BY <1>0, <1>8, BoxIs DEF Given
    <2>2. /\ done \in Desks /\ done.ini = d.ini /\ SameQueues(done, d) /\ SameToken(done, d)
          /\ done.win.room = win.pending /\ done.win.pending = d.win.pending
          /\ done.win.joining = d.win.joining /\ done.win.registering = d.win.registering
          /\ done.win.restoring = d.win.restoring /\ done.win.confirmed = d.win.confirmed
          /\ done.win.leaving = d.win.leaving
      BY <1>2, <1>4, <1>7 DEF Desks, Windows, SameQueues, SameToken
    <2>3. Sound(done, srv, granted)
      BY <1>6, <2>1, <2>2 DEF Sound, SameQueues, SameToken
    <2>4. Calm(done, srv, granted)
      BY <1>6, <2>2, <2>3, CalmKept DEF SameToken
    <2>5. Joins(done, srv)
      BY <1>6, <2>2 DEF Joins, SameToken, SameQueues, AtLeave, Calling, Hearing
    <2> QED
      BY <2>4, <2>5 DEF DeskOK
  <1>9. PICK S : S = IF Head(inbox).t = "renamed" /\ Head(inbox).arg = win.pending
                     THEN {Saved(done), Failed(done)} ELSE {d}
    OBVIOUS
  <1>10. Ends(S)
    BY <1>1, <1>3, <1>7, <1>9 DEF RenameResult
  <1>11. \A e \in S : DeskOK(e, srv, granted)
    <2>1. DeskOK(done, srv, granted) =>
             DeskOK(Saved(done), srv, granted) /\ DeskOK(Failed(done), srv, granted)
      BY SavedOK, StopsOK DEF DeskOK
    <2> QED
      BY <1>5, <1>8, <1>9, <2>1
  <1>12. UNCHANGED <<srv, granted>> /\ auth' \in BOOLEAN /\ commands' \in Nat
    BY DEF RenameResult, Handled, Inv, ServerOK
  <1> QED
    BY <1>10, <1>11, <1>12, EndsOK DEF Inv

LEMMA LeaveResultStep ==
    ASSUME Inv, LeaveResult
    PROVE  Inv'
  <1>0. inbox # <<>> /\ Head(inbox).t \in LeaveEnds
    BY DEF LeaveResult, Message, LeaveEnds
  <1>1. PICK k \in Desks : k = Desk(Box)
    BY <1>0, BoxIs
  <1>2. /\ DeskOK(k, srv, granted) /\ k.win = win /\ win \in Windows /\ k.key = key /\ key # None
        /\ ~AtLeave(k) /\ ~win.joining
    BY <1>0, <1>1, BoxIs, InboxIs DEF Registrations, LeaveEnds
  <1>3. Calm(k, srv, granted) /\ Joins(k, srv) /\ Sound(k, srv, granted)
    BY <1>2 DEF DeskOK, Calm
  <1>4. win.joining = FALSE /\ win.registering = FALSE
    <2>1. win.joining \in BOOLEAN /\ win.registering \in BOOLEAN
      BY <1>2 DEF Windows
    <2> QED
      BY <1>2, <1>3, <2>1 DEF Joins
  \* Whatever is noted besides, and whatever name is forgotten.
  <1>5. ASSUME NEW e \in Desks, SameQueues(e, k), e.win.confirmed = FALSE, e.win.joining = FALSE,
               e.win.registering = FALSE, e.win.token = win.token, e.win.room \in {None, win.room},
               e.ini = k.ini \/ (e.ini.room = e.win.room /\ e.ini.token = e.win.token)
        PROVE  DeskOK(e, srv, granted)
    <2>1. Sound(e, srv, granted)
      BY <1>2, <1>3, <1>5 DEF Sound, SameQueues
    <2>2. Calm(e, srv, granted)
      BY <1>2, <1>3, <1>5, <2>1, CalmLeft
    <2> QED
      BY <1>5, <2>2, JoinsWhenNot DEF DeskOK
  <1>6. PICK d : d = [k EXCEPT !.win.leaving = FALSE, !.win.leaveDue = FALSE,
                               !.win.confirmed = FALSE]
    OBVIOUS
  <1>7. /\ d \in Desks /\ d.ini = k.ini /\ SameQueues(d, k) /\ d.win.confirmed = FALSE
        /\ d.win.joining = FALSE /\ d.win.registering = FALSE
        /\ d.win.token = win.token /\ d.win.room = win.room
    BY <1>1, <1>2, <1>4, <1>6 DEF Desks, Windows, SameQueues
  <1>8. PICK gone : gone = [d EXCEPT !.win.restoring = FALSE]
    OBVIOUS
  <1>9. /\ gone \in Desks /\ gone.ini = k.ini /\ SameQueues(gone, k) /\ gone.win.confirmed = FALSE
        /\ gone.win.joining = FALSE /\ gone.win.registering = FALSE
        /\ gone.win.token = win.token /\ gone.win.room = win.room
    BY <1>7, <1>8 DEF Desks, Windows, SameQueues
  <1>10. PICK left : left = [gone EXCEPT !.win.room = None, !.win.pending = None]
    OBVIOUS
  <1>11. /\ left \in Desks /\ left.ini = k.ini /\ SameQueues(left, k) /\ left.win.confirmed = FALSE
         /\ left.win.joining = FALSE /\ left.win.registering = FALSE
         /\ left.win.token = win.token /\ left.win.room = None
    BY <1>9, <1>10, NoneIs DEF Desks, Windows, SameQueues
  <1>12. DeskOK(d, srv, granted)
    BY <1>5, <1>7
  <1>13. DeskOK(Failed(gone), srv, granted)
    BY <1>5, <1>9, StopsOK DEF DeskOK
  <1>14. DeskOK(Saved(left), srv, granted)
    BY <1>5, <1>11, SavedOK DEF DeskOK
  <1>15. PICK S : S = IF Head(inbox).t = "left" THEN {Failed(gone), Saved(left)} ELSE {d}
    OBVIOUS
  <1>16. Ends(S)
    BY <1>1, <1>6, <1>8, <1>10, <1>15 DEF LeaveResult
  <1>17. \A e \in S : DeskOK(e, srv, granted)
    BY <1>12, <1>13, <1>14, <1>15
  <1>18. UNCHANGED <<srv, granted>> /\ auth' \in BOOLEAN /\ commands' \in Nat
    BY DEF LeaveResult, Handled, Inv, ServerOK
  <1> QED
    BY <1>16, <1>17, <1>18, EndsOK DEF Inv

LEMMA AuthenticationFailedStep ==
    ASSUME Inv, AuthenticationFailed
    PROVE  Inv'
  <1>0. inbox # <<>>
    BY DEF AuthenticationFailed, Message
  <1>1. PICK k \in Desks : k = Desk(Box)
    BY <1>0, BoxIs
  <1>2. /\ DeskOK(k, srv, granted) /\ Calm(k, srv, granted) /\ Joins(k, srv)
        /\ Sound(k, srv, granted) /\ k.win = win /\ win \in Windows
        /\ win.room \in Named /\ win.pending \in Named /\ None \in Known /\ 0 \in 0..4
    BY <1>0, <1>1, BoxIs, InboxIs, NoneIs DEF DeskOK, Calm
  <1>3. PICK name \in Named : name = IF win.pending # None THEN win.pending ELSE win.room
    BY <1>2
  <1>4. PICK w : w = [win EXCEPT !.pending = name, !.token = None, !.tries = 0]
    OBVIOUS
  <1>5. /\ w \in Windows /\ w.pending = name /\ w.token = None /\ w.room = win.room
        /\ w.confirmed = win.confirmed /\ w.leaving = win.leaving /\ w.joining = win.joining
        /\ w.registering = win.registering /\ w.restoring = win.restoring
    BY <1>2, <1>4 DEF Windows
  <1>6. PICK d \in Desks : d = [k EXCEPT !.win = w]
    BY <1>1, <1>5, WindowSet
  <1>7. d.win = w /\ d.ini = k.ini /\ SameQueues(d, k)
    BY <1>1, <1>5, <1>6, WindowSet
  <1>8. d = [Desk(Box) EXCEPT !.win.pending = name, !.win.token = None, !.win.tries = 0]
    BY <1>1, <1>2, <1>4, <1>6 DEF Desks
  <1>9. Sound(d, srv, granted)
    BY <1>2, <1>5, <1>7 DEF Sound, SameQueues, TokenOK
  <1>10. name # None => DeskOK(d, srv, granted)
    <2>1. name # None => Calm(d, srv, granted)
      BY <1>2, <1>5, <1>6, <1>7, <1>9, CalmKept
    <2>2. Joins(d, srv)
      BY <1>2, <1>5, <1>7, JoinsKept DEF Joins
    <2> QED
      BY <2>1, <2>2 DEF DeskOK
  <1>11. PICK S : S = IF name # None THEN {Failed(d)} \cup Registration(Saved(d))
                      ELSE IF win.joining \/ win.registering THEN Cancellation(k) ELSE {k}
    OBVIOUS
  <1>12. Ends(S)
    BY <1>1, <1>3, <1>8, <1>11 DEF AuthenticationFailed
  <1>13. \A e \in S : DeskOK(e, srv, granted)
    <2>1. CASE name # None
      <3>1. DeskOK(Failed(d), srv, granted)
        BY <1>10, <2>1, StopsOK DEF DeskOK
      <3>2. PICK c : c = Saved(d)
        OBVIOUS
      <3>3. Calm(c, srv, granted) /\ c.win.pending # None
        BY <1>5, <1>7, <1>10, <2>1, <3>2, SavedOK DEF DeskOK
      <3>4. \A e \in Registration(c) : DeskOK(e, srv, granted)
        BY <3>3, RegistrationOK
      <3> QED
        BY <1>11, <2>1, <3>1, <3>2, <3>4
    <2>2. CASE name = None
      <3>1. \A e \in Cancellation(k) : DeskOK(e, srv, granted)
        BY <1>2, CancellationOK
      <3> QED
        BY <1>2, <1>11, <2>2, <3>1
    <2> QED
      BY <2>1, <2>2
  <1>14. UNCHANGED <<srv, granted>> /\ auth' \in BOOLEAN /\ commands' \in Nat
    BY DEF AuthenticationFailed, Handled, Inv, ServerOK
  <1> QED
    BY <1>12, <1>13, <1>14, EndsOK DEF Inv

-----------------------------------------------------------------------------
(* The client and the server                                               *)

\* The server forgets no token it gave, and no member it had.
Remembers(s, r) == \A t \in Known : TokenOK(t, s) => TokenOK(t, r)
Retains(s, r) == \A t \in Known : TokenOK(t, s) /\ MemberIf(t, s) => MemberIf(t, r)

LEMMA ServerMoves ==
    ASSUME NEW s, NEW r, NEW g, NEW h, NEW d, DeskOK(d, s, g), g \subseteq h, Remembers(s, r),
           Retains(s, r) \/ (d.win.leaving /\ ~d.win.joining)
    PROVE  DeskOK(d, r, h)
  <1>1. Calm(d, s, g) /\ Joins(d, s) /\ d \in Desks
    BY DEF DeskOK, Calm
  <1>2. d.win.token \in Known /\ d.ini.token \in Known /\ d.key \in Known /\ d.inbox \in Seq(Events)
    BY <1>1, DeskIs
  <1>3. Sound(d, s, g) /\ Sound(d, r, h)
    BY <1>1, <1>2 DEF Calm, Sound, Remembers
  <1>4. Heard(d, r, h)
    <2> SUFFICES ASSUME NEW i \in 1..Len(d.inbox)
                 PROVE  /\ d.inbox[i].t \in Given => d.inbox[i].arg \in h
                        /\ d.inbox[i].t = "registered" => TokenOK(d.inbox[i].arg, r)
      BY DEF Heard
    <2>1. /\ d.inbox[i].t \in Given => d.inbox[i].arg \in g
          /\ d.inbox[i].t = "registered" => TokenOK(d.inbox[i].arg, s)
      BY <1>1 DEF Calm, Heard
    <2>2. d.inbox[i] \in Events
      BY <1>2
    <2>3. d.inbox[i].t = "registered" => d.inbox[i].arg \in Known
      BY <2>2 DEF Events, Known, Given, Others
    <2> QED
      BY <2>1, <2>3 DEF Remembers
  <1>5. Linked(d, r) /\ Joins(d, r)
    BY <1>1, <1>2, <1>3 DEF Calm, Linked, Joins, Sound, Retains
  <1> QED
    BY <1>1, <1>3, <1>4, <1>5 DEF DeskOK, Calm

\* A call leaves the client.
LEMMA CallIs ==
    ASSUME NEW s, NEW g, NEW d, DeskOK(d, s, g), d.calls # <<>>, NEW e,
           e = [d EXCEPT !.calls = Tail(@)]
    PROVE  /\ DeskOK(e, s, g) /\ e.win = d.win /\ e.inbox = d.inbox /\ e.key = d.key
           /\ Head(d.calls) \in Calls
           /\ Head(d.calls).op = "register" => d.key = None /\ d.win.pending # None
           /\ Head(d.calls).op # "register" => d.key # None
           /\ Head(d.calls).op = "leave" => d.win.leaving /\ ~d.win.joining /\ ~AtLeave(e)
  <1>1. Calm(d, s, g) /\ Joins(d, s) /\ d \in Desks
    BY DEF DeskOK, Calm
  <1>2. PICK p \in Seq(Calls) : p = d.calls
    BY <1>1, DeskIs
  <1>3. PICK q \in Seq(Calls) : q = Tail(p)
    <2>1. Tail(p) \in Seq(Calls)
      BY <1>2
    <2> QED
      BY <2>1
  <1>4. /\ 1 \in 1..Len(p) /\ Head(p) = p[1] /\ Head(p) \in Calls
        /\ \A i \in 1..Len(q) : i + 1 \in 1..Len(p) /\ q[i] = p[i + 1]
        /\ \A i \in 1..Len(q) : i \in Int /\ i + 1 # 1
    BY <1>2, <1>3
  <1>5. /\ e \in Desks /\ e.win = d.win /\ e.ini = d.ini /\ e.inbox = d.inbox /\ e.key = d.key
        /\ e.calls = q
    BY <1>1, <1>2, <1>3 DEF Desks
  <1>6. \A ops : Calling(e, ops) => Calling(d, ops)
    BY <1>2, <1>4, <1>5 DEF Calling
  <1>7. \A kinds : Hearing(e, kinds) <=> Hearing(d, kinds)
    BY <1>5 DEF Hearing
  <1>8. Sound(e, s, g) /\ Heard(e, s, g) /\ Linked(e, s)
    BY <1>1, <1>5 DEF Calm, Sound, Heard, Linked
  <1>9. AtLeave(e) => AtLeave(d)
    BY <1>6, <1>7 DEF AtLeave
  <1>10. Kinds(e)
    <2>1. AtRegistration(e) => AtRegistration(d)
      BY <1>6, <1>7 DEF AtRegistration
    <2>2. e.key = None => \A i \in 1..Len(e.calls) : e.calls[i].op = "register"
      BY <1>1, <1>2, <1>4, <1>5 DEF Calm, Kinds
    <2> QED
      BY <1>1, <1>5, <2>1, <2>2 DEF Calm, Kinds
  <1>11. LeaveOnce(e)
    <2>1. LeavesOnce(q)
      <3> SUFFICES ASSUME NEW i \in 1..Len(q), NEW j \in 1..Len(q),
                          q[i].op = "leave", q[j].op = "leave"
                   PROVE  i = j
        BY DEF LeavesOnce
      <3>1. i + 1 = j + 1
        BY <1>1, <1>2, <1>4 DEF Calm, LeaveOnce, LeavesOnce
      <3> QED
        BY <1>4, <3>1
    <2> QED
      BY <1>1, <1>5, <1>6, <1>7, <1>9, <2>1 DEF Calm, LeaveOnce
  <1>12. Joins(e, s)
    BY <1>1, <1>5, <1>7, <1>9 DEF Joins
  <1>13. DeskOK(e, s, g)
    BY <1>5, <1>8, <1>10, <1>11, <1>12 DEF DeskOK, Calm
  <1>14. \A ops : Head(d.calls).op \in ops => Calling(d, ops)
    BY <1>2, <1>4 DEF Calling
  <1>15. Head(d.calls).op = "register" => d.key = None /\ d.win.pending # None
    BY <1>1, <1>14 DEF Calm, Kinds, AtRegistration
  <1>16. Head(d.calls).op # "register" => d.key # None
    BY <1>1, <1>2, <1>4 DEF Calm, Kinds
  <1>17. Head(d.calls).op = "leave" => d.win.leaving /\ ~d.win.joining /\ ~AtLeave(e)
    <2> SUFFICES ASSUME Head(d.calls).op = "leave"
                 PROVE  d.win.leaving /\ ~d.win.joining /\ ~AtLeave(e)
      OBVIOUS
    <2>1. Calling(d, {"leave"}) /\ AtLeave(d)
      BY <1>14 DEF AtLeave
    <2>2. d.win.leaving /\ ~d.win.joining /\ ~Hearing(d, LeaveEnds) /\ LeavesOnce(p)
      BY <1>1, <1>2, <2>1 DEF Calm, LeaveOnce, Joins
    <2>3. ~Calling(e, {"leave"})
      BY <1>2, <1>4, <1>5, <2>2 DEF Calling, LeavesOnce
    <2> QED
      BY <1>7, <2>2, <2>3 DEF AtLeave
  <1> QED
    BY <1>2, <1>4, <1>5, <1>13, <1>15, <1>16, <1>17

\* A message that agrees with what the window waits for, and with the server.
Welcome(v, d, s, g) ==
    /\ v \in Events
    /\ v.t \in Given => v.arg \in g
    /\ v.t = "registered" => TokenOK(v.arg, s)
    /\ v.t \in Registrations => d.key = None /\ d.win.pending # None
    /\ v.t \notin Registrations => d.key # None
    /\ v.t \in LeaveEnds => d.win.leaving /\ ~d.win.joining /\ ~AtLeave(d)
    /\ v.t = "joined" => MemberIf(d.key, s)

LEMMA MessageIs ==
    ASSUME NEW s, NEW g, NEW d, DeskOK(d, s, g), NEW v, Welcome(v, d, s, g), NEW e,
           e = [d EXCEPT !.inbox = Append(@, v)]
    PROVE  DeskOK(e, s, g)
  <1>1. Calm(d, s, g) /\ Joins(d, s) /\ d \in Desks
    BY DEF DeskOK, Calm
  <1>2. PICK p \in Seq(Events) : p = d.inbox
    BY <1>1, DeskIs
  <1>3. PICK q \in Seq(Events) : q = Append(p, v)
    <2>1. Append(p, v) \in Seq(Events)
      BY <1>2 DEF Welcome
    <2> QED
      BY <2>1
  <1>4. /\ Len(q) = Len(p) + 1 /\ Len(p) \in Nat
        /\ \A i \in 1..Len(p) : q[i] = p[i]
        /\ q[Len(p) + 1] = v
        /\ \A i \in 1..Len(q) : i \in 1..Len(p) \/ i = Len(p) + 1
    BY <1>2, <1>3 DEF Welcome
  <1>5. /\ e \in Desks /\ e.win = d.win /\ e.ini = d.ini /\ e.inbox = q /\ e.key = d.key
        /\ e.calls = d.calls
    BY <1>1, <1>2, <1>3 DEF Desks
  <1>6. \A ops : Calling(e, ops) <=> Calling(d, ops)
    BY <1>5 DEF Calling
  <1>7. \A kinds : Hearing(e, kinds) => Hearing(d, kinds) \/ v.t \in kinds
    BY <1>2, <1>4, <1>5 DEF Hearing
  <1>8. Sound(e, s, g) /\ Linked(e, s)
    BY <1>1, <1>5 DEF Calm, Sound, Linked
  <1>9. Heard(e, s, g)
    BY <1>1, <1>2, <1>4, <1>5 DEF Calm, Heard, Welcome
  <1>10. Kinds(e)
    <2>1. AtRegistration(e) => AtRegistration(d) \/ v.t \in Registrations
      BY <1>6, <1>7 DEF AtRegistration
    <2>2. e.key = None => \A i \in 1..Len(e.inbox) : e.inbox[i].t \in Registrations
      BY <1>1, <1>2, <1>4, <1>5 DEF Calm, Kinds, Welcome
    <2> QED
      BY <1>1, <1>5, <2>1, <2>2 DEF Calm, Kinds, Welcome
  <1>11. LeaveOnce(e)
    <2>1. AtLeave(e) => d.win.leaving
      BY <1>1, <1>6, <1>7 DEF Calm, LeaveOnce, AtLeave, Welcome
    <2>2. EndsOnce(q)
      <3> SUFFICES ASSUME NEW i \in 1..Len(q), NEW j \in 1..Len(q),
                          q[i].t \in LeaveEnds, q[j].t \in LeaveEnds
                   PROVE  i = j
        BY DEF EndsOnce
      <3>1. CASE v.t \in LeaveEnds
        <4>1. \A k \in 1..Len(p) : p[k].t \notin LeaveEnds
          BY <1>2, <3>1 DEF Welcome, AtLeave, Hearing
        <4> QED
          BY <1>4, <4>1
      <3>2. CASE v.t \notin LeaveEnds
        BY <1>1, <1>2, <1>4, <3>2 DEF Calm, LeaveOnce, EndsOnce
      <3> QED
        BY <3>1, <3>2
    <2>3. Calling(e, {"leave"}) => ~Hearing(e, LeaveEnds)
      BY <1>1, <1>6, <1>7 DEF Calm, LeaveOnce, AtLeave, Welcome
    <2> QED
      BY <1>1, <1>5, <2>1, <2>2, <2>3 DEF Calm, LeaveOnce
  <1>12. Joins(e, s)
    <2>1. d.win.joining => ~AtLeave(e)
      BY <1>1, <1>6, <1>7 DEF Joins, AtLeave, Welcome
    <2>2. d.win.joining => (Hearing(e, {"joined"}) => MemberIf(d.key, s))
      BY <1>1, <1>7 DEF Joins, Welcome
    <2> QED
      BY <1>1, <1>5, <2>1, <2>2 DEF Joins
  <1> QED
    BY <1>5, <1>8, <1>9, <1>10, <1>11, <1>12 DEF DeskOK, Calm

\* The window and what it saved stay, and the desk is as it should be.
LEMMA ServerStep ==
    ASSUME NEW e, DeskOK(e, srv', granted'), ServerOK', UNCHANGED <<win, ini, key>>,
           e = [win |-> win, ini |-> ini, calls |-> calls', inbox |-> inbox', key |-> key,
                spent |-> 0]
    PROVE  Inv'
  <1>1. Desk(inbox)' = e
    BY DEF Desk
  <1> QED
    BY <1>1 DEF Inv

LEMMA ServerIs ==
    ASSUME Inv
    PROVE  /\ srv \in Servers /\ srv.epoch \in 0..MaxFaults /\ srv.devs \subseteq Devices
           /\ srv.names \in [Devices -> Named] /\ granted \subseteq Names /\ commands \in Nat
           /\ faults \in Nat /\ faults <= MaxFaults /\ srv.epoch <= faults /\ srv.epoch \in Nat
           /\ MaxFaults \in Nat /\ auth \in BOOLEAN
  BY BoundsAssumption DEF Inv, ServerOK, Servers

Says(v, e, r, n) == v[1] = e /\ v[2] = r /\ v[3] = n
\* What the server may make of a call, one clause for each kind.
VerdictOf(c, v, dev) ==
    /\ c.op = "register" =>
         \/ Says(v, Event("registration error", "taken"), srv, None)
         \/ Says(v, Event("registered", [dev |-> c.arg, epoch |-> srv.epoch]),
                     [srv EXCEPT !.devs = @ \cup {c.arg}], None)
    /\ c.op = "join" =>
         \/ Says(v, Event("joined", c.arg), Entered(dev, c.arg), c.arg)
         \/ Says(v, Event("join refused", c.arg), Entered(dev, c.arg), c.arg)
         \/ Says(v, Event("join refused", c.arg), srv, None)
    /\ c.op = "rename" =>
         \/ Says(v, Event("renamed", c.arg), Entered(dev, c.arg), c.arg)
         \/ Says(v, Event("rename failed", c.arg), srv, None)
    /\ c.op = "leave" =>
         \/ Says(v, Event("left", None), Entered(dev, None), None)
         \/ Says(v, Event("leave failed", None), srv, None)

LEMMA VerdictsAre ==
    ASSUME NEW c \in Calls, NEW v \in Verdicts(c), NEW dev, dev = key.dev
    PROVE  VerdictOf(c, v, dev)
  <1>1. CASE c.op = "register"
    <2>1. /\ (c.op = "register") = TRUE /\ (c.op = "join") = FALSE
          /\ (c.op = "rename") = FALSE /\ (c.op = "leave") = FALSE
      BY <1>1
    <2>2. Verdicts(c) =
              IF c.arg \in srv.devs
              THEN {<<Event("registration error", "taken"), srv, None>>}
              ELSE {<<Event("registered", [dev |-> c.arg, epoch |-> srv.epoch]),
                      [srv EXCEPT !.devs = @ \cup {c.arg}], None>>}
      BY <2>1 DEF Verdicts, RegisterVerdicts
    <2>3. CASE v = <<Event("registration error", "taken"), srv, None>>
      BY <1>1, <2>3 DEF VerdictOf, Says
    <2>4. CASE v = <<Event("registered", [dev |-> c.arg, epoch |-> srv.epoch]),
                 [srv EXCEPT !.devs = @ \cup {c.arg}], None>>
      BY <1>1, <2>4 DEF VerdictOf, Says
    <2> QED
      BY <2>2, <2>3, <2>4
  <1>2. CASE c.op = "join"
    <2>1. /\ (c.op = "register") = FALSE /\ (c.op = "join") = TRUE
          /\ (c.op = "rename") = FALSE /\ (c.op = "leave") = FALSE
      BY <1>2
    <2>2. Verdicts(c) = JoinVerdicts(dev, c.arg)
      BY <2>1 DEF Verdicts
    <2>3. CASE v = <<Event("joined", c.arg), Entered(dev, c.arg), c.arg>>
      BY <1>2, <2>3 DEF VerdictOf, Says
    <2>4. CASE v = <<Event("join refused", c.arg), Entered(dev, c.arg), c.arg>>
      BY <1>2, <2>4 DEF VerdictOf, Says
    <2>5. CASE v = <<Event("join refused", c.arg), srv, None>>
      BY <1>2, <2>5 DEF VerdictOf, Says
    <2> QED
      BY <2>2, <2>3, <2>4, <2>5 DEF JoinVerdicts
  <1>3. CASE c.op = "rename"
    <2>1. /\ (c.op = "register") = FALSE /\ (c.op = "join") = FALSE
          /\ (c.op = "rename") = TRUE /\ (c.op = "leave") = FALSE
      BY <1>3
    <2>2. Verdicts(c) =
              {<<Event("rename failed", c.arg), srv, None>>}
              \cup (IF Member(dev) = None THEN {}
                    ELSE {<<Event("renamed", c.arg), Entered(dev, c.arg), c.arg>>})
      BY <2>1 DEF Verdicts, RenameVerdicts
    <2>3. CASE v = <<Event("renamed", c.arg), Entered(dev, c.arg), c.arg>>
      BY <1>3, <2>3 DEF VerdictOf, Says
    <2>4. CASE v = <<Event("rename failed", c.arg), srv, None>>
      BY <1>3, <2>4 DEF VerdictOf, Says
    <2> QED
      BY <2>2, <2>3, <2>4
  <1>4. CASE c.op = "leave"
    <2>1. /\ (c.op = "register") = FALSE /\ (c.op = "join") = FALSE
          /\ (c.op = "rename") = FALSE /\ (c.op = "leave") = TRUE
      BY <1>4
    <2>2. Verdicts(c) = LeaveVerdicts(dev)
      BY <2>1 DEF Verdicts
    <2>3. CASE v = <<Event("left", None), Entered(dev, None), None>>
      BY <1>4, <2>3 DEF VerdictOf, Says
    <2>4. CASE v = <<Event("leave failed", None), srv, None>>
      BY <1>4, <2>4 DEF VerdictOf, Says
    <2> QED
      BY <2>2, <2>3, <2>4 DEF LeaveVerdicts
  <1>5. c.op \in {"register", "join", "rename", "leave"}
    BY DEF Calls
  <1> QED
    BY <1>1, <1>2, <1>3, <1>4, <1>5

\* The server answers what it knows how to, and the names it gives are names.
LEMMA VerdictIs ==
    ASSUME Inv, NEW d, DeskOK(d, srv, granted), d.win = win, d.key = key,
           NEW c \in Calls, NEW v \in Verdicts(c), NEW g, g = granted \cup ({v[3]} \ {None}),
           c.op = "register" => key = None /\ win.pending # None,
           c.op # "register" => key # None /\ Knows(key),
           c.op = "leave" => win.leaving /\ ~win.joining /\ ~AtLeave(d)
    PROVE  /\ v[2] \in Servers /\ v[2].epoch = srv.epoch /\ g \subseteq Names
           /\ DeskOK(d, v[2], g) /\ Welcome(v[1], d, v[2], g)
  <1>1. /\ srv \in Servers /\ srv.epoch \in 0..MaxFaults /\ srv.devs \subseteq Devices
        /\ srv.names \in [Devices -> Named] /\ granted \subseteq Names
    BY ServerIs
  <1>2. PICK k \in Known : k = key
    BY InboxIs
  <1>3. PICK r : r = v[2]
    OBVIOUS
  <1>4. PICK e : e = v[1]
    OBVIOUS
  <1>0. VerdictOf(c, v, k.dev)
    BY <1>2, VerdictsAre
  \* A name is given to the device of the client's token.
  <1>5. ASSUME NEW n \in Named, k # None, k.epoch = srv.epoch, k.dev \in srv.devs,
               r = Entered(k.dev, n)
        PROVE  /\ r \in Servers /\ r.epoch = srv.epoch /\ Remembers(srv, r)
               /\ n # None => Retains(srv, r) /\ MemberIf(k, r)
    <2>1. k \in Tokens /\ k.dev \in Devices
      BY <1>2, <1>5 DEF Known, Tokens
    <2>2. PICK f \in [Devices -> Named] : f = [srv.names EXCEPT ![k.dev] = n]
      BY <1>1, <1>5, <2>1
    <2>3. r = [srv EXCEPT !.names = f, !.removed = srv.removed \ {k.dev}]
      BY <1>1, <1>5, <2>2 DEF Servers, Entered
    <2>4. /\ r \in Servers /\ r.epoch = srv.epoch /\ r.devs = srv.devs /\ r.names = f
          /\ r.removed = srv.removed \ {k.dev}
      BY <1>1, <2>2, <2>3 DEF Servers
    <2>5. \A t \in Known : t # None => t.dev \in Devices
      BY DEF Known, Tokens
    <2>6. n # None => \A x \in Devices : srv.names[x] # None => f[x] # None
      BY <1>1, <2>1, <2>2
    <2>7. f[k.dev] = n
      BY <1>1, <2>1, <2>2
    <2>8. Remembers(srv, r)
      BY <2>4 DEF Remembers, TokenOK
    <2>11. n # None => k.dev \in Kept(r) /\ Kept(srv) \subseteq Kept(r)
      BY <2>1, <2>4, <2>6, <2>7 DEF Kept
    <2>9. n # None => Retains(srv, r)
      BY <2>4, <2>5, <2>11 DEF Retains, MemberIf
    <2>10. n # None => MemberIf(k, r)
      BY <2>4, <2>11 DEF MemberIf
    <2> QED
      BY <2>4, <2>8, <2>9, <2>10
  <1>6. Remembers(srv, srv) /\ Retains(srv, srv)
    BY DEF Remembers, Retains
  <1>7. CASE c.op = "register"
    <2>1. c.arg \in Devices
      BY <1>7 DEF Calls
    <2>2. \/ e = Event("registration error", "taken") /\ r = srv /\ v[3] = None
          \/ /\ e = Event("registered", [dev |-> c.arg, epoch |-> srv.epoch]) /\ v[3] = None
             /\ r = [srv EXCEPT !.devs = @ \cup {c.arg}]
      BY <1>0, <1>3, <1>4, <1>7 DEF VerdictOf, Says
    <2>3. g = granted
      BY <2>2
    <2>4. PICK tok : tok = [dev |-> c.arg, epoch |-> srv.epoch]
      OBVIOUS
    <2>5. tok \in Tokens /\ tok.dev = c.arg /\ tok.epoch = srv.epoch
      BY <1>1, <2>1, <2>4 DEF Tokens
    <2>6. CASE r = srv /\ e = Event("registration error", "taken")
      <3>1. /\ e \in Events /\ e.t = "registration error" /\ e.t \notin Given /\ e.t # "registered"
            /\ e.t \in Registrations /\ e.t \notin LeaveEnds /\ e.t # "joined"
        BY <2>6 DEF Event, Events, Given, Registrations, LeaveEnds
      <3> QED
        BY <1>1, <1>3, <1>4, <1>7, <2>3, <2>6, <3>1 DEF Welcome
    <2>7. CASE r = [srv EXCEPT !.devs = @ \cup {c.arg}] /\ e = Event("registered", tok)
      <3>1. /\ e \in Events /\ e.t = "registered" /\ e.t \notin Given
            /\ e.t \in Registrations /\ e.t \notin LeaveEnds /\ e.t # "joined" /\ e.arg = tok
        BY <2>5, <2>7 DEF Event, Events, Given, Registrations, LeaveEnds
      <3>2. /\ r \in Servers /\ r.epoch = srv.epoch /\ r.names = srv.names
            /\ r.devs = srv.devs \cup {c.arg} /\ r.removed = srv.removed
        BY <1>1, <2>1, <2>7 DEF Servers
      <3>3. Remembers(srv, r)
        BY <3>2 DEF Remembers, TokenOK
      <3>4. Retains(srv, r)
        BY <3>2 DEF Retains, TokenOK, MemberIf, Kept
      <3>5. DeskOK(d, r, g)
        BY <2>3, <3>3, <3>4, ServerMoves
      <3>6. TokenOK(tok, r)
        BY <1>1, <2>5, <3>2 DEF TokenOK
      <3>7. Welcome(e, d, r, g)
        BY <1>7, <3>1, <3>6 DEF Welcome
      <3> QED
        BY <1>1, <1>3, <1>4, <2>3, <3>2, <3>5, <3>7
    <2> QED
      BY <2>2, <2>4, <2>6, <2>7
  <1>8. ASSUME c.op \in {"join", "rename"}
        PROVE  /\ r \in Servers /\ r.epoch = srv.epoch /\ g \subseteq Names
               /\ DeskOK(d, r, g) /\ Welcome(e, d, r, g)
    <2>1. c.arg \in Names /\ c.arg \in Named /\ c.arg # None
      BY <1>8, NoneIs DEF Calls, Named
    <2>2. \/ /\ \E t \in Given \cup {"join refused"} : e = Event(t, c.arg)
             /\ v[3] = c.arg /\ r = Entered(k.dev, c.arg)
          \/ /\ \E t \in {"join refused", "rename failed"} : e = Event(t, c.arg)
             /\ v[3] = None /\ r = srv
      <3>1. CASE c.op = "join"
        BY <1>0, <1>3, <1>4, <3>1 DEF VerdictOf, Says, Given
      <3>2. CASE c.op = "rename"
        BY <1>0, <1>3, <1>4, <3>2 DEF VerdictOf, Says, Given
      <3> QED
        BY <1>8, <3>1, <3>2
    <2>3. CASE /\ \E t \in Given \cup {"join refused"} : e = Event(t, c.arg)
               /\ v[3] = c.arg /\ r = Entered(k.dev, c.arg)
      <3>0. PICK t \in Given \cup {"join refused"} : e = Event(t, c.arg)
        BY <2>3
      <3>1. /\ e \in Events /\ e.t # "registered" /\ e.t \notin Registrations
            /\ e.t \notin LeaveEnds /\ e.arg = c.arg
        BY <2>1, <3>0 DEF Event, Events, Given, Registrations, LeaveEnds, Others
      <3>2. g = granted \cup {c.arg}
        BY <2>1, <2>3
      <3>3. /\ r \in Servers /\ r.epoch = srv.epoch /\ Remembers(srv, r)
            /\ Retains(srv, r) /\ MemberIf(k, r)
        BY <1>2, <1>5, <1>8, <2>1, <2>3 DEF Knows
      <3>4. DeskOK(d, r, g)
        BY <3>2, <3>3, ServerMoves
      <3>5. Welcome(e, d, r, g)
        BY <1>2, <1>8, <3>1, <3>2, <3>3 DEF Welcome
      <3> QED
        BY <1>1, <2>1, <3>2, <3>3, <3>4, <3>5
    <2>4. CASE /\ \E t \in {"join refused", "rename failed"} : e = Event(t, c.arg)
               /\ v[3] = None /\ r = srv
      <3>0. PICK t \in {"join refused", "rename failed"} : e = Event(t, c.arg)
        BY <2>4
      <3>1. /\ e \in Events /\ e.t \notin Given /\ e.t # "registered" /\ e.t \notin Registrations
            /\ e.t \notin LeaveEnds /\ e.t # "joined"
        BY <2>1, <3>0 DEF Event, Events, Given, Registrations, LeaveEnds, Others
      <3>2. g = granted
        BY <2>4
      <3>3. Welcome(e, d, r, g)
        BY <1>8, <3>1 DEF Welcome
      <3> QED
        BY <1>1, <2>4, <3>2, <3>3
    <2> QED
      BY <2>2, <2>3, <2>4
  <1>9. CASE c.op = "leave"
    <2>1. v[3] = None
          /\ \/ e = Event("left", None) /\ r = Entered(k.dev, None)
             \/ e = Event("leave failed", None) /\ r = srv
      BY <1>0, <1>3, <1>4, <1>9 DEF VerdictOf, Says
    <2>2. g = granted
      BY <2>1
    <2>3. /\ e \in Events /\ e.t \notin Given /\ e.t # "registered" /\ e.t \notin Registrations
          /\ e.t # "joined"
      <3>1. PICK t \in {"left", "leave failed"} : e = Event(t, None)
        BY <2>1
      <3> QED
        BY <3>1, NoneIs DEF Event, Events, Given, Registrations, Others
    <2>4. r \in Servers /\ r.epoch = srv.epoch /\ Remembers(srv, r)
      <3>1. CASE r = srv
        BY <1>1, <1>6, <3>1
      <3>2. CASE r = Entered(k.dev, None)
        BY <1>2, <1>5, <1>9, <3>2, NoneIs DEF Knows
      <3> QED
        BY <2>1, <3>1, <3>2
    <2>5. DeskOK(d, r, g)
      BY <1>9, <2>2, <2>4, ServerMoves
    <2>6. Welcome(e, d, r, g)
      BY <1>9, <2>3 DEF Welcome
    <2> QED
      BY <1>1, <1>3, <1>4, <2>2, <2>4, <2>5, <2>6
  <1>10. c.op \in {"register", "join", "rename", "leave"}
    BY DEF Calls
  <1> QED
    BY <1>3, <1>4, <1>7, <1>8, <1>9, <1>10

\* The client notices that nothing comes.
LEMMA UnansweredIs ==
    ASSUME NEW s, NEW g, NEW d, NEW c \in Calls,
           c.op = "register" => d.key = None /\ d.win.pending # None,
           c.op # "register" => d.key # None,
           c.op = "leave" => d.win.leaving /\ ~d.win.joining /\ ~AtLeave(d)
    PROVE  Welcome(Unanswered(c), d, s, g)
  <1>1. PICK v : v = Unanswered(c)
    OBVIOUS
  <1>2. c.op \in {"register", "join", "rename", "leave"}
    BY DEF Calls
  <1>3. CASE c.op = "register"
    <2>1. v = Event("registration error", "timeout")
      BY <1>1, <1>3 DEF Unanswered
    <2>2. /\ v \in Events /\ v.t \notin Given /\ v.t # "registered" /\ v.t \in Registrations
          /\ v.t \notin LeaveEnds /\ v.t # "joined"
      BY <2>1 DEF Event, Events, Given, Registrations, LeaveEnds
    <2> QED
      BY <1>1, <1>3, <2>2 DEF Welcome
  <1>4. CASE c.op \in {"join", "rename"}
    <2>1. PICK t \in {"join failed", "rename failed"} : v = Event(t, None)
      <3>1. CASE c.op = "join"
        BY <1>1, <3>1 DEF Unanswered
      <3>2. CASE c.op = "rename"
        BY <1>1, <3>2 DEF Unanswered
      <3> QED
        BY <1>4, <3>1, <3>2
    <2>2. /\ v \in Events /\ v.t \notin Given /\ v.t # "registered" /\ v.t \notin Registrations
          /\ v.t \notin LeaveEnds /\ v.t # "joined"
      BY <2>1, NoneIs DEF Event, Events, Given, Registrations, LeaveEnds, Others
    <2> QED
      BY <1>1, <1>4, <2>2 DEF Welcome
  <1>5. CASE c.op = "leave"
    <2>1. v = Event("leave failed", None)
      BY <1>1, <1>5 DEF Unanswered
    <2>2. /\ v \in Events /\ v.t \notin Given /\ v.t # "registered" /\ v.t \notin Registrations
          /\ v.t # "joined"
      BY <2>1, NoneIs DEF Event, Events, Given, Registrations, Others
    <2> QED
      BY <1>1, <1>5, <2>2 DEF Welcome
  <1> QED
    BY <1>2, <1>3, <1>4, <1>5

\* What the client knows of a call that leaves it.
LEMMA CallLeaves ==
    ASSUME Inv, calls # <<>>, NEW d,
           d = [win |-> win, ini |-> ini, calls |-> Tail(calls), inbox |-> inbox, key |-> key,
                spent |-> 0]
    PROVE  /\ DeskOK(d, srv, granted) /\ d.win = win /\ d.inbox = inbox /\ d.key = key
           /\ Head(calls) \in Calls
           /\ Head(calls).op = "register" => key = None /\ win.pending # None
           /\ Head(calls).op # "register" => key # None
           /\ Head(calls).op = "leave" => win.leaving /\ ~win.joining /\ ~AtLeave(d)
  <1>1. PICK k : k = Desk(inbox)
    OBVIOUS
  <1>2. /\ DeskOK(k, srv, granted) /\ k.win = win /\ k.ini = ini /\ k.calls = calls
        /\ k.inbox = inbox /\ k.key = key
    BY <1>1, InboxIs
  <1>3. k = [win |-> win, ini |-> ini, calls |-> calls, inbox |-> inbox, key |-> key,
             spent |-> 0]
    BY <1>1 DEF Desk
  <1>4. d = [k EXCEPT !.calls = Tail(@)]
    <2>1. PICK q : q = Tail(calls)
      OBVIOUS
    <2>2. Tail(k.calls) = q
      BY <1>2, <2>1
    <2>3. PICK x : x = [k EXCEPT !.calls = q]
      OBVIOUS
    <2>4. x = [win |-> win, ini |-> ini, calls |-> q, inbox |-> inbox, key |-> key, spent |-> 0]
      BY <1>3, <2>3
    <2> QED
      BY <2>1, <2>2, <2>3, <2>4
  <1>5. k.calls # <<>>
    BY <1>2
  <1>6. /\ DeskOK(d, srv, granted) /\ d.win = k.win /\ d.inbox = k.inbox /\ d.key = k.key
        /\ Head(k.calls) \in Calls
        /\ Head(k.calls).op = "register" => k.key = None /\ k.win.pending # None
        /\ Head(k.calls).op # "register" => k.key # None
        /\ Head(k.calls).op = "leave" => k.win.leaving /\ ~k.win.joining /\ ~AtLeave(d)
    BY <1>2, <1>4, <1>5, CallIs
  <1> QED
    BY <1>2, <1>6

LEMMA AnswerStep ==
    ASSUME Inv, Answer
    PROVE  Inv'
  <1>1. /\ calls # <<>> /\ calls' = Tail(calls) /\ UNCHANGED <<win, ini, key, auth, commands, faults>>
        /\ Head(calls).op # "register" => Knows(key)
    BY DEF Answer, Answerable, ServerSteps
  <1>2. PICK v \in Verdicts(Head(calls)) :
           /\ inbox' = Append(inbox, v[1]) /\ srv' = v[2]
           /\ granted' = granted \cup ({v[3]} \ {None})
    BY DEF Answer
  <1>3. PICK d : d = [win |-> win, ini |-> ini, calls |-> Tail(calls), inbox |-> inbox,
                      key |-> key, spent |-> 0]
    OBVIOUS
  <1>4. /\ srv' \in Servers /\ srv'.epoch = srv.epoch /\ granted' \subseteq Names
        /\ DeskOK(d, srv', granted') /\ Welcome(v[1], d, srv', granted')
    <2>1. PICK g : g = granted \cup ({v[3]} \ {None})
      OBVIOUS
    <2>2. PICK c \in Calls : c = Head(calls)
      BY <1>1, <1>3, CallLeaves
    <2>3. v[2] \in Servers /\ v[2].epoch = srv.epoch /\ g \subseteq Names
          /\ DeskOK(d, v[2], g) /\ Welcome(v[1], d, v[2], g)
      BY <1>1, <1>2, <1>3, <2>1, <2>2, CallLeaves, VerdictIs
    <2> QED
      BY <1>2, <2>1, <2>3
  <1>5. PICK e : e = [d EXCEPT !.inbox = Append(@, v[1])]
    OBVIOUS
  <1>6. DeskOK(e, srv', granted')
    BY <1>4, <1>5, MessageIs
  <1>7. e = [win |-> win, ini |-> ini, calls |-> calls', inbox |-> inbox', key |-> key,
             spent |-> 0]
    BY <1>1, <1>2, <1>3, <1>5
  <1>8. ServerOK'
    BY <1>1, <1>4, ServerIs DEF ServerOK
  <1> QED
    BY <1>1, <1>6, <1>7, <1>8, ServerStep

LEMMA LoseAnswerStep ==
    ASSUME Inv, LoseAnswer
    PROVE  Inv'
  <1>1. /\ calls # <<>> /\ calls' = Tail(calls) /\ UNCHANGED <<win, ini, key, auth, commands>>
        /\ Head(calls).op # "register" => Knows(key)
        /\ inbox' = Append(inbox, Unanswered(Head(calls)))
        /\ faults < MaxFaults /\ faults' = faults + 1
    BY DEF LoseAnswer, Answerable, ServerSteps, Fault
  <1>2. PICK v \in Verdicts(Head(calls)) :
           srv' = v[2] /\ granted' = granted \cup ({v[3]} \ {None})
    BY DEF LoseAnswer
  <1>3. PICK d : d = [win |-> win, ini |-> ini, calls |-> Tail(calls), inbox |-> inbox,
                      key |-> key, spent |-> 0]
    OBVIOUS
  <1>4. PICK c \in Calls : c = Head(calls)
    BY <1>1, <1>3, CallLeaves
  <1>5. /\ srv' \in Servers /\ srv'.epoch = srv.epoch /\ granted' \subseteq Names
        /\ DeskOK(d, srv', granted')
    <2>1. PICK g : g = granted \cup ({v[3]} \ {None})
      OBVIOUS
    <2>2. v[2] \in Servers /\ v[2].epoch = srv.epoch /\ g \subseteq Names /\ DeskOK(d, v[2], g)
      BY <1>1, <1>2, <1>3, <1>4, <2>1, CallLeaves, VerdictIs
    <2> QED
      BY <1>2, <2>1, <2>2
  <1>6. Welcome(Unanswered(c), d, srv', granted')
    BY <1>1, <1>3, <1>4, CallLeaves, UnansweredIs
  <1>7. PICK e : e = [d EXCEPT !.inbox = Append(@, Unanswered(c))]
    OBVIOUS
  <1>8. DeskOK(e, srv', granted')
    BY <1>5, <1>6, <1>7, MessageIs
  <1>9. e = [win |-> win, ini |-> ini, calls |-> calls', inbox |-> inbox', key |-> key,
             spent |-> 0]
    BY <1>1, <1>3, <1>4, <1>7
  <1>10. ServerOK'
    <2>1. faults' \in 0..MaxFaults /\ srv.epoch <= faults'
      BY <1>1, ServerIs
    <2> QED
      BY <1>1, <1>5, <2>1, ServerIs DEF ServerOK
  <1> QED
    BY <1>1, <1>8, <1>9, <1>10, ServerStep

LEMMA LoseCallStep ==
    ASSUME Inv, LoseCall
    PROVE  Inv'
  <1>1. /\ calls # <<>> /\ calls' = Tail(calls) /\ UNCHANGED <<win, ini, key, auth, commands>>
        /\ inbox' = Append(inbox, Unanswered(Head(calls))) /\ UNCHANGED <<srv, granted>>
        /\ faults < MaxFaults /\ faults' = faults + 1
    BY DEF LoseCall, ServerSteps, Fault
  <1>2. PICK d : d = [win |-> win, ini |-> ini, calls |-> Tail(calls), inbox |-> inbox,
                      key |-> key, spent |-> 0]
    OBVIOUS
  <1>3. PICK c \in Calls : c = Head(calls)
    BY <1>1, <1>2, CallLeaves
  <1>4. DeskOK(d, srv', granted')
    BY <1>1, <1>2, CallLeaves
  <1>5. Welcome(Unanswered(c), d, srv', granted')
    BY <1>1, <1>2, <1>3, CallLeaves, UnansweredIs
  <1>6. PICK e : e = [d EXCEPT !.inbox = Append(@, Unanswered(c))]
    OBVIOUS
  <1>7. DeskOK(e, srv', granted')
    BY <1>4, <1>5, <1>6, MessageIs
  <1>8. e = [win |-> win, ini |-> ini, calls |-> calls', inbox |-> inbox', key |-> key,
             spent |-> 0]
    BY <1>1, <1>2, <1>3, <1>6
  <1>9. ServerOK'
    <2>1. faults' \in 0..MaxFaults /\ srv.epoch <= faults'
      BY <1>1, ServerIs
    <2> QED
      BY <1>1, <2>1, ServerIs DEF ServerOK
  <1> QED
    BY <1>1, <1>7, <1>8, <1>9, ServerStep

LEMMA RefuseStep ==
    ASSUME Inv, Refuse
    PROVE  Inv'
  <1>0. PICK v : v = Event("authentication failed", None)
    OBVIOUS
  <1>1. /\ key # None /\ UNCHANGED <<win, ini, key, calls>>
        /\ UNCHANGED <<auth, commands, srv, granted, faults>>
        /\ inbox' = Append(inbox, v)
    BY <1>0 DEF Refuse, ServerSteps
  <1>2. PICK d : d = Desk(inbox)
    OBVIOUS
  <1>3. /\ DeskOK(d, srv, granted) /\ d.key = key
        /\ d = [win |-> win, ini |-> ini, calls |-> calls, inbox |-> inbox, key |-> key,
                spent |-> 0]
    BY <1>2, InboxIs DEF Desk
  <1>4. /\ v \in Events /\ v.t \notin Given /\ v.t # "registered" /\ v.t \notin Registrations
        /\ v.t # "joined" /\ v.t \notin LeaveEnds
    BY <1>0, NoneIs DEF Event, Events, Given, Registrations, Others, LeaveEnds
  <1>5. Welcome(v, d, srv, granted)
    BY <1>1, <1>3, <1>4 DEF Welcome
  <1>6. PICK e : e = [d EXCEPT !.inbox = Append(@, v)]
    OBVIOUS
  <1>7. DeskOK(e, srv, granted)
    BY <1>3, <1>5, <1>6, MessageIs
  <1>8. e = [win |-> win, ini |-> ini, calls |-> calls', inbox |-> inbox', key |-> key,
             spent |-> 0]
    <2>1. PICK q : q = Append(inbox, v)
      OBVIOUS
    <2>2. d.inbox = inbox
      BY <1>3
    <2>3. e = [d EXCEPT !.inbox = q]
      BY <1>6, <2>1, <2>2
    <2>4. d = [win |-> win, ini |-> ini, calls |-> calls, inbox |-> inbox, key |-> key,
               spent |-> 0]
      BY <1>3
    <2>5. e = [win |-> win, ini |-> ini, calls |-> calls, inbox |-> q, key |-> key,
               spent |-> 0]
      BY <2>3, <2>4
    <2> QED
      BY <1>1, <2>1, <2>5
  <1>9. DeskOK(e, srv', granted') /\ ServerOK'
    BY <1>1, <1>7, ServerIs DEF ServerOK
  <1> QED
    BY <1>1, <1>8, <1>9, ServerStep

\* The tokens of the databases before are those of no member.
LEMMA NewServerStep ==
    ASSUME Inv, NewServer
    PROVE  Inv'
  <1>1. /\ UNCHANGED <<win, ini, key, auth, commands, calls, inbox, granted>>
        /\ faults < MaxFaults /\ faults' = faults + 1
        /\ srv' = Database(srv.epoch + 1)
    BY DEF NewServer, ServerSteps, Fault
  <1>2. PICK d : d = Desk(inbox)
    OBVIOUS
  <1>3. /\ DeskOK(d, srv, granted)
        /\ d = [win |-> win, ini |-> ini, calls |-> calls, inbox |-> inbox, key |-> key,
                spent |-> 0]
    BY <1>2, InboxIs DEF Desk
  <1>4. PICK r : r = srv'
    OBVIOUS
  <1>5. r.epoch = srv.epoch + 1 /\ srv.epoch \in Nat
    BY <1>1, <1>4, ServerIs DEF Database
  <1>6. r \in Servers /\ r.epoch <= faults' /\ faults' \in 0..MaxFaults
    <2>1. srv.epoch + 1 \in 0..MaxFaults /\ faults' \in 0..MaxFaults /\ srv.epoch + 1 <= faults'
      BY <1>1, ServerIs
    <2>2. [x \in Devices |-> None] \in [Devices -> Named] /\ {} \subseteq Devices
      BY NoneIs
    <2> QED
      BY <1>1, <1>4, <2>1, <2>2 DEF Servers, Database
  <1>7. \A t \in Known : t # None => t.epoch \in Nat
    BY BoundsAssumption DEF Known, Tokens
  <1>8. Remembers(srv, r)
    BY <1>5, <1>7 DEF Remembers, TokenOK
  <1>9. Retains(srv, r)
    BY <1>5, <1>7 DEF Retains, TokenOK, MemberIf
  <1>10. DeskOK(d, r, granted)
    BY <1>3, <1>8, <1>9, ServerMoves
  <1>11. DeskOK(d, srv', granted') /\ ServerOK'
    BY <1>1, <1>4, <1>6, <1>10, ServerIs DEF ServerOK
  <1>12. d = [win |-> win, ini |-> ini, calls |-> calls', inbox |-> inbox', key |-> key,
              spent |-> 0]
    BY <1>1, <1>3
  <1> QED
    BY <1>1, <1>11, <1>12, ServerStep

\* A removal by the server leaves the device among those kept.
LEMMA RemoveMemberStep ==
    ASSUME Inv, NEW dev \in Devices, RemoveMember(dev)
    PROVE  Inv'
  <1>1. /\ UNCHANGED <<win, ini, key, auth, commands, calls, inbox, granted>>
        /\ faults < MaxFaults /\ faults' = faults + 1
        /\ srv' = [srv EXCEPT !.names[dev] = None, !.removed = @ \cup {dev}]
    BY DEF RemoveMember, ServerSteps, Fault
  <1>2. PICK d : d = Desk(inbox)
    OBVIOUS
  <1>3. /\ DeskOK(d, srv, granted)
        /\ d = [win |-> win, ini |-> ini, calls |-> calls, inbox |-> inbox, key |-> key,
                spent |-> 0]
    BY <1>2, InboxIs DEF Desk
  <1>4. PICK r : r = srv'
    OBVIOUS
  <1>5. /\ r \in Servers /\ r.epoch = srv.epoch /\ r.devs = srv.devs
        /\ r.removed = srv.removed \cup {dev}
        /\ \A x \in Devices : x = dev \/ r.names[x] = srv.names[x]
    <2>1. PICK f \in [Devices -> Named] : f = [srv.names EXCEPT ![dev] = None]
      BY ServerIs, NoneIs
    <2>2. r = [srv EXCEPT !.names = f, !.removed = srv.removed \cup {dev}]
      BY <1>1, <1>4, <2>1, ServerIs DEF Servers
    <2>3. r \in Servers /\ r.epoch = srv.epoch /\ r.devs = srv.devs /\ r.names = f
          /\ r.removed = srv.removed \cup {dev}
      BY <2>1, <2>2, ServerIs DEF Servers
    <2> QED
      BY <2>1, <2>3, ServerIs
  <1>6. r.epoch <= faults' /\ faults' \in 0..MaxFaults
    BY <1>1, <1>5, ServerIs
  <1>7. Kept(srv) \subseteq Kept(r)
    BY <1>5 DEF Kept
  <1>8. Remembers(srv, r)
    BY <1>5 DEF Remembers, TokenOK
  <1>9. Retains(srv, r)
    BY <1>5, <1>7 DEF Retains, MemberIf
  <1>10. DeskOK(d, r, granted)
    BY <1>3, <1>8, <1>9, ServerMoves
  <1>11. DeskOK(d, srv', granted') /\ ServerOK'
    BY <1>1, <1>4, <1>5, <1>6, <1>10, ServerIs DEF ServerOK
  <1>12. d = [win |-> win, ini |-> ini, calls |-> calls', inbox |-> inbox', key |-> key,
              spent |-> 0]
    BY <1>1, <1>3
  <1> QED
    BY <1>1, <1>11, <1>12, ServerStep

-----------------------------------------------------------------------------
(* The invariant holds                                                     *)

LEMMA InvInit == Init => Inv
  <1> SUFFICES ASSUME Init PROVE Inv
    OBVIOUS
  <1>1. ini = [room |-> None, token |-> None, dev |-> 1] /\ win = Loaded(ini)
    BY DEF Init
  <1>2. 1 \in Devices
    BY BoundsAssumption DEF Devices
  <1>3. ini \in Inis /\ ini.room = None /\ ini.token = None
    BY <1>1, <1>2, NoneIs DEF Inis
  <1>4. Desk(inbox) = [win |-> Loaded(ini), ini |-> ini, calls |-> <<>>, inbox |-> <<>>,
                       key |-> None, spent |-> 0]
    BY <1>1 DEF Init, Desk
  <1>5. DeskOK(Desk(inbox), srv, granted)
    BY <1>3, <1>4, LoadedOK DEF TokenOK
  <1>6. ServerOK
    <2>1. 0 \in 0..MaxFaults
      BY BoundsAssumption
    <2>2. PICK f \in [Devices -> Named] : f = [d \in Devices |-> None]
      BY NoneIs
    <2>3. srv = [epoch |-> 0, devs |-> {}, names |-> f, removed |-> {}]
      BY <2>2 DEF Init, Database
    <2>4. srv \in Servers /\ srv.epoch = 0
      BY <2>1, <2>2, <2>3 DEF Servers
    <2>5. auth \in BOOLEAN
      BY DEF Init
    <2>6. granted = {} /\ commands = 0 /\ faults = 0
      BY DEF Init
    <2> QED
      BY <2>1, <2>4, <2>5, <2>6 DEF ServerOK
  <1> QED
    BY <1>5, <1>6 DEF Inv

LEMMA InvStep == Inv /\ [Next]_vars => Inv'
  <1> SUFFICES ASSUME Inv, [Next]_vars PROVE Inv'
    OBVIOUS
  <1>1. ASSUME NEW n \in Names, JoinCommand(n) PROVE Inv'
    BY <1>1, JoinCommandStep
  <1>2. ASSUME NEW n \in Names, RenameCommand(n) PROVE Inv'
    BY <1>2, RenameCommandStep
  <1>3. CASE CancelCommand \/ JoinDeadline
    BY <1>3, CancelStep
  <1>4. CASE LeaveCommand
    BY <1>4, LeaveCommandStep
  <1>5. CASE Disable
    BY <1>5, DisableStep
  <1>6. CASE Authorize
    BY <1>6, AuthorizeStep
  <1>7. CASE Restart
    BY <1>7, RestartStep
  <1>8. CASE LeaveDeadline
    BY <1>8, LeaveDeadlineStep
  <1>9. CASE Registered
    BY <1>9, RegisteredStep
  <1>10. CASE RegistrationError
    BY <1>10, RegistrationErrorStep
  <1>11. CASE JoinResult
    BY <1>11, JoinResultStep
  <1>12. CASE RenameResult
    BY <1>12, RenameResultStep
  <1>13. CASE LeaveResult
    BY <1>13, LeaveResultStep
  <1>14. CASE AuthenticationFailed
    BY <1>14, AuthenticationFailedStep
  <1>15. CASE Answer
    BY <1>15, AnswerStep
  <1>16. CASE LoseAnswer
    BY <1>16, LoseAnswerStep
  <1>17. CASE LoseCall
    BY <1>17, LoseCallStep
  <1>18. CASE Refuse
    BY <1>18, RefuseStep
  <1>19. CASE NewServer
    BY <1>19, NewServerStep
  <1>21. ASSUME NEW dev \in Devices, RemoveMember(dev) PROVE Inv'
    BY <1>21, RemoveMemberStep
  <1>20. CASE UNCHANGED vars
    BY <1>20 DEF vars, deskVars, Inv, ServerOK, DeskOK, Calm, Joins, Sound, Heard, Kinds,
                 LeaveOnce, Linked, Calling, Hearing, AtRegistration, AtLeave, TokenOK, MemberIf, Kept,
                 Desk
  <1> QED
    BY <1>1, <1>2, <1>3, <1>4, <1>5, <1>6, <1>7, <1>8, <1>9, <1>10, <1>11, <1>12, <1>13, <1>14,
       <1>15, <1>16, <1>17, <1>18, <1>19, <1>20, <1>21 DEF Next, Handle

\* Inv holds in every state: the handlers of the window, which run the
\* functions they call to their end, leave a desk that agrees with the server.
THEOREM InvHolds == Spec => []Inv
  BY InvInit, InvStep, PTL DEF Spec

\* Every variable keeps its type, and whoever is being registered is joining
\* and not restoring: BeginCloudDeviceRegistration, BeginCloudRoomRestore and
\* CancelCloudRoomJoin leave one thing under way at a time.
THEOREM TypeCorrect == Spec => []TypeOK
  <1>1. Inv => TypeOK
    <2> SUFFICES ASSUME Inv PROVE TypeOK
      OBVIOUS
    <2>1. /\ win \in Windows /\ ini \in Inis /\ key \in Known /\ calls \in Seq(Calls)
          /\ Joins(Desk(inbox), srv) /\ Desk(inbox).win = win
      BY InboxIs DEF DeskOK
    <2>2. win.registering => win.joining /\ ~win.restoring
      BY <2>1 DEF Joins
    <2>3. \A f \in Flags : win[f] \in BOOLEAN
      BY <2>1 DEF Windows, Flags
    <2>4. /\ {win.room, win.pending, ini.room} \subseteq Names \cup {None}
          /\ {win.token, ini.token, key} \subseteq Tokens \cup {None}
          /\ {win.dev, ini.dev} \subseteq Devices /\ win.tries \in 0..4
      BY <2>1 DEF Windows, Inis, Named, Known
    <2>5. \A i \in DOMAIN calls : calls[i].op \in {"register", "join", "rename", "leave"}
      BY <2>1 DEF Calls
    <2>6. srv.names \in [Devices -> Names \cup {None}] /\ srv.removed \subseteq Devices
      BY ServerIs DEF Servers, Named
    <2> QED
      BY <2>2, <2>3, <2>4, <2>5, <2>6, ServerIs DEF TypeOK
  <1> QED
    BY <1>1, InvHolds, PTL

\* The name saved in config.ini, and the name the window shows, is one the
\* server gave: JoinResult and RenameResult take a name over only from an
\* answer under the pending name, and no other handler writes one.
THEOREM SavedNameGrantedHolds == Spec => []SavedNameGranted
  <1>1. Inv => SavedNameGranted
    BY InboxIs DEF DeskOK, Calm, Sound, SavedNameGranted
  <1> QED
    BY <1>1, InvHolds, PTL

\* A room shown as confirmed, and not being left, is one the server has this
\* machine as a member of, unless the server removed it by itself since, or
\* does not know its token any more: LeaveDeadline and CancelCloudRoomJoin
\* leave nothing on its way that could say otherwise.
THEOREM ConfirmedIsMemberHolds == Spec => []ConfirmedIsMember
  <1>1. Inv => ConfirmedIsMember
    BY InboxIs DEF DeskOK, Calm, Linked, MemberIf, Kept, ConfirmedIsMember, Knows, Member
  <1> QED
    BY <1>1, InvHolds, PTL

=============================================================================
