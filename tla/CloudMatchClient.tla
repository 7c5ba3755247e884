-------------------------- MODULE CloudMatchClient --------------------------
(***************************************************************************)
(* The client of the match server: the window's thread puts calls into     *)
(* bounded queues, one worker thread connects, sends them, waits for their *)
(* acknowledgements and puts results and notifications into the queue the  *)
(* window dispatches from.                                                 *)
(*                                                                         *)
(* Source: CloudMatchClient.cpp (class CloudMatchClient::Impl).            *)
(*                                                                         *)
(* A step is one critical section of Impl::mutex, or one network operation *)
(* of the worker.  The queues of the window are emptied whenever the       *)
(* generation changes, so that their elements carry none.  Deadlines pass  *)
(* in the order they were set, at any time.                                *)
(***************************************************************************)
EXTENDS Naturals, Sequences, FiniteSets

CONSTANTS
    Queries,        \* transient requests, IsTransientRequest
    Comparisons,    \* the queries that are refused while not connected
    Uploads,        \* snapshots, by clientRevision
    Joins, Renames, Leaves,  \* room:join, room:rename, room:leave
    Registrations,  \* POST /api/devices/register
    Rejoin,         \* the join the worker repeats after a reconnection
    None,           \* an empty std::optional
    Topics,         \* coalescing keys of server notifications
    MaxCommands,    \* kMaxCommandQueueSize
    MaxAcks,        \* kMaxPendingAcks
    MaxInbound,     \* kMaxInboundMessageQueueSize
    MaxResults,     \* kMaxProtectedResultCapacity
    MaxGeneration   \* bound on the changes of configuration

Calls == Queries \cup Uploads \cup Joins \cup Renames \cup Leaves \cup Registrations

ASSUME CallsAssumption ==
    /\ IsFiniteSet(Calls) /\ Uploads \subseteq Nat /\ Comparisons \subseteq Queries
    /\ Rejoin \notin Calls /\ None \notin Calls /\ Rejoin # None
\* A call is of one kind, Command::kind.
ASSUME KindsAssumption ==
    /\ Queries \cap (Uploads \cup Joins \cup Renames \cup Leaves \cup Registrations) = {}
    /\ Uploads \cap (Joins \cup Renames \cup Leaves \cup Registrations) = {}
    /\ Joins \cap (Renames \cup Leaves \cup Registrations) = {}
    /\ Renames \cap (Leaves \cup Registrations) = {} /\ Leaves \cap Registrations = {}
ASSUME SizesAssumption ==
    /\ MaxCommands \in Nat \ {0} /\ MaxAcks \in Nat \ {0}
    /\ MaxInbound \in Nat \ {0} /\ MaxResults \in 1..MaxInbound /\ MaxGeneration \in Nat

VARIABLES
    gen,        \* config.generation
    cgen,       \* configGeneration, the atomic one
    setup,      \* what config is good for: nothing, registration, everything
    started, stopping,
    online,     \* status.connected
    commands,   \* commands: queued calls
    latest,     \* latestSnapshot
    inbound,    \* inboundMessages: [call, code] results and [topic] notes
    reserved,   \* protectedResultReservations
    queued,     \* protectedResultsQueued
    desired,    \* desiredRoom: [join, name, seq], the calls that set it
    joinDue,    \* desiredJoinPendingGeneration = gen
    joinSent,   \* desiredJoinInFlightGeneration = gen
    tried,      \* history: a join was sent on this connection
    turnedAway, \* window: the result UploadSnapshot has yet to notify
    pc,         \* worker: where it is
    wgen,       \* worker: activeConfig.generation
    license,    \* worker: useLicenseSession
    hand,       \* worker: the call being sent, registered or remembered
    acks,       \* pendingAcks, in the order of sending
    settling,   \* worker: results taken out of a queue, not yet notified
    order,      \* joins and renamings in the order of Command::sequence
    accepted,   \* history: calls accepted
    withdrawn,  \* history: calls cancelled
    delivered   \* history: results the window's callback got

uiVars == <<gen, cgen, setup, started, stopping>>
queueVars == <<commands, latest>>
inboundVars == <<inbound, reserved, queued>>
roomVars == <<desired, joinDue, joinSent, tried>>
workerVars == <<pc, wgen, license, hand, acks, settling>>
historyVars == <<order, accepted, withdrawn, delivered>>
vars == <<uiVars, online, queueVars, inboundVars, roomVars, turnedAway, workerVars, historyVars>>

-----------------------------------------------------------------------------
Elements(s) == {s[i] : i \in DOMAIN s}
IsResult(m) == "call" \in DOMAIN m
\* Acknowledged, timed out and lost with the connection are one code.
Result(c, code) == [call |-> c, code |-> code]
ResultsIn(q) == {m.call : m \in {x \in Elements(q) : IsResult(x)}}

\* Places of a queue in their order, and what is left of it when others go.
InOrder(I) ==
    CHOOSE f \in [1..Cardinality(I) -> I] : \A i, j \in 1..Cardinality(I) : i < j => f[i] < f[j]
Kept(q, I) == LET f == InOrder(I) IN [k \in 1..Cardinality(I) |-> q[f[k]]]

Sequence(c) == IF c = Rejoin THEN 0 ELSE CHOOSE i \in DOMAIN order : order[i] = c

Removed(q, i) == SubSeq(q, 1, i - 1) \o SubSeq(q, i + 1, Len(q))

\* The first notification of the queue goes; results stay.
HasNote(q) == \E m \in Elements(q) : ~IsResult(m)
WithoutOldestNote(q) ==
    Removed(q, CHOOSE i \in DOMAIN q : ~IsResult(q[i]) /\ \A j \in 1..(i-1) : IsResult(q[j]))
InboundFull == Len(inbound) + reserved >= MaxInbound
InboundLeft == inbound
InboundMadeRoom == IF InboundFull THEN WithoutOldestNote(inbound) ELSE inbound

CanReserve == queued + reserved < MaxResults /\ (InboundFull => HasNote(inbound))
Reserve == inbound' = InboundMadeRoom /\ reserved' = reserved + 1 /\ UNCHANGED queued
NotReleased(n) == reserved
Released(n) == IF n > reserved THEN 0 ELSE reserved - n

\* A result takes the place reserved for it; without one it is dropped.
PutResult(m) ==
    IF reserved = 0
    THEN UNCHANGED inboundVars
    ELSE /\ inbound' = Append(inbound, m)
         /\ reserved' = reserved - 1
         /\ queued' = queued + 1

\* A notification replaces the queued one of its topic (an error has none).
PutNote(t) ==
    /\ \/ /\ t # None /\ [topic |-> t] \in Elements(inbound)
          /\ UNCHANGED inbound
       \/ /\ t = None \/ [topic |-> t] \notin Elements(inbound)
          /\ IF InboundFull /\ ~HasNote(inbound)
             THEN UNCHANGED inbound
             ELSE inbound' = Append(InboundMadeRoom, [topic |-> t])
    /\ UNCHANGED <<reserved, queued>>

\* ShouldAbort, ShouldStop
Aborting == stopping \/ cgen # wgen

Forget ==
    /\ commands' = <<>> /\ latest' = None
    /\ inbound' = <<>> /\ reserved' = 0 /\ queued' = 0
    /\ desired' = None /\ joinDue' = FALSE /\ joinSent' = FALSE
    /\ online' = FALSE /\ UNCHANGED tried

Init ==
    /\ gen = 0 /\ cgen = 0 /\ setup = "none" /\ started = FALSE /\ stopping = FALSE
    /\ online = FALSE /\ commands = <<>> /\ latest = None
    /\ inbound = <<>> /\ reserved = 0 /\ queued = 0
    /\ desired = None /\ joinDue = FALSE /\ joinSent = FALSE /\ turnedAway = None
    /\ pc = "off" /\ wgen = 0 /\ license = TRUE /\ hand = None /\ acks = <<>> /\ settling = <<>>
    /\ order = <<>> /\ accepted = {} /\ withdrawn = {} /\ delivered = {}
    /\ tried = FALSE

-----------------------------------------------------------------------------
(* The window's thread.  It makes one call at a time and waits in Stop.    *)
UiFree == ~stopping /\ turnedAway = None
New(c) == c \notin accepted

\* The worker's acks go with the queues.
Configure(s) ==
    /\ UiFree /\ cgen < MaxGeneration
    /\ cgen' = cgen + 1 /\ gen' = cgen + 1 /\ setup' = s
    /\ Forget /\ acks' = <<>>
    /\ UNCHANGED <<started, stopping, turnedAway, pc, wgen, license, hand, settling, historyVars>>

Start ==
    /\ UiFree /\ ~started /\ setup # "none"
    /\ started' = TRUE /\ pc' = "top" /\ license' = TRUE
    /\ UNCHANGED <<gen, cgen, setup, stopping, online, queueVars, inboundVars, roomVars,
                   turnedAway, wgen, hand, acks, settling, historyVars>>

BeginStop ==
    /\ UiFree /\ cgen < MaxGeneration
    /\ stopping' = TRUE /\ cgen' = cgen + 1
    /\ UNCHANGED <<gen, setup, started, online, queueVars, inboundVars, roomVars,
                   turnedAway, workerVars, historyVars>>

\* join() has returned: the worker is gone.
FinishStop ==
    /\ stopping /\ pc = "off"
    /\ stopping' = FALSE /\ started' = FALSE /\ gen' = cgen /\ setup' = "none"
    /\ Forget /\ acks' = <<>>
    /\ UNCHANGED <<cgen, turnedAway, pc, wgen, license, hand, settling, historyVars>>

Enqueue(c) ==
    /\ UiFree /\ New(c) /\ gen = cgen
    /\ setup \in (IF c \in Registrations THEN {"device", "member"} ELSE {"member"})
    /\ Len(commands) < MaxCommands /\ CanReserve
    /\ Reserve
    /\ commands' = Append(commands, c)
    /\ accepted' = accepted \cup {c}
    /\ order' = IF c \in Joins \cup Renames THEN Append(order, c) ELSE order
    /\ UNCHANGED <<uiVars, online, latest, turnedAway, workerVars, withdrawn, delivered>>

Call(c) == c \in Renames \cup Registrations /\ Enqueue(c) /\ UNCHANGED roomVars

Query(c) == c \in Queries /\ (c \in Comparisons => online) /\ Enqueue(c) /\ UNCHANGED roomVars

JoinRoom(c) ==
    /\ c \in Joins /\ Enqueue(c)
    /\ desired' = [join |-> c, name |-> c, seq |-> 0]
    /\ joinDue' = TRUE /\ joinSent' = FALSE /\ UNCHANGED tried

LeaveRoom(c) ==
    /\ c \in Leaves /\ Enqueue(c)
    /\ desired' = None /\ joinDue' = FALSE /\ joinSent' = FALSE /\ UNCHANGED tried

\* The window numbers its snapshots upwards.
AnyUpload(u) == u \in Uploads /\ New(u)
NextUpload(u) == u \in Uploads /\ New(u) /\ \A v \in Uploads : v < u => ~New(v)

\* A snapshot not yet sent gives way to the new one.
GivesWayNew(u) == u
GivesWay(u) == latest

UploadSnapshot(u) ==
    /\ UiFree /\ NextUpload(u) /\ setup = "member" /\ CanReserve
    /\ Reserve
    /\ turnedAway' = (IF latest = None THEN None ELSE Result(GivesWay(u), "canceled"))
    /\ latest' = u
    /\ accepted' = accepted \cup {u}
    /\ UNCHANGED <<uiVars, online, commands, roomVars, workerVars, order, withdrawn, delivered>>

\* A snapshot over the server's limit is refused with a result.
UploadTooLarge(u) ==
    /\ UiFree /\ NextUpload(u) /\ setup = "member" /\ CanReserve
    /\ Reserve
    /\ turnedAway' = Result(u, "refused")
    /\ accepted' = accepted \cup {u}
    /\ UNCHANGED <<uiVars, online, queueVars, roomVars, workerVars, order, withdrawn, delivered>>

NotifyTurnedAway ==
    /\ turnedAway # None
    /\ PutResult(turnedAway)
    /\ turnedAway' = None
    /\ UNCHANGED <<uiVars, online, queueVars, roomVars, workerVars, historyVars>>

Without(q, c) == Kept(q, {i \in DOMAIN q : q[i] # c})

CancelRequest(c) ==
    /\ UiFree /\ c \in Queries /\ c \in Elements(commands) \cup Elements(acks)
    /\ commands' = Without(commands, c) /\ acks' = Without(acks, c)
    /\ reserved' = Released(1)
    /\ withdrawn' = withdrawn \cup {c}
    /\ UNCHANGED <<uiVars, online, latest, inbound, queued, roomVars, turnedAway,
                   pc, wgen, license, hand, settling, order, accepted, delivered>>

DispatchMessage ==
    /\ UiFree /\ inbound # <<>>
    /\ inbound' = Tail(inbound)
    /\ IF IsResult(Head(inbound))
       THEN /\ queued' = queued - 1
            /\ delivered' = delivered \cup {Head(inbound)}
       ELSE UNCHANGED <<queued, delivered>>
    /\ UNCHANGED <<uiVars, online, queueVars, reserved, roomVars, turnedAway, workerVars,
                   order, accepted, withdrawn>>

-----------------------------------------------------------------------------
(* The worker.  Results it has taken out of a queue come first.            *)
TransientComparisons == Comparisons
Transient == Queries

WorkerAt(place) == pc = place /\ settling = <<>>
Running(place) == WorkerAt(place) /\ ~Aborting
IsJoin(c) == c \in Joins \cup {Rejoin}
Places(q, n, S) == {i \in 1..n : q[i] \in S}
Chosen(q, n, S) == Kept(q, Places(q, n, S))
NotChosen(q, n, S) == Kept(q, DOMAIN q \ Places(q, n, S))
Results(q, code) == [i \in DOMAIN q |-> Result(q[i], code)]

Notify ==
    /\ settling # <<>>
    /\ settling' = Tail(settling)
    /\ IF gen = wgen THEN PutResult(Head(settling)) ELSE UNCHANGED inboundVars
    /\ UNCHANGED <<uiVars, online, queueVars, roomVars, turnedAway, pc, wgen, license, hand, acks,
                   historyVars>>

Exit ==
    /\ WorkerAt("top") /\ stopping
    /\ pc' = "off" /\ acks' = <<>>
    /\ UNCHANGED <<uiVars, online, queueVars, inboundVars, roomVars, turnedAway, wgen, license,
                   hand, settling, historyVars>>

RejoinReady ==
    /\ desired # None /\ joinDue /\ ~joinSent
    /\ \A c \in Elements(commands) \cup Elements(acks) : ~IsJoin(c)
    /\ Len(acks) < MaxAcks /\ CanReserve

\* The first registration of the queue goes before all other calls.
NoRegistration == \A c \in Elements(commands) : c \notin Registrations
IsFirstRegistration(i) ==
    commands[i] \in Registrations /\ \A j \in 1..(i-1) : commands[j] \notin Registrations
TakeRegistration(i) ==
    /\ i \in DOMAIN commands /\ IsFirstRegistration(i)
    /\ hand' = commands[i] /\ commands' = Removed(commands, i)
    /\ UNCHANGED <<uiVars, online, latest, inboundVars, roomVars, turnedAway, acks, settling,
                   historyVars>>

\* Without credentials the worker waits for a registration or a change.
BeginRegistration(i) ==
    /\ WorkerAt("top") /\ ~stopping
    /\ TakeRegistration(i)
    /\ pc' = "register" /\ wgen' = gen /\ license' = (license \/ wgen # gen)

\* A connected worker registers before it sends.
RegisterConnected(i) ==
    /\ \/ Running("rejoin") /\ ~RejoinReady
       \/ Running("calls")
    /\ TakeRegistration(i)
    /\ pc' = "reregister" /\ UNCHANGED <<wgen, license>>

EndRegistration ==
    /\ pc \in {"register", "reregister"} /\ settling = <<>>
    /\ settling' = (IF Aborting THEN <<>> ELSE <<Result(hand, "ended")>>)
    /\ hand' = None /\ pc' = (IF pc = "register" THEN "top" ELSE "calls")
    /\ UNCHANGED <<uiVars, online, queueVars, inboundVars, roomVars, turnedAway, wgen, license,
                   acks, historyVars>>

BeginConnection ==
    /\ WorkerAt("top") /\ ~stopping /\ setup = "member" /\ NoRegistration
    /\ pc' = "connecting" /\ wgen' = gen /\ license' = (license \/ wgen # gen)
    /\ online' = FALSE
    /\ UNCHANGED <<uiVars, queueVars, inboundVars, roomVars, turnedAway, hand, acks, settling,
                   historyVars>>

Connect ==
    /\ Running("connecting")
    /\ pc' = "rejoin" /\ online' = TRUE
    /\ IF desired = None
       THEN UNCHANGED <<joinDue, joinSent>>
       ELSE joinDue' = TRUE /\ joinSent' = FALSE
    /\ tried' = FALSE
    /\ UNCHANGED <<uiVars, queueVars, inboundVars, desired, turnedAway, wgen, license, hand, acks,
                   settling, historyVars>>

\* An old server refuses the licence fields: once more without them.
DropLicense ==
    /\ Running("connecting") /\ license
    /\ license' = FALSE /\ pc' = "top"
    /\ UNCHANGED <<uiVars, online, queueVars, inboundVars, roomVars, turnedAway, wgen, hand, acks,
                   settling, historyVars>>

\* The connection fails, or the configuration it belongs to has gone.
Lose ==
    /\ pc \in {"connecting", "rejoin", "calls", "outgoing", "receive"} /\ settling = <<>>
    /\ pc \in {"connecting", "receive"} \/ Aborting
    /\ pc' = "lost"
    /\ UNCHANGED <<uiVars, online, queueVars, inboundVars, roomVars, turnedAway, wgen, license,
                   hand, acks, settling, historyVars>>

\* What it cannot read it reports.
LoseWithError ==
    /\ Running("connecting") \/ Running("receive")
    /\ PutNote(None)
    /\ pc' = "lost"
    /\ UNCHANGED <<uiVars, online, queueVars, roomVars, turnedAway, wgen, license, hand, acks,
                   settling, historyVars>>

SendRejoin ==
    /\ Running("rejoin") /\ RejoinReady
    /\ Reserve
    /\ hand' = Rejoin /\ pc' = "send"
    /\ UNCHANGED <<uiVars, online, queueVars, roomVars, turnedAway, wgen, license, acks, settling,
                   historyVars>>

\* Queries among the first n commands have waited too long.
ExpireQueued(n) ==
    /\ \/ Running("rejoin") /\ ~RejoinReady
       \/ Running("calls")
    /\ NoRegistration
    /\ settling' = Results(Chosen(commands, n, Transient), "ended")
    /\ commands' = NotChosen(commands, n, Transient)
    /\ pc' = "outgoing"
    /\ UNCHANGED <<uiVars, online, latest, inboundVars, roomVars, turnedAway, wgen, license, hand,
                   acks, historyVars>>

\* Calls behind a new registration wait until it is done.
HasCommand == commands # <<>> /\ Head(commands) \notin Registrations

TakeCommand ==
    /\ Running("outgoing") /\ HasCommand /\ Len(acks) < MaxAcks
    /\ hand' = Head(commands) /\ commands' = Tail(commands) /\ pc' = "send"
    /\ UNCHANGED <<uiVars, online, latest, inboundVars, roomVars, turnedAway, wgen, license, acks,
                   settling, historyVars>>

TakeSnapshot ==
    /\ Running("outgoing") /\ ~HasCommand /\ Len(acks) < MaxAcks /\ latest # None
    /\ hand' = latest /\ latest' = None /\ pc' = "send"
    /\ UNCHANGED <<uiVars, online, commands, inboundVars, roomVars, turnedAway, wgen, license, acks,
                   settling, historyVars>>

AfterSend == IF hand = Rejoin THEN "calls" ELSE "outgoing"

Send ==
    /\ Running("send")
    /\ acks' = Append(acks, hand) /\ hand' = None /\ pc' = AfterSend
    /\ joinSent' = (joinSent \/ (IsJoin(hand) /\ desired # None /\ joinDue))
    /\ tried' = (tried \/ IsJoin(hand))
    /\ UNCHANGED <<uiVars, online, queueVars, inboundVars, desired, joinDue, turnedAway, wgen,
                   license, settling, historyVars>>

\* The server's limit became known after the snapshot was queued.
SendRefused ==
    /\ Running("send") /\ hand \in Uploads
    /\ settling' = <<Result(hand, "refused")>> /\ hand' = None /\ pc' = AfterSend
    /\ UNCHANGED <<uiVars, online, queueVars, inboundVars, roomVars, turnedAway, wgen, license,
                   acks, historyVars>>

CommandsDropped == commands
CommandsGivenBack == IF hand \in Calls \ Uploads THEN <<hand>> \o commands ELSE commands

\* What was not sent goes back to where it was taken from, if that is still
\* of this generation; a snapshot only if no newer one is there.
SendFails ==
    /\ WorkerAt("send")
    /\ hand' = None /\ pc' = "lost"
    /\ IF gen # wgen
       THEN UNCHANGED <<queueVars, reserved, settling>>
       ELSE /\ commands' = CommandsGivenBack
            /\ latest' = IF hand \in Uploads /\ latest = None THEN hand ELSE latest
            /\ settling' = IF hand \in Uploads /\ latest # None
                           THEN <<Result(hand, "canceled")>> ELSE <<>>
            /\ reserved' = IF hand = Rejoin THEN Released(1) ELSE reserved
    /\ UNCHANGED <<uiVars, online, inbound, queued, roomVars, turnedAway, wgen, license, acks,
                   historyVars>>

\* SettleDesiredJoinLocked
SettleJoinSent(q) ==
    IF \E c \in Elements(q) : IsJoin(c)
    THEN joinSent' = FALSE /\ UNCHANGED joinDue
    ELSE UNCHANGED <<joinDue, joinSent>>
SettleJoin(q) ==
    IF \E c \in Elements(q) : IsJoin(c)
    THEN joinDue' = FALSE /\ joinSent' = FALSE
    ELSE UNCHANGED <<joinDue, joinSent>>

NothingToSend == (~HasCommand /\ latest = None) \/ Len(acks) >= MaxAcks

ExpireAcks(n) ==
    /\ Running("outgoing") /\ NothingToSend
    /\ settling' = Results(SubSeq(acks, 1, n), "ended")
    /\ acks' = SubSeq(acks, n + 1, Len(acks))
    /\ SettleJoin(SubSeq(acks, 1, n))
    /\ pc' = "receive"
    /\ UNCHANGED <<uiVars, online, queueVars, inboundVars, desired, tried, turnedAway, wgen, license,
                   hand, historyVars>>

\* An acknowledged renaming changes the name a rejoin will use, unless a
\* later one has.
RememberName(c) ==
    IF desired # None /\ Sequence(c) > desired.seq
    THEN desired' = [desired EXCEPT !.name = c, !.seq = Sequence(c)]
    ELSE UNCHANGED desired

ReceiveAck(i, ok) ==
    /\ Running("receive") /\ i \in DOMAIN acks
    /\ acks' = Removed(acks, i)
    /\ SettleJoin(<<acks[i]>>)
    /\ IF ok /\ acks[i] \in Renames
       THEN hand' = acks[i] /\ pc' = "rename" /\ UNCHANGED settling
       ELSE settling' = <<Result(acks[i], "ended")>> /\ pc' = "rejoin" /\ UNCHANGED hand
    /\ UNCHANGED <<uiVars, online, queueVars, inboundVars, desired, tried, turnedAway, wgen, license,
                   historyVars>>

CommitRename ==
    /\ WorkerAt("rename")
    /\ IF gen = wgen THEN RememberName(hand) ELSE UNCHANGED desired
    /\ settling' = <<Result(hand, "ended")>> /\ hand' = None /\ pc' = "rejoin"
    /\ UNCHANGED <<uiVars, online, queueVars, inboundVars, joinDue, joinSent, tried, turnedAway,
                   wgen, license, acks, historyVars>>

ReceiveNote(t) ==
    /\ Running("receive")
    /\ PutNote(t)
    /\ pc' = "rejoin"
    /\ UNCHANGED <<uiVars, online, queueVars, roomVars, turnedAway, wgen, license, hand, acks,
                   settling, historyVars>>

ReceiveNothing ==
    /\ Running("receive")
    /\ pc' = "rejoin"
    /\ UNCHANGED <<uiVars, online, queueVars, inboundVars, roomVars, turnedAway, wgen, license,
                   hand, acks, settling, historyVars>>

\* Queued queries fail with the connection; other calls wait for the next.
FailQueries ==
    /\ Running("lost")
    /\ settling' = Results(Chosen(commands, Len(commands), Transient), "ended")
    /\ commands' = NotChosen(commands, Len(commands), Transient)
    /\ pc' = "failing"
    /\ UNCHANGED <<uiVars, online, latest, inboundVars, roomVars, turnedAway, wgen, license, hand,
                   acks, historyVars>>

AbandonConnection ==
    /\ WorkerAt("lost") /\ Aborting
    /\ acks' = <<>> /\ pc' = "top"
    /\ UNCHANGED <<uiVars, online, queueVars, inboundVars, roomVars, turnedAway, wgen, license,
                   hand, settling, historyVars>>

FailAcks ==
    /\ WorkerAt("failing")
    /\ IF gen # wgen
       THEN UNCHANGED <<settling, acks, joinDue, joinSent>>
       ELSE /\ settling' = Results(acks, "ended") /\ acks' = <<>>
            /\ joinDue' = (joinDue \/ (joinSent /\ desired # None)) /\ joinSent' = FALSE
    /\ pc' = "offline"
    /\ UNCHANGED <<uiVars, online, queueVars, inboundVars, desired, tried, turnedAway, wgen, license,
                   hand, historyVars>>

GoOffline ==
    /\ WorkerAt("offline")
    /\ online' = (online /\ gen # wgen)
    /\ pc' = "top"
    /\ UNCHANGED <<uiVars, queueVars, inboundVars, roomVars, turnedAway, wgen, license, hand, acks,
                   settling, historyVars>>

-----------------------------------------------------------------------------
Window ==
    \/ \E s \in {"none", "device", "member"} : Configure(s)
    \/ Start \/ BeginStop \/ FinishStop
    \/ \E c \in Calls : Call(c) \/ Query(c) \/ JoinRoom(c) \/ LeaveRoom(c) \/ CancelRequest(c)
    \/ \E u \in Uploads : UploadSnapshot(u) \/ UploadTooLarge(u)
    \/ NotifyTurnedAway \/ DispatchMessage

Worker ==
    \/ Notify \/ Exit
    \/ \E i \in DOMAIN commands : BeginRegistration(i) \/ RegisterConnected(i)
    \/ EndRegistration
    \/ BeginConnection \/ Connect \/ DropLicense \/ Lose \/ LoseWithError
    \/ SendRejoin
    \/ \E n \in 0..Len(commands) : ExpireQueued(n)
    \/ TakeCommand \/ TakeSnapshot
    \/ Send \/ SendRefused \/ SendFails
    \/ \E n \in 0..Len(acks) : ExpireAcks(n)
    \/ \E i \in DOMAIN acks, ok \in BOOLEAN : ReceiveAck(i, ok)
    \/ CommitRename
    \/ \E t \in Topics \cup {None} : ReceiveNote(t)
    \/ ReceiveNothing
    \/ FailQueries \/ AbandonConnection \/ FailAcks \/ GoOffline

Next == Window \/ Worker

\* The deadline of c has passed.
AckExpires(c) == \E n \in DOMAIN acks : c \in Elements(SubSeq(acks, 1, n)) /\ ExpireAcks(n)

\* The window starts a client it has configured and dispatches on a timer;
\* network operations of the worker end (they have time-outs); a deadline
\* that is checked again and again is past at some check.
Fairness ==
    /\ WF_vars(Worker) /\ WF_vars(Start) /\ WF_vars(FinishStop)
    /\ WF_vars(NotifyTurnedAway) /\ WF_vars(DispatchMessage)
    /\ \A c \in Calls \cup {Rejoin} : SF_vars(AckExpires(c))

Spec == Init /\ [][Next]_vars
FairSpec == Spec /\ Fairness

-----------------------------------------------------------------------------
(* Properties.                                                             *)
Codes == {"ended", "canceled", "refused"}
ResultMessages == [call : Calls \cup {Rejoin}, code : Codes]
\* An empty optional holds no result.
ASSUME NoneAssumption == None \notin ResultMessages

\* The variables hold what their declarations in Impl hold.
TypeOK ==
    /\ gen \in 0..MaxGeneration /\ cgen \in 0..MaxGeneration /\ wgen \in 0..MaxGeneration
    /\ setup \in {"none", "device", "member"}
    /\ {started, stopping, online, joinDue, joinSent, license, tried} \subseteq BOOLEAN
    /\ commands \in Seq(Calls \ Uploads) /\ latest \in Uploads \cup {None}
    /\ inbound \in Seq(ResultMessages \cup [topic : Topics \cup {None}])
    /\ reserved \in Nat /\ queued \in Nat
    /\ desired \in {None} \cup [join : Joins, name : Joins \cup Renames, seq : Nat]
    /\ turnedAway \in {None} \cup ResultMessages
    /\ pc \in {"off", "top", "register", "reregister", "connecting", "rejoin", "calls", "outgoing",
               "send", "receive", "rename", "lost", "failing", "offline"}
    /\ hand \in Calls \cup {Rejoin, None}
    /\ acks \in Seq(Calls \cup {Rejoin}) /\ settling \in Seq(ResultMessages)
    /\ order \in Seq(Joins \cup Renames) /\ accepted \subseteq Calls
    /\ withdrawn \subseteq Queries /\ delivered \subseteq ResultMessages

Count(b) == IF b THEN 1 ELSE 0

\* Every call that waits for its result holds one reservation, wherever it
\* is, and nothing else does: none leaks on a refusal, a cancellation, a
\* failed transmission, a time-out or the end of a connection.
ReservationsExact ==
    gen = cgen =>
        reserved = Len(commands) + Count(latest # None) + Len(acks) + Count(turnedAway # None)
                   + (IF wgen = gen THEN Count(hand # None) + Len(settling) ELSE 0)

\* The inbound queue has room for every result still to come, so that no
\* flood of notifications can displace one.
RoomForResults ==
    /\ Len(inbound) + reserved <= MaxInbound
    /\ queued + reserved <= MaxResults
    /\ queued = Cardinality({i \in DOMAIN inbound : IsResult(inbound[i])})

Settled == delivered \cup {m \in Elements(inbound) : IsResult(m)}
           \cup (IF wgen = gen THEN Elements(settling) ELSE {})
Sent == Elements(acks) \cup {m.call : m \in {x \in Settled : x.code = "ended"}}

\* Snapshots reach the server in the order of their revisions, although one
\* whose transmission failed goes back to be sent again: none older than a
\* sent one is still to be sent.
UploadsInOrder ==
    \A u, v \in Uploads : u < v /\ v \in Sent => u # latest /\ (u = hand => wgen # gen)

\* A snapshot is given up only for a newer one.
NewestSnapshotKept ==
    \A u \in Uploads : Result(u, "canceled") \in Settled => \E v \in Uploads : v > u /\ ~New(v)

\* On one connection the worker repeats the remembered join at most once, and
\* not when a join of the window was sent there or waits to be sent: not after
\* its acknowledgement or time-out either.
RejoinOnce ==
    [][hand' = Rejoin /\ hand # Rejoin =>
         ~tried /\ \A c \in Elements(commands) \cup Elements(acks) : ~IsJoin(c)]_vars

\* The name a rejoin will use was asked for with the remembered room or
\* after it: the late acknowledgement of a renaming of the room before does
\* not replace it.
RememberedNameNewest == desired # None => Sequence(desired.name) >= Sequence(desired.join)

-----------------------------------------------------------------------------
(* The client keeps the promise of CloudRequests: no call is forgotten,    *)
(* answered twice or answered after it was withdrawn.                      *)
InQueues == Elements(commands) \cup {latest} \cup Elements(acks) \cup ResultsIn(inbound)
            \cup (IF turnedAway = None THEN {} ELSE {turnedAway.call})
            \cup (IF wgen = gen THEN {hand} \cup ResultsIn(settling) ELSE {})
Answers(c) == Cardinality({m \in delivered : m.call = c})

Fate(alive, c) ==
    CASE New(c) -> "fresh"
      [] Answers(c) > 0 /\ (c \in alive \/ c \in withdrawn \/ Answers(c) > 1) -> "confused"
      [] Answers(c) = 1 -> "answered"
      [] c \in withdrawn -> "withdrawn"
      [] gen = cgen /\ c \in alive -> "open"
      [] OTHER -> "void"

Fates == LET alive == InQueues IN [c \in Calls |-> Fate(alive, c)]

Promise == INSTANCE CloudRequests WITH fate <- Fates, epoch <- cgen

\* Every step of the client is one of the promise or none at all.
KeepsPromise == Promise!Spec
\* A query put to a started client ends.
QueryEnds == Promise!QueryEnds

=============================================================================
