-------------------------- MODULE CloudRoomSession --------------------------
(***************************************************************************)
(* The identity of one machine in the pool of broadcasters: registration   *)
(* of the device, joining under a name, renaming, leaving, restoring what  *)
(* was saved, and the deadlines that end what gets no answer.              *)
(*                                                                         *)
(* Source: DNFGameCaptureDlg.cpp.  Of CloudMatchClient.cpp: Configure      *)
(* empties both queues, calls are answered in order, and nothing is        *)
(* repeated after a reconnection (JoinUnifiedPool remembers no room).  The *)
(* server is what the window can see of it.                                *)
(*                                                                         *)
(* A handler runs the functions it calls to their end; each of them is a   *)
(* set of outcomes of a desk: what the window's thread has before it.      *)
(***************************************************************************)
EXTENDS Naturals, Sequences

CONSTANTS
    Names,      \* names of a broadcaster
    None,       \* no name, no token
    MaxCommands,\* bound on the commands of the user
    MaxFaults   \* bound on failed saves, refused and lost calls, restarts, removals, new servers

ASSUME NamesAssumption == None \notin Names
ASSUME BoundsAssumption == MaxCommands \in Nat /\ MaxFaults \in Nat

\* Bound on the identities of devices: an attempt to register needs another
\* only after a command or a fault.
Devices == 1..(MaxCommands + MaxFaults + 1)
Tokens == [dev : Devices, epoch : 0..MaxFaults]
ASSUME TokensAssumption == None \notin Tokens

VARIABLES
    win,     \* the window: m_cloudMatchJoining .., room being the saved identity
    ini,     \* [CloudMatch] of config.ini: room, token, dev
    auth,    \* HasAuthorizedCloudMatchEndpoint
    calls,   \* client: calls not answered
    inbox,   \* client: messages to be dispatched
    key,     \* client: the token it was configured with
    srv,     \* server: epoch of its database, devices, the names of members, and
             \* whom it removed by itself since they last joined or left (history)
    granted, \* history: names the server gave this machine
    commands, faults   \* how much of the bounds is used up

deskVars == <<win, ini, calls, inbox, key>>
vars == <<deskVars, auth, srv, granted, commands, faults>>

-----------------------------------------------------------------------------
Call(op, arg) == [op |-> op, arg |-> arg]
Event(t, arg) == [t |-> t, arg |-> arg]

\* A window with nothing under way, and one of a program that has just read config.ini.
Closed(i, pending, tries) ==
    [joining |-> FALSE, registering |-> FALSE, restoring |-> FALSE, confirmed |-> FALSE,
     renaming |-> FALSE, leaving |-> FALSE, joinDue |-> FALSE, leaveDue |-> FALSE,
     room |-> i.room, pending |-> pending, token |-> i.token, dev |-> i.dev, tries |-> tries]
Loaded(i) == Closed(i, None, 0)

\* A database that has just been made.
Database(e) ==
    [epoch |-> e, devs |-> {}, names |-> [d \in Devices |-> None], removed |-> {}]

Init ==
    /\ ini = [room |-> None, token |-> None, dev |-> 1]
    /\ win = Loaded(ini) /\ auth = FALSE
    /\ calls = <<>> /\ inbox = <<>> /\ key = None
    /\ srv = Database(0)
    /\ granted = {} /\ commands = 0 /\ faults = 0

\* What the window's thread has before it, and an outcome of its work.
Desk(box) == [win |-> win, ini |-> ini, calls |-> calls, inbox |-> box, key |-> key, spent |-> 0]
Ends(outcomes) ==
    \E d \in outcomes :
        /\ win' = d.win /\ ini' = d.ini /\ calls' = d.calls /\ inbox' = d.inbox /\ key' = d.key
        /\ faults' = faults + d.spent /\ faults' <= MaxFaults

Failed(d) == [d EXCEPT !.spent = @ + 1]
Configured(d) == [d EXCEPT !.calls = <<>>, !.inbox = <<>>, !.key = d.win.token]
\* SaveCloudMatchSettings
Saved(d) == [d EXCEPT !.ini = [room |-> d.win.room, token |-> d.win.token, dev |-> d.win.dev]]
Asked(d, op, arg) == [d EXCEPT !.calls = Append(@, Call(op, arg))]
NotJoining(d) == [d EXCEPT !.win.joining = FALSE, !.win.registering = FALSE, !.win.joinDue = FALSE]
Lapsed(d) == [NotJoining(d) EXCEPT !.win.restoring = FALSE, !.win.confirmed = FALSE]

\* BeginCloudDeviceRegistration: a deadline that was set is kept.
Registration(d) ==
    LET bare == [d EXCEPT !.win.token = None]
        ready == [Configured(Saved(bare)) EXCEPT
                    !.win.registering = TRUE, !.win.joining = TRUE, !.win.restoring = FALSE,
                    !.win.confirmed = FALSE, !.win.joinDue = TRUE]
    IN {Asked(ready, "register", d.win.dev), NotJoining(Failed(ready)), NotJoining(Failed(bare))}

\* BeginCloudRoomRestore
Restoration(d) ==
    LET ready == Configured([d EXCEPT
                    !.win.pending = d.win.room, !.win.joining = TRUE, !.win.registering = FALSE,
                    !.win.restoring = TRUE, !.win.confirmed = FALSE, !.win.joinDue = TRUE])
    IN IF d.win.room = None \/ d.win.token = None
       THEN {Lapsed(d)}
       ELSE {Asked(ready, "join", d.win.room), Lapsed(Failed(ready))}

\* CancelCloudRoomJoin: back to the saved identity, once.
Cancellation(d) ==
    IF ~d.win.restoring /\ d.win.room # None /\ d.win.token # None
    THEN Restoration([d EXCEPT !.win.registering = FALSE])
    ELSE {Lapsed(Configured(d))}

\* A join under the pending name, after Configure.
Joining(d) ==
    {Asked(d, "join", d.win.pending)} \cup Cancellation(Failed(d))

Busy == win.joining \/ win.registering \/ win.renaming \/ win.leaving

-----------------------------------------------------------------------------
(* The user. *)
Command == commands < MaxCommands /\ commands' = commands + 1

\* BeginCloudRoomJoin
JoinCommand(n) ==
    /\ Command /\ auth /\ ~Busy
    /\ LET d == [Desk(inbox) EXCEPT
                    !.win.pending = n, !.win.joining = TRUE, !.win.registering = FALSE,
                    !.win.restoring = FALSE, !.win.tries = 0, !.win.joinDue = TRUE]
       IN Ends(IF win.token = None
               THEN Registration(d)
               ELSE {NotJoining(Failed(d))}
                    \cup Joining([Configured(Saved(d)) EXCEPT !.win.confirmed = FALSE]))
    /\ UNCHANGED <<auth, srv, granted>>

\* cmd_cloud_room_cancel_join
CancelCommand ==
    /\ Command /\ auth /\ (win.joining \/ win.registering)
    /\ Ends(Cancellation(Desk(inbox)))
    /\ UNCHANGED <<auth, srv, granted>>

\* Variation: the new name is taken over before the server has answered.
VariationRenamedAtOnce(n) ==
    /\ Command
    /\ LET d == Saved([Desk(inbox) EXCEPT !.win.pending = n, !.win.room = n])
       IN Ends({[d EXCEPT !.win.renaming = FALSE, !.spent = IF key = None THEN 0 ELSE 1]}
               \cup (IF key = None THEN {}
                     ELSE {[Asked(d, "rename", n) EXCEPT !.win.renaming = TRUE]}))
    /\ UNCHANGED <<auth, srv, granted>>
\* cmd_cloud_rename_broadcaster: at any time, even while joining.  (What else
\* renames, cmd_cloud_room_rename, asks the same when nothing is under way.)
RenameCommand(n) ==
    /\ Command
    /\ LET d == [Desk(inbox) EXCEPT !.win.pending = n]
       IN Ends({[d EXCEPT !.win.renaming = FALSE, !.spent = IF key = None THEN 0 ELSE 1]}
               \cup (IF key = None THEN {}
                     ELSE {[Asked(d, "rename", n) EXCEPT !.win.renaming = TRUE]}))
    /\ UNCHANGED <<auth, srv, granted>>

\* cmd_cloud_room_leave
LeaveCommand ==
    /\ Command /\ auth /\ win.room # None /\ ~Busy
    /\ LET d == IF win.confirmed THEN Desk(inbox)
                ELSE [Configured(Desk(inbox)) EXCEPT !.win.restoring = FALSE]
       IN Ends((IF d.key = None THEN {}
                ELSE {[Asked(d, "leave", None) EXCEPT !.win.leaving = TRUE, !.win.leaveDue = TRUE]})
               \cup {[d EXCEPT !.win.leaving = FALSE, !.win.leaveDue = FALSE,
                               !.win.confirmed = FALSE, !.spent = IF d.key = None THEN 0 ELSE 1]})
    /\ UNCHANGED <<auth, srv, granted>>

-----------------------------------------------------------------------------
(* Authorization. *)

\* DisableCloudMatchForAuthorization
Disabled(d) ==
    [d EXCEPT !.win = Closed(@, @.pending, @.tries), !.calls = <<>>, !.inbox = <<>>, !.key = None]
Disable ==
    /\ auth /\ auth' = FALSE
    /\ Ends({Failed(Disabled(Desk(inbox)))})
    /\ UNCHANGED <<srv, granted, commands>>
\* The licence is accepted: StartSavedCloudMatchSession.
Authorize ==
    /\ ~auth /\ auth' = TRUE
    /\ LET d == Saved(Disabled(Desk(inbox)))
       IN Ends(IF win.room = None THEN {d}
               ELSE IF win.token = None THEN Registration([d EXCEPT !.win.pending = win.room])
               ELSE Restoration(d))
    /\ UNCHANGED <<srv, granted, commands>>
\* The program ends, or crashes, and is started again.
Restart ==
    /\ faults < MaxFaults /\ faults' = faults + 1
    /\ win' = Loaded(ini) /\ auth' = FALSE
    /\ calls' = <<>> /\ inbox' = <<>> /\ key' = None
    /\ UNCHANGED <<ini, srv, granted, commands>>

-----------------------------------------------------------------------------
(* The poll of the window: deadlines and messages. *)

\* Variation: nothing ends what gets no answer.
VariationNoDeadline == FALSE
JoinDeadline ==
    /\ auth /\ win.joinDue /\ (win.joining \/ win.registering)
    /\ Ends(Cancellation(Desk(inbox)))
    /\ UNCHANGED <<auth, srv, granted, commands>>

\* Variation: a member that has left, maybe, is still shown as one.
VariationLeaveForgotten ==
    /\ auth /\ win.leaving /\ win.leaveDue
    /\ Ends({[Configured(Desk(inbox)) EXCEPT !.win.leaving = FALSE, !.win.leaveDue = FALSE]})
    /\ UNCHANGED <<auth, srv, granted, commands>>
\* Nobody knows whether the machine has left.
LeaveDeadline ==
    /\ auth /\ win.leaving /\ win.leaveDue
    /\ Ends({[Configured(Desk(inbox)) EXCEPT !.win.leaving = FALSE, !.win.leaveDue = FALSE,
                                             !.win.confirmed = FALSE]})
    /\ UNCHANGED <<auth, srv, granted, commands>>

Message == auth /\ inbox # <<>>
Box == Tail(inbox)
Handled == UNCHANGED <<auth, srv, granted, commands>>

Registered ==
    /\ Message /\ Head(inbox).t = "registered"
    /\ LET d == [Desk(Box) EXCEPT !.win.token = Head(inbox).arg]
       IN Ends(IF Head(inbox).arg.dev # win.dev THEN Cancellation(Desk(Box))
               ELSE {NotJoining(Failed(d))}
                    \cup Joining([Configured(Saved(d)) EXCEPT !.win.registering = FALSE]))
    /\ Handled

\* Four other identities are tried.
RegistrationError ==
    /\ Message /\ Head(inbox).t = "registration error"
    /\ Head(inbox).arg = "taken" => win.dev + 1 \in Devices
    /\ LET d == [Desk(Box) EXCEPT !.win.registering = FALSE]
       IN Ends(IF Head(inbox).arg = "taken" /\ win.tries < 4
               THEN Registration([d EXCEPT !.win.tries = @ + 1, !.win.dev = @ + 1])
               ELSE Cancellation(d))
    /\ Handled

\* An answer under another name than the pending one is for another join.
JoinResult ==
    /\ Message /\ Head(inbox).t \in {"joined", "join refused", "join failed"}
    /\ LET d == Desk(Box)
           done == [d EXCEPT !.win.joining = FALSE, !.win.restoring = FALSE,
                       !.win.confirmed = TRUE, !.win.joinDue = FALSE, !.win.room = win.pending]
       IN Ends(IF ~win.joining THEN {d}
               ELSE IF Head(inbox).t = "join refused" THEN Cancellation(d)
               ELSE IF Head(inbox).t = "joined" /\ Head(inbox).arg = win.pending
               THEN {Saved(done), Failed(done)}
               ELSE {d})
    /\ Handled

RenameResult ==
    /\ Message /\ Head(inbox).t \in {"renamed", "rename failed"}
    /\ LET d == [Desk(Box) EXCEPT !.win.renaming = FALSE]
           done == [d EXCEPT !.win.room = win.pending]
       IN Ends(IF Head(inbox).t = "renamed" /\ Head(inbox).arg = win.pending
               THEN {Saved(done), Failed(done)}
               ELSE {d})
    /\ Handled

LeaveResult ==
    /\ Message /\ Head(inbox).t \in {"left", "leave failed"}
    /\ LET d == [Desk(Box) EXCEPT !.win.leaving = FALSE, !.win.leaveDue = FALSE,
                                  !.win.confirmed = FALSE]
           gone == [d EXCEPT !.win.restoring = FALSE]
       IN Ends(IF Head(inbox).t = "left"
               THEN {Failed(gone), Saved([gone EXCEPT !.win.room = None, !.win.pending = None])}
               ELSE {d})
    /\ Handled

\* The server does not know the token: the device is registered anew and
\* joins under the pending name, or else the saved one.
AuthenticationFailed ==
    /\ Message /\ Head(inbox).t = "authentication failed"
    /\ LET name == IF win.pending # None THEN win.pending ELSE win.room
           d == [Desk(Box) EXCEPT !.win.pending = name, !.win.token = None, !.win.tries = 0]
       IN Ends(IF name # None THEN {Failed(d)} \cup Registration(Saved(d))
               ELSE IF win.joining \/ win.registering THEN Cancellation(Desk(Box))
               ELSE {Desk(Box)})
    /\ Handled

-----------------------------------------------------------------------------
(* The client and the server. *)

Fault == faults < MaxFaults /\ faults' = faults + 1
Knows(token) == token # None /\ token.epoch = srv.epoch /\ token.dev \in srv.devs
Member(dev) == srv.names[dev]
ServerSteps == UNCHANGED <<win, ini, key, auth, commands>>

\* What becomes of a call: [event, srv, name given].
Entered(dev, n) == [srv EXCEPT !.names[dev] = n, !.removed = @ \ {dev}]
RegisterVerdicts(dev) ==
    IF dev \in srv.devs
    THEN {<<Event("registration error", "taken"), srv, None>>}
    ELSE {<<Event("registered", [dev |-> dev, epoch |-> srv.epoch]),
            [srv EXCEPT !.devs = @ \cup {dev}], None>>}
\* A name may be taken; the adapter may fail when the name is entered already.
JoinVerdicts(dev, n) ==
    {<<Event("joined", n), Entered(dev, n), n>>, <<Event("join refused", n), Entered(dev, n), n>>,
     <<Event("join refused", n), srv, None>>}
RenameVerdicts(dev, n) ==
    {<<Event("rename failed", n), srv, None>>}
    \cup (IF Member(dev) = None THEN {} ELSE {<<Event("renamed", n), Entered(dev, n), n>>})
LeaveVerdicts(dev) ==
    {<<Event("left", None), Entered(dev, None), None>>, <<Event("leave failed", None), srv, None>>}
Verdicts(c) ==
    CASE c.op = "register" -> RegisterVerdicts(c.arg)
      [] c.op = "join" -> JoinVerdicts(key.dev, c.arg)
      [] c.op = "rename" -> RenameVerdicts(key.dev, c.arg)
      [] c.op = "leave" -> LeaveVerdicts(key.dev)
Unanswered(c) ==
    CASE c.op = "register" -> Event("registration error", "timeout")
      [] c.op = "join" -> Event("join failed", None)
      [] c.op = "rename" -> Event("rename failed", None)
      [] c.op = "leave" -> Event("leave failed", None)

Answerable == calls # <<>> /\ (Head(calls).op = "register" \/ Knows(key))
Answer ==
    /\ Answerable
    /\ calls' = Tail(calls)
    /\ \E v \in Verdicts(Head(calls)) :
          /\ inbox' = Append(inbox, v[1]) /\ srv' = v[2] /\ granted' = granted \cup ({v[3]} \ {None})
    /\ ServerSteps /\ UNCHANGED faults
\* The call was executed, its answer is lost.
LoseAnswer ==
    /\ Answerable /\ Fault
    /\ calls' = Tail(calls) /\ inbox' = Append(inbox, Unanswered(Head(calls)))
    /\ \E v \in Verdicts(Head(calls)) :
          srv' = v[2] /\ granted' = granted \cup ({v[3]} \ {None})
    /\ ServerSteps
\* The call itself is lost.
LoseCall ==
    /\ calls # <<>> /\ Fault
    /\ calls' = Tail(calls) /\ inbox' = Append(inbox, Unanswered(Head(calls)))
    /\ UNCHANGED <<srv, granted>> /\ ServerSteps
\* A connection with an unknown token is refused, again and again.
Refuse ==
    /\ key # None /\ ~Knows(key)
    /\ \A i \in DOMAIN inbox : inbox[i].t # "authentication failed"
    /\ inbox' = Append(inbox, Event("authentication failed", None))
    /\ UNCHANGED <<calls, srv, granted, faults>> /\ ServerSteps
\* The sweep removes whoever was not authenticated for long, connected or not
\* (pruneExpiredBroadcasters); so does an administrator who deletes the data
\* of a broadcaster without a connection (deleteBroadcasterLobbyData).
RemoveMember(dev) ==
    /\ Fault /\ Member(dev) # None
    /\ srv' = [srv EXCEPT !.names[dev] = None, !.removed = @ \cup {dev}]
    /\ UNCHANGED <<calls, inbox, granted>> /\ ServerSteps
\* The server is set up anew with an empty database.
NewServer ==
    /\ Fault
    /\ srv' = Database(srv.epoch + 1)
    /\ UNCHANGED <<calls, inbox, granted>> /\ ServerSteps

-----------------------------------------------------------------------------
Handle == Registered \/ RegistrationError \/ JoinResult \/ RenameResult \/ LeaveResult
            \/ AuthenticationFailed
Next ==
    \/ \E n \in Names : JoinCommand(n) \/ RenameCommand(n)
    \/ CancelCommand \/ LeaveCommand
    \/ Disable \/ Authorize \/ Restart
    \/ JoinDeadline \/ LeaveDeadline \/ Handle
    \/ Answer \/ LoseAnswer \/ LoseCall \/ Refuse \/ NewServer
    \/ \E dev \in Devices : RemoveMember(dev)

Spec == Init /\ [][Next]_vars
\* The window polls on a timer as long as it is authorized.
FairSpec == Spec /\ WF_vars(Handle) /\ WF_vars(JoinDeadline) /\ WF_vars(LeaveDeadline)

-----------------------------------------------------------------------------
Flags == {"joining", "registering", "restoring", "confirmed", "renaming", "leaving",
          "joinDue", "leaveDue"}
\* Types of the state.  Whoever is being registered is joining, and not
\* restoring: the window has one thing under way at a time.
TypeOK ==
    /\ win.registering => win.joining /\ ~win.restoring
    /\ \A f \in Flags : win[f] \in BOOLEAN
    /\ {win.room, win.pending, ini.room} \subseteq Names \cup {None}
    /\ {win.token, ini.token, key} \subseteq Tokens \cup {None}
    /\ {win.dev, ini.dev} \subseteq Devices /\ win.tries \in 0..4
    /\ auth \in BOOLEAN /\ granted \subseteq Names
    /\ \A i \in DOMAIN calls : calls[i].op \in {"register", "join", "rename", "leave"}
    /\ srv.epoch \in 0..MaxFaults /\ srv.devs \subseteq Devices
    /\ srv.names \in [Devices -> Names \cup {None}] /\ srv.removed \subseteq Devices

\* A window that shows its room as confirmed, and is not leaving it, is a
\* member for the server: no lost or late answer to a join, a leave or a
\* registration makes it believe so.  Two things end a membership unseen, and
\* only they: a server set up anew, whose refusal of the token the client is
\* about to hear, and a removal by the sweep or an administrator, of which no
\* message tells the window; the next join or leave ends that exception.
ConfirmedIsMember ==
    win.confirmed /\ ~win.leaving /\ Knows(win.token) =>
        Member(win.token.dev) # None \/ win.token.dev \in srv.removed

\* What is saved as this machine's name, and restored by the next start, is a
\* name the server gave it: a name that was refused or whose answer never
\* came is not.
SavedNameGranted == {win.room, ini.room} \ {None} \subseteq granted

\* Joining, registering and restoring do not last for ever, whatever is lost:
\* a restoration that follows a cancelled join is not followed by another.
JoiningEnds == (win.joining \/ win.registering) ~> ~(win.joining \/ win.registering)

\* "An operation of the room is being processed, please wait": the window
\* says so of a renaming that is on its way or answered.  The code refutes it:
\* Configure drops the renaming and nothing resets the flag.
RenamingUnderWay ==
    win.renaming => \/ \E i \in DOMAIN calls : calls[i].op = "rename"
                    \/ \E i \in DOMAIN inbox : inbox[i].t \in {"renamed", "rename failed"}
=============================================================================
