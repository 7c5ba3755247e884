--------------------------- MODULE KeyMappingLan ---------------------------
(***************************************************************************)
(* Two machines of a team on a local network: the captain's is the server, *)
(* the other its only client.  The client reports the keys it holds, gets  *)
(* the state of the match on demand or by subscription, and may propose    *)
(* its own when both sides allow that.                                     *)
(*                                                                         *)
(* Source: KeyMappingLanService.cpp (the two network threads) and the      *)
(* handlers of the windows in DNFGameCaptureDlg.cpp.                       *)
(*                                                                         *)
(* A state of the match is the local change that made it, a number; every  *)
(* handler of a window ends in BroadcastStateToWeb, so that the snapshot   *)
(* of the service is the state of the window.  Each part of an iteration   *)
(* of a network thread is a step: it reads the shared atomics anew.        *)
(* Time-outs and the debounce run out at any moment.                       *)
(***************************************************************************)
EXTENDS Naturals, Sequences, FiniteSets

CONSTANTS
    None,         \* an empty JSON object
    MaxEdits,     \* bound on the local changes of either side
    Invalid,      \* states ValidateTeamSyncSnapshot refuses: too many or too long names
    MaxMoves      \* bound on switches, requests, keys, connections and failures together

ASSUME BoundsAssumption == MaxEdits \in Nat /\ MaxMoves \in Nat

Versions == 0..MaxEdits
ASSUME NoneAssumption == None \notin Versions
ASSUME InvalidAssumption == Invalid \subseteq Versions \ {0}

VARIABLES
    edits,    \* history: the local changes, [by, ok], in order
    own,      \* history: the client's own changes less its proposals, and whether there
              \* were any since it took over a push, [credit, since]
    moves,    \* how many of MaxMoves were made
    srv,      \* captain: match, rev, allow, gen (policy generation), proposals posted
    sock,     \* captain's thread: its connection and what it knows of it
    shown,    \* captain: status.connected
    mask,     \* captain: m_remoteActiveMask
    link,     \* the client's connection: none, dial, up, cut
    toSrv, toCli,  \* frames on their way to either thread
    cli,      \* client's window and service
    run,      \* client's thread
    stat,     \* client's status: running, connected, subscribed, policy
    box       \* messages posted to the client's window

vars == <<edits, own, moves, srv, sock, shown, mask, link, toSrv, toCli, cli, run, stat, box>>
captainVars == <<srv, sock, shown, mask>>
clientVars == <<cli, run, stat, box>>
wireVars == <<link, toSrv, toCli>>
historyVars == <<edits, own, moves>>

-----------------------------------------------------------------------------
Move == moves < MaxMoves /\ moves' = moves + 1

NoClient == [conn |-> "none", hello |-> FALSE, told |-> 0, on |-> FALSE, sub |-> 0,
             last |-> 0, pend |-> 0]
Idle == [at |-> "off", on |-> FALSE, sub |-> 0, last |-> 0, pend |-> 0, done |-> 0, asked |-> 0]

\* A frame sent by the captain's thread: lost when the client has gone.
ToClient(frames) == toCli' = IF link = "up" THEN toCli \o frames ELSE toCli
\* The service posts a message; notifications only make the window look.
Posted(b, m) == IF b # <<>> /\ b[Len(b)] = m /\ m.t = "changed" THEN b ELSE Append(b, m)
Changed == [t |-> "changed"]
Failed == [t |-> "error"]

Init ==
    /\ edits = <<>> /\ own = [credit |-> 0, since |-> FALSE]
    /\ moves = 0
    /\ srv = [match |-> 0, rev |-> 1, allow |-> FALSE, gen |-> 0, posted |-> <<>>]
    /\ sock = NoClient /\ shown = FALSE /\ mask = 0
    /\ link = "none" /\ toSrv = <<>> /\ toCli = <<>>
    /\ cli = [match |-> 0, rev |-> 1, keys |-> 0, recv |-> FALSE, send |-> FALSE, sub |-> 0,
              last |-> 0, was |-> FALSE, offer |-> None, base |-> None, undo |-> None,
              applied |-> None, waits |-> FALSE, req |-> 0]
    /\ run = Idle
    /\ stat = [running |-> FALSE, connected |-> FALSE, subscribed |-> FALSE, policy |-> FALSE]
    /\ box = <<>>

-----------------------------------------------------------------------------
(* The captain's window. *)

Edit(by, ok) ==
    /\ Len(edits) < MaxEdits
    /\ edits' = Append(edits, [by |-> by, ok |-> ok])

SrvEdit ==
    /\ Edit("captain", TRUE)
    /\ srv' = [srv EXCEPT !.match = Len(edits'), !.rev = @ + 1]
    /\ UNCHANGED <<own, moves, sock, shown, mask, wireVars, clientVars>>

\* SetTeamSyncClientWriteAllowed.
SrvAllow ==
    /\ Move
    /\ srv' = [srv EXCEPT !.allow = ~@, !.gen = @ + 1]
    /\ UNCHANGED <<edits, own, sock, shown, mask, wireVars, clientVars>>

\* A proposal is applied only when it is still allowed and valid (what passes
\* the check once passes it again in ApplyTeamSyncSnapshot).  The answer the
\* client gets only changes a text and is left out.
MayApply(p) == shown /\ srv.allow /\ p \notin Invalid
SrvPropose ==
    /\ srv.posted # <<>>
    /\ LET p == Head(srv.posted)
       IN srv' = [srv EXCEPT !.posted = Tail(@),
                    !.match = IF MayApply(p) THEN p ELSE @,
                    !.rev = IF MayApply(p) /\ p # srv.match THEN @ + 1 ELSE @]
    /\ UNCHANGED <<historyVars, sock, shown, mask, wireVars, clientVars>>

-----------------------------------------------------------------------------
(* The captain's network thread. *)

\* A client that calls while another is served is told so and turned away.
SrvAccept ==
    /\ link = "dial"
    /\ IF sock.conn = "none"
       THEN /\ sock' = [NoClient EXCEPT !.conn = "accepted", !.pend = sock.pend, !.told = sock.told]
            /\ link' = "up" /\ toSrv' = <<[t |-> "hello"]>> /\ toCli' = <<>>
       ELSE /\ link' = "cut" /\ toCli' = <<[t |-> "rejected"]>>
            /\ UNCHANGED <<sock, toSrv>>
    /\ UNCHANGED <<historyVars, srv, shown, mask, clientVars>>

Closed == sock' = [sock EXCEPT !.conn = "none", !.hello = FALSE, !.on = FALSE, !.sub = 0]
HangUp == link' = IF link = "up" THEN "cut" ELSE link
VariationKeysKept ==
    /\ Closed /\ HangUp
    /\ shown' = FALSE /\ toSrv' = <<>> /\ UNCHANGED mask
\* The connection is closed and all that was shown of it with it.
SrvForget ==
    /\ Closed /\ HangUp
    /\ shown' = FALSE /\ mask' = 0 /\ toSrv' = <<>>

SrvHello(frame) ==
    /\ frame.t = "hello" /\ sock.conn = "accepted"
    /\ sock' = [sock EXCEPT !.conn = "paired", !.hello = TRUE]
    /\ ToClient(<<[t |-> "accepted"], [t |-> "policy", ok |-> srv.allow]>>)
    /\ UNCHANGED <<srv, shown, mask>>

\* The generation of the policy is read after the policy was sent.
SrvGreeted ==
    /\ sock.hello
    /\ sock' = [sock EXCEPT !.hello = FALSE, !.told = srv.gen]
    /\ shown' = TRUE
    /\ UNCHANGED <<historyVars, srv, mask, wireVars, clientVars>>

Serving == sock.conn = "paired" /\ ~sock.hello

\* The client sends the keys it holds whenever they change and every 250 ms;
\* what it sent last may be read late.
SrvState ==
    /\ Serving /\ mask # cli.keys
    /\ mask' = cli.keys
    /\ UNCHANGED <<historyVars, srv, sock, shown, wireVars, clientVars>>

SrvRequest(frame) ==
    /\ frame.t = "request"
    /\ ToClient(<<[t |-> "snapshot", id |-> frame.id, v |-> srv.match]>>)
    /\ UNCHANGED <<srv, sock, shown, mask>>

SrvSubscribe(frame) ==
    /\ frame.t = "subscribe"
    /\ sock' = [sock EXCEPT !.on = frame.on, !.sub = frame.sub, !.last = 0, !.pend = srv.rev]
    /\ UNCHANGED <<srv, shown, mask, toCli>>

SrvProposal(frame) ==
    /\ frame.t = "propose"
    /\ srv' = IF srv.allow THEN [srv EXCEPT !.posted = Append(@, frame.v)] ELSE srv
    /\ UNCHANGED <<sock, shown, mask, toCli>>

\* A frame that finds no handler is ignored.
SrvReceive ==
    /\ sock.conn # "none" /\ ~sock.hello /\ toSrv # <<>>
    /\ toSrv' = Tail(toSrv)
    /\ LET frame == Head(toSrv)
       IN \/ SrvHello(frame)
          \/ sock.conn = "paired"
             /\ (SrvRequest(frame) \/ SrvSubscribe(frame) \/ SrvProposal(frame))
    /\ UNCHANGED <<historyVars, link, clientVars>>

SrvPolicy ==
    /\ Serving /\ sock.told # srv.gen
    /\ ToClient(<<[t |-> "policy", ok |-> srv.allow]>>)
    /\ sock' = [sock EXCEPT !.told = srv.gen]
    /\ UNCHANGED <<historyVars, srv, shown, mask, link, toSrv, clientVars>>

SrvObserve ==
    /\ Serving /\ sock.on /\ sock.pend # srv.rev
    /\ sock' = [sock EXCEPT !.pend = srv.rev]
    /\ UNCHANGED <<historyVars, srv, shown, mask, wireVars, clientVars>>

\* The revision was read before the snapshot.
SrvPush ==
    /\ Serving /\ sock.on /\ sock.pend # sock.last
    /\ ToClient(<<[t |-> "push", rev |-> sock.pend, sub |-> sock.sub, v |-> srv.match]>>)
    /\ sock' = [sock EXCEPT !.last = sock.pend]
    /\ UNCHANGED <<historyVars, srv, shown, mask, link, toSrv, clientVars>>

\* The connection ended, nothing was heard for a second, or a push failed.
SrvLose ==
    /\ sock.conn # "none" /\ ~sock.hello
    /\ IF link = "up" THEN Serving /\ Move ELSE UNCHANGED moves
    /\ SrvForget
    /\ UNCHANGED <<edits, own, srv, toCli, clientVars>>

\* A result, a policy or a ping could not be sent, or the client was slow to
\* introduce itself: only the connection goes.
SrvSendFails ==
    /\ sock.conn # "none" /\ ~sock.hello /\ link # "up"
    /\ sock' = [sock EXCEPT !.conn = "none"]
    /\ toSrv' = <<>>
    /\ UNCHANGED <<historyVars, srv, shown, mask, link, toCli, clientVars>>

-----------------------------------------------------------------------------
(* The client's window. *)

Own == cli.send /\ stat.policy   \* both sides authorize uploads
OwnChange == own' = [credit |-> own.credit + 1, since |-> TRUE]

CliEdit ==
    /\ Edit("client", Own /\ stat.connected)
    /\ cli' = [cli EXCEPT !.match = Len(edits'), !.rev = @ + 1]
    /\ OwnChange
    /\ UNCHANGED <<moves, captainVars, wireVars, run, stat, box>>

CliKeys ==
    /\ Move
    /\ cli' = [cli EXCEPT !.keys = 1 - @]
    /\ UNCHANGED <<edits, own, captainVars, wireVars, run, stat, box>>

NothingOffered(c) == [c EXCEPT !.offer = None, !.base = None]
Cleared(c) == [NothingOffered(c) EXCEPT !.undo = None, !.applied = None]
\* SetTeamSyncSubscribed: a new subscription gets a new number.
VariationSameSubscription(c, on) == [c EXCEPT !.recv = on, !.sub = 1]
Subscribed(c, on) == [c EXCEPT !.recv = on, !.sub = IF cli.recv # on THEN @ + 1 ELSE @]
ShowSubscribed(on) == stat' = [stat EXCEPT !.subscribed = on /\ stat.connected]

\* cmd_set_team_sync_auto_receive.
CliReceive ==
    /\ Move
    /\ LET on == ~cli.recv
       IN /\ cli' = Subscribed(Cleared([cli EXCEPT !.send = @ /\ on, !.last = 0]), on)
          /\ ShowSubscribed(on)
    /\ box' = Posted(box, Changed)
    /\ UNCHANGED <<edits, own, captainVars, wireVars, run>>

\* cmd_set_team_sync_auto_send: sending needs receiving.
CliSend ==
    /\ Move
    /\ LET on == ~cli.send
           c == [cli EXCEPT !.send = on]
       IN IF on /\ ~cli.recv
          THEN cli' = Subscribed([c EXCEPT !.last = 0], TRUE) /\ ShowSubscribed(TRUE)
          ELSE cli' = c /\ UNCHANGED stat
    /\ box' = Posted(box, Changed)
    /\ UNCHANGED <<edits, own, captainVars, wireVars, run>>

\* cmd_request_team_sync, RequestTeamSync.
CliRequest ==
    /\ ~cli.recv /\ stat.running /\ stat.connected /\ ~cli.waits
    /\ Move
    /\ cli' = [cli EXCEPT !.waits = TRUE, !.req = @ + 1]
    /\ UNCHANGED <<edits, own, captainVars, wireVars, run, stat, box>>

\* The window takes over another state of the match; the service sees a change.
Taken(c, v) == [c EXCEPT !.match = v, !.rev = IF v # c.match THEN @ + 1 ELSE @]

\* cmd_apply_team_sync: only over the state the user compared with.
MayTake == cli.match = cli.base
CliApply ==
    /\ cli.offer # None
    /\ IF cli.recv \/ ~stat.connected \/ ~MayTake
       THEN cli' = NothingOffered(cli) /\ UNCHANGED own
       ELSE /\ cli' = NothingOffered([Taken(cli, cli.offer) EXCEPT !.undo = cli.match,
                                                                   !.applied = cli.offer])
            /\ OwnChange
    /\ UNCHANGED <<edits, moves, captainVars, wireVars, run, stat, box>>

CliCancel ==
    /\ cli.offer # None
    /\ cli' = NothingOffered(cli)
    /\ UNCHANGED <<historyVars, captainVars, wireVars, run, stat, box>>

\* cmd_undo_team_sync.
CliUndo ==
    /\ ~cli.recv /\ cli.undo # None /\ cli.match = cli.applied
    /\ cli' = Cleared(Taken(cli, cli.undo))
    /\ OwnChange
    /\ UNCHANGED <<edits, moves, captainVars, wireVars, run, stat, box>>

\* OnKeyMappingLanChanged: only the present status is looked at.
LooksAtStatus(m) ==
    /\ m.t = "changed"
    /\ LET gone == cli.was /\ ~stat.connected
           back == ~cli.was /\ stat.connected
           c == IF gone THEN NothingOffered(cli) ELSE cli
       IN /\ cli' = [c EXCEPT !.was = stat.connected, !.last = IF gone \/ back THEN 0 ELSE @]
          /\ IF back THEN ShowSubscribed(cli.recv) ELSE UNCHANGED stat
    /\ UNCHANGED own

\* What the captain pushed is taken over without being a change of the client:
\* SetRemoteTeamSyncSnapshot leaves the revision alone.
VariationPushIsChange(m) == Cleared([cli EXCEPT !.match = m.v, !.last = m.rev, !.rev = @ + 1])
Pushed(m) == Cleared([cli EXCEPT !.match = m.v, !.last = m.rev])
\* OnKeyMappingTeamSync, team_sync_push.  An invalid one changes nothing.
Takes(m) ==
    /\ cli.recv /\ stat.connected /\ stat.subscribed /\ m.rev > cli.last
    /\ m.v \notin Invalid
TakesPush(m) ==
    /\ m.t = "push"
    /\ IF Takes(m)
       THEN cli' = Pushed(m) /\ own' = [own EXCEPT !.since = FALSE]
       ELSE UNCHANGED <<cli, own>>
    /\ UNCHANGED stat

\* OnKeyMappingTeamSync, team_sync_snapshot and team_sync_error.
TakesAnswer(m) ==
    /\ m.t \in {"snapshot", "error"}
    /\ cli' = IF m.t = "error" \/ cli.recv \/ m.v \in Invalid THEN NothingOffered(cli)
              ELSE [cli EXCEPT !.base = cli.match, !.offer = m.v]
    /\ UNCHANGED <<stat, own>>

CliHandle ==
    /\ box # <<>>
    /\ LooksAtStatus(Head(box)) \/ TakesPush(Head(box)) \/ TakesAnswer(Head(box))
    /\ box' = Tail(box)
    /\ UNCHANGED <<edits, moves, captainVars, wireVars, run>>

\* cmd_connect_key_lan: the thread of an earlier connection is stopped first.
CliStart ==
    /\ Move
    /\ link' = "none" /\ toCli' = <<>>
    /\ run' = [Idle EXCEPT !.at = "dial"]
    /\ stat' = [running |-> TRUE, connected |-> FALSE, subscribed |-> FALSE, policy |-> FALSE]
    /\ cli' = [cli EXCEPT !.waits = FALSE]
    /\ box' = Posted(box, Changed)
    /\ UNCHANGED <<edits, own, captainVars, toSrv>>

\* cmd_disconnect_key_lan.
CliStop ==
    /\ stat.running
    /\ link' = "none" /\ toCli' = <<>>
    /\ run' = Idle
    /\ stat' = [running |-> FALSE, connected |-> FALSE, subscribed |-> FALSE, policy |-> FALSE]
    /\ cli' = [Cleared(cli) EXCEPT !.waits = FALSE, !.last = 0]
    /\ box' = Posted(box, Changed)
    /\ UNCHANGED <<historyVars, captainVars, toSrv>>

-----------------------------------------------------------------------------
(* The client's network thread. *)

CliDial ==
    /\ run.at = "dial" /\ link = "none"
    /\ link' = "dial" /\ toCli' = <<>>
    /\ UNCHANGED <<historyVars, captainVars, toSrv, clientVars>>

\* The window is told before the baseline of the uploads is read.
CliAccepted ==
    /\ run.at = "dial" /\ toCli # <<>> /\ Head(toCli).t = "accepted"
    /\ toCli' = Tail(toCli)
    /\ run' = [Idle EXCEPT !.at = "start"]
    /\ stat' = [stat EXCEPT !.connected = TRUE, !.subscribed = FALSE, !.policy = FALSE]
    /\ box' = Posted(box, Changed)
    /\ UNCHANGED <<historyVars, captainVars, link, toSrv, cli>>

CliBaseline ==
    /\ run.at = "start"
    /\ run' = [run EXCEPT !.at = "run", !.pend = cli.rev, !.done = cli.rev]
    /\ UNCHANGED <<historyVars, captainVars, wireVars, cli, stat, box>>

\* A client that is turned away does not try again.
CliRejected ==
    /\ run.at = "dial" /\ toCli # <<>> /\ Head(toCli).t = "rejected"
    /\ toCli' = <<>> /\ link' = "none"
    /\ run' = Idle
    /\ stat' = [running |-> FALSE, connected |-> FALSE, subscribed |-> FALSE, policy |-> FALSE]
    /\ box' = Posted(box, Changed)
    /\ UNCHANGED <<historyVars, captainVars, toSrv, cli>>

\* The connection is closed; a request that waited for it is given up.
CliLost ==
    /\ link = "cut" /\ (run.at = "dial" => toCli = <<>>)
    /\ link' = "none" /\ toCli' = <<>>
    /\ run' = [Idle EXCEPT !.at = "dial"]
    /\ cli' = [cli EXCEPT !.waits = FALSE]
    /\ stat' = [stat EXCEPT !.connected = FALSE, !.subscribed = FALSE]
    /\ box' = Posted(IF cli.waits THEN Append(box, Failed) ELSE box, Changed)
    /\ UNCHANGED <<historyVars, captainVars, toSrv>>

Cut ==
    /\ link = "up" /\ Move
    /\ link' = "cut"
    /\ UNCHANGED <<edits, own, captainVars, toSrv, toCli, clientVars>>

\* A frame sent by the client's thread.
ToServer(frame) == toSrv' = IF link = "up" THEN Append(toSrv, frame) ELSE toSrv

CliSubscribe ==
    /\ run.at = "run" /\ cli.sub # 0 /\ (run.sub # cli.sub \/ run.on # cli.recv)
    /\ ToServer([t |-> "subscribe", on |-> cli.recv, sub |-> cli.sub])
    /\ run' = [run EXCEPT !.sub = cli.sub, !.on = cli.recv, !.last = 0]
    /\ stat' = [stat EXCEPT !.subscribed = cli.recv]
    /\ box' = Posted(box, Changed)
    /\ UNCHANGED <<historyVars, captainVars, link, toCli, cli>>

\* What changed before uploads are authorized becomes the baseline.
CliObserve ==
    /\ run.at = "run"
    /\ run' = [run EXCEPT !.pend = cli.rev, !.done = IF Own THEN @ ELSE cli.rev]
    /\ run' # run
    /\ UNCHANGED <<historyVars, captainVars, wireVars, cli, stat, box>>

CliUpload ==
    /\ run.at = "run" /\ Own /\ run.pend # run.done
    /\ ToServer([t |-> "propose", v |-> cli.match])
    /\ run' = [run EXCEPT !.done = run.pend]
    /\ own' = [own EXCEPT !.credit = @ - 1]
    /\ UNCHANGED <<edits, moves, captainVars, link, toCli, cli, stat, box>>

CliAsk ==
    /\ run.at = "run" /\ cli.waits /\ cli.req # run.asked
    /\ ToServer([t |-> "request", id |-> cli.req])
    /\ run' = [run EXCEPT !.asked = cli.req]
    /\ UNCHANGED <<historyVars, captainVars, link, toCli, cli, stat, box>>

CliTimeout ==
    /\ run.at = "run" /\ cli.waits /\ cli.req = run.asked
    /\ cli' = [cli EXCEPT !.waits = FALSE]
    /\ run' = [run EXCEPT !.asked = 0]
    /\ box' = Posted(box, Failed)
    /\ UNCHANGED <<historyVars, captainVars, wireVars, stat>>

HearsSnapshot(frame) ==
    /\ frame.t = "snapshot"
    /\ IF cli.waits /\ frame.id = cli.req
       THEN /\ cli' = [cli EXCEPT !.waits = FALSE]
            /\ run' = [run EXCEPT !.asked = 0]
            /\ box' = Posted(box, [t |-> "snapshot", v |-> frame.v])
       ELSE UNCHANGED <<cli, run, box>>
    /\ UNCHANGED stat

HearsPush(frame) ==
    /\ frame.t = "push"
    /\ IF cli.recv /\ frame.sub = cli.sub /\ frame.rev > run.last
       THEN /\ run' = [run EXCEPT !.last = frame.rev]
            /\ box' = Posted(box, [t |-> "push", rev |-> frame.rev, v |-> frame.v])
       ELSE UNCHANGED <<run, box>>
    /\ UNCHANGED <<cli, stat>>

HearsPolicy(frame) ==
    /\ frame.t = "policy"
    /\ stat' = [stat EXCEPT !.policy = frame.ok]
    /\ box' = Posted(box, Changed)
    /\ UNCHANGED <<cli, run>>

CliHear ==
    /\ run.at = "run" /\ toCli # <<>>
    /\ toCli' = Tail(toCli)
    /\ LET frame == Head(toCli)
       IN HearsSnapshot(frame) \/ HearsPush(frame) \/ HearsPolicy(frame)
    /\ UNCHANGED <<historyVars, captainVars, link, toSrv>>

-----------------------------------------------------------------------------
CaptainWindow == SrvEdit \/ SrvAllow \/ SrvPropose
CaptainThread ==
    \/ SrvAccept \/ SrvReceive \/ SrvGreeted \/ SrvState \/ SrvPolicy
    \/ SrvObserve \/ SrvPush \/ SrvLose \/ SrvSendFails
ClientWindow ==
    \/ CliEdit \/ CliKeys \/ CliReceive \/ CliSend \/ CliRequest \/ CliApply \/ CliCancel
    \/ CliUndo \/ CliHandle \/ CliStart \/ CliStop
ClientThread ==
    \/ CliDial \/ CliAccepted \/ CliBaseline \/ CliRejected \/ CliLost \/ CliSubscribe
    \/ CliObserve \/ CliUpload \/ CliAsk \/ CliTimeout \/ CliHear

Next == CaptainWindow \/ CaptainThread \/ ClientWindow \/ ClientThread \/ Cut

Spec == Init /\ [][Next]_vars

-----------------------------------------------------------------------------
TypeOK ==
    /\ edits \in Seq([by : {"captain", "client"}, ok : BOOLEAN])
    /\ srv.match \in Versions /\ cli.match \in Versions
    /\ sock.conn \in {"none", "accepted", "paired"}
    /\ link \in {"none", "dial", "up", "cut"} /\ run.at \in {"off", "dial", "start", "run"}
    /\ mask \in 0..1 /\ shown \in BOOLEAN
    /\ cli.offer \in Versions \cup {None} /\ (cli.offer = None <=> cli.base = None)
    /\ (cli.undo = None <=> cli.applied = None)

\* Keys are displayed only of a client that is shown as connected, whichever
\* way its connection ended.
KeysOnlyWhileShown == mask # 0 => shown \/ sock.hello

\* The client proposes only while it owes a change of its own: a state taken
\* over from the captain never makes it propose, however its thread's look at
\* the revision, the debounce and the push cross.  (What a proposal that is owed
\* carries may be the captain's state all the same: see RemoteStateNotProposed.)
ProposalsOwed == own.credit >= 0

\* Nothing is on its way between the two machines or inside either.
Quiet ==
    /\ link = "up" /\ Serving /\ run.at = "run"
    /\ toSrv = <<>> /\ toCli = <<>> /\ box = <<>> /\ srv.posted = <<>>
    /\ run.sub = cli.sub /\ run.on = cli.recv /\ sock.pend = srv.rev
    /\ sock.on => sock.pend = sock.last

\* A client that receives automatically and changed nothing since has the
\* captain's state, if that is a valid one, once all is quiet: through every
\* change of subscription, loss of connection, crossing of messages and state
\* that was refused before.
Converged ==
    Quiet /\ cli.recv /\ ~own.since /\ srv.match \notin Invalid => cli.match = srv.match

\* A state taken over from the captain is not uploaded again.
RemoteStateNotProposed == [][own'.credit < own.credit => own.since]_vars

\* Changes made before both sides authorize uploads are never sent.
BaselineNotSent ==
    \A i \in DOMAIN toSrv :
        LET frame == toSrv[i] IN
        frame.t = "propose" /\ frame.v # 0 /\ edits[frame.v].by = "client" => edits[frame.v].ok

=============================================================================
