---------------------------- MODULE MCUnifiedPool ----------------------------
(* Instances of UnifiedPool for TLC.                                        *)
EXTENDS UnifiedPool, TLC

CONSTANTS a, b, t,   \* devices: a, b ordinary, t temporary
          c1, c2,    \* connection slots
          x, y       \* broadcaster names

TwoDevices == {a, t}
TwoOrdinary == {a, b}
OnlyTemporary == {t}

NoDevice == {}
OneConn == {c1}
TwoConns == {c1, c2}
OneName == {x}
TwoNames == {x, y}

NoFault == {}
EarlyFault == {"restore"}
AnyFault == {"restore", "attribution"}

\* Requests that move memberships and relations.
FollowOps == {"join", "room_join", "start"}
AllOps == {"join", "rename", "room_join", "room_rename", "room_leave",
           "start", "heartbeat", "stop", "list", "admin"}
JoinOps == {"join", "heartbeat"}
FollowLive == {"join", "start", "heartbeat", "room_leave"}

ConnSymmetry == Permutations(TwoConns)
OrdinarySymmetry == Permutations(TwoOrdinary) \cup ConnSymmetry
NameSymmetry == Permutations(TwoNames) \cup ConnSymmetry
=============================================================================
