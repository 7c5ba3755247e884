-------------------------- MODULE MCRoomDirectory --------------------------
(* Small instances of RoomDirectory for TLC.                               *)
EXTENDS RoomDirectory, TLC

CONSTANTS n1, n2, c1, c2, r1, r2

TwoDevices == {1, 2}
NoDevice == {}
OneTemporary == {2}
OneName == {n1}
TwoNames == {n1, n2}
OneContent == {c1}
TwoContents == {c1, c2}
OneRoom == {r1}
TwoRooms == {r1, r2}

SharingOps == {"move", "leave", "rename", "upload", "compare", "delete"}
SwitchingOps == {"pool", "move", "leave", "upload", "expire"}
MixedOps == {"pool", "move", "leave", "upload", "follow", "expire", "delete"}

=============================================================================
