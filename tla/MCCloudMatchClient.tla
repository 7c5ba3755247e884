------------------------- MODULE MCCloudMatchClient -------------------------
(* Small instances of CloudMatchClient for TLC.                            *)
EXTENDS CloudMatchClient, TLC

CONSTANTS q1, j1, r1, l1, g1, t1

None_ == {}
OneQuery == {q1}
OneUpload == {1}
TwoUploads == {1, 2}
OneJoin == {j1}
OneRename == {r1}
OneLeave == {l1}
OneRegistration == {g1}
OneTopic == {t1}

=============================================================================
