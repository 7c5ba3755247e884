----------------------------- MODULE MCTtsQuota -----------------------------
(* Small instances of TtsQuota for TLC.                                    *)
EXTENDS TtsQuota, TLC

CONSTANTS l1, l2, k1, k2, k3

OneLicense == {l1}
TwoLicenses == {l1, l2}
TwoClips == {k1, k2}
ThreeClips == {k1, k2, k3}

\* The lengths differ, so that a swapped amount shows.
GiveAndTake == {-1, 2}
CharsOf == [k \in Clips |-> IF k = k1 THEN 1 ELSE 2]
LicenseSymmetry == Permutations(TwoLicenses)

CostOf == [k \in Clips |-> IF k = k1 THEN 1 ELSE 2]

=============================================================================
