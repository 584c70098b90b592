--------------------------- MODULE MCUploadLedger ---------------------------
(***************************************************************************)
(* Instances of UploadLedger for TLC.                                      *)
(***************************************************************************)
EXTENDS UploadLedger, TLC

OneSession == {1}
TwoSessions == {1, 2}
ThreeSessions == {1, 2, 3}
OneIdentity == {1}
TwoIdentities == {1, 2}

KeySymmetry == Permutations(Key)

=============================================================================
