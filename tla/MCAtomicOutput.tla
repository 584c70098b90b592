--------------------------- MODULE MCAtomicOutput ---------------------------
(***************************************************************************)
(* Instances of AtomicOutput for TLC: two writers of one name.             *)
(***************************************************************************)
EXTENDS AtomicOutput, TLC

CONSTANTS r1, r2, n1, w1, w2

OneName == (r1 :> n1) @@ (r2 :> n1)
RejectAndReplace == (r1 :> "reject") @@ (r2 :> "replace")
=============================================================================
