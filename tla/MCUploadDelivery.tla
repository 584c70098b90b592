-------------------------- MODULE MCUploadDelivery --------------------------
(***************************************************************************)
(* Instances of UploadDelivery for TLC: one session, put twice.            *)
(***************************************************************************)
EXTENDS UploadDelivery, TLC

CONSTANTS c1, u1, u2

SameSession == (u1 :> c1) @@ (u2 :> c1)

=============================================================================
