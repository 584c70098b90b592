------------------------- MODULE MCReservationFiles -------------------------
(***************************************************************************)
(* Instances of ReservationFiles for TLC.                                  *)
(***************************************************************************)
EXTENDS ReservationFiles

TwoSessions == {1, 2}
TwoInodes == {1, 2}

=============================================================================
