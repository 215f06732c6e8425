------------------------------ MODULE MCAmpduRx ------------------------------
(***************************************************************************)
(* An instance of AmpduRx for TLC: 16 sequence numbers, so that they wrap,  *)
(* and windows of 2 and 4 slots.                                            *)
(***************************************************************************)
EXTENDS AmpduRx

MCWindows == {2, 4}
=============================================================================
