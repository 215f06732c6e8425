------------------------------ MODULE MCWlanTx ------------------------------
(***************************************************************************)
(* An instance of WlanTx for TLC: one queue of the station and one of the   *)
(* access point.                                                            *)
(***************************************************************************)
EXTENDS WlanTx

MCQueues == {3, 5}
=============================================================================
