------------------------------ MODULE MCWlanPs ------------------------------
(***************************************************************************)
(* Instances of WlanPs for TLC: "p" is power save without, "t" with traffic *)
(* monitoring.                                                              *)
(***************************************************************************)
EXTENDS WlanPs

MCSteady  == {"p"}
MCTraffic == {"t"}
MCOn      == {"p", "t"}
MCNone    == {}
=============================================================================
