---------------------------- MODULE MCWlanQueues ----------------------------
(***************************************************************************)
(* An instance of WlanQueues for TLC.  Queues: voice of the station and     *)
(* best effort of the access point.  The access point may change the        *)
(* weights, and make both queues equal.                                     *)
(***************************************************************************)
EXTENDS WlanQueues

MCQueues  == {3, 5}
MCWeights == {[q \in MCQueues |-> IF q = 3 THEN 1 ELSE 2], [q \in MCQueues |-> 2]}
MCBurst   == [q \in {2, 3} |-> 2]
=============================================================================
