----------------------------- MODULE MCTxAccess -----------------------------
(***************************************************************************)
(* Instances of TxAccess for TLC: the protocols loaded, and which of them   *)
(* have power save enabled.                                                 *)
(***************************************************************************)
EXTENDS TxAccess

MCWlanBt == {WLAN_ID, BT_ID}
MCPsOn   == {WLAN_ID, BT_ID}
=============================================================================
