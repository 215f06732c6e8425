------------------------------ MODULE MCAssets ------------------------------
(***************************************************************************)
(* Instances of Assets for TLC, one per coex_mode of interest.              *)
(***************************************************************************)
EXTENDS Assets

MCWlan   == {WLAN_ID}
MCWlanBt == {WLAN_ID, BT_ID}
MCWlanZb == {WLAN_ID, ZB_ID}
=============================================================================
