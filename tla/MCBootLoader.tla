---------------------------- MODULE MCBootLoader ----------------------------
(***************************************************************************)
(* Instances of BootLoader for TLC: images of two chunks without and three  *)
(* with a rest, so that a buffer is used again.                             *)
(***************************************************************************)
EXTENDS BootLoader

MCModes == {"FULL_FLASH_SBL", "FULL_RAM_SBL", "FLASH_RAM_SBL", "FLASH_RAM_NO_SBL"}
MCSizes == {4, 5}
=============================================================================
