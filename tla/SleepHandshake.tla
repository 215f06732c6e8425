--------------------------- MODULE SleepHandshake ---------------------------
(***************************************************************************)
(* What the ultra-low-power sleep handshake of the common HAL promises,     *)
(* whichever protocols are loaded and however their transmit threads run:   *)
(* the host withdraws its own right to transmit in the very step that tells *)
(* the device it may sleep, answers a request at most once, and takes the   *)
(* right back only when the device is awake again.  TxAccess implements it. *)
(***************************************************************************)
CONSTANT Faults   \* may the answer get lost on its way to the device?

VARIABLES
  device,   \* "awake", "requested" (it asked for permission to sleep), "asleep"
  access,   \* may the host transmit?
  ack       \* is the host's permission on its way to the device?

vars == <<device, access, ack>>

Init == device = "awake" /\ access = TRUE /\ ack = FALSE

Request ==
  /\ device = "awake"
  /\ device' = "requested"
  /\ UNCHANGED <<access, ack>>

\* A lost answer may be given again, but only to a device that still waits.
Answer ==
  /\ device = "requested" /\ ~ack
  /\ access \/ Faults
  /\ access' = FALSE
  /\ ack' = TRUE \/ (Faults /\ ack' = FALSE)
  /\ UNCHANGED device

Sleep ==
  /\ device = "requested" /\ ack
  /\ device' = "asleep"
  /\ ack' = FALSE
  /\ UNCHANGED access

Wake ==
  /\ device = "asleep"
  /\ device' = "awake"
  /\ UNCHANGED <<access, ack>>

\* The device may have asked for its next sleep before the host takes its
\* access back, but it cannot have been given the permission.
Restore ==
  /\ device # "asleep" /\ ~ack /\ ~access
  /\ access' = TRUE
  /\ UNCHANGED <<device, ack>>

Next == Request \/ Answer \/ Sleep \/ Wake \/ Restore

Spec == Init /\ [][Next]_vars
=============================================================================
