------------------------------ MODULE TxQueues ------------------------------
(***************************************************************************)
(* The numbers of the WLAN host queues and the test whether the transmit    *)
(* thread must leave a queue alone, shared by WlanQueues and WlanTx.        *)
(***************************************************************************)
EXTENDS Integers

BK_Q_STA == 0
VI_Q_STA == 2
VO_Q_STA == 3
NO_STA_DATA_QUEUES == 4
NUM_EDCA_QUEUES    == 8
MGMT_SOFT_Q        == 8
INVALID_QUEUE      == 255

\* The tests of core_qos_processor; the second leaves out the first AP queue.
Blocked(q, staBlock, apBlock) ==
  \/ staBlock /\ q < NO_STA_DATA_QUEUES
  \/ apBlock /\ q > NO_STA_DATA_QUEUES /\ q < MGMT_SOFT_Q
=============================================================================
