---------------------------- MODULE WlanTxProofs ----------------------------
(***************************************************************************)
(* The WLAN transmit thread never sleeps over a packet, for every set of    *)
(* queues, every queue bound and every polling interval, with failing reads *)
(* of the buffer status register.                                           *)
(***************************************************************************)
EXTENDS WlanTx, TLAPS

(***************************************************************************)
(* The two halves of TypeOK: the provers handle the flags apart from the    *)
(* numbers and sets.                                                        *)
(***************************************************************************)
DataOK ==
  /\ host_tx_queue \in [Queues -> 0 .. MaxLen]
  /\ mgmt_queue \in 0 .. MaxMgmt
  /\ pc \in {"top", "select", "read", "apply", "dequeue", "send", "wait", "nap", "sleep", "reset"}
  /\ q_num \in Queues \cup {MGMT_SOFT_Q, INVALID_QUEUE}
  /\ counter \in 0 .. PollEvery
  /\ device_buf_status \subseteq Buffers /\ status \in {"success", "failure"}
  /\ dev \subseteq Buffers
  /\ int_pc \in {"idle", "read", "mark", "flags"} /\ int_status \subseteq Buffers

FlagsOK ==
  /\ sdio_scheduler_event \in BOOLEAN /\ beacon_event \in BOOLEAN
  /\ buf_status_updated \in BOOLEAN /\ mgmt_buffer_full \in BOOLEAN /\ buffer_full \in BOOLEAN
  /\ sta_data_block \in BOOLEAN /\ block_ap_queues \in BOOLEAN
  /\ intr \in BOOLEAN /\ missed \in BOOLEAN

LEMMA TypeSplit == TypeOK <=> DataOK /\ FlagsOK
BY Zenon DEF TypeOK, DataOK, FlagsOK

(***************************************************************************)
(* What the thread chose is still there when it comes to dequeue it (nobody *)
(* else dequeues), and the poll counter has not run out by then; outside    *)
(* the loop it is 0.                                                        *)
(***************************************************************************)
HasPacket(q) == (q = MGMT_SOFT_Q /\ mgmt_queue > 0) \/ Backlog(q)

ChosenInv ==
  /\ pc \in {"read", "apply", "dequeue"} => HasPacket(q_num)
  /\ pc = "dequeue" => counter > 0
  /\ pc \in {"top", "wait", "nap", "sleep", "reset"} => counter = 0

(***************************************************************************)
(* The release of the management buffer is still to come or on its way, or  *)
(* its announcement was lost with a failed read.                            *)
(***************************************************************************)
Expected == Announced \/ missed

\* What the handler read is current, or the interrupt has been raised anew.
HandlerInv ==
  int_pc \in {"mark", "flags"} /\ "mgmt" \in int_status => "mgmt" \in dev \/ intr

\* What the thread read is current, or the handler follows, or it has come and set the event.
ReadInv ==
  pc = "apply" /\ "mgmt" \in device_buf_status => Expected \/ sdio_scheduler_event

(***************************************************************************)
(* Since the last poll mgmt_buffer_full was set by the handler alone, and   *)
(* so its end is expected.  Before the next poll the flag may be stale.     *)
(***************************************************************************)
FullInv ==
  /\ pc \in {"dequeue", "send"} \/ (pc = "select" /\ counter # 0)
  /\ mgmt_buffer_full
  => Expected

(***************************************************************************)
(* Why the thread left its loop: each reason ends with the event being set, *)
(* a timed wait, or no wait at all.                                         *)
(***************************************************************************)
ChosenBlocked == Blocked(q_num, sta_data_block, block_ap_queues)

Quiet == mgmt_queue = 0 /\ (ChosenBlocked \/ \A q \in Queues : ~Backlog(q))

Excuse == sdio_scheduler_event \/ status = "failure" \/ Expected \/ Quiet

WaitInv ==
  /\ pc = "wait" => Excuse \/ beacon_event \/ buffer_full
  /\ pc = "sleep" => Excuse

IInv ==
  /\ DataOK
  /\ FlagsOK
  /\ ChosenInv
  /\ HandlerInv
  /\ ReadInv
  /\ FullInv
  /\ WaitInv
-----------------------------------------------------------------------------
\* Initially all queues are empty and the thread is at the top of its loop.
LEMMA IInvInit == Init => IInv
<1> SUFFICES ASSUME Init PROVE IInv
  OBVIOUS
<1>1. DataOK
  BY ConstantsAssumption DEF Init, DataOK, Buffers, INVALID_QUEUE
<1>2. FlagsOK
  BY Zenon DEF Init, FlagsOK
<1> QED
  BY <1>1, <1>2 DEF Init, IInv, ChosenInv, HandlerInv, ReadInv, FullInv, WaitInv

(***************************************************************************)
(* Every step of the thread, the handler, the device and the queueing       *)
(* contexts keeps IInv.                                                     *)
(***************************************************************************)
LEMMA IInvStep == IInv /\ [Next]_vars => IInv'
<1> SUFFICES ASSUME IInv, [Next]_vars PROVE IInv'
  OBVIOUS
<1> USE ConstantsAssumption DEF Buffers, queueVars, threadVars, bufVars, blockVars, devVars,
        MGMT_SOFT_Q, INVALID_QUEUE, NUM_EDCA_QUEUES
<1>1. ASSUME NEW q \in Queues, QueueData(q) PROVE IInv'
  <2>1. DataOK'
    BY <1>1 DEF IInv, DataOK, ChosenInv, HasPacket, Backlog, QueueData, schedule_pkt_for_tx
  <2>2. FlagsOK'
    BY <1>1 DEF IInv, FlagsOK, QueueData, schedule_pkt_for_tx
  <2>3. ChosenInv'
    BY <1>1 DEF IInv, DataOK, FlagsOK, ChosenInv, HasPacket, Backlog, Stuck, QueueData, schedule_pkt_for_tx
  <2>4. HandlerInv'
    BY <1>1 DEF IInv, DataOK, FlagsOK, HandlerInv, QueueData, schedule_pkt_for_tx
  <2>5. ReadInv'
    BY <1>1 DEF IInv, DataOK, FlagsOK, ReadInv, HandlerInv, Expected, Announced, QueueData, schedule_pkt_for_tx
  <2>6. FullInv'
    BY <1>1 DEF IInv, DataOK, FlagsOK, FullInv, HandlerInv, ChosenInv, Expected, Announced, QueueData, schedule_pkt_for_tx
  <2>7. WaitInv'
    BY <1>1 DEF IInv, DataOK, FlagsOK, WaitInv, FullInv, ReadInv, HandlerInv, ChosenInv, HasPacket, Excuse, Quiet,
       ChosenBlocked, Blocked, Backlog, Expected, Announced, QueueData, schedule_pkt_for_tx
  <2> QED
    BY <2>1, <2>2, <2>3, <2>4, <2>5, <2>6, <2>7 DEF IInv
<1>2. ASSUME NEW s \in BOOLEAN, NEW a \in BOOLEAN, QueueMgmt(s, a) PROVE IInv'
  <2>1. DataOK'
    BY <1>2 DEF IInv, DataOK, ChosenInv, HasPacket, Backlog, QueueMgmt, schedule_pkt_for_tx
  <2>2. FlagsOK'
    BY <1>2 DEF IInv, FlagsOK, QueueMgmt, schedule_pkt_for_tx
  <2>3. ChosenInv'
    BY <1>2 DEF IInv, DataOK, FlagsOK, ChosenInv, HasPacket, Backlog, Stuck, QueueMgmt, schedule_pkt_for_tx
  <2>4. HandlerInv'
    BY <1>2 DEF IInv, DataOK, FlagsOK, HandlerInv, QueueMgmt, schedule_pkt_for_tx
  <2>5. ReadInv'
    BY <1>2 DEF IInv, DataOK, FlagsOK, ReadInv, HandlerInv, Expected, Announced, QueueMgmt, schedule_pkt_for_tx
  <2>6. FullInv'
    BY <1>2 DEF IInv, DataOK, FlagsOK, FullInv, HandlerInv, ChosenInv, Expected, Announced, QueueMgmt, schedule_pkt_for_tx
  <2>7. WaitInv'
    BY <1>2 DEF IInv, DataOK, FlagsOK, WaitInv, FullInv, ReadInv, HandlerInv, ChosenInv, HasPacket, Excuse, Quiet,
       ChosenBlocked, Blocked, Backlog, Expected, Announced, QueueMgmt, schedule_pkt_for_tx
  <2> QED
    BY <2>1, <2>2, <2>3, <2>4, <2>5, <2>6, <2>7 DEF IInv
<1>3. ASSUME BeaconEvent PROVE IInv'
  <2>1. DataOK'
    BY <1>3 DEF IInv, DataOK, ChosenInv, HasPacket, Backlog, BeaconEvent, schedule_pkt_for_tx
  <2>2. FlagsOK'
    BY <1>3 DEF IInv, FlagsOK, BeaconEvent, schedule_pkt_for_tx
  <2>3. ChosenInv'
    BY <1>3 DEF IInv, DataOK, FlagsOK, ChosenInv, HasPacket, Backlog, Stuck, BeaconEvent, schedule_pkt_for_tx
  <2>4. HandlerInv'
    BY <1>3 DEF IInv, DataOK, FlagsOK, HandlerInv, BeaconEvent, schedule_pkt_for_tx
  <2>5. ReadInv'
    BY <1>3 DEF IInv, DataOK, FlagsOK, ReadInv, HandlerInv, Expected, Announced, BeaconEvent, schedule_pkt_for_tx
  <2>6. FullInv'
    BY <1>3 DEF IInv, DataOK, FlagsOK, FullInv, HandlerInv, ChosenInv, Expected, Announced, BeaconEvent, schedule_pkt_for_tx
  <2>7. WaitInv'
    BY <1>3 DEF IInv, DataOK, FlagsOK, WaitInv, FullInv, ReadInv, HandlerInv, ChosenInv, HasPacket, Excuse, Quiet,
       ChosenBlocked, Blocked, Backlog, Expected, Announced, BeaconEvent, schedule_pkt_for_tx
  <2> QED
    BY <2>1, <2>2, <2>3, <2>4, <2>5, <2>6, <2>7 DEF IInv
<1>4. ASSUME sdio_scheduler_thread PROVE IInv'
  <2>1. DataOK'
    BY <1>4 DEF IInv, DataOK, ChosenInv, HasPacket, Backlog, sdio_scheduler_thread, Goto
  <2>2. FlagsOK'
    BY <1>4 DEF IInv, FlagsOK, sdio_scheduler_thread, Goto
  <2>3. ChosenInv'
    BY <1>4 DEF IInv, DataOK, FlagsOK, ChosenInv, HasPacket, Backlog, Stuck, sdio_scheduler_thread, Goto
  <2>4. HandlerInv'
    BY <1>4 DEF IInv, DataOK, FlagsOK, HandlerInv, sdio_scheduler_thread, Goto
  <2>5. ReadInv'
    BY <1>4 DEF IInv, DataOK, FlagsOK, ReadInv, HandlerInv, Expected, Announced, sdio_scheduler_thread, Goto
  <2>6. FullInv'
    BY <1>4 DEF IInv, DataOK, FlagsOK, FullInv, HandlerInv, ChosenInv, Expected, Announced, sdio_scheduler_thread, Goto
  <2>7. WaitInv'
    BY <1>4 DEF IInv, DataOK, FlagsOK, WaitInv, FullInv, ReadInv, HandlerInv, ChosenInv, HasPacket, Excuse, Quiet,
       ChosenBlocked, Blocked, Backlog, Expected, Announced, sdio_scheduler_thread, Goto
  <2> QED
    BY <2>1, <2>2, <2>3, <2>4, <2>5, <2>6, <2>7 DEF IInv
<1>5. ASSUME BreakForBeacon PROVE IInv'
  <2>1. DataOK'
    BY <1>5 DEF IInv, DataOK, ChosenInv, HasPacket, Backlog, BreakForBeacon, LeaveLoop
  <2>2. FlagsOK'
    BY <1>5 DEF IInv, FlagsOK, BreakForBeacon, LeaveLoop
  <2>3. ChosenInv'
    BY <1>5 DEF IInv, DataOK, FlagsOK, ChosenInv, HasPacket, Backlog, Stuck, BreakForBeacon, LeaveLoop
  <2>4. HandlerInv'
    BY <1>5 DEF IInv, DataOK, FlagsOK, HandlerInv, BreakForBeacon, LeaveLoop
  <2>5. ReadInv'
    BY <1>5 DEF IInv, DataOK, FlagsOK, ReadInv, HandlerInv, Expected, Announced, BreakForBeacon, LeaveLoop
  <2>6. FullInv'
    BY <1>5 DEF IInv, DataOK, FlagsOK, FullInv, HandlerInv, ChosenInv, Expected, Announced, BreakForBeacon, LeaveLoop
  <2>7. WaitInv'
    BY <1>5 DEF IInv, DataOK, FlagsOK, WaitInv, FullInv, ReadInv, HandlerInv, ChosenInv, HasPacket, Excuse, Quiet,
       ChosenBlocked, Blocked, Backlog, Expected, Announced, BreakForBeacon, LeaveLoop
  <2> QED
    BY <2>1, <2>2, <2>3, <2>4, <2>5, <2>6, <2>7 DEF IInv
<1>6. ASSUME Select PROVE IInv'
  <2>1. DataOK'
    BY <1>6 DEF IInv, DataOK, ChosenInv, HasPacket, Backlog, Select, core_determine_hal_queue, Goto, LeaveLoop
  <2>2. FlagsOK'
    BY <1>6 DEF IInv, FlagsOK, Select, core_determine_hal_queue, Goto, LeaveLoop
  <2>3. ChosenInv'
    BY <1>6 DEF IInv, DataOK, FlagsOK, ChosenInv, HasPacket, Backlog, Stuck, Select,
       core_determine_hal_queue, Goto, LeaveLoop
  <2>4. HandlerInv'
    BY <1>6 DEF IInv, DataOK, FlagsOK, HandlerInv, Select, core_determine_hal_queue, Goto, LeaveLoop
  <2>5. ReadInv'
    BY <1>6 DEF IInv, DataOK, FlagsOK, ReadInv, HandlerInv, Expected, Announced, Select,
       core_determine_hal_queue, Goto, LeaveLoop
  <2>6. FullInv'
    BY <1>6 DEF IInv, DataOK, FlagsOK, FullInv, HandlerInv, ChosenInv, Expected, Announced, Select,
       core_determine_hal_queue, Goto, LeaveLoop
  <2>7. WaitInv'
    <3>1. pc' = "wait" => Stuck(q_num')
      BY <1>6 DEF Select, Goto
    <3>2. q_num' = INVALID_QUEUE => mgmt_queue = 0 /\ \A q \in Queues : ~Backlog(q)
      BY <1>6 DEF Select, core_determine_hal_queue
    <3>3. Blocked(q_num', sta_data_block, block_ap_queues) => mgmt_queue = 0
      BY <1>6 DEF Select, core_determine_hal_queue, Blocked, NO_STA_DATA_QUEUES, IInv, DataOK
    <3>5. UNCHANGED <<host_tx_queue, mgmt_queue, sta_data_block, block_ap_queues>>
      BY <1>6 DEF Select
    <3>6. pc' = "wait" => Quiet'
      <4>1. CASE q_num' = INVALID_QUEUE
        BY <3>2, <3>5, <4>1 DEF Quiet, Backlog
      <4>2. CASE Blocked(q_num', sta_data_block, block_ap_queues)
        BY <3>3, <3>5, <4>2 DEF Quiet, ChosenBlocked, Blocked
      <4> QED
        BY <3>1, <4>1, <4>2 DEF Stuck
    <3>4. pc' # "sleep"
      BY <1>6 DEF Select, LeaveLoop, Goto
    <3> QED
      BY <3>4, <3>6 DEF WaitInv, Excuse
  <2> QED
    BY <2>1, <2>2, <2>3, <2>4, <2>5, <2>6, <2>7 DEF IInv
<1>7. ASSUME ReadRegister PROVE IInv'
  <2>1. DataOK'
    <3>1. CASE device_buf_status' = dev /\ Goto("apply") /\ UNCHANGED <<counter, status>>
      BY <1>7, <3>1 DEF IInv, DataOK, ReadRegister, Goto
    <3>2. CASE status' = "failure" /\ LeaveLoop /\ UNCHANGED device_buf_status
      BY <1>7, <3>2 DEF IInv, DataOK, ReadRegister, LeaveLoop
    <3> QED
      BY <1>7, <3>1, <3>2 DEF ReadRegister
  <2>2. FlagsOK'
    BY <1>7 DEF IInv, FlagsOK, ReadRegister, Goto, LeaveLoop
  <2>3. ChosenInv'
    BY <1>7 DEF IInv, DataOK, FlagsOK, ChosenInv, HasPacket, Backlog, Stuck, ReadRegister, Goto, LeaveLoop
  <2>4. HandlerInv'
    BY <1>7 DEF IInv, DataOK, FlagsOK, HandlerInv, ReadRegister, Goto, LeaveLoop
  <2>5. ReadInv'
    BY <1>7 DEF IInv, DataOK, FlagsOK, ReadInv, HandlerInv, Expected, Announced, ReadRegister, Goto, LeaveLoop
  <2>6. FullInv'
    BY <1>7 DEF IInv, DataOK, FlagsOK, FullInv, HandlerInv, ChosenInv, Expected, Announced, ReadRegister, Goto, LeaveLoop
  <2>7. WaitInv'
    BY <1>7 DEF IInv, DataOK, FlagsOK, WaitInv, FullInv, ReadInv, HandlerInv, ChosenInv, HasPacket, Excuse, Quiet,
       ChosenBlocked, Blocked, Backlog, Expected, Announced, ReadRegister, Goto, LeaveLoop
  <2> QED
    BY <2>1, <2>2, <2>3, <2>4, <2>5, <2>6, <2>7 DEF IInv
<1>8. ASSUME ApplyStatus PROVE IInv'
  <2>1. DataOK'
    BY <1>8 DEF IInv, DataOK, ChosenInv, HasPacket, Backlog, ApplyStatus, Goto, LeaveLoop
  <2>2. FlagsOK'
    <3>1. mgmt_buffer_full' \in BOOLEAN
      <4>1. mgmt_buffer_full' = ("mgmt" \in device_buf_status)
        BY <1>8, Zenon DEF ApplyStatus
      <4> QED
        BY <4>1, SMT
    <3>2. buffer_full' \in BOOLEAN
      <4>1. CASE buffer_full' = buffer_full
        BY <4>1, Zenon DEF IInv, FlagsOK
      <4>2. CASE buffer_full' = ("data" \in device_buf_status)
        BY <4>2, SMT
      <4> QED
        BY <1>8, <4>1, <4>2, Zenon DEF ApplyStatus
    <3> QED
      BY <1>8, <3>1, <3>2, Zenon DEF IInv, FlagsOK, ApplyStatus
  <2>3. ChosenInv'
    BY <1>8 DEF IInv, DataOK, FlagsOK, ChosenInv, HasPacket, Backlog, Stuck, ApplyStatus, Goto, LeaveLoop
  <2>4. HandlerInv'
    BY <1>8 DEF IInv, DataOK, FlagsOK, HandlerInv, ApplyStatus, Goto, LeaveLoop
  <2>5. ReadInv'
    BY <1>8 DEF IInv, DataOK, FlagsOK, ReadInv, HandlerInv, Expected, Announced, ApplyStatus, Goto, LeaveLoop
  <2>6. FullInv'
    BY <1>8 DEF IInv, DataOK, FlagsOK, FullInv, HandlerInv, ChosenInv, Expected, Announced, ApplyStatus, Goto, LeaveLoop
  <2>7. WaitInv'
    BY <1>8 DEF IInv, DataOK, FlagsOK, WaitInv, FullInv, ReadInv, HandlerInv, ChosenInv, HasPacket, Excuse, Quiet,
       ChosenBlocked, Blocked, Backlog, Expected, Announced, ApplyStatus, Goto, LeaveLoop
  <2> QED
    BY <2>1, <2>2, <2>3, <2>4, <2>5, <2>6, <2>7 DEF IInv
<1>9. ASSUME Dequeue PROVE IInv'
  <2>1. DataOK'
    BY <1>9 DEF IInv, DataOK, ChosenInv, HasPacket, Backlog, Dequeue, BufferFull, Goto, LeaveLoop
  <2>2. FlagsOK'
    BY <1>9 DEF IInv, FlagsOK, Dequeue, BufferFull, Goto, LeaveLoop
  <2>3. ChosenInv'
    BY <1>9 DEF IInv, DataOK, FlagsOK, ChosenInv, HasPacket, Backlog, Stuck, Dequeue, BufferFull, Goto, LeaveLoop
  <2>4. HandlerInv'
    BY <1>9 DEF IInv, DataOK, FlagsOK, HandlerInv, Dequeue, BufferFull, Goto, LeaveLoop
  <2>5. ReadInv'
    BY <1>9 DEF IInv, DataOK, FlagsOK, ReadInv, HandlerInv, Expected, Announced, Dequeue, BufferFull, Goto, LeaveLoop
  <2>6. FullInv'
    BY <1>9 DEF IInv, DataOK, FlagsOK, FullInv, HandlerInv, ChosenInv, Expected, Announced, Dequeue,
       BufferFull, Goto, LeaveLoop
  <2>7. WaitInv'
    BY <1>9 DEF IInv, DataOK, FlagsOK, WaitInv, FullInv, ReadInv, HandlerInv, ChosenInv, HasPacket, Excuse, Quiet,
       ChosenBlocked, Blocked, Backlog, Expected, Announced, Dequeue, BufferFull, Goto, LeaveLoop
  <2> QED
    BY <2>1, <2>2, <2>3, <2>4, <2>5, <2>6, <2>7 DEF IInv
<1>10. ASSUME Send PROVE IInv'
  <2>1. DataOK'
    BY <1>10 DEF IInv, DataOK, ChosenInv, HasPacket, Backlog, Send, Goto
  <2>2. FlagsOK'
    BY <1>10 DEF IInv, FlagsOK, Send, Goto
  <2>3. ChosenInv'
    BY <1>10 DEF IInv, DataOK, FlagsOK, ChosenInv, HasPacket, Backlog, Stuck, Send, Goto
  <2>4. HandlerInv'
    BY <1>10 DEF IInv, DataOK, FlagsOK, HandlerInv, Send, Goto
  <2>5. ReadInv'
    BY <1>10 DEF IInv, DataOK, FlagsOK, ReadInv, HandlerInv, Expected, Announced, Send, Goto
  <2>6. FullInv'
    BY <1>10 DEF IInv, DataOK, FlagsOK, FullInv, HandlerInv, ChosenInv, Expected, Announced, Send, Goto
  <2>7. WaitInv'
    BY <1>10 DEF IInv, DataOK, FlagsOK, WaitInv, FullInv, ReadInv, HandlerInv, ChosenInv, HasPacket, Excuse, Quiet,
       ChosenBlocked, Blocked, Backlog, Expected, Announced, Send, Goto
  <2> QED
    BY <2>1, <2>2, <2>3, <2>4, <2>5, <2>6, <2>7 DEF IInv
<1>11. ASSUME wlan_thread_waiting_for_event PROVE IInv'
  <2>1. DataOK'
    BY <1>11 DEF IInv, DataOK, ChosenInv, HasPacket, Backlog, wlan_thread_waiting_for_event, Goto
  <2>2. FlagsOK'
    BY <1>11 DEF IInv, FlagsOK, wlan_thread_waiting_for_event, Goto
  <2>3. ChosenInv'
    BY <1>11 DEF IInv, DataOK, FlagsOK, ChosenInv, HasPacket, Backlog, Stuck, wlan_thread_waiting_for_event, Goto
  <2>4. HandlerInv'
    BY <1>11 DEF IInv, DataOK, FlagsOK, HandlerInv, wlan_thread_waiting_for_event, Goto
  <2>5. ReadInv'
    BY <1>11 DEF IInv, DataOK, FlagsOK, ReadInv, HandlerInv, Expected, Announced, wlan_thread_waiting_for_event, Goto
  <2>6. FullInv'
    BY <1>11 DEF IInv, DataOK, FlagsOK, FullInv, HandlerInv, ChosenInv, Expected, Announced,
       wlan_thread_waiting_for_event, Goto
  <2>7. WaitInv'
    BY <1>11 DEF IInv, DataOK, FlagsOK, WaitInv, FullInv, ReadInv, HandlerInv, ChosenInv, HasPacket, Excuse, Quiet,
       ChosenBlocked, Blocked, Backlog, Expected, Announced, wlan_thread_waiting_for_event, Goto
  <2> QED
    BY <2>1, <2>2, <2>3, <2>4, <2>5, <2>6, <2>7 DEF IInv
<1>12. ASSUME WakeUp PROVE IInv'
  <2>1. DataOK'
    BY <1>12 DEF IInv, DataOK, ChosenInv, HasPacket, Backlog, WakeUp, Goto
  <2>2. FlagsOK'
    BY <1>12 DEF IInv, FlagsOK, WakeUp, Goto
  <2>3. ChosenInv'
    BY <1>12 DEF IInv, DataOK, FlagsOK, ChosenInv, HasPacket, Backlog, Stuck, WakeUp, Goto
  <2>4. HandlerInv'
    BY <1>12 DEF IInv, DataOK, FlagsOK, HandlerInv, WakeUp, Goto
  <2>5. ReadInv'
    BY <1>12 DEF IInv, DataOK, FlagsOK, ReadInv, HandlerInv, Expected, Announced, WakeUp, Goto
  <2>6. FullInv'
    BY <1>12 DEF IInv, DataOK, FlagsOK, FullInv, HandlerInv, ChosenInv, Expected, Announced, WakeUp, Goto
  <2>7. WaitInv'
    BY <1>12 DEF IInv, DataOK, FlagsOK, WaitInv, FullInv, ReadInv, HandlerInv, ChosenInv, HasPacket, Excuse, Quiet,
       ChosenBlocked, Blocked, Backlog, Expected, Announced, WakeUp, Goto
  <2> QED
    BY <2>1, <2>2, <2>3, <2>4, <2>5, <2>6, <2>7 DEF IInv
<1>13. ASSUME ResetEvent PROVE IInv'
  <2>1. DataOK'
    BY <1>13 DEF IInv, DataOK, ChosenInv, HasPacket, Backlog, ResetEvent, Goto
  <2>2. FlagsOK'
    BY <1>13 DEF IInv, FlagsOK, ResetEvent, Goto
  <2>3. ChosenInv'
    BY <1>13 DEF IInv, DataOK, FlagsOK, ChosenInv, HasPacket, Backlog, Stuck, ResetEvent, Goto
  <2>4. HandlerInv'
    BY <1>13 DEF IInv, DataOK, FlagsOK, HandlerInv, ResetEvent, Goto
  <2>5. ReadInv'
    BY <1>13 DEF IInv, DataOK, FlagsOK, ReadInv, HandlerInv, Expected, Announced, ResetEvent, Goto
  <2>6. FullInv'
    BY <1>13 DEF IInv, DataOK, FlagsOK, FullInv, HandlerInv, ChosenInv, Expected, Announced, ResetEvent, Goto
  <2>7. WaitInv'
    BY <1>13 DEF IInv, DataOK, FlagsOK, WaitInv, FullInv, ReadInv, HandlerInv, ChosenInv, HasPacket, Excuse, Quiet,
       ChosenBlocked, Blocked, Backlog, Expected, Announced, ResetEvent, Goto
  <2> QED
    BY <2>1, <2>2, <2>3, <2>4, <2>5, <2>6, <2>7 DEF IInv
<1>14. ASSUME NEW b \in Buffers, DevFree(b) PROVE IInv'
  <2>1. DataOK'
    BY <1>14 DEF IInv, DataOK, ChosenInv, HasPacket, Backlog, DevFree
  <2>2. FlagsOK'
    BY <1>14 DEF IInv, FlagsOK, DevFree
  <2>3. ChosenInv'
    BY <1>14 DEF IInv, DataOK, FlagsOK, ChosenInv, HasPacket, Backlog, Stuck, DevFree
  <2>4. HandlerInv'
    BY <1>14 DEF IInv, DataOK, FlagsOK, HandlerInv, DevFree
  <2>5. ReadInv'
    BY <1>14 DEF IInv, DataOK, FlagsOK, ReadInv, HandlerInv, Expected, Announced, DevFree
  <2>6. FullInv'
    BY <1>14 DEF IInv, DataOK, FlagsOK, FullInv, HandlerInv, ChosenInv, Expected, Announced, DevFree
  <2>7. WaitInv'
    BY <1>14 DEF IInv, DataOK, FlagsOK, WaitInv, FullInv, ReadInv, HandlerInv, ChosenInv, HasPacket, Excuse, Quiet,
       ChosenBlocked, Blocked, Backlog, Expected, Announced, DevFree
  <2> QED
    BY <2>1, <2>2, <2>3, <2>4, <2>5, <2>6, <2>7 DEF IInv
<1>15. ASSUME IntAck PROVE IInv'
  <2>1. DataOK'
    BY <1>15 DEF IInv, DataOK, ChosenInv, HasPacket, Backlog, IntAck, handlerFrame
  <2>2. FlagsOK'
    BY <1>15 DEF IInv, FlagsOK, IntAck, handlerFrame
  <2>3. ChosenInv'
    BY <1>15 DEF IInv, DataOK, FlagsOK, ChosenInv, HasPacket, Backlog, Stuck, IntAck, handlerFrame
  <2>4. HandlerInv'
    BY <1>15 DEF IInv, DataOK, FlagsOK, HandlerInv, IntAck, handlerFrame
  <2>5. ReadInv'
    BY <1>15 DEF IInv, DataOK, FlagsOK, ReadInv, HandlerInv, Expected, Announced, IntAck, handlerFrame
  <2>6. FullInv'
    BY <1>15 DEF IInv, DataOK, FlagsOK, FullInv, HandlerInv, ChosenInv, Expected, Announced, IntAck, handlerFrame
  <2>7. WaitInv'
    BY <1>15 DEF IInv, DataOK, FlagsOK, WaitInv, FullInv, ReadInv, HandlerInv, ChosenInv, HasPacket, Excuse, Quiet,
       ChosenBlocked, Blocked, Backlog, Expected, Announced, IntAck, handlerFrame
  <2> QED
    BY <2>1, <2>2, <2>3, <2>4, <2>5, <2>6, <2>7 DEF IInv
<1>16. ASSUME IntRead PROVE IInv'
  <2>1. DataOK'
    <3>1. /\ UNCHANGED <<host_tx_queue, mgmt_queue, pc, q_num, counter, device_buf_status, status, dev>>
          /\ int_pc' \in {"idle", "mark"} /\ int_status' \in {dev, int_status}
      BY <1>16 DEF IntRead, handlerFrame
    <3> QED
      BY <3>1 DEF IInv, DataOK
  <2>2. FlagsOK'
    BY <1>16 DEF IInv, FlagsOK, IntRead, handlerFrame
  <2>3. ChosenInv'
    BY <1>16 DEF IInv, DataOK, FlagsOK, ChosenInv, HasPacket, Backlog, Stuck, IntRead, handlerFrame
  <2>4. HandlerInv'
    BY <1>16 DEF IInv, DataOK, FlagsOK, HandlerInv, IntRead, handlerFrame
  <2>5. ReadInv'
    BY <1>16 DEF IInv, DataOK, FlagsOK, ReadInv, HandlerInv, Expected, Announced, IntRead, handlerFrame
  <2>6. FullInv'
    BY <1>16 DEF IInv, DataOK, FlagsOK, FullInv, HandlerInv, ChosenInv, Expected, Announced, IntRead, handlerFrame
  <2>7. WaitInv'
    BY <1>16 DEF IInv, DataOK, FlagsOK, WaitInv, FullInv, ReadInv, HandlerInv, ChosenInv, HasPacket, Excuse, Quiet,
       ChosenBlocked, Blocked, Backlog, Expected, Announced, IntRead, handlerFrame
  <2> QED
    BY <2>1, <2>2, <2>3, <2>4, <2>5, <2>6, <2>7 DEF IInv
<1>17. ASSUME IntMark PROVE IInv'
  <2>1. DataOK'
    BY <1>17 DEF IInv, DataOK, ChosenInv, HasPacket, Backlog, IntMark, handlerFrame
  <2>2. FlagsOK'
    BY <1>17 DEF IInv, FlagsOK, IntMark, handlerFrame
  <2>3. ChosenInv'
    BY <1>17 DEF IInv, DataOK, FlagsOK, ChosenInv, HasPacket, Backlog, Stuck, IntMark, handlerFrame
  <2>4. HandlerInv'
    BY <1>17 DEF IInv, DataOK, FlagsOK, HandlerInv, IntMark, handlerFrame
  <2>5. ReadInv'
    BY <1>17 DEF IInv, DataOK, FlagsOK, ReadInv, HandlerInv, Expected, Announced, IntMark, handlerFrame
  <2>6. FullInv'
    BY <1>17 DEF IInv, DataOK, FlagsOK, FullInv, HandlerInv, ChosenInv, Expected, Announced, IntMark, handlerFrame
  <2>7. WaitInv'
    BY <1>17 DEF IInv, DataOK, FlagsOK, WaitInv, FullInv, ReadInv, HandlerInv, ChosenInv, HasPacket, Excuse, Quiet,
       ChosenBlocked, Blocked, Backlog, Expected, Announced, IntMark, handlerFrame
  <2> QED
    BY <2>1, <2>2, <2>3, <2>4, <2>5, <2>6, <2>7 DEF IInv
<1>18. ASSUME wlan_update_buf_status PROVE IInv'
  <2>1. DataOK'
    BY <1>18 DEF IInv, DataOK, ChosenInv, HasPacket, Backlog, wlan_update_buf_status, handlerFrame
  <2>2. FlagsOK'
    BY <1>18 DEF IInv, FlagsOK, wlan_update_buf_status, handlerFrame
  <2>3. ChosenInv'
    BY <1>18 DEF IInv, DataOK, FlagsOK, ChosenInv, HasPacket, Backlog, Stuck, wlan_update_buf_status, handlerFrame
  <2>4. HandlerInv'
    BY <1>18 DEF IInv, DataOK, FlagsOK, HandlerInv, wlan_update_buf_status, handlerFrame
  <2>5. ReadInv'
    BY <1>18 DEF IInv, DataOK, FlagsOK, ReadInv, HandlerInv, Expected, Announced, wlan_update_buf_status, handlerFrame
  <2>6. FullInv'
    BY <1>18 DEF IInv, DataOK, FlagsOK, FullInv, HandlerInv, ChosenInv, Expected, Announced,
       wlan_update_buf_status, handlerFrame
  <2>7. WaitInv'
    BY <1>18 DEF IInv, DataOK, FlagsOK, WaitInv, FullInv, ReadInv, HandlerInv, ChosenInv, HasPacket, Excuse, Quiet,
       ChosenBlocked, Blocked, Backlog, Expected, Announced, wlan_update_buf_status, handlerFrame
  <2> QED
    BY <2>1, <2>2, <2>3, <2>4, <2>5, <2>6, <2>7 DEF IInv
<1>19. ASSUME UNCHANGED vars PROVE IInv'
  <2>1. DataOK'
    BY <1>19 DEF IInv, DataOK, ChosenInv, HasPacket, Backlog, vars
  <2>2. FlagsOK'
    BY <1>19 DEF IInv, FlagsOK, vars
  <2>3. ChosenInv'
    BY <1>19 DEF IInv, DataOK, FlagsOK, ChosenInv, HasPacket, Backlog, Stuck, vars
  <2>4. HandlerInv'
    BY <1>19 DEF IInv, DataOK, FlagsOK, HandlerInv, vars
  <2>5. ReadInv'
    BY <1>19 DEF IInv, DataOK, FlagsOK, ReadInv, HandlerInv, Expected, Announced, vars
  <2>6. FullInv'
    BY <1>19 DEF IInv, DataOK, FlagsOK, FullInv, HandlerInv, ChosenInv, Expected, Announced, vars
  <2>7. WaitInv'
    BY <1>19 DEF IInv, DataOK, FlagsOK, WaitInv, FullInv, ReadInv, HandlerInv, ChosenInv, HasPacket, Excuse, Quiet,
       ChosenBlocked, Blocked, Backlog, Expected, Announced, vars
  <2> QED
    BY <2>1, <2>2, <2>3, <2>4, <2>5, <2>6, <2>7 DEF IInv
<1> QED
  BY <1>1, <1>2, <1>3, <1>4, <1>5, <1>6, <1>7, <1>8, <1>9, <1>10, <1>11, <1>12, <1>13, <1>14, <1>15,
     <1>16, <1>17, <1>18, <1>19 DEF Next, ThreadStep, HandlerStep

(***************************************************************************)
(* IInv is an invariant.                                                    *)
(***************************************************************************)
THEOREM IInvInvariant == Spec => []IInv
BY IInvInit, IInvStep, PTL DEF Spec

(***************************************************************************)
(* Queues, flags and program points keep their types; the poll counter, a   *)
(* uint8 in the code, is never decremented below zero, and no queue is      *)
(* dequeued from when it is empty.                                          *)
(***************************************************************************)
THEOREM TypeCorrect == Spec => []TypeOK
BY TypeSplit, IInvInvariant, PTL DEF IInv

(***************************************************************************)
(* sdio_scheduler_thread waits without a time limit only when every packet  *)
(* it could send has an event to come, but for failed reads and for what    *)
(* waits while the queue chosen last is blocked.                            *)
(***************************************************************************)
THEOREM NoPacketLeftBehind == Spec => []NothingLeftBehind
<1>1. IInv => NothingLeftBehind
  BY DEF IInv, WaitInv, Excuse, Quiet, ChosenBlocked, Expected, NothingLeftBehind
<1> QED
  BY <1>1, IInvInvariant, PTL
=============================================================================
