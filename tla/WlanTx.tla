------------------------------- MODULE WlanTx -------------------------------
(***************************************************************************)
(* The WLAN transmit thread (sdio_scheduler_thread with core_qos_processor) *)
(* against a device whose buffers fill up: when it looks at the queues,     *)
(* polls the buffer status register, gives up and waits, and what wakes it: *)
(* packets, management frames, beacons, and the SDIO interrupt that         *)
(* announces a change of the buffers.                                       *)
(*                                                                          *)
(* Which queue is chosen among those with packets is left open              *)
(* (WlanQueues!ChoiceHasWork), and so is who blocks and unblocks them.  The *)
(* thread has its transmit access (module TxAccess) and the device is not   *)
(* in power save (module WlanPs).                                           *)
(***************************************************************************)
EXTENDS TxQueues

CONSTANTS
  Queues,     \* the EDCA queues in use, a subset of 0 .. NUM_EDCA_QUEUES - 1
  PollEvery,  \* packets between two polls of the buffer status register
  MaxLen,     \* bound on the packets per queue
  MaxMgmt,    \* bound on the management frames queued at once
  Faults      \* may a read of the buffer status register fail?

ASSUME ConstantsAssumption ==
  /\ Queues \subseteq 0 .. NUM_EDCA_QUEUES - 1
  /\ PollEvery \in Nat \ {0} /\ MaxLen \in Nat /\ MaxMgmt \in Nat
  /\ Faults \in BOOLEAN

VARIABLES
  host_tx_queue, mgmt_queue,            \* packets per EDCA queue, in MGMT_SOFT_Q
  pc, q_num, counter, device_buf_status, status,   \* the thread and its locals
  sdio_scheduler_event, beacon_event,
  buf_status_updated, mgmt_buffer_full, buffer_full,
  sta_data_block, block_ap_queues,
  dev,                                  \* the buffers of the device that are full
  intr, int_pc, int_status,             \* interrupt: raised, handler, what it read
  missed                                \* history: the handler's last read failed

queueVars  == <<host_tx_queue, mgmt_queue>>
threadVars == <<pc, q_num, counter, device_buf_status, status>>
bufVars    == <<buf_status_updated, mgmt_buffer_full, buffer_full>>
blockVars  == <<sta_data_block, block_ap_queues>>
devVars    == <<dev, intr, int_pc, int_status, missed>>
vars       == <<queueVars, threadVars, sdio_scheduler_event, beacon_event, bufVars, blockVars, devVars>>

Buffers == {"mgmt", "data"}

Init ==
  /\ host_tx_queue = [q \in Queues |-> 0]
  /\ mgmt_queue = 0
  /\ pc = "top"
  /\ q_num = INVALID_QUEUE
  /\ counter = 0
  /\ device_buf_status = {}
  /\ status = "success"
  /\ sdio_scheduler_event = FALSE
  /\ beacon_event = FALSE
  /\ buf_status_updated = FALSE
  /\ mgmt_buffer_full = FALSE
  /\ buffer_full = FALSE
  /\ sta_data_block = TRUE
  /\ block_ap_queues = FALSE
  /\ dev = {}
  /\ intr = FALSE
  /\ int_pc = "idle"
  /\ int_status = {}
  /\ missed = FALSE

Backlog(q) == q \in Queues /\ host_tx_queue[q] > 0

-----------------------------------------------------------------------------
(***************************************************************************)
(* What others do.  core_queue_pkt is followed by onebox_schedule_pkt_for_tx *)
(* in core_xmit, onebox_send_mgmt_pkt and onebox_send_internal_mgmt_frame.  *)
(* A block or unblock (module WlanQueues) queues such a frame.              *)
(***************************************************************************)
schedule_pkt_for_tx == sdio_scheduler_event' = TRUE

QueueData(q) ==
  /\ host_tx_queue[q] < MaxLen
  /\ host_tx_queue' = [host_tx_queue EXCEPT ![q] = @ + 1]
  /\ schedule_pkt_for_tx
  /\ UNCHANGED <<mgmt_queue, threadVars, beacon_event, bufVars, blockVars, devVars>>

QueueMgmt(staBlock, apBlock) ==
  /\ mgmt_queue < MaxMgmt
  /\ mgmt_queue' = mgmt_queue + 1
  /\ sta_data_block' = staBlock
  /\ block_ap_queues' = apBlock
  /\ schedule_pkt_for_tx
  /\ UNCHANGED <<host_tx_queue, threadVars, beacon_event, bufVars, devVars>>

\* BEACON_EVENT_IND of the running access point.
BeaconEvent ==
  /\ ~block_ap_queues
  /\ beacon_event' = TRUE
  /\ schedule_pkt_for_tx
  /\ UNCHANGED <<queueVars, threadVars, bufVars, blockVars, devVars>>

-----------------------------------------------------------------------------
(***************************************************************************)
(* A round of the thread: load a beacon, then enter core_qos_processor with *)
(* its locals initialised.                                                  *)
(***************************************************************************)
Goto(to)  == pc' = to
LeaveLoop == pc' = "wait" /\ counter' = 0

sdio_scheduler_thread ==
  /\ pc = "top"
  /\ beacon_event' = FALSE
  /\ q_num' = INVALID_QUEUE
  /\ status' = "success"
  /\ Goto("select")
  /\ UNCHANGED <<queueVars, counter, device_buf_status, sdio_scheduler_event, bufVars, blockVars, devVars>>

(***************************************************************************)
(* core_determine_hal_queue: management frames first, then any queue that   *)
(* holds a packet.                                                          *)
(***************************************************************************)
core_determine_hal_queue ==
  \/ mgmt_queue > 0 /\ q_num' = MGMT_SOFT_Q
  \/ mgmt_queue = 0 /\ \E q \in Queues : Backlog(q) /\ q_num' = q
  \/ mgmt_queue = 0 /\ (\A q \in Queues : ~Backlog(q)) /\ q_num' = INVALID_QUEUE

Stuck(q) == q = INVALID_QUEUE \/ Blocked(q, sta_data_block, block_ap_queues)

(***************************************************************************)
(* The head of core_qos_processor's loop: leave it on a beacon event, with  *)
(* nothing to send or with the chosen queue blocked; poll the device's      *)
(* buffers if the interrupt handler asks for it or the counter has run out. *)
(***************************************************************************)
BreakForBeacon ==
  /\ pc = "select" /\ beacon_event
  /\ LeaveLoop
  /\ UNCHANGED <<queueVars, q_num, device_buf_status, status, sdio_scheduler_event, beacon_event,
                 bufVars, blockVars, devVars>>

Select ==
  /\ pc = "select" /\ ~beacon_event
  /\ core_determine_hal_queue
  /\ \/ /\ Stuck(q_num')
        /\ LeaveLoop
        /\ UNCHANGED buf_status_updated
     \/ /\ ~Stuck(q_num') /\ (buf_status_updated \/ counter = 0)
        /\ buf_status_updated' = FALSE
        /\ Goto("read")
        /\ UNCHANGED counter
     \/ /\ ~Stuck(q_num') /\ ~buf_status_updated /\ counter # 0
        /\ Goto("dequeue")
        /\ UNCHANGED <<buf_status_updated, counter>>
  /\ UNCHANGED <<queueVars, device_buf_status, status, sdio_scheduler_event, beacon_event,
                 mgmt_buffer_full, buffer_full, blockVars, devVars>>

ReadRegister ==
  /\ pc = "read"
  /\ \/ /\ device_buf_status' = dev
        /\ Goto("apply")
        /\ UNCHANGED <<counter, status>>
     \/ /\ Faults
        /\ status' = "failure"
        /\ LeaveLoop
        /\ UNCHANGED device_buf_status
  /\ UNCHANGED <<queueVars, q_num, sdio_scheduler_event, beacon_event, bufVars, blockVars, devVars>>

(***************************************************************************)
(* Mutant: the counter is set only when the buffers are less than half full. *)
(***************************************************************************)
Bug_ApplyStatus ==
  /\ pc = "apply"
  /\ mgmt_buffer_full' = ("mgmt" \in device_buf_status)
  /\ device_buf_status' = {}
  /\ \/ /\ "mgmt" \in device_buf_status
        /\ LeaveLoop
        /\ UNCHANGED buffer_full
     \/ /\ "mgmt" \notin device_buf_status
        /\ buffer_full' = ("data" \in device_buf_status)
        /\ counter' \in {counter, PollEvery}
        /\ Goto("dequeue")
  /\ UNCHANGED <<queueVars, q_num, status, sdio_scheduler_event, beacon_event, buf_status_updated,
                 blockVars, devVars>>

(***************************************************************************)
(* Apply what was read.  A full management buffer ends the loop before the  *)
(* data buffer is looked at.  Half full data buffers (left out of dev) are  *)
(* polled after every packet.                                               *)
(***************************************************************************)
ApplyStatus ==
  /\ pc = "apply"
  /\ mgmt_buffer_full' = ("mgmt" \in device_buf_status)
  /\ device_buf_status' = {}
  /\ \/ /\ "mgmt" \in device_buf_status
        /\ LeaveLoop
        /\ UNCHANGED buffer_full
     \/ /\ "mgmt" \notin device_buf_status
        /\ buffer_full' = ("data" \in device_buf_status)
        /\ counter' \in {1, PollEvery}
        /\ Goto("dequeue")
  /\ UNCHANGED <<queueVars, q_num, status, sdio_scheduler_event, beacon_event, buf_status_updated,
                 blockVars, devVars>>

BufferFull == IF q_num = MGMT_SOFT_Q THEN mgmt_buffer_full ELSE buffer_full

\* Take a packet unless its buffer is full.
Dequeue ==
  /\ pc = "dequeue"
  /\ \/ /\ BufferFull
        /\ LeaveLoop
        /\ UNCHANGED queueVars
     \/ /\ ~BufferFull
        /\ counter' = counter - 1
        /\ Goto("send")
        /\ IF q_num = MGMT_SOFT_Q
           THEN mgmt_queue' = mgmt_queue - 1 /\ UNCHANGED host_tx_queue
           ELSE host_tx_queue' = [host_tx_queue EXCEPT ![q_num] = @ - 1] /\ UNCHANGED mgmt_queue
  /\ UNCHANGED <<q_num, device_buf_status, status, sdio_scheduler_event, beacon_event, bufVars,
                 blockVars, devVars>>

\* Send it; the device's buffer may be full afterwards.
Send ==
  /\ pc = "send"
  /\ dev' \in {dev, dev \cup {IF q_num = MGMT_SOFT_Q THEN "mgmt" ELSE "data"}}
  /\ Goto("select")
  /\ UNCHANGED <<queueVars, q_num, counter, device_buf_status, status, sdio_scheduler_event,
                 beacon_event, bufVars, blockVars, intr, int_pc, int_status, missed>>

(***************************************************************************)
(* Mutant: the event is reset before the wait, after the queues were seen.  *)
(***************************************************************************)
Bug_wlan_thread_waiting_for_event ==
  /\ pc = "wait"
  /\ sdio_scheduler_event' = FALSE
  /\ Goto(IF beacon_event THEN "reset" ELSE IF buffer_full THEN "nap" ELSE "sleep")
  /\ UNCHANGED <<queueVars, q_num, counter, device_buf_status, status, beacon_event, bufVars,
                 blockVars, devVars>>

(***************************************************************************)
(* No wait on a beacon event, 2 ms with the data buffer full, else until    *)
(* the event; then the event is reset.                                      *)
(***************************************************************************)
wlan_thread_waiting_for_event ==
  /\ pc = "wait"
  /\ Goto(IF beacon_event THEN "reset" ELSE IF buffer_full THEN "nap" ELSE "sleep")
  /\ UNCHANGED <<queueVars, q_num, counter, device_buf_status, status, sdio_scheduler_event,
                 beacon_event, bufVars, blockVars, devVars>>

WakeUp ==
  /\ pc = "nap" \/ (pc = "sleep" /\ sdio_scheduler_event)
  /\ Goto("reset")
  /\ UNCHANGED <<queueVars, q_num, counter, device_buf_status, status, sdio_scheduler_event,
                 beacon_event, bufVars, blockVars, devVars>>

ResetEvent ==
  /\ pc = "reset"
  /\ sdio_scheduler_event' = FALSE
  /\ Goto("top")
  /\ UNCHANGED <<queueVars, q_num, counter, device_buf_status, status, beacon_event, bufVars,
                 blockVars, devVars>>

-----------------------------------------------------------------------------
(***************************************************************************)
(* The device (external) frees a buffer and raises BUFF_STATUS_UPDATE.      *)
(***************************************************************************)
DevFree(b) ==
  /\ b \in dev
  /\ dev' = dev \ {b}
  /\ intr' = TRUE
  /\ UNCHANGED <<queueVars, threadVars, sdio_scheduler_event, beacon_event, bufVars, blockVars,
                 int_pc, int_status, missed>>

(***************************************************************************)
(* interrupt_handler: acknowledge, then read the register, then pass it to  *)
(* wlan_update_buf_status, which asks for a poll before it sets the flags   *)
(* and the event.                                                           *)
(***************************************************************************)
handlerFrame == <<queueVars, threadVars, beacon_event, blockVars, dev>>

IntAck ==
  /\ int_pc = "idle" /\ intr
  /\ intr' = FALSE
  /\ int_pc' = "read"
  /\ UNCHANGED <<handlerFrame, int_status, missed, sdio_scheduler_event, bufVars>>

IntRead ==
  /\ int_pc = "read"
  /\ \/ int_status' = dev /\ int_pc' = "mark" /\ missed' = FALSE
     \/ Faults /\ int_pc' = "idle" /\ missed' = TRUE /\ UNCHANGED int_status
  /\ UNCHANGED <<handlerFrame, intr, sdio_scheduler_event, bufVars>>

IntMark ==
  /\ int_pc = "mark"
  /\ buf_status_updated' = TRUE
  /\ int_pc' = "flags"
  /\ UNCHANGED <<handlerFrame, intr, int_status, missed, sdio_scheduler_event, mgmt_buffer_full, buffer_full>>

(***************************************************************************)
(* Mutant: the thread is not told.                                          *)
(***************************************************************************)
Bug_wlan_update_buf_status ==
  /\ int_pc = "flags"
  /\ mgmt_buffer_full' = ("mgmt" \in int_status)
  /\ buffer_full' = ("data" \in int_status)
  /\ int_pc' = "idle"
  /\ int_status' = {}
  /\ UNCHANGED <<handlerFrame, intr, missed, sdio_scheduler_event, buf_status_updated>>

wlan_update_buf_status ==
  /\ int_pc = "flags"
  /\ mgmt_buffer_full' = ("mgmt" \in int_status)
  /\ buffer_full' = ("data" \in int_status)
  /\ sdio_scheduler_event' = TRUE
  /\ int_pc' = "idle"
  /\ int_status' = {}
  /\ UNCHANGED <<handlerFrame, intr, missed, buf_status_updated>>

-----------------------------------------------------------------------------
ThreadStep ==
  \/ sdio_scheduler_thread
  \/ BreakForBeacon
  \/ Select
  \/ ReadRegister
  \/ ApplyStatus
  \/ Dequeue
  \/ Send
  \/ wlan_thread_waiting_for_event
  \/ WakeUp
  \/ ResetEvent

HandlerStep == IntAck \/ IntRead \/ IntMark \/ wlan_update_buf_status

Next ==
  \/ \E q \in Queues : QueueData(q)
  \/ \E staBlock, apBlock \in BOOLEAN : QueueMgmt(staBlock, apBlock)
  \/ BeaconEvent
  \/ ThreadStep
  \/ HandlerStep
  \/ \E b \in Buffers : DevFree(b)

Spec == Init /\ [][Next]_vars

(***************************************************************************)
(* The kernel runs the thread and the interrupt handler; the firmware       *)
(* empties its buffers; a beacon comes every 100 ms or so, not every time   *)
(* the thread is about to choose a queue.                                   *)
(***************************************************************************)
FairSpec ==
  /\ Spec
  /\ WF_vars(ThreadStep) /\ SF_vars(Select)
  /\ WF_vars(HandlerStep)
  /\ \A b \in Buffers : WF_vars(DevFree(b))

-----------------------------------------------------------------------------
(***************************************************************************)
(* Queues, flags and program points keep their types; the poll counter, a   *)
(* uint8 in the code, is never decremented below zero.                      *)
(***************************************************************************)
TypeOK ==
  /\ host_tx_queue \in [Queues -> 0 .. MaxLen]
  /\ mgmt_queue \in 0 .. MaxMgmt
  /\ pc \in {"top", "select", "read", "apply", "dequeue", "send", "wait", "nap", "sleep", "reset"}
  /\ q_num \in Queues \cup {MGMT_SOFT_Q, INVALID_QUEUE}
  /\ counter \in 0 .. PollEvery
  /\ device_buf_status \subseteq Buffers /\ status \in {"success", "failure"}
  /\ sdio_scheduler_event \in BOOLEAN /\ beacon_event \in BOOLEAN
  /\ buf_status_updated \in BOOLEAN /\ mgmt_buffer_full \in BOOLEAN /\ buffer_full \in BOOLEAN
  /\ sta_data_block \in BOOLEAN /\ block_ap_queues \in BOOLEAN
  /\ dev \subseteq Buffers /\ intr \in BOOLEAN
  /\ int_pc \in {"idle", "read", "mark", "flags"} /\ int_status \subseteq Buffers /\ missed \in BOOLEAN

(***************************************************************************)
(* No packet is left behind by a thread that waits without a time limit     *)
(* (wlan_thread_waiting_for_event resets the event only before it looks at  *)
(* the queues again, and the interrupt is acknowledged before the register  *)
(* is read): with the event clear, the management buffer is full or its     *)
(* release is about to be announced, or a read failed, or no management     *)
(* frame is queued and either no packet is or the queue chosen last is      *)
(* blocked.  A round that found nothing to choose excuses no packet.        *)
(***************************************************************************)
Announced == intr \/ int_pc # "idle" \/ "mgmt" \in dev

NothingLeftBehind ==
  pc = "sleep" /\ ~sdio_scheduler_event /\ status = "success" /\ ~missed
  => \/ Announced
     \/ /\ mgmt_queue = 0
        /\ \/ \A q \in Queues : ~Backlog(q)
           \/ Blocked(q_num, sta_data_block, block_ap_queues)

(***************************************************************************)
(* A queued management frame leaves its queue in the end, whatever packets, *)
(* beacons, blocks and full buffers come in between, unless a read of the   *)
(* register fails: the loop then ends and nobody repeats the read.          *)
(***************************************************************************)
MgmtFrameSent == mgmt_queue > 0 ~> (mgmt_queue = 0 \/ status = "failure" \/ missed)
=============================================================================
