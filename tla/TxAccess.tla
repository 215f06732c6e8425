------------------------------ MODULE TxAccess ------------------------------
(***************************************************************************)
(* Transmit-access arbitration of the common HAL (onebox_common_pwr_mngr.c) *)
(* between the protocol transmit threads and the ultra-low-power sleep      *)
(* handshake of the firmware.                                               *)
(*                                                                          *)
(* Three kernel contexts run concurrently: the WLAN transmit thread         *)
(* (sdio_scheduler_thread / core_qos_processor), the coex transmit thread   *)
(* that serves Bluetooth and ZigBee (coex_transmit_thread /                 *)
(* coex_pkt_processor), and the receive worker that handles the firmware's  *)
(* ULP_SLEEP_NOTIFY frames (process_ulp_sleep_notify).  Every access to a   *)
(* field of driver_assets that another context may touch is a step of its   *)
(* own; only the bodies of short tx_access_lock sections are single steps.  *)
(*                                                                          *)
(* All modules are loaded here (drv_state is MODULE_ACTIVE for every member *)
(* of Techs, common_hal_fsm is COMMON_HAL_TX_ACESS); loading and unloading  *)
(* are the subject of module Assets.  GPIO_HANDSHAKE is not compiled in.    *)
(***************************************************************************)
EXTENDS Naturals, Sequences

CONSTANTS
  Techs,      \* the protocols whose modules are loaded, a subset of AllIds
  PsEnabled,  \* the protocols with power save on: default_ps_en, ps_params_def.ps_en
  MaxPkts,    \* bound on the packets queued per protocol
  Tokens,     \* the sleep tokens the firmware uses
  Faults      \* may the allocation or the write of the sleep ack fail?

WLAN_ID == 0
BT_ID   == 1
ZB_ID   == 2
MAX_IDS == 3
AllIds  == 0 .. MAX_IDS - 1

InvalidToken == "0xABCD"   \* what process_ulp_sleep_notify stores on sleep exit
NoAck        == "none"     \* no CONFIRM frame is on its way to the firmware

ASSUME TechsAssumption  == Techs \subseteq AllIds /\ Techs # {} /\ PsEnabled \subseteq Techs
ASSUME BoundAssumption  == MaxPkts \in Nat
ASSUME TokenAssumption  == InvalidToken \notin Tokens /\ NoAck \notin Tokens
ASSUME FaultsAssumption == Faults \in BOOLEAN

Threads   == {"wlan", "coex"}
Thread(p) == IF p = WLAN_ID THEN "wlan" ELSE "coex"

VARIABLES
  common_hal_tx_access, sleep_entry_recvd, ulp_sleep_ack_sent,
  ulp_sleep_token,
  tx_intention, tx_access, deregister_flags,  \* per protocol
  queue,            \* packets queued per protocol
  tx_event,         \* coex_tx_event and sdio_scheduler_event
  pc, cur,          \* per thread: program point and protocol being served
  rx_pc, rx_id,     \* receive worker: program point and loop index proto_id
  tx_access_lock,   \* held by the worker ("rx") across its wake-up loop, or "free"
  fw, fw_token,     \* firmware: "awake", "requested" (wants to sleep), "asleep"
  to_host,          \* ULP_SLEEP_NOTIFY frames in deferred_rx_queue
  to_fw             \* token of the CONFIRM frame on its way to the firmware

halVars    == <<common_hal_tx_access, sleep_entry_recvd, ulp_sleep_ack_sent>>
techVars   == <<tx_intention, tx_access, deregister_flags>>
threadVars == <<queue, tx_event, pc, cur>>
rxVars     == <<rx_pc, rx_id, tx_access_lock, ulp_sleep_token>>
fwVars     == <<fw, fw_token, to_host, to_fw>>
vars       == <<halVars, techVars, threadVars, rxVars, fwVars>>

PCs == {"wait_event", "pick", "check", "intend", "upd_request", "check_again",
        "set_flag", "wait", "recheck", "send", "xmit", "write",
        "drop_intention", "drop_access", "upd_release"}

Notify == [kind : {"entry"}, token : Tokens] \cup [kind : {"exit"}, token : {InvalidToken}]

(***************************************************************************)
(* The state once all card-ready frames are in and the device is awake.     *)
(***************************************************************************)
Init ==
  /\ common_hal_tx_access = TRUE
  /\ sleep_entry_recvd = FALSE
  /\ ulp_sleep_ack_sent = FALSE
  /\ ulp_sleep_token = InvalidToken
  /\ tx_intention = [p \in Techs |-> FALSE]
  /\ tx_access = [p \in Techs |-> FALSE]
  /\ deregister_flags = [p \in Techs |-> FALSE]
  /\ queue = [p \in Techs |-> 0]
  /\ tx_event = [t \in Threads |-> FALSE]
  /\ pc = [t \in Threads |-> "wait_event"]
  /\ cur \in {c \in [Threads -> AllIds] : c["wlan"] = WLAN_ID /\ c["coex"] = BT_ID}
  /\ rx_pc = "idle"
  /\ rx_id = 0
  /\ tx_access_lock = "free"
  /\ fw = "awake"
  /\ fw_token = InvalidToken
  /\ to_host = <<>>
  /\ to_fw = NoAck

(***************************************************************************)
(* Does an active protocol intend to transmit?                              *)
(***************************************************************************)
protocol_tx_access == \E p \in Techs : tx_intention[p]

(***************************************************************************)
(* The frame is allocated before ulp_sleep_ack_sent is set, and the flag is *)
(* set before the write: a failed allocation leaves it clear, a failed      *)
(* write leaves it set.                                                     *)
(***************************************************************************)
send_ulp_sleep_ack ==
  \/ /\ ulp_sleep_ack_sent' = TRUE
     /\ to_fw' = ulp_sleep_token
  \/ /\ Faults
     /\ \/ UNCHANGED ulp_sleep_ack_sent
        \/ ulp_sleep_ack_sent' = TRUE
     /\ UNCHANGED to_fw

Goto(t, to) == pc' = [pc EXCEPT ![t] = to]

(***************************************************************************)
(* A protocol stack hands over a packet: send_pkt_to_coex for BT_Q and      *)
(* ZIGB_Q, the host queues and schedule_pkt_for_tx for WLAN.                *)
(***************************************************************************)
Enqueue(p) ==
  /\ queue[p] < MaxPkts
  /\ queue' = [queue EXCEPT ![p] = @ + 1]
  /\ tx_event' = [tx_event EXCEPT ![Thread(p)] = TRUE]
  /\ UNCHANGED <<halVars, techVars, pc, cur, rxVars, fwVars>>

(***************************************************************************)
(* Wait for the thread's event and reset it.  The WLAN thread also runs     *)
(* without an event: on a beacon event, and after 2 ms when the device      *)
(* buffer is full.  It asks for access at once (core_qos_processor), the    *)
(* coex thread first picks a queue.                                         *)
(***************************************************************************)
WaitEvent(t) ==
  /\ pc[t] = "wait_event"
  /\ tx_event[t] \/ (t = "wlan" /\ WLAN_ID \in Techs)
  /\ tx_event' = [tx_event EXCEPT ![t] = FALSE]
  /\ Goto(t, IF t = "wlan" THEN "check" ELSE "pick")
  /\ UNCHANGED <<halVars, techVars, queue, cur, rxVars, fwVars>>

(***************************************************************************)
(* coex_get_queue_num: Bluetooth before ZigBee.  VIP_Q and COEX_Q, looked   *)
(* at before them, and WLAN_Q, looked at after them, hold no packet that    *)
(* waits for a protocol's access; they are left out.                        *)
(***************************************************************************)
CoexTechs      == Techs \ {WLAN_ID}
Backlogged     == {p \in CoexTechs : queue[p] > 0}
First(S)       == CHOOSE p \in S : \A r \in S : p <= r
ReleaseOrder   == CoexTechs \cap PsEnabled

(***************************************************************************)
(* The coex thread serves the first non-empty queue; with none left it      *)
(* gives up the access of the protocols that have power save enabled.       *)
(***************************************************************************)
Pick ==
  /\ pc["coex"] = "pick"
  /\ \/ /\ Backlogged # {}
        /\ cur' = [cur EXCEPT !["coex"] = First(Backlogged)]
        /\ Goto("coex", "check")
     \/ /\ Backlogged = {}
        /\ ReleaseOrder # {}
        /\ cur' = [cur EXCEPT !["coex"] = First(ReleaseOrder)]
        /\ Goto("coex", "drop_intention")
     \/ /\ Backlogged = {}
        /\ ReleaseOrder = {}
        /\ Goto("coex", "wait_event")
        /\ UNCHANGED cur
  /\ UNCHANGED <<halVars, techVars, queue, tx_event, rxVars, fwVars>>

Check(t) ==
  /\ pc[t] = "check"
  /\ Goto(t, IF tx_access[cur[t]] THEN "send" ELSE "intend")
  /\ UNCHANGED <<halVars, techVars, queue, tx_event, cur, rxVars, fwVars>>

Intend(t) ==
  /\ pc[t] = "intend"
  /\ tx_intention' = [tx_intention EXCEPT ![cur[t]] = TRUE]
  /\ Goto(t, "upd_request")
  /\ UNCHANGED <<halVars, tx_access, deregister_flags, queue, tx_event, cur, rxVars, fwVars>>

(***************************************************************************)
(* update_tx_status with tx_intention set: access is granted if the common  *)
(* HAL has it.                                                              *)
(***************************************************************************)
UpdateRequest(t) ==
  /\ pc[t] = "upd_request"
  /\ tx_access_lock = "free"
  /\ tx_access' = [tx_access EXCEPT ![cur[t]] = @ \/ common_hal_tx_access]
  /\ Goto(t, "check_again")
  /\ UNCHANGED <<halVars, tx_intention, deregister_flags, queue, tx_event, cur, rxVars, fwVars>>

CheckAgain(t) ==
  /\ pc[t] = "check_again"
  /\ Goto(t, IF tx_access[cur[t]] THEN "send" ELSE "set_flag")
  /\ UNCHANGED <<halVars, techVars, queue, tx_event, cur, rxVars, fwVars>>

SetFlag(t) ==
  /\ pc[t] = "set_flag"
  /\ deregister_flags' = [deregister_flags EXCEPT ![cur[t]] = TRUE]
  /\ Goto(t, "wait")
  /\ UNCHANGED <<halVars, tx_intention, tx_access, queue, tx_event, cur, rxVars, fwVars>>

(***************************************************************************)
(* wait_event_timeout on deregister_flags == 0.  Only WLAN looks at         *)
(* tx_access again after the wake-up.                                       *)
(***************************************************************************)
Woken(t) ==
  /\ pc[t] = "wait"
  /\ ~deregister_flags[cur[t]]
  /\ Goto(t, IF t = "wlan" THEN "recheck" ELSE "send")
  /\ UNCHANGED <<halVars, techVars, queue, tx_event, cur, rxVars, fwVars>>

(***************************************************************************)
(* The wait times out: the processor returns with tx_intention and          *)
(* deregister_flags still set and the packets still queued.                 *)
(***************************************************************************)
Timeout(t) ==
  /\ pc[t] = "wait"
  /\ deregister_flags[cur[t]]
  /\ Goto(t, "wait_event")
  /\ UNCHANGED <<halVars, techVars, queue, tx_event, cur, rxVars, fwVars>>

Recheck ==
  /\ pc["wlan"] = "recheck"
  /\ Goto("wlan", IF tx_access[WLAN_ID] THEN "send" ELSE "wait_event")
  /\ UNCHANGED <<halVars, techVars, queue, tx_event, cur, rxVars, fwVars>>

(***************************************************************************)
(* Dequeue the next packet and take transmit_lock, which is held in "xmit"  *)
(* and "write".  Under it the WLAN path checks both access flags ("xmit"),  *)
(* the coex path checks neither.                                            *)
(***************************************************************************)
TransmitLockFree == \A t \in Threads : pc[t] \notin {"xmit", "write"}

Send(t) ==
  /\ pc[t] = "send"
  /\ queue[cur[t]] > 0
  /\ TransmitLockFree
  /\ queue' = [queue EXCEPT ![cur[t]] = @ - 1]
  /\ Goto(t, IF t = "wlan" THEN "xmit" ELSE "write")
  /\ UNCHANGED <<halVars, techVars, tx_event, cur, rxVars, fwVars>>

(***************************************************************************)
(* Mutant: only the protocol's own access is tested.                        *)
(***************************************************************************)
Bug_WlanXmit ==
  /\ pc["wlan"] = "xmit"
  /\ Goto("wlan", IF tx_access[WLAN_ID] THEN "write" ELSE "send")
  /\ UNCHANGED <<halVars, techVars, queue, tx_event, cur, rxVars, fwVars>>

(***************************************************************************)
(* send_pkt_to_coex for WLAN_Q: without access the packet is dropped, and   *)
(* the caller is told SUCCESS.                                              *)
(***************************************************************************)
WlanXmit ==
  /\ pc["wlan"] = "xmit"
  /\ Goto("wlan", IF tx_access[WLAN_ID] /\ common_hal_tx_access THEN "write" ELSE "send")
  /\ UNCHANGED <<halVars, techVars, queue, tx_event, cur, rxVars, fwVars>>

(***************************************************************************)
(* onebox_host_intf_write_pkt: the frame goes out on the bus.               *)
(***************************************************************************)
Write(t) ==
  /\ pc[t] = "write"
  /\ Goto(t, IF t = "wlan" THEN "send" ELSE "pick")
  /\ UNCHANGED <<halVars, techVars, queue, tx_event, cur, rxVars, fwVars>>

(***************************************************************************)
(* The loop of core_qos_processor ends: no packet is left, or the loop is   *)
(* left early (beacon event, blocked queues, device buffer full).  With     *)
(* power save enabled and a station vap found the access is given up; a     *)
(* beacon event in the first round leaves before the vap is looked up.      *)
(***************************************************************************)
WlanDone ==
  /\ pc["wlan"] = "send"
  /\ \/ WLAN_ID \in PsEnabled /\ Goto("wlan", "drop_intention")
     \/ Goto("wlan", "wait_event")
  /\ UNCHANGED <<halVars, techVars, queue, tx_event, cur, rxVars, fwVars>>

DropIntention(t) ==
  /\ pc[t] = "drop_intention"
  /\ tx_intention' = [tx_intention EXCEPT ![cur[t]] = FALSE]
  /\ Goto(t, "drop_access")
  /\ UNCHANGED <<halVars, tx_access, deregister_flags, queue, tx_event, cur, rxVars, fwVars>>

DropAccess(t) ==
  /\ pc[t] = "drop_access"
  /\ tx_access' = [tx_access EXCEPT ![cur[t]] = FALSE]
  /\ Goto(t, "upd_release")
  /\ UNCHANGED <<halVars, tx_intention, deregister_flags, queue, tx_event, cur, rxVars, fwVars>>

(***************************************************************************)
(* Mutants of AnswerOpenRequest: the answered request is answered again, is *)
(* not answered at all, and is answered without withdrawing the access.     *)
(***************************************************************************)
Bug_AnswerTwice ==
  IF sleep_entry_recvd /\ ~protocol_tx_access
  THEN common_hal_tx_access' = FALSE /\ send_ulp_sleep_ack
  ELSE UNCHANGED <<common_hal_tx_access, ulp_sleep_ack_sent, to_fw>>

Bug_AnswerNever == UNCHANGED <<common_hal_tx_access, ulp_sleep_ack_sent, to_fw>>

Bug_AnswerKeepsAccess ==
  IF sleep_entry_recvd /\ ~ulp_sleep_ack_sent /\ ~protocol_tx_access
  THEN UNCHANGED common_hal_tx_access /\ send_ulp_sleep_ack
  ELSE UNCHANGED <<common_hal_tx_access, ulp_sleep_ack_sent, to_fw>>

(***************************************************************************)
(* update_tx_status with tx_intention clear: the last protocol to give up   *)
(* its intention answers a sleep request that is still open.                *)
(***************************************************************************)
AnswerOpenRequest ==
  IF sleep_entry_recvd /\ ~ulp_sleep_ack_sent /\ ~protocol_tx_access
  THEN common_hal_tx_access' = FALSE /\ send_ulp_sleep_ack
  ELSE UNCHANGED <<common_hal_tx_access, ulp_sleep_ack_sent, to_fw>>

UpdateRelease(t) ==
  /\ pc[t] = "upd_release"
  /\ tx_access_lock = "free"
  /\ AnswerOpenRequest
  /\ LET rest == {p \in ReleaseOrder : p > cur[t]}
     IN  IF t = "coex" /\ rest # {}
         THEN /\ cur' = [cur EXCEPT ![t] = First(rest)]
              /\ Goto(t, "drop_intention")
         ELSE Goto(t, "wait_event") /\ UNCHANGED cur
  /\ UNCHANGED <<sleep_entry_recvd, techVars, queue, tx_event, rxVars, fw, fw_token, to_host>>

(***************************************************************************)
(* The receive worker takes a ULP_SLEEP_NOTIFY frame and stores the token,  *)
(* before it takes tx_access_lock.                                          *)
(***************************************************************************)
process_ulp_sleep_notify ==
  /\ rx_pc = "idle"
  /\ to_host # <<>>
  /\ to_host' = Tail(to_host)
  /\ ulp_sleep_token' = Head(to_host).token
  /\ rx_pc' = Head(to_host).kind
  /\ UNCHANGED <<halVars, techVars, threadVars, rx_id, tx_access_lock, fw, fw_token, to_fw>>

(***************************************************************************)
(* sleep_entry_recvd: acknowledge if no protocol intends to transmit, else  *)
(* keep the access and wake the waiters, the lock held all along.           *)
(***************************************************************************)
SleepEntryRecvd ==
  /\ rx_pc = "entry"
  /\ tx_access_lock = "free"
  /\ sleep_entry_recvd' = TRUE
  /\ \/ /\ ~protocol_tx_access
        /\ common_hal_tx_access' = FALSE
        /\ send_ulp_sleep_ack
        /\ rx_pc' = "idle"
        /\ UNCHANGED <<rx_id, tx_access_lock>>
     \/ /\ protocol_tx_access
        /\ common_hal_tx_access' = TRUE
        /\ ulp_sleep_ack_sent' = FALSE
        /\ tx_access_lock' = "rx"
        /\ rx_pc' = "wake"
        /\ rx_id' = 0
        /\ UNCHANGED to_fw
  /\ UNCHANGED <<techVars, threadVars, ulp_sleep_token, fw, fw_token, to_host>>

(***************************************************************************)
(* Mutant: the exit frame resets the handshake, not the access.             *)
(***************************************************************************)
Bug_SleepExitRecvd ==
  /\ rx_pc = "exit"
  /\ tx_access_lock = "free"
  /\ sleep_entry_recvd' = FALSE
  /\ ulp_sleep_ack_sent' = FALSE
  /\ rx_pc' = "wake"
  /\ rx_id' = 0
  /\ UNCHANGED <<common_hal_tx_access, techVars, threadVars, tx_access_lock, ulp_sleep_token, fwVars>>

(***************************************************************************)
(* sleep_exit_recvd: the flags change under the lock, the waiters are woken *)
(* after its release.                                                       *)
(***************************************************************************)
SleepExitRecvd ==
  /\ rx_pc = "exit"
  /\ tx_access_lock = "free"
  /\ sleep_entry_recvd' = FALSE
  /\ common_hal_tx_access' = TRUE
  /\ ulp_sleep_ack_sent' = FALSE
  /\ rx_pc' = "wake"
  /\ rx_id' = 0
  /\ UNCHANGED <<techVars, threadVars, tx_access_lock, ulp_sleep_token, fwVars>>

(***************************************************************************)
(* Mutant: the loop runs one round too far.                                 *)
(***************************************************************************)
Bug_WakeNext ==
  /\ rx_pc = "wake"
  /\ rx_id <= MAX_IDS
  /\ IF rx_id \in Techs /\ deregister_flags[rx_id]
     THEN /\ deregister_flags' = [deregister_flags EXCEPT ![rx_id] = FALSE]
          /\ rx_pc' = "grant"
          /\ UNCHANGED rx_id
     ELSE /\ rx_id' = rx_id + 1
          /\ UNCHANGED <<deregister_flags, rx_pc>>
  /\ UNCHANGED <<halVars, tx_intention, tx_access, threadVars, tx_access_lock, ulp_sleep_token, fwVars>>

(***************************************************************************)
(* One round of the wake-up loop: clear the waiter's flag, then grant the   *)
(* access.  The waiter may run in between.                                  *)
(***************************************************************************)
WakeNext ==
  /\ rx_pc = "wake"
  /\ rx_id < MAX_IDS
  /\ IF rx_id \in Techs /\ deregister_flags[rx_id]
     THEN /\ deregister_flags' = [deregister_flags EXCEPT ![rx_id] = FALSE]
          /\ rx_pc' = "grant"
          /\ UNCHANGED rx_id
     ELSE /\ rx_id' = rx_id + 1
          /\ UNCHANGED <<deregister_flags, rx_pc>>
  /\ UNCHANGED <<halVars, tx_intention, tx_access, threadVars, tx_access_lock, ulp_sleep_token, fwVars>>

WakeGrant ==
  /\ rx_pc = "grant"
  /\ tx_access' = [tx_access EXCEPT ![rx_id] = TRUE]
  /\ rx_id' = rx_id + 1
  /\ rx_pc' = "wake"
  /\ UNCHANGED <<halVars, tx_intention, deregister_flags, threadVars, tx_access_lock, ulp_sleep_token, fwVars>>

WakeDone ==
  /\ rx_pc = "wake"
  /\ rx_id = MAX_IDS
  /\ rx_pc' = "idle"
  /\ tx_access_lock' = "free"
  /\ UNCHANGED <<halVars, techVars, threadVars, rx_id, ulp_sleep_token, fwVars>>

(***************************************************************************)
(* The firmware (external): it asks for permission to sleep, sleeps once    *)
(* the CONFIRM frame with its token arrives, and announces that it is back. *)
(***************************************************************************)
FwRequestSleep(tok) ==
  /\ fw = "awake"
  /\ fw' = "requested"
  /\ fw_token' = tok
  /\ to_host' = Append(to_host, [kind |-> "entry", token |-> tok])
  /\ UNCHANGED <<halVars, techVars, threadVars, rxVars, to_fw>>

FwSleep ==
  /\ fw = "requested"
  /\ to_fw = fw_token
  /\ fw' = "asleep"
  /\ to_fw' = NoAck
  /\ UNCHANGED <<halVars, techVars, threadVars, rxVars, fw_token, to_host>>

FwWake ==
  /\ fw = "asleep"
  /\ fw' = "awake"
  /\ to_host' = Append(to_host, [kind |-> "exit", token |-> InvalidToken])
  /\ UNCHANGED <<halVars, techVars, threadVars, rxVars, fw_token, to_fw>>

(***************************************************************************)
(* The specification.                                                       *)
(***************************************************************************)
ThreadStep(t) ==
  \/ WaitEvent(t)
  \/ Check(t)
  \/ Intend(t)
  \/ UpdateRequest(t)
  \/ CheckAgain(t)
  \/ SetFlag(t)
  \/ Woken(t)
  \/ Timeout(t)
  \/ Send(t)
  \/ Write(t)
  \/ DropIntention(t)
  \/ DropAccess(t)
  \/ UpdateRelease(t)

RxStep ==
  \/ process_ulp_sleep_notify
  \/ SleepEntryRecvd
  \/ SleepExitRecvd
  \/ WakeNext
  \/ WakeGrant
  \/ WakeDone

FwStep ==
  \/ \E tok \in Tokens : FwRequestSleep(tok)
  \/ FwSleep
  \/ FwWake

Next ==
  \/ \E p \in Techs : Enqueue(p)
  \/ \E t \in Threads : ThreadStep(t)
  \/ Pick
  \/ Recheck
  \/ WlanXmit
  \/ WlanDone
  \/ RxStep
  \/ FwStep

Spec == Init /\ [][Next]_vars

(***************************************************************************)
(* Fairness.  The threads and the worker are kernel contexts that block     *)
(* only on their event, on a lock or on a timed wait.  An idle thread runs  *)
(* again only if its event is set: wlan_thread_waiting_for_event waits      *)
(* EVENT_WAIT_FOREVER, so its wake-ups for a beacon or a full buffer may    *)
(* happen and may not.  The firmware, if it is asked to, goes to sleep and  *)
(* comes back.                                                              *)
(***************************************************************************)
Running(t) == ThreadStep(t) /\ (pc[t] = "wait_event" => tx_event[t])

Fairness ==
  /\ \A t \in Threads : WF_vars(Running(t))
  /\ WF_vars(Pick \/ Recheck \/ WlanXmit)
  /\ WF_vars(WlanDone /\ queue[WLAN_ID] = 0)
  /\ WF_vars(RxStep)
  /\ WF_vars(FwSleep \/ FwWake)

FairSpec == Spec /\ Fairness

-----------------------------------------------------------------------------
(***************************************************************************)
(* The fields of driver_assets, the program points and the frames in        *)
(* flight keep their types; the wake-up loops stay within techs[MAX_IDS].   *)
(***************************************************************************)
TypeOK ==
  /\ common_hal_tx_access \in BOOLEAN
  /\ sleep_entry_recvd \in BOOLEAN
  /\ ulp_sleep_ack_sent \in BOOLEAN
  /\ ulp_sleep_token \in Tokens \cup {InvalidToken}
  /\ tx_intention \in [Techs -> BOOLEAN]
  /\ tx_access \in [Techs -> BOOLEAN]
  /\ deregister_flags \in [Techs -> BOOLEAN]
  /\ queue \in [Techs -> 0 .. MaxPkts]
  /\ tx_event \in [Threads -> BOOLEAN]
  /\ pc \in [Threads -> PCs]
  /\ cur \in [Threads -> AllIds]
  /\ rx_pc \in {"idle", "entry", "exit", "wake", "grant"}
  /\ rx_id \in 0 .. MAX_IDS
  /\ tx_access_lock \in {"free", "rx"}
  /\ fw \in {"awake", "requested", "asleep"}
  /\ fw_token \in Tokens \cup {InvalidToken}
  /\ to_host \in Seq(Notify)
  /\ to_fw \in Tokens \cup {NoAck}

AckInFlight == to_fw # NoAck

(***************************************************************************)
(* From the moment the sleep ack is written until the driver has handled    *)
(* the firmware's sleep-exit frame, common_hal_tx_access is clear, so       *)
(* update_tx_status grants no access to a device that sleeps or may go to   *)
(* sleep at any moment.                                                     *)
(***************************************************************************)
AsleepMeansNoAccess ==
  fw = "asleep" \/ AckInFlight => ~common_hal_tx_access /\ ulp_sleep_ack_sent

(***************************************************************************)
(* The two places that answer a sleep request, sleep_entry_recvd and        *)
(* update_tx_status, answer it at most once between them, with the token of *)
(* that very request and never with the 0xABCD that sleep exit leaves       *)
(* behind (the "error" of send_ulp_sleep_ack).                              *)
(***************************************************************************)
AckAnswersRequest ==
  AckInFlight => fw = "requested" /\ to_fw = fw_token

(***************************************************************************)
(* send_pkt_to_coex tests the access flags without tx_access_lock.  It is   *)
(* still safe for a WLAN packet whose thread has announced its intention:   *)
(* the device cannot be put to sleep between the test and the write.        *)
(***************************************************************************)
RegisteredWlanWriteIsAwake ==
  pc["wlan"] = "write" /\ tx_intention[WLAN_ID] => fw # "asleep" /\ ~AckInFlight

(***************************************************************************)
(* An ack that could not be allocated or written is never repeated: the     *)
(* firmware waits for it, the access is withdrawn and stays so.             *)
(***************************************************************************)
AckLost ==
  /\ fw = "requested" /\ ~AckInFlight /\ ~common_hal_tx_access
  /\ to_host = <<>> /\ rx_pc = "idle"

(***************************************************************************)
(* A sleep request is not forgotten between sleep_entry_recvd and the       *)
(* release in update_tx_status: once its frame is handled and no protocol   *)
(* intends to transmit, the ack is on its way or a thread is about to run   *)
(* update_tx_status, or the ack was lost.                                   *)
(***************************************************************************)
RequestNotForgotten ==
  /\ fw = "requested" /\ ~AckInFlight /\ ~AckLost
  /\ to_host = <<>> /\ rx_pc = "idle"
  /\ ~protocol_tx_access
  => \E t \in Threads : pc[t] \in {"drop_access", "upd_release"}

(***************************************************************************)
(* The phases of the sleep handshake: which frames are under way, what the  *)
(* receive worker is doing and what the flags of driver_assets say go       *)
(* together as listed here, whatever the transmit threads do meanwhile.     *)
(***************************************************************************)
Flags(entry, acked, access) ==
  /\ sleep_entry_recvd = entry
  /\ ulp_sleep_ack_sent = acked
  /\ common_hal_tx_access = access

ExitFrame  == [kind |-> "exit", token |-> InvalidToken]
EntryFrame == [kind |-> "entry", token |-> fw_token]
NotInFrame == rx_pc \in {"idle", "wake", "grant"}

AwakeQuiet ==
  /\ fw = "awake" /\ ~AckInFlight /\ Flags(FALSE, FALSE, TRUE)
  /\ to_host = <<>> /\ NotInFrame

AwakeExit ==
  /\ fw = "awake" /\ ~AckInFlight /\ Flags(TRUE, TRUE, FALSE)
  /\ \/ to_host = <<ExitFrame>> /\ rx_pc = "idle"
     \/ to_host = <<>> /\ rx_pc = "exit"

RequestedBeforeExit ==
  /\ fw = "requested" /\ ~AckInFlight /\ Flags(TRUE, TRUE, FALSE)
  /\ \/ to_host = <<ExitFrame, EntryFrame>> /\ rx_pc = "idle"
     \/ to_host = <<EntryFrame>> /\ rx_pc = "exit"

RequestedEntry ==
  /\ fw = "requested" /\ ~AckInFlight /\ Flags(FALSE, FALSE, TRUE)
  /\ \/ to_host = <<EntryFrame>> /\ NotInFrame
     \/ to_host = <<>> /\ rx_pc = "entry" /\ ulp_sleep_token = fw_token

RequestOpen ==
  /\ fw = "requested" /\ ~AckInFlight /\ to_host = <<>> /\ ulp_sleep_token = fw_token
  /\ sleep_entry_recvd /\ ~ulp_sleep_ack_sent
  /\ common_hal_tx_access \/ Faults
  /\ rx_pc = "idle" \/ (rx_pc \in {"wake", "grant"} /\ tx_access_lock = "rx")

RequestAnswered ==
  /\ fw = "requested" /\ to_host = <<>> /\ rx_pc = "idle"
  /\ Flags(TRUE, TRUE, FALSE)
  /\ to_fw = fw_token \/ (Faults /\ ~AckInFlight)

Asleep ==
  /\ fw = "asleep" /\ ~AckInFlight /\ Flags(TRUE, TRUE, FALSE)
  /\ to_host = <<>> /\ rx_pc = "idle"

HandshakePhases ==
  \/ AwakeQuiet
  \/ AwakeExit
  \/ RequestedBeforeExit
  \/ RequestedEntry
  \/ RequestOpen
  \/ RequestAnswered
  \/ Asleep

(***************************************************************************)
(* The inductive invariant: the phases, and what the transmit threads and   *)
(* the wake-up loop contribute to them.                                     *)
(***************************************************************************)
ThreadInv ==
  /\ cur["wlan"] = WLAN_ID /\ cur["coex"] # WLAN_ID
  /\ tx_event["wlan"] \/ pc["wlan"] # "wait_event" => WLAN_ID \in Techs
  /\ pc["wlan"] = "write" /\ tx_intention[WLAN_ID] => common_hal_tx_access

GrantInv == rx_pc = "grant" => rx_id \in Techs

OpenRequestInv ==
  common_hal_tx_access /\ sleep_entry_recvd /\ ~ulp_sleep_ack_sent /\ ~protocol_tx_access
  => \E t \in Threads : pc[t] \in {"drop_access", "upd_release"}

IInv ==
  /\ TypeOK
  /\ fw = "requested" => fw_token \in Tokens
  /\ HandshakePhases
  /\ ThreadInv
  /\ GrantInv
  /\ OpenRequestInv

(***************************************************************************)
(* Refinement: seen from outside, the flags of driver_assets and the frames *)
(* in flight follow the abstract handshake of SleepHandshake.  In           *)
(* particular the withdrawal of common_hal_tx_access and the ack are one    *)
(* step although two contexts may take it, and sleep_exit_recvd never       *)
(* restores the access of a device that was given a new permission.         *)
(***************************************************************************)
Handshake == INSTANCE SleepHandshake
  WITH device <- fw, access <- common_hal_tx_access, ack <- AckInFlight

ImplementsHandshake == Handshake!Spec

(***************************************************************************)
(* Liveness: a sleep request is answered unless some protocol intends to    *)
(* transmit or the ack is lost.                                             *)
(***************************************************************************)
RequestServed == fw = "requested" ~> fw = "asleep" \/ protocol_tx_access \/ AckLost

(***************************************************************************)
(* Liveness: access withdrawn for a sleep comes back after it, so no        *)
(* protocol is locked out for good, unless the ack is lost.                 *)
(***************************************************************************)
AccessComesBack == ~common_hal_tx_access ~> common_hal_tx_access \/ AckLost

(***************************************************************************)
(* What the code says of itself, and does not keep.                         *)
(*                                                                          *)
(* onebox_common_tx.c:84-91 treats a WLAN packet that reaches the bus       *)
(* without access as a bug (dump_stack): core_qos_processor has obtained    *)
(* the access before it dequeues.                                           *)
(***************************************************************************)
NoXmitWithoutAccess ==
  pc["wlan"] = "xmit" => tx_access[WLAN_ID] /\ common_hal_tx_access
=============================================================================
