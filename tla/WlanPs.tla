------------------------------- MODULE WlanPs -------------------------------
(***************************************************************************)
(* The 802.11 power-save state machine of the station interface             *)
(* (onebox_ps.c): PS_STATE and the fields of drv_params, driven by the user *)
(* (PS_REQUEST ioctl), the connection state, the data load, the monitoring  *)
(* timer, waiting management frames, and the device's confirms.             *)
(*                                                                          *)
(* Concurrent contexts: the ioctl, the timer callback (softirq), the data   *)
(* path, the WLAN transmit thread, the receive worker, and the 802.11 stack *)
(* with its own connection state machine.  pwr_sve_event_handler and the    *)
(* state changes of the stack run under IEEE80211_LOCK; what a caller of    *)
(* the handler reads before the call is read in a step of its own, so it    *)
(* may be stale.  The transmit thread takes no lock: it may send a sleep    *)
(* request that the handler has queued before the handler has set PS_STATE. *)
(* One station vap; an access-point vap may come and go between two calls   *)
(* of the handler.  Roaming (roam_ind) and the blocking of the AP's data    *)
(* queues are left out; transmit access is granted (module TxAccess).       *)
(***************************************************************************)
EXTENDS Naturals, Sequences

CONSTANTS
  Profiles,         \* the ps_params the user may set; "off" has ps_en = 0
  TrafficProfiles,  \* those with a monitor_interval (TRAFFIC_PS_EN)
  Usb,              \* USE_USB_INTF: a frame is written after the state change
  MultiVap,         \* may an access-point vap be created?
  HandshakeLoss,    \* may a connection be lost before its key handshake ends?
  Faults,           \* may an allocation or a write fail?
  MaxMgmt           \* bound on the frames waiting in host_tx_queue[MGMT_SOFT_Q]

PsEn(p)    == p # "off"
Traffic(p) == p \in TrafficProfiles

ASSUME ProfileAssumption == TrafficProfiles \subseteq Profiles /\ "off" \notin TrafficProfiles
ASSUME FlagAssumption    == {Usb, MultiVap, HandshakeLoss, Faults} \subseteq BOOLEAN
ASSUME BoundAssumption   == MaxMgmt \in Nat

VARIABLES
  ps_state,      \* PS_STATE
  target,        \* what the handler that holds the lock will set it to, or "none"
  holder,        \* the context that handler runs in, or "none"
  delay_flag,    \* delay_pwr_sve_decision_flag
  update_ta,     \* new parameters from the user are not yet applied
  redo,          \* disable_ps_for_change_in_params
  params, params_ioctl, ioctl_pc,
  iv_state,      \* "INIT", "SCAN", "AUTH", "ASSOC", "RUN"
  reauth_state,
  conn_in_prog,
  conn_flags,    \* are ptk_key and gtk_key ("keys"), is eapol4_cnfrm set?
  link,          \* the connection: "down", "handshake" (keys or EAPOL4 confirm are
                 \* missing), "connected" (CONNECTED_PATH is to be called), "up"
  scanning,      \* IEEE80211_F_SCAN
  sc_nvaps,
  timer,         \* traffic_timer: "unset" (no function yet), "off", "on"
  timer_pc,      \* the timer callback
  feature_due,   \* delay_sta_support_decision_flag
  data_pc,       \* the data path in check_data_load
  mgmt_q, tx_event, tx_pc, tx_frame,   \* the transmit thread
  to_fw,         \* sleep and wakeup requests written to the device
  confirms,      \* their confirms on the way back
  dev_asleep     \* device: does the 802.11 core sleep?

handled   == <<ps_state, target, update_ta, redo, params, mgmt_q, tx_event>>
userVars  == <<params_ioctl, ioctl_pc>>
linkVars  == <<conn_flags, link>>
staVars   == <<iv_state, reauth_state, conn_in_prog, scanning, sc_nvaps>>
timerVars == <<timer, timer_pc, feature_due>>
txVars    == <<tx_pc, tx_frame>>
devVars   == <<to_fw, confirms, dev_asleep>>
vars == <<handled, holder, delay_flag, userVars, staVars, linkVars, timerVars, data_pc,
          txVars, devVars>>

MgmtFrame == [kind |-> "mgmt", deep |-> FALSE]
Frames    == [kind : {"sleep", "wake"}, deep : BOOLEAN]

(***************************************************************************)
(* The vap is new: its private data is zeroed.                              *)
(***************************************************************************)
Init ==
  /\ ps_state = "NONE" /\ target = "none" /\ holder = "none"
  /\ delay_flag = FALSE /\ update_ta = FALSE /\ redo = FALSE
  /\ params = "off" /\ params_ioctl = "off" /\ ioctl_pc = "idle"
  /\ iv_state = "INIT" /\ reauth_state = FALSE /\ conn_in_prog = FALSE /\ scanning = FALSE
  /\ sc_nvaps = 1 /\ conn_flags = {} /\ link = "down"
  /\ timer = "unset" /\ timer_pc = "idle" /\ feature_due = FALSE
  /\ data_pc = "idle"
  /\ mgmt_q = <<>> /\ tx_event = FALSE /\ tx_pc = "idle" /\ tx_frame = MgmtFrame
  /\ to_fw = <<>> /\ confirms = <<>> /\ dev_asleep = FALSE

Running   == iv_state = "RUN"
StopTimer == IF timer = "unset" THEN "unset" ELSE "off"
ModTimer  == IF timer = "unset" THEN "unset" ELSE "on"

\* IEEE80211_LOCK; a call of the handler that queues a sleep request goes on holding it.
LockFree == target = "none"
HeldBy(context) == holder' = IF target' = "none" THEN "none" ELSE context

-----------------------------------------------------------------------------
(***************************************************************************)
(* send_ps_params_req: a wakeup request is also what a sleep request        *)
(* becomes when a second vap exists.  Without memory nothing is queued, and *)
(* nobody is told.                                                          *)
(***************************************************************************)
Kind(status) == IF status = "enable" /\ sc_nvaps < 2 THEN "sleep" ELSE "wake"

send_ps_params_req(status, head) ==
  LET f == [kind |-> Kind(status), deep |-> ~Running]
  IN \/ /\ mgmt_q' = IF head THEN <<f>> \o mgmt_q ELSE Append(mgmt_q, f)
        /\ tx_event' = TRUE
     \/ Faults /\ UNCHANGED <<mgmt_q, tx_event>>

\* Mutant: a wakeup request does not set the state before it is queued.
Bug_Request(s, status, head, state) ==
  /\ send_ps_params_req(status, head)
  /\ ps_state' = s
  /\ target' = state

(***************************************************************************)
(* The handler, in a state s, queues a request and then sets PS_STATE.  A   *)
(* wakeup request sets PS_DIS_REQ_SENT before it is queued (the assignment  *)
(* that follows only repeats it); a sleep request is in the queue, and the  *)
(* transmit thread awake, before the state is set.                          *)
(***************************************************************************)
Request(s, status, head, state) ==
  /\ send_ps_params_req(status, head)
  /\ ps_state' = IF Kind(status) = "wake" THEN "DIS_REQ_SENT" ELSE s
  /\ target' = IF Kind(status) = "wake" THEN target ELSE state

Settle(state) == ps_state' = state /\ UNCHANGED <<target, mgmt_q, tx_event>>

\* The rest of the call: PS_STATE is set and the lock released.
HandlerEnds ==
  /\ target # "none"
  /\ ps_state' = target
  /\ target' = "none" /\ holder' = "none"
  /\ UNCHANGED <<update_ta, redo, params, mgmt_q, tx_event, delay_flag, userVars, staVars, linkVars,
                 timerVars, data_pc, txVars, devVars>>

\* Mutant: the status of the caller is sent on.
Bug_ChangeParams(s, status, head) ==
  Request(s, status, head \/ ~Running, "DIS_REQ_SENT") /\ redo' = TRUE

\* Parameters other than those the device sleeps with need a wakeup first.
ChangeParams(s, status, head) ==
  Request(s, "disable", head \/ ~Running, "DIS_REQ_SENT") /\ redo' = TRUE

(***************************************************************************)
(* The user's new parameters are applied in a stable state s.               *)
(***************************************************************************)
ApplyUpdate(s, status, head) ==
  /\ update_ta' = FALSE
  /\ params' = params_ioctl
  /\ \/ /\ ~PsEn(params_ioctl) /\ s = "NONE"
        /\ Settle(s)
        /\ UNCHANGED redo
     \/ /\ ~PsEn(params_ioctl) /\ s = "DEV_IN_PWR_SVE"
        /\ Request(s, status, head, "DIS_REQ_SENT")
        /\ UNCHANGED redo
     \/ /\ PsEn(params_ioctl) /\ s = "DEV_IN_PWR_SVE" /\ params_ioctl # params
        /\ ChangeParams(s, status, head)
     \/ /\ PsEn(params_ioctl) /\ s = "DEV_IN_PWR_SVE" /\ params_ioctl = params
        /\ Settle(s)
        /\ UNCHANGED redo
     \/ /\ PsEn(params_ioctl) /\ s = "NONE"
        /\ Request(s, "enable", FALSE, "EN_REQ_QUEUED")
        /\ UNCHANGED redo

(***************************************************************************)
(* The second half of a parameter change: the device is awake again.        *)
(***************************************************************************)
Redo(s, head) ==
  /\ redo' = FALSE
  /\ IF PsEn(params) /\ s = "NONE" THEN Request(s, "enable", head, "EN_REQ_QUEUED") ELSE Settle(s)
  /\ UNCHANGED <<update_ta, params>>

Stable == {"NONE", "DEV_IN_PWR_SVE"}

(***************************************************************************)
(* pwr_sve_event_handler for every path but the confirms.  It refuses while *)
(* the vap is in transition or the decision is delayed, and does nothing    *)
(* while a request is under way.                                            *)
(***************************************************************************)
Refused(status) ==
  \/ iv_state = "SCAN" /\ scanning /\ ps_state = "NONE"
  \/ iv_state # "INIT" /\ conn_in_prog /\ status = "enable"
  \/ delay_flag

HandleRequest(status, pending) ==
  IF Refused(status) \/ (sc_nvaps < 2 /\ ps_state \notin Stable)
  THEN UNCHANGED handled
  ELSE IF sc_nvaps >= 2
  THEN /\ IF PsEn(params) /\ ps_state = "DEV_IN_PWR_SVE"
          THEN Request(ps_state, "disable", FALSE, "DIS_REQ_SENT")
          ELSE Settle(ps_state)
       /\ UNCHANGED <<update_ta, redo, params>>
  ELSE IF pending /\ ps_state = "DEV_IN_PWR_SVE" /\ ~Running
  THEN /\ Request(ps_state, status, TRUE, "DIS_REQ_SENT")
       /\ UNCHANGED <<update_ta, redo, params>>
  ELSE IF update_ta
  THEN ApplyUpdate(ps_state, status, pending)
  ELSE IF PsEn(params)
  THEN /\ Request(ps_state, status, pending,
               IF status = "enable" THEN "EN_REQ_QUEUED" ELSE "DIS_REQ_SENT")
       /\ UNCHANGED <<update_ta, redo, params>>
  ELSE IF redo
  THEN Redo(ps_state, pending)
  ELSE UNCHANGED handled

(***************************************************************************)
(* pwr_sve_event_handler for a confirm.  Only the confirm of a wakeup goes  *)
(* on to what is waiting, and only if no scan, connection or delay is on.   *)
(***************************************************************************)
Busy == delay_flag \/ conn_in_prog \/ scanning

AfterConfirm(s) ==
  IF update_ta THEN ApplyUpdate(s, "disable", FALSE)
  ELSE IF redo THEN Redo(s, FALSE)
  ELSE Settle(s) /\ UNCHANGED <<update_ta, redo, params>>

\* Mutant: the frames that waited for the confirm are not scheduled.
Bug_SleepConfirmed ==
  /\ ps_state' = "DEV_IN_PWR_SVE"
  /\ UNCHANGED <<target, update_ta, redo, params, mgmt_q, tx_event, timer>>

SleepConfirmed ==
  /\ ps_state' = "DEV_IN_PWR_SVE"
  /\ tx_event' = (tx_event \/ (~Running /\ mgmt_q # <<>>))
  /\ UNCHANGED <<target, update_ta, redo, params, mgmt_q, timer>>

\* Mutant: the monitoring timer is not started again.
Bug_WakeConfirmed ==
  /\ IF Busy THEN Settle("NONE") /\ UNCHANGED <<update_ta, redo, params>> ELSE AfterConfirm("NONE")
  /\ UNCHANGED timer

WakeConfirmed ==
  /\ IF Busy THEN Settle("NONE") /\ UNCHANGED <<update_ta, redo, params>> ELSE AfterConfirm("NONE")
  /\ timer' = IF Running /\ Traffic(params) THEN ModTimer ELSE timer

\* Mutant: with a second vap any confirm ends the transition.
Bug_HandleConfirm(kind) ==
  IF sc_nvaps >= 2
  THEN Settle("NONE") /\ UNCHANGED <<update_ta, redo, params, timer>>
  ELSE IF ps_state = "EN_REQ_SENT" /\ kind = "sleep" THEN SleepConfirmed
  ELSE IF ps_state = "DIS_REQ_SENT" /\ kind = "wake" THEN WakeConfirmed
  ELSE UNCHANGED <<handled, timer>>

HandleConfirm(kind) ==
  IF sc_nvaps >= 2
  THEN /\ UNCHANGED <<update_ta, redo, params, timer>>
       /\ IF \/ PsEn(params) /\ ps_state = "DEV_IN_PWR_SVE"
             \/ ps_state = "EN_REQ_SENT" /\ kind = "sleep"
          THEN Request(ps_state, "disable", FALSE, "DIS_REQ_SENT")
          ELSE Settle(IF ps_state = "DIS_REQ_SENT" /\ kind = "wake" THEN "NONE" ELSE ps_state)
  ELSE IF ps_state = "EN_REQ_SENT" /\ kind = "sleep" THEN SleepConfirmed
  ELSE IF ps_state = "DIS_REQ_SENT" /\ kind = "wake" THEN WakeConfirmed
  ELSE IF ps_state \in Stable /\ ~(iv_state = "SCAN" /\ scanning /\ ps_state = "NONE")
  THEN AfterConfirm(ps_state) /\ UNCHANGED timer
  ELSE UNCHANGED <<handled, timer>>

RxConfirm ==
  /\ LockFree
  /\ confirms # <<>>
  /\ confirms' = Tail(confirms)
  /\ HandleConfirm(Head(confirms))
  /\ HeldBy("worker")
  /\ UNCHANGED <<delay_flag, userVars, staVars, linkVars, timer_pc, feature_due, data_pc, txVars, to_fw, dev_asleep>>

-----------------------------------------------------------------------------
(***************************************************************************)
(* The PS_REQUEST ioctl.  In the middle of a scan or a connection the       *)
(* parameters are only stored.                                              *)
(***************************************************************************)
Ioctl(p) ==
  /\ ioctl_pc = "idle" /\ holder # "ioctl"
  /\ params_ioctl' = p
  /\ update_ta' = TRUE
  /\ ioctl_pc' = IF iv_state \in {"INIT", "RUN"}
                 THEN IF PsEn(p) THEN "enable" ELSE "disable"
                 ELSE "idle"
  /\ UNCHANGED <<ps_state, target, holder, redo, params, mgmt_q, tx_event, delay_flag, staVars,
                 linkVars, timerVars, data_pc, txVars, devVars>>

IoctlCall ==
  /\ ioctl_pc # "idle" /\ LockFree
  /\ HandleRequest(ioctl_pc, FALSE)
  /\ HeldBy("ioctl")
  /\ ioctl_pc' = "idle"
  /\ UNCHANGED <<delay_flag, params_ioctl, staVars, linkVars, timerVars, data_pc, txVars, devVars>>

(***************************************************************************)
(* check_traffic_pwr_save for a data packet that takes the load above its   *)
(* threshold: it ends power save, or restarts the monitoring interval.  The *)
(* load itself is left to chance: any packet may be that one.               *)
(***************************************************************************)
CountPacket ==
  /\ data_pc = "idle" /\ holder # "data"
  /\ PsEn(params) /\ Traffic(params) /\ Running /\ ~delay_flag
  /\ IF ps_state = "DEV_IN_PWR_SVE"
     THEN data_pc' = "disable" /\ UNCHANGED timer
     ELSE timer' = ModTimer /\ UNCHANGED data_pc
  /\ UNCHANGED <<handled, holder, delay_flag, userVars, staVars, linkVars, timer_pc, feature_due,
                 txVars, devVars>>

DataCall ==
  /\ data_pc = "disable" /\ LockFree
  /\ HandleRequest("disable", FALSE)
  /\ HeldBy("data")
  /\ data_pc' = "idle"
  /\ UNCHANGED <<delay_flag, userVars, staVars, linkVars, timerVars, txVars, devVars>>

(***************************************************************************)
(* traffic_timer_callback.  It returns at once while a connection is in     *)
(* progress.                                                                *)
(***************************************************************************)
TimerFires ==
  /\ timer = "on"
  /\ timer_pc = "idle" /\ holder # "timer"
  /\ timer' = "off"
  /\ \/ /\ conn_in_prog
        /\ UNCHANGED <<delay_flag, timer_pc>>
     \/ /\ ~conn_in_prog
        /\ delay_flag' = FALSE
        /\ timer_pc' = IF Running
                       THEN IF feature_due THEN "features" ELSE "decide"
                       ELSE IF delay_flag THEN "enable_idle" ELSE "idle"
  /\ UNCHANGED <<handled, holder, userVars, staVars, linkVars, feature_due, data_pc,
                 txVars, devVars>>

\* onebox_send_sta_supported_features; a failing bgscan frame skips the power save.
TimerFeatures ==
  /\ timer_pc = "features" /\ LockFree
  /\ HandleRequest("enable", FALSE) \/ (Faults /\ UNCHANGED handled)
  /\ HeldBy("timer")
  /\ feature_due' = FALSE
  /\ timer_pc' = "decide"
  /\ UNCHANGED <<delay_flag, userVars, staVars, linkVars, timer, data_pc, txVars, devVars>>

\* The load of the last interval is above the threshold, below the hysteresis, or neither.
TimerDecide ==
  /\ timer_pc = "decide" /\ holder # "timer"
  /\ \/ /\ ~(PsEn(params) /\ Traffic(params))
        /\ timer_pc' = "idle" /\ UNCHANGED timer
     \/ /\ PsEn(params) /\ Traffic(params)
        /\ \/ ps_state = "DEV_IN_PWR_SVE" /\ timer_pc' = "disable" /\ UNCHANGED timer
           \/ ps_state = "NONE" /\ timer_pc' = "enable" /\ UNCHANGED timer
           \/ /\ timer_pc' = "idle"
              /\ timer' = IF ps_state # "DEV_IN_PWR_SVE" THEN ModTimer ELSE timer
  /\ UNCHANGED <<handled, holder, delay_flag, userVars, staVars, linkVars, feature_due, data_pc,
                 txVars, devVars>>

TimerCall ==
  /\ timer_pc \in {"enable", "disable", "enable_idle"} /\ LockFree
  /\ HandleRequest(IF timer_pc = "disable" THEN "disable" ELSE "enable", FALSE)
  /\ HeldBy("timer")
  /\ timer_pc' = "idle"
  /\ UNCHANGED <<delay_flag, userVars, staVars, linkVars, timer, feature_due,
                 data_pc, txVars, devVars>>

-----------------------------------------------------------------------------
(***************************************************************************)
(* The WLAN transmit thread (core_qos_processor) on the management queue.   *)
(***************************************************************************)
TxStart ==
  /\ tx_pc = "idle"
  /\ tx_event
  /\ tx_event' = FALSE
  /\ tx_pc' = "loop"
  /\ UNCHANGED <<ps_state, target, holder, update_ta, redo, params, mgmt_q, delay_flag, userVars,
                 staVars, linkVars, timerVars, data_pc, tx_frame, devVars>>

\* Nothing is sent while the device is about to enter deep sleep.
TxLoop ==
  /\ tx_pc = "loop"
  /\ tx_pc' = IF (ps_state = "EN_REQ_SENT" /\ ~Running) \/ mgmt_q = <<>> THEN "idle" ELSE "check"
  /\ UNCHANGED <<handled, holder, delay_flag, userVars, staVars, linkVars, timerVars, data_pc,
                 tx_frame, devVars>>

TxCheck ==
  /\ tx_pc = "check"
  /\ tx_pc' = IF ps_state = "DEV_IN_PWR_SVE" /\ ~Running THEN "pending" ELSE "dequeue"
  /\ UNCHANGED <<handled, holder, delay_flag, userVars, staVars, linkVars, timerVars, data_pc,
                 tx_frame, devVars>>

\* update_pwr_save_status with MGMT_PENDING_PATH: clear the delay, then stop the timer.
TxPending ==
  /\ tx_pc = "pending"
  /\ delay_flag' = FALSE
  /\ tx_pc' = "stop"
  /\ UNCHANGED <<handled, holder, userVars, staVars, linkVars, timerVars, data_pc, tx_frame, devVars>>

TxStopTimer ==
  /\ tx_pc = "stop"
  /\ timer' = StopTimer
  /\ tx_pc' = "deep"
  /\ UNCHANGED <<handled, holder, delay_flag, userVars, staVars, linkVars, timer_pc, feature_due,
                 data_pc, tx_frame, devVars>>

\* check_deep_sleep_status: a delay that was set again is cleared and nobody woken.
TxDeepSleep ==
  /\ tx_pc = "deep"
  /\ \/ /\ delay_flag /\ ~Running
        /\ delay_flag' = FALSE /\ timer' = StopTimer
        /\ tx_pc' = "dequeue"
     \/ /\ ~(delay_flag /\ ~Running)
        /\ tx_pc' = IF ps_state = "DEV_IN_PWR_SVE" /\ ~Running THEN "wake" ELSE "dequeue"
        /\ UNCHANGED <<delay_flag, timer>>
  /\ UNCHANGED <<handled, holder, userVars, staVars, linkVars, timer_pc, feature_due, data_pc,
                 tx_frame, devVars>>

TxWake ==
  /\ tx_pc = "wake" /\ LockFree
  /\ HandleRequest("disable", TRUE)
  /\ HeldBy("tx")
  /\ tx_pc' = "dequeue"
  /\ UNCHANGED <<delay_flag, userVars, staVars, linkVars, timerVars, data_pc, tx_frame, devVars>>

TxDequeue ==
  /\ tx_pc = "dequeue" /\ holder # "tx"
  /\ mgmt_q # <<>>
  /\ tx_frame' = Head(mgmt_q)
  /\ mgmt_q' = Tail(mgmt_q)
  /\ tx_pc' = IF Usb /\ Head(mgmt_q).kind # "mgmt" THEN "mark" ELSE "write"
  /\ UNCHANGED <<ps_state, target, holder, update_ta, redo, params, tx_event, delay_flag, userVars,
                 staVars, linkVars, timerVars, data_pc, devVars>>

TxWrite ==
  /\ tx_pc = "write"
  /\ \/ to_fw' = IF tx_frame.kind = "mgmt" THEN to_fw ELSE Append(to_fw, tx_frame.kind)
     \/ Faults /\ UNCHANGED to_fw
  /\ IF ~Usb /\ tx_frame.kind # "mgmt"
     THEN tx_pc' = "mark" /\ UNCHANGED tx_frame
     ELSE tx_pc' = "loop" /\ tx_frame' = MgmtFrame
  /\ UNCHANGED <<handled, holder, delay_flag, userVars, staVars, linkVars, timerVars, data_pc,
                 confirms, dev_asleep>>

MarkDone == IF Usb THEN tx_pc' = "write" /\ UNCHANGED tx_frame ELSE tx_pc' = "loop" /\ tx_frame' = MgmtFrame

\* PS_EN_REQ_QUEUED becomes PS_EN_REQ_SENT, unless the frame is a wakeup from deep sleep.
TxMark ==
  /\ tx_pc = "mark"
  /\ ps_state' = IF ps_state = "EN_REQ_QUEUED" /\ ~(tx_frame.kind = "wake" /\ tx_frame.deep)
                 THEN "EN_REQ_SENT" ELSE ps_state
  /\ MarkDone
  /\ UNCHANGED <<target, holder, update_ta, redo, params, mgmt_q, tx_event, delay_flag, userVars,
                 staVars, linkVars, timerVars, data_pc, devVars>>

(***************************************************************************)
(* The device (external) follows each request and confirms it.              *)
(***************************************************************************)
FwFollow ==
  /\ to_fw # <<>>
  /\ to_fw' = Tail(to_fw)
  /\ dev_asleep' = (Head(to_fw) = "sleep")
  /\ confirms' = Append(confirms, Head(to_fw))
  /\ UNCHANGED <<handled, holder, delay_flag, userVars, staVars, linkVars, timerVars, data_pc,
                 txVars>>

-----------------------------------------------------------------------------
(***************************************************************************)
(* The 802.11 stack.  Scanning, joining and leaving queue management        *)
(* frames; their effects on power save are those of update_pwr_save_status. *)
(* A change of iv_state holds IEEE80211_LOCK.                               *)
(***************************************************************************)
IsMgmt(f) == f.kind = "mgmt"

QueueMgmt ==
  /\ Len(SelectSeq(mgmt_q, IsMgmt)) < MaxMgmt
  /\ mgmt_q' = Append(mgmt_q, MgmtFrame)
  /\ tx_event' = TRUE
  /\ UNCHANGED <<ps_state, target, update_ta, redo, params>>

\* SCAN_END_PATH, and the tail of CONNECTED_PATH and DISCONNECTED_PATH.
DelayDecision == delay_flag' = TRUE /\ timer' = "on"

ScanStart ==
  /\ ~scanning
  /\ iv_state \notin {"AUTH", "ASSOC"}
  /\ LockFree
  /\ scanning' = TRUE
  /\ iv_state' = IF iv_state = "INIT" THEN "SCAN" ELSE iv_state
  /\ QueueMgmt
  /\ UNCHANGED <<holder, delay_flag, userVars, reauth_state, conn_in_prog, sc_nvaps, linkVars, timerVars,
                 data_pc, txVars, devVars>>

\* A scan that is cut short does not notify the driver.
ScanEnd ==
  /\ scanning
  /\ scanning' = FALSE
  /\ \/ QueueMgmt /\ DelayDecision
     \/ UNCHANGED <<handled, delay_flag, timer>>
  /\ UNCHANGED <<holder, userVars, iv_state, reauth_state, conn_in_prog, sc_nvaps, linkVars, timer_pc,
                 feature_due, data_pc, txVars, devVars>>

\* Mutant: the timer is stopped, the delay it would have ended is kept.
Bug_Join ==
  /\ iv_state = "SCAN" /\ link # "connected"
  /\ ~scanning
  /\ LockFree
  /\ iv_state' = "AUTH"
  /\ conn_in_prog' = TRUE
  /\ timer' = IF delay_flag THEN StopTimer ELSE timer
  /\ QueueMgmt
  /\ UNCHANGED <<holder, delay_flag, userVars, reauth_state, scanning, sc_nvaps, linkVars, timer_pc,
                 feature_due, data_pc, txVars, devVars>>

(***************************************************************************)
(* ieee80211_sta_join1 stops the timer (stop_initial_timer), then AUTH is   *)
(* sent.  A call of CONNECTED_PATH that is still to come ends before the    *)
(* station can join again.                                                  *)
(***************************************************************************)
Join ==
  /\ iv_state = "SCAN" /\ link # "connected"
  /\ ~scanning
  /\ LockFree
  /\ iv_state' = "AUTH"
  /\ conn_in_prog' = TRUE
  /\ delay_flag' = FALSE
  /\ timer' = IF delay_flag THEN StopTimer ELSE timer
  /\ QueueMgmt
  /\ UNCHANGED <<holder, userVars, reauth_state, scanning, sc_nvaps, linkVars, timer_pc, feature_due,
                 data_pc, txVars, devVars>>

\* The peer answers once the frames have left the host.
Answered == mgmt_q = <<>> /\ tx_pc \notin {"mark", "write"}

\* ieee80211_tx_mgt_timeout: AUTH is sent once more.
AuthTimeout ==
  /\ iv_state = "AUTH"
  /\ LockFree
  /\ reauth_state' = ~reauth_state
  /\ \/ ~reauth_state /\ QueueMgmt /\ UNCHANGED <<iv_state, conn_in_prog>>
     \/ reauth_state /\ iv_state' = "SCAN" /\ conn_in_prog' = FALSE /\ UNCHANGED handled
  /\ UNCHANGED <<holder, delay_flag, userVars, scanning, sc_nvaps, linkVars, timerVars,
                 data_pc, txVars, devVars>>

\* The association request follows.
Authenticated ==
  /\ iv_state = "AUTH"
  /\ LockFree
  /\ Answered
  /\ iv_state' = "ASSOC"
  /\ reauth_state' = FALSE
  /\ QueueMgmt
  /\ UNCHANGED <<holder, delay_flag, userVars, conn_in_prog, scanning, sc_nvaps, linkVars, timerVars,
                 data_pc, txVars, devVars>>

\* With an association request out the firmware is told (STA_DISCONNECTED).
AssocTimeout ==
  /\ iv_state = "ASSOC"
  /\ LockFree
  /\ iv_state' = "SCAN"
  /\ conn_in_prog' = FALSE
  /\ QueueMgmt /\ DelayDecision /\ feature_due' = FALSE /\ conn_flags' = {}
  /\ UNCHANGED <<holder, userVars, reauth_state, scanning, sc_nvaps, link, timer_pc, data_pc,
                 txVars, devVars>>

(***************************************************************************)
(* sta_newstate to RUN with onebox_newassoc.  Without encryption and with   *)
(* WEP the notification of the peer ends the connection attempt and         *)
(* CONNECTED_PATH follows; with WPA the handshake is still to come.  If the *)
(* notification has no memory, the attempt never ends: CONNECTED_PATH is    *)
(* called for WEP only.                                                     *)
(***************************************************************************)
Associated ==
  /\ iv_state = "ASSOC"
  /\ LockFree
  /\ Answered
  /\ iv_state' = "RUN"
  /\ \/ QueueMgmt /\ conn_in_prog' = FALSE /\ link' = "connected"
     \/ QueueMgmt /\ UNCHANGED conn_in_prog /\ link' = "handshake"
     \/ /\ Faults
        /\ link' \in {"up", "connected", "handshake"}
        /\ UNCHANGED <<handled, conn_in_prog>>
  /\ UNCHANGED <<holder, delay_flag, userVars, reauth_state, scanning, sc_nvaps, conn_flags, timerVars,
                 data_pc, txVars, devVars>>

ConnFlags == {"keys", "eapol4_cnfrm"}

\* With both, ptk_key is reset and CONNECTED_PATH follows.
SetFlags(flags) ==
  IF flags = ConnFlags
  THEN conn_flags' = {"eapol4_cnfrm"} /\ link' = "connected"
  ELSE conn_flags' = flags /\ UNCHANGED link

\* EAPOL4_CONFIRM of the device.
EapolConfirm ==
  /\ Running /\ link = "handshake" /\ conn_in_prog
  /\ conn_in_prog' = FALSE
  /\ SetFlags(conn_flags \cup {"eapol4_cnfrm"})
  /\ UNCHANGED <<handled, holder, delay_flag, userVars, iv_state, reauth_state, scanning, sc_nvaps,
                 timerVars, data_pc, txVars, devVars>>

(***************************************************************************)
(* hal_load_key for the last key of the handshake, or for a new pairwise    *)
(* key.  A key that fails to load changes nothing.                          *)
(***************************************************************************)
LoadKeys ==
  /\ Running
  /\ \/ link = "handshake" /\ "keys" \notin conn_flags
     \/ link = "up" /\ "eapol4_cnfrm" \in conn_flags
  /\ QueueMgmt
  /\ SetFlags(conn_flags \cup {"keys"})
  /\ UNCHANGED <<holder, delay_flag, userVars, staVars, timerVars, data_pc, txVars, devVars>>

\* CONNECTED_PATH; the station may have been left meanwhile.
Connected ==
  /\ link = "connected"
  /\ link' = IF Running THEN "up" ELSE "down"
  /\ feature_due' = (feature_due \/ Running)
  /\ DelayDecision
  /\ UNCHANGED <<handled, holder, userVars, staVars, conn_flags, timer_pc, data_pc, txVars, devVars>>

\* EAPOL4 not acknowledged: ieee80211_sta_leave without a change of state.
EapolFailed ==
  /\ HandshakeLoss
  /\ Running /\ link = "handshake" /\ conn_in_prog
  /\ conn_flags' = {}
  /\ feature_due' = TRUE
  /\ DelayDecision
  /\ QueueMgmt
  /\ UNCHANGED <<holder, userVars, staVars, link, timer_pc, data_pc, txVars, devVars>>

\* RUN is left: DISCONNECTED_PATH.  conn_in_prog is not cleared.
Disconnect ==
  /\ Running
  /\ LockFree
  /\ conn_in_prog => HandshakeLoss
  /\ iv_state' \in {"INIT", "SCAN"}
  /\ scanning' = FALSE
  /\ feature_due' = FALSE
  /\ conn_flags' = {}
  /\ link' = IF link = "connected" THEN link ELSE "down"
  /\ DelayDecision
  /\ QueueMgmt
  /\ UNCHANGED <<holder, userVars, reauth_state, conn_in_prog, sc_nvaps, timer_pc, data_pc,
                 txVars, devVars>>

\* Mutant: a deleted vap is still counted.
Bug_VapChange ==
  /\ MultiVap
  /\ sc_nvaps <= 2
  /\ sc_nvaps' = sc_nvaps + 1
  /\ UNCHANGED <<handled, holder, delay_flag, userVars, iv_state, reauth_state, conn_in_prog, scanning,
                 linkVars, timerVars, data_pc, txVars, devVars>>

(***************************************************************************)
(* A second vap comes and goes.  VAP_CREATE_PATH and VAP_DELETE_PATH are    *)
(* not among the cases of update_pwr_save_status.                           *)
(***************************************************************************)
VapChange ==
  /\ MultiVap
  /\ sc_nvaps' = 3 - sc_nvaps
  /\ UNCHANGED <<handled, holder, delay_flag, userVars, iv_state, reauth_state, conn_in_prog, scanning,
                 linkVars, timerVars, data_pc, txVars, devVars>>

-----------------------------------------------------------------------------
TimerStep == TimerFires \/ TimerFeatures \/ TimerDecide \/ TimerCall
TxStep    == \/ TxStart \/ TxLoop \/ TxCheck \/ TxPending \/ TxStopTimer \/ TxDeepSleep \/ TxWake
             \/ TxDequeue \/ TxWrite \/ TxMark

Next ==
  \/ \E p \in Profiles : Ioctl(p)
  \/ IoctlCall
  \/ CountPacket
  \/ DataCall
  \/ TimerStep
  \/ TxStep
  \/ FwFollow
  \/ RxConfirm
  \/ HandlerEnds
  \/ ScanStart
  \/ ScanEnd
  \/ Join
  \/ AuthTimeout
  \/ Authenticated
  \/ AssocTimeout
  \/ Associated
  \/ EapolConfirm
  \/ LoadKeys
  \/ Connected
  \/ EapolFailed
  \/ Disconnect
  \/ VapChange

Spec == Init /\ [][Next]_vars

(***************************************************************************)
(* What a connection attempt comes to: each of its frames has a timeout,    *)
(* the key handshake ends, with its keys loaded.                            *)
(***************************************************************************)
AttemptStep ==
  \/ AuthTimeout \/ Authenticated \/ AssocTimeout \/ Associated
  \/ EapolConfirm \/ (Disconnect /\ conn_in_prog)
  \/ (LoadKeys /\ link = "handshake") \/ Connected

(***************************************************************************)
(* Fairness: a handler comes to its end, the timer expires, the transmit    *)
(* thread and the receive worker run on, the device follows its requests,   *)
(* and a connection attempt ends, although MaxMgmt may hold it up now and   *)
(* then.  The user, the traffic and the scans are free.                     *)
(***************************************************************************)
Fairness ==
  /\ WF_vars(HandlerEnds)
  /\ WF_vars(TimerStep)
  /\ WF_vars(TxStep)
  /\ WF_vars(FwFollow)
  /\ WF_vars(RxConfirm)
  /\ SF_vars(AttemptStep)

FairSpec == Spec /\ Fairness

-----------------------------------------------------------------------------
(***************************************************************************)
(* The fields of drv_params, the program points and the frames keep their   *)
(* types, and the driver counts one or two vaps.                            *)
(***************************************************************************)
TypeOK ==
  /\ ps_state \in {"NONE", "EN_REQ_QUEUED", "EN_REQ_SENT", "DEV_IN_PWR_SVE", "DIS_REQ_SENT"}
  /\ target \in {"none", "EN_REQ_QUEUED", "DIS_REQ_SENT"}
  /\ holder \in {"none", "ioctl", "data", "timer", "tx", "worker"}
  /\ {delay_flag, update_ta, redo, reauth_state, conn_in_prog, scanning, feature_due,
      tx_event, dev_asleep} \subseteq BOOLEAN
  /\ params \in Profiles \cup {"off"}
  /\ params_ioctl \in Profiles \cup {"off"}
  /\ ioctl_pc \in {"idle", "enable", "disable"}
  /\ iv_state \in {"INIT", "SCAN", "AUTH", "ASSOC", "RUN"}
  /\ conn_flags \subseteq ConnFlags
  /\ link \in {"down", "handshake", "connected", "up"}
  /\ sc_nvaps \in 1 .. 2
  /\ timer \in {"unset", "off", "on"}
  /\ timer_pc \in {"idle", "features", "decide", "enable", "disable", "enable_idle"}
  /\ data_pc \in {"idle", "disable"}
  /\ mgmt_q \in Seq(Frames \cup {MgmtFrame})
  /\ tx_pc \in {"idle", "loop", "check", "pending", "stop", "deep", "wake", "dequeue", "write", "mark"}
  /\ tx_frame \in Frames \cup {MgmtFrame}
  /\ to_fw \in Seq({"sleep", "wake"})
  /\ confirms \in Seq({"sleep", "wake"})

(***************************************************************************)
(* The power-save requests under way: on their way back from the device, at *)
(* the device, in the hands of the transmit thread, or queued.              *)
(***************************************************************************)
InHand ==
  IF tx_frame.kind # "mgmt" /\ (tx_pc = "write" \/ (Usb /\ tx_pc = "mark"))
  THEN <<tx_frame.kind>> ELSE <<>>

Sent == confirms \o to_fw \o InHand

Queued == {i \in 1 .. Len(mgmt_q) : mgmt_q[i].kind # "mgmt"}

NoRequest == Sent = <<>> /\ Queued = {}

OnlyRequest(kind) ==
  \/ Sent = <<kind>> /\ Queued = {}
  \/ Sent = <<>> /\ \E i \in Queued : Queued = {i} /\ mgmt_q[i].kind = kind

(***************************************************************************)
(* PS_STATE, once the handler that holds the lock is done.                  *)
(***************************************************************************)
State == IF LockFree THEN ps_state ELSE target

(***************************************************************************)
(* The state machine and its requests agree although the transmit thread    *)
(* works outside the lock: in a stable state nothing is under way; in a     *)
(* transition one request at most is, the one the state waits for (the      *)
(* handler never overtakes itself).  None is only if the allocation or the  *)
(* write of the frame failed, or in PS_EN_REQ_QUEUED: if the transmit       *)
(* thread was faster than the handler, the confirm came unexpected.  Not    *)
(* for users who switch power save off: onebox_ps.c:668 then sends what the *)
(* caller asked for.                                                        *)
(***************************************************************************)
RequestMatchesState ==
  "off" \notin Profiles =>
  CASE State \in Stable        -> NoRequest
    [] State = "DIS_REQ_SENT"  -> OnlyRequest("wake") \/ (Faults /\ NoRequest)
    [] State = "EN_REQ_SENT"   -> OnlyRequest("sleep") \/ (Faults /\ NoRequest)
    [] State = "EN_REQ_QUEUED" -> OnlyRequest("sleep") \/ NoRequest

(***************************************************************************)
(* In a stable state the driver's view of the device is right.              *)
(***************************************************************************)
StateMatchesDevice ==
  "off" \notin Profiles /\ State \in Stable => dev_asleep = (State = "DEV_IN_PWR_SVE")

(***************************************************************************)
(* Connected, keys loaded, power save by traffic load wanted but off: then  *)
(* the monitoring timer is running, or its callback is, or a call of the    *)
(* handler or of CONNECTED_PATH is still to come.  If the timer were        *)
(* forgotten in one of the many places that stop or restart it, power save  *)
(* would stay off until the next connection.                                *)
(***************************************************************************)
MonitoringGoesOn ==
  Running /\ ~conn_in_prog /\ link # "handshake" /\ PsEn(params) /\ Traffic(params) /\ State = "NONE"
    => \/ timer = "on" \/ link = "connected"
       \/ timer_pc # "idle" \/ data_pc # "idle" \/ ioctl_pc # "idle"

(***************************************************************************)
(* The transmit thread has passed the sleep request on and found nothing to *)
(* mark, because the handler had not set the state yet.                     *)
(***************************************************************************)
Overtaken ==
  /\ ps_state = "EN_REQ_QUEUED"
  /\ Queued = {}
  /\ ~(tx_frame.kind = "sleep" /\ (tx_pc = "mark" \/ (~Usb /\ tx_pc = "write")))

(***************************************************************************)
(* Liveness: a request to the device ends in a stable state, unless the     *)
(* transmit thread was faster than the handler that queued it.              *)
(***************************************************************************)
TransitionEnds == ps_state \notin Stable ~> ps_state \in Stable \/ Overtaken

(***************************************************************************)
(* Liveness: a waiting management frame gets the transmit thread to dequeue *)
(* something, even if the device has to be woken from deep sleep first.     *)
(***************************************************************************)
MgmtFrameLeaves == mgmt_q # <<>> ~> tx_pc \in {"mark", "write"}

(***************************************************************************)
(* onebox_ps.c:555: "Initial timer need to expire, so wait until timer      *)
(* expires": a delayed decision is taken in the end.                        *)
(***************************************************************************)
DelayEnds == delay_flag ~> ~delay_flag
=============================================================================
