---------------------------- MODULE WlanPsProofs ----------------------------
(***************************************************************************)
(* The power-save state machine, for every set of profiles and every bound: *)
(* types; that state machine, requests and device agree when frames are     *)
(* written after the state change (Usb) and the user does not switch power  *)
(* save off; and that monitoring goes on while there is one vap.            *)
(***************************************************************************)
EXTENDS WlanPs, TLAPS

(***************************************************************************)
(* TypeOK, split into flags and the rest.                                   *)
(***************************************************************************)
HandledFlags == update_ta \in BOOLEAN /\ redo \in BOOLEAN /\ tx_event \in BOOLEAN

OtherFlags ==
  /\ delay_flag \in BOOLEAN /\ reauth_state \in BOOLEAN /\ conn_in_prog \in BOOLEAN
  /\ scanning \in BOOLEAN /\ feature_due \in BOOLEAN /\ dev_asleep \in BOOLEAN

QueueFrames == Frames \cup {MgmtFrame}

PsStates == {"NONE", "EN_REQ_QUEUED", "EN_REQ_SENT", "DEV_IN_PWR_SVE", "DIS_REQ_SENT"}
Targets  == {"none", "EN_REQ_QUEUED", "DIS_REQ_SENT"}

HandledData ==
  /\ ps_state \in PsStates
  /\ target \in Targets
  /\ params \in Profiles \cup {"off"}
  /\ mgmt_q \in Seq(QueueFrames)

OtherData ==
  /\ holder \in {"none", "ioctl", "data", "timer", "tx", "worker"}
  /\ params_ioctl \in Profiles \cup {"off"}
  /\ ioctl_pc \in {"idle", "enable", "disable"}
  /\ iv_state \in {"INIT", "SCAN", "AUTH", "ASSOC", "RUN"}
  /\ conn_flags \subseteq ConnFlags
  /\ link \in {"down", "handshake", "connected", "up"}
  /\ sc_nvaps \in 1 .. 2
  /\ timer \in {"unset", "off", "on"}
  /\ timer_pc \in {"idle", "features", "decide", "enable", "disable", "enable_idle"}
  /\ data_pc \in {"idle", "disable"}
  /\ tx_pc \in {"idle", "loop", "check", "pending", "stop", "deep", "wake", "dequeue", "write", "mark"}
  /\ tx_frame \in QueueFrames
  /\ to_fw \in Seq({"sleep", "wake"})
  /\ confirms \in Seq({"sleep", "wake"})

LEMMA TypeParts == TypeOK <=> HandledFlags /\ OtherFlags /\ HandledData /\ OtherData
BY DEF TypeOK, HandledFlags, OtherFlags, HandledData, OtherData, QueueFrames, PsStates, Targets

-----------------------------------------------------------------------------
(***************************************************************************)
(* The queue.  A request is a frame of kind "sleep" or "wake".              *)
(***************************************************************************)
Kinds == {"sleep", "wake"}

IsRequest(f, kind) == f \in Frames /\ f.kind = kind

Enqueues(f) == mgmt_q' = <<f>> \o mgmt_q \/ mgmt_q' = Append(mgmt_q, f)

QueuedOnly(kind) == \E i \in Queued : Queued = {i} /\ mgmt_q[i].kind = kind

LEMMA FrameKinds ==
  /\ MgmtFrame.kind = "mgmt"
  /\ \A f \in QueueFrames : f.kind \in {"mgmt", "sleep", "wake"}
  /\ \A f \in Frames : f.kind \in Kinds
BY DEF QueueFrames, Frames, MgmtFrame, Kinds

\* A management frame is no request.
LEMMA QueueMgmtKeeps ==
  ASSUME mgmt_q \in Seq(QueueFrames), mgmt_q' = Append(mgmt_q, MgmtFrame)
  PROVE  /\ mgmt_q' \in Seq(QueueFrames)
         /\ (Queued = {}) => (Queued' = {})
         /\ \A kind \in Kinds : QueuedOnly(kind) => QueuedOnly(kind)'
<1>1. /\ mgmt_q' \in Seq(QueueFrames) /\ Len(mgmt_q') = Len(mgmt_q) + 1 /\ Len(mgmt_q) \in Nat
      /\ \A i \in 1 .. Len(mgmt_q) : mgmt_q'[i] = mgmt_q[i]
      /\ mgmt_q'[Len(mgmt_q) + 1].kind = "mgmt"
  BY FrameKinds DEF QueueFrames
<1>2. Queued' = Queued
  BY <1>1 DEF Queued
<1> QED
  BY <1>1, <1>2 DEF QueuedOnly, Queued

\* A request into a queue without requests is the only one.
LEMMA EnqueueRequest ==
  ASSUME mgmt_q \in Seq(QueueFrames), NEW f \in Frames, Enqueues(f)
  PROVE  /\ mgmt_q' \in Seq(QueueFrames)
         /\ Queued = {} => QueuedOnly(f.kind)'
<1>1. f \in QueueFrames /\ f.kind # "mgmt" /\ Len(mgmt_q) \in Nat
  BY FrameKinds DEF QueueFrames, Kinds
<1>2. CASE mgmt_q' = Append(mgmt_q, f)
  <2>1. /\ mgmt_q' \in Seq(QueueFrames) /\ Len(mgmt_q') = Len(mgmt_q) + 1
        /\ \A i \in 1 .. Len(mgmt_q) : mgmt_q'[i] = mgmt_q[i]
        /\ mgmt_q'[Len(mgmt_q) + 1] = f
    BY <1>1, <1>2
  <2>2. Queued = {} => Queued' = {Len(mgmt_q) + 1}
    BY <1>1, <2>1 DEF Queued
  <2> QED
    BY <2>1, <2>2 DEF QueuedOnly
<1>3. CASE mgmt_q' = <<f>> \o mgmt_q
  <2>1. /\ mgmt_q' \in Seq(QueueFrames) /\ Len(mgmt_q') = Len(mgmt_q) + 1
        /\ \A i \in 2 .. Len(mgmt_q) + 1 : mgmt_q'[i] = mgmt_q[i - 1]
        /\ mgmt_q'[1] = f
    BY <1>1, <1>3
  <2>2. \A i : i \in Queued' <=> i = 1 \/ (i \in 2 .. Len(mgmt_q) + 1 /\ i - 1 \in Queued)
    BY <1>1, <2>1 DEF Queued
  <2>3. Queued = {} => Queued' = {1}
    BY <2>2
  <2> QED
    BY <2>1, <2>3 DEF QueuedOnly
<1> QED
  BY <1>2, <1>3 DEF Enqueues

\* The transmit thread takes the first frame.
LEMMA DequeueFrame ==
  ASSUME mgmt_q \in Seq(QueueFrames), mgmt_q # <<>>, mgmt_q' = Tail(mgmt_q)
  PROVE  /\ mgmt_q' \in Seq(QueueFrames) /\ Head(mgmt_q) \in QueueFrames
         /\ (Queued = {}) => Queued' = {} /\ Head(mgmt_q).kind = "mgmt"
         /\ \A kind \in Kinds : QueuedOnly(kind) =>
              \/ Head(mgmt_q).kind = "mgmt" /\ QueuedOnly(kind)'
              \/ Head(mgmt_q).kind = kind /\ Queued' = {}
<1>1. /\ mgmt_q' \in Seq(QueueFrames) /\ Len(mgmt_q) \in Nat /\ Len(mgmt_q) > 0
      /\ Len(mgmt_q') = Len(mgmt_q) - 1
      /\ \A i \in 1 .. Len(mgmt_q) - 1 : mgmt_q'[i] = mgmt_q[i + 1]
      /\ Head(mgmt_q) = mgmt_q[1] /\ mgmt_q[1] \in QueueFrames
  OBVIOUS
<1>2. \A i : i \in Queued' <=> i \in 1 .. Len(mgmt_q) - 1 /\ i + 1 \in Queued
  BY <1>1 DEF Queued
<1>3. ASSUME NEW kind \in Kinds, QueuedOnly(kind)
      PROVE  \/ Head(mgmt_q).kind = "mgmt" /\ QueuedOnly(kind)'
             \/ Head(mgmt_q).kind = kind /\ Queued' = {}
  <2>1. PICK i \in Queued : Queued = {i} /\ mgmt_q[i].kind = kind
    BY <1>3 DEF QueuedOnly
  <2>2. CASE i = 1
    BY <1>1, <1>2, <2>1, <2>2
  <2>3. CASE i # 1
    <3>1. i \in 2 .. Len(mgmt_q) /\ Head(mgmt_q).kind = "mgmt"
      BY <1>1, <2>1, <2>3 DEF Queued
    <3>2. Queued' = {i - 1} /\ mgmt_q'[i - 1].kind = kind
      BY <1>1, <1>2, <2>1, <3>1
    <3> QED
      BY <3>1, <3>2 DEF QueuedOnly
  <2> QED
    BY <2>2, <2>3
<1> QED
  BY <1>1, <1>2, <1>3 DEF Queued

-----------------------------------------------------------------------------
(***************************************************************************)
(* What pwr_sve_event_handler does to state and queue.                      *)
(***************************************************************************)
LEMMA KindOfRequest ==
  ASSUME NEW status
  PROVE  Kind(status) \in Kinds
BY DEF Kind, Kinds

\* send_ps_params_req queues a frame.
LEMMA SendFrame ==
  ASSUME NEW status, NEW head \in BOOLEAN, send_ps_params_req(status, head)
  PROVE  /\ \/ \E f \in Frames : f.kind = Kind(status) /\ Enqueues(f)
            \/ Faults /\ UNCHANGED mgmt_q
         /\ tx_event' = TRUE \/ tx_event' = tx_event
<1> DEFINE f == [kind |-> Kind(status), deep |-> ~Running]
<1>1. (~Running) \in BOOLEAN
  BY DEF Running
<1>2. f \in Frames
  BY <1>1, KindOfRequest DEF Frames, Kinds
<1>3. f.kind = Kind(status)
  OBVIOUS
<1>4. CASE Faults /\ UNCHANGED <<mgmt_q, tx_event>>
  BY <1>4
<1>5. CASE /\ mgmt_q' = IF head THEN <<f>> \o mgmt_q ELSE Append(mgmt_q, f)
           /\ tx_event' = TRUE
  <2>1. Enqueues(f)
    BY <1>5 DEF Enqueues
  <2> QED
    BY <1>2, <1>3, <1>5, <2>1
<1> QED
  BY <1>4, <1>5 DEF send_ps_params_req

Outcome == ps_state' \in PsStates /\ target' \in Targets /\ mgmt_q' \in Seq(QueueFrames)

LEMMA RequestTypes ==
  ASSUME TypeOK, NEW s \in PsStates, NEW status, NEW head \in BOOLEAN, NEW state \in Targets,
         Request(s, status, head, state)
  PROVE  Outcome /\ tx_event' \in BOOLEAN
<1>1. /\ send_ps_params_req(status, head)
      /\ ps_state' \in {s, "DIS_REQ_SENT"} /\ target' \in {target, state}
  BY DEF Request
<1>2. mgmt_q \in Seq(QueueFrames) /\ target \in Targets
  BY TypeParts DEF HandledData
<1>3. mgmt_q' \in Seq(QueueFrames)
  BY <1>1, <1>2, SendFrame, EnqueueRequest
<1>4. tx_event' \in BOOLEAN
  <2>1. tx_event' = TRUE \/ tx_event' = tx_event
    BY <1>1, SendFrame
  <2> QED
    BY <2>1, TypeParts DEF HandledFlags
<1>5. Outcome
  BY <1>1, <1>2, <1>3 DEF Outcome, PsStates
<1> QED
  BY <1>4, <1>5

LEMMA SettleTypes ==
  ASSUME TypeOK, NEW state \in PsStates, Settle(state)
  PROVE  Outcome /\ tx_event' \in BOOLEAN
BY TypeParts DEF Settle, Outcome, HandledFlags, HandledData

LEMMA StableTypes ==
  /\ \A s \in Stable : s \in PsStates
  /\ "DIS_REQ_SENT" \in Targets /\ "EN_REQ_QUEUED" \in Targets
BY DEF Stable, PsStates, Targets

\* The user's parameters are applied.
LEMMA ApplyUpdateTypes ==
  ASSUME TypeOK, NEW s \in Stable, NEW status, NEW head \in BOOLEAN, ApplyUpdate(s, status, head)
  PROVE  HandledFlags' /\ HandledData'
<1>1. update_ta' = FALSE /\ params' = params_ioctl
  BY DEF ApplyUpdate
<1>2. redo' = redo \/ redo' = TRUE
  BY DEF ApplyUpdate, ChangeParams
<1>3. (head \/ ~Running) \in BOOLEAN /\ FALSE \in BOOLEAN
  OBVIOUS
<1>4. \/ Settle(s)
      \/ Request(s, status, head, "DIS_REQ_SENT")
      \/ Request(s, "disable", (head \/ ~Running), "DIS_REQ_SENT")
      \/ Request(s, "enable", FALSE, "EN_REQ_QUEUED")
  BY DEF ApplyUpdate, ChangeParams
<1>5. Outcome /\ tx_event' \in BOOLEAN
  BY <1>3, <1>4, StableTypes, RequestTypes, SettleTypes
<1>6. HandledFlags'
  BY <1>1, <1>2, <1>5, TypeParts DEF HandledFlags
<1>7. params' \in Profiles \cup {"off"}
  BY <1>1 DEF TypeOK
<1> QED
  BY <1>5, <1>6, <1>7 DEF HandledData, Outcome

LEMMA RedoTypes ==
  ASSUME TypeOK, NEW s \in Stable, NEW head \in BOOLEAN, Redo(s, head)
  PROVE  HandledFlags' /\ HandledData'
<1>1. redo' = FALSE /\ UNCHANGED <<update_ta, params>>
  BY DEF Redo
<1>2. Settle(s) \/ Request(s, "enable", head, "EN_REQ_QUEUED")
  BY DEF Redo
<1>3. Outcome /\ tx_event' \in BOOLEAN
  BY <1>2, StableTypes, RequestTypes, SettleTypes
<1>4. HandledFlags'
  BY <1>1, <1>3, TypeParts DEF HandledFlags
<1> QED
  BY <1>1, <1>3, <1>4, TypeParts DEF HandledData, Outcome

\* The branches of pwr_sve_event_handler.
LEMMA HandlerBranches ==
  ASSUME TypeOK, NEW status, NEW pending, HandleRequest(status, pending)
  PROVE  \/ UNCHANGED handled
         \/ /\ UNCHANGED <<update_ta, redo, params>>
            /\ \/ Settle(ps_state)
               \/ /\ ps_state = "DEV_IN_PWR_SVE" /\ sc_nvaps >= 2
                  /\ Request(ps_state, "disable", FALSE, "DIS_REQ_SENT")
               \/ /\ ps_state = "DEV_IN_PWR_SVE" /\ pending
                  /\ Request(ps_state, status, TRUE, "DIS_REQ_SENT")
               \/ /\ ps_state \in Stable /\ sc_nvaps < 2
                  /\ Request(ps_state, status, pending,
                         IF status = "enable" THEN "EN_REQ_QUEUED" ELSE "DIS_REQ_SENT")
         \/ ps_state \in Stable /\ sc_nvaps < 2 /\ update_ta /\ ApplyUpdate(ps_state, status, pending)
         \/ ps_state \in Stable /\ sc_nvaps < 2 /\ Redo(ps_state, pending)
<1>1. sc_nvaps < 2 <=> ~(sc_nvaps >= 2)
  BY DEF TypeOK
<1>2. CASE Refused(status) \/ (sc_nvaps < 2 /\ ps_state \notin Stable)
  BY <1>2 DEF HandleRequest
<1>3. CASE ~Refused(status) /\ sc_nvaps >= 2
  BY <1>1, <1>3 DEF HandleRequest
<1>4. CASE ~Refused(status) /\ sc_nvaps < 2 /\ ps_state \in Stable
  <2>1. CASE pending /\ ps_state = "DEV_IN_PWR_SVE" /\ ~Running
    BY <1>1, <1>4, <2>1 DEF HandleRequest
  <2>2. CASE ~(pending /\ ps_state = "DEV_IN_PWR_SVE" /\ ~Running)
    BY <1>1, <1>4, <2>2 DEF HandleRequest
  <2> QED
    BY <2>1, <2>2
<1> QED
  BY <1>1, <1>2, <1>3, <1>4

LEMMA HandlerTypes ==
  ASSUME TypeOK, NEW status, NEW pending \in BOOLEAN, HandleRequest(status, pending)
  PROVE  HandledFlags' /\ HandledData'
<1>0. ps_state \in PsStates
  BY TypeParts DEF HandledData
<1>1. CASE UNCHANGED handled
  BY <1>1, TypeParts DEF handled, HandledFlags, HandledData
<1>2. ASSUME NEW st, NEW h \in BOOLEAN, NEW state \in {"DIS_REQ_SENT", "EN_REQ_QUEUED"},
             Request(ps_state, st, h, state), UNCHANGED <<update_ta, redo, params>>
      PROVE  HandledFlags' /\ HandledData'
  <2>1. Outcome /\ tx_event' \in BOOLEAN
    BY <1>0, <1>2, StableTypes, RequestTypes
  <2>2. HandledFlags'
    BY <1>2, <2>1, TypeParts DEF HandledFlags
  <2> QED
    BY <1>2, <2>1, <2>2, TypeParts DEF HandledData, Outcome
<1>3. CASE Settle(ps_state) /\ UNCHANGED <<update_ta, redo, params>>
  <2>1. HandledFlags'
    BY <1>3, TypeParts DEF Settle, HandledFlags
  <2> QED
    BY <1>3, <2>1, TypeParts DEF Settle, HandledData
<1>4. CASE ps_state \in Stable /\ ApplyUpdate(ps_state, status, pending)
  BY <1>4, ApplyUpdateTypes
<1>5. CASE ps_state \in Stable /\ Redo(ps_state, pending)
  BY <1>5, RedoTypes
<1>6. FALSE \in BOOLEAN /\ TRUE \in BOOLEAN
  OBVIOUS
<1>7. (IF status = "enable" THEN "EN_REQ_QUEUED" ELSE "DIS_REQ_SENT") \in {"DIS_REQ_SENT", "EN_REQ_QUEUED"}
  OBVIOUS
<1> QED
  BY <1>1, <1>2, <1>3, <1>4, <1>5, <1>6, <1>7, HandlerBranches

LEMMA AfterConfirmTypes ==
  ASSUME TypeOK, NEW s \in Stable, AfterConfirm(s)
  PROVE  HandledFlags' /\ HandledData'
<1>1. CASE ApplyUpdate(s, "disable", FALSE)
  BY <1>1, ApplyUpdateTypes
<1>2. CASE Redo(s, FALSE)
  BY <1>2, RedoTypes
<1>3. CASE Settle(s) /\ UNCHANGED <<update_ta, redo, params>>
  <2>1. Outcome
    BY <1>3, StableTypes, SettleTypes
  <2>2. HandledFlags'
    BY <1>3, TypeParts DEF HandledFlags, Settle
  <2> QED
    BY <1>3, <2>1, <2>2, TypeParts DEF HandledData, Outcome
<1> QED
  BY <1>1, <1>2, <1>3 DEF AfterConfirm

LEMMA ConfirmTypes ==
  ASSUME TypeOK, NEW kind, HandleConfirm(kind)
  PROVE  HandledFlags' /\ HandledData' /\ timer' \in {"unset", "off", "on"}
<1>0. ps_state \in PsStates /\ "NONE" \in PsStates /\ timer \in {"unset", "off", "on"}
  BY TypeParts DEF HandledData, OtherData, PsStates
<1>1. CASE sc_nvaps >= 2
  <2>1. UNCHANGED <<update_ta, redo, params, timer>>
    BY <1>1 DEF HandleConfirm
  <2>2. Request(ps_state, "disable", FALSE, "DIS_REQ_SENT") \/ \E s \in {"NONE", ps_state} : Settle(s)
    BY <1>1 DEF HandleConfirm
  <2>3. Outcome /\ tx_event' \in BOOLEAN
    BY <1>0, <2>2, StableTypes, RequestTypes, SettleTypes
  <2>4. HandledFlags'
    BY <2>1, <2>3, TypeParts DEF HandledFlags
  <2> QED
    BY <1>0, <2>1, <2>3, <2>4, TypeParts DEF HandledData, Outcome
<1>2. CASE SleepConfirmed
  <2>1. /\ ps_state' = "DEV_IN_PWR_SVE" /\ UNCHANGED <<target, update_ta, redo, params, mgmt_q, timer>>
        /\ tx_event' = (tx_event \/ (~Running /\ mgmt_q # <<>>))
    BY <1>2 DEF SleepConfirmed
  <2>2. tx_event' \in BOOLEAN
    BY <2>1, SMT
  <2>3. HandledFlags'
    BY <2>1, <2>2, TypeParts DEF HandledFlags
  <2> QED
    BY <1>0, <2>1, <2>3, TypeParts DEF HandledData, PsStates
<1>3. CASE WakeConfirmed
  <2>1. timer' \in {"unset", "off", "on"}
    BY <1>0, <1>3 DEF WakeConfirmed, ModTimer
  <2>2. CASE AfterConfirm("NONE")
    BY <2>1, <2>2, AfterConfirmTypes DEF Stable
  <2>3. CASE Settle("NONE") /\ UNCHANGED <<update_ta, redo, params>>
    <3>1. Outcome
      BY <1>0, <2>3, SettleTypes
    <3>2. HandledFlags'
      BY <2>3, TypeParts DEF HandledFlags, Settle
    <3> QED
      BY <2>1, <2>3, <3>1, <3>2, TypeParts DEF HandledData, Outcome
  <2> QED
    BY <1>3, <2>2, <2>3 DEF WakeConfirmed
<1>4. CASE ps_state \in Stable /\ AfterConfirm(ps_state) /\ UNCHANGED timer
  BY <1>0, <1>4, AfterConfirmTypes
<1>5. CASE UNCHANGED <<handled, timer>>
  <2>1. HandledFlags'
    BY <1>5, TypeParts DEF handled, HandledFlags
  <2> QED
    BY <1>0, <1>5, <2>1, TypeParts DEF handled, HandledData
<1> QED
  BY <1>1, <1>2, <1>3, <1>4, <1>5 DEF HandleConfirm

-----------------------------------------------------------------------------
LEMMA SameHandled ==
  ASSUME TypeOK, UNCHANGED handled
  PROVE  HandledFlags' /\ HandledData'
BY TypeParts DEF handled, HandledFlags, HandledData

LEMMA QueueMgmtTypes ==
  ASSUME TypeOK, QueueMgmt
  PROVE  HandledFlags' /\ HandledData'
<1>1. mgmt_q' \in Seq(QueueFrames)
  BY TypeParts, QueueMgmtKeeps DEF QueueMgmt, HandledData
<1>2. HandledFlags'
  BY TypeParts DEF QueueMgmt, HandledFlags
<1> QED
  BY <1>1, <1>2, TypeParts DEF QueueMgmt, HandledData

LEMMA HandledStep ==
  ASSUME TypeOK, Next
  PROVE  HandledFlags' /\ HandledData'
<1>1. ASSUME NEW p \in Profiles, Ioctl(p) PROVE HandledFlags' /\ HandledData'
  <2>1. HandledFlags'
    BY <1>1, TypeParts DEF Ioctl, HandledFlags
  <2> QED
    BY <1>1, <2>1, TypeParts DEF Ioctl, HandledData
<1>2. CASE IoctlCall
  BY <1>2, HandlerTypes, SameHandled DEF IoctlCall
<1>3. CASE CountPacket
  BY <1>3, SameHandled DEF CountPacket
<1>4. CASE DataCall
  BY <1>4, HandlerTypes, SameHandled DEF DataCall
<1>5. CASE TimerFires
  BY <1>5, SameHandled DEF TimerFires
<1>6. CASE TimerFeatures
  BY <1>6, HandlerTypes, SameHandled DEF TimerFeatures
<1>7. CASE TimerDecide
  BY <1>7, SameHandled DEF TimerDecide
<1>8. CASE TimerCall
  BY <1>8, HandlerTypes, SameHandled DEF TimerCall
<1>9. CASE TxStart
  <2>1. HandledFlags'
    BY <1>9, TypeParts DEF TxStart, HandledFlags
  <2> QED
    BY <1>9, <2>1, TypeParts DEF TxStart, HandledData
<1>10. CASE TxLoop
  BY <1>10, SameHandled DEF TxLoop
<1>11. CASE TxCheck
  BY <1>11, SameHandled DEF TxCheck
<1>12. CASE TxPending
  BY <1>12, SameHandled DEF TxPending
<1>13. CASE TxStopTimer
  BY <1>13, SameHandled DEF TxStopTimer
<1>14. CASE TxDeepSleep
  BY <1>14, SameHandled DEF TxDeepSleep
<1>15. CASE TxWake
  BY <1>15, HandlerTypes, SameHandled DEF TxWake
<1>16. CASE TxDequeue
  <2>1. HandledFlags'
    BY <1>16, TypeParts DEF TxDequeue, HandledFlags
  <2>2. mgmt_q' \in Seq(QueueFrames)
    BY <1>16, TypeParts, DequeueFrame DEF TxDequeue, HandledData
  <2> QED
    BY <1>16, <2>1, <2>2, TypeParts DEF TxDequeue, HandledData
<1>17. CASE TxWrite
  BY <1>17, SameHandled DEF TxWrite
<1>18. CASE TxMark
  <2>1. HandledFlags'
    BY <1>18, TypeParts DEF TxMark, HandledFlags
  <2> QED
    BY <1>18, <2>1, TypeParts DEF TxMark, HandledData, PsStates
<1>19. CASE FwFollow
  BY <1>19, SameHandled DEF FwFollow
<1>20. CASE RxConfirm
  BY <1>20, ConfirmTypes DEF RxConfirm
<1>21. CASE HandlerEnds
  <2>1. HandledFlags'
    BY <1>21, TypeParts DEF HandlerEnds, HandledFlags
  <2> QED
    BY <1>21, <2>1, TypeParts DEF HandlerEnds, HandledData, PsStates, Targets
<1>22. CASE ScanStart
  BY <1>22, QueueMgmtTypes DEF ScanStart
<1>23. CASE ScanEnd
  BY <1>23, QueueMgmtTypes, SameHandled DEF ScanEnd, handled
<1>24. CASE Join
  BY <1>24, QueueMgmtTypes DEF Join
<1>25. CASE AuthTimeout
  BY <1>25, QueueMgmtTypes, SameHandled DEF AuthTimeout, handled
<1>26. CASE Authenticated
  BY <1>26, QueueMgmtTypes DEF Authenticated
<1>27. CASE AssocTimeout
  BY <1>27, QueueMgmtTypes DEF AssocTimeout
<1>28. CASE Associated
  BY <1>28, QueueMgmtTypes, SameHandled DEF Associated, handled
<1>29. CASE EapolConfirm
  BY <1>29, SameHandled DEF EapolConfirm
<1>30. CASE LoadKeys
  BY <1>30, QueueMgmtTypes DEF LoadKeys
<1>31. CASE Connected
  BY <1>31, SameHandled DEF Connected
<1>32. CASE EapolFailed
  BY <1>32, QueueMgmtTypes DEF EapolFailed
<1>33. CASE Disconnect
  BY <1>33, QueueMgmtTypes DEF Disconnect
<1>34. CASE VapChange
  BY <1>34, SameHandled DEF VapChange
<1> QED
  BY <1>1, <1>2, <1>3, <1>4, <1>5, <1>6, <1>7, <1>8, <1>9, <1>10, <1>11, <1>12, <1>13, <1>14,
     <1>15, <1>16, <1>17, <1>18, <1>19, <1>20, <1>21, <1>22, <1>23, <1>24, <1>25, <1>26, <1>27,
     <1>28, <1>29, <1>30, <1>31, <1>32, <1>33, <1>34
  DEF Next, TimerStep, TxStep

LEMMA OtherFlagsStep ==
  ASSUME TypeOK, Next
  PROVE  OtherFlags'
<1>1. ASSUME NEW p \in Profiles, Ioctl(p) PROVE OtherFlags'
  BY <1>1, TypeParts DEF Ioctl, staVars, timerVars, devVars, OtherFlags
<1>2. CASE IoctlCall
  BY <1>2, TypeParts DEF IoctlCall, staVars, timerVars, devVars, OtherFlags
<1>3. CASE CountPacket
  BY <1>3, TypeParts DEF CountPacket, staVars, devVars, OtherFlags
<1>4. CASE DataCall
  BY <1>4, TypeParts DEF DataCall, staVars, timerVars, devVars, OtherFlags
<1>5. CASE TimerFires
  BY <1>5, TypeParts DEF TimerFires, staVars, devVars, OtherFlags
<1>6. CASE TimerFeatures
  BY <1>6, TypeParts DEF TimerFeatures, staVars, devVars, OtherFlags
<1>7. CASE TimerDecide
  BY <1>7, TypeParts DEF TimerDecide, staVars, devVars, OtherFlags
<1>8. CASE TimerCall
  BY <1>8, TypeParts DEF TimerCall, staVars, devVars, OtherFlags
<1>9. CASE TxStart
  BY <1>9, TypeParts DEF TxStart, staVars, timerVars, devVars, OtherFlags
<1>10. CASE TxLoop
  BY <1>10, TypeParts DEF TxLoop, staVars, timerVars, devVars, OtherFlags
<1>11. CASE TxCheck
  BY <1>11, TypeParts DEF TxCheck, staVars, timerVars, devVars, OtherFlags
<1>12. CASE TxPending
  BY <1>12, TypeParts DEF TxPending, staVars, timerVars, devVars, OtherFlags
<1>13. CASE TxStopTimer
  BY <1>13, TypeParts DEF TxStopTimer, staVars, devVars, OtherFlags
<1>14. CASE TxDeepSleep
  BY <1>14, TypeParts DEF TxDeepSleep, staVars, devVars, OtherFlags
<1>15. CASE TxWake
  BY <1>15, TypeParts DEF TxWake, staVars, timerVars, devVars, OtherFlags
<1>16. CASE TxDequeue
  BY <1>16, TypeParts DEF TxDequeue, staVars, timerVars, devVars, OtherFlags
<1>17. CASE TxWrite
  BY <1>17, TypeParts DEF TxWrite, staVars, timerVars, OtherFlags
<1>18. CASE TxMark
  BY <1>18, TypeParts DEF TxMark, staVars, timerVars, devVars, OtherFlags
<1>19. CASE FwFollow
  <2>1. dev_asleep' = (Head(to_fw) = "sleep")
    BY <1>19 DEF FwFollow
  <2>2. dev_asleep' \in BOOLEAN
    BY <2>1, SMT
  <2> QED
    BY <1>19, <2>2, TypeParts DEF FwFollow, staVars, timerVars, OtherFlags
<1>20. CASE RxConfirm
  BY <1>20, TypeParts DEF RxConfirm, staVars, OtherFlags
<1>21. CASE HandlerEnds
  BY <1>21, TypeParts DEF HandlerEnds, staVars, timerVars, devVars, OtherFlags
<1>22. CASE ScanStart
  BY <1>22, TypeParts DEF ScanStart, timerVars, devVars, OtherFlags
<1>23. CASE ScanEnd
  BY <1>23, TypeParts DEF ScanEnd, devVars, DelayDecision, OtherFlags
<1>24. CASE Join
  BY <1>24, TypeParts DEF Join, devVars, OtherFlags
<1>25. CASE AuthTimeout
  <2>1. reauth_state' \in BOOLEAN
    BY <1>25 DEF AuthTimeout
  <2> QED
    BY <1>25, <2>1, TypeParts DEF AuthTimeout, timerVars, devVars, OtherFlags
<1>26. CASE Authenticated
  BY <1>26, TypeParts DEF Authenticated, timerVars, devVars, OtherFlags
<1>27. CASE AssocTimeout
  BY <1>27, TypeParts DEF AssocTimeout, devVars, DelayDecision, OtherFlags
<1>28. CASE Associated
  BY <1>28, TypeParts DEF Associated, timerVars, devVars, OtherFlags
<1>29. CASE EapolConfirm
  BY <1>29, TypeParts DEF EapolConfirm, timerVars, devVars, OtherFlags
<1>30. CASE LoadKeys
  BY <1>30, TypeParts DEF LoadKeys, staVars, timerVars, devVars, OtherFlags
<1>31. CASE Connected
  <2>1. feature_due' = (feature_due \/ Running)
    BY <1>31 DEF Connected
  <2>2. feature_due' \in BOOLEAN
    BY <2>1, SMT
  <2> QED
    BY <1>31, <2>2, TypeParts DEF Connected, staVars, devVars, DelayDecision, OtherFlags
<1>32. CASE EapolFailed
  BY <1>32, TypeParts DEF EapolFailed, staVars, devVars, DelayDecision, OtherFlags
<1>33. CASE Disconnect
  BY <1>33, TypeParts DEF Disconnect, devVars, DelayDecision, OtherFlags
<1>34. CASE VapChange
  BY <1>34, TypeParts DEF VapChange, timerVars, devVars, OtherFlags
<1> QED
  BY <1>1, <1>2, <1>3, <1>4, <1>5, <1>6, <1>7, <1>8, <1>9, <1>10, <1>11, <1>12, <1>13, <1>14,
     <1>15, <1>16, <1>17, <1>18, <1>19, <1>20, <1>21, <1>22, <1>23, <1>24, <1>25, <1>26, <1>27,
     <1>28, <1>29, <1>30, <1>31, <1>32, <1>33, <1>34
  DEF Next, TimerStep, TxStep

LEMMA OtherDataStep ==
  ASSUME TypeOK, Next
  PROVE  OtherData'
<1>1. ASSUME NEW p \in Profiles, Ioctl(p) PROVE OtherData'
  BY <1>1, TypeParts DEF Ioctl, linkVars, staVars, timerVars, txVars, devVars, OtherData
<1>2. CASE IoctlCall
  BY <1>2, TypeParts DEF IoctlCall, linkVars, staVars, timerVars, txVars, devVars, HeldBy, OtherData
<1>3. CASE CountPacket
  BY <1>3, TypeParts DEF CountPacket, userVars, linkVars, staVars, txVars, devVars, ModTimer, OtherData
<1>4. CASE DataCall
  BY <1>4, TypeParts
  DEF DataCall, userVars, linkVars, staVars, timerVars, txVars, devVars, HeldBy, OtherData
<1>5. CASE TimerFires
  BY <1>5, TypeParts DEF TimerFires, userVars, linkVars, staVars, txVars, devVars, OtherData
<1>6. CASE TimerFeatures
  BY <1>6, TypeParts DEF TimerFeatures, userVars, linkVars, staVars, txVars, devVars, HeldBy, OtherData
<1>7. CASE TimerDecide
  BY <1>7, TypeParts DEF TimerDecide, userVars, linkVars, staVars, txVars, devVars, ModTimer, OtherData
<1>8. CASE TimerCall
  BY <1>8, TypeParts DEF TimerCall, userVars, linkVars, staVars, txVars, devVars, HeldBy, OtherData
<1>9. CASE TxStart
  BY <1>9, TypeParts DEF TxStart, userVars, linkVars, staVars, timerVars, devVars, OtherData
<1>10. CASE TxLoop
  BY <1>10, TypeParts DEF TxLoop, userVars, linkVars, staVars, timerVars, devVars, OtherData
<1>11. CASE TxCheck
  BY <1>11, TypeParts DEF TxCheck, userVars, linkVars, staVars, timerVars, devVars, OtherData
<1>12. CASE TxPending
  BY <1>12, TypeParts DEF TxPending, userVars, linkVars, staVars, timerVars, devVars, OtherData
<1>13. CASE TxStopTimer
  BY <1>13, TypeParts DEF TxStopTimer, userVars, linkVars, staVars, devVars, StopTimer, OtherData
<1>14. CASE TxDeepSleep
  BY <1>14, TypeParts DEF TxDeepSleep, userVars, linkVars, staVars, devVars, StopTimer, OtherData
<1>15. CASE TxWake
  BY <1>15, TypeParts DEF TxWake, userVars, linkVars, staVars, timerVars, devVars, HeldBy, OtherData
<1>16. CASE TxDequeue
  BY <1>16, TypeParts, DequeueFrame
  DEF TxDequeue, userVars, linkVars, staVars, timerVars, devVars, OtherData, HandledData
<1>17. CASE TxWrite
  <2>1. to_fw' \in Seq({"sleep", "wake"})
    BY <1>17, TypeParts, FrameKinds DEF TxWrite, OtherData
  <2> QED
    BY <1>17, <2>1, TypeParts DEF TxWrite, userVars, linkVars, staVars, timerVars, OtherData, QueueFrames
<1>18. CASE TxMark
  BY <1>18, TypeParts
  DEF TxMark, userVars, linkVars, staVars, timerVars, devVars, MarkDone, QueueFrames, OtherData
<1>19. CASE FwFollow
  BY <1>19, TypeParts DEF FwFollow, userVars, linkVars, staVars, timerVars, txVars, OtherData
<1>20. CASE RxConfirm
  BY <1>20, TypeParts, ConfirmTypes
  DEF RxConfirm, userVars, linkVars, staVars, txVars, HeldBy, OtherData
<1>21. CASE HandlerEnds
  BY <1>21, TypeParts
  DEF HandlerEnds, userVars, linkVars, staVars, timerVars, txVars, devVars, OtherData
<1>22. CASE ScanStart
  BY <1>22, TypeParts DEF ScanStart, userVars, linkVars, timerVars, txVars, devVars, OtherData
<1>23. CASE ScanEnd
  BY <1>23, TypeParts DEF ScanEnd, userVars, linkVars, txVars, devVars, DelayDecision, OtherData
<1>24. CASE Join
  BY <1>24, TypeParts DEF Join, userVars, linkVars, txVars, devVars, StopTimer, OtherData
<1>25. CASE AuthTimeout
  BY <1>25, TypeParts DEF AuthTimeout, userVars, linkVars, timerVars, txVars, devVars, OtherData
<1>26. CASE Authenticated
  BY <1>26, TypeParts DEF Authenticated, userVars, linkVars, timerVars, txVars, devVars, OtherData
<1>27. CASE AssocTimeout
  BY <1>27, TypeParts DEF AssocTimeout, userVars, txVars, devVars, DelayDecision, OtherData
<1>28. CASE Associated
  BY <1>28, TypeParts DEF Associated, userVars, timerVars, txVars, devVars, OtherData
<1>29. CASE EapolConfirm
  BY <1>29, TypeParts
  DEF EapolConfirm, userVars, timerVars, txVars, devVars, SetFlags, ConnFlags, OtherData
<1>30. CASE LoadKeys
  BY <1>30, TypeParts
  DEF LoadKeys, userVars, staVars, timerVars, txVars, devVars, SetFlags, ConnFlags, OtherData
<1>31. CASE Connected
  BY <1>31, TypeParts DEF Connected, userVars, staVars, txVars, devVars, DelayDecision, OtherData
<1>32. CASE EapolFailed
  BY <1>32, TypeParts DEF EapolFailed, userVars, staVars, txVars, devVars, DelayDecision, OtherData
<1>33. CASE Disconnect
  BY <1>33, TypeParts DEF Disconnect, userVars, txVars, devVars, DelayDecision, OtherData
<1>34. CASE VapChange
  BY <1>34, TypeParts DEF VapChange, userVars, linkVars, timerVars, txVars, devVars, OtherData
<1> QED
  BY <1>1, <1>2, <1>3, <1>4, <1>5, <1>6, <1>7, <1>8, <1>9, <1>10, <1>11, <1>12, <1>13, <1>14,
     <1>15, <1>16, <1>17, <1>18, <1>19, <1>20, <1>21, <1>22, <1>23, <1>24, <1>25, <1>26, <1>27,
     <1>28, <1>29, <1>30, <1>31, <1>32, <1>33, <1>34
  DEF Next, TimerStep, TxStep

(***************************************************************************)
(* The fields of drv_params, the program points, the queues and the frames  *)
(* keep their types through every interleaving of the contexts of           *)
(* onebox_ps.c, with a second vap, failing allocations and lost handshakes. *)
(***************************************************************************)
THEOREM TypeCorrect == Spec => []TypeOK
<1>1. Init => TypeOK
  <2>1. Init => HandledFlags /\ OtherFlags
    BY DEF Init, HandledFlags, OtherFlags
  <2>2. Init => HandledData /\ OtherData
    BY DEF Init, HandledData, OtherData, QueueFrames, PsStates, Targets
  <2> QED
    BY <2>1, <2>2, TypeParts
<1>2. TypeOK /\ [Next]_vars => TypeOK'
  <2>1. TypeOK /\ Next => HandledFlags' /\ OtherFlags' /\ HandledData' /\ OtherData'
    BY HandledStep, OtherFlagsStep, OtherDataStep
  <2>2. TypeOK /\ UNCHANGED vars => HandledFlags' /\ OtherFlags'
    BY TypeParts DEF vars, HandledFlags, OtherFlags, handled, staVars, timerVars, devVars
  <2>3. TypeOK /\ UNCHANGED vars => HandledData' /\ OtherData'
    BY TypeParts DEF vars, HandledData, OtherData, handled, userVars, staVars, linkVars, timerVars, txVars, devVars
  <2>4. HandledFlags' /\ OtherFlags' /\ HandledData' /\ OtherData' => TypeOK'
    BY DEF TypeOK, HandledFlags, OtherFlags, HandledData, OtherData, QueueFrames, PsStates, Targets
  <2> QED
    BY <2>1, <2>2, <2>3, <2>4
<1> QED
  BY <1>1, <1>2, PTL DEF Spec

-----------------------------------------------------------------------------
(***************************************************************************)
(* The requests.  Quiet: none is under way.  Alone(kind): exactly one is,   *)
(* in one of the four places a request passes through.                      *)
(***************************************************************************)
Quiet == confirms = <<>> /\ to_fw = <<>> /\ InHand = <<>> /\ Queued = {}

Alone(kind) ==
  \/ confirms = <<kind>> /\ to_fw = <<>> /\ InHand = <<>> /\ Queued = {}
  \/ confirms = <<>> /\ to_fw = <<kind>> /\ InHand = <<>> /\ Queued = {}
  \/ confirms = <<>> /\ to_fw = <<>> /\ InHand = <<kind>> /\ Queued = {}
  \/ confirms = <<>> /\ to_fw = <<>> /\ InHand = <<>> /\ QueuedOnly(kind)

\* Only a sleep request leaves PS_STATE for later, in a stable state.
LockInv ==
  /\ target \in {"none", "EN_REQ_QUEUED"}
  /\ target # "none" => ps_state \in Stable

MarkInv == tx_pc = "mark" => tx_frame.kind # "mgmt"

PlaceInv ==
  /\ State \in Stable => Quiet
  /\ State = "DIS_REQ_SENT" => Alone("wake") \/ (Faults /\ Quiet)
  /\ State = "EN_REQ_SENT" => Alone("sleep") \/ (Faults /\ Quiet)
  /\ State = "EN_REQ_QUEUED" => Alone("sleep") \/ Quiet

DeviceInv ==
  /\ State = "NONE" => ~dev_asleep
  /\ State = "DEV_IN_PWR_SVE" => dev_asleep
  /\ confirms = <<"sleep">> => dev_asleep
  /\ confirms = <<"wake">> => ~dev_asleep

\* What waits to be applied is what the user asked for.
UpdateInv == update_ta => params_ioctl \in Profiles

Agreement == UpdateInv /\ LockInv /\ MarkInv /\ PlaceInv /\ DeviceInv

RequestInv == TypeOK /\ Agreement

LEMMA StateInLock ==
  /\ LockFree => State = ps_state
  /\ LockInv /\ ~LockFree => State = "EN_REQ_QUEUED"
BY DEF State, LockFree, LockInv

LEMMA StateTypes ==
  ASSUME TypeOK
  PROVE  State \in PsStates
BY TypeParts DEF HandledData, State, LockFree, PsStates, Targets

LEMMA PlacesAgree ==
  ASSUME RequestInv
  PROVE  RequestMatchesState /\ StateMatchesDevice
<1> USE DEF RequestInv, Agreement
<1>1. InHand \in {<<>>, <<tx_frame.kind>>}
  BY DEF InHand
<1>2. Quiet => NoRequest
  BY DEF Quiet, NoRequest, Sent
<1>3. ASSUME NEW kind \in Kinds, Alone(kind)
      PROVE  OnlyRequest(kind)
  <2>0. <<>> \o <<>> = <<>> /\ <<kind>> \o <<>> = <<kind>> /\ <<>> \o <<kind>> = <<kind>>
    OBVIOUS
  <2>1. ASSUME Queued = {},
               \/ confirms = <<kind>> /\ to_fw = <<>> /\ InHand = <<>>
               \/ confirms = <<>> /\ to_fw = <<kind>> /\ InHand = <<>>
               \/ confirms = <<>> /\ to_fw = <<>> /\ InHand = <<kind>>
        PROVE  OnlyRequest(kind)
    <3>1. Sent = <<kind>>
      BY <2>0, <2>1, Zenon DEF Sent
    <3> QED
      BY <2>1, <3>1 DEF OnlyRequest
  <2>2. CASE confirms = <<>> /\ to_fw = <<>> /\ InHand = <<>> /\ QueuedOnly(kind)
    <3>1. Sent = <<>>
      BY <2>2 DEF Sent
    <3> QED
      BY <2>2, <3>1 DEF OnlyRequest, QueuedOnly
  <2> QED
    BY <1>3, <2>1, <2>2 DEF Alone
<1>4. RequestMatchesState
  <2>1. CASE State \in Stable
    BY <1>2, <2>1 DEF RequestMatchesState, PlaceInv, Stable
  <2>2. CASE State = "DIS_REQ_SENT"
    BY <1>2, <1>3, <2>2 DEF RequestMatchesState, PlaceInv, Stable, Kinds
  <2>3. CASE State = "EN_REQ_SENT"
    BY <1>2, <1>3, <2>3 DEF RequestMatchesState, PlaceInv, Stable, Kinds
  <2>4. CASE State = "EN_REQ_QUEUED"
    BY <1>2, <1>3, <2>4 DEF RequestMatchesState, PlaceInv, Stable, Kinds
  <2> QED
    BY <2>1, <2>2, <2>3, <2>4, StateTypes DEF PsStates, Stable
<1>5. StateMatchesDevice
  <2>1. dev_asleep \in BOOLEAN
    BY DEF TypeOK
  <2>2. CASE State = "NONE"
    <3>1. ~dev_asleep /\ State # "DEV_IN_PWR_SVE"
      BY <2>2 DEF DeviceInv
    <3> QED
      BY <2>1, <3>1 DEF StateMatchesDevice
  <2>3. CASE State = "DEV_IN_PWR_SVE"
    <3>1. dev_asleep
      BY <2>3 DEF DeviceInv
    <3> QED
      BY <2>1, <2>3, <3>1 DEF StateMatchesDevice
  <2> QED
    BY <2>2, <2>3 DEF StateMatchesDevice, Stable
<1> QED
  BY <1>4, <1>5

-----------------------------------------------------------------------------
(***************************************************************************)
(* The contract of the handler: while the user does not switch power save   *)
(* off, it leaves state and queue alone, or it asks the device for a change *)
(* and the state waits for it.                                              *)
(***************************************************************************)
Waits(kind) == IF kind = "sleep" THEN "EN_REQ_QUEUED" ELSE "DIS_REQ_SENT"

Asks(kind) ==
  /\ IF kind = "sleep"
     THEN target' = "EN_REQ_QUEUED" /\ ps_state' \in Stable
     ELSE target' = "none" /\ ps_state' = "DIS_REQ_SENT"
  /\ (\E f \in Frames : f.kind = kind /\ Enqueues(f)) \/ (Faults /\ UNCHANGED mgmt_q)

LEMMA RequestAsks ==
  ASSUME LockFree, NEW s, NEW status, NEW head \in BOOLEAN, NEW state, Request(s, status, head, state),
         Kind(status) = "sleep" => s \in Stable /\ state = "EN_REQ_QUEUED"
  PROVE  \E kind \in Kinds : Asks(kind)
<1>1. Kind(status) \in Kinds
  BY KindOfRequest
<1>2. /\ send_ps_params_req(status, head)
      /\ ps_state' = IF Kind(status) = "wake" THEN "DIS_REQ_SENT" ELSE s
      /\ target' = IF Kind(status) = "wake" THEN target ELSE state
  BY DEF Request
<1>3. (\E f \in Frames : f.kind = Kind(status) /\ Enqueues(f)) \/ (Faults /\ UNCHANGED mgmt_q)
  BY <1>2, SendFrame
<1>4. Asks(Kind(status))
  BY <1>1, <1>2, <1>3 DEF Asks, LockFree, Kinds
<1> QED
  BY <1>1, <1>4

\* Which kind a caller gets.
LEMMA KindByStatus ==
  /\ Kind("disable") = "wake"
  /\ sc_nvaps < 2 => Kind("enable") = "sleep"
  /\ \A status : status # "enable" => Kind(status) = "wake"
BY DEF Kind

LEMMA ApplyUpdateAsks ==
  ASSUME LockFree, NEW s \in Stable, NEW status, NEW head \in BOOLEAN, PsEn(params_ioctl),
         ApplyUpdate(s, status, head)
  PROVE  /\ update_ta' = FALSE
         /\ Settle(s) \/ \E kind \in Kinds : Asks(kind)
<1>1. CASE Settle(s)
  BY <1>1 DEF ApplyUpdate
<1>2. CASE Request(s, "disable", (head \/ ~Running), "DIS_REQ_SENT")
  <2>1. (head \/ ~Running) \in BOOLEAN
    OBVIOUS
  <2> QED
    BY <1>2, <2>1, RequestAsks, KindByStatus DEF ApplyUpdate
<1>3. CASE Request(s, "enable", FALSE, "EN_REQ_QUEUED")
  BY <1>3, RequestAsks DEF ApplyUpdate
<1> QED
  BY <1>1, <1>2, <1>3 DEF ApplyUpdate, ChangeParams

LEMMA RedoAsks ==
  ASSUME LockFree, NEW s \in Stable, NEW head \in BOOLEAN, Redo(s, head)
  PROVE  /\ update_ta' = update_ta
         /\ Settle(s) \/ \E kind \in Kinds : Asks(kind)
<1>1. CASE Request(s, "enable", head, "EN_REQ_QUEUED")
  BY <1>1, RequestAsks DEF Redo
<1> QED
  BY <1>1 DEF Redo

\* Either nothing happens to state and queue, or the handler asks in a stable state.
Answers ==
  \/ UNCHANGED <<ps_state, target, mgmt_q>>
  \/ LockFree /\ ps_state \in Stable /\ \E kind \in Kinds : Asks(kind)

LEMMA HandlerAsks ==
  ASSUME TypeOK, UpdateInv, LockFree, "off" \notin Profiles, NEW status, NEW pending \in BOOLEAN,
         pending => status # "enable", HandleRequest(status, pending)
  PROVE  (update_ta' => update_ta) /\ Answers
<1>0. FALSE \in BOOLEAN /\ TRUE \in BOOLEAN
  OBVIOUS
<1>1. CASE UNCHANGED handled
  BY <1>1 DEF handled, Answers
<1>2. CASE Settle(ps_state) /\ UNCHANGED <<update_ta, redo, params>>
  BY <1>2 DEF Settle, Answers
<1>3. CASE /\ ps_state = "DEV_IN_PWR_SVE" /\ sc_nvaps >= 2
           /\ Request(ps_state, "disable", FALSE, "DIS_REQ_SENT")
           /\ UNCHANGED <<update_ta, redo, params>>
  BY <1>0, <1>3, RequestAsks, KindByStatus DEF Stable, Answers
<1>4. CASE /\ ps_state = "DEV_IN_PWR_SVE" /\ pending
           /\ Request(ps_state, status, TRUE, "DIS_REQ_SENT")
           /\ UNCHANGED <<update_ta, redo, params>>
  BY <1>0, <1>4, RequestAsks, KindByStatus DEF Stable, Answers
<1>5. CASE /\ ps_state \in Stable /\ sc_nvaps < 2
           /\ Request(ps_state, status, pending, IF status = "enable" THEN "EN_REQ_QUEUED" ELSE "DIS_REQ_SENT")
           /\ UNCHANGED <<update_ta, redo, params>>
  <2> DEFINE state == IF status = "enable" THEN "EN_REQ_QUEUED" ELSE "DIS_REQ_SENT"
  <2>1. Kind(status) = "sleep" => state = "EN_REQ_QUEUED"
    BY KindByStatus
  <2>2. Request(ps_state, status, pending, state)
    BY <1>5
  <2> HIDE DEF state
  <2> QED
    BY <1>5, <2>1, <2>2, RequestAsks DEF Answers
<1>6. CASE ps_state \in Stable /\ sc_nvaps < 2 /\ update_ta /\ ApplyUpdate(ps_state, status, pending)
  <2>1. PsEn(params_ioctl)
    BY <1>6 DEF PsEn, UpdateInv
  <2> QED
    BY <1>6, <2>1, ApplyUpdateAsks DEF Settle, Answers
<1>7. CASE ps_state \in Stable /\ sc_nvaps < 2 /\ Redo(ps_state, pending)
  BY <1>7, RedoAsks DEF Settle, Answers
<1> QED
  BY <1>1, <1>2, <1>3, <1>4, <1>5, <1>6, <1>7, HandlerBranches

LEMMA AfterConfirmAsks ==
  ASSUME TypeOK, UpdateInv, LockFree, "off" \notin Profiles, NEW s \in Stable, AfterConfirm(s)
  PROVE  /\ update_ta' => update_ta
         /\ Settle(s) \/ \E kind \in Kinds : Asks(kind)
<1>1. CASE update_ta
  <2>1. PsEn(params_ioctl) /\ ApplyUpdate(s, "disable", FALSE)
    BY <1>1 DEF PsEn, UpdateInv, AfterConfirm
  <2> QED
    BY <1>1, <2>1, ApplyUpdateAsks
<1>2. CASE ~update_ta /\ redo
  BY <1>2, RedoAsks DEF AfterConfirm
<1>3. CASE ~update_ta /\ ~redo
  BY <1>3 DEF AfterConfirm
<1> QED
  BY <1>1, <1>2, <1>3

\* The confirm the state waits for ends the transition or starts the next one.
LEMMA ConfirmAsks ==
  ASSUME TypeOK, UpdateInv, LockFree, "off" \notin Profiles, NEW kind \in Kinds, HandleConfirm(kind),
         \/ ps_state = "EN_REQ_SENT" /\ kind = "sleep"
         \/ ps_state = "DIS_REQ_SENT" /\ kind = "wake"
  PROVE  /\ update_ta' => update_ta
         /\ \/ /\ ps_state' = (IF kind = "sleep" THEN "DEV_IN_PWR_SVE" ELSE "NONE")
               /\ UNCHANGED <<target, mgmt_q>>
            \/ \E k \in Kinds : Asks(k)
<1>0. FALSE \in BOOLEAN /\ (sc_nvaps < 2 <=> ~(sc_nvaps >= 2))
  BY DEF TypeOK
<1>1. CASE sc_nvaps >= 2
  <2>1. CASE Request(ps_state, "disable", FALSE, "DIS_REQ_SENT")
    BY <1>0, <1>1, <2>1, RequestAsks, KindByStatus DEF HandleConfirm
  <2>2. CASE kind = "wake" /\ ~Request(ps_state, "disable", FALSE, "DIS_REQ_SENT")
    BY <1>1, <2>2 DEF HandleConfirm, Settle
  <2> QED
    BY <1>1, <2>1, <2>2 DEF HandleConfirm, Kinds
<1>2. CASE sc_nvaps < 2 /\ kind = "sleep"
  BY <1>0, <1>2 DEF HandleConfirm, SleepConfirmed
<1>3. CASE sc_nvaps < 2 /\ kind = "wake"
  <2>1. WakeConfirmed
    BY <1>0, <1>3 DEF HandleConfirm
  <2>2. CASE Busy
    BY <1>3, <2>1, <2>2 DEF WakeConfirmed, Settle
  <2>3. CASE ~Busy
    BY <1>3, <2>1, <2>3, AfterConfirmAsks DEF WakeConfirmed, Settle, Stable
  <2> QED
    BY <2>2, <2>3
<1> QED
  BY <1>0, <1>1, <1>2, <1>3 DEF Kinds

\* A confirm that comes before the state has been marked changes nothing.
LEMMA ConfirmIgnored ==
  ASSUME ps_state = "EN_REQ_QUEUED", NEW kind, HandleConfirm(kind)
  PROVE  UNCHANGED <<ps_state, target, mgmt_q, update_ta>>
<1>1. CASE sc_nvaps >= 2
  BY <1>1 DEF HandleConfirm, Settle
<1>2. CASE ~(sc_nvaps >= 2)
  BY <1>2 DEF HandleConfirm, handled, Stable
<1> QED
  BY <1>1, <1>2

-----------------------------------------------------------------------------
\* Nothing happens to a request or to the state.
LEMMA Undisturbed ==
  ASSUME PlaceInv, UNCHANGED <<State, to_fw, confirms, InHand>>,
         (Queued = {}) => (Queued' = {}), \A kind \in Kinds : QueuedOnly(kind) => QueuedOnly(kind)'
  PROVE  PlaceInv'
<1>1. Quiet => Quiet'
  BY DEF Quiet
<1>2. \A kind \in Kinds : Alone(kind) => Alone(kind)'
  BY DEF Alone
<1> QED
  BY <1>1, <1>2 DEF PlaceInv, Kinds

\* The handler asks in a stable state, or where a confirm has ended a transition.
LEMMA Asked ==
  ASSUME TypeOK, NEW kind \in Kinds, Asks(kind), Queued = {},
         confirms' = <<>> /\ to_fw' = <<>> /\ InHand' = <<>>
  PROVE  LockInv' /\ PlaceInv' /\ State' \notin Stable
<1>1. State' = Waits(kind) /\ State' \notin Stable /\ LockInv'
  BY DEF Asks, Waits, Stable, State, LockFree, LockInv
<1>2. CASE Faults /\ UNCHANGED mgmt_q
  <2>1. Quiet'
    BY <1>2 DEF Quiet, Queued
  <2> QED
    BY <1>1, <1>2, <2>1 DEF PlaceInv, Waits, Stable
<1>3. CASE \E f \in Frames : f.kind = kind /\ Enqueues(f)
  <2>1. QueuedOnly(kind)'
    BY <1>3, EnqueueRequest, TypeParts DEF HandledData
  <2>2. Alone(kind)'
    BY <2>1 DEF Alone
  <2> QED
    BY <1>1, <2>2 DEF PlaceInv, Waits, Stable, Kinds
<1> QED
  BY <1>1, <1>2, <1>3 DEF Asks

\* The transmit thread does nothing to the frame it has in hand.
SameHand == InHand' = InHand /\ (tx_pc' = "mark" => tx_pc = "mark" /\ tx_frame' = tx_frame)

SameSent == UNCHANGED <<to_fw, confirms, dev_asleep>> /\ SameHand

\* The driver's view of the device changes only with a confirm.
LEMMA DeviceKept ==
  ASSUME DeviceInv, UNCHANGED <<confirms, dev_asleep>>, State' = State \/ State' \notin Stable
  PROVE  DeviceInv'
BY DEF DeviceInv, Stable

LEMMA HandlerPlaces ==
  ASSUME RequestInv, SameSent, UpdateInv', Answers
  PROVE  Agreement'
<1> USE DEF RequestInv, Agreement
<1>1. MarkInv'
  BY DEF MarkInv, SameSent, SameHand
<1>2. CASE UNCHANGED <<ps_state, target, mgmt_q>>
  <2>1. State' = State /\ LockInv' /\ Queued' = Queued /\ \A kind \in Kinds : QueuedOnly(kind)' = QueuedOnly(kind)
    BY <1>2 DEF State, LockFree, LockInv, Queued, QueuedOnly
  <2> QED
    BY <1>1, <2>1, Undisturbed, DeviceKept DEF SameSent, SameHand
<1>3. CASE LockFree /\ ps_state \in Stable /\ \E kind \in Kinds : Asks(kind)
  <2>1. Quiet
    BY <1>3, StateInLock DEF PlaceInv
  <2>2. LockInv' /\ PlaceInv' /\ State' \notin Stable
    BY <1>3, <2>1, Asked DEF Quiet, SameSent, SameHand
  <2> QED
    BY <1>1, <2>2, DeviceKept DEF SameSent
<1> QED
  BY <1>2, <1>3 DEF Answers

LEMMA QueueMgmtPlaces ==
  ASSUME RequestInv, SameSent, UpdateInv', QueueMgmt
  PROVE  Agreement'
<1> USE DEF RequestInv, Agreement
<1>1. MarkInv'
  BY DEF MarkInv, SameSent, SameHand
<1>2. State' = State /\ LockInv'
  BY DEF QueueMgmt, State, LockFree, LockInv
<1>3. PlaceInv'
  BY <1>2, QueueMgmtKeeps, Undisturbed, TypeParts DEF HandledData, QueueMgmt, SameSent, SameHand
<1> QED
  BY <1>1, <1>2, <1>3, DeviceKept DEF SameSent

LEMMA RequestStep ==
  ASSUME Usb, "off" \notin Profiles, RequestInv, Next
  PROVE  Agreement'
<1> USE DEF RequestInv, Agreement
<1>1. ASSUME NEW p \in Profiles, Ioctl(p) PROVE Agreement'
  <2>1. SameSent
    BY <1>1 DEF Ioctl, txVars, devVars, SameSent, SameHand, InHand
  <2>2. Answers /\ UpdateInv'
    BY <1>1 DEF Ioctl, Answers, UpdateInv
  <2> QED
    BY <2>1, <2>2, HandlerPlaces
<1>2. CASE IoctlCall
  <2>1. SameSent
    BY <1>2 DEF IoctlCall, txVars, devVars, SameSent, SameHand, InHand
  <2>2. params_ioctl' = params_ioctl /\ LockFree
    BY <1>2 DEF IoctlCall
  <2>3. HandleRequest(ioctl_pc, FALSE)
    BY <1>2 DEF IoctlCall
  <2>4. (update_ta' => update_ta) /\ Answers
    BY <2>2, <2>3, HandlerAsks
  <2>5. UpdateInv'
    BY <2>2, <2>4 DEF UpdateInv
  <2> QED
    BY <2>1, <2>4, <2>5, HandlerPlaces
<1>3. CASE CountPacket
  <2>1. SameSent
    BY <1>3 DEF CountPacket, txVars, devVars, SameSent, SameHand, InHand
  <2>2. Answers /\ UpdateInv'
    BY <1>3 DEF CountPacket, handled, userVars, Answers, UpdateInv
  <2> QED
    BY <2>1, <2>2, HandlerPlaces
<1>4. CASE DataCall
  <2>1. SameSent
    BY <1>4 DEF DataCall, txVars, devVars, SameSent, SameHand, InHand
  <2>2. params_ioctl' = params_ioctl /\ LockFree
    BY <1>4 DEF DataCall, userVars
  <2>3. HandleRequest("disable", FALSE)
    BY <1>4 DEF DataCall
  <2>4. (update_ta' => update_ta) /\ Answers
    BY <2>2, <2>3, HandlerAsks
  <2>5. UpdateInv'
    BY <2>2, <2>4 DEF UpdateInv
  <2> QED
    BY <2>1, <2>4, <2>5, HandlerPlaces
<1>5. CASE TimerFires
  <2>1. SameSent
    BY <1>5 DEF TimerFires, txVars, devVars, SameSent, SameHand, InHand
  <2>2. Answers /\ UpdateInv'
    BY <1>5 DEF TimerFires, handled, userVars, Answers, UpdateInv
  <2> QED
    BY <2>1, <2>2, HandlerPlaces
<1>6. CASE TimerFeatures
  <2>1. SameSent
    BY <1>6 DEF TimerFeatures, txVars, devVars, SameSent, SameHand, InHand
  <2>2. params_ioctl' = params_ioctl /\ LockFree
    BY <1>6 DEF TimerFeatures, userVars
  <2>3. HandleRequest("enable", FALSE) \/ UNCHANGED handled
    BY <1>6 DEF TimerFeatures
  <2>4. (update_ta' => update_ta) /\ Answers
    <3>1. CASE UNCHANGED handled
      BY <3>1 DEF handled, Answers
    <3>2. CASE HandleRequest("enable", FALSE)
      BY <2>2, <3>2, HandlerAsks
    <3> QED
      BY <2>3, <3>1, <3>2
  <2>5. UpdateInv'
    BY <2>2, <2>4 DEF UpdateInv
  <2> QED
    BY <2>1, <2>4, <2>5, HandlerPlaces
<1>7. CASE TimerDecide
  <2>1. SameSent
    BY <1>7 DEF TimerDecide, txVars, devVars, SameSent, SameHand, InHand
  <2>2. Answers /\ UpdateInv'
    BY <1>7 DEF TimerDecide, handled, userVars, Answers, UpdateInv
  <2> QED
    BY <2>1, <2>2, HandlerPlaces
<1>8. CASE TimerCall
  <2>1. SameSent
    BY <1>8 DEF TimerCall, txVars, devVars, SameSent, SameHand, InHand
  <2>2. params_ioctl' = params_ioctl /\ LockFree
    BY <1>8 DEF TimerCall, userVars
  <2>3. HandleRequest(IF timer_pc = "disable" THEN "disable" ELSE "enable", FALSE)
    BY <1>8 DEF TimerCall
  <2>4. (update_ta' => update_ta) /\ Answers
    BY <2>2, <2>3, HandlerAsks
  <2>5. UpdateInv'
    BY <2>2, <2>4 DEF UpdateInv
  <2> QED
    BY <2>1, <2>4, <2>5, HandlerPlaces
<1>9. CASE TxStart
  <2>1. SameSent
    BY <1>9 DEF TxStart, devVars, SameSent, SameHand, InHand
  <2>2. Answers /\ UpdateInv'
    BY <1>9 DEF TxStart, userVars, Answers, UpdateInv
  <2> QED
    BY <2>1, <2>2, HandlerPlaces
<1>10. CASE TxLoop
  <2>1. SameSent
    BY <1>10 DEF TxLoop, devVars, SameSent, SameHand, InHand
  <2>2. Answers /\ UpdateInv'
    BY <1>10 DEF TxLoop, handled, userVars, Answers, UpdateInv
  <2> QED
    BY <2>1, <2>2, HandlerPlaces
<1>11. CASE TxCheck
  <2>1. SameSent
    BY <1>11 DEF TxCheck, devVars, SameSent, SameHand, InHand
  <2>2. Answers /\ UpdateInv'
    BY <1>11 DEF TxCheck, handled, userVars, Answers, UpdateInv
  <2> QED
    BY <2>1, <2>2, HandlerPlaces
<1>12. CASE TxPending
  <2>1. SameSent
    BY <1>12 DEF TxPending, devVars, SameSent, SameHand, InHand
  <2>2. Answers /\ UpdateInv'
    BY <1>12 DEF TxPending, handled, userVars, Answers, UpdateInv
  <2> QED
    BY <2>1, <2>2, HandlerPlaces
<1>13. CASE TxStopTimer
  <2>1. SameSent
    BY <1>13 DEF TxStopTimer, devVars, SameSent, SameHand, InHand
  <2>2. Answers /\ UpdateInv'
    BY <1>13 DEF TxStopTimer, handled, userVars, Answers, UpdateInv
  <2> QED
    BY <2>1, <2>2, HandlerPlaces
<1>14. CASE TxDeepSleep
  <2>1. SameSent
    BY <1>14 DEF TxDeepSleep, devVars, SameSent, SameHand, InHand
  <2>2. Answers /\ UpdateInv'
    BY <1>14 DEF TxDeepSleep, handled, userVars, Answers, UpdateInv
  <2> QED
    BY <2>1, <2>2, HandlerPlaces
<1>15. CASE TxWake
  <2>1. SameSent
    BY <1>15 DEF TxWake, devVars, SameSent, SameHand, InHand
  <2>2. params_ioctl' = params_ioctl /\ LockFree
    BY <1>15 DEF TxWake, userVars
  <2>3. HandleRequest("disable", TRUE)
    BY <1>15 DEF TxWake
  <2>4. (update_ta' => update_ta) /\ Answers
    BY <2>2, <2>3, HandlerAsks
  <2>5. UpdateInv'
    BY <2>2, <2>4 DEF UpdateInv
  <2> QED
    BY <2>1, <2>4, <2>5, HandlerPlaces
<1>16. CASE TxDequeue
  <2>1. /\ UNCHANGED <<ps_state, target, update_ta, params_ioctl, to_fw, confirms, dev_asleep>>
        /\ mgmt_q # <<>> /\ mgmt_q' = Tail(mgmt_q) /\ tx_frame' = Head(mgmt_q)
        /\ tx_pc' = IF Head(mgmt_q).kind # "mgmt" THEN "mark" ELSE "write"
    BY <1>16 DEF TxDequeue, userVars, devVars
  <2>2. InHand = <<>> /\ InHand' = IF Head(mgmt_q).kind # "mgmt" THEN <<Head(mgmt_q).kind>> ELSE <<>>
    BY <1>16, <2>1 DEF TxDequeue, InHand
  <2>3. State' = State /\ LockInv' /\ MarkInv'
    BY <2>1 DEF State, LockFree, LockInv, MarkInv
  <2>4. UpdateInv' /\ DeviceInv'
    BY <2>1, <2>3, DeviceKept DEF UpdateInv
  <2>5. Quiet => Quiet'
    BY <2>1, <2>2, DequeueFrame, TypeParts DEF Quiet, HandledData
  <2>6. \A kind \in Kinds : Alone(kind) => Alone(kind)'
    <3>1. SUFFICES ASSUME NEW kind \in Kinds, Alone(kind)
                   PROVE  Alone(kind)'
      OBVIOUS
    <3>2. kind # "mgmt" /\ mgmt_q \in Seq(QueueFrames)
      BY TypeParts DEF Kinds, HandledData
    <3>3. CASE Queued = {}
      BY <2>1, <2>2, <3>1, <3>2, <3>3, DequeueFrame DEF Alone, QueuedOnly
    <3>4. CASE confirms = <<>> /\ to_fw = <<>> /\ QueuedOnly(kind)
      BY <2>1, <2>2, <3>2, <3>4, DequeueFrame DEF Alone
    <3> QED
      BY <2>2, <3>1, <3>3, <3>4 DEF Alone
  <2>7. PlaceInv'
    BY <2>3, <2>5, <2>6 DEF PlaceInv, Kinds
  <2> QED
    BY <2>3, <2>4, <2>7
<1>17. CASE TxWrite
  <2>1. /\ UNCHANGED <<ps_state, target, update_ta, params_ioctl, mgmt_q, confirms, dev_asleep>>
        /\ tx_pc = "write" /\ tx_pc' = "loop"
        /\ \/ to_fw' = IF tx_frame.kind = "mgmt" THEN to_fw ELSE Append(to_fw, tx_frame.kind)
           \/ Faults /\ to_fw' = to_fw
    BY <1>17 DEF TxWrite, userVars, handled
  <2>2. /\ InHand = IF tx_frame.kind # "mgmt" THEN <<tx_frame.kind>> ELSE <<>>
        /\ InHand' = <<>> /\ Queued' = Queued
        /\ \A kind \in Kinds : QueuedOnly(kind)' <=> QueuedOnly(kind)
    BY <2>1 DEF InHand, Queued, QueuedOnly
  <2>3. State' = State /\ LockInv' /\ MarkInv'
    BY <2>1 DEF State, LockFree, LockInv, MarkInv
  <2>4. UpdateInv' /\ DeviceInv'
    BY <2>1, <2>3, DeviceKept DEF UpdateInv
  <2>5. Quiet => Quiet'
    BY <2>1, <2>2 DEF Quiet
  <2>6. \A kind \in Kinds : Alone(kind) => Alone(kind)' \/ (Faults /\ Quiet')
    <3>1. SUFFICES ASSUME NEW kind \in Kinds, Alone(kind)
                   PROVE  Alone(kind)' \/ (Faults /\ Quiet')
      OBVIOUS
    <3>2. CASE tx_frame.kind = "mgmt"
      BY <2>1, <2>2, <3>1, <3>2 DEF Alone
    <3>3. CASE tx_frame.kind # "mgmt"
      <4>1. confirms = <<>> /\ to_fw = <<>> /\ tx_frame.kind = kind /\ Queued = {}
        BY <2>2, <3>1, <3>3 DEF Alone
      <4>2. to_fw' = <<kind>> \/ (Faults /\ to_fw' = <<>>)
        BY <2>1, <3>3, <4>1
      <4> QED
        BY <2>1, <2>2, <4>1, <4>2 DEF Alone, Quiet
    <3> QED
      BY <3>2, <3>3
  <2>7. PlaceInv'
    BY <2>3, <2>5, <2>6 DEF PlaceInv, Kinds
  <2> QED
    BY <2>3, <2>4, <2>7
<1>18. CASE TxMark
  <2>1. /\ UNCHANGED <<target, update_ta, params_ioctl, mgmt_q, to_fw, confirms, dev_asleep>>
        /\ tx_pc = "mark" /\ tx_pc' = "write" /\ tx_frame' = tx_frame
        /\ ps_state' = IF ps_state = "EN_REQ_QUEUED" /\ ~(tx_frame.kind = "wake" /\ tx_frame.deep)
                       THEN "EN_REQ_SENT" ELSE ps_state
    BY <1>18 DEF TxMark, MarkDone, userVars, devVars
  <2>2. /\ InHand' = InHand /\ Queued' = Queued
        /\ InHand = <<tx_frame.kind>>
        /\ \A kind \in Kinds : QueuedOnly(kind)' <=> QueuedOnly(kind)
    BY <2>1 DEF InHand, Queued, QueuedOnly, MarkInv
  <2>3. \A kind \in Kinds : Alone(kind) => Alone(kind)'
    BY <2>1, <2>2 DEF Alone
  <2>4. ~Quiet
    BY <2>2 DEF Quiet
  <2>5. /\ LockInv' /\ MarkInv' /\ UpdateInv'
        /\ State' = State \/ (State = "EN_REQ_QUEUED" /\ State' = "EN_REQ_SENT")
    BY <2>1 DEF LockInv, MarkInv, UpdateInv, State, LockFree, Stable
  <2>6. DeviceInv'
    BY <2>1, <2>5, DeviceKept DEF Stable
  <2>7. PlaceInv'
    BY <2>3, <2>4, <2>5 DEF PlaceInv, Kinds, Stable
  <2> QED
    BY <2>5, <2>6, <2>7
<1>19. CASE FwFollow
  <2>1. /\ UNCHANGED <<ps_state, target, update_ta, params_ioctl, mgmt_q>> /\ SameHand
        /\ to_fw # <<>> /\ to_fw' = Tail(to_fw) /\ confirms' = Append(confirms, Head(to_fw))
        /\ dev_asleep' = (Head(to_fw) = "sleep")
    BY <1>19 DEF FwFollow, userVars, txVars, handled, SameHand, InHand
  <2>2. State \notin Stable /\ ~Quiet
    BY <2>1 DEF PlaceInv, Quiet
  <2>3. PICK kind \in Kinds : /\ Alone(kind)
                              /\ State = "DIS_REQ_SENT" => kind = "wake"
                              /\ State \in {"EN_REQ_SENT", "EN_REQ_QUEUED"} => kind = "sleep"
    BY <2>2, StateTypes DEF PlaceInv, PsStates, Stable, Kinds
  <2>4. confirms = <<>> /\ to_fw = <<kind>> /\ InHand = <<>> /\ Queued = {}
    BY <2>1, <2>3 DEF Alone
  <2>5. Queued' = {} /\ to_fw' = <<>> /\ confirms' = <<kind>> /\ dev_asleep' = (kind = "sleep")
    BY <2>1, <2>4 DEF Queued
  <2>6. Alone(kind)'
    BY <2>1, <2>4, <2>5 DEF Alone, SameHand
  <2>7. State' = State /\ LockInv' /\ MarkInv' /\ UpdateInv'
    BY <2>1 DEF State, LockFree, LockInv, MarkInv, UpdateInv, SameHand
  <2>8. PlaceInv'
    BY <2>2, <2>3, <2>6, <2>7, StateTypes DEF PlaceInv, PsStates, Stable
  <2>9. DeviceInv'
    <3>1. State' \notin Stable
      BY <2>2, <2>7
    <3>2. CASE kind = "sleep"
      <4>1. dev_asleep' /\ confirms' = <<"sleep">>
        BY <2>5, <3>2
      <4> QED
        BY <3>1, <4>1 DEF DeviceInv, Stable
    <3>3. CASE kind = "wake"
      <4>1. ~dev_asleep' /\ confirms' = <<"wake">>
        BY <2>5, <3>3
      <4> QED
        BY <3>1, <4>1 DEF DeviceInv, Stable
    <3> QED
      BY <3>2, <3>3 DEF Kinds
  <2> QED
    BY <2>7, <2>8, <2>9
<1>20. CASE RxConfirm
  <2>1. /\ UNCHANGED <<params_ioctl, to_fw, dev_asleep>> /\ SameHand /\ LockFree
        /\ confirms # <<>> /\ confirms' = Tail(confirms) /\ HandleConfirm(Head(confirms))
    BY <1>20 DEF RxConfirm, userVars, txVars, SameHand, InHand
  <2>2. State = ps_state /\ ps_state \notin Stable /\ ~Quiet
    BY <2>1, StateInLock DEF PlaceInv, Quiet
  <2>3. PICK kind \in Kinds : /\ Alone(kind)
                              /\ \/ ps_state = "DIS_REQ_SENT" /\ kind = "wake"
                                 \/ ps_state \in {"EN_REQ_SENT", "EN_REQ_QUEUED"} /\ kind = "sleep"
    BY <2>2, StateTypes DEF PlaceInv, PsStates, Stable, Kinds
  <2>4. confirms = <<kind>> /\ to_fw = <<>> /\ InHand = <<>> /\ Queued = {}
    BY <2>1, <2>3 DEF Alone
  <2>5. confirms' = <<>> /\ to_fw' = <<>> /\ InHand' = <<>> /\ Head(confirms) = kind
    BY <2>1, <2>4 DEF SameHand
  <2>6. MarkInv'
    BY <2>1 DEF MarkInv, SameHand
  <2>7. CASE ps_state = "EN_REQ_QUEUED"
    <3>1. UNCHANGED <<ps_state, target, mgmt_q, update_ta>>
      BY <2>1, <2>7, ConfirmIgnored
    <3>2. Quiet' /\ State' = "EN_REQ_QUEUED" /\ LockInv' /\ UpdateInv'
      BY <2>1, <2>2, <2>4, <2>5, <2>7, <3>1 DEF Quiet, Queued, State, LockFree, LockInv, UpdateInv
    <3> QED
      BY <2>5, <2>6, <3>2 DEF PlaceInv, DeviceInv, Stable
  <2>8. CASE ps_state # "EN_REQ_QUEUED"
    <3>1. /\ update_ta' => update_ta
          /\ \/ /\ ps_state' = (IF kind = "sleep" THEN "DEV_IN_PWR_SVE" ELSE "NONE")
                /\ UNCHANGED <<target, mgmt_q>>
             \/ \E q \in Kinds : Asks(q)
      BY <2>1, <2>3, <2>5, <2>8, ConfirmAsks
    <3>2. UpdateInv'
      BY <2>1, <3>1 DEF UpdateInv
    <3>3. CASE \E q \in Kinds : Asks(q)
      <4>1. LockInv' /\ PlaceInv' /\ State' \notin Stable
        BY <2>4, <2>5, <3>3, Asked
      <4>2. DeviceInv'
        BY <2>5, <4>1 DEF DeviceInv, Stable
      <4> QED
        BY <2>6, <3>2, <4>1, <4>2
    <3>4. CASE /\ ps_state' = (IF kind = "sleep" THEN "DEV_IN_PWR_SVE" ELSE "NONE")
               /\ UNCHANGED <<target, mgmt_q>>
      <4>1. Quiet'
        BY <2>4, <2>5, <3>4 DEF Quiet, Queued
      <4>2. State' = (IF kind = "sleep" THEN "DEV_IN_PWR_SVE" ELSE "NONE") /\ LockInv'
        BY <2>1, <3>4 DEF State, LockFree, LockInv
      <4>3. PlaceInv'
        BY <4>1, <4>2 DEF PlaceInv
      <4>4. DeviceInv'
        BY <2>1, <2>3, <2>4, <2>5, <4>2 DEF DeviceInv, Kinds
      <4> QED
        BY <2>6, <3>2, <4>2, <4>3, <4>4
    <3> QED
      BY <3>1, <3>3, <3>4
  <2> QED
    BY <2>7, <2>8
<1>21. CASE HandlerEnds
  <2>1. SameSent
    BY <1>21 DEF HandlerEnds, txVars, devVars, SameSent, SameHand, InHand
  <2>2. UpdateInv' /\ MarkInv'
    BY <1>21, <2>1 DEF HandlerEnds, userVars, UpdateInv, MarkInv, SameSent, SameHand
  <2>3. State' = State /\ LockInv'
    BY <1>21 DEF HandlerEnds, State, LockFree, LockInv
  <2>4. Queued' = Queued /\ \A kind \in Kinds : QueuedOnly(kind)' = QueuedOnly(kind)
    BY <1>21 DEF HandlerEnds, Queued, QueuedOnly
  <2> QED
    BY <2>1, <2>2, <2>3, <2>4, Undisturbed, DeviceKept DEF SameSent, SameHand
<1>22. CASE ScanStart
  <2>1. SameSent
    BY <1>22 DEF ScanStart, txVars, devVars, SameSent, SameHand, InHand
  <2>2. UpdateInv'
    BY <1>22 DEF ScanStart, userVars, QueueMgmt, UpdateInv
  <2>3. QueueMgmt
    BY <1>22 DEF ScanStart
  <2> QED
    BY <2>1, <2>2, <2>3, QueueMgmtPlaces
<1>23. CASE ScanEnd
  <2>1. SameSent
    BY <1>23 DEF ScanEnd, txVars, devVars, SameSent, SameHand, InHand
  <2>2. UpdateInv'
    BY <1>23 DEF ScanEnd, handled, userVars, QueueMgmt, UpdateInv
  <2>3. QueueMgmt \/ Answers
    BY <1>23 DEF ScanEnd, handled, Answers
  <2> QED
    BY <2>1, <2>2, <2>3, QueueMgmtPlaces, HandlerPlaces
<1>24. CASE Join
  <2>1. SameSent
    BY <1>24 DEF Join, txVars, devVars, SameSent, SameHand, InHand
  <2>2. UpdateInv'
    BY <1>24 DEF Join, userVars, QueueMgmt, UpdateInv
  <2>3. QueueMgmt
    BY <1>24 DEF Join
  <2> QED
    BY <2>1, <2>2, <2>3, QueueMgmtPlaces
<1>25. CASE AuthTimeout
  <2>1. SameSent
    BY <1>25 DEF AuthTimeout, txVars, devVars, SameSent, SameHand, InHand
  <2>2. UpdateInv'
    BY <1>25 DEF AuthTimeout, handled, userVars, QueueMgmt, UpdateInv
  <2>3. QueueMgmt \/ Answers
    BY <1>25 DEF AuthTimeout, handled, Answers
  <2> QED
    BY <2>1, <2>2, <2>3, QueueMgmtPlaces, HandlerPlaces
<1>26. CASE Authenticated
  <2>1. SameSent
    BY <1>26 DEF Authenticated, txVars, devVars, SameSent, SameHand, InHand
  <2>2. UpdateInv'
    BY <1>26 DEF Authenticated, userVars, QueueMgmt, UpdateInv
  <2>3. QueueMgmt
    BY <1>26 DEF Authenticated
  <2> QED
    BY <2>1, <2>2, <2>3, QueueMgmtPlaces
<1>27. CASE AssocTimeout
  <2>1. SameSent
    BY <1>27 DEF AssocTimeout, txVars, devVars, SameSent, SameHand, InHand
  <2>2. UpdateInv'
    BY <1>27 DEF AssocTimeout, userVars, QueueMgmt, UpdateInv
  <2>3. QueueMgmt
    BY <1>27 DEF AssocTimeout
  <2> QED
    BY <2>1, <2>2, <2>3, QueueMgmtPlaces
<1>28. CASE Associated
  <2>1. SameSent
    BY <1>28 DEF Associated, txVars, devVars, SameSent, SameHand, InHand
  <2>2. UpdateInv'
    BY <1>28 DEF Associated, handled, userVars, QueueMgmt, UpdateInv
  <2>3. QueueMgmt \/ Answers
    BY <1>28 DEF Associated, handled, Answers
  <2> QED
    BY <2>1, <2>2, <2>3, QueueMgmtPlaces, HandlerPlaces
<1>29. CASE EapolConfirm
  <2>1. SameSent
    BY <1>29 DEF EapolConfirm, txVars, devVars, SameSent, SameHand, InHand
  <2>2. Answers /\ UpdateInv'
    BY <1>29 DEF EapolConfirm, handled, userVars, Answers, UpdateInv
  <2> QED
    BY <2>1, <2>2, HandlerPlaces
<1>30. CASE LoadKeys
  <2>1. SameSent
    BY <1>30 DEF LoadKeys, txVars, devVars, SameSent, SameHand, InHand
  <2>2. UpdateInv'
    BY <1>30 DEF LoadKeys, userVars, QueueMgmt, UpdateInv
  <2>3. QueueMgmt
    BY <1>30 DEF LoadKeys
  <2> QED
    BY <2>1, <2>2, <2>3, QueueMgmtPlaces
<1>31. CASE Connected
  <2>1. SameSent
    BY <1>31 DEF Connected, txVars, devVars, SameSent, SameHand, InHand
  <2>2. Answers /\ UpdateInv'
    BY <1>31 DEF Connected, handled, userVars, Answers, UpdateInv
  <2> QED
    BY <2>1, <2>2, HandlerPlaces
<1>32. CASE EapolFailed
  <2>1. SameSent
    BY <1>32 DEF EapolFailed, txVars, devVars, SameSent, SameHand, InHand
  <2>2. UpdateInv'
    BY <1>32 DEF EapolFailed, userVars, QueueMgmt, UpdateInv
  <2>3. QueueMgmt
    BY <1>32 DEF EapolFailed
  <2> QED
    BY <2>1, <2>2, <2>3, QueueMgmtPlaces
<1>33. CASE Disconnect
  <2>1. SameSent
    BY <1>33 DEF Disconnect, txVars, devVars, SameSent, SameHand, InHand
  <2>2. UpdateInv'
    BY <1>33 DEF Disconnect, userVars, QueueMgmt, UpdateInv
  <2>3. QueueMgmt
    BY <1>33 DEF Disconnect
  <2> QED
    BY <2>1, <2>2, <2>3, QueueMgmtPlaces
<1>34. CASE VapChange
  <2>1. SameSent
    BY <1>34 DEF VapChange, txVars, devVars, SameSent, SameHand, InHand
  <2>2. Answers /\ UpdateInv'
    BY <1>34 DEF VapChange, handled, userVars, Answers, UpdateInv
  <2> QED
    BY <2>1, <2>2, HandlerPlaces
<1> QED
  BY <1>1, <1>2, <1>3, <1>4, <1>5, <1>6, <1>7, <1>8, <1>9, <1>10, <1>11, <1>12, <1>13, <1>14,
     <1>15, <1>16, <1>17, <1>18, <1>19, <1>20, <1>21, <1>22, <1>23, <1>24, <1>25, <1>26, <1>27,
     <1>28, <1>29, <1>30, <1>31, <1>32, <1>33, <1>34
  DEF Next, TimerStep, TxStep

LEMMA RequestInit == Init => Agreement
<1> SUFFICES ASSUME Init PROVE Agreement
  OBVIOUS
<1>1. Quiet
  BY DEF Init, Quiet, InHand, Queued
<1> QED
  BY <1>1 DEF Init, Agreement, UpdateInv, LockInv, MarkInv, PlaceInv, DeviceInv, State, LockFree

(***************************************************************************)
(* Where a frame is written after its state change (USB) and the user only  *)
(* changes profiles, never switching power save off, every request under    *)
(* way is at one place, is the one the state waits for, and a stable state  *)
(* knows whether the device sleeps: through every interleaving, the         *)
(* transmit thread overtaking the handler included, failing allocations and *)
(* writes, and vaps that come and go.                                       *)
(***************************************************************************)
THEOREM RequestInvariant ==
  ASSUME Usb, "off" \notin Profiles
  PROVE  Spec => []RequestInv
<1>0. Usb /\ "off" \notin Profiles
  OBVIOUS
<1>1. Init => Agreement
  BY RequestInit
<1>2. Agreement /\ TypeOK /\ [Next]_vars => Agreement'
  <2>1. ASSUME Agreement, TypeOK, UNCHANGED vars
        PROVE  Agreement'
    <3>1. SameSent /\ Answers
      BY <2>1 DEF vars, handled, txVars, devVars, SameSent, SameHand, InHand, Answers
    <3>2. UpdateInv'
      BY <2>1 DEF vars, handled, userVars, Agreement, UpdateInv
    <3> QED
      BY <2>1, <3>1, <3>2, HandlerPlaces DEF RequestInv
  <2>2. ASSUME Agreement, TypeOK, Next
        PROVE  Agreement'
    BY <1>0, <2>2, RequestStep DEF RequestInv
  <2> QED
    BY <2>1, <2>2
<1> QED
  BY <1>1, <1>2, TypeCorrect, PTL DEF Spec, RequestInv

(***************************************************************************)
(* The handler never overtakes itself: in a stable state no request is      *)
(* under way, and in a transition only the one that the state waits for.    *)
(***************************************************************************)
THEOREM OneRequest ==
  ASSUME Usb, "off" \notin Profiles
  PROVE  Spec => []RequestMatchesState
<1>1. Spec => []RequestInv
  BY RequestInvariant
<1>2. RequestInv => RequestMatchesState
  BY PlacesAgree
<1> QED
  BY <1>1, <1>2, PTL

(***************************************************************************)
(* In PS_NONE the device is awake and in DEV_IN_PWR_SVE it sleeps.          *)
(***************************************************************************)
THEOREM DeviceAgrees ==
  ASSUME Usb, "off" \notin Profiles
  PROVE  Spec => []StateMatchesDevice
<1>1. Spec => []RequestInv
  BY RequestInvariant
<1>2. RequestInv => StateMatchesDevice
  BY PlacesAgree
<1> QED
  BY <1>1, <1>2, PTL

-----------------------------------------------------------------------------
(***************************************************************************)
(* Monitoring.  While a connection is set up the timer may be stopped and   *)
(* its function not yet set; CONNECTED_PATH sets both.  Afterwards a        *)
(* delayed decision has a running timer; the transmit thread stops the      *)
(* timer only for a station that is not connected and cannot become so      *)
(* before it dequeues.                                                      *)
(***************************************************************************)
StationInv ==
  /\ sc_nvaps = 1
  /\ iv_state \in {"AUTH", "ASSOC"} => ~scanning /\ ~delay_flag /\ conn_in_prog /\ link = "down"
  /\ iv_state \in {"INIT", "SCAN"} => link \in {"down", "connected"}

TimerInv ==
  /\ timer = "unset" => iv_state \in {"INIT", "SCAN"} \/ conn_in_prog \/ link \in {"handshake", "connected"}
  /\ timer_pc # "idle" => timer # "unset"
  /\ ~conn_in_prog /\ delay_flag
       => timer = "on" \/ tx_pc = "deep" \/ (Running /\ link \in {"handshake", "connected"})

ThreadInv ==
  /\ tx_pc \in {"check", "pending", "stop", "deep", "wake", "dequeue"} => mgmt_q # <<>>
  /\ tx_pc \in {"pending", "stop", "deep", "wake"} => ~Running

MonitorInv == TypeOK /\ StationInv /\ TimerInv /\ ThreadInv /\ MonitoringGoesOn

\* The handler only adds to the queue.
QueueKept == mgmt_q # <<>> => mgmt_q' # <<>>

LEMMA RequestKeepsQueue ==
  ASSUME TypeOK, NEW s, NEW status, NEW head \in BOOLEAN, NEW state, Request(s, status, head, state)
  PROVE  QueueKept
<1>1. mgmt_q \in Seq(QueueFrames)
  BY TypeParts DEF HandledData
<1>2. ASSUME NEW f \in Frames, Enqueues(f) PROVE mgmt_q' # <<>>
  <2>1. f \in QueueFrames
    BY DEF QueueFrames
  <2> QED
    BY <1>1, <1>2, <2>1 DEF Enqueues
<1>3. (\E f \in Frames : Enqueues(f)) \/ UNCHANGED mgmt_q
  BY SendFrame DEF Request
<1> QED
  BY <1>2, <1>3 DEF QueueKept

LEMMA ApplyUpdateKeepsQueue ==
  ASSUME TypeOK, NEW s, NEW status, NEW head \in BOOLEAN, ApplyUpdate(s, status, head)
  PROVE  QueueKept
<1>1. (head \/ ~Running) \in BOOLEAN
  OBVIOUS
<1>2. \/ Settle(s)
      \/ Request(s, status, head, "DIS_REQ_SENT")
      \/ Request(s, "disable", (head \/ ~Running), "DIS_REQ_SENT")
      \/ Request(s, "enable", FALSE, "EN_REQ_QUEUED")
  BY DEF ApplyUpdate, ChangeParams
<1> QED
  BY <1>1, <1>2, RequestKeepsQueue DEF Settle, QueueKept

LEMMA RedoKeepsQueue ==
  ASSUME TypeOK, NEW s, NEW head \in BOOLEAN, Redo(s, head)
  PROVE  QueueKept
<1>1. Settle(s) \/ Request(s, "enable", head, "EN_REQ_QUEUED")
  BY DEF Redo
<1> QED
  BY <1>1, RequestKeepsQueue DEF Settle, QueueKept

LEMMA HandlerKeepsQueue ==
  ASSUME TypeOK, NEW status, NEW pending \in BOOLEAN, HandleRequest(status, pending)
  PROVE  QueueKept
<1>1. CASE UNCHANGED handled
  BY <1>1 DEF handled, QueueKept
<1>2. CASE Settle(ps_state)
  BY <1>2 DEF Settle, QueueKept
<1>3. CASE \E st, state : \E h \in BOOLEAN : Request(ps_state, st, h, state)
  BY <1>3, RequestKeepsQueue
<1>4. CASE ApplyUpdate(ps_state, status, pending)
  BY <1>4, ApplyUpdateKeepsQueue
<1>5. CASE Redo(ps_state, pending)
  BY <1>5, RedoKeepsQueue
<1>6. FALSE \in BOOLEAN /\ TRUE \in BOOLEAN
  OBVIOUS
<1> QED
  BY <1>1, <1>2, <1>3, <1>4, <1>5, <1>6, HandlerBranches

LEMMA QueueMgmtKeepsQueue ==
  ASSUME TypeOK, QueueMgmt
  PROVE  QueueKept
<1>1. mgmt_q \in Seq(QueueFrames) /\ MgmtFrame \in QueueFrames
  BY TypeParts DEF HandledData, QueueFrames
<1>2. mgmt_q' = Append(mgmt_q, MgmtFrame)
  BY DEF QueueMgmt
<1>3. mgmt_q' # <<>>
  BY <1>1, <1>2
<1> QED
  BY <1>3 DEF QueueKept

(***************************************************************************)
(* After a call of the handler, power save is off for a connected station   *)
(* with one vap only if the user does not want it or the decision is        *)
(* delayed.                                                                 *)
(***************************************************************************)
LEMMA RequestLeavesNone ==
  ASSUME TypeOK, sc_nvaps = 1, NEW s, NEW status, NEW head,
         NEW state \in {"EN_REQ_QUEUED", "DIS_REQ_SENT"}, Request(s, status, head, state),
         LockFree
  PROVE  State' # "NONE"
<1>1. CASE Kind(status) = "wake"
  BY <1>1 DEF Request, State, LockFree
<1>2. CASE Kind(status) # "wake"
  BY <1>2 DEF Request, State, LockFree
<1> QED
  BY <1>1, <1>2

LEMMA HandlerDecides ==
  ASSUME TypeOK, LockFree, sc_nvaps = 1, Running, ~conn_in_prog, NEW status, HandleRequest(status, FALSE),
         State' = "NONE", PsEn(params')
  PROVE  delay_flag
<1>1. SUFFICES ASSUME ~delay_flag PROVE FALSE
  OBVIOUS
<1>2. ~Refused(status)
  BY <1>1 DEF Refused, Running
<1>3. sc_nvaps < 2 /\ ~(sc_nvaps >= 2)
  OBVIOUS
<1>4. CASE ps_state \notin Stable
  BY <1>2, <1>3, <1>4 DEF HandleRequest, handled, Stable, State, LockFree
<1>5. CASE ps_state \in Stable /\ update_ta
  <2>1. ApplyUpdate(ps_state, status, FALSE)
    BY <1>2, <1>3, <1>5 DEF HandleRequest
  <2>2. CASE \E st, h : \E state \in {"EN_REQ_QUEUED", "DIS_REQ_SENT"} : Request(ps_state, st, h, state)
    BY <2>2, RequestLeavesNone
  <2> QED
    BY <1>5, <2>1, <2>2 DEF ApplyUpdate, ChangeParams, Settle, Stable, State, LockFree
<1>6. CASE ps_state \in Stable /\ ~update_ta /\ PsEn(params)
  <2> DEFINE state == IF status = "enable" THEN "EN_REQ_QUEUED" ELSE "DIS_REQ_SENT"
  <2>1. Request(ps_state, status, FALSE, state)
    BY <1>2, <1>3, <1>6 DEF HandleRequest
  <2>2. state \in {"EN_REQ_QUEUED", "DIS_REQ_SENT"}
    OBVIOUS
  <2> HIDE DEF state
  <2> QED
    BY <2>1, <2>2, RequestLeavesNone
<1>7. CASE ps_state \in Stable /\ ~update_ta /\ ~PsEn(params)
  BY <1>2, <1>3, <1>7 DEF HandleRequest, Redo, handled
<1> QED
  BY <1>4, <1>5, <1>6, <1>7

\* What a confirm leaves behind.
LEMMA AfterConfirmDecides ==
  ASSUME TypeOK, LockFree, sc_nvaps = 1, NEW s \in Stable, AfterConfirm(s), State' = "NONE", PsEn(params')
  PROVE  s = "NONE" /\ params' = params
<1>0. ~\E st, h : \E state \in {"EN_REQ_QUEUED", "DIS_REQ_SENT"} : Request(s, st, h, state)
  BY RequestLeavesNone
<1>1. CASE update_ta
  BY <1>0, <1>1 DEF AfterConfirm, ApplyUpdate, ChangeParams, Settle, Stable, State, LockFree
<1>2. CASE ~update_ta /\ redo
  BY <1>0, <1>2 DEF AfterConfirm, Redo, Settle, State, LockFree
<1>3. CASE ~update_ta /\ ~redo
  BY <1>3 DEF AfterConfirm, Settle, State, LockFree
<1> QED
  BY <1>1, <1>2, <1>3

LEMMA AfterConfirmKeepsQueue ==
  ASSUME TypeOK, NEW s, AfterConfirm(s)
  PROVE  QueueKept
<1>1. FALSE \in BOOLEAN
  OBVIOUS
<1>2. ApplyUpdate(s, "disable", FALSE) \/ Redo(s, FALSE) \/ Settle(s)
  BY DEF AfterConfirm
<1> QED
  BY <1>1, <1>2, ApplyUpdateKeepsQueue, RedoKeepsQueue DEF Settle, QueueKept

\* The states in which somebody has to switch power save on.
Watched ==
  /\ Running /\ ~conn_in_prog /\ link \notin {"handshake", "connected"}
  /\ PsEn(params) /\ Traffic(params) /\ State = "NONE"

LEMMA ConfirmMonitors ==
  ASSUME TypeOK, LockFree, StationInv, TimerInv, NEW kind, HandleConfirm(kind),
         UNCHANGED <<iv_state, conn_in_prog, link>>
  PROVE  /\ QueueKept
         /\ timer' = timer \/ timer' = ModTimer
         /\ Watched' => timer' = "on" \/ (timer' = timer /\ params' = params /\ State = "NONE")
<1>1. sc_nvaps = 1 /\ ~(sc_nvaps >= 2)
  BY DEF StationInv
<1>2. CASE SleepConfirmed
  <2>1. State' # "NONE"
    BY <1>2 DEF SleepConfirmed, State, LockFree
  <2> QED
    BY <1>2, <2>1 DEF SleepConfirmed, QueueKept, Watched
<1>3. CASE WakeConfirmed
  <2>1. QueueKept
    BY <1>3, AfterConfirmKeepsQueue DEF WakeConfirmed, Settle, QueueKept
  <2>2. ASSUME Watched' PROVE timer' = "on"
    <3>1. /\ Running /\ ~conn_in_prog /\ link \notin {"handshake", "connected"}
          /\ PsEn(params') /\ Traffic(params') /\ State' = "NONE"
      BY <2>2 DEF Watched, Running
    <3>2. params' = params
      BY <1>1, <1>3, <3>1, AfterConfirmDecides DEF WakeConfirmed, Stable
    <3>3. timer # "unset"
      BY <3>1 DEF TimerInv, Running
    <3> QED
      BY <1>3, <3>1, <3>2, <3>3 DEF WakeConfirmed, ModTimer
  <2>3. timer' = timer \/ timer' = ModTimer
    BY <1>3 DEF WakeConfirmed
  <2> QED
    BY <2>1, <2>2, <2>3
<1>4. CASE ps_state \in Stable /\ AfterConfirm(ps_state) /\ UNCHANGED timer
  <2>1. QueueKept
    BY <1>4, AfterConfirmKeepsQueue
  <2>2. ASSUME Watched' PROVE params' = params /\ State = "NONE"
    <3>1. ps_state = "NONE" /\ params' = params
      BY <1>1, <1>4, <2>2, AfterConfirmDecides DEF Watched
    <3> QED
      BY <3>1 DEF State, LockFree
  <2> QED
    BY <1>4, <2>1, <2>2
<1>5. CASE UNCHANGED <<handled, timer>>
  <2>1. State' = State /\ params' = params /\ QueueKept
    BY <1>5 DEF handled, QueueKept, State, LockFree
  <2> QED
    BY <1>5, <2>1 DEF Watched
<1> QED
  BY <1>1, <1>2, <1>3, <1>4, <1>5 DEF HandleConfirm

LEMMA StationStep ==
  ASSUME ~MultiVap, MonitorInv, Next
  PROVE  StationInv'
<1> USE DEF MonitorInv
<1>1. ASSUME NEW p \in Profiles, Ioctl(p) PROVE StationInv'
  BY <1>1 DEF Ioctl, linkVars, staVars, StationInv
<1>2. CASE IoctlCall
  BY <1>2 DEF IoctlCall, linkVars, staVars, StationInv
<1>3. CASE CountPacket
  BY <1>3 DEF CountPacket, linkVars, staVars, Running, StationInv
<1>4. CASE DataCall
  BY <1>4 DEF DataCall, linkVars, staVars, StationInv
<1>5. CASE TimerFires
  BY <1>5 DEF TimerFires, linkVars, staVars, Running, StationInv
<1>6. CASE TimerFeatures
  BY <1>6 DEF TimerFeatures, linkVars, staVars, StationInv
<1>7. CASE TimerDecide
  BY <1>7 DEF TimerDecide, linkVars, staVars, StationInv
<1>8. CASE TimerCall
  BY <1>8 DEF TimerCall, linkVars, staVars, StationInv
<1>9. CASE TxStart
  BY <1>9 DEF TxStart, linkVars, staVars, StationInv
<1>10. CASE TxLoop
  BY <1>10 DEF TxLoop, linkVars, staVars, Running, StationInv
<1>11. CASE TxCheck
  BY <1>11 DEF TxCheck, linkVars, staVars, Running, StationInv
<1>12. CASE TxPending
  BY <1>12 DEF TxPending, linkVars, staVars, StationInv
<1>13. CASE TxStopTimer
  BY <1>13 DEF TxStopTimer, linkVars, staVars, StationInv
<1>14. CASE TxDeepSleep
  BY <1>14 DEF TxDeepSleep, linkVars, staVars, Running, StationInv
<1>15. CASE TxWake
  BY <1>15 DEF TxWake, linkVars, staVars, StationInv
<1>16. CASE TxDequeue
  BY <1>16 DEF TxDequeue, linkVars, staVars, StationInv
<1>17. CASE TxWrite
  BY <1>17 DEF TxWrite, linkVars, staVars, StationInv
<1>18. CASE TxMark
  BY <1>18 DEF TxMark, linkVars, staVars, StationInv
<1>19. CASE FwFollow
  BY <1>19 DEF FwFollow, linkVars, staVars, StationInv
<1>20. CASE RxConfirm
  BY <1>20 DEF RxConfirm, linkVars, staVars, StationInv
<1>21. CASE HandlerEnds
  BY <1>21 DEF HandlerEnds, linkVars, staVars, StationInv
<1>22. CASE ScanStart
  BY <1>22 DEF ScanStart, linkVars, StationInv
<1>23. CASE ScanEnd
  BY <1>23 DEF ScanEnd, linkVars, DelayDecision, StationInv
<1>24. CASE Join
  BY <1>24 DEF Join, linkVars, StationInv
<1>25. CASE AuthTimeout
  <2>1. CASE ~reauth_state
    <3>1. UNCHANGED <<iv_state, conn_in_prog, scanning, sc_nvaps, link, delay_flag, timer, timer_pc, tx_pc>>
      BY <1>25, <2>1 DEF AuthTimeout, linkVars, timerVars, txVars
    <3> QED
      BY <3>1 DEF StationInv
  <2>2. CASE reauth_state
    <3>1. /\ iv_state = "AUTH" /\ iv_state' = "SCAN" /\ ~conn_in_prog'
          /\ UNCHANGED <<scanning, sc_nvaps, link, delay_flag, timer, timer_pc, tx_pc>>
      BY <1>25, <2>2 DEF AuthTimeout, linkVars, timerVars, txVars
    <3> QED
      BY <3>1 DEF StationInv
  <2> QED
    BY <2>1, <2>2
<1>26. CASE Authenticated
  BY <1>26 DEF Authenticated, linkVars, StationInv
<1>27. CASE AssocTimeout
  BY <1>27 DEF AssocTimeout, DelayDecision, StationInv
<1>28. CASE Associated
  BY <1>28 DEF Associated, StationInv
<1>29. CASE EapolConfirm
  BY <1>29 DEF EapolConfirm, Running, SetFlags, StationInv
<1>30. CASE LoadKeys
  BY <1>30 DEF LoadKeys, staVars, Running, SetFlags, StationInv
<1>31. CASE Connected
  BY <1>31 DEF Connected, staVars, DelayDecision, Running, StationInv
<1>32. CASE EapolFailed
  BY <1>32 DEF EapolFailed, staVars, DelayDecision, Running, StationInv
<1>33. CASE Disconnect
  BY <1>33 DEF Disconnect, DelayDecision, Running, StationInv
<1>34. CASE VapChange
  BY <1>34 DEF VapChange, linkVars, StationInv
<1> QED
  BY <1>1, <1>2, <1>3, <1>4, <1>5, <1>6, <1>7, <1>8, <1>9, <1>10, <1>11, <1>12, <1>13, <1>14,
     <1>15, <1>16, <1>17, <1>18, <1>19, <1>20, <1>21, <1>22, <1>23, <1>24, <1>25, <1>26, <1>27,
     <1>28, <1>29, <1>30, <1>31, <1>32, <1>33, <1>34
  DEF Next, TimerStep, TxStep

LEMMA TimerStepKeeps ==
  ASSUME ~MultiVap, MonitorInv, Next
  PROVE  TimerInv'
<1> USE DEF MonitorInv
<1>1. ASSUME NEW p \in Profiles, Ioctl(p) PROVE TimerInv'
  BY <1>1 DEF Ioctl, linkVars, staVars, timerVars, txVars, Running, TimerInv
<1>2. CASE IoctlCall
  BY <1>2 DEF IoctlCall, linkVars, staVars, timerVars, txVars, Running, TimerInv
<1>3. CASE CountPacket
  BY <1>3, TypeParts DEF CountPacket, linkVars, staVars, txVars, ModTimer, Running, TimerInv, OtherData
<1>4. CASE DataCall
  BY <1>4 DEF DataCall, linkVars, staVars, timerVars, txVars, Running, TimerInv
<1>5. CASE TimerFires
  BY <1>5 DEF TimerFires, linkVars, staVars, txVars, Running, TimerInv
<1>6. CASE TimerFeatures
  BY <1>6 DEF TimerFeatures, linkVars, staVars, txVars, Running, TimerInv
<1>7. CASE TimerDecide
  BY <1>7, TypeParts DEF TimerDecide, linkVars, staVars, txVars, ModTimer, Running, TimerInv, OtherData
<1>8. CASE TimerCall
  BY <1>8 DEF TimerCall, linkVars, staVars, txVars, Running, TimerInv
<1>9. CASE TxStart
  BY <1>9 DEF TxStart, linkVars, staVars, timerVars, Running, TimerInv
<1>10. CASE TxLoop
  BY <1>10 DEF TxLoop, linkVars, staVars, timerVars, Running, TimerInv
<1>11. CASE TxCheck
  BY <1>11 DEF TxCheck, linkVars, staVars, timerVars, Running, TimerInv
<1>12. CASE TxPending
  BY <1>12 DEF TxPending, linkVars, staVars, timerVars, Running, TimerInv
<1>13. CASE TxStopTimer
  BY <1>13 DEF TxStopTimer, linkVars, staVars, StopTimer, Running, TimerInv, ThreadInv
<1>14. CASE TxDeepSleep
  BY <1>14 DEF TxDeepSleep, linkVars, staVars, StopTimer, Running, TimerInv, ThreadInv
<1>15. CASE TxWake
  BY <1>15 DEF TxWake, linkVars, staVars, timerVars, Running, TimerInv
<1>16. CASE TxDequeue
  BY <1>16 DEF TxDequeue, linkVars, staVars, timerVars, Running, TimerInv
<1>17. CASE TxWrite
  BY <1>17 DEF TxWrite, linkVars, staVars, timerVars, Running, TimerInv
<1>18. CASE TxMark
  BY <1>18 DEF TxMark, linkVars, staVars, timerVars, MarkDone, Running, TimerInv
<1>19. CASE FwFollow
  BY <1>19 DEF FwFollow, linkVars, staVars, timerVars, txVars, Running, TimerInv
<1>20. CASE RxConfirm
  <2>1. timer' = timer \/ timer' = ModTimer
    BY <1>20, ConfirmMonitors DEF RxConfirm, staVars, linkVars
  <2> QED
    BY <1>20, <2>1 DEF RxConfirm, staVars, linkVars, txVars, ModTimer, Running, TimerInv
<1>21. CASE HandlerEnds
  BY <1>21 DEF HandlerEnds, linkVars, staVars, timerVars, txVars, Running, TimerInv
<1>22. CASE ScanStart
  BY <1>22 DEF ScanStart, linkVars, timerVars, txVars, Running, TimerInv
<1>23. CASE ScanEnd
  BY <1>23 DEF ScanEnd, linkVars, txVars, DelayDecision, Running, TimerInv
<1>24. CASE Join
  BY <1>24 DEF Join, linkVars, txVars, StopTimer, Running, TimerInv
<1>25. CASE AuthTimeout
  <2>1. CASE ~reauth_state
    <3>1. UNCHANGED <<iv_state, conn_in_prog, scanning, sc_nvaps, link, delay_flag, timer, timer_pc, tx_pc>>
      BY <1>25, <2>1 DEF AuthTimeout, linkVars, timerVars, txVars
    <3> QED
      BY <3>1 DEF TimerInv, Running
  <2>2. CASE reauth_state
    <3>1. /\ iv_state = "AUTH" /\ iv_state' = "SCAN" /\ ~conn_in_prog'
          /\ UNCHANGED <<scanning, sc_nvaps, link, delay_flag, timer, timer_pc, tx_pc>>
      BY <1>25, <2>2 DEF AuthTimeout, linkVars, timerVars, txVars
    <3> QED
      BY <3>1 DEF TimerInv, Running, StationInv
  <2> QED
    BY <2>1, <2>2
<1>26. CASE Authenticated
  BY <1>26 DEF Authenticated, linkVars, timerVars, txVars, Running, TimerInv, StationInv
<1>27. CASE AssocTimeout
  BY <1>27 DEF AssocTimeout, txVars, DelayDecision, Running, TimerInv, StationInv
<1>28. CASE Associated
  <2>1. /\ iv_state = "ASSOC" /\ iv_state' = "RUN"
        /\ UNCHANGED <<delay_flag, timer, timer_pc, tx_pc, data_pc, ioctl_pc, scanning, sc_nvaps>>
        /\ \/ ~conn_in_prog' /\ link' = "connected"
           \/ UNCHANGED conn_in_prog
    BY <1>28 DEF Associated, timerVars, txVars, userVars
  <2>2. conn_in_prog /\ ~delay_flag
    BY <2>1 DEF StationInv
  <2> QED
    BY <2>1, <2>2 DEF TimerInv, Running
<1>29. CASE EapolConfirm
  BY <1>29 DEF EapolConfirm, timerVars, txVars, SetFlags, Running, TimerInv
<1>30. CASE LoadKeys
  BY <1>30 DEF LoadKeys, staVars, timerVars, txVars, SetFlags, Running, TimerInv
<1>31. CASE Connected
  BY <1>31 DEF Connected, staVars, txVars, DelayDecision, Running, TimerInv, StationInv
<1>32. CASE EapolFailed
  BY <1>32 DEF EapolFailed, staVars, txVars, DelayDecision, Running, TimerInv
<1>33. CASE Disconnect
  BY <1>33 DEF Disconnect, txVars, DelayDecision, Running, TimerInv, StationInv
<1>34. CASE VapChange
  BY <1>34 DEF VapChange, linkVars, timerVars, txVars, Running, TimerInv
<1> QED
  BY <1>1, <1>2, <1>3, <1>4, <1>5, <1>6, <1>7, <1>8, <1>9, <1>10, <1>11, <1>12, <1>13, <1>14,
     <1>15, <1>16, <1>17, <1>18, <1>19, <1>20, <1>21, <1>22, <1>23, <1>24, <1>25, <1>26, <1>27,
     <1>28, <1>29, <1>30, <1>31, <1>32, <1>33, <1>34
  DEF Next, TimerStep, TxStep

LEMMA ThreadStep ==
  ASSUME ~MultiVap, MonitorInv, Next
  PROVE  ThreadInv'
<1> USE DEF MonitorInv
<1>1. ASSUME NEW p \in Profiles, Ioctl(p) PROVE ThreadInv'
  BY <1>1 DEF Ioctl, staVars, txVars, ThreadInv, Running
<1>2. CASE IoctlCall
  <2>1. QueueKept
    BY <1>2, HandlerKeepsQueue DEF IoctlCall, QueueKept
  <2> QED
    BY <1>2, <2>1 DEF IoctlCall, staVars, txVars, ThreadInv, QueueKept, Running
<1>3. CASE CountPacket
  BY <1>3 DEF CountPacket, handled, staVars, txVars, ThreadInv, Running
<1>4. CASE DataCall
  <2>1. QueueKept
    BY <1>4, HandlerKeepsQueue DEF DataCall, QueueKept
  <2> QED
    BY <1>4, <2>1 DEF DataCall, staVars, txVars, ThreadInv, QueueKept, Running
<1>5. CASE TimerFires
  BY <1>5 DEF TimerFires, handled, staVars, txVars, ThreadInv, Running
<1>6. CASE TimerFeatures
  <2>1. QueueKept
    BY <1>6, HandlerKeepsQueue DEF TimerFeatures, handled, QueueKept
  <2> QED
    BY <1>6, <2>1 DEF TimerFeatures, staVars, txVars, ThreadInv, QueueKept, Running
<1>7. CASE TimerDecide
  BY <1>7 DEF TimerDecide, handled, staVars, txVars, ThreadInv, Running
<1>8. CASE TimerCall
  <2>1. QueueKept
    BY <1>8, HandlerKeepsQueue DEF TimerCall, QueueKept
  <2> QED
    BY <1>8, <2>1 DEF TimerCall, staVars, txVars, ThreadInv, QueueKept, Running
<1>9. CASE TxStart
  BY <1>9 DEF TxStart, staVars, ThreadInv, Running
<1>10. CASE TxLoop
  BY <1>10 DEF TxLoop, handled, staVars, ThreadInv, Running
<1>11. CASE TxCheck
  BY <1>11 DEF TxCheck, handled, staVars, ThreadInv, Running
<1>12. CASE TxPending
  BY <1>12 DEF TxPending, handled, staVars, ThreadInv, Running
<1>13. CASE TxStopTimer
  BY <1>13 DEF TxStopTimer, handled, staVars, ThreadInv, Running
<1>14. CASE TxDeepSleep
  BY <1>14 DEF TxDeepSleep, handled, staVars, ThreadInv, Running
<1>15. CASE TxWake
  <2>1. QueueKept
    BY <1>15, HandlerKeepsQueue DEF TxWake, QueueKept
  <2> QED
    BY <1>15, <2>1 DEF TxWake, staVars, ThreadInv, QueueKept, Running
<1>16. CASE TxDequeue
  BY <1>16 DEF TxDequeue, staVars, ThreadInv, Running
<1>17. CASE TxWrite
  BY <1>17 DEF TxWrite, handled, staVars, ThreadInv, Running
<1>18. CASE TxMark
  BY <1>18 DEF TxMark, staVars, MarkDone, ThreadInv, Running
<1>19. CASE FwFollow
  BY <1>19 DEF FwFollow, handled, staVars, txVars, ThreadInv, Running
<1>20. CASE RxConfirm
  <2>1. QueueKept
    BY <1>20, ConfirmMonitors DEF RxConfirm, staVars, linkVars, QueueKept
  <2> QED
    BY <1>20, <2>1 DEF RxConfirm, staVars, txVars, ThreadInv, QueueKept, Running
<1>21. CASE HandlerEnds
  BY <1>21 DEF HandlerEnds, staVars, txVars, ThreadInv, Running
<1>22. CASE ScanStart
  <2>1. QueueKept
    BY <1>22, QueueMgmtKeepsQueue DEF ScanStart, QueueKept
  <2> QED
    BY <1>22, <2>1 DEF ScanStart, txVars, ThreadInv, QueueKept, Running
<1>23. CASE ScanEnd
  <2>1. QueueKept
    BY <1>23, QueueMgmtKeepsQueue DEF ScanEnd, handled, QueueKept
  <2> QED
    BY <1>23, <2>1 DEF ScanEnd, txVars, ThreadInv, QueueKept, Running
<1>24. CASE Join
  <2>1. QueueKept
    BY <1>24, QueueMgmtKeepsQueue DEF Join, QueueKept
  <2> QED
    BY <1>24, <2>1 DEF Join, txVars, ThreadInv, QueueKept, Running
<1>25. CASE AuthTimeout
  <2>1. QueueKept
    BY <1>25, QueueMgmtKeepsQueue DEF AuthTimeout, handled, QueueKept
  <2> QED
    BY <1>25, <2>1 DEF AuthTimeout, txVars, ThreadInv, QueueKept, Running
<1>26. CASE Authenticated
  <2>1. QueueKept
    BY <1>26, QueueMgmtKeepsQueue DEF Authenticated, QueueKept
  <2> QED
    BY <1>26, <2>1 DEF Authenticated, txVars, ThreadInv, QueueKept, Running
<1>27. CASE AssocTimeout
  <2>1. QueueKept
    BY <1>27, QueueMgmtKeepsQueue DEF AssocTimeout, QueueKept
  <2> QED
    BY <1>27, <2>1 DEF AssocTimeout, txVars, ThreadInv, QueueKept, Running
<1>28. CASE Associated
  BY <1>28 DEF Associated, handled, txVars, Answered, ThreadInv, Running
<1>29. CASE EapolConfirm
  BY <1>29 DEF EapolConfirm, handled, txVars, ThreadInv, Running
<1>30. CASE LoadKeys
  <2>1. QueueKept
    BY <1>30, QueueMgmtKeepsQueue DEF LoadKeys, QueueKept
  <2> QED
    BY <1>30, <2>1 DEF LoadKeys, staVars, txVars, ThreadInv, QueueKept, Running
<1>31. CASE Connected
  BY <1>31 DEF Connected, handled, staVars, txVars, ThreadInv, Running
<1>32. CASE EapolFailed
  <2>1. QueueKept
    BY <1>32, QueueMgmtKeepsQueue DEF EapolFailed, QueueKept
  <2> QED
    BY <1>32, <2>1 DEF EapolFailed, staVars, txVars, ThreadInv, QueueKept, Running
<1>33. CASE Disconnect
  <2>1. QueueKept
    BY <1>33, QueueMgmtKeepsQueue DEF Disconnect, QueueKept
  <2> QED
    BY <1>33, <2>1 DEF Disconnect, txVars, ThreadInv, QueueKept, Running
<1>34. CASE VapChange
  BY <1>34 DEF VapChange, handled, txVars, ThreadInv, Running
<1> QED
  BY <1>1, <1>2, <1>3, <1>4, <1>5, <1>6, <1>7, <1>8, <1>9, <1>10, <1>11, <1>12, <1>13, <1>14,
     <1>15, <1>16, <1>17, <1>18, <1>19, <1>20, <1>21, <1>22, <1>23, <1>24, <1>25, <1>26, <1>27,
     <1>28, <1>29, <1>30, <1>31, <1>32, <1>33, <1>34
  DEF Next, TimerStep, TxStep

LEMMA MonitorStep ==
  ASSUME ~MultiVap, MonitorInv, Next
  PROVE  MonitoringGoesOn'
<1> USE DEF MonitorInv
<1>1. ASSUME NEW p \in Profiles, Ioctl(p) PROVE MonitoringGoesOn'
  BY <1>1
  DEF Ioctl, linkVars, staVars, timerVars, MonitoringGoesOn, Running, PsEn, Traffic, State, LockFree
<1>2. CASE IoctlCall
  <2> SUFFICES ASSUME Running', ~conn_in_prog', link' # "handshake", PsEn(params'), State' = "NONE"
              PROVE  timer' = "on" \/ link' = "connected"
    BY DEF MonitoringGoesOn, PsEn
  <2>1. /\ Running /\ ~conn_in_prog /\ LockFree /\ UNCHANGED <<timer, link>>
        /\ HandleRequest(ioctl_pc, FALSE)
    BY <1>2 DEF IoctlCall, linkVars, staVars, timerVars, Running
  <2>2. delay_flag
    BY <2>1, HandlerDecides DEF StationInv
  <2> QED
    BY <2>1, <2>2 DEF TimerInv, ThreadInv
<1>3. CASE CountPacket
  BY <1>3
  DEF CountPacket, handled, userVars, linkVars, staVars, ModTimer, TimerInv, MonitoringGoesOn, Running,
      PsEn, Traffic, State, LockFree
<1>4. CASE DataCall
  <2> SUFFICES ASSUME Running', ~conn_in_prog', link' # "handshake", PsEn(params'), State' = "NONE"
              PROVE  timer' = "on" \/ link' = "connected"
    BY DEF MonitoringGoesOn, PsEn
  <2>1. /\ Running /\ ~conn_in_prog /\ LockFree /\ UNCHANGED <<timer, link>>
        /\ HandleRequest("disable", FALSE)
    BY <1>4 DEF DataCall, linkVars, staVars, timerVars, Running
  <2>2. delay_flag
    BY <2>1, HandlerDecides DEF StationInv
  <2> QED
    BY <2>1, <2>2 DEF TimerInv, ThreadInv
<1>5. CASE TimerFires
  BY <1>5
  DEF TimerFires, handled, userVars, linkVars, staVars, MonitoringGoesOn, Running, PsEn, Traffic, State,
      LockFree
<1>6. CASE TimerFeatures
  BY <1>6 DEF TimerFeatures, MonitoringGoesOn
<1>7. CASE TimerDecide
  <2>1. timer # "unset" /\ UNCHANGED <<iv_state, conn_in_prog, link, params, data_pc, ioctl_pc>>
        /\ State' = State
    BY <1>7 DEF TimerDecide, TimerInv, staVars, linkVars, userVars, handled, State, LockFree
  <2> SUFFICES ASSUME State = "NONE", PsEn(params), Traffic(params), timer' # "on"
              PROVE  timer_pc' # "idle"
    BY <2>1 DEF MonitoringGoesOn
  <2>2. target # "NONE"
    BY DEF TypeOK
  <2>3. ps_state = "NONE"
    BY <2>2 DEF State
  <2>4. ModTimer = "on"
    BY <2>1 DEF ModTimer
  <2>5. CASE ps_state = "NONE" /\ timer_pc' = "enable"
    BY <2>5
  <2>6. CASE timer' = IF ps_state # "DEV_IN_PWR_SVE" THEN ModTimer ELSE timer
    BY <2>3, <2>4, <2>6
  <2> QED
    BY <1>7, <2>3, <2>5, <2>6 DEF TimerDecide
<1>8. CASE TimerCall
  <2> SUFFICES ASSUME Running', ~conn_in_prog', link' # "handshake", PsEn(params'), State' = "NONE"
              PROVE  timer' = "on" \/ link' = "connected"
    BY DEF MonitoringGoesOn, PsEn
  <2>1. /\ Running /\ ~conn_in_prog /\ LockFree /\ UNCHANGED <<timer, link>>
        /\ HandleRequest(IF timer_pc = "disable" THEN "disable" ELSE "enable", FALSE)
    BY <1>8 DEF TimerCall, linkVars, staVars, Running
  <2>2. delay_flag
    BY <2>1, HandlerDecides DEF StationInv
  <2> QED
    BY <2>1, <2>2 DEF TimerInv, ThreadInv
<1>9. CASE TxStart
  BY <1>9
  DEF TxStart, userVars, linkVars, staVars, timerVars, MonitoringGoesOn, Running, PsEn, Traffic, State,
      LockFree
<1>10. CASE TxLoop
  BY <1>10
  DEF TxLoop, handled, userVars, linkVars, staVars, timerVars, MonitoringGoesOn, Running, PsEn, Traffic,
      State, LockFree
<1>11. CASE TxCheck
  BY <1>11
  DEF TxCheck, handled, userVars, linkVars, staVars, timerVars, MonitoringGoesOn, Running, PsEn,
      Traffic, State, LockFree
<1>12. CASE TxPending
  <2>1. ~Running'
    BY <1>12 DEF TxPending, staVars, ThreadInv, Running
  <2> QED
    BY <2>1 DEF MonitoringGoesOn
<1>13. CASE TxStopTimer
  <2>1. ~Running'
    BY <1>13 DEF TxStopTimer, staVars, ThreadInv, Running
  <2> QED
    BY <2>1 DEF MonitoringGoesOn
<1>14. CASE TxDeepSleep
  <2>1. ~Running'
    BY <1>14 DEF TxDeepSleep, staVars, ThreadInv, Running
  <2> QED
    BY <2>1 DEF MonitoringGoesOn
<1>15. CASE TxWake
  <2>1. ~Running'
    BY <1>15 DEF TxWake, staVars, ThreadInv, Running
  <2> QED
    BY <2>1 DEF MonitoringGoesOn
<1>16. CASE TxDequeue
  BY <1>16
  DEF TxDequeue, userVars, linkVars, staVars, timerVars, MonitoringGoesOn, Running, PsEn, Traffic,
      State, LockFree
<1>17. CASE TxWrite
  BY <1>17
  DEF TxWrite, handled, userVars, linkVars, staVars, timerVars, MonitoringGoesOn, Running, PsEn,
      Traffic, State, LockFree
<1>18. CASE TxMark
  BY <1>18
  DEF TxMark, userVars, linkVars, staVars, timerVars, MonitoringGoesOn, Running, PsEn, Traffic, State,
      LockFree
<1>19. CASE FwFollow
  BY <1>19
  DEF FwFollow, handled, userVars, linkVars, staVars, timerVars, MonitoringGoesOn, Running, PsEn,
      Traffic, State, LockFree
<1>20. CASE RxConfirm
  <2>1. /\ UNCHANGED <<iv_state, conn_in_prog, link, timer_pc, data_pc, ioctl_pc>> /\ LockFree
        /\ \E kind : HandleConfirm(kind)
    BY <1>20 DEF RxConfirm, staVars, linkVars, userVars
  <2>2. Watched' => timer' = "on" \/ (timer' = timer /\ params' = params /\ State = "NONE")
    BY <2>1, ConfirmMonitors
  <2>3. ASSUME Watched' PROVE timer' = "on" \/ timer_pc' # "idle" \/ data_pc' # "idle" \/ ioctl_pc' # "idle"
    BY <2>1, <2>2, <2>3 DEF MonitoringGoesOn, Watched, Running
  <2> QED
    BY <2>3 DEF MonitoringGoesOn, Watched
<1>21. CASE HandlerEnds
  BY <1>21
  DEF HandlerEnds, userVars, linkVars, staVars, timerVars, MonitoringGoesOn, Running, PsEn, Traffic,
      State, LockFree
<1>22. CASE ScanStart
  BY <1>22
  DEF ScanStart, userVars, linkVars, timerVars, QueueMgmt, MonitoringGoesOn, Running, PsEn, Traffic,
      State, LockFree
<1>23. CASE ScanEnd
  BY <1>23
  DEF ScanEnd, handled, userVars, linkVars, DelayDecision, QueueMgmt, MonitoringGoesOn, Running, PsEn,
      Traffic, State, LockFree
<1>24. CASE Join
  BY <1>24
  DEF Join, userVars, linkVars, QueueMgmt, MonitoringGoesOn, Running, PsEn, Traffic, State, LockFree
<1>25. CASE AuthTimeout
  BY <1>25
  DEF AuthTimeout, handled, userVars, linkVars, timerVars, QueueMgmt, MonitoringGoesOn, Running, PsEn,
      Traffic, State, LockFree
<1>26. CASE Authenticated
  BY <1>26
  DEF Authenticated, userVars, linkVars, timerVars, QueueMgmt, MonitoringGoesOn, Running, PsEn, Traffic,
      State, LockFree
<1>27. CASE AssocTimeout
  BY <1>27
  DEF AssocTimeout, userVars, DelayDecision, QueueMgmt, MonitoringGoesOn, Running, PsEn, Traffic, State,
      LockFree
<1>28. CASE Associated
  <2>1. /\ iv_state = "ASSOC" /\ iv_state' = "RUN"
        /\ UNCHANGED <<delay_flag, timer, timer_pc, tx_pc, data_pc, ioctl_pc, scanning, sc_nvaps>>
        /\ \/ ~conn_in_prog' /\ link' = "connected"
           \/ UNCHANGED conn_in_prog
    BY <1>28 DEF Associated, timerVars, txVars, userVars
  <2>2. conn_in_prog /\ ~delay_flag
    BY <2>1 DEF StationInv
  <2> QED
    BY <2>1, <2>2 DEF MonitoringGoesOn, Running
<1>29. CASE EapolConfirm
  BY <1>29
  DEF EapolConfirm, handled, userVars, timerVars, SetFlags, MonitoringGoesOn, Running, PsEn, Traffic,
      State, LockFree
<1>30. CASE LoadKeys
  BY <1>30
  DEF LoadKeys, userVars, staVars, timerVars, SetFlags, QueueMgmt, MonitoringGoesOn, Running, PsEn,
      Traffic, State, LockFree
<1>31. CASE Connected
  BY <1>31
  DEF Connected, handled, userVars, staVars, DelayDecision, MonitoringGoesOn, Running, PsEn, Traffic,
      State, LockFree
<1>32. CASE EapolFailed
  BY <1>32
  DEF EapolFailed, userVars, staVars, DelayDecision, QueueMgmt, MonitoringGoesOn, Running, PsEn,
      Traffic, State, LockFree
<1>33. CASE Disconnect
  BY <1>33
  DEF Disconnect, userVars, DelayDecision, QueueMgmt, MonitoringGoesOn, Running, PsEn, Traffic, State,
      LockFree
<1>34. CASE VapChange
  BY <1>34
  DEF VapChange, handled, userVars, linkVars, timerVars, MonitoringGoesOn, Running, PsEn, Traffic,
      State, LockFree
<1> QED
  BY <1>1, <1>2, <1>3, <1>4, <1>5, <1>6, <1>7, <1>8, <1>9, <1>10, <1>11, <1>12, <1>13, <1>14,
     <1>15, <1>16, <1>17, <1>18, <1>19, <1>20, <1>21, <1>22, <1>23, <1>24, <1>25, <1>26, <1>27,
     <1>28, <1>29, <1>30, <1>31, <1>32, <1>33, <1>34
  DEF Next, TimerStep, TxStep

(***************************************************************************)
(* With one vap, whatever the profiles, the faults, the lost handshakes and *)
(* the interface: of the many places that stop and restart traffic_timer,   *)
(* none leaves a connected station, its keys loaded, with power save off    *)
(* and nobody to switch it on.                                              *)
(***************************************************************************)
THEOREM MonitoringNotLost ==
  ASSUME ~MultiVap
  PROVE  Spec => []MonitoringGoesOn
<1> DEFINE Rest == StationInv /\ TimerInv /\ ThreadInv /\ MonitoringGoesOn
<1>1. Init => Rest
  BY DEF Init, StationInv, TimerInv, ThreadInv, MonitoringGoesOn, Running
<1>2. Rest /\ TypeOK /\ [Next]_vars => Rest'
  <2>0. ~MultiVap
    OBVIOUS
  <2>1. ASSUME Rest, TypeOK, UNCHANGED vars PROVE Rest'
    BY <2>1 DEF vars, handled, userVars, staVars, linkVars, timerVars, txVars, StationInv, TimerInv,
                ThreadInv, MonitoringGoesOn, Running, PsEn, Traffic, State, LockFree
  <2>2. ASSUME Rest, TypeOK, Next PROVE Rest'
    BY <2>0, <2>2, StationStep, TimerStepKeeps, ThreadStep, MonitorStep DEF MonitorInv
  <2> QED
    BY <2>1, <2>2
<1> QED
  BY <1>1, <1>2, TypeCorrect, PTL DEF Spec
=============================================================================
