----------------------------- MODULE WlanQueues -----------------------------
(***************************************************************************)
(* The host queues of the WLAN transmit path: core_xmit fills them under    *)
(* flow control, core_determine_hal_queue chooses the next one by WMM       *)
(* contention, the transmit thread takes packets out and restarts the       *)
(* interfaces; scans, channel switches, quiet periods and the connection of *)
(* the station block and unblock them meanwhile.                            *)
(*                                                                          *)
(* There is one station interface and one access point interface.  When the *)
(* thread runs and why it may leave a packet in its queue is the subject of *)
(* module WlanTx; here it may give up at any time.  core_xmit,              *)
(* core_determine_hal_queue and the restart of an interface are single      *)
(* steps: the two sides would have to move by the reserve of 500 packets    *)
(* within one of them to disagree.                                          *)
(***************************************************************************)
EXTENDS TxQueues

CONSTANTS
  Queues,     \* the EDCA queues in use, a subset of 0 .. NUM_EDCA_QUEUES - 1
  Weights,    \* the contention weights (wme_org_q) an access point may set
  Burst,      \* packets per TXOP of VI_Q_STA and VO_Q_STA
  MaxLen,     \* host_txq_maxlen
  WaterMark,  \* *_DATA_QUEUE_WATER_MARK
  Reserve,    \* an interface restarts when its queue is this far below MaxLen
  MaxJoin,    \* bound on a queue that core_xmit fills while the station joins
  MaxMgmt     \* bound on the management frames queued at once

ASSUME QueuesAssumption == Queues \subseteq 0 .. NUM_EDCA_QUEUES - 1
\* onebox_set_contention_vals computes 7 .. 214 from the two 4-bit parameters;
\* core_determine_hal_queue compares with the least one in a uint8.
ASSUME WeightsAssumption == Weights # {} /\ Weights \subseteq [Queues -> 1 .. 255]
ASSUME BurstAssumption == Burst \in [{VI_Q_STA, VO_Q_STA} -> Nat]
ASSUME BoundAssumption ==
  /\ MaxLen \in Nat /\ WaterMark \in Nat /\ Reserve \in Nat /\ MaxMgmt \in Nat
  /\ 0 < Reserve /\ Reserve < WaterMark /\ WaterMark < MaxLen
  /\ MaxJoin \in Nat /\ MaxLen < MaxJoin

Vaps   == {"sta", "ap"}
Vap(q) == IF q < NO_STA_DATA_QUEUES THEN "sta" ELSE "ap"

VARIABLES
  host_tx_queue,    \* packets per EDCA queue
  mgmt_queue,       \* packets in MGMT_SOFT_Q
  stopped,          \* per interface: is its network queue stopped?
  stop_per_q, stop_udp_pkts,
  wme_org_q, per_q_wt, pkt_contended, selected_qnum, pkt_cnt,
  pc, q_num,        \* the transmit thread
  sta_data_block, block_ap_queues,
  sta,              \* the station: "down", "assoc" (keys missing), "up"
  quiet,            \* the timer of a quiet period or channel switch runs
  unresumed         \* history: such a timer ended and nothing started the station since

flowVars   == <<host_tx_queue, stopped, stop_per_q, stop_udp_pkts>>
wmmVars    == <<wme_org_q, per_q_wt, pkt_contended, selected_qnum, pkt_cnt>>
threadVars == <<pc, q_num>>
blockVars  == <<sta_data_block, block_ap_queues, sta, quiet, unresumed>>
vars       == <<flowVars, mgmt_queue, wmmVars, threadVars, blockVars>>

(***************************************************************************)
(* Both interfaces exist and the access point runs; the station was blocked *)
(* when its interface was created.                                          *)
(***************************************************************************)
Init ==
  /\ host_tx_queue = [q \in Queues |-> 0]
  /\ mgmt_queue = 0
  /\ stopped = [v \in Vaps |-> v = "sta"]
  /\ stop_per_q = [q \in Queues |-> FALSE]
  /\ stop_udp_pkts = [q \in Queues |-> FALSE]
  /\ wme_org_q \in Weights
  /\ per_q_wt = wme_org_q
  /\ pkt_contended = [q \in Queues |-> FALSE]
  /\ selected_qnum = BK_Q_STA
  /\ pkt_cnt = 0
  /\ pc = "select"
  /\ q_num = INVALID_QUEUE
  /\ sta_data_block = TRUE
  /\ block_ap_queues = FALSE
  /\ sta = "down"
  /\ quiet = FALSE
  /\ unresumed = FALSE

Backlog(q) == q \in Queues /\ host_tx_queue[q] > 0

-----------------------------------------------------------------------------
(***************************************************************************)
(* Mutant: the packet about to be queued is not counted.                    *)
(***************************************************************************)
Bug_Full(q) == host_tx_queue[q] > MaxLen \/ stop_per_q[q]

\* The limits that core_xmit tests before it queues a packet.
Full(q) == host_tx_queue[q] + 1 >= MaxLen \/ stop_per_q[q]
Laden(q) == host_tx_queue[q] + 1 >= WaterMark \/ stop_udp_pkts[q]

(***************************************************************************)
(* core_xmit for a data packet of the interface that uses queue q.  joining *)
(* stands for conn_in_prog with a WPA element: the packet is queued then,   *)
(* however long the queue is.  The code has no limit for this case; MaxJoin *)
(* bounds the model.                                                        *)
(***************************************************************************)
core_xmit(q, udp, joining) ==
  /\ ~stopped[Vap(q)]
  /\ joining => Vap(q) = "sta" /\ sta # "up" /\ host_tx_queue[q] < MaxJoin
  /\ stop_per_q' = [stop_per_q EXCEPT ![q] = Full(q)]
  /\ \/ /\ Full(q) /\ ~joining
        /\ stopped' = [stopped EXCEPT ![Vap(q)] = TRUE]
        /\ UNCHANGED <<host_tx_queue, stop_udp_pkts>>
     \/ /\ ~Full(q) \/ joining
        /\ stop_udp_pkts' = [stop_udp_pkts EXCEPT ![q] = Laden(q)]
        /\ host_tx_queue' = [host_tx_queue EXCEPT ![q] = IF Laden(q) /\ udp THEN @ ELSE @ + 1]
        /\ UNCHANGED stopped
  /\ UNCHANGED <<mgmt_queue, wmmVars, threadVars, blockVars>>

\* onebox_send_mgmt_pkt, EAPOL packets in core_xmit, onebox_send_internal_mgmt_frame.
\* The frames one operation queues count as one.
SendInternalMgmt ==
  /\ mgmt_queue < MaxMgmt
  /\ mgmt_queue' = mgmt_queue + 1

QueueMgmt ==
  /\ SendInternalMgmt
  /\ UNCHANGED <<flowVars, wmmVars, threadVars, blockVars>>

-----------------------------------------------------------------------------
(***************************************************************************)
(* onebox_send_block_unblock for each interface of vaps in turn, after      *)
(* block_ap_queues became apBlocked: STA_DISCONNECTED blocks the station's  *)
(* queues and stops the interface, STA_CONNECTED unblocks all queues; the   *)
(* access point's interface is started unless its queues are blocked.       *)
(***************************************************************************)
onebox_send_block_unblock(vaps, event, apBlocked) ==
  LET block == event = "STA_DISCONNECTED"
      ap    == apBlocked /\ block
  IN
  /\ sta_data_block' = block
  /\ block_ap_queues' = ap
  /\ stopped' = [v \in Vaps |-> IF v = "ap" /\ ~ap THEN FALSE
                                ELSE stopped[v] \/ (block /\ v \in vaps)]
  /\ SendInternalMgmt

blockFrame == <<host_tx_queue, stop_per_q, stop_udp_pkts, wmmVars, threadVars>>

(***************************************************************************)
(* onebox_scan_start while the access point runs.                           *)
(***************************************************************************)
onebox_scan_start ==
  /\ onebox_send_block_unblock({"ap"}, "STA_DISCONNECTED", TRUE)
  /\ UNCHANGED <<blockFrame, sta, quiet, unresumed>>

(***************************************************************************)
(* Mutant: the flag is cleared, the interface is left stopped.              *)
(***************************************************************************)
Bug_traffic_timer_callback ==
  /\ block_ap_queues /\ sta_data_block
  /\ block_ap_queues' = FALSE
  /\ SendInternalMgmt
  /\ UNCHANGED <<blockFrame, stopped, sta_data_block, sta, quiet, unresumed>>

(***************************************************************************)
(* The initial timer (first part of traffic_timer_callback) unblocks the    *)
(* access point when the station is still disconnected.  Module WlanPs says *)
(* when the timer runs; here it may expire at any time.                     *)
(***************************************************************************)
traffic_timer_callback ==
  /\ block_ap_queues /\ sta_data_block
  /\ onebox_send_block_unblock({"ap"}, "STA_DISCONNECTED", FALSE)
  /\ UNCHANGED <<blockFrame, sta, quiet, unresumed>>

(***************************************************************************)
(* The station associates: the peer notification starts its interface.      *)
(* Without keys to wait for, onebox_newassoc unblocks the queues at once.   *)
(***************************************************************************)
onebox_newassoc(open) ==
  /\ sta = "down"
  /\ sta' = IF open THEN "up" ELSE "assoc"
  /\ unresumed' = FALSE
  /\ SendInternalMgmt
  /\ IF open
     THEN /\ sta_data_block' = FALSE
          /\ block_ap_queues' = FALSE
          /\ stopped' = [v \in Vaps |-> FALSE]
     ELSE /\ stopped' = [stopped EXCEPT !["sta"] = FALSE]
          /\ UNCHANGED <<sta_data_block, block_ap_queues>>
  /\ UNCHANGED <<blockFrame, quiet>>

\* The keys are installed and EAPOL4 is confirmed.
Secured ==
  /\ sta = "assoc"
  /\ sta' = "up"
  /\ IF sta_data_block
     THEN onebox_send_block_unblock({"sta"}, "STA_CONNECTED", block_ap_queues)
     ELSE UNCHANGED <<sta_data_block, block_ap_queues, stopped, mgmt_queue>>
  /\ UNCHANGED <<blockFrame, quiet, unresumed>>

\* hal_send_sta_notify_frame with STA_DISCONNECTED.
StaDisconnected ==
  /\ sta # "down"
  /\ sta' = "down"
  /\ IF ~sta_data_block
     THEN onebox_send_block_unblock({"sta"}, "STA_DISCONNECTED", block_ap_queues)
     ELSE SendInternalMgmt /\ UNCHANGED <<sta_data_block, block_ap_queues, stopped>>
  /\ UNCHANGED <<blockFrame, quiet, unresumed>>

(***************************************************************************)
(* A quiet period, a notice of absence (the station's interface) or a       *)
(* channel switch (every running one) of the connected station blocks the   *)
(* queues until a timer ends it.  The timer is not stopped when the station *)
(* disconnects meanwhile.                                                   *)
(***************************************************************************)
QuietStart(vaps) ==
  /\ sta = "up" /\ ~quiet
  /\ quiet' = TRUE
  /\ onebox_send_block_unblock(vaps, "STA_DISCONNECTED", block_ap_queues)
  /\ UNCHANGED <<blockFrame, sta, unresumed>>

QuietEnd ==
  /\ quiet
  /\ quiet' = FALSE
  /\ unresumed' = TRUE
  /\ onebox_send_block_unblock(Vaps, "STA_CONNECTED", block_ap_queues)
  /\ UNCHANGED <<blockFrame, sta>>

(***************************************************************************)
(* core_wme_update and onebox_set_contention_vals.  One step here; they     *)
(* take no lock, so a round of the contention at the same time may compare  *)
(* some old weights with some new ones.                                     *)
(***************************************************************************)
core_wme_update(w) ==
  /\ wme_org_q' = w
  /\ per_q_wt' = w
  /\ pkt_contended' = [q \in Queues |-> FALSE]
  /\ UNCHANGED <<flowVars, mgmt_queue, selected_qnum, pkt_cnt, threadVars, blockVars>>

(***************************************************************************)
(* One round of the contention in core_determine_hal_queue, from weights w  *)
(* and contention flags c: the contending queue of least weight wins (the   *)
(* first of several); with none contending it is BK_Q_STA.  The others      *)
(* count down by its weight, the winner and newcomers start afresh, empty   *)
(* queues drop out.                                                         *)
(***************************************************************************)
Contending(c) == {q \in Queues : c[q] /\ Backlog(q)}

Winner(w, c) ==
  IF Contending(c) = {} THEN BK_Q_STA
  ELSE CHOOSE q \in Contending(c) :
         \A r \in Contending(c) : w[q] < w[r] \/ (w[q] = w[r] /\ q <= r)

(***************************************************************************)
(* Mutant: the winner keeps its place in the contention.                    *)
(***************************************************************************)
Bug_CountDown(w, c) ==
  LET min == IF Contending(c) = {} THEN 0 ELSE w[Winner(w, c)]
  IN [q \in Queues |->
       CASE ~Backlog(q) -> 0
         [] c[q]        -> IF w[q] > min THEN w[q] - min ELSE 0
         [] OTHER       -> wme_org_q[q]]

CountDown(w, c) ==
  LET win == Winner(w, c)
      min == IF Contending(c) = {} THEN 0 ELSE w[win]
  IN [q \in Queues |->
       CASE ~Backlog(q)           -> 0
         [] c[q] /\ q # win -> IF w[q] > min THEN w[q] - min ELSE 0
         [] OTHER                 -> wme_org_q[q]]

AllBacklogged == [q \in Queues |-> Backlog(q)]

(***************************************************************************)
(* Mutant: the TXOP is not capped by what the queue holds.                  *)
(***************************************************************************)
Bug_TxopCount(q) == IF q \in {VI_Q_STA, VO_Q_STA} /\ Burst[q] > 0 THEN Burst[q] - 1 ELSE 0

\* The packets of the TXOP that are left after the first.
TxopCount(q) ==
  IF q \in {VI_Q_STA, VO_Q_STA} /\ Burst[q] > 0
  THEN (IF host_tx_queue[q] <= Burst[q] THEN host_tx_queue[q] ELSE Burst[q]) - 1
  ELSE 0

(***************************************************************************)
(* core_determine_hal_queue: management frames first, then the rest of the  *)
(* running TXOP, then the contention, once more if the default winner was   *)
(* empty but others have joined.                                            *)
(***************************************************************************)
NewContention == mgmt_queue = 0 /\ pkt_cnt = 0

core_determine_hal_queue ==
  \/ /\ mgmt_queue > 0
     /\ q_num' = MGMT_SOFT_Q
     /\ UNCHANGED wmmVars
  \/ /\ mgmt_queue = 0 /\ pkt_cnt > 0
     /\ pkt_cnt' = pkt_cnt - 1
     /\ q_num' = selected_qnum
     /\ UNCHANGED <<wme_org_q, per_q_wt, pkt_contended, selected_qnum>>
  \/ /\ NewContention
     /\ LET once  == CountDown(per_q_wt, pkt_contended)
            first == Winner(per_q_wt, pkt_contended)
            again == ~Backlog(first) /\ \E q \in Queues : Backlog(q)
            win   == IF again THEN Winner(once, AllBacklogged) ELSE first
        IN /\ per_q_wt' = IF again THEN CountDown(once, AllBacklogged) ELSE once
           /\ pkt_contended' = AllBacklogged
           /\ IF Backlog(win)
              THEN /\ q_num' = win
                   /\ selected_qnum' = win
                   /\ pkt_cnt' = TxopCount(win)
              ELSE /\ q_num' = INVALID_QUEUE
                   /\ UNCHANGED <<selected_qnum, pkt_cnt>>
     /\ UNCHANGED wme_org_q

(***************************************************************************)
(* The transmit thread chooses a queue, unless it is blocked; takes a       *)
(* packet, unless it gives up (module WlanTx); and sends it, or drops it if *)
(* its station has left.                                                    *)
(***************************************************************************)
Select ==
  /\ pc = "select"
  /\ core_determine_hal_queue
  /\ pc' = IF q_num' = INVALID_QUEUE \/ Blocked(q_num', sta_data_block, block_ap_queues)
           THEN "select" ELSE "dequeue"
  /\ UNCHANGED <<flowVars, mgmt_queue, blockVars>>

GiveUp ==
  /\ pc = "dequeue"
  /\ pc' = "select"
  /\ UNCHANGED <<flowVars, mgmt_queue, wmmVars, q_num, blockVars>>

Dequeue ==
  /\ pc = "dequeue"
  /\ pc' = "send"
  /\ IF q_num = MGMT_SOFT_Q
     THEN mgmt_queue' = mgmt_queue - 1 /\ UNCHANGED host_tx_queue
     ELSE host_tx_queue' = [host_tx_queue EXCEPT ![q_num] = @ - 1] /\ UNCHANGED mgmt_queue
  /\ UNCHANGED <<stopped, stop_per_q, stop_udp_pkts, wmmVars, q_num, blockVars>>

\* A data queue well below its limit restarts its interface.
Send ==
  /\ pc = "send"
  /\ pc' = "select"
  /\ IF q_num # MGMT_SOFT_Q /\ host_tx_queue[q_num] < MaxLen - Reserve
     THEN /\ stopped' = [stopped EXCEPT ![Vap(q_num)] = FALSE]
          /\ stop_udp_pkts' = [stop_udp_pkts EXCEPT ![q_num] = FALSE]
          /\ stop_per_q' = [stop_per_q EXCEPT ![q_num] = @ /\ ~stop_udp_pkts[q_num]]
          /\ unresumed' = (unresumed /\ Vap(q_num) # "sta")
     ELSE UNCHANGED <<stopped, stop_udp_pkts, stop_per_q, unresumed>>
  /\ UNCHANGED <<host_tx_queue, mgmt_queue, wmmVars, q_num, sta_data_block, block_ap_queues, sta, quiet>>

-----------------------------------------------------------------------------
BlockStep ==
  \/ onebox_scan_start
  \/ traffic_timer_callback
  \/ \E open \in BOOLEAN : onebox_newassoc(open)
  \/ Secured
  \/ StaDisconnected
  \/ \E vaps \in {{"sta"}, Vaps} : QuietStart(vaps)
  \/ QuietEnd

Next ==
  \/ \E q \in Queues, udp, joining \in BOOLEAN : core_xmit(q, udp, joining)
  \/ QueueMgmt
  \/ BlockStep
  \/ \E w \in Weights : core_wme_update(w)
  \/ Select
  \/ GiveUp
  \/ Dequeue
  \/ Send

Spec == Init /\ [][Next]_vars

-----------------------------------------------------------------------------
(***************************************************************************)
(* The queues of the access point stay below their limit; the station's may *)
(* pass it while it joins (core_xmit).  Weights and TXOP counts do not      *)
(* become negative, and flags and program points keep their types.          *)
(***************************************************************************)
TypeOK ==
  /\ host_tx_queue \in [Queues -> 0 .. MaxJoin]
  /\ \A q \in Queues : Vap(q) = "ap" => host_tx_queue[q] < MaxLen
  /\ mgmt_queue \in 0 .. MaxMgmt
  /\ stopped \in [Vaps -> BOOLEAN]
  /\ stop_per_q \in [Queues -> BOOLEAN] /\ stop_udp_pkts \in [Queues -> BOOLEAN]
  /\ wme_org_q \in Weights
  /\ per_q_wt \in [Queues -> Nat] /\ pkt_contended \in [Queues -> BOOLEAN]
  /\ selected_qnum \in Queues \cup {BK_Q_STA} /\ pkt_cnt \in Nat
  /\ pc \in {"select", "dequeue", "send"}
  /\ q_num \in Queues \cup {MGMT_SOFT_Q, INVALID_QUEUE}
  /\ sta_data_block \in BOOLEAN /\ block_ap_queues \in BOOLEAN
  /\ sta \in {"down", "assoc", "up"} /\ quiet \in BOOLEAN /\ unresumed \in BOOLEAN

(***************************************************************************)
(* core_determine_hal_queue finds work whenever there is some: it answers   *)
(* with a queue that holds a packet, however the rest of an earlier TXOP,   *)
(* blocked queues and given-up packets came in between, and INVALID_QUEUE   *)
(* only when all queues are empty.  Module WlanTx relies on it.             *)
(***************************************************************************)
ChoiceHasWork ==
  [][Select =>
       CASE q_num' = INVALID_QUEUE -> mgmt_queue = 0 /\ \A q \in Queues : ~Backlog(q)
         [] q_num' = MGMT_SOFT_Q   -> mgmt_queue > 0
         [] OTHER                  -> Backlog(q_num')]_vars

(***************************************************************************)
(* The contention starves nobody: each time another queue wins, a           *)
(* contending queue comes closer to its turn, by a smaller weight, or, at   *)
(* equal weight, because a winner with weight 0 goes back to a positive     *)
(* one.                                                                     *)
(***************************************************************************)
ComesCloser(q) ==
  \/ per_q_wt'[q] < per_q_wt[q]
  \/ /\ per_q_wt'[q] = per_q_wt[q]
     /\ per_q_wt[q_num'] = 0 /\ per_q_wt'[q_num'] > 0

NoStarvation ==
  [][Select /\ NewContention
     => \A q \in Contending(pkt_contended) : q_num' = q \/ ComesCloser(q)]_vars

(***************************************************************************)
(* Neither the flow control nor a block leaves an interface stopped for     *)
(* good: a stopped interface that is not blocked (the access point) or      *)
(* whose station is associated has a packet under way whose departure       *)
(* restarts it.  The exception is a station whose quiet period or channel   *)
(* switch has ended: the unblocking starts access points only.              *)
(***************************************************************************)
RestartComing(v) ==
  \E q \in Queues : Vap(q) = v /\ (host_tx_queue[q] > 0 \/ (pc = "send" /\ q_num = q))

InterfaceComesBack ==
  /\ stopped["ap"] /\ ~block_ap_queues => RestartComing("ap")
  /\ stopped["sta"] /\ sta # "down" /\ ~sta_data_block => RestartComing("sta") \/ unresumed
=============================================================================
