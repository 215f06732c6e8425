-------------------------- MODULE WlanQueuesProofs --------------------------
(***************************************************************************)
(* Proofs about WlanQueues, for every set of queues, all weights, burst     *)
(* lengths, queue limits, water marks and reserves.                         *)
(*                                                                          *)
(* The contention is dealt with first (WinnerContends: with somebody        *)
(* contending, the winner is a contending queue of least weight); the rest  *)
(* is an inductive invariant, kept by each action.                          *)
(***************************************************************************)
EXTENDS WlanQueues, TLAPS

USE QueuesAssumption, BurstAssumption, WeightsAssumption, BoundAssumption
    DEF QueuesAssumption, BurstAssumption, WeightsAssumption, BoundAssumption,
        BK_Q_STA, VI_Q_STA, VO_Q_STA, NO_STA_DATA_QUEUES, NUM_EDCA_QUEUES, MGMT_SOFT_Q,
        INVALID_QUEUE

(***************************************************************************)
(* The inductive invariant.  What the thread chose is still there: only it  *)
(* takes packets out.                                                       *)
(***************************************************************************)
ChosenInv ==
  /\ pc = "dequeue" => IF q_num = MGMT_SOFT_Q THEN mgmt_queue > 0 ELSE Backlog(q_num)
  /\ pc = "send" => q_num \in Queues \cup {MGMT_SOFT_Q}

\* The packets of the running TXOP are in their queue, besides the chosen one.
TxopInv ==
  pkt_cnt > 0 =>
    /\ selected_qnum \in Queues
    /\ host_tx_queue[selected_qnum] >= pkt_cnt
    /\ pc = "dequeue" /\ q_num = selected_qnum => host_tx_queue[selected_qnum] > pkt_cnt

(***************************************************************************)
(* stop_per_q is cleared only together with stop_udp_pkts (Send), so it     *)
(* must not be set without it, and not outlive the last packet.             *)
(***************************************************************************)
FlowInv ==
  \A q \in Queues :
    /\ host_tx_queue[q] >= WaterMark /\ host_tx_queue[q] >= MaxLen - Reserve => stop_udp_pkts[q]
    /\ stop_per_q[q] => stop_udp_pkts[q]
    /\ stop_per_q[q] => host_tx_queue[q] > 0 \/ (pc = "send" /\ q_num = q)

(***************************************************************************)
(* InterfaceComesBack, and for a station that waits for its keys even while *)
(* it is blocked: installing them unblocks the queues without starting the  *)
(* interface.                                                               *)
(***************************************************************************)
RestartInv ==
  /\ stopped["ap"] /\ ~block_ap_queues => RestartComing("ap")
  /\ stopped["sta"] /\ sta = "assoc" => RestartComing("sta")
  /\ stopped["sta"] /\ sta = "up" /\ ~sta_data_block => RestartComing("sta") \/ unresumed

IInv == TypeOK /\ ChosenInv /\ TxopInv /\ FlowInv /\ RestartInv

-----------------------------------------------------------------------------
(***************************************************************************)
(* The search for the least weight, queue by queue as the loop of           *)
(* core_determine_hal_queue does it: the best of the first n queues.        *)
(***************************************************************************)
Best(w, S, q) == q \in S /\ \A r \in S : w[q] < w[r] \/ (w[q] = w[r] /\ q <= r)

FirstOf(S, n) == {q \in S : q < n}

LEMMA BestOfOneMore ==
  ASSUME NEW w \in [Queues -> Nat], NEW S \in SUBSET Queues, NEW n \in Nat,
         FirstOf(S, n) = {} \/ \E q \in S : Best(w, FirstOf(S, n), q)
  PROVE  FirstOf(S, n + 1) = {} \/ \E q \in S : Best(w, FirstOf(S, n + 1), q)
  <1>0. Queues \subseteq Nat
    OBVIOUS
  <1>1. CASE n \notin S
    <2>1. \A q \in S : q < n + 1 <=> q < n
      BY <1>0, <1>1
    <2>2. FirstOf(S, n + 1) = FirstOf(S, n)
      BY <2>1 DEF FirstOf
    <2>. QED
      BY <2>2
  <1>2. CASE n \in S
    <2>0. FirstOf(S, n + 1) = FirstOf(S, n) \cup {n}
      <3>1. \A q \in S : q < n + 1 <=> q < n \/ q = n
        BY <1>0
      <3>. QED
        BY <1>2, <3>1 DEF FirstOf
    <2>1. CASE FirstOf(S, n) = {}
      <3>1. Best(w, FirstOf(S, n + 1), n)
        BY <1>0, <1>2, <2>0, <2>1 DEF Best
      <3>. QED
        BY <1>2, <3>1
    <2>2. CASE \E q \in S : Best(w, FirstOf(S, n), q)
      <3>1. PICK q \in S : Best(w, FirstOf(S, n), q)
        BY <2>2
      <3>2. q < n /\ q \in Nat /\ w[q] \in Nat /\ w[n] \in Nat
        BY <1>0, <1>2, <3>1 DEF Best, FirstOf
      <3>3. CASE w[q] <= w[n]
        <4>1. Best(w, FirstOf(S, n + 1), q)
          BY <2>0, <3>1, <3>2, <3>3 DEF Best
        <4>. QED
          BY <4>1
      <3>4. CASE w[n] < w[q]
        <4>1. \A r \in FirstOf(S, n) : w[n] < w[r]
          <5>. SUFFICES ASSUME NEW r \in FirstOf(S, n) PROVE w[n] < w[r]
            OBVIOUS
          <5>1. w[r] \in Nat /\ w[q] <= w[r]
            BY <3>1, <3>2 DEF Best, FirstOf
          <5>. QED
            BY <3>2, <3>4, <5>1
        <4>2. Best(w, FirstOf(S, n + 1), n)
          BY <1>0, <1>2, <2>0, <4>1 DEF Best
        <4>. QED
          BY <1>2, <4>2
      <3>. QED
        BY <3>2, <3>3, <3>4
    <2>. QED
      BY <2>1, <2>2
  <1>. QED
    BY <1>1, <1>2

LEMMA BestExists ==
  ASSUME NEW w \in [Queues -> Nat], NEW S \in SUBSET Queues, S # {}
  PROVE  \E q \in S : Best(w, S, q)
  <1>. DEFINE P(n) == FirstOf(S, n) = {} \/ \E q \in S : Best(w, FirstOf(S, n), q)
  <1>s. \A n \in Nat : P(n) => P(n + 1)
    BY BestOfOneMore
  <1>q. \A q \in S : q \in 0 .. 7
    OBVIOUS
  <1>0. P(0)
    <2>1. \A q \in S : ~(q < 0)
      BY <1>q
    <2>2. FirstOf(S, 0) = {}
      BY <2>1 DEF FirstOf
    <2>. QED
      BY <2>2
  <1>. HIDE DEF P
  <1>1. P(1)  BY <1>0, <1>s
  <1>2. P(2)  BY <1>1, <1>s
  <1>3. P(3)  BY <1>2, <1>s
  <1>4. P(4)  BY <1>3, <1>s
  <1>5. P(5)  BY <1>4, <1>s
  <1>6. P(6)  BY <1>5, <1>s
  <1>7. P(7)  BY <1>6, <1>s
  <1>8. P(8)  BY <1>7, <1>s
  <1>9. FirstOf(S, 8) = S
    <2>1. \A q \in S : q < 8
      BY <1>q
    <2>. QED
      BY <2>1 DEF FirstOf
  <1>. QED
    BY <1>8, <1>9 DEF P

(***************************************************************************)
(* With somebody contending, the winner contends and has the least weight.  *)
(***************************************************************************)
LEMMA WinnerContends ==
  ASSUME NEW w \in [Queues -> Nat], NEW c, Contending(c) # {}
  PROVE  /\ Winner(w, c) \in Contending(c)
         /\ \A r \in Contending(c) : w[Winner(w, c)] <= w[r]
  <1>1. Contending(c) \subseteq Queues
    BY DEF Contending
  <1>2. \E q \in Contending(c) : Best(w, Contending(c), q)
    BY <1>1, BestExists
  <1>3. Best(w, Contending(c), Winner(w, c))
    BY <1>2 DEF Winner, Best
  <1>4. Winner(w, c) \in Contending(c)
    BY <1>3 DEF Best
  <1>5. \A r \in Contending(c) : w[r] \in Nat
    BY <1>1
  <1>. QED
    BY <1>3, <1>4, <1>5 DEF Best

LEMMA CountDownType ==
  ASSUME NEW w \in [Queues -> Nat], NEW c, wme_org_q \in Weights
  PROVE  CountDown(w, c) \in [Queues -> Nat]
  <1>1. wme_org_q \in [Queues -> Nat]
    OBVIOUS
  <1>. DEFINE min == IF Contending(c) = {} THEN 0 ELSE w[Winner(w, c)]
  <1>2. min \in Nat
    <2>1. CASE Contending(c) = {}
      BY <2>1
    <2>2. CASE Contending(c) # {}
      <3>1. Winner(w, c) \in Queues
        BY <2>2, WinnerContends DEF Contending
      <3>. QED
        BY <2>2, <3>1
    <2>. QED
      BY <2>1, <2>2
  <1>. HIDE DEF min
  <1>3. ASSUME NEW q \in Queues
        PROVE  (IF w[q] > min THEN w[q] - min ELSE 0) \in Nat
    BY <1>2
  <1>4. CountDown(w, c) =
          [q \in Queues |->
            CASE ~Backlog(q)                -> 0
              [] c[q] /\ q # Winner(w, c) -> IF w[q] > min THEN w[q] - min ELSE 0
              [] OTHER                      -> wme_org_q[q]]
    BY DEF CountDown, min
  <1>. QED
    BY <1>1, <1>3, <1>4

(***************************************************************************)
(* The TXOP of a queue that holds a packet: its first packet and the rest   *)
(* are all in the queue.                                                    *)
(***************************************************************************)
LEMMA TxopFits ==
  ASSUME TypeOK, NEW q \in Queues, Backlog(q)
  PROVE  TxopCount(q) \in Nat /\ TxopCount(q) < host_tx_queue[q]
  <1>1. host_tx_queue[q] \in Nat /\ host_tx_queue[q] > 0
    BY DEF TypeOK, Backlog
  <1>2. CASE q \in {2, 3} /\ Burst[q] > 0
    <2>1. Burst[q] \in Nat
      BY <1>2
    <2>. QED
      BY <1>1, <1>2, <2>1 DEF TxopCount
  <1>3. CASE ~(q \in {2, 3} /\ Burst[q] > 0)
    BY <1>1, <1>3 DEF TxopCount
  <1>. QED
    BY <1>2, <1>3

(***************************************************************************)
(* What core_determine_hal_queue answers, and what it keeps for the next    *)
(* call.                                                                    *)
(***************************************************************************)
Answer ==
  \/ q_num' = INVALID_QUEUE /\ mgmt_queue = 0 /\ \A q \in Queues : ~Backlog(q)
  \/ q_num' = MGMT_SOFT_Q /\ mgmt_queue > 0
  \/ q_num' \in Queues /\ Backlog(q_num')

TxopLeft ==
  pkt_cnt' > 0 =>
    /\ selected_qnum' \in Queues
    /\ host_tx_queue[selected_qnum'] >= pkt_cnt'
    /\ q_num' = selected_qnum' => host_tx_queue[selected_qnum'] > pkt_cnt'

LEMMA NewContentionAnswers ==
  ASSUME TypeOK, NewContention, core_determine_hal_queue
  PROVE  /\ Answer /\ TxopLeft
         /\ per_q_wt' \in [Queues -> Nat] /\ pkt_contended' \in [Queues -> BOOLEAN]
         /\ selected_qnum' \in Queues \cup {BK_Q_STA} /\ pkt_cnt' \in Nat
         /\ wme_org_q' = wme_org_q
  <1>. DEFINE once  == CountDown(per_q_wt, pkt_contended)
              first == Winner(per_q_wt, pkt_contended)
              again == ~Backlog(first) /\ \E q \in Queues : Backlog(q)
              win   == IF again THEN Winner(once, AllBacklogged) ELSE first
  <1>0. mgmt_queue = 0 /\ pkt_cnt = 0
    BY DEF NewContention
  <1>1. /\ per_q_wt' = IF again THEN CountDown(once, AllBacklogged) ELSE once
        /\ pkt_contended' = AllBacklogged
        /\ IF Backlog(win)
           THEN q_num' = win /\ selected_qnum' = win /\ pkt_cnt' = TxopCount(win)
           ELSE q_num' = INVALID_QUEUE /\ UNCHANGED <<selected_qnum, pkt_cnt>>
        /\ wme_org_q' = wme_org_q
    BY <1>0 DEF core_determine_hal_queue
  <1>2. per_q_wt \in [Queues -> Nat] /\ wme_org_q \in Weights
    BY DEF TypeOK
  <1>3. once \in [Queues -> Nat] /\ CountDown(once, AllBacklogged) \in [Queues -> Nat]
    BY <1>2, CountDownType
  <1>4. AllBacklogged \in [Queues -> BOOLEAN]
    BY DEF AllBacklogged, Backlog
  <1>5. again => Backlog(win)
    <2>. HAVE again
    <2>1. Contending(AllBacklogged) # {}
      BY DEF Contending, AllBacklogged
    <2>2. Winner(once, AllBacklogged) \in Contending(AllBacklogged)
      BY <1>3, <2>1, WinnerContends
    <2>. QED
      BY <2>2 DEF Contending
  <1>6. ~Backlog(win) => \A q \in Queues : ~Backlog(q)
    BY <1>5
  <1>. HIDE DEF win, again, first, once
  <1>7. CASE Backlog(win)
    <2>1. win \in Queues
      BY <1>7 DEF Backlog
    <2>2. TxopCount(win) \in Nat /\ TxopCount(win) < host_tx_queue[win]
      BY <1>7, <2>1, TxopFits
    <2>3. host_tx_queue[win] \in Nat
      BY <2>1 DEF TypeOK
    <2>. QED
      BY <1>1, <1>3, <1>4, <1>7, <2>1, <2>2, <2>3 DEF Answer, TxopLeft
  <1>8. CASE ~Backlog(win)
    BY <1>0, <1>1, <1>3, <1>4, <1>6, <1>8 DEF Answer, TxopLeft, TypeOK
  <1>. QED
    BY <1>7, <1>8

LEMMA ChoiceAnswers ==
  ASSUME TypeOK, TxopInv, core_determine_hal_queue
  PROVE  /\ Answer /\ TxopLeft
         /\ per_q_wt' \in [Queues -> Nat] /\ pkt_contended' \in [Queues -> BOOLEAN]
         /\ selected_qnum' \in Queues \cup {BK_Q_STA} /\ pkt_cnt' \in Nat
         /\ wme_org_q' = wme_org_q
  <1>1. CASE mgmt_queue > 0
    <2>1. q_num' = MGMT_SOFT_Q /\ UNCHANGED wmmVars
      BY <1>1 DEF core_determine_hal_queue, NewContention
    <2>2. \A q \in Queues : q # MGMT_SOFT_Q
      OBVIOUS
    <2>. QED
      BY <1>1, <2>1, <2>2 DEF wmmVars, Answer, TxopLeft, TxopInv, TypeOK
  <1>2. CASE mgmt_queue = 0 /\ pkt_cnt > 0
    <2>1. /\ pkt_cnt' = pkt_cnt - 1 /\ q_num' = selected_qnum
          /\ UNCHANGED <<wme_org_q, per_q_wt, pkt_contended, selected_qnum>>
      BY <1>2 DEF core_determine_hal_queue, NewContention
    <2>2. selected_qnum \in Queues /\ host_tx_queue[selected_qnum] >= pkt_cnt
      BY <1>2 DEF TxopInv
    <2>3. host_tx_queue[selected_qnum] \in Nat /\ pkt_cnt \in Nat
      BY <2>2 DEF TypeOK
    <2>. QED
      BY <1>2, <2>1, <2>2, <2>3 DEF Answer, TxopLeft, Backlog, TypeOK
  <1>3. CASE NewContention
    BY <1>3, NewContentionAnswers
  <1>. QED
    BY <1>1, <1>2, <1>3 DEF TypeOK, NewContention

-----------------------------------------------------------------------------
(***************************************************************************)
(* The initial state: both interfaces exist, nothing is queued.             *)
(***************************************************************************)
LEMMA InitIInv == Init => IInv
  <1>. SUFFICES ASSUME Init PROVE IInv
    OBVIOUS
  <1>1. TypeOK
    <2>1. wme_org_q \in Weights /\ per_q_wt \in [Queues -> Nat]
      BY DEF Init
    <2>2. stopped \in [Vaps -> BOOLEAN]
      BY DEF Init
    <2>3. stop_per_q \in [Queues -> BOOLEAN] /\ stop_udp_pkts \in [Queues -> BOOLEAN]
      BY DEF Init
    <2>4. pkt_contended \in [Queues -> BOOLEAN] /\ host_tx_queue \in [Queues -> 0 .. MaxJoin]
      BY DEF Init
    <2>5. /\ mgmt_queue \in 0 .. MaxMgmt /\ selected_qnum \in Queues \cup {BK_Q_STA}
          /\ pkt_cnt \in Nat /\ q_num \in Queues \cup {MGMT_SOFT_Q, INVALID_QUEUE}
      BY DEF Init
    <2>6. /\ pc \in {"select", "dequeue", "send"} /\ sta \in {"down", "assoc", "up"}
          /\ sta_data_block \in BOOLEAN /\ block_ap_queues \in BOOLEAN
          /\ quiet \in BOOLEAN /\ unresumed \in BOOLEAN
      BY DEF Init
    <2>7. \A q \in Queues : host_tx_queue[q] < MaxLen
      BY DEF Init
    <2>. QED
      BY <2>1, <2>2, <2>3, <2>4, <2>5, <2>6, <2>7 DEF TypeOK
  <1>2. ChosenInv /\ TxopInv
    BY DEF Init, ChosenInv, TxopInv
  <1>3. FlowInv
    BY DEF Init, FlowInv
  <1>4. RestartInv
    BY DEF Init, RestartInv, Vaps
  <1>. QED
    BY <1>1, <1>2, <1>3, <1>4 DEF IInv

(***************************************************************************)
(* Types, action by action.                                                 *)
(***************************************************************************)
LEMMA XmitType ==
  ASSUME TypeOK, NEW q \in Queues, NEW udp \in BOOLEAN, NEW joining \in BOOLEAN,
         core_xmit(q, udp, joining)
  PROVE  TypeOK'
  <1>1. Full(q) \in BOOLEAN /\ Laden(q) \in BOOLEAN
    BY DEF TypeOK, Full, Laden
  <1>2. host_tx_queue' \in [Queues -> 0 .. MaxJoin]
    <2>1. host_tx_queue[q] \in 0 .. MaxJoin
      BY DEF TypeOK
    <2>2. ~Full(q) \/ joining => host_tx_queue[q] + 1 \in 0 .. MaxJoin
      BY <2>1 DEF Full, core_xmit
    <2>. QED
      BY <2>1, <2>2 DEF core_xmit, TypeOK
  <1>5. ASSUME NEW r \in Queues, Vap(r) = "ap" PROVE host_tx_queue'[r] < MaxLen
    <2>1. host_tx_queue[r] \in Nat /\ host_tx_queue[r] < MaxLen
      BY <1>5 DEF TypeOK
    <2>2. host_tx_queue'[r] = host_tx_queue[r] \/ (r = q /\ ~Full(q) /\ host_tx_queue'[r] = host_tx_queue[r] + 1)
      BY <1>5, <2>1 DEF core_xmit, TypeOK
    <2>. QED
      BY <2>1, <2>2 DEF Full
  <1>3. stop_per_q' \in [Queues -> BOOLEAN] /\ stop_udp_pkts' \in [Queues -> BOOLEAN]
    BY <1>1 DEF core_xmit, TypeOK
  <1>4. stopped' \in [Vaps -> BOOLEAN]
    <2>1. stopped \in [Vaps -> BOOLEAN]
      BY DEF TypeOK
    <2>2. stopped' = stopped \/ stopped' = [stopped EXCEPT ![Vap(q)] = TRUE]
      BY DEF core_xmit
    <2>. QED
      BY <2>1, <2>2
  <1>. QED
    BY <1>2, <1>3, <1>4, <1>5 DEF core_xmit, TypeOK, wmmVars, threadVars, blockVars

\* The effect of blocking and unblocking on the types.
LEMMA BlockUnblockType ==
  ASSUME TypeOK, NEW vaps, NEW event, NEW apBlocked \in BOOLEAN,
         onebox_send_block_unblock(vaps, event, apBlocked)
  PROVE  /\ sta_data_block' \in BOOLEAN /\ block_ap_queues' \in BOOLEAN
         /\ stopped' \in [Vaps -> BOOLEAN] /\ mgmt_queue' \in 0 .. MaxMgmt
  <1>1. mgmt_queue' \in 0 .. MaxMgmt
    BY DEF onebox_send_block_unblock, SendInternalMgmt, TypeOK
  <1>2. stopped \in [Vaps -> BOOLEAN]
    BY DEF TypeOK
  <1>. QED
    BY <1>1, <1>2 DEF onebox_send_block_unblock

LEMMA BlockStepType ==
  ASSUME TypeOK, BlockStep
  PROVE  TypeOK'
  <1>0. block_ap_queues \in BOOLEAN /\ TRUE \in BOOLEAN /\ FALSE \in BOOLEAN
    BY DEF TypeOK
  <1>. USE DEF blockFrame, wmmVars, threadVars
  <1>1. CASE onebox_scan_start
    BY <1>0, <1>1, BlockUnblockType, ZenonT(30) DEF onebox_scan_start, TypeOK
  <1>2. CASE traffic_timer_callback
    BY <1>0, <1>2, BlockUnblockType, ZenonT(30) DEF traffic_timer_callback, TypeOK
  <1>3. ASSUME NEW open \in BOOLEAN, onebox_newassoc(open) PROVE TypeOK'
    <2>1. stopped' \in [Vaps -> BOOLEAN]
      <3>1. stopped \in [Vaps -> BOOLEAN]
        BY DEF TypeOK
      <3>2. stopped' = [v \in Vaps |-> FALSE] \/ stopped' = [stopped EXCEPT !["sta"] = FALSE]
        BY <1>3 DEF onebox_newassoc
      <3>. QED
        BY <3>1, <3>2
    <2>2. mgmt_queue' \in 0 .. MaxMgmt
      BY <1>3 DEF onebox_newassoc, SendInternalMgmt, TypeOK
    <2>3. sta_data_block' \in BOOLEAN /\ block_ap_queues' \in BOOLEAN
      BY <1>3 DEF onebox_newassoc, TypeOK
    <2>4. sta' \in {"down", "assoc", "up"} /\ unresumed' = FALSE
      BY <1>3 DEF onebox_newassoc
    <2>. QED
      BY <1>3, <2>1, <2>2, <2>3, <2>4 DEF onebox_newassoc, TypeOK
  <1>4. CASE Secured
    BY <1>0, <1>4, BlockUnblockType DEF Secured, TypeOK
  <1>5. CASE StaDisconnected
    BY <1>0, <1>5, BlockUnblockType DEF StaDisconnected, SendInternalMgmt, TypeOK
  <1>6. ASSUME NEW vaps, QuietStart(vaps) PROVE TypeOK'
    BY <1>0, <1>6, BlockUnblockType DEF QuietStart, TypeOK
  <1>7. CASE QuietEnd
    <2>1. /\ sta_data_block' \in BOOLEAN /\ block_ap_queues' \in BOOLEAN
          /\ stopped' \in [Vaps -> BOOLEAN] /\ mgmt_queue' \in 0 .. MaxMgmt
      BY <1>0, <1>7, BlockUnblockType DEF QuietEnd
    <2>. QED
      BY <1>7, <2>1 DEF QuietEnd, TypeOK
  <1>. QED
    BY <1>1, <1>2, <1>3, <1>4, <1>5, <1>6, <1>7 DEF BlockStep

LEMMA ThreadType ==
  ASSUME IInv, Select \/ GiveUp \/ Dequeue \/ Send
  PROVE  TypeOK'
  <1>0. TypeOK /\ TxopInv /\ ChosenInv
    BY DEF IInv
  <1>1. CASE Select
    <2>1. core_determine_hal_queue /\ pc' \in {"select", "dequeue"}
      BY <1>1 DEF Select
    <2>2. q_num' \in Queues \cup {MGMT_SOFT_Q, INVALID_QUEUE}
      BY <1>0, <2>1, ChoiceAnswers DEF Answer
    <2>3. UNCHANGED <<flowVars, mgmt_queue, blockVars>>
      BY <1>1 DEF Select
    <2>. QED
      BY <1>0, <2>1, <2>2, <2>3, ChoiceAnswers DEF TypeOK, flowVars, blockVars
  <1>2. CASE GiveUp
    BY <1>0, <1>2 DEF GiveUp, TypeOK, flowVars, wmmVars, blockVars
  <1>3. CASE Dequeue
    <2>1. CASE q_num = MGMT_SOFT_Q
      <3>1. mgmt_queue' \in 0 .. MaxMgmt /\ host_tx_queue' = host_tx_queue
        BY <1>0, <1>3, <2>1 DEF Dequeue, ChosenInv, TypeOK
      <3>. QED
        BY <1>0, <1>3, <3>1 DEF Dequeue, TypeOK, wmmVars, blockVars
    <2>2. CASE q_num # MGMT_SOFT_Q
      <3>1. q_num \in Queues /\ host_tx_queue[q_num] > 0 /\ host_tx_queue[q_num] \in 0 .. MaxJoin
        BY <1>0, <1>3, <2>2 DEF Dequeue, ChosenInv, Backlog, TypeOK
      <3>2. host_tx_queue[q_num] - 1 \in 0 .. MaxJoin
        BY <3>1
      <3>3. host_tx_queue' \in [Queues -> 0 .. MaxJoin] /\ mgmt_queue' = mgmt_queue
        BY <1>0, <1>3, <2>2, <3>1, <3>2 DEF Dequeue, TypeOK
      <3>4. ASSUME NEW r \in Queues, Vap(r) = "ap" PROVE host_tx_queue'[r] < MaxLen
        <4>1. host_tx_queue[r] \in Nat /\ host_tx_queue[r] < MaxLen
          BY <1>0, <3>4 DEF TypeOK
        <4>2. host_tx_queue'[r] = host_tx_queue[r] \/ host_tx_queue'[r] = host_tx_queue[r] - 1
          BY <1>0, <1>3, <2>2 DEF Dequeue, TypeOK
        <4>. QED
          BY <4>1, <4>2
      <3>. QED
        BY <1>0, <1>3, <3>3, <3>4 DEF Dequeue, TypeOK, wmmVars, blockVars
    <2>. QED
      BY <2>1, <2>2
  <1>4. CASE Send
    <2>1. CASE q_num # MGMT_SOFT_Q /\ host_tx_queue[q_num] < MaxLen - Reserve
      <3>1. q_num \in Queues
        BY <1>0, <1>4, <2>1 DEF Send, ChosenInv
      <3>2. /\ stopped' = [stopped EXCEPT ![Vap(q_num)] = FALSE]
            /\ stop_udp_pkts' = [stop_udp_pkts EXCEPT ![q_num] = FALSE]
        BY <1>4, <2>1 DEF Send
      <3>5. stopped' \in [Vaps -> BOOLEAN] /\ stop_udp_pkts' \in [Queues -> BOOLEAN]
        BY <1>0, <3>2 DEF TypeOK
      <3>3. stop_per_q' \in [Queues -> BOOLEAN]
        BY <1>0, <1>4, <2>1, <3>1 DEF Send, TypeOK
      <3>4. unresumed' \in BOOLEAN
        BY <1>0, <1>4, <2>1 DEF Send, TypeOK
      <3>. QED
        BY <1>0, <1>4, <3>3, <3>4, <3>5 DEF Send, TypeOK, wmmVars
    <2>2. CASE ~(q_num # MGMT_SOFT_Q /\ host_tx_queue[q_num] < MaxLen - Reserve)
      BY <1>0, <1>4, <2>2 DEF Send, TypeOK, wmmVars
    <2>. QED
      BY <2>1, <2>2
  <1>. QED
    BY <1>1, <1>2, <1>3, <1>4

LEMMA TypeStep ==
  ASSUME IInv, [Next]_vars
  PROVE  TypeOK'
  <1>0. TypeOK
    BY DEF IInv
  <1>1. ASSUME NEW q \in Queues, NEW udp \in BOOLEAN, NEW joining \in BOOLEAN,
               core_xmit(q, udp, joining)
        PROVE  TypeOK'
    BY <1>0, <1>1, XmitType
  <1>2. CASE QueueMgmt
    BY <1>0, <1>2 DEF QueueMgmt, SendInternalMgmt, TypeOK, flowVars, wmmVars, threadVars, blockVars
  <1>3. CASE BlockStep
    BY <1>0, <1>3, BlockStepType
  <1>4. ASSUME NEW w \in Weights, core_wme_update(w) PROVE TypeOK'
    <2>1. w \in [Queues -> Nat]
      OBVIOUS
    <2>2. /\ wme_org_q' \in Weights /\ per_q_wt' \in [Queues -> Nat]
          /\ pkt_contended' \in [Queues -> BOOLEAN]
      BY <1>4, <2>1 DEF core_wme_update
    <2>3. UNCHANGED <<flowVars, mgmt_queue, selected_qnum, pkt_cnt, threadVars, blockVars>>
      BY <1>4 DEF core_wme_update
    <2>. QED
      BY <1>0, <2>2, <2>3 DEF TypeOK, flowVars, threadVars, blockVars
  <1>5. CASE Select \/ GiveUp \/ Dequeue \/ Send
    BY <1>5, ThreadType
  <1>6. CASE UNCHANGED vars
    BY <1>0, <1>6 DEF TypeOK, vars, flowVars, wmmVars, threadVars, blockVars
  <1>. QED
    BY <1>1, <1>2, <1>3, <1>4, <1>5, <1>6 DEF Next

(***************************************************************************)
(* What the thread chose and the packets of its TXOP: the stacks only add   *)
(* packets, and the thread takes out one it had chosen.                     *)
(***************************************************************************)
LEMMA QueuesOnlyGrow ==
  ASSUME TypeOK, ChosenInv, TxopInv, UNCHANGED <<threadVars, selected_qnum, pkt_cnt>>,
         host_tx_queue' \in [Queues -> 0 .. MaxJoin], mgmt_queue' \in 0 .. MaxMgmt,
         mgmt_queue' >= mgmt_queue, \A q \in Queues : host_tx_queue'[q] >= host_tx_queue[q]
  PROVE  ChosenInv' /\ TxopInv'
  <1>0. \A q \in Queues : host_tx_queue[q] \in Nat /\ host_tx_queue'[q] \in Nat
    BY DEF TypeOK
  <1>1. \A q : Backlog(q) => Backlog(q)'
    BY <1>0 DEF Backlog
  <1>2. mgmt_queue > 0 => mgmt_queue' > 0
    BY DEF TypeOK
  <1>3. ChosenInv'
    BY <1>1, <1>2 DEF ChosenInv, threadVars
  <1>4. TxopInv'
    BY <1>0 DEF TxopInv, threadVars, TypeOK
  <1>. QED
    BY <1>3, <1>4

LEMMA ThreadKeepsChoice ==
  ASSUME TypeOK, ChosenInv, TxopInv, Select \/ GiveUp \/ Dequeue \/ Send
  PROVE  ChosenInv' /\ TxopInv'
  <1>0. \A q \in Queues : q # MGMT_SOFT_Q /\ q # INVALID_QUEUE /\ host_tx_queue[q] \in Nat
    BY DEF TypeOK
  <1>1. CASE Select
    <2>1. /\ core_determine_hal_queue
          /\ host_tx_queue' = host_tx_queue /\ mgmt_queue' = mgmt_queue
          /\ pc' \in {"select", "dequeue"}
          /\ pc' = "dequeue" => q_num' # INVALID_QUEUE
      BY <1>1 DEF Select, flowVars
    <2>2. Answer /\ TxopLeft /\ pkt_cnt' \in Nat
      BY <2>1, ChoiceAnswers
    <2>3. ChosenInv'
      BY <1>0, <2>1, <2>2 DEF ChosenInv, Answer, Backlog
    <2>4. TxopInv'
      BY <1>0, <2>1, <2>2 DEF TxopInv, TxopLeft
    <2>. QED
      BY <2>3, <2>4
  <1>2. CASE GiveUp
    BY <1>2 DEF GiveUp, ChosenInv, TxopInv, flowVars, wmmVars
  <1>3. CASE Dequeue
    <2>0. /\ pc = "dequeue" /\ pc' = "send" /\ q_num' = q_num
          /\ selected_qnum' = selected_qnum /\ pkt_cnt' = pkt_cnt
      BY <1>3 DEF Dequeue, wmmVars
    <2>1. CASE q_num = MGMT_SOFT_Q
      <3>1. host_tx_queue' = host_tx_queue
        BY <1>3, <2>1 DEF Dequeue
      <3>. QED
        BY <2>0, <2>1, <3>1 DEF ChosenInv, TxopInv
    <2>2. CASE q_num # MGMT_SOFT_Q
      <3>1. q_num \in Queues
        BY <2>0, <2>2 DEF ChosenInv, Backlog
      <3>2. host_tx_queue' = [host_tx_queue EXCEPT ![q_num] = @ - 1]
        BY <1>3, <2>2 DEF Dequeue
      <3>3. /\ host_tx_queue'[q_num] = host_tx_queue[q_num] - 1
            /\ \A q \in Queues : q # q_num => host_tx_queue'[q] = host_tx_queue[q]
        BY <3>1, <3>2 DEF TypeOK
      <3>4. ChosenInv'
        BY <2>0, <3>1 DEF ChosenInv
      <3>5. pkt_cnt > 0 => /\ selected_qnum \in Queues
                           /\ host_tx_queue'[selected_qnum] >= pkt_cnt
        <4>. HAVE pkt_cnt > 0
        <4>1. selected_qnum \in Queues /\ host_tx_queue[selected_qnum] >= pkt_cnt
          BY DEF TxopInv
        <4>2. pkt_cnt \in Nat /\ host_tx_queue[selected_qnum] \in Nat
          BY <1>0, <4>1 DEF TypeOK
        <4>3. CASE selected_qnum = q_num
          <5>1. host_tx_queue[selected_qnum] > pkt_cnt
            BY <2>0, <4>3 DEF TxopInv
          <5>. QED
            BY <3>3, <4>1, <4>2, <4>3, <5>1
        <4>4. CASE selected_qnum # q_num
          BY <3>3, <4>1, <4>4
        <4>. QED
          BY <4>3, <4>4
      <3>6. TxopInv'
        BY <2>0, <3>5 DEF TxopInv
      <3>. QED
        BY <3>4, <3>6
    <2>. QED
      BY <2>1, <2>2
  <1>4. CASE Send
    BY <1>4 DEF Send, ChosenInv, TxopInv, wmmVars
  <1>. QED
    BY <1>1, <1>2, <1>3, <1>4

\* Blocking and unblocking add at most a frame to the management queue.
LEMMA BlockStepFrame ==
  ASSUME TypeOK, BlockStep
  PROVE  UNCHANGED blockFrame /\ mgmt_queue' >= mgmt_queue
  <1>0. mgmt_queue \in Nat
    BY DEF TypeOK
  <1>1. UNCHANGED blockFrame
    BY DEF BlockStep, onebox_scan_start, traffic_timer_callback, onebox_newassoc, Secured,
           StaDisconnected, QuietStart, QuietEnd
  <1>2. mgmt_queue' = mgmt_queue + 1 \/ mgmt_queue' = mgmt_queue
    BY DEF BlockStep, onebox_scan_start, traffic_timer_callback, onebox_newassoc, Secured,
           StaDisconnected, QuietStart, QuietEnd, onebox_send_block_unblock, SendInternalMgmt
  <1>. QED
    BY <1>0, <1>1, <1>2

LEMMA ChoiceStep ==
  ASSUME IInv, [Next]_vars
  PROVE  ChosenInv' /\ TxopInv'
  <1>0. TypeOK /\ ChosenInv /\ TxopInv
    BY DEF IInv
  <1>t. host_tx_queue' \in [Queues -> 0 .. MaxJoin] /\ mgmt_queue' \in 0 .. MaxMgmt
    BY TypeStep DEF TypeOK
  <1>n. \A q \in Queues : host_tx_queue[q] \in Nat
    BY <1>0 DEF TypeOK
  <1>1. ASSUME NEW q \in Queues, NEW udp \in BOOLEAN, NEW joining \in BOOLEAN,
               core_xmit(q, udp, joining)
        PROVE  ChosenInv' /\ TxopInv'
    <2>1. \A r \in Queues : host_tx_queue'[r] >= host_tx_queue[r]
      BY <1>0, <1>1, <1>n DEF core_xmit, TypeOK
    <2>2. mgmt_queue' >= mgmt_queue /\ UNCHANGED <<threadVars, selected_qnum, pkt_cnt>>
      BY <1>0, <1>1 DEF core_xmit, wmmVars, TypeOK
    <2>. QED
      BY <1>0, <1>t, <2>1, <2>2, QueuesOnlyGrow
  <1>2. CASE QueueMgmt
    BY <1>0, <1>2, <1>t, <1>n, QueuesOnlyGrow DEF QueueMgmt, SendInternalMgmt, flowVars, wmmVars, TypeOK
  <1>3. CASE BlockStep
    BY <1>0, <1>3, <1>t, <1>n, BlockStepFrame, QueuesOnlyGrow DEF blockFrame, wmmVars
  <1>4. ASSUME NEW w \in Weights, core_wme_update(w) PROVE ChosenInv' /\ TxopInv'
    BY <1>0, <1>4, <1>t, <1>n, QueuesOnlyGrow DEF core_wme_update, flowVars, TypeOK
  <1>5. CASE Select \/ GiveUp \/ Dequeue \/ Send
    BY <1>0, <1>5, ThreadKeepsChoice
  <1>6. CASE UNCHANGED vars
    BY <1>0, <1>6 DEF ChosenInv, TxopInv, Backlog, vars, flowVars, wmmVars, threadVars
  <1>. QED
    BY <1>1, <1>2, <1>3, <1>4, <1>5, <1>6 DEF Next

(***************************************************************************)
(* The flow control flags, queue by queue.                                  *)
(***************************************************************************)
FlowOf(q) ==
  /\ host_tx_queue[q] >= WaterMark /\ host_tx_queue[q] >= MaxLen - Reserve => stop_udp_pkts[q]
  /\ stop_per_q[q] => stop_udp_pkts[q]
  /\ stop_per_q[q] => host_tx_queue[q] > 0 \/ (pc = "send" /\ q_num = q)

LEMMA XmitFlow ==
  ASSUME TypeOK, FlowInv, NEW q \in Queues, NEW udp \in BOOLEAN, NEW joining \in BOOLEAN,
         core_xmit(q, udp, joining)
  PROVE  FlowInv'
  <1>. SUFFICES ASSUME NEW r \in Queues PROVE FlowOf(r)'
    BY DEF FlowInv, FlowOf
  <1>0. FlowOf(r) /\ FlowOf(q)
    BY DEF FlowInv, FlowOf
  <1>1. pc' = pc /\ q_num' = q_num
    BY DEF core_xmit, threadVars
  <1>2. CASE r # q
    <2>1. /\ host_tx_queue'[r] = host_tx_queue[r] /\ stop_per_q'[r] = stop_per_q[r]
          /\ stop_udp_pkts'[r] = stop_udp_pkts[r]
      BY <1>2 DEF core_xmit, TypeOK
    <2>. QED
      BY <1>0, <1>1, <2>1 DEF FlowOf
  <1>3. CASE r = q
    <2>0. host_tx_queue[q] \in Nat /\ host_tx_queue'[q] \in Nat
      BY XmitType DEF TypeOK
    <2>1. stop_per_q'[q] = Full(q)
      BY DEF core_xmit, TypeOK
    <2>2. Full(q) => Laden(q) /\ (host_tx_queue[q] > 0 \/ (pc = "send" /\ q_num = q))
      BY <1>0, <2>0 DEF FlowOf, Full, Laden
    <2>3. CASE Full(q) /\ ~joining
      <3>1. host_tx_queue' = host_tx_queue /\ stop_udp_pkts' = stop_udp_pkts
        BY <2>3 DEF core_xmit
      <3>2. stop_udp_pkts[q]
        BY <1>0, <2>0, <2>3 DEF FlowOf, Full
      <3>. QED
        BY <1>1, <1>3, <2>1, <2>2, <2>3, <3>1, <3>2 DEF FlowOf
    <2>4. CASE ~Full(q) \/ joining
      <3>1. /\ stop_udp_pkts'[q] = Laden(q)
            /\ \/ host_tx_queue'[q] = host_tx_queue[q] /\ Laden(q)
               \/ host_tx_queue'[q] = host_tx_queue[q] + 1
        BY <2>4 DEF core_xmit, TypeOK
      <3>2. host_tx_queue'[q] >= WaterMark => stop_udp_pkts'[q]
        BY <2>0, <3>1 DEF Laden
      <3>3. stop_per_q'[q] => stop_udp_pkts'[q]
        BY <2>1, <2>2, <3>1
      <3>4. stop_per_q'[q] => host_tx_queue'[q] > 0 \/ (pc = "send" /\ q_num = q)
        BY <2>0, <2>1, <2>2, <3>1
      <3>. QED
        BY <1>1, <1>3, <3>2, <3>3, <3>4 DEF FlowOf
    <2>. QED
      BY <2>3, <2>4
  <1>. QED
    BY <1>2, <1>3

LEMMA ThreadFlow ==
  ASSUME TypeOK, ChosenInv, FlowInv, Select \/ GiveUp \/ Dequeue \/ Send
  PROVE  FlowInv'
  <1>. SUFFICES ASSUME NEW r \in Queues PROVE FlowOf(r)'
    BY DEF FlowInv, FlowOf
  <1>0. FlowOf(r) /\ host_tx_queue[r] \in Nat
    BY DEF FlowInv, FlowOf, TypeOK
  <1>1. CASE Select \/ GiveUp
    BY <1>0, <1>1 DEF Select, GiveUp, FlowOf, flowVars
  <1>2. CASE Dequeue
    <2>0. /\ pc = "dequeue" /\ pc' = "send" /\ q_num' = q_num
          /\ stop_per_q' = stop_per_q /\ stop_udp_pkts' = stop_udp_pkts
      BY <1>2 DEF Dequeue
    <2>1. CASE q_num = r
      <3>1. host_tx_queue'[r] = host_tx_queue[r] - 1
        BY <1>2, <2>1 DEF Dequeue, TypeOK
      <3>. QED
        BY <1>0, <2>0, <2>1, <3>1 DEF FlowOf
    <2>2. CASE q_num # r
      <3>1. host_tx_queue'[r] = host_tx_queue[r]
        BY <1>2, <2>2 DEF Dequeue, TypeOK
      <3>. QED
        BY <1>0, <2>0, <2>2, <3>1 DEF FlowOf
    <2>. QED
      BY <2>1, <2>2
  <1>3. CASE Send
    <2>0. pc = "send" /\ pc' = "select" /\ q_num' = q_num /\ host_tx_queue' = host_tx_queue
      BY <1>3 DEF Send
    <2>1. CASE q_num # MGMT_SOFT_Q /\ host_tx_queue[q_num] < MaxLen - Reserve
      <3>1. /\ stop_udp_pkts' = [stop_udp_pkts EXCEPT ![q_num] = FALSE]
            /\ stop_per_q' = [stop_per_q EXCEPT ![q_num] = @ /\ ~stop_udp_pkts[q_num]]
        BY <1>3, <2>1 DEF Send
      <3>2. CASE q_num = r
        <4>1. stop_per_q'[r] = (stop_per_q[r] /\ ~stop_udp_pkts[r])
          BY <3>1, <3>2 DEF TypeOK
        <4>2. ~stop_per_q'[r]
          BY <1>0, <4>1 DEF FlowOf
        <4>. QED
          BY <1>0, <2>0, <2>1, <3>2, <4>2 DEF FlowOf
      <3>3. CASE q_num # r
        <4>1. stop_per_q'[r] = stop_per_q[r] /\ stop_udp_pkts'[r] = stop_udp_pkts[r]
          BY <3>1, <3>3, ZenonT(30) DEF TypeOK
        <4>. QED
          BY <1>0, <2>0, <3>3, <4>1 DEF FlowOf
      <3>. QED
        BY <3>2, <3>3
    <2>2. CASE ~(q_num # MGMT_SOFT_Q /\ host_tx_queue[q_num] < MaxLen - Reserve)
      <3>1. stop_per_q' = stop_per_q /\ stop_udp_pkts' = stop_udp_pkts
        BY <1>3, <2>2 DEF Send
      <3>2. q_num = r => host_tx_queue[r] > 0
        BY <1>0, <2>2
      <3>. QED
        BY <1>0, <2>0, <3>1, <3>2 DEF FlowOf
    <2>. QED
      BY <2>1, <2>2
  <1>. QED
    BY <1>1, <1>2, <1>3

LEMMA FlowStep ==
  ASSUME IInv, [Next]_vars
  PROVE  FlowInv'
  <1>0. TypeOK /\ ChosenInv /\ FlowInv
    BY DEF IInv
  <1>1. ASSUME NEW q \in Queues, NEW udp \in BOOLEAN, NEW joining \in BOOLEAN,
               core_xmit(q, udp, joining)
        PROVE  FlowInv'
    BY <1>0, <1>1, XmitFlow
  <1>2. CASE QueueMgmt
    BY <1>0, <1>2 DEF QueueMgmt, FlowInv, flowVars, threadVars
  <1>3. CASE BlockStep
    BY <1>0, <1>3, BlockStepFrame DEF blockFrame, FlowInv, threadVars
  <1>4. ASSUME NEW w \in Weights, core_wme_update(w) PROVE FlowInv'
    BY <1>0, <1>4 DEF core_wme_update, FlowInv, flowVars, threadVars
  <1>5. CASE Select \/ GiveUp \/ Dequeue \/ Send
    BY <1>0, <1>5, ThreadFlow
  <1>6. CASE UNCHANGED vars
    BY <1>0, <1>6 DEF FlowInv, vars, flowVars, threadVars
  <1>. QED
    BY <1>1, <1>2, <1>3, <1>4, <1>5, <1>6 DEF Next

(***************************************************************************)
(* A packet whose departure restarts an interface stays under way unless    *)
(* the interface is restarted.                                              *)
(***************************************************************************)
LEMMA RestartKept ==
  ASSUME TypeOK, NEW v, UNCHANGED threadVars,
         \A q \in Queues : host_tx_queue'[q] \in Nat /\ host_tx_queue'[q] >= host_tx_queue[q]
  PROVE  RestartComing(v) => RestartComing(v)'
  <1>1. \A q \in Queues : host_tx_queue[q] > 0 => host_tx_queue'[q] > 0
    BY DEF TypeOK
  <1>. QED
    BY <1>1 DEF RestartComing, threadVars

LEMMA XmitRestart ==
  ASSUME TypeOK, FlowInv, RestartInv,
         NEW q \in Queues, NEW udp \in BOOLEAN, NEW joining \in BOOLEAN,
         core_xmit(q, udp, joining)
  PROVE  RestartInv'
  <1>0. \A r \in Queues : /\ host_tx_queue[r] \in Nat /\ host_tx_queue'[r] \in Nat
                          /\ host_tx_queue'[r] >= host_tx_queue[r]
    BY XmitType DEF TypeOK, core_xmit
  <1>1. UNCHANGED threadVars /\ UNCHANGED blockVars
    BY DEF core_xmit
  <1>2. \A v : RestartComing(v) => RestartComing(v)'
    BY <1>0, <1>1, RestartKept
  <1>3. CASE stopped' = stopped
    BY <1>1, <1>2, <1>3 DEF RestartInv, blockVars
  <1>4. CASE stopped' # stopped
    <2>1. Full(q) /\ stopped' = [stopped EXCEPT ![Vap(q)] = TRUE]
      BY <1>4 DEF core_xmit
    <2>2. host_tx_queue[q] > 0 \/ (pc = "send" /\ q_num = q)
      BY <1>0, <2>1 DEF Full, FlowInv
    <2>3. RestartComing(Vap(q))'
      BY <1>2, <2>2 DEF RestartComing
    <2>4. \A v \in Vaps : v # Vap(q) => stopped'[v] = stopped[v]
      BY <2>1 DEF TypeOK
    <2>5. "ap" \in Vaps /\ "sta" \in Vaps
      BY DEF Vaps
    <2>. QED
      BY <1>1, <1>2, <2>3, <2>4, <2>5 DEF RestartInv, blockVars
  <1>. QED
    BY <1>3, <1>4

LEMMA BlockUnblockEffect ==
  ASSUME TypeOK, NEW vaps, NEW event, NEW apBlocked \in BOOLEAN,
         onebox_send_block_unblock(vaps, event, apBlocked)
  PROVE  /\ stopped'["ap"] => block_ap_queues'
         /\ event = "STA_DISCONNECTED" => sta_data_block'
         /\ event # "STA_DISCONNECTED" => stopped'["sta"] = stopped["sta"]
         /\ "sta" \notin vaps => stopped'["sta"] = stopped["sta"]
  <1>. DEFINE block == event = "STA_DISCONNECTED"
              ap    == apBlocked /\ block
  <1>1. /\ sta_data_block' = block /\ block_ap_queues' = ap
        /\ stopped' = [v \in Vaps |-> IF v = "ap" /\ ~ap THEN FALSE
                                      ELSE stopped[v] \/ (block /\ v \in vaps)]
    BY DEF onebox_send_block_unblock
  <1>2. stopped["sta"] \in BOOLEAN
    BY DEF TypeOK, Vaps
  <1>3. ~ap => stopped'["ap"] = FALSE
    BY <1>1 DEF Vaps
  <1>4. stopped'["sta"] = (stopped["sta"] \/ (block /\ "sta" \in vaps))
    BY <1>1 DEF Vaps
  <1>. QED
    BY <1>1, <1>2, <1>3, <1>4

LEMMA BlockStepRestart ==
  ASSUME TypeOK, RestartInv, BlockStep
  PROVE  RestartInv'
  <1>0. block_ap_queues \in BOOLEAN /\ stopped \in [Vaps -> BOOLEAN]
    BY DEF TypeOK
  <1>1. \A v : RestartComing(v)' <=> RestartComing(v)
    BY BlockStepFrame DEF blockFrame, threadVars, RestartComing
  <1>2. CASE onebox_scan_start \/ traffic_timer_callback
    <2>1. PICK apBlocked \in BOOLEAN :
            onebox_send_block_unblock({"ap"}, "STA_DISCONNECTED", apBlocked)
      BY <1>2 DEF onebox_scan_start, traffic_timer_callback
    <2>2. "sta" \notin {"ap"}
      OBVIOUS
    <2>3. /\ stopped'["ap"] => block_ap_queues'
          /\ sta_data_block' /\ stopped'["sta"] = stopped["sta"]
      BY <2>1, <2>2, BlockUnblockEffect
    <2>4. sta' = sta
      BY <1>2 DEF onebox_scan_start, traffic_timer_callback
    <2>. QED
      BY <1>1, <2>3, <2>4 DEF RestartInv
  <1>3. ASSUME NEW open \in BOOLEAN, onebox_newassoc(open) PROVE RestartInv'
    <2>1. ~stopped'["sta"]
      BY <1>0, <1>3 DEF onebox_newassoc, Vaps
    <2>2. \/ ~stopped'["ap"]
          \/ stopped'["ap"] = stopped["ap"] /\ block_ap_queues' = block_ap_queues
      BY <1>0, <1>3 DEF onebox_newassoc, Vaps
    <2>. QED
      BY <1>1, <2>1, <2>2 DEF RestartInv
  <1>4. CASE Secured
    <2>0. sta = "assoc" /\ sta' = "up" /\ unresumed' = unresumed
      BY <1>4 DEF Secured
    <2>1. CASE sta_data_block
      <3>1. stopped'["sta"] = stopped["sta"] /\ (stopped'["ap"] => block_ap_queues')
        BY <1>0, <1>4, <2>1, BlockUnblockEffect DEF Secured
      <3>. QED
        BY <1>1, <2>0, <3>1 DEF RestartInv
    <2>2. CASE ~sta_data_block
      <3>1. stopped' = stopped /\ block_ap_queues' = block_ap_queues
        BY <1>4, <2>2 DEF Secured
      <3>. QED
        BY <1>1, <2>0, <3>1 DEF RestartInv
    <2>. QED
      BY <2>1, <2>2
  <1>5. CASE StaDisconnected
    <2>0. sta' = "down"
      BY <1>5 DEF StaDisconnected
    <2>1. CASE ~sta_data_block
      BY <1>0, <1>1, <1>5, <2>0, <2>1, BlockUnblockEffect DEF StaDisconnected, RestartInv
    <2>2. CASE sta_data_block
      <3>1. stopped' = stopped /\ block_ap_queues' = block_ap_queues
        BY <1>5, <2>2 DEF StaDisconnected
      <3>. QED
        BY <1>1, <2>0, <3>1 DEF RestartInv
    <2>. QED
      BY <2>1, <2>2
  <1>6. ASSUME NEW vaps, QuietStart(vaps) PROVE RestartInv'
    <2>1. /\ stopped'["ap"] => block_ap_queues'
          /\ sta_data_block' /\ sta' = "up"
      BY <1>0, <1>6, BlockUnblockEffect DEF QuietStart
    <2>. QED
      BY <2>1 DEF RestartInv
  <1>7. CASE QuietEnd
    <2>1. /\ stopped'["ap"] => block_ap_queues'
          /\ unresumed' /\ sta' = sta /\ stopped'["sta"] = stopped["sta"]
      BY <1>0, <1>7, BlockUnblockEffect DEF QuietEnd
    <2>. QED
      BY <1>1, <2>1 DEF RestartInv
  <1>. QED
    BY <1>2, <1>3, <1>4, <1>5, <1>6, <1>7 DEF BlockStep

LEMMA ThreadRestart ==
  ASSUME TypeOK, ChosenInv, RestartInv, Select \/ GiveUp \/ Dequeue \/ Send
  PROVE  RestartInv'
  <1>0. \A q \in Queues : host_tx_queue[q] \in Nat
    BY DEF TypeOK
  <1>1. CASE Select \/ GiveUp
    <2>1. /\ pc # "send" /\ host_tx_queue' = host_tx_queue /\ stopped' = stopped
          /\ UNCHANGED blockVars
      BY <1>1 DEF Select, GiveUp, flowVars
    <2>2. \A v : RestartComing(v) => RestartComing(v)'
      BY <2>1 DEF RestartComing
    <2>. QED
      BY <2>1, <2>2 DEF RestartInv, blockVars
  <1>2. CASE Dequeue
    <2>1. /\ pc = "dequeue" /\ pc' = "send" /\ q_num' = q_num /\ stopped' = stopped
          /\ UNCHANGED blockVars
      BY <1>2 DEF Dequeue
    <2>2. \A q \in Queues : q # q_num => host_tx_queue'[q] = host_tx_queue[q]
      BY <1>2 DEF Dequeue, TypeOK
    <2>3. \A v : RestartComing(v) => RestartComing(v)'
      BY <2>1, <2>2 DEF RestartComing
    <2>. QED
      BY <2>1, <2>3 DEF RestartInv, blockVars
  <1>3. CASE Send
    <2>0. /\ pc = "send" /\ host_tx_queue' = host_tx_queue
          /\ UNCHANGED <<sta_data_block, block_ap_queues, sta>>
      BY <1>3 DEF Send
    <2>1. CASE q_num # MGMT_SOFT_Q /\ host_tx_queue[q_num] < MaxLen - Reserve
      <3>1. /\ stopped' = [stopped EXCEPT ![Vap(q_num)] = FALSE]
            /\ unresumed' = (unresumed /\ Vap(q_num) # "sta")
        BY <1>3, <2>1 DEF Send
      <3>2. "ap" \in Vaps /\ "sta" \in Vaps
        BY DEF Vaps
      <3>3. \A v \in Vaps : IF v = Vap(q_num) THEN stopped'[v] = FALSE ELSE stopped'[v] = stopped[v]
        BY <3>1 DEF TypeOK
      <3>4. \A v \in Vaps : v # Vap(q_num) /\ RestartComing(v) => RestartComing(v)'
        BY <2>0 DEF RestartComing
      <3>. QED
        BY <2>0, <3>1, <3>2, <3>3, <3>4 DEF RestartInv
    <2>2. CASE ~(q_num # MGMT_SOFT_Q /\ host_tx_queue[q_num] < MaxLen - Reserve)
      <3>1. stopped' = stopped /\ unresumed' = unresumed
        BY <1>3, <2>2 DEF Send
      <3>2. \A q \in Queues : q_num = q => host_tx_queue[q] > 0
        BY <1>0, <2>2
      <3>3. \A v : RestartComing(v) => RestartComing(v)'
        BY <2>0, <3>2 DEF RestartComing
      <3>. QED
        BY <2>0, <3>1, <3>3 DEF RestartInv
    <2>. QED
      BY <2>1, <2>2
  <1>. QED
    BY <1>1, <1>2, <1>3

LEMMA RestartStep ==
  ASSUME IInv, [Next]_vars
  PROVE  RestartInv'
  <1>0. TypeOK /\ ChosenInv /\ FlowInv /\ RestartInv
    BY DEF IInv
  <1>1. ASSUME NEW q \in Queues, NEW udp \in BOOLEAN, NEW joining \in BOOLEAN,
               core_xmit(q, udp, joining)
        PROVE  RestartInv'
    BY <1>0, <1>1, XmitRestart
  <1>2. CASE QueueMgmt
    BY <1>0, <1>2 DEF QueueMgmt, RestartInv, RestartComing, flowVars, threadVars, blockVars
  <1>3. CASE BlockStep
    BY <1>0, <1>3, BlockStepRestart
  <1>4. ASSUME NEW w \in Weights, core_wme_update(w) PROVE RestartInv'
    BY <1>0, <1>4 DEF core_wme_update, RestartInv, RestartComing, flowVars, threadVars, blockVars
  <1>5. CASE Select \/ GiveUp \/ Dequeue \/ Send
    BY <1>0, <1>5, ThreadRestart
  <1>6. CASE UNCHANGED vars
    BY <1>0, <1>6 DEF RestartInv, RestartComing, vars, flowVars, threadVars, blockVars
  <1>. QED
    BY <1>1, <1>2, <1>3, <1>4, <1>5, <1>6 DEF Next

-----------------------------------------------------------------------------
(***************************************************************************)
(* The invariant is inductive: one step of any thread, stack or timer keeps *)
(* it.                                                                      *)
(***************************************************************************)
THEOREM IInvInductive == Spec => []IInv
  <1>1. IInv /\ [Next]_vars => IInv'
    BY TypeStep, ChoiceStep, FlowStep, RestartStep DEF IInv
  <1>. QED
    BY <1>1, InitIInv, PTL DEF Spec

(***************************************************************************)
(* The access point's queues stay below their limit, however long core_xmit *)
(* lets the station's grow while it joins, and neither the weights nor the  *)
(* TXOP count go below zero.                                                *)
(***************************************************************************)
THEOREM TypeCorrect == Spec => []TypeOK
  <1>1. IInv => TypeOK
    BY DEF IInv
  <1>. QED
    BY <1>1, IInvInductive, PTL

(***************************************************************************)
(* No interface of the driver stays stopped with nothing under way that     *)
(* restarts it, except a station after a quiet period or channel switch.    *)
(***************************************************************************)
THEOREM InterfacesComeBack == Spec => []InterfaceComesBack
  <1>1. IInv => InterfaceComesBack
    BY DEF IInv, TypeOK, RestartInv, InterfaceComesBack
  <1>. QED
    BY <1>1, IInvInductive, PTL

(***************************************************************************)
(* core_determine_hal_queue always answers with a queue that holds a        *)
(* packet, and finds one if there is one.                                   *)
(***************************************************************************)
THEOREM ChoicesHaveWork == Spec => ChoiceHasWork
  <1>. DEFINE A == Select =>
                     CASE q_num' = INVALID_QUEUE -> mgmt_queue = 0 /\ \A q \in Queues : ~Backlog(q)
                       [] q_num' = MGMT_SOFT_Q   -> mgmt_queue > 0
                       [] OTHER                  -> Backlog(q_num')
  <1>1. IInv /\ [Next]_vars => [A]_vars
    <2>. SUFFICES ASSUME IInv, Select PROVE A
      OBVIOUS
    <2>1. Answer
      BY ChoiceAnswers DEF Select, IInv
    <2>2. \A q \in Queues : q # MGMT_SOFT_Q /\ q # INVALID_QUEUE
      OBVIOUS
    <2>. QED
      BY <2>1, <2>2 DEF Answer
  <1>. QED
    BY <1>1, IInvInductive, PTL DEF Spec, ChoiceHasWork

(***************************************************************************)
(* The WMM contention of core_determine_hal_queue starves no queue,         *)
(* whatever the weights.                                                    *)
(***************************************************************************)
THEOREM NobodyStarves == Spec => NoStarvation
  <1>. DEFINE A == Select /\ NewContention
                     => \A q \in Contending(pkt_contended) : q_num' = q \/ ComesCloser(q)
  <1>1. IInv /\ [Next]_vars => [A]_vars
    <2>. SUFFICES ASSUME IInv, Select, NewContention, NEW q \in Contending(pkt_contended)
                  PROVE  q_num' = q \/ ComesCloser(q)
      OBVIOUS
    <2>. DEFINE w   == per_q_wt
                win == Winner(w, pkt_contended)
    <2>0. w \in [Queues -> Nat] /\ wme_org_q \in Weights
      BY DEF IInv, TypeOK
    <2>1. win \in Contending(pkt_contended) /\ w[win] <= w[q]
      BY <2>0, WinnerContends
    <2>2. /\ q \in Queues /\ pkt_contended[q] /\ Backlog(q)
          /\ win \in Queues /\ Backlog(win)
      BY <2>1 DEF Contending
    <2>3. mgmt_queue = 0 /\ pkt_cnt = 0 /\ core_determine_hal_queue
      BY DEF Select, NewContention
    <2>4. q_num' = win /\ per_q_wt' = CountDown(w, pkt_contended)
      BY <2>2, <2>3 DEF core_determine_hal_queue
    <2>5. Contending(pkt_contended) # {}
      OBVIOUS
    <2>. HIDE DEF win
    <2>6. per_q_wt'[win] = wme_org_q[win] /\ wme_org_q[win] > 0
      BY <2>0, <2>2, <2>4 DEF CountDown, win
    <2>7. q # win => per_q_wt'[q] = IF w[q] > w[win] THEN w[q] - w[win] ELSE 0
      BY <2>2, <2>4, <2>5 DEF CountDown, win
    <2>8. w[q] \in Nat /\ w[win] \in Nat
      BY <2>0, <2>2
    <2>9. CASE q # win /\ w[win] > 0
      BY <2>1, <2>7, <2>8, <2>9 DEF ComesCloser
    <2>10. CASE q # win /\ w[win] = 0
      BY <2>4, <2>6, <2>7, <2>8, <2>10 DEF ComesCloser
    <2>. QED
      BY <2>4, <2>8, <2>9, <2>10
  <1>. QED
    BY <1>1, IInvInductive, PTL DEF Spec, NoStarvation
=============================================================================
