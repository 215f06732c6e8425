--------------------------- MODULE TxAccessProofs ---------------------------
(***************************************************************************)
(* Proofs about TxAccess, for every set of protocols, every choice of the   *)
(* power-save protocols, every number of tokens and packets, with and       *)
(* without faults of the sleep ack.                                         *)
(*                                                                          *)
(* The steps of the transmit threads that touch no flag of the handshake    *)
(* are dealt with once (PhasesStutter); what is left for each action is its *)
(* effect on the types, on the WLAN thread and on an open sleep request.    *)
(***************************************************************************)
EXTENDS TxAccess, SequenceTheorems, TLAPS

USE TechsAssumption, BoundAssumption, TokenAssumption, FaultsAssumption
    DEF TechsAssumption, BoundAssumption, TokenAssumption, FaultsAssumption

(***************************************************************************)
(* One- and two-element frame queues.                                       *)
(***************************************************************************)
LEMMA ShortQueues ==
  ASSUME NEW x, NEW y
  PROVE  /\ Head(<<x>>) = x /\ Tail(<<x>>) = <<>>
         /\ Head(<<x, y>>) = x /\ Tail(<<x, y>>) = <<y>>
         /\ Append(<<>>, x) = <<x>> /\ Append(<<x>>, y) = <<x, y>>
         /\ <<x>> # <<>> /\ <<x, y>> # <<>>
  <1>. DEFINE s == Append(<<x>>, y)
              t == <<x, y>>
              S == {x, y}
  <1>1. <<x>> \in Seq(S)
    OBVIOUS
  <1>2. s \in Seq(S) /\ Len(s) = 2 /\ s[1] = x /\ s[2] = y
    BY <1>1
  <1>3. t \in Seq(S) /\ Len(t) = 2 /\ t[1] = x /\ t[2] = y
    OBVIOUS
  <1>4. s = t
    <2>. HIDE DEF s, t, S
    <2>1. \A i \in 1 .. Len(s) : s[i] = t[i]
      BY <1>2, <1>3
    <2>. QED
      BY <1>2, <1>3, <2>1, SeqEqual
  <1>5. Head(<<x>>) = x /\ Head(<<x, y>>) = x /\ <<x>> # <<>> /\ <<x, y>> # <<>>
    OBVIOUS
  <1>6. Tail(<<x>>) = <<>> /\ Tail(<<x, y>>) = <<y>>
    OBVIOUS
  <1>7. Append(<<>>, x) = <<x>>
    OBVIOUS
  <1>. QED
    BY <1>4, <1>5, <1>6, <1>7

(***************************************************************************)
(* coex_get_queue_num and the release order pick a coex protocol.           *)
(***************************************************************************)
LEMMA FirstOfCoex ==
  ASSUME NEW S \in SUBSET CoexTechs, S # {}
  PROVE  First(S) \in S /\ First(S) \in AllIds /\ First(S) # WLAN_ID
  <1>1. S \subseteq {1, 2}
    BY DEF CoexTechs, AllIds, MAX_IDS, WLAN_ID
  <1>2. \E p \in S : \A r \in S : p <= r
    <2>1. CASE 1 \in S
      BY <1>1, <2>1
    <2>2. CASE 1 \notin S
      <3>1. S = {2}
        BY <1>1, <2>2
      <3>. QED
        BY <3>1
    <2>. QED
      BY <2>1, <2>2
  <1>3. First(S) \in S
    BY <1>2 DEF First
  <1>4. First(S) \in {1, 2}
    BY <1>1, <1>3
  <1>. QED
    BY <1>3, <1>4 DEF AllIds, MAX_IDS, WLAN_ID

(***************************************************************************)
(* Init of TxAccess, the state after all card-ready frames, satisfies IInv. *)
(***************************************************************************)
LEMMA InitIInv == Init => IInv
  <1>. SUFFICES ASSUME Init PROVE IInv
    OBVIOUS
  <1>0. cur \in [Threads -> AllIds] /\ cur["wlan"] = WLAN_ID /\ cur["coex"] = BT_ID
    BY DEF Init
  <1>1. TypeOK
    <2>1. queue \in [Techs -> 0 .. MaxPkts] /\ rx_id \in 0 .. MAX_IDS
      BY DEF Init, MAX_IDS
    <2>2. to_host \in Seq(Notify)
      BY DEF Init
    <2>. QED
      BY <1>0, <2>1, <2>2 DEF Init, TypeOK, PCs
  <1>2. HandshakePhases
    BY DEF Init, HandshakePhases, AwakeQuiet, AckInFlight, Flags, NotInFrame
  <1>3. ThreadInv
    BY <1>0 DEF Init, ThreadInv, Threads, WLAN_ID, BT_ID
  <1>4. GrantInv /\ OpenRequestInv
    BY DEF Init, GrantInv, OpenRequestInv
  <1>. QED
    BY <1>1, <1>2, <1>3, <1>4 DEF IInv, Init

(***************************************************************************)
(* A step that changes neither the flags of the handshake, nor the worker,  *)
(* nor the frames in flight keeps the phase.                                *)
(***************************************************************************)
LEMMA PhasesStutter ==
  ASSUME IInv, UNCHANGED <<halVars, rxVars, fwVars>>
  PROVE  /\ HandshakePhases'
         /\ GrantInv'
         /\ fw' = "requested" => fw_token' \in Tokens
  BY DEF IInv, HandshakePhases, AwakeQuiet, AwakeExit, RequestedBeforeExit, RequestedEntry,
         RequestOpen, RequestAnswered, Asleep, AckInFlight, Flags, NotInFrame, ExitFrame,
         EntryFrame, GrantInv, halVars, rxVars, fwVars

(***************************************************************************)
(* The steps of the stacks and of the transmit threads, release excepted.   *)
(***************************************************************************)
LEMMA ThreadStepsKeepIInv ==
  ASSUME IInv, NEW t \in Threads, NEW p \in Techs,
         \/ Enqueue(p)
         \/ WaitEvent(t) \/ Check(t) \/ Intend(t) \/ UpdateRequest(t) \/ CheckAgain(t)
         \/ SetFlag(t) \/ Woken(t) \/ Timeout(t) \/ Send(t) \/ Write(t)
         \/ DropIntention(t) \/ DropAccess(t)
         \/ Pick \/ Recheck \/ WlanXmit \/ WlanDone
  PROVE  IInv'
  <1>1. CASE Enqueue(p)
    <2>1. TypeOK'
      BY <1>1 DEF Enqueue, Thread, IInv, TypeOK, Threads, PCs, AllIds, MAX_IDS, WLAN_ID, halVars, techVars, rxVars, fwVars
    <2>2. ThreadInv'
      BY <1>1 DEF Enqueue, Thread, IInv, TypeOK, ThreadInv, Threads, WLAN_ID, halVars, techVars, rxVars, fwVars
    <2>3. OpenRequestInv'
      BY <1>1 DEF Enqueue, Thread, IInv, TypeOK, OpenRequestInv, protocol_tx_access, Threads, halVars, techVars, rxVars, fwVars
    <2>. QED
      BY <1>1, <2>1, <2>2, <2>3, PhasesStutter DEF Enqueue, IInv
  <1>2. CASE WaitEvent(t)
    <2>1. TypeOK'
      BY <1>2 DEF WaitEvent, Goto, IInv, TypeOK, Threads, PCs, AllIds, MAX_IDS, WLAN_ID, halVars, techVars, rxVars, fwVars
    <2>2. ThreadInv'
      BY <1>2 DEF WaitEvent, Goto, IInv, TypeOK, ThreadInv, Threads, WLAN_ID, halVars, techVars, rxVars, fwVars
    <2>3. OpenRequestInv'
      BY <1>2 DEF WaitEvent, Goto, IInv, TypeOK, OpenRequestInv, protocol_tx_access, Threads, halVars, techVars, rxVars, fwVars
    <2>. QED
      BY <1>2, <2>1, <2>2, <2>3, PhasesStutter DEF WaitEvent, IInv
  <1>3. CASE Check(t)
    <2>1. TypeOK'
      BY <1>3 DEF Check, Goto, IInv, TypeOK, Threads, PCs, AllIds, MAX_IDS, WLAN_ID, halVars, techVars, rxVars, fwVars
    <2>2. ThreadInv'
      BY <1>3 DEF Check, Goto, IInv, TypeOK, ThreadInv, Threads, WLAN_ID, halVars, techVars, rxVars, fwVars
    <2>3. OpenRequestInv'
      BY <1>3 DEF Check, Goto, IInv, TypeOK, OpenRequestInv, protocol_tx_access, Threads, halVars, techVars, rxVars, fwVars
    <2>. QED
      BY <1>3, <2>1, <2>2, <2>3, PhasesStutter DEF Check, IInv
  <1>4. CASE Intend(t)
    <2>1. TypeOK'
      BY <1>4, ZenonT(30) DEF Intend, Goto, IInv, TypeOK, Threads, PCs, AllIds, MAX_IDS, WLAN_ID, halVars, techVars, rxVars, fwVars
    <2>2. ThreadInv'
      BY <1>4 DEF Intend, Goto, IInv, TypeOK, ThreadInv, Threads, WLAN_ID, halVars, techVars, rxVars, fwVars
    <2>3. OpenRequestInv'
      BY <1>4 DEF Intend, Goto, IInv, TypeOK, OpenRequestInv, protocol_tx_access, Threads, halVars, techVars, rxVars, fwVars
    <2>. QED
      BY <1>4, <2>1, <2>2, <2>3, PhasesStutter DEF Intend, IInv
  <1>5. CASE UpdateRequest(t)
    <2>1. TypeOK'
      BY <1>5, ZenonT(30) DEF UpdateRequest, Goto, IInv, TypeOK, Threads, PCs, AllIds, MAX_IDS, WLAN_ID, halVars, techVars, rxVars, fwVars
    <2>2. ThreadInv'
      BY <1>5 DEF UpdateRequest, Goto, IInv, TypeOK, ThreadInv, Threads, WLAN_ID, halVars, techVars, rxVars, fwVars
    <2>3. OpenRequestInv'
      BY <1>5 DEF UpdateRequest, Goto, IInv, TypeOK, OpenRequestInv, protocol_tx_access, Threads, halVars, techVars, rxVars, fwVars
    <2>. QED
      BY <1>5, <2>1, <2>2, <2>3, PhasesStutter DEF UpdateRequest, IInv
  <1>6. CASE CheckAgain(t)
    <2>1. TypeOK'
      BY <1>6 DEF CheckAgain, Goto, IInv, TypeOK, Threads, PCs, AllIds, MAX_IDS, WLAN_ID, halVars, techVars, rxVars, fwVars
    <2>2. ThreadInv'
      BY <1>6 DEF CheckAgain, Goto, IInv, TypeOK, ThreadInv, Threads, WLAN_ID, halVars, techVars, rxVars, fwVars
    <2>3. OpenRequestInv'
      BY <1>6 DEF CheckAgain, Goto, IInv, TypeOK, OpenRequestInv, protocol_tx_access, Threads, halVars, techVars, rxVars, fwVars
    <2>. QED
      BY <1>6, <2>1, <2>2, <2>3, PhasesStutter DEF CheckAgain, IInv
  <1>7. CASE SetFlag(t)
    <2>1. TypeOK'
      BY <1>7, ZenonT(30) DEF SetFlag, Goto, IInv, TypeOK, Threads, PCs, AllIds, MAX_IDS, WLAN_ID, halVars, techVars, rxVars, fwVars
    <2>2. ThreadInv'
      BY <1>7 DEF SetFlag, Goto, IInv, TypeOK, ThreadInv, Threads, WLAN_ID, halVars, techVars, rxVars, fwVars
    <2>3. OpenRequestInv'
      BY <1>7 DEF SetFlag, Goto, IInv, TypeOK, OpenRequestInv, protocol_tx_access, Threads, halVars, techVars, rxVars, fwVars
    <2>. QED
      BY <1>7, <2>1, <2>2, <2>3, PhasesStutter DEF SetFlag, IInv
  <1>8. CASE Woken(t)
    <2>1. TypeOK'
      BY <1>8 DEF Woken, Goto, IInv, TypeOK, Threads, PCs, AllIds, MAX_IDS, WLAN_ID, halVars, techVars, rxVars, fwVars
    <2>2. ThreadInv'
      BY <1>8 DEF Woken, Goto, IInv, TypeOK, ThreadInv, Threads, WLAN_ID, halVars, techVars, rxVars, fwVars
    <2>3. OpenRequestInv'
      BY <1>8 DEF Woken, Goto, IInv, TypeOK, OpenRequestInv, protocol_tx_access, Threads, halVars, techVars, rxVars, fwVars
    <2>. QED
      BY <1>8, <2>1, <2>2, <2>3, PhasesStutter DEF Woken, IInv
  <1>9. CASE Timeout(t)
    <2>1. TypeOK'
      BY <1>9 DEF Timeout, Goto, IInv, TypeOK, Threads, PCs, AllIds, MAX_IDS, WLAN_ID, halVars, techVars, rxVars, fwVars
    <2>2. ThreadInv'
      BY <1>9 DEF Timeout, Goto, IInv, TypeOK, ThreadInv, Threads, WLAN_ID, halVars, techVars, rxVars, fwVars
    <2>3. OpenRequestInv'
      BY <1>9 DEF Timeout, Goto, IInv, TypeOK, OpenRequestInv, protocol_tx_access, Threads, halVars, techVars, rxVars, fwVars
    <2>. QED
      BY <1>9, <2>1, <2>2, <2>3, PhasesStutter DEF Timeout, IInv
  <1>10. CASE Send(t)
    <2>0. queue' \in [Techs -> 0 .. MaxPkts]
      <3>1. queue \in [Techs -> 0 .. MaxPkts] /\ queue[cur[t]] > 0
        BY <1>10 DEF Send, IInv, TypeOK
      <3>2. \A n \in 0 .. MaxPkts : n > 0 => n - 1 \in 0 .. MaxPkts
        OBVIOUS
      <3>. QED
        BY <1>10, <3>1, <3>2 DEF Send
    <2>1. TypeOK'
      BY <1>10, <2>0 DEF Send, Goto, IInv, TypeOK, Threads, PCs, halVars, techVars, rxVars, fwVars
    <2>2. ThreadInv'
      BY <1>10 DEF Send, Goto, TransmitLockFree, IInv, TypeOK, ThreadInv, Threads, WLAN_ID, halVars, techVars, rxVars, fwVars
    <2>3. OpenRequestInv'
      BY <1>10 DEF Send, Goto, TransmitLockFree, IInv, TypeOK, OpenRequestInv, protocol_tx_access, Threads, halVars, techVars, rxVars, fwVars
    <2>. QED
      BY <1>10, <2>1, <2>2, <2>3, PhasesStutter DEF Send, IInv
  <1>11. CASE Write(t)
    <2>1. TypeOK'
      BY <1>11 DEF Write, Goto, IInv, TypeOK, Threads, PCs, AllIds, MAX_IDS, WLAN_ID, halVars, techVars, rxVars, fwVars
    <2>2. ThreadInv'
      BY <1>11 DEF Write, Goto, IInv, TypeOK, ThreadInv, Threads, WLAN_ID, halVars, techVars, rxVars, fwVars
    <2>3. OpenRequestInv'
      BY <1>11 DEF Write, Goto, IInv, TypeOK, OpenRequestInv, protocol_tx_access, Threads, halVars, techVars, rxVars, fwVars
    <2>. QED
      BY <1>11, <2>1, <2>2, <2>3, PhasesStutter DEF Write, IInv
  <1>12. CASE DropIntention(t)
    <2>1. TypeOK'
      BY <1>12, ZenonT(30) DEF DropIntention, Goto, IInv, TypeOK, Threads, PCs, AllIds, MAX_IDS, WLAN_ID, halVars, techVars, rxVars, fwVars
    <2>2. ThreadInv'
      BY <1>12 DEF DropIntention, Goto, IInv, TypeOK, ThreadInv, Threads, WLAN_ID, halVars, techVars, rxVars, fwVars
    <2>3. OpenRequestInv'
      BY <1>12 DEF DropIntention, Goto, IInv, TypeOK, OpenRequestInv, protocol_tx_access, Threads, halVars, techVars, rxVars, fwVars
    <2>. QED
      BY <1>12, <2>1, <2>2, <2>3, PhasesStutter DEF DropIntention, IInv
  <1>13. CASE DropAccess(t)
    <2>1. TypeOK'
      BY <1>13, ZenonT(30) DEF DropAccess, Goto, IInv, TypeOK, Threads, PCs, AllIds, MAX_IDS, WLAN_ID, halVars, techVars, rxVars, fwVars
    <2>2. ThreadInv'
      BY <1>13 DEF DropAccess, Goto, IInv, TypeOK, ThreadInv, Threads, WLAN_ID, halVars, techVars, rxVars, fwVars
    <2>3. OpenRequestInv'
      BY <1>13 DEF DropAccess, Goto, IInv, TypeOK, OpenRequestInv, protocol_tx_access, Threads, halVars, techVars, rxVars, fwVars
    <2>. QED
      BY <1>13, <2>1, <2>2, <2>3, PhasesStutter DEF DropAccess, IInv
  <1>14. CASE Pick
    <2>0. cur' \in [Threads -> AllIds] /\ cur'["wlan"] = cur["wlan"] /\ cur'["coex"] # WLAN_ID
      <3>1. Backlogged \in SUBSET CoexTechs /\ ReleaseOrder \in SUBSET CoexTechs
        BY DEF Backlogged, ReleaseOrder, CoexTechs
      <3>2. \/ UNCHANGED cur
            \/ \E S \in SUBSET CoexTechs : S # {} /\ cur' = [cur EXCEPT !["coex"] = First(S)]
        BY <1>14, <3>1 DEF Pick
      <3>. QED
        BY <3>2, FirstOfCoex DEF IInv, TypeOK, ThreadInv, Threads
    <2>1. TypeOK'
      BY <1>14, <2>0 DEF Pick, Goto, IInv, TypeOK, Threads, PCs, halVars, techVars, rxVars, fwVars
    <2>2. ThreadInv'
      BY <1>14, <2>0 DEF Pick, Goto, IInv, TypeOK, ThreadInv, Threads, halVars, techVars, rxVars, fwVars
    <2>3. OpenRequestInv'
      BY <1>14 DEF Pick, Goto, IInv, TypeOK, OpenRequestInv, protocol_tx_access, Threads, halVars, techVars, rxVars, fwVars
    <2>. QED
      BY <1>14, <2>1, <2>2, <2>3, PhasesStutter DEF Pick, IInv
  <1>15. CASE Recheck
    <2>1. TypeOK'
      BY <1>15 DEF Recheck, Goto, IInv, TypeOK, Threads, PCs, AllIds, MAX_IDS, WLAN_ID, halVars, techVars, rxVars, fwVars
    <2>2. ThreadInv'
      BY <1>15 DEF Recheck, Goto, IInv, TypeOK, ThreadInv, Threads, WLAN_ID, halVars, techVars, rxVars, fwVars
    <2>3. OpenRequestInv'
      BY <1>15 DEF Recheck, Goto, IInv, TypeOK, OpenRequestInv, protocol_tx_access, Threads, halVars, techVars, rxVars, fwVars
    <2>. QED
      BY <1>15, <2>1, <2>2, <2>3, PhasesStutter DEF Recheck, IInv
  <1>16. CASE WlanXmit
    <2>1. TypeOK'
      BY <1>16 DEF WlanXmit, Goto, IInv, TypeOK, Threads, PCs, AllIds, MAX_IDS, WLAN_ID, halVars, techVars, rxVars, fwVars
    <2>2. ThreadInv'
      BY <1>16 DEF WlanXmit, Goto, IInv, TypeOK, ThreadInv, Threads, WLAN_ID, halVars, techVars, rxVars, fwVars
    <2>3. OpenRequestInv'
      BY <1>16 DEF WlanXmit, Goto, IInv, TypeOK, OpenRequestInv, protocol_tx_access, Threads, halVars, techVars, rxVars, fwVars
    <2>. QED
      BY <1>16, <2>1, <2>2, <2>3, PhasesStutter DEF WlanXmit, IInv
  <1>17. CASE WlanDone
    <2>1. TypeOK'
      BY <1>17 DEF WlanDone, Goto, IInv, TypeOK, Threads, PCs, AllIds, MAX_IDS, WLAN_ID, halVars, techVars, rxVars, fwVars
    <2>2. ThreadInv'
      BY <1>17 DEF WlanDone, Goto, IInv, TypeOK, ThreadInv, Threads, WLAN_ID, halVars, techVars, rxVars, fwVars
    <2>3. OpenRequestInv'
      BY <1>17 DEF WlanDone, Goto, IInv, TypeOK, OpenRequestInv, protocol_tx_access, Threads, halVars, techVars, rxVars, fwVars
    <2>. QED
      BY <1>17, <2>1, <2>2, <2>3, PhasesStutter DEF WlanDone, IInv
  <1>. QED
    BY <1>1, <1>2, <1>3, <1>4, <1>5, <1>6, <1>7, <1>8, <1>9, <1>10, <1>11, <1>12, <1>13, <1>14, <1>15, <1>16, <1>17

(***************************************************************************)
(* The release: it leaves the phase alone or turns RequestOpen into         *)
(* RequestAnswered.                                                         *)
(***************************************************************************)
LEMMA ReleaseKeepsIInv ==
  ASSUME IInv, NEW t \in Threads, UpdateRelease(t)
  PROVE  IInv'
  <1>0. cur' \in [Threads -> AllIds] /\ cur'["wlan"] = cur["wlan"] /\ cur'["coex"] # WLAN_ID
    <2>1. {p \in ReleaseOrder : p > cur[t]} \in SUBSET CoexTechs
      BY DEF ReleaseOrder
    <2>2. \/ UNCHANGED cur
          \/ \E S \in SUBSET CoexTechs : S # {} /\ cur' = [cur EXCEPT !["coex"] = First(S)]
      BY <2>1 DEF UpdateRelease
    <2>. QED
      BY <2>2, FirstOfCoex DEF IInv, TypeOK, ThreadInv, Threads
  <1>1. /\ pc' \in [Threads -> PCs] /\ pc' = [pc EXCEPT ![t] = pc'[t]]
        /\ pc'[t] \in {"drop_intention", "wait_event"} /\ pc[t] = "upd_release"
    BY DEF UpdateRelease, Goto, IInv, TypeOK, PCs
  <1>2. CASE /\ RequestOpen
             /\ ~protocol_tx_access
             /\ common_hal_tx_access' = FALSE
             /\ send_ulp_sleep_ack
    <2>1. TypeOK'
      BY <1>0, <1>1, <1>2 DEF UpdateRelease, send_ulp_sleep_ack, IInv, TypeOK, RequestOpen, techVars, rxVars
    <2>2. HandshakePhases'
      <3>1. rx_pc = "idle"
        BY <1>2 DEF UpdateRelease, RequestOpen
      <3>2. CASE ulp_sleep_ack_sent' = TRUE
        <4>1. RequestAnswered'
          BY <1>2, <3>1, <3>2 DEF UpdateRelease, send_ulp_sleep_ack, RequestOpen, RequestAnswered, AckInFlight, Flags, rxVars
        <4>. QED
          BY <4>1 DEF HandshakePhases
      <3>3. CASE UNCHANGED <<ulp_sleep_ack_sent, to_fw>> /\ Faults
        <4>1. RequestOpen'
          BY <1>2, <3>1, <3>3 DEF UpdateRelease, RequestOpen, AckInFlight, rxVars
        <4>. QED
          BY <4>1 DEF HandshakePhases
      <3>. QED
        BY <1>2, <3>2, <3>3 DEF send_ulp_sleep_ack
    <2>3. ThreadInv'
      BY <1>0, <1>1, <1>2 DEF UpdateRelease, IInv, TypeOK, ThreadInv, protocol_tx_access, techVars, Threads
    <2>4. OpenRequestInv'
      BY <1>2 DEF UpdateRelease, send_ulp_sleep_ack, OpenRequestInv
    <2>5. GrantInv' /\ (fw' = "requested" => fw_token' \in Tokens)
      BY DEF UpdateRelease, IInv, GrantInv, rxVars
    <2>. QED
      BY <2>1, <2>2, <2>3, <2>4, <2>5 DEF IInv
  <1>3. CASE /\ UNCHANGED <<common_hal_tx_access, ulp_sleep_ack_sent, to_fw>>
             /\ ~(sleep_entry_recvd /\ ~ulp_sleep_ack_sent /\ ~protocol_tx_access)
    <2>1. TypeOK'
      BY <1>0, <1>1, <1>3 DEF UpdateRelease, IInv, TypeOK, techVars, rxVars
    <2>2. /\ HandshakePhases' /\ GrantInv'
          /\ fw' = "requested" => fw_token' \in Tokens
      BY <1>3, PhasesStutter DEF UpdateRelease, halVars, fwVars
    <2>3. ThreadInv'
      BY <1>0, <1>1, <1>3 DEF UpdateRelease, IInv, TypeOK, ThreadInv, techVars, Threads
    <2>4. OpenRequestInv'
      BY <1>3 DEF UpdateRelease, OpenRequestInv, protocol_tx_access, techVars
    <2>. QED
      BY <2>1, <2>2, <2>3, <2>4 DEF IInv
  <1>4. sleep_entry_recvd /\ ~ulp_sleep_ack_sent => RequestOpen
    BY DEF IInv, HandshakePhases, AwakeQuiet, AwakeExit, RequestedBeforeExit, RequestedEntry,
           RequestAnswered, Asleep, Flags
  <1>. QED
    BY <1>2, <1>3, <1>4 DEF UpdateRelease, AnswerOpenRequest

(***************************************************************************)
(* The receive worker, one case per step.                                   *)
(***************************************************************************)
LEMMA RxStepKeepsIInv ==
  ASSUME IInv, RxStep
  PROVE  IInv'
  <1>1. CASE process_ulp_sleep_notify
    <2>1. ulp_sleep_token' \in Tokens \cup {InvalidToken} /\ to_host' \in Seq(Notify)
          /\ rx_pc' \in {"entry", "exit"}
      BY <1>1 DEF process_ulp_sleep_notify, IInv, TypeOK, Notify
    <2>2. TypeOK'
      BY <1>1, <2>1 DEF process_ulp_sleep_notify, IInv, TypeOK, halVars, techVars, threadVars
    <2>3. HandshakePhases'
      <3>1. CASE AwakeExit
        <4>1. to_host = <<ExitFrame>>
          BY <1>1, <3>1 DEF process_ulp_sleep_notify, AwakeExit
        <4>2. to_host' = <<>> /\ rx_pc' = "exit"
          BY <1>1, <4>1, ShortQueues DEF process_ulp_sleep_notify, ExitFrame
        <4>3. AwakeExit'
          BY <1>1, <3>1, <4>2 DEF process_ulp_sleep_notify, AwakeExit, AckInFlight, Flags, halVars
        <4>. QED
          BY <4>3 DEF HandshakePhases
      <3>2. CASE RequestedBeforeExit
        <4>1. to_host = <<ExitFrame, EntryFrame>>
          BY <1>1, <3>2 DEF process_ulp_sleep_notify, RequestedBeforeExit
        <4>2. to_host' = <<EntryFrame>> /\ rx_pc' = "exit"
          BY <1>1, <4>1, ShortQueues DEF process_ulp_sleep_notify, ExitFrame
        <4>3. RequestedBeforeExit'
          BY <1>1, <3>2, <4>2 DEF process_ulp_sleep_notify, RequestedBeforeExit, EntryFrame,
             AckInFlight, Flags, halVars
        <4>. QED
          BY <4>3 DEF HandshakePhases
      <3>3. CASE RequestedEntry
        <4>1. to_host = <<EntryFrame>>
          BY <1>1, <3>3 DEF process_ulp_sleep_notify, RequestedEntry
        <4>2. to_host' = <<>> /\ rx_pc' = "entry" /\ ulp_sleep_token' = fw_token
          BY <1>1, <4>1, ShortQueues DEF process_ulp_sleep_notify, EntryFrame
        <4>3. RequestedEntry'
          BY <1>1, <3>3, <4>2 DEF process_ulp_sleep_notify, RequestedEntry, AckInFlight, Flags, halVars
        <4>. QED
          BY <4>3 DEF HandshakePhases
      <3>. QED
        BY <1>1, <3>1, <3>2, <3>3 DEF process_ulp_sleep_notify, IInv, HandshakePhases, AwakeQuiet,
           RequestOpen, RequestAnswered, Asleep
    <2>4. ThreadInv' /\ OpenRequestInv'
      BY <1>1 DEF process_ulp_sleep_notify, IInv, ThreadInv, OpenRequestInv, protocol_tx_access,
         halVars, techVars, threadVars
    <2>. QED
      BY <1>1, <2>1, <2>2, <2>3, <2>4 DEF process_ulp_sleep_notify, IInv, GrantInv
  <1>2. CASE SleepEntryRecvd
    <2>0. RequestedEntry /\ to_host = <<>> /\ ulp_sleep_token = fw_token /\ fw_token \in Tokens
      BY <1>2 DEF SleepEntryRecvd, IInv, HandshakePhases, AwakeQuiet, AwakeExit, RequestedBeforeExit,
         RequestedEntry, RequestOpen, RequestAnswered, Asleep, NotInFrame
    <2>1. TypeOK'
      <3>1. rx_id' \in 0 .. MAX_IDS /\ rx_pc' \in {"idle", "wake"} /\ tx_access_lock' \in {"free", "rx"}
        BY <1>2 DEF SleepEntryRecvd, IInv, TypeOK, MAX_IDS
      <3>2. /\ common_hal_tx_access' \in BOOLEAN /\ ulp_sleep_ack_sent' \in BOOLEAN
            /\ to_fw' \in Tokens \cup {NoAck}
        BY <1>2, <2>0 DEF SleepEntryRecvd, send_ulp_sleep_ack, IInv, TypeOK
      <3>. QED
        BY <1>2, <3>1, <3>2 DEF SleepEntryRecvd, IInv, TypeOK, techVars, threadVars
    <2>2. HandshakePhases'
      <3>1. CASE ~protocol_tx_access /\ ulp_sleep_ack_sent' = TRUE
        <4>1. RequestAnswered'
          BY <1>2, <2>0, <3>1 DEF SleepEntryRecvd, send_ulp_sleep_ack, RequestedEntry, RequestAnswered, AckInFlight, Flags
        <4>. QED
          BY <4>1 DEF HandshakePhases
      <3>2. CASE ~protocol_tx_access /\ Faults /\ UNCHANGED <<ulp_sleep_ack_sent, to_fw>>
        <4>1. RequestOpen'
          BY <1>2, <2>0, <3>2 DEF SleepEntryRecvd, RequestedEntry, RequestOpen, AckInFlight, Flags
        <4>. QED
          BY <4>1 DEF HandshakePhases
      <3>3. CASE protocol_tx_access
        <4>1. RequestOpen'
          BY <1>2, <2>0, <3>3 DEF SleepEntryRecvd, RequestedEntry, RequestOpen, AckInFlight
        <4>. QED
          BY <4>1 DEF HandshakePhases
      <3>. QED
        BY <1>2, <3>1, <3>2, <3>3 DEF SleepEntryRecvd, send_ulp_sleep_ack
    <2>3. ThreadInv'
      BY <1>2 DEF SleepEntryRecvd, IInv, TypeOK, ThreadInv, protocol_tx_access, techVars, threadVars
    <2>4. OpenRequestInv'
      BY <1>2 DEF SleepEntryRecvd, send_ulp_sleep_ack, OpenRequestInv, protocol_tx_access, techVars
    <2>. QED
      BY <1>2, <2>1, <2>2, <2>3, <2>4 DEF SleepEntryRecvd, IInv, GrantInv
  <1>3. CASE SleepExitRecvd
    <2>1. TypeOK'
      <3>1. rx_id' \in 0 .. MAX_IDS
        BY <1>3 DEF SleepExitRecvd, MAX_IDS
      <3>. QED
        BY <1>3, <3>1 DEF SleepExitRecvd, IInv, TypeOK, techVars, threadVars, fwVars
    <2>2. HandshakePhases'
      <3>1. CASE AwakeExit
        <4>1. AwakeQuiet'
          BY <1>3, <3>1 DEF SleepExitRecvd, AwakeExit, AwakeQuiet, AckInFlight, Flags, NotInFrame, fwVars
        <4>. QED
          BY <4>1 DEF HandshakePhases
      <3>2. CASE RequestedBeforeExit
        <4>1. RequestedEntry'
          BY <1>3, <3>2 DEF SleepExitRecvd, RequestedBeforeExit, RequestedEntry, AckInFlight, Flags, NotInFrame, EntryFrame, fwVars
        <4>. QED
          BY <4>1 DEF HandshakePhases
      <3>. QED
        BY <1>3, <3>1, <3>2 DEF SleepExitRecvd, IInv, HandshakePhases, AwakeQuiet, RequestedEntry,
           RequestOpen, RequestAnswered, Asleep, NotInFrame
    <2>3. ThreadInv' /\ OpenRequestInv'
      BY <1>3 DEF SleepExitRecvd, IInv, ThreadInv, OpenRequestInv, techVars, threadVars
    <2>. QED
      BY <1>3, <2>1, <2>2, <2>3 DEF SleepExitRecvd, IInv, GrantInv, fwVars
  <1>4. CASE WakeNext \/ WakeGrant \/ WakeDone
    <2>1. TypeOK' /\ GrantInv'
      <3>1. CASE WakeNext
        <4>1. rx_id' \in 0 .. MAX_IDS
          BY <3>1 DEF WakeNext, IInv, TypeOK, MAX_IDS
        <4>2. deregister_flags' \in [Techs -> BOOLEAN] /\ rx_pc' \in {"wake", "grant"} /\ GrantInv'
          BY <3>1 DEF WakeNext, IInv, TypeOK, GrantInv
        <4>. QED
          BY <3>1, <4>1, <4>2 DEF WakeNext, IInv, TypeOK, halVars, threadVars, fwVars
      <3>2. CASE WakeGrant
        <4>1. rx_id \in AllIds
          BY <3>2 DEF WakeGrant, IInv, GrantInv
        <4>2. rx_id' \in 0 .. MAX_IDS
          BY <3>2, <4>1 DEF WakeGrant, AllIds, MAX_IDS
        <4>. QED
          BY <3>2, <4>2 DEF WakeGrant, IInv, TypeOK, GrantInv, halVars, threadVars, fwVars
      <3>3. CASE WakeDone
        BY <3>3 DEF WakeDone, IInv, TypeOK, GrantInv, halVars, techVars, threadVars, fwVars
      <3>. QED
        BY <1>4, <3>1, <3>2, <3>3
    <2>2. HandshakePhases'
      <3>1. /\ UNCHANGED <<halVars, fwVars, ulp_sleep_token>>
            /\ rx_pc \in {"wake", "grant"}
            /\ \/ rx_pc' = "idle"
               \/ rx_pc' \in {"wake", "grant"} /\ UNCHANGED tx_access_lock
        BY <1>4 DEF WakeNext, WakeGrant, WakeDone
      <3>2. CASE AwakeQuiet
        BY <3>1, <3>2 DEF HandshakePhases, AwakeQuiet, AckInFlight, Flags, NotInFrame, halVars, fwVars
      <3>3. CASE RequestedEntry
        BY <3>1, <3>3 DEF HandshakePhases, RequestedEntry, AckInFlight, Flags, NotInFrame, EntryFrame, halVars, fwVars
      <3>4. CASE RequestOpen
        BY <3>1, <3>4 DEF HandshakePhases, RequestOpen, AckInFlight, halVars, fwVars
      <3>. QED
        BY <3>1, <3>2, <3>3, <3>4 DEF IInv, HandshakePhases, AwakeExit, RequestedBeforeExit, RequestAnswered, Asleep
    <2>3. ThreadInv' /\ OpenRequestInv' /\ (fw' = "requested" => fw_token' \in Tokens)
      BY <1>4 DEF WakeNext, WakeGrant, WakeDone, IInv, ThreadInv, OpenRequestInv, protocol_tx_access,
         halVars, techVars, threadVars, fwVars
    <2>. QED
      BY <2>1, <2>2, <2>3 DEF IInv
  <1>. QED
    BY <1>1, <1>2, <1>3, <1>4 DEF RxStep

(***************************************************************************)
(* The firmware: a request, the sleep itself and the wake-up.               *)
(***************************************************************************)
LEMMA FwStepKeepsIInv ==
  ASSUME IInv, FwStep
  PROVE  IInv'
  <1>1. ASSUME NEW tok \in Tokens, FwRequestSleep(tok) PROVE IInv'
    <2>1. TypeOK'
      <3>1. [kind |-> "entry", token |-> tok] \in Notify
        BY DEF Notify
      <3>. QED
        BY <1>1, <3>1 DEF FwRequestSleep, IInv, TypeOK, halVars, techVars, threadVars, rxVars
    <2>2. HandshakePhases'
      <3>1. CASE AwakeQuiet
        <4>1. RequestedEntry'
          BY <1>1, <3>1, ShortQueues DEF FwRequestSleep, AwakeQuiet, RequestedEntry, AckInFlight, Flags,
             NotInFrame, EntryFrame, halVars, rxVars
        <4>. QED
          BY <4>1 DEF HandshakePhases
      <3>2. CASE AwakeExit
        <4>1. RequestedBeforeExit'
          BY <1>1, <3>2, ShortQueues DEF FwRequestSleep, AwakeExit, RequestedBeforeExit, AckInFlight, Flags,
             ExitFrame, EntryFrame, halVars, rxVars
        <4>. QED
          BY <4>1 DEF HandshakePhases
      <3>. QED
        BY <1>1, <3>1, <3>2 DEF FwRequestSleep, IInv, HandshakePhases, RequestedBeforeExit, RequestedEntry,
           RequestOpen, RequestAnswered, Asleep
    <2>3. ThreadInv' /\ OpenRequestInv' /\ GrantInv'
      BY <1>1 DEF FwRequestSleep, IInv, ThreadInv, OpenRequestInv, GrantInv, protocol_tx_access,
         halVars, techVars, threadVars, rxVars
    <2>. QED
      BY <1>1, <2>1, <2>2, <2>3 DEF FwRequestSleep, IInv
  <1>2. CASE FwSleep
    <2>1. TypeOK'
      BY <1>2 DEF FwSleep, IInv, TypeOK, halVars, techVars, threadVars, rxVars
    <2>2. RequestAnswered
      BY <1>2 DEF FwSleep, IInv, HandshakePhases, AwakeQuiet, AwakeExit, RequestedBeforeExit, RequestedEntry,
         RequestOpen, Asleep, AckInFlight
    <2>3. Asleep'
      BY <1>2, <2>2 DEF FwSleep, RequestAnswered, Asleep, AckInFlight, Flags, halVars, rxVars
    <2>4. ThreadInv' /\ OpenRequestInv' /\ GrantInv'
      BY <1>2 DEF FwSleep, IInv, ThreadInv, OpenRequestInv, GrantInv, protocol_tx_access,
         halVars, techVars, threadVars, rxVars
    <2>. QED
      BY <1>2, <2>1, <2>3, <2>4 DEF FwSleep, IInv, HandshakePhases
  <1>3. CASE FwWake
    <2>1. TypeOK'
      <3>1. [kind |-> "exit", token |-> InvalidToken] \in Notify
        BY DEF Notify
      <3>. QED
        BY <1>3, <3>1 DEF FwWake, IInv, TypeOK, halVars, techVars, threadVars, rxVars
    <2>2. Asleep
      BY <1>3 DEF FwWake, IInv, HandshakePhases, AwakeQuiet, AwakeExit, RequestedBeforeExit, RequestedEntry,
         RequestOpen, RequestAnswered
    <2>3. AwakeExit'
      BY <1>3, <2>2, ShortQueues DEF FwWake, Asleep, AwakeExit, AckInFlight, Flags, ExitFrame, halVars, rxVars
    <2>4. ThreadInv' /\ OpenRequestInv' /\ GrantInv'
      BY <1>3 DEF FwWake, IInv, ThreadInv, OpenRequestInv, GrantInv, protocol_tx_access,
         halVars, techVars, threadVars, rxVars
    <2>. QED
      BY <1>3, <2>1, <2>3, <2>4 DEF FwWake, IInv, HandshakePhases
  <1>. QED
    BY <1>1, <1>2, <1>3 DEF FwStep

(***************************************************************************)
(* IInv is an invariant of the arbitration between the transmit threads and *)
(* the sleep handshake.                                                     *)
(***************************************************************************)
THEOREM IInvInvariant == Spec => []IInv
  <1>1. IInv /\ [Next]_vars => IInv'
    <2>. SUFFICES ASSUME IInv, [Next]_vars PROVE IInv'
      OBVIOUS
    <2>1. CASE Next
      <3>1. ASSUME NEW p \in Techs, Enqueue(p) PROVE IInv'
        BY <3>1, ThreadStepsKeepIInv DEF Threads
      <3>2. ASSUME NEW t \in Threads, ThreadStep(t) PROVE IInv'
        BY <3>2, ThreadStepsKeepIInv, ReleaseKeepsIInv DEF ThreadStep
      <3>3. CASE Pick \/ Recheck \/ WlanXmit \/ WlanDone
        BY <3>3, ThreadStepsKeepIInv DEF Threads
      <3>. QED
        BY <2>1, <3>1, <3>2, <3>3, RxStepKeepsIInv, FwStepKeepsIInv DEF Next
    <2>2. CASE UNCHANGED vars
      BY <2>2, PhasesStutter DEF IInv, TypeOK, ThreadInv, OpenRequestInv, protocol_tx_access, vars,
         halVars, techVars, threadVars, rxVars, fwVars
    <2>. QED
      BY <2>1, <2>2
  <1>. QED
    BY InitIInv, <1>1, PTL DEF Spec

(***************************************************************************)
(* The fields of driver_assets keep their types; in particular the token    *)
(* put into a sleep ack is one of the firmware's tokens and the wake-up     *)
(* loops never index beyond techs[MAX_IDS - 1].                             *)
(***************************************************************************)
THEOREM TypeCorrect == Spec => []TypeOK
  <1>1. IInv => TypeOK
    BY DEF IInv
  <1>. QED
    BY IInvInvariant, <1>1, PTL

(***************************************************************************)
(* update_tx_status grants no access between the sleep ack and the handling *)
(* of the sleep-exit frame.                                                 *)
(***************************************************************************)
THEOREM NoAccessWhileAsleep == Spec => []AsleepMeansNoAccess
  <1>1. IInv => AsleepMeansNoAccess
    BY DEF IInv, AsleepMeansNoAccess, HandshakePhases, AwakeQuiet, AwakeExit, RequestedBeforeExit,
       RequestedEntry, RequestOpen, RequestAnswered, Asleep, Flags
  <1>. QED
    BY IInvInvariant, <1>1, PTL

(***************************************************************************)
(* sleep_entry_recvd and update_tx_status answer a request once, with its   *)
(* own token.                                                               *)
(***************************************************************************)
THEOREM OneAckPerRequest == Spec => []AckAnswersRequest
  <1>1. IInv => AckAnswersRequest
    BY DEF IInv, AckAnswersRequest, HandshakePhases, AwakeQuiet, AwakeExit, RequestedBeforeExit,
       RequestedEntry, RequestOpen, RequestAnswered, Asleep, AckInFlight
  <1>. QED
    BY IInvInvariant, <1>1, PTL

(***************************************************************************)
(* The unlocked test of send_pkt_to_coex protects a WLAN write of a thread  *)
(* that has announced its intention.                                        *)
(***************************************************************************)
THEOREM RegisteredWriteSafe == Spec => []RegisteredWlanWriteIsAwake
  <1>1. IInv => RegisteredWlanWriteIsAwake
    <2>. SUFFICES ASSUME IInv, pc["wlan"] = "write", tx_intention[WLAN_ID]
                  PROVE  fw # "asleep" /\ ~AckInFlight
      BY DEF RegisteredWlanWriteIsAwake
    <2>1. common_hal_tx_access
      BY DEF IInv, ThreadInv
    <2>2. AsleepMeansNoAccess
      BY DEF IInv, AsleepMeansNoAccess, HandshakePhases, AwakeQuiet, AwakeExit, RequestedBeforeExit,
         RequestedEntry, RequestOpen, RequestAnswered, Asleep, Flags
    <2>. QED
      BY <2>1, <2>2 DEF AsleepMeansNoAccess
  <1>. QED
    BY IInvInvariant, <1>1, PTL

(***************************************************************************)
(* No sleep request is forgotten between sleep_entry_recvd and the release  *)
(* of the last protocol, whether or not acks can fail.                      *)
(***************************************************************************)
THEOREM NoRequestForgotten == Spec => []RequestNotForgotten
  <1>1. IInv => RequestNotForgotten
    <2>. SUFFICES ASSUME IInv, fw = "requested", ~AckInFlight, common_hal_tx_access, to_host = <<>>,
                         rx_pc = "idle", ~protocol_tx_access
                  PROVE  \E t \in Threads : pc[t] \in {"drop_access", "upd_release"}
      BY DEF RequestNotForgotten, AckLost, IInv, TypeOK
    <2>1. fw_token \in Tokens /\ fw_token # NoAck
      BY DEF IInv
    <2>2. RequestOpen
      BY <2>1, ShortQueues DEF IInv, HandshakePhases, AwakeQuiet, AwakeExit, RequestedBeforeExit, RequestedEntry,
         RequestAnswered, Asleep, AckInFlight, Flags
    <2>. QED
      BY <2>2 DEF IInv, RequestOpen, OpenRequestInv
  <1>. QED
    BY IInvInvariant, <1>1, PTL

(***************************************************************************)
(* A step that leaves the device, the common access and the frame on its    *)
(* way to the device alone is a stutter of the abstract handshake.          *)
(***************************************************************************)
LEMMA HandshakeStutter ==
  ASSUME UNCHANGED <<fw, common_hal_tx_access, to_fw>>
  PROVE  UNCHANGED Handshake!vars
  BY DEF Handshake!vars, AckInFlight

(***************************************************************************)
(* send_ulp_sleep_ack, with the access withdrawn beside it, is the abstract *)
(* answer wherever a request is open.                                       *)
(***************************************************************************)
LEMMA AckIsAnswer ==
  ASSUME TypeOK, fw = "requested", fw_token \in Tokens, ulp_sleep_token = fw_token, ~AckInFlight,
         common_hal_tx_access \/ Faults,
         common_hal_tx_access' = FALSE, send_ulp_sleep_ack, UNCHANGED fw
  PROVE  Handshake!Answer
  <1>1. AckInFlight' \/ (Faults /\ ~AckInFlight')
    BY DEF send_ulp_sleep_ack, AckInFlight
  <1>2. (AckInFlight' = TRUE) \/ (Faults /\ (AckInFlight' = FALSE))
    BY <1>1 DEF AckInFlight
  <1>. QED
    BY <1>2 DEF Handshake!Answer

(***************************************************************************)
(* Every step of the driver and of the firmware is a step or a stutter of   *)
(* the abstract handshake.                                                  *)
(***************************************************************************)
LEMMA StepImplementsHandshake ==
  ASSUME IInv, [Next]_vars
  PROVE  [Handshake!Next]_Handshake!vars
  <1>1. ASSUME NEW p \in Techs, Enqueue(p) PROVE UNCHANGED Handshake!vars
    BY <1>1, HandshakeStutter DEF Enqueue, halVars, fwVars
  <1>2. ASSUME NEW t \in Threads, ThreadStep(t) PROVE [Handshake!Next]_Handshake!vars
    <2>1. CASE UpdateRelease(t)
      <3>1. CASE sleep_entry_recvd /\ ~ulp_sleep_ack_sent /\ ~protocol_tx_access
        <4>1. RequestOpen
          BY <3>1 DEF IInv, HandshakePhases, AwakeQuiet, AwakeExit, RequestedBeforeExit, RequestedEntry,
             RequestAnswered, Asleep, Flags
        <4>2. Handshake!Answer
          BY <2>1, <3>1, <4>1, AckIsAnswer DEF UpdateRelease, AnswerOpenRequest, RequestOpen, IInv
        <4>. QED
          BY <4>2 DEF Handshake!Next
      <3>2. CASE ~(sleep_entry_recvd /\ ~ulp_sleep_ack_sent /\ ~protocol_tx_access)
        BY <2>1, <3>2, HandshakeStutter DEF UpdateRelease, AnswerOpenRequest
      <3>. QED
        BY <3>1, <3>2
    <2>2. CASE ~UpdateRelease(t)
      BY <1>2, <2>2, HandshakeStutter DEF ThreadStep, WaitEvent, Check, Intend, UpdateRequest, CheckAgain, SetFlag,
         Woken, Timeout, Send, Write, DropIntention, DropAccess, halVars, fwVars
    <2>. QED
      BY <2>1, <2>2
  <1>3. CASE Pick \/ Recheck \/ WlanXmit \/ WlanDone
    BY <1>3, HandshakeStutter DEF Pick, Recheck, WlanXmit, WlanDone, halVars, fwVars
  <1>4. CASE SleepEntryRecvd
    <2>1. RequestedEntry /\ ulp_sleep_token = fw_token /\ fw_token \in Tokens
      BY <1>4 DEF SleepEntryRecvd, IInv, HandshakePhases, AwakeQuiet, AwakeExit, RequestedBeforeExit,
         RequestedEntry, RequestOpen, RequestAnswered, Asleep, NotInFrame
    <2>2. CASE protocol_tx_access
      BY <1>4, <2>1, <2>2, HandshakeStutter DEF SleepEntryRecvd, RequestedEntry, Flags
    <2>3. CASE ~protocol_tx_access
      <3>1. Handshake!Answer
        BY <1>4, <2>1, <2>3, AckIsAnswer DEF SleepEntryRecvd, RequestedEntry, Flags, IInv
      <3>. QED
        BY <3>1 DEF Handshake!Next
    <2>. QED
      BY <2>2, <2>3
  <1>5. CASE SleepExitRecvd
    <2>1. AwakeExit \/ RequestedBeforeExit
      BY <1>5 DEF SleepExitRecvd, IInv, HandshakePhases, AwakeQuiet, RequestedEntry,
         RequestOpen, RequestAnswered, Asleep, NotInFrame
    <2>2. Handshake!Restore
      BY <1>5, <2>1 DEF SleepExitRecvd, AwakeExit, RequestedBeforeExit, Flags, AckInFlight, fwVars, Handshake!Restore
    <2>. QED
      BY <2>2 DEF Handshake!Next
  <1>6. CASE process_ulp_sleep_notify \/ WakeNext \/ WakeGrant \/ WakeDone
    BY <1>6, HandshakeStutter DEF process_ulp_sleep_notify, WakeNext, WakeGrant, WakeDone, halVars, fwVars
  <1>7. ASSUME NEW tok \in Tokens, FwRequestSleep(tok) PROVE Handshake!Request
    BY <1>7 DEF FwRequestSleep, Handshake!Request, AckInFlight, halVars
  <1>8. CASE FwSleep
    <2>1. AckInFlight /\ ~AckInFlight'
      BY <1>8 DEF FwSleep, AckInFlight, IInv, TypeOK
    <2>2. Handshake!Sleep
      BY <1>8, <2>1 DEF FwSleep, Handshake!Sleep, AckInFlight, halVars
    <2>. QED
      BY <2>2 DEF Handshake!Next
  <1>9. CASE FwWake
    <2>1. Handshake!Wake
      BY <1>9 DEF FwWake, Handshake!Wake, AckInFlight, halVars
    <2>. QED
      BY <2>1 DEF Handshake!Next
  <1>10. CASE UNCHANGED vars
    BY <1>10, HandshakeStutter DEF vars, halVars, fwVars
  <1>. QED
    BY <1>1, <1>2, <1>3, <1>4, <1>5, <1>6, <1>7, <1>8, <1>9, <1>10 DEF Next, RxStep, FwStep, Handshake!Next

(***************************************************************************)
(* The arbitration of onebox_common_pwr_mngr.c, with any protocols loaded,  *)
(* implements the abstract sleep handshake.                                 *)
(***************************************************************************)
THEOREM HandshakeRefinement == Spec => ImplementsHandshake
  <1>1. Init => Handshake!Init
    BY DEF Init, Handshake!Init, AckInFlight
  <1>. QED
    BY InitIInv, IInvInvariant, StepImplementsHandshake, <1>1, PTL DEF Spec, ImplementsHandshake, Handshake!Spec
=============================================================================
