-------------------------- MODULE BootLoaderProofs --------------------------
(***************************************************************************)
(* Loading the firmware, for all modes, sizes of image and chunk, delays    *)
(* and failures.  First the timer: it is never armed twice and does not     *)
(* outlive load_fw_thru_sbl.  Then the dialogue, the two buffers and what   *)
(* the device is told to start.                                             *)
(***************************************************************************)
EXTENDS BootLoader, SequenceTheorems, TLAPS

(***************************************************************************)
(* The inductive invariant.  The timer is pending only while a command or   *)
(* the probe waits, on the way to the label fail, and after the failed read *)
(* of device_init; the stages of load_fw_thru_sbl are for modes with a boot *)
(* loader; and in the probe, whose timer is the first one, an expired timer *)
(* is not pending.                                                          *)
(***************************************************************************)
Waiting == {"regin", "regin_check", "regout", "regout_check", "invalidate"}

TimerInv ==
  /\ bl_timer => \/ pc \in {"probe", "probe_check"} \cup Waiting
                 \/ pc = "begin" /\ stage = "fail" /\ BlReq
                 \/ pc = "done" /\ status = "read_failure"
  /\ pc \in {"init", "probe", "probe_check"} => stage = "PROBE" /\ ~(bl_timer /\ (callback \/ bl_timer_expired))
  /\ pc = "init" => ~callback /\ ~bl_timer
  /\ pc = "probe_clear" => stage = "PROBE"
  /\ pc \in Waiting => stage \in DOMAIN Commands
  /\ stage \in {"PROBE", "LOAD_PMEMDATA", "TA_RESET", "success", "fail"} \/ BlReq
  /\ stage = "PROBE" => pc \in {"init", "probe", "probe_check", "probe_clear", "done"}

-----------------------------------------------------------------------------
\* The stages that are commands.
LEMMA CommandStages ==
  DOMAIN Commands = {"AUTO_READ", "CHECK_CRC", "POLLING_MODE", "LOAD_IMAGE", "JUMP_TO_ZERO",
                     "FW_UPGRADE", "BURN_BL", "EOF_REACHED", "AUTO_READ_MODE", "VALID"}
BY DEF Commands

\* Initially no timer runs.
LEMMA TimerInit == Init => TimerInv
BY CommandStages DEF Init, TimerInv, Waiting, BlReq

(***************************************************************************)
(* A stage that succeeds leads to a stage of its mode.                      *)
(***************************************************************************)
LEMMA SuccessStage ==
  ASSUME stage # "PROBE", stage \in {"LOAD_PMEMDATA", "TA_RESET", "success", "fail"} \/ BlReq
  PROVE  /\ OnSuccess(stage) # "PROBE"
         /\ OnSuccess(stage) \in {"LOAD_PMEMDATA", "TA_RESET", "success", "fail"} \/ BlReq
BY DEF OnSuccess, AfterAutoReadMode

(***************************************************************************)
(* So does one that fails, and a command whose timer is left running leads  *)
(* to the label fail.                                                       *)
(***************************************************************************)
LEMMA FailureStage ==
  ASSUME stage # "PROBE", stage \in {"LOAD_PMEMDATA", "TA_RESET", "success", "fail"} \/ BlReq,
         NEW resp
  PROVE  /\ OnFailure(stage, resp) # "PROBE"
         /\ OnFailure(stage, resp) \in {"LOAD_PMEMDATA", "TA_RESET", "success", "fail"} \/ BlReq
         /\ stage \in DOMAIN Commands /\ stage \notin StopsTimer => OnFailure(stage, resp) = "fail"
BY CommandStages DEF OnFailure, StopsTimer

(***************************************************************************)
(* A command that fails keeps the invariant.                                *)
(***************************************************************************)
LEMMA CommandFailsStep ==
  ASSUME TimerInv, UNCHANGED paramVars, pc \in Waiting, NEW resp, CommandFails(resp)
  PROVE  TimerInv'
<1>1. stage \in DOMAIN Commands /\ stage # "PROBE" /\ BlReq /\ BlReq'
  BY CommandStages DEF TimerInv, Waiting, paramVars, BlReq
<1>2. stage' = OnFailure(stage, resp) /\ pc' = "begin"
  BY DEF CommandFails, Fail, Goto
<1>3. stage' # "PROBE" /\ (stage \notin StopsTimer => stage' = "fail")
  BY <1>1, <1>2, FailureStage
<1>4. CASE stage \in StopsTimer
  <2>1. bl_timer' = FALSE
    BY <1>4 DEF CommandFails, bl_cmd_stop_timer
  <2> QED
    BY <1>1, <1>2, <1>3, <2>1 DEF TimerInv, Waiting
<1>5. CASE stage \notin StopsTimer
  BY <1>1, <1>2, <1>3, <1>5 DEF TimerInv, Waiting
<1> QED
  BY <1>4, <1>5

(***************************************************************************)
(* A command that succeeds stops its timer.                                 *)
(***************************************************************************)
LEMMA CommandSucceedsStep ==
  ASSUME TimerInv, UNCHANGED paramVars, pc \in Waiting, CommandSucceeds
  PROVE  TimerInv'
<1>1. stage \in DOMAIN Commands /\ stage # "PROBE" /\ BlReq /\ BlReq'
  BY CommandStages DEF TimerInv, Waiting, paramVars, BlReq
<1>2. stage' = OnSuccess(stage) /\ pc' = "begin" /\ bl_timer' = FALSE
  BY DEF CommandSucceeds, Succeed, Goto, bl_cmd_stop_timer
<1>3. stage' # "PROBE"
  BY <1>1, <1>2, SuccessStage
<1> QED
  BY <1>1, <1>2, <1>3 DEF TimerInv, Waiting

(***************************************************************************)
(* Every step of host, timer and device keeps the invariant.                *)
(***************************************************************************)
LEMMA TimerStep == TimerInv /\ [Next]_vars => TimerInv'
<1> SUFFICES ASSUME TimerInv, [Next]_vars PROVE TimerInv'
  OBVIOUS
<1>1. CASE device_init
  BY <1>1 DEF device_init, bl_cmd_start_timer, TimerInv, Waiting, paramVars, BlReq
<1>2. CASE Probe
  BY <1>2 DEF Probe, Return, TimerInv, Waiting, paramVars, timerVars, BlReq
<1>3. CASE ProbeCheck
  BY <1>3 DEF ProbeCheck, Return, bl_cmd_stop_timer, TimerInv, Waiting, paramVars, timerVars, BlReq
<1>4. CASE ProbeClear
  BY <1>4 DEF ProbeClear, Return, Goto, TimerInv, Waiting, paramVars, timerVars, BlReq
<1>5. CASE Transfer
  <2>1. stage # "PROBE" /\ pc' = "begin" /\ bl_timer' = bl_timer /\ BlReq' = BlReq
    BY <1>5 DEF Transfer, Succeed, Fail, Goto, TimerInv, paramVars, timerVars, BlReq
  <2>2. ~bl_timer
    BY <1>5 DEF Transfer, TimerInv, Waiting
  <2>3. /\ stage' # "PROBE"
        /\ stage' \in {"LOAD_PMEMDATA", "TA_RESET", "success", "fail"} \/ BlReq
    <3>1. stage' = OnSuccess(stage) \/ stage' = OnFailure(stage, None)
      BY <1>5 DEF Transfer, Succeed, Fail, Goto
    <3> QED
      BY <2>1, <3>1, SuccessStage, FailureStage DEF TimerInv
  <2> QED
    BY <2>1, <2>2, <2>3 DEF TimerInv, Waiting
<1>6. CASE bl_cmd
  BY <1>6, CommandStages DEF bl_cmd, bl_cmd_start_timer, TimerInv, Waiting, paramVars, BlReq
<1>7. CASE PollRegin
  <2>1. CASE pc' = "regin_check" /\ UNCHANGED <<stage, unanswered, timerVars>>
    BY <1>7, <2>1 DEF PollRegin, TimerInv, Waiting, paramVars, timerVars, BlReq
  <2>2. CASE CommandFails(None)
    BY <1>7, <2>2, CommandFailsStep DEF PollRegin, Waiting
  <2> QED
    BY <1>7, <2>1, <2>2 DEF PollRegin
<1>8. CASE WriteRegin
  <2>1. CASE pc' = "regout" /\ UNCHANGED <<stage, unanswered, timerVars>>
    BY <1>8, <2>1 DEF WriteRegin, TimerInv, Waiting, paramVars, timerVars, BlReq
  <2>2. CASE CommandSucceeds
    BY <1>8, <2>2, CommandSucceedsStep DEF WriteRegin, Waiting
  <2>3. CASE CommandFails(None)
    BY <1>8, <2>3, CommandFailsStep DEF WriteRegin, Waiting
  <2> QED
    BY <1>8, <2>1, <2>2, <2>3 DEF WriteRegin
<1>9. CASE PollRegout
  <2>1. CASE pc' = "regout_check" /\ UNCHANGED <<stage, unanswered, timerVars>>
    BY <1>9, <2>1 DEF PollRegout, TimerInv, Waiting, paramVars, timerVars, BlReq
  <2>2. CASE CommandFails(None)
    BY <1>9, <2>2, CommandFailsStep DEF PollRegout, Waiting
  <2> QED
    BY <1>9, <2>1, <2>2 DEF PollRegout
<1>10. CASE RegoutCheck
  <2>1. CASE pc' = "invalidate" /\ UNCHANGED <<stage, unanswered, timerVars>>
    BY <1>10, <2>1 DEF RegoutCheck, TimerInv, Waiting, paramVars, timerVars, BlReq
  <2>2. CASE CommandFails(None)
    BY <1>10, <2>2, CommandFailsStep DEF RegoutCheck, Waiting
  <2> QED
    BY <1>10, <2>1, <2>2 DEF RegoutCheck
<1>11. CASE CompareAnswer
  <2>1. CASE CommandSucceeds
    BY <1>11, <2>1, CommandSucceedsStep DEF CompareAnswer, Waiting
  <2>2. CASE CommandFails(answer.resp)
    BY <1>11, <2>2, CommandFailsStep DEF CompareAnswer, Waiting
  <2> QED
    BY <1>11, <2>1, <2>2 DEF CompareAnswer
<1>12. CASE load_fw_ends
  BY <1>12 DEF load_fw_ends, LeaveLoad, bl_cmd_stop_timer, Return, TimerInv, Waiting, paramVars, timerVars, BlReq
<1>13. CASE TimerFires
  BY <1>13 DEF TimerFires, TimerInv, Waiting, paramVars, hostVars, BlReq
<1>14. CASE bl_cmd_timer_expired
  BY <1>14 DEF bl_cmd_timer_expired, TimerInv, Waiting, paramVars, hostVars, BlReq
<1>15. CASE DevTake \/ DevWork \/ DevRefuse \/ DevBurn \/ DevStart \/ UNCHANGED vars
  <2>1. UNCHANGED <<paramVars, hostVars, timerVars>>
    BY <1>15 DEF DevTake, DevWork, DevRefuse, DevBurn, DevStart, vars
  <2> QED
    BY <2>1 DEF TimerInv, Waiting, paramVars, hostVars, timerVars, BlReq
<1> QED
  BY <1>1, <1>2, <1>3, <1>4, <1>5, <1>6, <1>7, <1>8, <1>9, <1>10, <1>11, <1>12, <1>13, <1>14, <1>15
     DEF Next, HostStep

(***************************************************************************)
(* TimerInv is an invariant.                                                *)
(***************************************************************************)
THEOREM TimerInvariant == Spec => []TimerInv
BY TimerInit, TimerStep, PTL DEF Spec

(***************************************************************************)
(* bl_timer is not pending when device_init returns, but for its own failed *)
(* read.                                                                    *)
(***************************************************************************)
THEOREM NoTimerLeft == Spec => []TimerStopped
<1>1. TimerInv => TimerStopped
  BY DEF TimerInv, TimerStopped, Waiting
<1> QED
  BY <1>1, TimerInvariant, PTL

(***************************************************************************)
(* bl_cmd_start_timer never initialises a pending timer.                    *)
(***************************************************************************)
THEOREM NoDoubleArm == Spec => TimerArmedOnce
<1>1. TimerInv /\ [Next]_vars => [pc # pc' /\ pc' \in {"probe", "regin"} => ~bl_timer]_vars
  <2> SUFFICES ASSUME TimerInv, Next, pc # pc', pc' \in {"probe", "regin"}
               PROVE  ~bl_timer
    OBVIOUS
  <2>1. device_init \/ bl_cmd
    BY DEF Next, HostStep, device_init, Probe, ProbeCheck, ProbeClear, Transfer, bl_cmd, PollRegin,
           WriteRegin, PollRegout, RegoutCheck, CompareAnswer, load_fw_ends, TimerFires,
           bl_cmd_timer_expired, DevTake, DevWork, DevRefuse, DevBurn, DevStart, hostVars,
           Succeed, Fail, Goto, Return, CommandFails, CommandSucceeds
  <2> QED
    BY <2>1, CommandStages DEF device_init, bl_cmd, TimerInv, Waiting
<1> QED
  BY <1>1, TimerInvariant, PTL DEF Spec, TimerArmedOnce
-----------------------------------------------------------------------------
(***************************************************************************)
(* The chunks. End(k) is where chunk k begins; Handed(k): k chunks have    *)
(* been handed over to the device, which has burned them all or is about to*)
(* burn the last one.                                                      *)
(***************************************************************************)
End(k) == IF k <= num_flash THEN k * Chunk ELSE size

BurnedTo(k) == Len(burned) = End(k) /\ \A i \in 1 .. End(k) : burned[i] = i

Handed(k) ==
  \/ burning = None /\ BurnedTo(k)
  \/ k > 0 /\ burning = Buffer(k - 1) /\ buf[burning] = ChunkUnits(k - 1) /\ BurnedTo(k - 1)

(***************************************************************************)
(* Quotient and remainder, and the multiples up to the quotient.           *)
(***************************************************************************)
LEMMA Division ==
  ASSUME NEW s \in Nat \ {0}, NEW c \in Nat \ {0}
  PROVE  /\ s \div c \in Nat /\ s % c \in 0 .. c - 1
         /\ s = (s \div c) * c + (s % c)
         /\ \A k \in 0 .. s \div c : k * c \in Nat /\ k * c <= (s \div c) * c /\ (k + 1) * c = k * c + c
<1>1. s \div c \in Nat /\ s % c \in 0 .. c - 1 /\ s = (s \div c) * c + (s % c)
  OBVIOUS
<1>2. ASSUME NEW q \in Nat
      PROVE \A k \in 0 .. q : k * c \in Nat /\ k * c <= q * c /\ (k + 1) * c = k * c + c
  OBVIOUS
<1> QED BY <1>1, <1>2

(***************************************************************************)
(* Each chunk begins where the one before it ends, and none goes beyond the*)
(* end of the file.                                                        *)
(***************************************************************************)
LEMMA ChunkEnd ==
  ASSUME size \in Sizes, NEW k \in 0 .. num_flash
  PROVE  /\ End(k) \in Nat /\ ChunkSize(k) \in Nat
         /\ End(k + 1) = End(k) + ChunkSize(k) /\ End(k + 1) <= size
         /\ ChunkUnits(k) = [i \in 1 .. ChunkSize(k) |-> End(k) + i]
<1> DEFINE n == size \div Chunk  r == size % Chunk
<1>1. size \in Nat \ {0} /\ Chunk \in Nat \ {0}
  BY BootAssumption
<1>2. /\ n \in Nat /\ r \in 0 .. Chunk - 1 /\ size = n * Chunk + r
      /\ \A j \in 0 .. n : j * Chunk \in Nat /\ j * Chunk <= n * Chunk /\ (j + 1) * Chunk = j * Chunk + Chunk
  BY <1>1, Division
<1>3. num_flash = n /\ k \in 0 .. n /\ n * Chunk \in Nat
  BY <1>2 DEF num_flash
<1>4. End(k) = k * Chunk /\ ChunkSize(k) = IF k # n THEN Chunk ELSE r
  BY <1>3 DEF End, ChunkSize
<1>5. End(k + 1) = IF k # n THEN (k + 1) * Chunk ELSE size
  BY <1>3, <1>2 DEF End
<1>6. End(k + 1) = End(k) + ChunkSize(k) /\ End(k + 1) <= size /\ End(k) \in Nat /\ ChunkSize(k) \in Nat
  <2> HIDE DEF n, r
  <2>1. CASE k = n
    BY <1>1, <1>2, <1>3, <1>4, <1>5, <2>1
  <2>2. CASE k # n
    <3>1. k + 1 \in 0 .. n
      BY <1>2, <1>3, <2>2
    <3>2. (k + 1) * Chunk <= n * Chunk /\ (k + 1) * Chunk = k * Chunk + Chunk /\ k * Chunk \in Nat
      BY <1>2, <1>3, <3>1
    <3> QED
      BY <1>1, <1>2, <1>3, <1>4, <1>5, <2>2, <3>2
  <2> QED BY <2>1, <2>2
<1> QED
  BY <1>4, <1>6 DEF ChunkUnits

(***************************************************************************)
(* No image is empty: there is a first chunk.                              *)
(***************************************************************************)
LEMMA FirstChunk == size \in Sizes => MoreChunks(0) /\ End(0) = 0
<1> SUFFICES ASSUME size \in Sizes PROVE MoreChunks(0) /\ End(0) = 0
  OBVIOUS
<1>1. size \in Nat \ {0} /\ Chunk \in Nat \ {0}
  BY BootAssumption
<1>2. size \div Chunk \in Nat /\ size % Chunk \in 0 .. Chunk - 1 /\ size = (size \div Chunk) * Chunk + (size % Chunk)
  BY <1>1, Division
<1>3. CASE size \div Chunk = 0
  BY <1>1, <1>2, <1>3 DEF MoreChunks, ChunkSize, num_flash, End
<1>4. CASE size \div Chunk # 0
  BY <1>1, <1>2, <1>4 DEF MoreChunks, ChunkSize, num_flash, End
<1> QED BY <1>3, <1>4

(***************************************************************************)
(* The loop of auto_fw_upgrade ends at the end of the file.                *)
(***************************************************************************)
LEMMA LastChunk ==
  ASSUME size \in Sizes, NEW k \in 0 .. num_flash, ~MoreChunks(k + 1)
  PROVE  End(k + 1) = size
<1>1. size \in Nat \ {0} /\ Chunk \in Nat \ {0}
  BY BootAssumption
<1>2. num_flash \in Nat /\ size % Chunk \in 0 .. Chunk - 1 /\ size = num_flash * Chunk + (size % Chunk)
  BY <1>1, Division DEF num_flash
<1> QED
  BY <1>1, <1>2 DEF MoreChunks, ChunkSize, End

(***************************************************************************)
(* Burning the buffer that was handed over brings the flash to the end of  *)
(* its chunk.                                                              *)
(***************************************************************************)
LEMMA BurnStep ==
  ASSUME size \in Sizes, burned \in Seq(Nat), NEW k \in 1 .. num_flash + 1, burning # None, Handed(k), DevBurn
  PROVE  burning' = None /\ BurnedTo(k)' /\ burned' \in Seq(Nat)
<1>1. k - 1 \in 0 .. num_flash /\ num_flash \in Int
  BY BootAssumption DEF num_flash
<1>2. buf[burning] = ChunkUnits(k - 1) /\ BurnedTo(k - 1)
  BY DEF Handed
<1> DEFINE e == End(k - 1)  c == ChunkSize(k - 1)
<1>3. /\ e \in Nat /\ c \in Nat /\ End(k) = e + c
      /\ ChunkUnits(k - 1) = [i \in 1 .. c |-> e + i]
  <2>1. (k - 1) + 1 = k
    BY <1>1
  <2> QED
    BY <1>1, <2>1, ChunkEnd
<1>4. End(k)' = End(k) /\ burned' = burned \o buf[burning] /\ burning' = None
  BY DEF DevBurn, End, num_flash, paramVars
<1> HIDE DEF e, c
<1>5. ChunkUnits(k - 1) \in Seq(Nat) /\ Len(ChunkUnits(k - 1)) = c
  BY <1>3
<1>6. burned' \in Seq(Nat) /\ Len(burned') = e + c /\ \A i \in 1 .. e + c : burned'[i] = i
  <2>1. Len(burned) = e /\ \A i \in 1 .. e : burned[i] = i
    BY <1>2 DEF BurnedTo, e
  <2>2. /\ burned \o ChunkUnits(k - 1) \in Seq(Nat)
        /\ Len(burned \o ChunkUnits(k - 1)) = e + c
        /\ \A i \in 1 .. e + c : (burned \o ChunkUnits(k - 1))[i] =
              IF i <= e THEN burned[i] ELSE ChunkUnits(k - 1)[i - e]
    BY <1>5, <2>1, ConcatProperties
  <2> QED
    BY <1>2, <1>3, <1>4, <2>1, <2>2
<1> QED
  BY <1>3, <1>4, <1>6 DEF BurnedTo

(***************************************************************************)
(* When all chunks are burned the flash holds the image.                   *)
(***************************************************************************)
LEMMA BurnedAll ==
  ASSUME size \in Sizes, burned \in Seq(Nat), NEW k, BurnedTo(k), End(k) = size
  PROVE  burned = Image
<1>1. Image \in Seq(Nat) /\ Len(Image) = size
  BY BootAssumption DEF Image
<1> QED
  BY <1>1, BootAssumption DEF BurnedTo, Image

-----------------------------------------------------------------------------
(***************************************************************************)
(* The dialogue.  Commands the host writes, and the answers there can be.   *)
(***************************************************************************)
Written == {"regout", "regout_check", "invalidate"}

ValidCommands == {"PING_VALID", "PONG_VALID"}
BurnCommands  == {"BURN_HOSTED_FW", "BURN_BL"}
OtherCommands == {"CONFIG_AUTO_READ_MODE", "CHECK_CRC", "POLLING_MODE", "EOF_REACHED"}
HostCommands  == StartCommands \cup ValidCommands \cup BurnCommands \cup OtherCommands

\* What a command may be answered, apart from CMD_FAIL.
AnswerOf(c) ==
  CASE c = "BOOT" -> "VERSION"
    [] c \in {"CONFIG_AUTO_READ_MODE", "POLLING_MODE", "CHECK_CRC"} -> "CMD_PASS"
    [] c \in BurnCommands -> "SEND_RPS_FILE"
    [] c = "PING_VALID" -> "PONG_AVAIL"
    [] c = "PONG_VALID" -> "PING_AVAIL"
    [] OTHER -> "FW_LOADING_SUCCESSFUL"

IsAnswer(a) ==
  \/ a = NoAnswer
  \/ \E c \in {"BOOT"} \cup (HostCommands \ StartCommands) :
       a = [cmd |-> c, resp |-> AnswerOf(c)] \/ a = [cmd |-> c, resp |-> "CMD_FAIL"]

RegisterInv ==
  /\ regin \in HostCommands \cup {None}
  /\ dev_cmd \in HostCommands \cup {None, "BOOT"}
  /\ IsAnswer(regout) /\ IsAnswer(answer)

\* A command that was written and not yet answered.
Pending(S) == regin \in S \/ dev_cmd \in S

(***************************************************************************)
(* Which stages belong to which mode, and what they have behind them.       *)
(***************************************************************************)
AfterGivenUp == {"POLLING_MODE", "LOAD_PMEMDATA", "JUMP_TO_ZERO", "LOAD_IMAGE", "success", "fail"}

PathInv ==
  /\ pc \in Written => stage \notin {"LOAD_IMAGE", "JUMP_TO_ZERO"}
  /\ pc = "done" => stage \in {"PROBE", "success", "fail"}
  /\ stage = "TA_RESET" => ~BlReq
  /\ stage \in {"CALIB_DATA", "BURN_BL", "GET_SBL", "VERIFY"} => flashing
  /\ BlReq /\ stage \in {"RPS_IMAGE_HEADER", "CHECK_CRC", "FW_UPGRADE", "POLLING_MODE", "LOAD_IMAGE",
                         "LOAD_PMEMDATA", "JUMP_TO_ZERO"} => ~flashing
  /\ stage \in {"JUMP_TO_ZERO", "TA_RESET"} => ram
  /\ unanswered => BlReq /\ ~flashing /\ stage \in AfterGivenUp
  /\ status = "success" => stage = "success"

(***************************************************************************)
(* In the probe there is only the announcement of the boot loader, and with *)
(* a boot loader the host goes on only when it has seen it.                 *)
(***************************************************************************)
ProbeInv ==
  stage = "PROBE" =>
    /\ regin = None /\ dev_cmd \in {None, "BOOT"} /\ regout.cmd \in {None, "BOOT"}
    /\ dev_cmd = "BOOT" => regout = NoAnswer
    /\ answer = NoAnswer
    /\ BlReq /\ (pc = "probe_clear" \/ (pc = "probe_check" /\ ~bl_timer_expired)) => regout # NoAnswer

(***************************************************************************)
(* The refusal that led to FW_UPGRADE may still be in REGOUT, when writing  *)
(* over it failed.  It is not the answer FW_UPGRADE waits for.              *)
(***************************************************************************)
Refusal(a) == stage = "FW_UPGRADE" /\ a = [cmd |-> "CHECK_CRC", resp |-> "CMD_FAIL"]

\* Before a command is written nothing of an earlier one is under way.
Clean == regin = None /\ dev_cmd = None /\ (regout = NoAnswer \/ Refusal(regout))

\* Then there is one command under way, or its answer.
Own ==
  /\ regin \in {None, Cmd(stage)} /\ dev_cmd \in {None, Cmd(stage)}
  /\ regout.cmd \in {None, Cmd(stage)} \/ Refusal(regout)
  /\ answer.cmd \in {None, Cmd(stage)} \/ Refusal(answer)
  /\ regin # None => dev_cmd = None
  /\ regin # None \/ dev_cmd # None => regout.cmd # Cmd(stage)
  /\ answer.cmd = Cmd(stage) => regin = None /\ dev_cmd = None /\ regout = answer

(***************************************************************************)
(* The two paths on which a command that was given up is followed by        *)
(* another one: the check of the image, and the end of a failed upgrade.    *)
(***************************************************************************)
FailedUpgrade == stage = "AUTO_READ_MODE" /\ ~flashing

MayRemain ==
  {None} \cup IF unanswered THEN StartCommands \cup {"CHECK_CRC", "POLLING_MODE"}
              ELSE ValidCommands \cup {"EOF_REACHED", "CONFIG_AUTO_READ_MODE"}

InOrder == BlReq /\ ~unanswered /\ stage \notin {"PROBE", "success", "fail"} /\ ~FailedUpgrade

DialogueInv ==
  /\ InOrder => IF pc \in Written THEN Own ELSE Clean
  /\ unanswered \/ FailedUpgrade => /\ regin \in MayRemain /\ dev_cmd \in MayRemain /\ regout.cmd \in MayRemain
                                    /\ pc \in Waiting => answer.cmd \in MayRemain
  /\ ~BlReq => regin = None /\ dev_cmd \in {None, "BOOT"}
  /\ pc \in {"regin", "regin_check"} => answer = NoAnswer
  /\ stage = "success" /\ BlReq /\ ~unanswered =>
       /\ regin \in StartCommands \cup {None} /\ dev_cmd \in StartCommands \cup {None}
       /\ flashing => ~Pending(StartCommands)
  /\ Pending(StartCommands) \/ running = "flash" => stage = "success"

(***************************************************************************)
(* What is known of flash and RAM where they are about to be started.       *)
(***************************************************************************)
Seen(resp) == regout.resp = resp \/ (pc \in Waiting /\ answer.resp = resp)

\* Here the host starts the image in flash, or takes it to be good.
Trusts ==
  \/ Pending({"LOAD_HOSTED_FW"}) \/ running = "flash" \/ stage = "LOAD_IMAGE"
  \/ stage = "POLLING_MODE" /\ fw_load_mode = "FULL_FLASH_SBL"
  \/ stage = "CHECK_CRC" /\ Seen("CMD_PASS")
  \/ stage = "EOF_REACHED" /\ Seen("FW_LOADING_SUCCESSFUL")

StartInv ==
  /\ Pending({"JUMP_TO_ZERO_PC"}) \/ running = "ram" => ram
  /\ Trusts => flash = "good" \/ unanswered
  /\ stage = "success" => IF flashing /\ BlReq THEN flash = "good"
                          ELSE running # None \/ Pending(StartCommands)

(***************************************************************************)
(* The two buffers.  Chunk kk is written, validated, and then handed over.  *)
(***************************************************************************)
BeforeBurn == {"PROBE", "AUTO_READ", "CAPACITY", "RPS_IMAGE_HEADER", "CHECK_CRC", "POLLING_MODE",
               "LOAD_PMEMDATA", "TA_RESET", "JUMP_TO_ZERO", "CALIB_DATA", "BURN_BL", "GET_SBL",
               "FW_UPGRADE", "TESTS"}

UpgradeCommands == ValidCommands \cup BurnCommands \cup {"EOF_REACHED"}

Filled == MoreChunks(kk) /\ buf[Buffer(kk)] = ChunkUnits(kk)

BurnInv ==
  /\ burned \in Seq(Nat) /\ buf \in [{"PING", "PONG"} -> Seq(Nat)]
  /\ stage \in BeforeBurn \/ unanswered \/ ~BlReq \/ Pending(BurnCommands) => kk = 0 /\ Handed(kk)
  /\ stage = "WRITE_CHUNK" => MoreChunks(kk)
  /\ stage = "VALID" \/ Pending(ValidCommands) => Filled
  /\ stage \in {"WRITE_CHUNK", "EOF_REACHED"} \/ (stage = "VALID" /\ pc \notin Written) => Handed(kk)
  /\ Pending(ValidCommands) => Handed(kk) /\ regin \notin ValidCommands \ {Cmd("VALID")}
                               /\ dev_cmd \notin ValidCommands \ {Cmd("VALID")}
  /\ ~(regin \in UpgradeCommands /\ dev_cmd \in UpgradeCommands)
  /\ stage = "VALID" /\ Seen(Expected("VALID")) => Handed(kk + 1)
  /\ stage = "EOF_REACHED" \/ Pending({"EOF_REACHED"}) => End(kk) = size /\ Handed(kk)
  /\ Handed(kk) \/ (MoreChunks(kk) /\ Handed(kk + 1))

IInv ==
  /\ TypeOK
  /\ TimerInv
  /\ RegisterInv
  /\ PathInv
  /\ ProbeInv
  /\ DialogueInv
  /\ StartInv
  /\ BurnInv

-----------------------------------------------------------------------------
(***************************************************************************)
(* A step of bl_cmd ends a wait, writes the command, has its answer         *)
(* accepted, or fails.                                                      *)
(***************************************************************************)
CommandFrame == <<paramVars, status, devVars, imageVars>>

Failing(resp) ==
  /\ pc \in Waiting /\ CommandFails(resp)
  /\ resp = None \/ (pc = "invalidate" /\ resp = answer.resp)
  /\ regout' = regout \/ regout' = NoAnswer
  /\ UNCHANGED <<kk, answer, regin, CommandFrame>>

Moving ==
  /\ \/ pc = "regin" /\ pc' = "regin_check" /\ answer' = answer
     \/ pc = "regout" /\ pc' = "regout_check" /\ (answer' = answer \/ answer' = regout)
     \/ pc = "regout_check" /\ pc' = "invalidate" /\ answer' = answer
  /\ UNCHANGED <<stage, unanswered, kk, regin, regout, CommandFrame>>

Writing ==
  /\ pc = "regin_check" /\ pc' = "regout"
  /\ regin' = Cmd(stage) /\ Cmd(stage) \notin StartCommands
  /\ UNCHANGED <<stage, unanswered, kk, answer, regout, CommandFrame>>

Starting ==
  /\ pc = "regin_check" /\ CommandSucceeds
  /\ regin' = Cmd(stage) /\ Cmd(stage) \in StartCommands
  /\ UNCHANGED <<kk, answer, regout, CommandFrame>>

Accepting ==
  /\ pc = "invalidate" /\ answer.resp = Expected(stage) /\ CommandSucceeds
  /\ regout' = NoAnswer
  /\ kk' = IF stage = "VALID" THEN kk + 1 ELSE kk
  /\ UNCHANGED <<answer, regin, CommandFrame>>

\* The steps of bl_cmd and bl_write_cmd are of these kinds.
LEMMA CommandSteps ==
  ASSUME PollRegin \/ WriteRegin \/ PollRegout \/ RegoutCheck \/ CompareAnswer
  PROVE  (\E resp : Failing(resp)) \/ Moving \/ Writing \/ Starting \/ Accepting
<1>1. CASE PollRegin
  BY <1>1 DEF PollRegin, Failing, Moving, CommandFrame, Waiting
<1>2. CASE WriteRegin
  BY <1>2 DEF WriteRegin, Failing, Writing, Starting, CommandFrame, Waiting
<1>3. CASE PollRegout
  BY <1>3 DEF PollRegout, Failing, Moving, CommandFrame, Waiting
<1>4. CASE RegoutCheck
  BY <1>4 DEF RegoutCheck, Failing, Moving, CommandFrame, Waiting
<1>5. CASE CompareAnswer
  BY <1>5 DEF CompareAnswer, Invalidate, Failing, Accepting, CommandFrame, Waiting
<1> QED
  BY <1>1, <1>2, <1>3, <1>4, <1>5

\* Command and answer of a stage depend on the stage and the chunk.
LEMMA SameCommand ==
  ASSUME UNCHANGED <<stage, kk>>
  PROVE  /\ Cmd(stage)' = Cmd(stage) /\ Expected(stage)' = Expected(stage)
         /\ Cmd("VALID")' = Cmd("VALID") /\ Expected("VALID")' = Expected("VALID")
BY DEF Cmd, Expected, Buffer

\* The commands of the stages.
LEMMA StageCommand ==
  ASSUME stage \in DOMAIN Commands
  PROVE  /\ Cmd(stage) \in HostCommands
         /\ Cmd(stage) \in StartCommands <=> stage \in {"LOAD_IMAGE", "JUMP_TO_ZERO"}
         /\ Cmd(stage) \in BurnCommands <=> stage \in {"BURN_BL", "FW_UPGRADE"}
         /\ Cmd(stage) \in ValidCommands <=> stage = "VALID"
         /\ Cmd(stage) = "EOF_REACHED" <=> stage = "EOF_REACHED"
         /\ Cmd(stage) = "CHECK_CRC" <=> stage = "CHECK_CRC"
         /\ Cmd(stage) = "POLLING_MODE" <=> stage = "POLLING_MODE"
         /\ Cmd(stage) = "LOAD_HOSTED_FW" <=> stage = "LOAD_IMAGE"
         /\ Cmd(stage) = "JUMP_TO_ZERO_PC" <=> stage = "JUMP_TO_ZERO"
         /\ Cmd(stage) = "CONFIG_AUTO_READ_MODE" <=> stage \in {"AUTO_READ", "AUTO_READ_MODE"}
         /\ stage \notin {"LOAD_IMAGE", "JUMP_TO_ZERO"} => Expected(stage) = AnswerOf(Cmd(stage))
BY CommandStages DEF Cmd, Commands, Expected, HostCommands, StartCommands, BurnCommands, ValidCommands,
                     OtherCommands, AnswerOf

Stages == DOMAIN Commands \cup
  {"PROBE", "CAPACITY", "RPS_IMAGE_HEADER", "LOAD_PMEMDATA", "TA_RESET", "CALIB_DATA", "GET_SBL",
   "TESTS", "WRITE_CHUNK", "VERIFY", "success", "fail"}

\* Stages lead to stages.
LEMMA NextStage ==
  ASSUME stage \in Stages, NEW resp
  PROVE  OnSuccess(stage) \in Stages /\ OnFailure(stage, resp) \in Stages
BY CommandStages DEF Stages, OnSuccess, OnFailure, AfterAutoReadMode

(***************************************************************************)
(* An accepted answer is the answer to the command, and nothing else is     *)
(* under way, unless the check of the image was given up.                   *)
(***************************************************************************)
LEMMA AcceptedAnswer ==
  ASSUME IInv, pc = "invalidate", answer.resp = Expected(stage), ~unanswered
  PROVE  /\ stage \in DOMAIN Commands /\ BlReq /\ answer.cmd = Cmd(stage)
         /\ ~FailedUpgrade => regin = None /\ dev_cmd = None /\ regout = answer
<1>1. /\ stage \in DOMAIN Commands \ {"LOAD_IMAGE", "JUMP_TO_ZERO"} /\ BlReq
      /\ Expected(stage) = AnswerOf(Cmd(stage)) /\ Cmd(stage) \in HostCommands \ StartCommands
  BY CommandStages, StageCommand DEF IInv, TimerInv, PathInv, Waiting, Written
<1>2. answer.cmd \notin {None, "BOOT"} /\ answer.resp = AnswerOf(answer.cmd)
  BY <1>1 DEF IInv, RegisterInv, IsAnswer, NoAnswer, None, AnswerOf, HostCommands, StartCommands,
              BurnCommands, ValidCommands, OtherCommands
<1>3. CASE FailedUpgrade
  BY <1>1, <1>2, <1>3, StageCommand
     DEF IInv, DialogueInv, FailedUpgrade, MayRemain, Waiting, AnswerOf, ValidCommands, BurnCommands, None
<1>4. CASE ~FailedUpgrade
  <2>1. Own
    BY <1>1, <1>4, CommandStages DEF IInv, DialogueInv, InOrder, Written
  <2>2. ~Refusal(answer)
    BY <1>1 DEF Refusal, AnswerOf
  <2> QED
    BY <1>1, <1>2, <2>1, <2>2 DEF Own
<1> QED
  BY <1>1, <1>3, <1>4

(***************************************************************************)
(* The device answers the command it has in work: the one the host waits    *)
(* for, or one that was given up.                                           *)
(***************************************************************************)
LEMMA DeviceAnswers ==
  ASSUME IInv, NEW r, regout' = [cmd |-> dev_cmd, resp |-> r], dev_cmd' = None,
         dev_cmd \notin StartCommands \cup {None}, UNCHANGED <<paramVars, hostVars, regin, imageVars>>
  PROVE  DialogueInv'
<1>1. /\ UNCHANGED <<stage, pc, kk, answer, unanswered, flashing, regin, running>> /\ BlReq' = BlReq
      /\ Cmd(stage)' = Cmd(stage) /\ regout'.cmd = dev_cmd
  BY SameCommand DEF paramVars, hostVars, imageVars, BlReq
<1>2. ASSUME InOrder PROVE pc \in Written /\ Own'
  <2>1. pc \in Written /\ Own
    BY <1>2 DEF IInv, DialogueInv, Clean
  <2>2. dev_cmd = Cmd(stage) /\ regin = None /\ answer.cmd # Cmd(stage)
    BY <2>1 DEF Own
  <2> QED
    BY <1>1, <2>1, <2>2 DEF Own, Refusal
<1>3. InOrder' = InOrder /\ FailedUpgrade' = FailedUpgrade /\ MayRemain' = MayRemain
  BY <1>1 DEF InOrder, FailedUpgrade, MayRemain
<1>4. InOrder' => IF pc' \in Written THEN Own' ELSE Clean'
  BY <1>1, <1>2, <1>3
<1>5. Pending(StartCommands)' => Pending(StartCommands)
  BY <1>1 DEF Pending, StartCommands, None
<1>6. dev_cmd' \in MayRemain' /\ (unanswered \/ FailedUpgrade => regout'.cmd \in MayRemain')
  BY <1>1, <1>3 DEF IInv, DialogueInv, MayRemain
<1> QED
  BY <1>1, <1>3, <1>4, <1>5, <1>6 DEF IInv, DialogueInv

(***************************************************************************)
(* What the device may be working on.                                       *)
(***************************************************************************)
LEMMA DeviceWorksOn ==
  ASSUME IInv, dev_cmd \notin StartCommands \cup {None}
  PROVE  \/ stage \in {"PROBE", "LOAD_PMEMDATA", "TA_RESET", "success"} /\ dev_cmd = "BOOT"
         \/ stage = "fail"
         \/ unanswered /\ dev_cmd \in {"CHECK_CRC", "POLLING_MODE"}
         \/ FailedUpgrade /\ dev_cmd \in ValidCommands \cup {"EOF_REACHED", "CONFIG_AUTO_READ_MODE"}
         \/ stage \in DOMAIN Commands /\ pc \in Written /\ InOrder /\ dev_cmd = Cmd(stage)
<1>1. CASE unanswered
  BY <1>1 DEF IInv, DialogueInv, MayRemain
<1>2. CASE ~unanswered /\ BlReq /\ stage \notin {"PROBE", "success", "fail"}
  <2>1. CASE FailedUpgrade
    BY <1>2, <2>1 DEF IInv, DialogueInv, MayRemain
  <2>2. CASE ~FailedUpgrade
    <3>1. InOrder /\ Own /\ pc \in Written
      BY <1>2, <2>2 DEF InOrder, IInv, DialogueInv, Clean
    <3> QED
      BY <3>1 DEF Own, IInv, TimerInv, Written, Waiting
  <2> QED
    BY <2>1, <2>2
<1>3. CASE ~unanswered /\ ~BlReq
  BY <1>3 DEF IInv, DialogueInv, TimerInv
<1>4. CASE ~unanswered /\ BlReq /\ stage \in {"PROBE", "success", "fail"}
  BY <1>4 DEF IInv, DialogueInv, ProbeInv
<1> QED
  BY <1>1, <1>2, <1>3, <1>4

(***************************************************************************)
(* EOF_REACHED finds the whole image burned.                                *)
(***************************************************************************)
LEMMA EofFindsImage ==
  ASSUME IInv, dev_cmd = "EOF_REACHED", burning = None
  PROVE  burned = Image
<1>1. End(kk) = size /\ Handed(kk)
  BY DEF IInv, BurnInv, Pending
<1>2. BurnedTo(kk)
  BY <1>1 DEF Handed, Buffer, None
<1> QED
  BY <1>1, <1>2, BurnedAll DEF IInv, TypeOK, BurnInv

\* What BurnInv says is about the chunk and its buffer ...
LEMMA SameChunk ==
  ASSUME UNCHANGED <<size, kk, buf>>
  PROVE  /\ MoreChunks(kk)' <=> MoreChunks(kk)
         /\ Filled' <=> Filled
         /\ End(kk)' = End(kk)
         /\ Cmd("VALID")' = Cmd("VALID") /\ Expected("VALID")' = Expected("VALID")
BY DEF MoreChunks, Filled, ChunkUnits, ChunkSize, num_flash, End, Cmd, Expected, Buffer

\* ... and about what is burned.
LEMMA SameBurn ==
  ASSUME UNCHANGED <<size, kk, buf, burned, burning>>
  PROVE  (Handed(kk)' <=> Handed(kk)) /\ (Handed(kk + 1)' <=> Handed(kk + 1))
BY DEF Handed, BurnedTo, End, ChunkUnits, ChunkSize, num_flash, Buffer

(***************************************************************************)
(* Burning the buffer does not change how many chunks are handed over.      *)
(***************************************************************************)
LEMMA HandedBurn ==
  ASSUME IInv, DevBurn, NEW k \in Nat, k <= num_flash + 1, Handed(k)
  PROVE  Handed(k)' /\ burned' \in Seq(Nat)
<1>1. burning # None /\ num_flash \in Int
  BY BootAssumption DEF DevBurn, num_flash, IInv, TypeOK
<1>2. k \in 1 .. num_flash + 1
  BY <1>1 DEF Handed
<1> QED
  BY <1>1, <1>2, BurnStep DEF Handed, IInv, TypeOK, BurnInv

(***************************************************************************)
(* Only commands are written into REGIN, and only answers into REGOUT.     *)
(***************************************************************************)
LEMMA RegisterStep == IInv /\ [Next]_vars => RegisterInv'
<1> SUFFICES ASSUME IInv, [Next]_vars PROVE RegisterInv'
  OBVIOUS
<1>1. CASE device_init
  BY <1>1 DEF device_init, bl_cmd_start_timer, IInv, RegisterInv, paramVars, hostVars, timerVars,
     devVars, imageVars
<1>2. CASE Probe
  BY <1>2 DEF Probe, Return, IInv, RegisterInv, paramVars, hostVars, timerVars, devVars, imageVars
<1>3. CASE ProbeCheck
  BY <1>3 DEF ProbeCheck, Return, bl_cmd_stop_timer, IInv, RegisterInv, paramVars, hostVars,
     timerVars, devVars, imageVars
<1>4. CASE ProbeClear
  BY <1>4 DEF ProbeClear, Return, Goto, IsAnswer, IInv, RegisterInv, paramVars, hostVars, timerVars,
     devVars, imageVars
<1>5. CASE Transfer
  BY <1>5 DEF Transfer, Succeed, Fail, Goto, IInv, RegisterInv, paramVars, hostVars, timerVars,
     devVars, imageVars
<1>6. CASE bl_cmd
  BY <1>6 DEF bl_cmd, bl_cmd_start_timer, IsAnswer, IInv, RegisterInv, paramVars, hostVars,
     timerVars, devVars, imageVars
<1>7. ASSUME NEW resp, Failing(resp) PROVE RegisterInv'
  BY <1>7 DEF Failing, CommandFails, Fail, Goto, CommandFrame, IsAnswer, IInv, RegisterInv,
     paramVars, hostVars, timerVars, devVars, imageVars
<1>8. CASE Moving
  BY <1>8 DEF Moving, CommandFrame, IInv, RegisterInv, paramVars, hostVars, timerVars, devVars,
     imageVars
<1>9. CASE Writing
  BY <1>9, StageCommand, CommandStages DEF Writing, CommandFrame, TimerInv, Waiting, IInv,
     RegisterInv, paramVars, hostVars, timerVars, devVars, imageVars
<1>10. CASE Starting
  BY <1>10, StageCommand DEF Starting, CommandSucceeds, Succeed, Goto, CommandFrame, TimerInv,
     Waiting, IInv, RegisterInv, paramVars, hostVars, timerVars, devVars, imageVars
<1>11. CASE Accepting
  BY <1>11 DEF Accepting, CommandSucceeds, Succeed, Goto, CommandFrame, IsAnswer, IInv, RegisterInv,
     paramVars, hostVars, timerVars, devVars, imageVars
<1>12. CASE load_fw_ends
  BY <1>12 DEF load_fw_ends, Return, IInv, RegisterInv, paramVars, hostVars, timerVars, devVars,
     imageVars
<1>13. CASE TimerFires \/ bl_cmd_timer_expired \/ UNCHANGED vars
  BY <1>13 DEF TimerFires, bl_cmd_timer_expired, vars, IInv, RegisterInv, paramVars, hostVars,
     timerVars, devVars, imageVars
<1>14. CASE DevTake
  BY <1>14 DEF DevTake, IInv, RegisterInv, paramVars, hostVars, timerVars, devVars, imageVars
<1>15. CASE DevWork
  <2>1. DevAnswer(dev_cmd) \in {AnswerOf(dev_cmd), "CMD_FAIL"}
    BY DEF DevAnswer, AnswerOf, BurnCommands
  <2>2. IsAnswer(regout')
    BY <1>15, <2>1 DEF DevWork, IsAnswer, IInv, RegisterInv, HostCommands
  <2> QED
    BY <1>15, <2>2 DEF DevWork, IInv, RegisterInv, hostVars
<1>16. CASE DevRefuse
  BY <1>16 DEF DevRefuse, IsAnswer, HostCommands, IInv, RegisterInv, paramVars, hostVars, timerVars,
     devVars, imageVars
<1>17. CASE DevBurn
  BY <1>17 DEF DevBurn, IInv, RegisterInv, paramVars, hostVars, timerVars, devVars, imageVars
<1>18. CASE DevStart
  BY <1>18 DEF DevStart, IInv, RegisterInv, paramVars, hostVars, timerVars, devVars, imageVars
<1> QED
  BY <1>1, <1>2, <1>3, <1>4, <1>5, <1>6, <1>7, <1>8, <1>9, <1>10, <1>11, <1>12, <1>13, <1>14, <1>15,
     <1>16, <1>17, <1>18, CommandSteps DEF Next, HostStep

(***************************************************************************)
(* The stages follow one another as the mode and the purpose of the load   *)
(* demand.                                                                 *)
(***************************************************************************)
LEMMA PathStep == IInv /\ [Next]_vars => PathInv'
<1> SUFFICES ASSUME IInv, [Next]_vars PROVE PathInv'
  OBVIOUS
<1>1. CASE device_init
  BY <1>1 DEF device_init, bl_cmd_start_timer, TimerInv, AfterGivenUp, IInv, PathInv, BlReq,
     Waiting, Written, paramVars, hostVars, timerVars, devVars, imageVars
<1>2. CASE Probe
  BY <1>2 DEF Probe, Return, TimerInv, AfterGivenUp, IInv, PathInv, BlReq, Waiting, Written,
     paramVars, hostVars, timerVars, devVars, imageVars
<1>3. CASE ProbeCheck
  BY <1>3 DEF ProbeCheck, Return, bl_cmd_stop_timer, TimerInv, AfterGivenUp, IInv, PathInv, BlReq,
     Waiting, Written, paramVars, hostVars, timerVars, devVars, imageVars
<1>4. CASE ProbeClear
  BY <1>4 DEF ProbeClear, Return, Goto, TimerInv, AfterGivenUp, IInv, PathInv, BlReq, Waiting,
     Written, paramVars, hostVars, timerVars, devVars, imageVars
<1>5. CASE Transfer
  <2>1. /\ stage \notin {"PROBE", "CHECK_CRC", "POLLING_MODE", "LOAD_IMAGE", "JUMP_TO_ZERO", "success"}
        /\ pc' = "begin" /\ UNCHANGED <<fw_load_mode, flashing, status>> /\ BlReq' = BlReq
    BY <1>5, CommandStages DEF Transfer, Succeed, Fail, Goto, IInv, TimerInv, paramVars, BlReq
  <2>2. CASE Succeed /\ ram' = (ram \/ stage = "LOAD_PMEMDATA")
    <3>1. ram \/ stage = "LOAD_PMEMDATA" => ram'
      BY <2>2
    <3>2. stage' = OnSuccess(stage) /\ unanswered' = unanswered
      BY <2>2 DEF Succeed, Goto
    <3> QED
      BY <2>1, <3>1, <3>2, CommandStages
         DEF OnSuccess, AfterAutoReadMode, IInv, TimerInv, PathInv, AfterGivenUp, Waiting, Written, BlReq
  <2>3. CASE Fail(None) /\ UNCHANGED imageVars
    <3>1. stage' = OnFailure(stage, None) /\ (unanswered' => unanswered) /\ UNCHANGED ram
      BY <2>1, <2>3 DEF Fail, Goto, imageVars
    <3> QED
      BY <2>1, <3>1, CommandStages DEF OnFailure, IInv, TimerInv, PathInv, AfterGivenUp, Waiting, Written, BlReq
  <2> QED
    BY <1>5, <2>2, <2>3 DEF Transfer
<1>6. CASE bl_cmd
  BY <1>6 DEF bl_cmd, bl_cmd_start_timer, IInv, PathInv, BlReq, Waiting, Written, paramVars,
     hostVars, timerVars, devVars, imageVars
<1>7. ASSUME NEW resp, Failing(resp) PROVE PathInv'
  BY <1>7, CommandStages DEF Failing, CommandFails, Fail, Goto, CommandFrame, TimerInv,
     AfterGivenUp, OnFailure, IInv, PathInv, BlReq, Waiting, Written, paramVars, hostVars, timerVars,
     devVars, imageVars
<1>8. CASE Moving
  BY <1>8 DEF Moving, CommandFrame, IInv, PathInv, BlReq, Waiting, Written, paramVars, hostVars,
     timerVars, devVars, imageVars
<1>9. CASE Writing
  BY <1>9, StageCommand DEF Writing, CommandFrame, TimerInv, IInv, PathInv, BlReq, Waiting, Written,
     paramVars, hostVars, timerVars, devVars, imageVars
<1>10. CASE Starting
  BY <1>10, CommandStages, StageCommand DEF Starting, CommandSucceeds, Succeed, Goto, CommandFrame,
     TimerInv, AfterGivenUp, OnSuccess, IInv, PathInv, BlReq, Waiting, Written, paramVars, hostVars,
     timerVars, devVars, imageVars
<1>11. CASE Accepting
  BY <1>11, CommandStages DEF Accepting, CommandSucceeds, Succeed, Goto, CommandFrame, TimerInv,
     AfterGivenUp, OnSuccess, AfterAutoReadMode, IInv, PathInv, BlReq, Waiting, Written, paramVars,
     hostVars, timerVars, devVars, imageVars
<1>12. CASE load_fw_ends
  BY <1>12 DEF load_fw_ends, Return, AfterGivenUp, IInv, PathInv, BlReq, Waiting, Written,
     paramVars, hostVars, timerVars, devVars, imageVars
<1>13. CASE TimerFires \/ bl_cmd_timer_expired \/ UNCHANGED vars
  BY <1>13 DEF TimerFires, bl_cmd_timer_expired, vars, IInv, PathInv, BlReq, Waiting, Written,
     paramVars, hostVars, timerVars, devVars, imageVars
<1>14. CASE DevTake
  BY <1>14 DEF DevTake, IInv, PathInv, BlReq, Waiting, Written, paramVars, hostVars, timerVars,
     devVars, imageVars
<1>15. CASE DevWork
  BY <1>15 DEF DevWork, IInv, PathInv, BlReq, Waiting, Written, paramVars, hostVars, timerVars,
     devVars, imageVars
<1>16. CASE DevRefuse
  BY <1>16 DEF DevRefuse, IInv, PathInv, BlReq, Waiting, Written, paramVars, hostVars, timerVars,
     devVars, imageVars
<1>17. CASE DevBurn
  BY <1>17 DEF DevBurn, IInv, PathInv, BlReq, Waiting, Written, paramVars, hostVars, timerVars,
     devVars, imageVars
<1>18. CASE DevStart
  BY <1>18 DEF DevStart, IInv, PathInv, BlReq, Waiting, Written, paramVars, hostVars, timerVars,
     devVars, imageVars
<1> QED
  BY <1>1, <1>2, <1>3, <1>4, <1>5, <1>6, <1>7, <1>8, <1>9, <1>10, <1>11, <1>12, <1>13, <1>14, <1>15,
     <1>16, <1>17, <1>18, CommandSteps DEF Next, HostStep

(***************************************************************************)
(* In the probe the boot loader announces itself, once.                    *)
(***************************************************************************)
LEMMA ProbeStep == IInv /\ [Next]_vars => ProbeInv'
<1> SUFFICES ASSUME IInv, [Next]_vars PROVE ProbeInv'
  OBVIOUS
<1>1. CASE device_init
  BY <1>1 DEF device_init, bl_cmd_start_timer, IInv, TimerInv, ProbeInv, BlReq, Waiting, paramVars,
     hostVars, timerVars, devVars, imageVars
<1>2. CASE Probe
  BY <1>2 DEF Probe, Return, RegisterInv, IsAnswer, NoAnswer, None, IInv, TimerInv, ProbeInv, BlReq,
     Waiting, paramVars, hostVars, timerVars, devVars, imageVars
<1>3. CASE ProbeCheck
  BY <1>3 DEF ProbeCheck, Return, bl_cmd_stop_timer, IInv, TimerInv, ProbeInv, BlReq, Waiting,
     paramVars, hostVars, timerVars, devVars, imageVars
<1>4. CASE ProbeClear
  BY <1>4 DEF ProbeClear, Return, Goto, PathInv, IInv, TimerInv, ProbeInv, BlReq, Waiting,
     paramVars, hostVars, timerVars, devVars, imageVars
<1>5. CASE Transfer
  <2>1. stage # "PROBE" /\ (stage' = OnSuccess(stage) \/ stage' = OnFailure(stage, None))
    BY <1>5 DEF Transfer, Succeed, Fail, Goto, IInv, TimerInv
  <2> QED
    BY <2>1, SuccessStage, FailureStage DEF IInv, TimerInv, ProbeInv
<1>6. CASE bl_cmd
  BY <1>6, CommandStages DEF bl_cmd, bl_cmd_start_timer, IInv, TimerInv, ProbeInv, BlReq, Waiting,
     paramVars, hostVars, timerVars, devVars, imageVars
<1>7. ASSUME NEW resp, Failing(resp) PROVE ProbeInv'
  <2>1. stage # "PROBE" /\ stage' = OnFailure(stage, resp)
    BY <1>7, CommandStages DEF Failing, CommandFails, Fail, Goto, IInv, TimerInv
  <2> QED
    BY <2>1, FailureStage DEF IInv, TimerInv, ProbeInv
<1>8. CASE Moving
  BY <1>8, CommandStages DEF Moving, CommandFrame, IInv, TimerInv, ProbeInv, BlReq, Waiting,
     paramVars, hostVars, timerVars, devVars, imageVars
<1>9. CASE Writing
  BY <1>9, CommandStages DEF Writing, CommandFrame, IInv, TimerInv, ProbeInv, BlReq, Waiting,
     paramVars, hostVars, timerVars, devVars, imageVars
<1>10. CASE Starting
  <2>1. stage # "PROBE" /\ stage' = OnSuccess(stage)
    BY <1>10, CommandStages DEF Starting, CommandSucceeds, Succeed, Goto, IInv, TimerInv, Waiting
  <2> QED
    BY <2>1, SuccessStage DEF IInv, TimerInv, ProbeInv
<1>11. CASE Accepting
  <2>1. stage # "PROBE" /\ stage' = OnSuccess(stage)
    BY <1>11, CommandStages DEF Accepting, CommandSucceeds, Succeed, Goto, IInv, TimerInv, Waiting
  <2> QED
    BY <2>1, SuccessStage DEF IInv, TimerInv, ProbeInv
<1>12. CASE load_fw_ends
  BY <1>12 DEF load_fw_ends, Return, IInv, TimerInv, ProbeInv, BlReq, Waiting, paramVars, hostVars,
     timerVars, devVars, imageVars
<1>13. CASE TimerFires \/ bl_cmd_timer_expired \/ UNCHANGED vars
  BY <1>13 DEF TimerFires, bl_cmd_timer_expired, vars, IInv, TimerInv, ProbeInv, BlReq, Waiting,
     paramVars, hostVars, timerVars, devVars, imageVars
<1>14. CASE DevTake
  BY <1>14 DEF DevTake, NoAnswer, None, IInv, TimerInv, ProbeInv, BlReq, Waiting, paramVars,
     hostVars, timerVars, devVars, imageVars
<1>15. CASE DevWork
  BY <1>15 DEF DevWork, DevAnswer, NoAnswer, None, IInv, TimerInv, ProbeInv, BlReq, Waiting,
     paramVars, hostVars, timerVars, devVars, imageVars
<1>16. CASE DevRefuse
  BY <1>16 DEF DevRefuse, None, StartCommands, IInv, TimerInv, ProbeInv, BlReq, Waiting, paramVars,
     hostVars, timerVars, devVars, imageVars
<1>17. CASE DevBurn
  BY <1>17 DEF DevBurn, IInv, TimerInv, ProbeInv, BlReq, Waiting, paramVars, hostVars, timerVars,
     devVars, imageVars
<1>18. CASE DevStart
  BY <1>18 DEF DevStart, None, StartCommands, IInv, TimerInv, ProbeInv, BlReq, Waiting, paramVars,
     hostVars, timerVars, devVars, imageVars
<1> QED
  BY <1>1, <1>2, <1>3, <1>4, <1>5, <1>6, <1>7, <1>8, <1>9, <1>10, <1>11, <1>12, <1>13, <1>14, <1>15,
     <1>16, <1>17, <1>18, CommandSteps DEF Next, HostStep

(***************************************************************************)
(* One command is under way at a time; what was given up can only be       *)
(* followed by what cannot be mistaken for its answer.                     *)
(***************************************************************************)
LEMMA DialogueStep == IInv /\ [Next]_vars => DialogueInv'
<1> SUFFICES ASSUME IInv, [Next]_vars PROVE DialogueInv'
  OBVIOUS
<1>1. CASE device_init
  BY <1>1 DEF device_init, bl_cmd_start_timer, ProbeInv, IInv, TimerInv, DialogueInv, InOrder,
     FailedUpgrade, Clean, Own, Refusal, MayRemain, Pending, BlReq, Waiting, Written, paramVars,
     hostVars, timerVars, devVars, imageVars
<1>2. CASE Probe
  BY <1>2 DEF Probe, Return, ProbeInv, IInv, TimerInv, DialogueInv, InOrder, FailedUpgrade, Clean,
     Own, Refusal, MayRemain, Pending, BlReq, Waiting, Written, paramVars, hostVars, timerVars,
     devVars, imageVars
<1>3. CASE ProbeCheck
  BY <1>3 DEF ProbeCheck, Return, bl_cmd_stop_timer, ProbeInv, IInv, TimerInv, DialogueInv, InOrder,
     FailedUpgrade, Clean, Own, Refusal, MayRemain, Pending, BlReq, Waiting, Written, paramVars,
     hostVars, timerVars, devVars, imageVars
<1>4. CASE ProbeClear
  BY <1>4 DEF ProbeClear, Return, Goto, ProbeInv, PathInv, RegisterInv, IsAnswer, StartCommands,
     None, NoAnswer, IInv, TimerInv, DialogueInv, InOrder, FailedUpgrade, Clean, Own, Refusal,
     MayRemain, Pending, BlReq, Waiting, Written, paramVars, hostVars, timerVars, devVars, imageVars
<1>5. CASE Transfer
  <2>1. /\ stage \notin {"PROBE", "CHECK_CRC", "FW_UPGRADE", "POLLING_MODE", "VALID", "EOF_REACHED", "AUTO_READ_MODE",
                         "success", "fail"}
        /\ pc = "begin" /\ pc' = "begin" /\ BlReq' = BlReq
        /\ UNCHANGED <<flashing, regin, dev_cmd, regout>>
    BY <1>5, CommandStages DEF Transfer, Succeed, Fail, Goto, IInv, TimerInv, paramVars, devVars, BlReq
  <2>2. /\ stage' = OnSuccess(stage) \/ stage' = OnFailure(stage, None)
        /\ unanswered' = unanswered
    BY <1>5, <2>1 DEF Transfer, Succeed, Fail, Goto, IInv, TypeOK
  <2>3. stage' \notin {"PROBE", "FW_UPGRADE"}
    BY <2>1, <2>2, CommandStages DEF OnSuccess, OnFailure, AfterAutoReadMode, IInv, TypeOK
  <2>4. BlReq /\ ~unanswered => Clean /\ regout = NoAnswer
    BY <2>1 DEF IInv, DialogueInv, InOrder, FailedUpgrade, Clean, Refusal, Written
  <2>5. running' = running \/ (stage = "TA_RESET" /\ running' = "ram")
    BY <1>5 DEF Transfer, imageVars
  <2>6. ~Pending(StartCommands) /\ running # "flash"
    BY <2>1 DEF IInv, DialogueInv
  <2>7. Pending(StartCommands)' = Pending(StartCommands)
    BY <2>1 DEF Pending
  <2>8. unanswered' => regin \in MayRemain' /\ dev_cmd \in MayRemain' /\ regout.cmd \in MayRemain'
    BY <2>1, <2>2 DEF IInv, DialogueInv, MayRemain
  <2>9. FailedUpgrade' /\ ~unanswered' => BlReq
    BY <2>1, <2>2, CommandStages DEF FailedUpgrade, OnSuccess, OnFailure, IInv, TimerInv
  <2>10. FailedUpgrade' /\ ~unanswered' => regin \in MayRemain' /\ dev_cmd \in MayRemain' /\ regout'.cmd \in MayRemain'
    BY <2>1, <2>2, <2>4, <2>9 DEF Clean, MayRemain, NoAnswer
  <2>11. InOrder' => Clean'
    BY <2>1, <2>2, <2>4 DEF InOrder, Clean
  <2> QED
    BY <2>1, <2>2, <2>4, <2>5, <2>6, <2>7, <2>8, <2>10, <2>11
       DEF IInv, DialogueInv, Clean, StartCommands, Waiting, Written
<1>6. CASE bl_cmd
  BY <1>6, CommandStages DEF bl_cmd, bl_cmd_start_timer, PathInv, NoAnswer, IInv, TimerInv,
     DialogueInv, InOrder, FailedUpgrade, Clean, Own, Refusal, MayRemain, Pending, BlReq, Waiting,
     Written, paramVars, hostVars, timerVars, devVars, imageVars
<1>7. ASSUME NEW resp, Failing(resp) PROVE DialogueInv'
  <2>1. /\ stage \in DOMAIN Commands /\ BlReq /\ BlReq' = BlReq /\ pc \in Waiting /\ pc' = "begin"
        /\ stage' = OnFailure(stage, resp)
        /\ unanswered' = (unanswered \/ (stage = "CHECK_CRC" /\ resp # "CMD_FAIL"))
        /\ UNCHANGED <<flashing, regin, dev_cmd, running>>
    BY <1>7, CommandStages
       DEF Failing, CommandFails, Fail, Goto, CommandFrame, IInv, TimerInv, paramVars, devVars, imageVars, BlReq
  <2>2. ~Pending(StartCommands) /\ running # "flash" /\ ~Pending(StartCommands)'
    BY <2>1, CommandStages DEF IInv, DialogueInv, Pending
  <2>3. stage' \in {"fail", "POLLING_MODE", "FW_UPGRADE", "AUTO_READ_MODE"}
    BY <2>1, CommandStages DEF OnFailure
  <2>4. CASE stage = "CHECK_CRC"
    <3>1. InOrder /\ Cmd(stage) = "CHECK_CRC" /\ ~unanswered
      BY <2>1, <2>4, StageCommand DEF InOrder, FailedUpgrade, IInv, PathInv, AfterGivenUp
    <3>2. CASE resp = "CMD_FAIL"
      <4>1. stage' = "FW_UPGRADE" /\ ~unanswered' /\ pc = "invalidate" /\ answer.resp = "CMD_FAIL"
        BY <1>7, <2>1, <2>4, <3>1, <3>2 DEF Failing, OnFailure, None
      <4>2. Own /\ answer.cmd = "CHECK_CRC"
        BY <2>4, <3>1, <4>1
           DEF IInv, DialogueInv, Own, Refusal, Written, RegisterInv, IsAnswer, NoAnswer, None, HostCommands,
               StartCommands, ValidCommands, BurnCommands, OtherCommands
      <4>3. regin = None /\ dev_cmd = None /\ regout = [cmd |-> "CHECK_CRC", resp |-> "CMD_FAIL"]
        BY <3>1, <4>1, <4>2
           DEF Own, IInv, RegisterInv, IsAnswer, NoAnswer, None
      <4>4. Clean'
        BY <1>7, <2>1, <4>1, <4>3 DEF Failing, Clean, Refusal
      <4> QED
        BY <2>1, <2>2, <4>1, <4>4 DEF IInv, DialogueInv, FailedUpgrade, Written, Waiting
    <3>3. CASE resp # "CMD_FAIL"
      <4>1. stage' = "POLLING_MODE" /\ unanswered'
        BY <2>1, <2>4, <3>3 DEF OnFailure
      <4>2. regin \in {None, "CHECK_CRC"} /\ dev_cmd \in {None, "CHECK_CRC"} /\ regout.cmd \in {None, "CHECK_CRC"}
        BY <2>4, <3>1 DEF IInv, DialogueInv, Own, Clean, Refusal, NoAnswer
      <4>3. regout'.cmd \in {None, "CHECK_CRC"}
        BY <1>7, <4>2 DEF Failing, NoAnswer
      <4> QED
        BY <2>1, <2>2, <4>1, <4>2, <4>3 DEF IInv, DialogueInv, InOrder, FailedUpgrade, MayRemain, Written, Waiting
    <3> QED
      BY <3>2, <3>3
  <2>5. CASE stage # "CHECK_CRC"
    <3>1. unanswered' = unanswered /\ stage' \in {"fail", "AUTO_READ_MODE"}
      BY <2>1, <2>5, CommandStages DEF OnFailure, IInv, TypeOK
    <3>2. CASE unanswered
      <4>1. regout.cmd \in MayRemain /\ regout'.cmd \in MayRemain /\ MayRemain' = MayRemain
        BY <1>7, <3>1, <3>2 DEF Failing, IInv, DialogueInv, MayRemain, NoAnswer
      <4> QED
        BY <2>1, <2>2, <3>1, <3>2, <4>1 DEF IInv, DialogueInv, InOrder, Written, Waiting
    <3>3. CASE ~unanswered /\ stage' = "AUTO_READ_MODE"
      <4>1. stage \in {"VALID", "EOF_REACHED"} /\ ~flashing /\ InOrder
        BY <2>1, <2>5, <3>3, CommandStages DEF OnFailure, InOrder, FailedUpgrade
      <4>2. Cmd(stage) \in ValidCommands \cup {"EOF_REACHED"}
        BY <2>1, <4>1, StageCommand
      <4>3. regin \in MayRemain' /\ dev_cmd \in MayRemain' /\ regout.cmd \in MayRemain'
        BY <2>1, <3>1, <3>3, <4>1, <4>2 DEF IInv, DialogueInv, Own, Clean, Refusal, NoAnswer, MayRemain
      <4>4. regout'.cmd \in MayRemain'
        BY <1>7, <4>3 DEF Failing, NoAnswer, MayRemain
      <4> QED
        BY <2>1, <2>2, <3>1, <3>3, <4>1, <4>3, <4>4 DEF IInv, DialogueInv, InOrder, FailedUpgrade, Written, Waiting
    <3>4. CASE ~unanswered /\ stage' = "fail"
      BY <2>1, <2>2, <3>1, <3>4 DEF IInv, DialogueInv, InOrder, FailedUpgrade, Written, Waiting
    <3> QED
      BY <3>1, <3>2, <3>3, <3>4
  <2> QED
    BY <2>4, <2>5
<1>8. CASE Moving
  BY <1>8, CommandStages, SameCommand DEF Moving, CommandFrame, RegisterInv, IInv, TimerInv,
     DialogueInv, InOrder, FailedUpgrade, Clean, Own, Refusal, MayRemain, Pending, BlReq, Waiting,
     Written, paramVars, hostVars, timerVars, devVars, imageVars
<1>9. CASE Writing
  <2>1. /\ stage \in DOMAIN Commands /\ BlReq /\ BlReq' = BlReq /\ pc = "regin_check" /\ pc' = "regout"
        /\ regin' = Cmd(stage) /\ Cmd(stage)' = Cmd(stage) /\ Cmd(stage) \notin StartCommands
        /\ UNCHANGED <<stage, unanswered, flashing, kk, answer, dev_cmd, regout, running>>
    BY <1>9, CommandStages, SameCommand
       DEF Writing, CommandFrame, IInv, TimerInv, Waiting, paramVars, devVars, imageVars, BlReq
  <2>2. InOrder' = InOrder /\ FailedUpgrade' = FailedUpgrade /\ MayRemain' = MayRemain /\ answer = NoAnswer
    BY <2>1 DEF InOrder, FailedUpgrade, MayRemain, IInv, DialogueInv
  <2>3. InOrder => Own'
    <3> SUFFICES ASSUME InOrder PROVE Own'
      OBVIOUS
    <3>1. Clean
      BY <2>1 DEF IInv, DialogueInv, Written
    <3>2. Cmd(stage) # None /\ (Refusal(regout) => Cmd(stage) # "CHECK_CRC")
      BY <2>1, StageCommand DEF Refusal, None, HostCommands, StartCommands, ValidCommands, BurnCommands, OtherCommands
    <3> QED
      BY <2>1, <2>2, <3>1, <3>2 DEF Own, Clean, Refusal, NoAnswer
  <2>4. unanswered \/ FailedUpgrade => Cmd(stage) \in MayRemain
    BY <2>1, CommandStages, StageCommand DEF FailedUpgrade, MayRemain, IInv, PathInv, AfterGivenUp
  <2> QED
    BY <2>1, <2>2, <2>3, <2>4, CommandStages DEF IInv, DialogueInv, Pending, Written, Waiting
<1>10. CASE Starting
  BY <1>10, CommandStages, StageCommand DEF Starting, CommandSucceeds, Succeed, Goto, CommandFrame,
     PathInv, OnSuccess, IInv, TimerInv, DialogueInv, InOrder, FailedUpgrade, Clean, Own, Refusal,
     MayRemain, Pending, BlReq, Waiting, Written, paramVars, hostVars, timerVars, devVars, imageVars
<1>11. CASE Accepting
  <2>1. /\ stage \in DOMAIN Commands \ {"LOAD_IMAGE", "JUMP_TO_ZERO"} /\ BlReq /\ BlReq' = BlReq /\ pc' = "begin"
        /\ stage' = OnSuccess(stage) /\ UNCHANGED <<unanswered, flashing, regin, dev_cmd, running>>
        /\ regout' = NoAnswer
    BY <1>11, CommandStages
       DEF Accepting, CommandSucceeds, Succeed, Goto, CommandFrame, IInv, TimerInv, PathInv, Waiting, Written,
           paramVars, devVars, imageVars, BlReq
  <2>2. ~Pending(StartCommands) /\ running # "flash" /\ ~Pending(StartCommands)'
    BY <2>1, CommandStages DEF IInv, DialogueInv, Pending
  <2>3. stage' \notin {"success", "PROBE"}
    BY <2>1, CommandStages DEF OnSuccess, AfterAutoReadMode
  <2>4. CASE unanswered
    BY <2>1, <2>2, <2>3, <2>4 DEF IInv, DialogueInv, InOrder, MayRemain, NoAnswer, Waiting
  <2>5. CASE ~unanswered /\ FailedUpgrade
    <3>1. stage' = "fail"
      BY <2>1, <2>5 DEF OnSuccess, AfterAutoReadMode, FailedUpgrade
    <3> QED
      BY <2>1, <2>2, <2>5, <3>1 DEF IInv, DialogueInv, InOrder, FailedUpgrade, Waiting
  <2>6. CASE ~unanswered /\ ~FailedUpgrade
    <3>1. regin = None /\ dev_cmd = None
      BY <1>11, <2>6, AcceptedAnswer DEF Accepting
    <3> QED
      BY <2>1, <2>2, <2>3, <2>6, <3>1 DEF IInv, DialogueInv, InOrder, FailedUpgrade, Clean, MayRemain, NoAnswer,
                                          Waiting, Written
  <2> QED
    BY <2>4, <2>5, <2>6
<1>12. CASE load_fw_ends
  BY <1>12 DEF load_fw_ends, Return, PathInv, IInv, TimerInv, DialogueInv, InOrder, FailedUpgrade,
     Clean, Own, Refusal, MayRemain, Pending, BlReq, Waiting, Written, paramVars, hostVars, timerVars,
     devVars, imageVars
<1>13. CASE TimerFires \/ bl_cmd_timer_expired \/ UNCHANGED vars
  BY <1>13, SameCommand DEF TimerFires, bl_cmd_timer_expired, vars, IInv, TimerInv, DialogueInv,
     InOrder, FailedUpgrade, Clean, Own, Refusal, MayRemain, Pending, BlReq, Waiting, Written,
     paramVars, hostVars, timerVars, devVars, imageVars
<1>14. CASE DevTake
  BY <1>14, SameCommand DEF DevTake, IInv, TimerInv, DialogueInv, InOrder, FailedUpgrade, Clean,
     Own, Refusal, MayRemain, Pending, BlReq, Waiting, Written, paramVars, hostVars, timerVars,
     devVars, imageVars
<1>15. CASE DevWork
  BY <1>15, DeviceAnswers DEF DevWork
<1>16. CASE DevRefuse
  BY <1>16, DeviceAnswers DEF DevRefuse
<1>17. CASE DevBurn
  BY <1>17, SameCommand DEF DevBurn, IInv, TimerInv, DialogueInv, InOrder, FailedUpgrade, Clean,
     Own, Refusal, MayRemain, Pending, BlReq, Waiting, Written, paramVars, hostVars, timerVars,
     devVars, imageVars
<1>18. CASE DevStart
  BY <1>18, SameCommand DEF DevStart, IInv, TimerInv, DialogueInv, InOrder, FailedUpgrade, Clean,
     Own, Refusal, MayRemain, Pending, BlReq, Waiting, Written, paramVars, hostVars, timerVars,
     devVars, imageVars
<1> QED
  BY <1>1, <1>2, <1>3, <1>4, <1>5, <1>6, <1>7, <1>8, <1>9, <1>10, <1>11, <1>12, <1>13, <1>14, <1>15,
     <1>16, <1>17, <1>18, CommandSteps DEF Next, HostStep

(***************************************************************************)
(* What is started is there to be started.                                 *)
(***************************************************************************)
LEMMA StartStep == IInv /\ [Next]_vars => StartInv'
<1> SUFFICES ASSUME IInv, [Next]_vars PROVE StartInv'
  OBVIOUS
<1>1. CASE device_init
  BY <1>1 DEF device_init, bl_cmd_start_timer, ProbeInv, IInv, TimerInv, StartInv, Trusts, Seen,
     Pending, BlReq, Waiting, Written, paramVars, hostVars, timerVars, devVars, imageVars
<1>2. CASE Probe
  BY <1>2 DEF Probe, Return, ProbeInv, IInv, TimerInv, StartInv, Trusts, Seen, Pending, BlReq,
     Waiting, Written, paramVars, hostVars, timerVars, devVars, imageVars
<1>3. CASE ProbeCheck
  BY <1>3 DEF ProbeCheck, Return, bl_cmd_stop_timer, ProbeInv, IInv, TimerInv, StartInv, Trusts,
     Seen, Pending, BlReq, Waiting, Written, paramVars, hostVars, timerVars, devVars, imageVars
<1>4. CASE ProbeClear
  BY <1>4 DEF ProbeClear, Return, Goto, ProbeInv, DialogueInv, IInv, TimerInv, StartInv, Trusts,
     Seen, Pending, BlReq, Waiting, Written, paramVars, hostVars, timerVars, devVars, imageVars
<1>5. CASE Transfer
  <2>1. /\ stage \notin {"PROBE", "CHECK_CRC", "POLLING_MODE", "LOAD_IMAGE", "EOF_REACHED", "success"}
        /\ pc = "begin" /\ pc' = "begin" /\ BlReq' = BlReq
        /\ UNCHANGED <<flashing, fw_load_mode, regin, dev_cmd, regout, flash>>
    BY <1>5, CommandStages DEF Transfer, Succeed, Fail, Goto, IInv, TimerInv, paramVars, devVars, BlReq
  <2>2. unanswered' = unanswered
    BY <1>5, <2>1 DEF Transfer, Succeed, Fail, Goto, IInv, TypeOK
  <2>3. ~Pending(StartCommands) /\ running # "flash"
    BY <2>1 DEF IInv, DialogueInv
  <2>4. BlReq /\ ~unanswered /\ stage # "fail" => regout.resp = None
    BY <1>5, <2>1, CommandStages
       DEF Transfer, IInv, DialogueInv, InOrder, FailedUpgrade, Clean, Refusal, Written, NoAnswer
  <2>5. CASE Succeed /\ (stage = "VERIFY" => flash = "good") /\ running' = IF stage = "TA_RESET" THEN "ram" ELSE running
    <3>1. stage' = OnSuccess(stage) /\ stage \notin DOMAIN Commands \cup {"success", "fail"}
      BY <1>5, <2>5 DEF Transfer, Succeed, Goto
    <3>2. stage' \in {"CHECK_CRC", "EOF_REACHED"} => BlReq
      BY <2>1, <3>1, CommandStages DEF OnSuccess, IInv, TimerInv
    <3>3. ~Seen("CMD_PASS")' \/ unanswered \/ stage' # "CHECK_CRC"
      BY <2>1, <2>2, <2>4, <3>1, <3>2 DEF Seen, Waiting, None
    <3>4. ~Seen("FW_LOADING_SUCCESSFUL")' \/ unanswered \/ stage' # "EOF_REACHED"
      BY <2>1, <2>2, <2>4, <3>1, <3>2 DEF Seen, Waiting, None
    <3>5. stage' # "LOAD_IMAGE" /\ (stage' = "POLLING_MODE" => fw_load_mode # "FULL_FLASH_SBL")
      BY <2>1, <3>1, CommandStages DEF OnSuccess, AfterAutoReadMode
    <3>6. Trusts' => unanswered'
      BY <2>1, <2>2, <2>3, <2>5, <3>3, <3>4, <3>5 DEF Trusts, Pending, StartCommands
    <3>7. stage' = "success" => (stage = "VERIFY" /\ flashing) \/ (stage = "TA_RESET" /\ ~BlReq)
      BY <2>1, <3>1, CommandStages DEF OnSuccess, AfterAutoReadMode, IInv, TypeOK, PathInv
    <3>8. running' = "ram" => ram
      BY <2>5 DEF IInv, StartInv, PathInv
    <3>9. ram => ram'
      BY <1>5 DEF Transfer, imageVars
    <3> QED
      BY <2>1, <2>3, <2>5, <3>6, <3>7, <3>8, <3>9
         DEF StartInv, Pending, StartCommands, None, BlReq, IInv, TimerInv
  <2>6. CASE Fail(None) /\ UNCHANGED imageVars
    <3>1. stage' \in {"fail", "AUTO_READ_MODE"}
      BY <2>1, <2>6, CommandStages DEF Fail, Goto, OnFailure, IInv, TypeOK
    <3> QED
      BY <2>1, <2>2, <2>3, <2>6, <3>1 DEF IInv, StartInv, Trusts, Pending, StartCommands, imageVars
  <2> QED
    BY <1>5, <2>5, <2>6 DEF Transfer
<1>6. CASE bl_cmd
  BY <1>6, CommandStages DEF bl_cmd, bl_cmd_start_timer, PathInv, NoAnswer, None, IInv, TimerInv,
     StartInv, Trusts, Seen, Pending, BlReq, Waiting, Written, paramVars, hostVars, timerVars, devVars,
     imageVars
<1>7. ASSUME NEW resp, Failing(resp) PROVE StartInv'
  BY <1>7, CommandStages, FailureStage, StageCommand DEF Failing, CommandFails, Fail, Goto,
     CommandFrame, PathInv, AfterGivenUp, OnFailure, IInv, TimerInv, StartInv, Trusts, Seen, Pending,
     BlReq, Waiting, Written, paramVars, hostVars, timerVars, devVars, imageVars
<1>8. CASE Moving
  BY <1>8, CommandStages DEF Moving, CommandFrame, RegisterInv, IInv, TimerInv, StartInv, Trusts,
     Seen, Pending, BlReq, Waiting, Written, paramVars, hostVars, timerVars, devVars, imageVars
<1>9. CASE Writing
  BY <1>9, CommandStages, StageCommand DEF Writing, CommandFrame, PathInv, IInv, TimerInv, StartInv,
     Trusts, Seen, Pending, BlReq, Waiting, Written, paramVars, hostVars, timerVars, devVars, imageVars
<1>10. CASE Starting
  BY <1>10, CommandStages, StageCommand DEF Starting, CommandSucceeds, Succeed, Goto, CommandFrame,
     PathInv, OnSuccess, IInv, TimerInv, StartInv, Trusts, Seen, Pending, BlReq, Waiting, Written,
     paramVars, hostVars, timerVars, devVars, imageVars
<1>11. CASE Accepting
  <2>1. /\ stage \in DOMAIN Commands \ {"LOAD_IMAGE", "JUMP_TO_ZERO"} /\ BlReq' = BlReq /\ pc' = "begin"
        /\ stage' = OnSuccess(stage) /\ answer.resp = Expected(stage) /\ pc \in Waiting
        /\ UNCHANGED <<unanswered, flashing, fw_load_mode, regin, dev_cmd, flash, ram, running>>
        /\ regout' = NoAnswer
    BY <1>11, CommandStages
       DEF Accepting, CommandSucceeds, Succeed, Goto, CommandFrame, IInv, TimerInv, PathInv, Waiting, Written,
           paramVars, devVars, imageVars, BlReq
  <2>2. ~Pending(StartCommands) /\ running # "flash"
    BY <2>1, CommandStages DEF IInv, DialogueInv
  <2>3. /\ stage' # "success"
        /\ stage' \in {"POLLING_MODE", "LOAD_IMAGE"} => stage \in {"CHECK_CRC", "POLLING_MODE", "EOF_REACHED"}
    BY <2>1, CommandStages DEF OnSuccess, AfterAutoReadMode
  <2>4. ~Seen("CMD_PASS")' /\ ~Seen("FW_LOADING_SUCCESSFUL")'
    BY <2>1 DEF Seen, Waiting, NoAnswer, None
  <2>5. stage' = "LOAD_IMAGE" /\ stage = "POLLING_MODE" => fw_load_mode = "FULL_FLASH_SBL"
    BY <2>1, CommandStages DEF OnSuccess
  <2>6. stage \in {"CHECK_CRC", "EOF_REACHED"} => Trusts
    BY <2>1 DEF Trusts, Seen, Expected
  <2>7. Trusts' => flash = "good" \/ unanswered
    BY <2>1, <2>2, <2>3, <2>4, <2>5, <2>6 DEF IInv, StartInv, Trusts, Pending, StartCommands, OnSuccess
  <2> QED
    BY <2>1, <2>2, <2>3, <2>7 DEF IInv, StartInv, Pending
<1>12. CASE load_fw_ends
  BY <1>12 DEF load_fw_ends, Return, PathInv, IInv, TimerInv, StartInv, Trusts, Seen, Pending,
     BlReq, Waiting, Written, paramVars, hostVars, timerVars, devVars, imageVars
<1>13. CASE TimerFires \/ bl_cmd_timer_expired \/ UNCHANGED vars
  BY <1>13 DEF TimerFires, bl_cmd_timer_expired, vars, IInv, TimerInv, StartInv, Trusts, Seen,
     Pending, BlReq, Waiting, Written, paramVars, hostVars, timerVars, devVars, imageVars
<1>14. CASE DevTake
  BY <1>14 DEF DevTake, None, StartCommands, IInv, TimerInv, StartInv, Trusts, Seen, Pending, BlReq,
     Waiting, Written, paramVars, hostVars, timerVars, devVars, imageVars
<1>15. CASE DevWork
  <2>1. /\ UNCHANGED <<stage, pc, answer, unanswered, flashing, fw_load_mode, regin, ram, running>> /\ BlReq' = BlReq
        /\ dev_cmd' = None /\ dev_cmd \notin StartCommands \cup {None}
        /\ regout'.resp = DevAnswer(dev_cmd)
    BY <1>15 DEF DevWork, paramVars, hostVars, imageVars, BlReq
  <2>2. dev_cmd \notin BurnCommands => flash' = flash \/ flash' = "good"
    BY <1>15, EofFindsImage DEF DevWork, BurnCommands
  <2>3. \A c \in StartCommands : Pending({c})' => Pending({c})
    BY <2>1 DEF Pending, StartCommands, None
  <2>4. dev_cmd \in BurnCommands => stage \in {"BURN_BL", "FW_UPGRADE", "fail"}
    BY <2>1, DeviceWorksOn, StageCommand DEF BurnCommands, ValidCommands
  <2>5. stage = "CHECK_CRC" => dev_cmd = "CHECK_CRC" \/ unanswered
    BY <2>1, DeviceWorksOn, StageCommand DEF FailedUpgrade
  <2>6. stage = "EOF_REACHED" => dev_cmd = "EOF_REACHED" \/ unanswered
    BY <2>1, DeviceWorksOn, StageCommand DEF FailedUpgrade
  <2>7. Trusts' => flash' = "good" \/ unanswered
    <3>1. CASE stage = "CHECK_CRC" /\ ~unanswered
      BY <1>15, <2>1, <2>3, <2>5, <3>1 DEF DevWork, DevAnswer, IInv, StartInv, Trusts, Seen, StartCommands
    <3>2. CASE stage = "EOF_REACHED" /\ ~unanswered
      BY <1>15, <2>1, <2>6, <3>2, EofFindsImage DEF DevWork
    <3>3. CASE stage \notin {"CHECK_CRC", "EOF_REACHED"} /\ ~unanswered
      <4>1. Trusts' => Trusts
        BY <2>1, <2>3, <3>3 DEF Trusts, StartCommands
      <4>2. stage \in {"BURN_BL", "FW_UPGRADE", "fail"} => ~Trusts
        BY DEF Trusts, Pending, IInv, DialogueInv, StartCommands
      <4> QED
        BY <2>2, <2>4, <4>1, <4>2, <3>3 DEF IInv, StartInv
    <3> QED
      BY <3>1, <3>2, <3>3
  <2>8. stage = "success" => flash' = flash \/ flash' = "good"
    BY <2>2, <2>4
  <2>9. Pending(StartCommands) => Pending(StartCommands)'
    BY <2>1 DEF Pending
  <2> QED
    BY <2>1, <2>3, <2>7, <2>8, <2>9 DEF IInv, StartInv, StartCommands
<1>16. CASE DevRefuse
  BY <1>16 DEF DevRefuse, None, StartCommands, IInv, TimerInv, StartInv, Trusts, Seen, Pending,
     BlReq, Waiting, Written, paramVars, hostVars, timerVars, devVars, imageVars
<1>17. CASE DevBurn
  BY <1>17 DEF DevBurn, IInv, TimerInv, StartInv, Trusts, Seen, Pending, BlReq, Waiting, Written,
     paramVars, hostVars, timerVars, devVars, imageVars
<1>18. CASE DevStart
  BY <1>18 DEF DevStart, None, StartCommands, IInv, TimerInv, StartInv, Trusts, Seen, Pending,
     BlReq, Waiting, Written, paramVars, hostVars, timerVars, devVars, imageVars
<1> QED
  BY <1>1, <1>2, <1>3, <1>4, <1>5, <1>6, <1>7, <1>8, <1>9, <1>10, <1>11, <1>12, <1>13, <1>14, <1>15,
     <1>16, <1>17, <1>18, CommandSteps DEF Next, HostStep

(***************************************************************************)
(* The chunks go through the two buffers in order.                         *)
(***************************************************************************)
LEMMA BuffersStep == IInv /\ [Next]_vars => BurnInv'
<1> SUFFICES ASSUME IInv, [Next]_vars PROVE BurnInv'
  OBVIOUS
<1>1. CASE device_init
  BY <1>1, SameChunk, SameBurn DEF device_init, bl_cmd_start_timer, TimerInv, BeforeBurn, IInv,
     BurnInv, Pending, Seen, BlReq, Waiting, Written, paramVars, hostVars, timerVars, devVars,
     imageVars
<1>2. CASE Probe
  BY <1>2, SameChunk, SameBurn DEF Probe, Return, IInv, BurnInv, Pending, Seen, BlReq, Waiting,
     Written, paramVars, hostVars, timerVars, devVars, imageVars
<1>3. CASE ProbeCheck
  BY <1>3, SameChunk, SameBurn DEF ProbeCheck, Return, bl_cmd_stop_timer, IInv, BurnInv, Pending,
     Seen, BlReq, Waiting, Written, paramVars, hostVars, timerVars, devVars, imageVars
<1>4. CASE ProbeClear
  BY <1>4, SameChunk, SameBurn DEF ProbeClear, Return, Goto, TimerInv, BeforeBurn, IInv, BurnInv,
     Pending, Seen, BlReq, Waiting, Written, paramVars, hostVars, timerVars, devVars, imageVars
<1>5. CASE Transfer
  <2>1. /\ stage \notin {"PROBE", "CHECK_CRC", "EOF_REACHED", "VALID", "success"}
        /\ pc = "begin" /\ pc' = "begin" /\ BlReq' = BlReq
        /\ UNCHANGED <<size, flashing, regin, dev_cmd, regout, burned, burning>>
    BY <1>5, CommandStages DEF Transfer, Succeed, Fail, Goto, IInv, TimerInv, paramVars, devVars, BlReq
  <2>2. unanswered' = unanswered
    BY <1>5, <2>1 DEF Transfer, Succeed, Fail, Goto, IInv, TypeOK
  <2>3. \A S : Pending(S)' <=> Pending(S)
    BY <2>1 DEF Pending
  <2>4. CASE Fail(None) /\ UNCHANGED <<kk, imageVars>>
    <3>1. stage' \in {"fail", "AUTO_READ_MODE"} /\ UNCHANGED <<kk, buf>>
      BY <2>1, <2>4, CommandStages DEF Fail, Goto, OnFailure, IInv, TypeOK, imageVars
    <3> QED
      BY <2>1, <2>2, <2>3, <3>1, SameChunk, SameBurn DEF IInv, BurnInv, BeforeBurn
  <2>5. CASE Succeed /\ stage = "WRITE_CHUNK" /\ kk' = kk /\ buf' = [buf EXCEPT ![Buffer(kk)] = ChunkUnits(kk)]
    <3>1. stage' = "VALID" /\ ~unanswered /\ BlReq
      BY <2>5 DEF Succeed, Goto, OnSuccess, IInv, TimerInv, PathInv, AfterGivenUp
    <3>2. Clean /\ regout = NoAnswer
      BY <2>1, <2>5, <3>1 DEF IInv, DialogueInv, InOrder, FailedUpgrade, Written, Clean, Refusal
    <3>3. MoreChunks(kk) /\ Handed(kk) /\ kk \in Nat /\ kk <= num_flash
      BY <2>5, BootAssumption DEF IInv, BurnInv, MoreChunks, TypeOK, num_flash
    <3>4. ChunkUnits(kk) \in Seq(Nat)
      BY <3>3, ChunkEnd DEF IInv, TypeOK
    <3>5. buf' \in [{"PING", "PONG"} -> Seq(Nat)] /\ buf'[Buffer(kk)] = ChunkUnits(kk)
      BY <2>5, <3>4 DEF IInv, BurnInv, Buffer
    <3>6. Handed(kk)'
      <4>1. kk > 0 => Buffer(kk - 1) # Buffer(kk)
        BY <3>3 DEF Buffer
      <4>2. kk > 0 /\ burning = Buffer(kk - 1) => buf'[burning] = buf[burning]
        BY <2>5, <4>1 DEF Buffer, IInv, BurnInv
      <4> QED
        BY <2>1, <2>5, <3>3, <4>2 DEF Handed, BurnedTo, End, ChunkUnits, ChunkSize, num_flash, Buffer
    <3>7. Filled' /\ MoreChunks(kk)'
      BY <2>1, <2>5, <3>3, <3>5 DEF Filled, MoreChunks, ChunkUnits, ChunkSize, num_flash, Buffer
    <3>8. ~Seen(Expected("VALID"))'
      BY <2>1, <3>2 DEF Seen, NoAnswer, None, Expected, Waiting
    <3> QED
      BY <2>1, <2>2, <2>3, <3>1, <3>2, <3>5, <3>6, <3>7, <3>8
         DEF IInv, BurnInv, Clean, Pending, BeforeBurn, ValidCommands, BurnCommands, UpgradeCommands, None, Written
  <2>6. CASE Succeed /\ stage # "WRITE_CHUNK" /\ buf' = buf /\ kk' = IF stage = "TESTS" THEN 0 ELSE kk
    <3>1. UNCHANGED <<kk, buf>>
      BY <2>6 DEF IInv, BurnInv, BeforeBurn
    <3>2. stage' = OnSuccess(stage) /\ stage \notin DOMAIN Commands \cup {"success", "fail"}
      BY <1>5, <2>6 DEF Transfer, Succeed, Goto
    <3>3. CASE stage = "TESTS"
      <4>1. stage' = "WRITE_CHUNK" /\ MoreChunks(kk) /\ kk = 0 /\ Handed(kk)
        BY <3>2, <3>3, FirstChunk DEF OnSuccess, IInv, TypeOK, BurnInv, BeforeBurn
      <4> QED
        BY <2>1, <2>2, <2>3, <3>1, <4>1, SameChunk, SameBurn DEF IInv, BurnInv, Filled
    <3>4. CASE stage # "TESTS"
      <4>1. stage' \in (BeforeBurn \ {"PROBE"}) \cup {"success"} /\ (stage \in BeforeBurn \/ stage' = "success")
        BY <2>1, <2>6, <3>2, <3>4, CommandStages DEF OnSuccess, IInv, TypeOK, BeforeBurn
      <4> QED
        BY <2>1, <2>2, <2>3, <3>1, <4>1, SameChunk, SameBurn DEF IInv, BurnInv, Filled, BeforeBurn
    <3> QED
      BY <3>3, <3>4
  <2> QED
    BY <1>5, <2>4, <2>5, <2>6 DEF Transfer
<1>6. CASE bl_cmd
  BY <1>6, SameChunk, SameBurn DEF bl_cmd, bl_cmd_start_timer, NoAnswer, None, Expected, IInv,
     BurnInv, Pending, Seen, BlReq, Waiting, Written, paramVars, hostVars, timerVars, devVars,
     imageVars
<1>7. ASSUME NEW resp, Failing(resp) PROVE BurnInv'
  BY <1>7, SameChunk, SameBurn, CommandStages, StageCommand, ZenonT(40) DEF Failing, CommandFails, Fail, Goto,
     CommandFrame, TimerInv, BeforeBurn, OnFailure, IInv, BurnInv, Pending, Seen, BlReq, Waiting,
     Written, paramVars, hostVars, timerVars, devVars, imageVars
<1>8. CASE Moving
  BY <1>8, SameChunk, SameBurn DEF Moving, CommandFrame, IInv, BurnInv, Pending, Seen, BlReq,
     Waiting, Written, paramVars, hostVars, timerVars, devVars, imageVars
<1>9. CASE Writing
  <2>1. /\ stage \in DOMAIN Commands /\ BlReq /\ BlReq' = BlReq /\ pc = "regin_check" /\ pc' = "regout"
        /\ regin' = Cmd(stage) /\ answer = NoAnswer
        /\ UNCHANGED <<stage, unanswered, size, kk, buf, burned, burning, answer, dev_cmd, regout>>
    BY <1>9, CommandStages
       DEF Writing, CommandFrame, IInv, TimerInv, DialogueInv, Waiting, paramVars, devVars, imageVars, BlReq
  <2>2. Cmd(stage) \in UpgradeCommands => dev_cmd = None
    BY <2>1, StageCommand
       DEF IInv, DialogueInv, PathInv, AfterGivenUp, InOrder, FailedUpgrade, Clean, Written, UpgradeCommands
  <2>3. None \notin UpgradeCommands /\ Expected("VALID") # None
    BY DEF UpgradeCommands, ValidCommands, BurnCommands, None, Expected
  <2> QED
    BY <2>1, <2>2, <2>3, SameChunk, SameBurn, StageCommand, CommandStages
       DEF IInv, BurnInv, Pending, Seen, BeforeBurn, UpgradeCommands, NoAnswer, Written
<1>10. CASE Starting
  <2>1. /\ stage \in {"LOAD_IMAGE", "JUMP_TO_ZERO"} /\ BlReq /\ BlReq' = BlReq /\ regin' = Cmd(stage)
        /\ stage' = OnSuccess(stage)
        /\ UNCHANGED <<unanswered, size, kk, buf, burned, burning, dev_cmd>>
    BY <1>10, StageCommand, CommandStages
       DEF Starting, CommandSucceeds, Succeed, Goto, CommandFrame, IInv, TimerInv, Waiting,
           paramVars, devVars, imageVars, BlReq
  <2>2. stage' = "success" /\ regin' \notin UpgradeCommands
    BY <2>1, StageCommand, CommandStages DEF OnSuccess, UpgradeCommands
  <2> QED
    BY <2>1, <2>2, SameChunk, SameBurn DEF IInv, BurnInv, BeforeBurn, Pending, UpgradeCommands
<1>11. CASE Accepting
  <2>1. /\ stage \in DOMAIN Commands \ {"LOAD_IMAGE", "JUMP_TO_ZERO"} /\ BlReq' = BlReq /\ pc' = "begin"
        /\ stage' = OnSuccess(stage) /\ answer.resp = Expected(stage) /\ pc = "invalidate" /\ BlReq
        /\ UNCHANGED <<unanswered, size, flashing, regin, dev_cmd, buf, burned, burning>>
        /\ regout' = NoAnswer
    BY <1>11, CommandStages
       DEF Accepting, CommandSucceeds, Succeed, Goto, CommandFrame, IInv, TimerInv, PathInv, Waiting, Written,
           paramVars, devVars, imageVars, BlReq
  <2>2. \A S : Pending(S)' <=> Pending(S)
    BY <2>1 DEF Pending
  <2>3. CASE stage = "VALID"
    <3>1. kk' = kk + 1 /\ ~unanswered /\ regin = None /\ dev_cmd = None
      BY <1>11, <2>1, <2>3, AcceptedAnswer DEF Accepting, FailedUpgrade, IInv, PathInv, AfterGivenUp
    <3>2. Handed(kk + 1) /\ MoreChunks(kk) /\ kk \in 0 .. num_flash
      BY <2>1, <2>3, BootAssumption DEF IInv, BurnInv, Seen, Waiting, Filled, MoreChunks, TypeOK, num_flash
    <3>3. Handed(kk)' /\ (MoreChunks(kk)' <=> MoreChunks(kk + 1)) /\ End(kk)' = End(kk + 1)
      BY <2>1, <3>1, <3>2
         DEF Handed, BurnedTo, End, ChunkUnits, ChunkSize, num_flash, Buffer, MoreChunks
    <3>4. CASE MoreChunks(kk + 1)
      <4>1. stage' = "WRITE_CHUNK"
        BY <2>1, <2>3, <3>4 DEF OnSuccess
      <4> QED
        BY <2>1, <2>2, <3>1, <3>3, <3>4, <4>1
           DEF IInv, BurnInv, Pending, BeforeBurn, ValidCommands, BurnCommands, UpgradeCommands, None
    <3>5. CASE ~MoreChunks(kk + 1)
      <4>1. stage' = "EOF_REACHED" /\ End(kk + 1) = size
        BY <2>1, <2>3, <3>2, <3>5, LastChunk DEF OnSuccess, IInv, TypeOK
      <4> QED
        BY <2>1, <2>2, <3>1, <3>3, <4>1
           DEF IInv, BurnInv, Pending, BeforeBurn, ValidCommands, BurnCommands, UpgradeCommands, None
    <3> QED
      BY <3>4, <3>5
  <2>4. CASE stage # "VALID"
    <3>1. kk' = kk
      BY <1>11, <2>4 DEF Accepting
    <3>2. stage' \in {"CAPACITY", "POLLING_MODE", "LOAD_PMEMDATA", "GET_SBL", "TESTS"} => stage \in BeforeBurn
      BY <2>1, <2>4, CommandStages DEF OnSuccess, AfterAutoReadMode, BeforeBurn
    <3>3. stage' \in {"CAPACITY", "POLLING_MODE", "LOAD_PMEMDATA", "GET_SBL", "TESTS", "LOAD_IMAGE", "AUTO_READ_MODE",
                      "VERIFY", "fail"}
      BY <2>1, <2>4, CommandStages DEF OnSuccess, AfterAutoReadMode
    <3> QED
      BY <2>1, <2>2, <3>1, <3>2, <3>3, SameChunk, SameBurn DEF IInv, BurnInv, BeforeBurn
  <2> QED
    BY <2>3, <2>4
<1>12. CASE load_fw_ends
  BY <1>12, SameChunk, SameBurn DEF load_fw_ends, Return, IInv, BurnInv, Pending, Seen, BlReq,
     Waiting, Written, paramVars, hostVars, timerVars, devVars, imageVars
<1>13. CASE TimerFires \/ bl_cmd_timer_expired \/ UNCHANGED vars
  BY <1>13, SameChunk, SameBurn DEF TimerFires, bl_cmd_timer_expired, vars, IInv, BurnInv, Pending,
     Seen, BlReq, Waiting, Written, paramVars, hostVars, timerVars, devVars, imageVars
<1>14. CASE DevTake
  BY <1>14, SameChunk, SameBurn DEF DevTake, None, ValidCommands, BurnCommands, UpgradeCommands,
     UpgradeCommands, IInv, BurnInv, Pending, Seen, BlReq, Waiting, Written, paramVars, hostVars,
     timerVars, devVars, imageVars
<1>15. CASE DevWork
  <2>1. /\ UNCHANGED <<size, kk, buf, stage, pc, answer, unanswered, fw_load_mode, regin>> /\ BlReq' = BlReq
        /\ dev_cmd' = None /\ dev_cmd \notin StartCommands \cup {None}
        /\ regout'.resp = DevAnswer(dev_cmd)
    BY <1>15 DEF DevWork, paramVars, hostVars, imageVars, BlReq
  <2>2. \A S : Pending(S)' => regin \in S \/ None \in S
    BY <2>1 DEF Pending
  <2>3. None \notin UpgradeCommands /\ None \notin ValidCommands /\ None \notin BurnCommands
    BY DEF UpgradeCommands, ValidCommands, BurnCommands, None
  <2>4. CASE dev_cmd \in BurnCommands
    <3>1. kk = 0 /\ Handed(kk) /\ stage \in {"BURN_BL", "FW_UPGRADE", "fail"}
      BY <2>1, <2>4, DeviceWorksOn, StageCommand DEF BurnCommands, ValidCommands, IInv, BurnInv, Pending
    <3>2. burned' = <<>> /\ burning' = burning /\ burning = None
      BY <1>15, <2>4, <3>1 DEF DevWork, BurnCommands, Handed
    <3>3. Handed(kk)' /\ burned' \in Seq(Nat)
      <4>1. End(kk)' = 0
        BY <2>1, <3>1, FirstChunk, SameChunk DEF IInv, TypeOK
      <4> QED
        BY <3>2, <4>1 DEF Handed, BurnedTo
    <3> QED
      BY <2>1, <2>2, <2>3, <2>4, <3>1, <3>3, SameChunk DEF IInv, BurnInv, Pending, UpgradeCommands
  <2>5. CASE dev_cmd \in ValidCommands
    <3>1. /\ Filled /\ Handed(kk) /\ burning = None /\ regin \notin UpgradeCommands
          /\ dev_cmd = Cmd("VALID")
      BY <1>15, <2>5 DEF IInv, BurnInv, Pending, DevWork, ValidCommands, UpgradeCommands
    <3>2. burning' = Buffer(kk) /\ burned' = burned /\ burning' # None
      BY <1>15, <3>1, <2>5 DEF DevWork, Cmd, Buffer, ValidCommands, None
    <3>3. Handed(kk + 1)'
      <4>1. BurnedTo(kk)' /\ kk \in Nat /\ buf[Buffer(kk)] = ChunkUnits(kk) /\ ChunkUnits(kk)' = ChunkUnits(kk)
            /\ kk' = kk
        BY <2>1, <3>1, <3>2
           DEF Handed, BurnedTo, End, num_flash, Buffer, None, Filled, IInv, TypeOK, ChunkUnits, ChunkSize
      <4>2. kk + 1 > 0 /\ (kk + 1) - 1 = kk
        BY <4>1
      <4> QED
        BY <2>1, <3>2, <4>1, <4>2 DEF Handed, Buffer
    <3>4. /\ stage \notin BeforeBurn \cup {"WRITE_CHUNK", "EOF_REACHED"} /\ ~unanswered /\ BlReq
          /\ stage = "VALID" => pc \in Written
      BY <2>1, <2>5, DeviceWorksOn, StageCommand
         DEF IInv, DialogueInv, TimerInv, MayRemain, StartCommands, ValidCommands, FailedUpgrade, BeforeBurn, None
    <3>5. ~Pending(ValidCommands)' /\ ~Pending(BurnCommands)' /\ ~Pending({"EOF_REACHED"})'
      BY <2>2, <2>3, <3>1 DEF UpgradeCommands, None
    <3> QED
      BY <2>1, <3>1, <3>2, <3>3, <3>4, <3>5, SameChunk DEF IInv, BurnInv, Filled
  <2>6. CASE dev_cmd \notin BurnCommands \cup ValidCommands
    <3>1. UNCHANGED <<burned, burning>>
      BY <1>15, <2>6 DEF DevWork, BurnCommands, ValidCommands
    <3>2. stage = "VALID" => regout'.resp # Expected("VALID")
      BY <2>1, <2>6, DeviceWorksOn, StageCommand DEF FailedUpgrade, IInv, PathInv, AfterGivenUp
    <3> QED
      BY <2>1, <2>2, <2>3, <3>1, <3>2, SameChunk, SameBurn DEF IInv, BurnInv, Pending, Seen, None
  <2> QED
    BY <2>4, <2>5, <2>6
<1>16. CASE DevRefuse
  BY <1>16, SameChunk, SameBurn DEF DevRefuse, None, ValidCommands, BurnCommands, UpgradeCommands,
     Expected, IInv, BurnInv, Pending, Seen, BlReq, Waiting, Written, paramVars, hostVars, timerVars,
     devVars, imageVars
<1>17. CASE DevBurn
  <2>1. /\ UNCHANGED <<size, kk, buf, stage, pc, answer, unanswered, fw_load_mode, regin, dev_cmd, regout>>
        /\ BlReq' = BlReq
    BY <1>17 DEF DevBurn, paramVars, hostVars, imageVars, BlReq
  <2>2. num_flash \in Int /\ kk \in Nat /\ kk <= num_flash + 1 /\ (MoreChunks(kk) => kk + 1 <= num_flash + 1)
    BY BootAssumption DEF IInv, TypeOK, num_flash, MoreChunks
  <2>3. Handed(kk) => Handed(kk)' /\ burned' \in Seq(Nat)
    BY <1>17, <2>1, <2>2, HandedBurn DEF Handed, BurnedTo, End, num_flash
  <2>4. MoreChunks(kk) /\ Handed(kk + 1) => Handed(kk + 1)' /\ burned' \in Seq(Nat)
    BY <1>17, <2>1, <2>2, HandedBurn DEF Handed, BurnedTo, End, num_flash
  <2> QED
    BY <2>1, <2>3, <2>4, SameChunk DEF IInv, BurnInv, Pending, Seen, Filled
<1>18. CASE DevStart
  BY <1>18, SameChunk, SameBurn DEF DevStart, None, ValidCommands, BurnCommands, UpgradeCommands,
     IInv, BurnInv, Pending, Seen, BlReq, Waiting, Written, paramVars, hostVars, timerVars, devVars,
     imageVars
<1> QED
  BY <1>1, <1>2, <1>3, <1>4, <1>5, <1>6, <1>7, <1>8, <1>9, <1>10, <1>11, <1>12, <1>13, <1>14, <1>15,
     <1>16, <1>17, <1>18, CommandSteps DEF Next, HostStep

(***************************************************************************)
(* The parts of TypeOK: parameters, flags, host, buffers, device.           *)
(***************************************************************************)
ParamsType == fw_load_mode \in Modes /\ flashing \in BOOLEAN /\ size \in Sizes /\ present \in BOOLEAN

FlagsType ==
  /\ bl_timer \in BOOLEAN /\ bl_timer_expired \in BOOLEAN /\ callback \in BOOLEAN
  /\ ram \in BOOLEAN /\ unanswered \in BOOLEAN

HostType ==
  /\ stage \in Stages
  /\ pc \in {"init", "probe", "probe_check", "probe_clear", "begin", "regin", "regin_check",
             "regout", "regout_check", "invalidate", "done"}
  /\ status \in {None, "success", "failure", "read_failure"}

ChunkType ==
  /\ kk \in 0 .. num_flash + 1
  /\ \A b \in {"PING", "PONG"} : buf[b] \in Seq(1 .. size)

DeviceType ==
  burning \in {None, "PING", "PONG"} /\ flash \in {"good", "bad"} /\ running \in {None, "flash", "ram"}

LEMMA TypeParts == TypeOK <=> ParamsType /\ FlagsType /\ HostType /\ ChunkType /\ DeviceType
BY DEF TypeOK, ParamsType, FlagsType, HostType, ChunkType, DeviceType, Stages

\* The parameters are constant.
LEMMA ParamsStep == TypeOK /\ [Next]_vars => ParamsType'
<1> SUFFICES ASSUME TypeOK, [Next]_vars PROVE ParamsType'
  OBVIOUS
<1>1. UNCHANGED paramVars
  BY DEF Next, HostStep, device_init, Probe, ProbeCheck, ProbeClear, Transfer, bl_cmd, PollRegin, WriteRegin,
         PollRegout, RegoutCheck, CompareAnswer, load_fw_ends, TimerFires, bl_cmd_timer_expired, DevTake,
         DevWork, DevRefuse, DevBurn, DevStart, vars
<1> QED
  BY <1>1 DEF TypeOK, ParamsType, paramVars

\* Flags remain flags.
LEMMA FlagsStep == TypeOK /\ [Next]_vars => FlagsType'
<1> SUFFICES ASSUME TypeOK, [Next]_vars PROVE FlagsType'
  OBVIOUS
<1>1. UNCHANGED timerVars \/ bl_cmd_start_timer \/ bl_cmd_stop_timer \/ TimerFires \/ bl_cmd_timer_expired
  BY DEF Next, HostStep, device_init, Probe, ProbeCheck, ProbeClear, Transfer, bl_cmd, PollRegin, WriteRegin,
         PollRegout, RegoutCheck, CompareAnswer, load_fw_ends, DevTake, DevWork, DevRefuse, DevBurn, DevStart,
         CommandFails, CommandSucceeds, LeaveLoad, vars
<1>2. bl_timer' \in BOOLEAN /\ bl_timer_expired' \in BOOLEAN /\ callback' \in BOOLEAN
  BY <1>1 DEF TypeOK, timerVars, bl_cmd_start_timer, bl_cmd_stop_timer, TimerFires, bl_cmd_timer_expired
<1>3. UNCHANGED ram \/ ram' = (ram \/ stage = "LOAD_PMEMDATA")
  BY DEF Next, HostStep, device_init, Probe, ProbeCheck, ProbeClear, Transfer, bl_cmd, PollRegin, WriteRegin,
         PollRegout, RegoutCheck, CompareAnswer, load_fw_ends, TimerFires, bl_cmd_timer_expired, DevTake,
         DevWork, DevRefuse, DevBurn, DevStart, vars, imageVars
<1>4. ram' \in BOOLEAN
  <2>1. CASE ram' = (ram \/ stage = "LOAD_PMEMDATA")
    BY <2>1, SMT
  <2>2. CASE UNCHANGED ram
    BY <2>2 DEF TypeOK
  <2> QED
    BY <1>3, <2>1, <2>2
<1>5. UNCHANGED unanswered \/ \E r : Fail(r)
  BY DEF Next, HostStep, device_init, Probe, ProbeCheck, ProbeClear, Transfer, bl_cmd, PollRegin, WriteRegin,
         PollRegout, RegoutCheck, CompareAnswer, load_fw_ends, TimerFires, bl_cmd_timer_expired, DevTake,
         DevWork, DevRefuse, DevBurn, DevStart, vars, hostVars, Succeed, CommandFails, CommandSucceeds
<1>6. ASSUME NEW r, Fail(r) PROVE unanswered' \in BOOLEAN
  <2>1. unanswered' = (unanswered \/ (stage = "CHECK_CRC" /\ r # "CMD_FAIL"))
    BY <1>6 DEF Fail
  <2> QED
    BY <2>1, SMT
<1>7. unanswered' \in BOOLEAN
  BY <1>5, <1>6 DEF TypeOK
<1> QED
  BY <1>2, <1>4, <1>7 DEF FlagsType


(***************************************************************************)
(* The host goes from stage to stage.                                      *)
(***************************************************************************)
LEMMA HostTypeStep == IInv /\ [Next]_vars => HostType'
<1> SUFFICES ASSUME IInv, [Next]_vars PROVE HostType'
  OBVIOUS
<1>1. CASE device_init
  BY <1>1 DEF device_init, bl_cmd_start_timer, IInv, TypeOK, HostType, Stages, paramVars, hostVars,
     timerVars, devVars, imageVars
<1>2. CASE Probe
  BY <1>2 DEF Probe, Return, IInv, TypeOK, HostType, Stages, paramVars, hostVars, timerVars,
     devVars, imageVars
<1>3. CASE ProbeCheck
  BY <1>3 DEF ProbeCheck, Return, bl_cmd_stop_timer, IInv, TypeOK, HostType, Stages, paramVars,
     hostVars, timerVars, devVars, imageVars
<1>4. CASE ProbeClear
  BY <1>4, CommandStages DEF ProbeClear, Return, Goto, IInv, TypeOK, HostType, Stages, paramVars,
     hostVars, timerVars, devVars, imageVars
<1>5. CASE Transfer
  BY <1>5, NextStage DEF Transfer, Succeed, Fail, Goto, IInv, TypeOK, HostType, Stages, paramVars,
     hostVars, timerVars, devVars, imageVars
<1>6. CASE bl_cmd
  BY <1>6 DEF bl_cmd, bl_cmd_start_timer, IInv, TypeOK, HostType, Stages, paramVars, hostVars,
     timerVars, devVars, imageVars
<1>7. ASSUME NEW resp, Failing(resp) PROVE HostType'
  BY <1>7, NextStage DEF Failing, CommandFails, Fail, Goto, CommandFrame, IInv, TypeOK, HostType,
     Stages, paramVars, hostVars, timerVars, devVars, imageVars
<1>8. CASE Moving
  BY <1>8 DEF Moving, CommandFrame, IInv, TypeOK, HostType, Stages, paramVars, hostVars, timerVars,
     devVars, imageVars
<1>9. CASE Writing
  BY <1>9 DEF Writing, CommandFrame, IInv, TypeOK, HostType, Stages, paramVars, hostVars, timerVars,
     devVars, imageVars
<1>10. CASE Starting
  BY <1>10, NextStage DEF Starting, CommandSucceeds, Succeed, Goto, CommandFrame, IInv, TypeOK,
     HostType, Stages, paramVars, hostVars, timerVars, devVars, imageVars
<1>11. CASE Accepting
  BY <1>11, NextStage DEF Accepting, CommandSucceeds, Succeed, Goto, CommandFrame, IInv, TypeOK,
     HostType, Stages, paramVars, hostVars, timerVars, devVars, imageVars
<1>12. CASE load_fw_ends
  BY <1>12 DEF load_fw_ends, Return, None, IInv, TypeOK, HostType, Stages, paramVars, hostVars,
     timerVars, devVars, imageVars
<1>13. CASE TimerFires \/ bl_cmd_timer_expired \/ UNCHANGED vars
  BY <1>13 DEF TimerFires, bl_cmd_timer_expired, vars, IInv, TypeOK, HostType, Stages, paramVars,
     hostVars, timerVars, devVars, imageVars
<1>14. CASE DevTake
  BY <1>14 DEF DevTake, IInv, TypeOK, HostType, Stages, paramVars, hostVars, timerVars, devVars,
     imageVars
<1>15. CASE DevWork
  BY <1>15 DEF DevWork, IInv, TypeOK, HostType, Stages, paramVars, hostVars, timerVars, devVars,
     imageVars
<1>16. CASE DevRefuse
  BY <1>16 DEF DevRefuse, IInv, TypeOK, HostType, Stages, paramVars, hostVars, timerVars, devVars,
     imageVars
<1>17. CASE DevBurn
  BY <1>17 DEF DevBurn, IInv, TypeOK, HostType, Stages, paramVars, hostVars, timerVars, devVars,
     imageVars
<1>18. CASE DevStart
  BY <1>18 DEF DevStart, IInv, TypeOK, HostType, Stages, paramVars, hostVars, timerVars, devVars,
     imageVars
<1> QED
  BY <1>1, <1>2, <1>3, <1>4, <1>5, <1>6, <1>7, <1>8, <1>9, <1>10, <1>11, <1>12, <1>13, <1>14, <1>15,
     <1>16, <1>17, <1>18, CommandSteps DEF Next, HostStep

(***************************************************************************)
(* The device burns one of its buffers and runs flash or RAM.              *)
(***************************************************************************)
LEMMA DeviceTypeStep == IInv /\ [Next]_vars => DeviceType'
<1> SUFFICES ASSUME IInv, [Next]_vars PROVE DeviceType'
  OBVIOUS
<1>1. CASE device_init
  BY <1>1 DEF device_init, bl_cmd_start_timer, IInv, TypeOK, DeviceType, paramVars, hostVars,
     timerVars, devVars, imageVars
<1>2. CASE Probe
  BY <1>2 DEF Probe, Return, IInv, TypeOK, DeviceType, paramVars, hostVars, timerVars, devVars,
     imageVars
<1>3. CASE ProbeCheck
  BY <1>3 DEF ProbeCheck, Return, bl_cmd_stop_timer, IInv, TypeOK, DeviceType, paramVars, hostVars,
     timerVars, devVars, imageVars
<1>4. CASE ProbeClear
  BY <1>4 DEF ProbeClear, Return, Goto, IInv, TypeOK, DeviceType, paramVars, hostVars, timerVars,
     devVars, imageVars
<1>5. CASE Transfer
  BY <1>5 DEF Transfer, Succeed, Fail, Goto, IInv, TypeOK, DeviceType, paramVars, hostVars,
     timerVars, devVars, imageVars
<1>6. CASE bl_cmd
  BY <1>6 DEF bl_cmd, bl_cmd_start_timer, IInv, TypeOK, DeviceType, paramVars, hostVars, timerVars,
     devVars, imageVars
<1>7. ASSUME NEW resp, Failing(resp) PROVE DeviceType'
  BY <1>7 DEF Failing, CommandFails, Fail, Goto, CommandFrame, IInv, TypeOK, DeviceType, paramVars,
     hostVars, timerVars, devVars, imageVars
<1>8. CASE Moving
  BY <1>8 DEF Moving, CommandFrame, IInv, TypeOK, DeviceType, paramVars, hostVars, timerVars,
     devVars, imageVars
<1>9. CASE Writing
  BY <1>9 DEF Writing, CommandFrame, IInv, TypeOK, DeviceType, paramVars, hostVars, timerVars,
     devVars, imageVars
<1>10. CASE Starting
  BY <1>10 DEF Starting, CommandSucceeds, Succeed, Goto, CommandFrame, IInv, TypeOK, DeviceType,
     paramVars, hostVars, timerVars, devVars, imageVars
<1>11. CASE Accepting
  BY <1>11 DEF Accepting, CommandSucceeds, Succeed, Goto, CommandFrame, IInv, TypeOK, DeviceType,
     paramVars, hostVars, timerVars, devVars, imageVars
<1>12. CASE load_fw_ends
  BY <1>12 DEF load_fw_ends, Return, IInv, TypeOK, DeviceType, paramVars, hostVars, timerVars,
     devVars, imageVars
<1>13. CASE TimerFires \/ bl_cmd_timer_expired \/ UNCHANGED vars
  BY <1>13 DEF TimerFires, bl_cmd_timer_expired, vars, IInv, TypeOK, DeviceType, paramVars,
     hostVars, timerVars, devVars, imageVars
<1>14. CASE DevTake
  BY <1>14 DEF DevTake, IInv, TypeOK, DeviceType, paramVars, hostVars, timerVars, devVars, imageVars
<1>15. CASE DevWork
  BY <1>15 DEF DevWork, IInv, TypeOK, DeviceType, paramVars, hostVars, timerVars, devVars, imageVars
<1>16. CASE DevRefuse
  BY <1>16 DEF DevRefuse, IInv, TypeOK, DeviceType, paramVars, hostVars, timerVars, devVars,
     imageVars
<1>17. CASE DevBurn
  BY <1>17 DEF DevBurn, IInv, TypeOK, DeviceType, paramVars, hostVars, timerVars, devVars, imageVars
<1>18. CASE DevStart
  BY <1>18 DEF DevStart, IInv, TypeOK, DeviceType, paramVars, hostVars, timerVars, devVars,
     imageVars
<1> QED
  BY <1>1, <1>2, <1>3, <1>4, <1>5, <1>6, <1>7, <1>8, <1>9, <1>10, <1>11, <1>12, <1>13, <1>14, <1>15,
     <1>16, <1>17, <1>18, CommandSteps DEF Next, HostStep

(***************************************************************************)
(* The buffers hold units of the file.                                     *)
(***************************************************************************)
LEMMA ChunkTypeStep == IInv /\ [Next]_vars => ChunkType'
<1> SUFFICES ASSUME IInv, [Next]_vars PROVE ChunkType'
  OBVIOUS
<1>1. CASE device_init
  BY <1>1 DEF device_init, bl_cmd_start_timer, IInv, TypeOK, ChunkType, num_flash, paramVars,
     hostVars, timerVars, devVars, imageVars
<1>2. CASE Probe
  BY <1>2 DEF Probe, Return, IInv, TypeOK, ChunkType, num_flash, paramVars, hostVars, timerVars,
     devVars, imageVars
<1>3. CASE ProbeCheck
  BY <1>3 DEF ProbeCheck, Return, bl_cmd_stop_timer, IInv, TypeOK, ChunkType, num_flash, paramVars,
     hostVars, timerVars, devVars, imageVars
<1>4. CASE ProbeClear
  BY <1>4 DEF ProbeClear, Return, Goto, IInv, TypeOK, ChunkType, num_flash, paramVars, hostVars,
     timerVars, devVars, imageVars
<1>5. CASE Transfer
  <2>1. UNCHANGED size /\ kk' \in {0, kk} /\ num_flash \in Nat
    BY <1>5, Division, BootAssumption DEF Transfer, paramVars, num_flash, IInv, TypeOK
  <2>2. CASE stage = "WRITE_CHUNK" /\ buf' = [buf EXCEPT ![Buffer(kk)] = ChunkUnits(kk)]
    <3>1. kk \in 0 .. num_flash /\ size \in Sizes
      BY <2>1, <2>2 DEF IInv, BurnInv, MoreChunks, TypeOK
    <3>2. ChunkUnits(kk) \in Seq(1 .. size)
      <4>1. PICK e \in Nat, c \in Nat : e + c <= size /\ ChunkUnits(kk) = [i \in 1 .. c |-> e + i]
        BY <3>1, ChunkEnd
      <4>2. \A i \in 1 .. c : e + i \in 1 .. size
        BY <4>1, BootAssumption DEF IInv, TypeOK
      <4> QED
        BY <4>1, <4>2
    <3>3. \A b \in {"PING", "PONG"} : buf'[b] \in Seq(1 .. size)
      BY <2>2, <3>2 DEF IInv, TypeOK, BurnInv
    <3> QED
      BY <2>1, <3>3 DEF ChunkType, num_flash, IInv, TypeOK
  <2>3. CASE buf' = buf
    BY <2>1, <2>3 DEF ChunkType, num_flash, IInv, TypeOK
  <2> QED
    BY <1>5, <2>2, <2>3 DEF Transfer, imageVars
<1>6. CASE bl_cmd
  BY <1>6 DEF bl_cmd, bl_cmd_start_timer, IInv, TypeOK, ChunkType, num_flash, paramVars, hostVars,
     timerVars, devVars, imageVars
<1>7. ASSUME NEW resp, Failing(resp) PROVE ChunkType'
  BY <1>7 DEF Failing, CommandFails, Fail, Goto, CommandFrame, IInv, TypeOK, ChunkType, num_flash,
     paramVars, hostVars, timerVars, devVars, imageVars
<1>8. CASE Moving
  BY <1>8 DEF Moving, CommandFrame, IInv, TypeOK, ChunkType, num_flash, paramVars, hostVars,
     timerVars, devVars, imageVars
<1>9. CASE Writing
  BY <1>9 DEF Writing, CommandFrame, IInv, TypeOK, ChunkType, num_flash, paramVars, hostVars,
     timerVars, devVars, imageVars
<1>10. CASE Starting
  BY <1>10 DEF Starting, CommandSucceeds, Succeed, Goto, CommandFrame, IInv, TypeOK, ChunkType,
     num_flash, paramVars, hostVars, timerVars, devVars, imageVars
<1>11. CASE Accepting
  <2>1. UNCHANGED <<size, buf>> /\ num_flash \in Nat /\ kk' = IF stage = "VALID" THEN kk + 1 ELSE kk
    BY <1>11, Division, BootAssumption DEF Accepting, CommandFrame, paramVars, imageVars, num_flash, IInv, TypeOK
  <2>2. stage = "VALID" => kk <= num_flash
    BY DEF IInv, BurnInv, Filled, MoreChunks
  <2> QED
    BY <2>1, <2>2 DEF ChunkType, num_flash, IInv, TypeOK
<1>12. CASE load_fw_ends
  BY <1>12 DEF load_fw_ends, Return, IInv, TypeOK, ChunkType, num_flash, paramVars, hostVars,
     timerVars, devVars, imageVars
<1>13. CASE TimerFires \/ bl_cmd_timer_expired \/ UNCHANGED vars
  BY <1>13 DEF TimerFires, bl_cmd_timer_expired, vars, IInv, TypeOK, ChunkType, num_flash,
     paramVars, hostVars, timerVars, devVars, imageVars
<1>14. CASE DevTake
  BY <1>14 DEF DevTake, IInv, TypeOK, ChunkType, num_flash, paramVars, hostVars, timerVars, devVars,
     imageVars
<1>15. CASE DevWork
  BY <1>15 DEF DevWork, IInv, TypeOK, ChunkType, num_flash, paramVars, hostVars, timerVars, devVars,
     imageVars
<1>16. CASE DevRefuse
  BY <1>16 DEF DevRefuse, IInv, TypeOK, ChunkType, num_flash, paramVars, hostVars, timerVars,
     devVars, imageVars
<1>17. CASE DevBurn
  BY <1>17 DEF DevBurn, IInv, TypeOK, ChunkType, num_flash, paramVars, hostVars, timerVars, devVars,
     imageVars
<1>18. CASE DevStart
  BY <1>18 DEF DevStart, IInv, TypeOK, ChunkType, num_flash, paramVars, hostVars, timerVars,
     devVars, imageVars
<1> QED
  BY <1>1, <1>2, <1>3, <1>4, <1>5, <1>6, <1>7, <1>8, <1>9, <1>10, <1>11, <1>12, <1>13, <1>14, <1>15,
     <1>16, <1>17, <1>18, CommandSteps DEF Next, HostStep

-----------------------------------------------------------------------------
(***************************************************************************)
(* The invariant holds initially ...                                        *)
(***************************************************************************)
LEMMA LoadInit == Init => IInv
<1> SUFFICES ASSUME Init PROVE IInv
  OBVIOUS
<1>1. TimerInv
  BY TimerInit
<1>2. /\ stage = "PROBE" /\ pc = "init" /\ status = None /\ kk = 0 /\ answer = NoAnswer /\ regin = None
      /\ regout = NoAnswer /\ dev_cmd \in {None, "BOOT"} /\ burning = None /\ burned = <<>>
      /\ running = None /\ unanswered = FALSE
  BY DEF Init
<1>3. num_flash \in Nat
  BY Division, BootAssumption DEF Init, num_flash
<1>4. buf = [b \in {"PING", "PONG"} |-> <<>>]
  BY DEF Init
<1>5. TypeOK
  <2>1. ParamsType /\ FlagsType
    BY DEF Init, ParamsType, FlagsType
  <2>2. HostType /\ DeviceType
    BY DEF Init, HostType, DeviceType, Stages
  <2>3. ChunkType
    BY <1>2, <1>3, <1>4 DEF ChunkType
  <2> QED
    BY <2>1, <2>2, <2>3, TypeParts
<1>6. RegisterInv /\ PathInv /\ ProbeInv
  BY <1>2 DEF RegisterInv, IsAnswer, PathInv, ProbeInv, Written, None, NoAnswer
<1>7. DialogueInv /\ StartInv
  BY <1>2, CommandStages
     DEF DialogueInv, InOrder, FailedUpgrade, StartInv, Trusts, Pending, StartCommands, None, Waiting
<1>8. BurnInv
  <2>1. Handed(kk)
    BY <1>2, <1>5, FirstChunk DEF Handed, BurnedTo, TypeOK
  <2> QED
    BY <1>2, <1>4, <2>1 DEF BurnInv, Pending, ValidCommands, BurnCommands, UpgradeCommands, None
<1> QED
  BY <1>1, <1>5, <1>6, <1>7, <1>8 DEF IInv

(***************************************************************************)
(* ... and every step keeps it.                                             *)
(***************************************************************************)
LEMMA LoadStep == IInv /\ [Next]_vars => IInv'
<1> SUFFICES ASSUME IInv, [Next]_vars PROVE IInv'
  OBVIOUS
<1>1. TypeOK'
  <2>1. ParamsType' /\ FlagsType' /\ HostType' /\ ChunkType' /\ DeviceType'
    BY ParamsStep, FlagsStep, HostTypeStep, ChunkTypeStep, DeviceTypeStep DEF IInv
  <2> QED
    BY <2>1 DEF TypeOK, ParamsType, FlagsType, HostType, ChunkType, DeviceType, Stages
<1>2. TimerInv'
  BY TimerStep DEF IInv
<1> QED
  BY <1>1, <1>2, RegisterStep, PathStep, ProbeStep, DialogueStep, StartStep, BuffersStep DEF IInv

(***************************************************************************)
(* The dialogue of host and boot loader, whatever the mode, the image, the  *)
(* delays and the failures.                                                 *)
(***************************************************************************)
THEOREM LoadInvariant == Spec => []IInv
BY LoadInit, LoadStep, PTL DEF Spec

(***************************************************************************)
(* Stages and registers keep their types, and no buffer ever holds anything *)
(* but units of the file.                                                   *)
(***************************************************************************)
THEOREM TypeCorrect == Spec => []TypeOK
<1>1. IInv => TypeOK
  BY DEF IInv
<1> QED
  BY <1>1, LoadInvariant, PTL

(***************************************************************************)
(* ping_pong_write burns the file from its beginning, chunk by chunk, for   *)
(* every size of file and chunk.                                            *)
(***************************************************************************)
THEOREM BurnsInOrder == Spec => []ImageInOrder
<1>1. IInv => ImageInOrder
  <2> SUFFICES ASSUME IInv PROVE ImageInOrder
    OBVIOUS
  <2>1. PICK k \in 0 .. num_flash + 1 : BurnedTo(k)
    <3>1. num_flash \in Nat /\ kk \in 0 .. num_flash + 1
      BY Division, BootAssumption DEF num_flash, IInv, TypeOK
    <3>2. CASE Handed(kk)
      BY <3>1, <3>2 DEF Handed
    <3>3. CASE MoreChunks(kk) /\ Handed(kk + 1)
      BY <3>1, <3>3 DEF Handed, MoreChunks
    <3> QED
      BY <3>2, <3>3 DEF IInv, BurnInv
  <2>2. End(k) \in Nat /\ End(k) <= size
    <3>1. num_flash \in Nat /\ size \in Sizes /\ size \in Nat
      BY Division, BootAssumption DEF num_flash, IInv, TypeOK
    <3>2. CASE k = num_flash + 1
      BY <3>1, <3>2 DEF End
    <3>3. CASE k # num_flash + 1
      <4>1. k \in 0 .. num_flash
        BY <3>1, <3>3
      <4> QED
        BY <3>1, <4>1, ChunkEnd
    <3> QED
      BY <3>2, <3>3
  <2> QED
    BY <2>1, <2>2, BootAssumption DEF ImageInOrder, Image, BurnedTo, IInv, TypeOK
<1> QED
  BY <1>1, LoadInvariant, PTL

(***************************************************************************)
(* bl_write_cmd never takes a late answer for the answer to its command,    *)
(* except after a check of the image that was given up.                     *)
(***************************************************************************)
THEOREM NoStaleAnswer == Spec => []AnswerFitsCommand
<1>1. IInv => AnswerFitsCommand
  BY AcceptedAnswer DEF AnswerFitsCommand
<1> QED
  BY <1>1, LoadInvariant, PTL

(***************************************************************************)
(* The device is never told to start an image that is not whole.            *)
(***************************************************************************)
THEOREM StartsGoodImage == Spec => []RunsGoodImage
<1>1. IInv => RunsGoodImage
  BY DEF IInv, StartInv, Trusts, RunsGoodImage
<1> QED
  BY <1>1, LoadInvariant, PTL

(***************************************************************************)
(* device_init reports success only of a device that is loaded.             *)
(***************************************************************************)
THEOREM SuccessIsLoaded == Spec => []SuccessMeansLoaded
<1>1. IInv => SuccessMeansLoaded
  <2> SUFFICES ASSUME IInv, status = "success" PROVE SuccessMeansLoaded
    BY DEF SuccessMeansLoaded
  <2>1. stage = "success"
    BY DEF IInv, PathInv
  <2> QED
    BY <2>1 DEF IInv, StartInv, Pending, SuccessMeansLoaded
<1> QED
  BY <1>1, LoadInvariant, PTL

=============================================================================
