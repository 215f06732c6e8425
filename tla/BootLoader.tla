----------------------------- MODULE BootLoader -----------------------------
(***************************************************************************)
(* Loading the firmware (device_init and load_fw_thru_sbl): the host writes *)
(* commands into REGIN of the device's boot loader and polls REGOUT for the *)
(* answer until a timer expires; it has the image in flash checked, burns a *)
(* new one through two buffers, or loads one into RAM, and starts it.       *)
(*                                                                          *)
(* An image is the sequence of its units 1 .. size.  The boot loader is     *)
(* external: it may be slow, so that an answer comes after the host has     *)
(* given up, or silent.  With Faults it also refuses commands, transfers    *)
(* fail, and files are missing or do not fit.                               *)
(***************************************************************************)
EXTENDS Integers, Sequences

CONSTANTS
  Modes,   \* the values of fw_load_mode
  Sizes,   \* sizes of the image, in units
  Chunk,   \* FLASH_WRITE_CHUNK_SIZE, in units
  Faults   \* may transfers fail and commands be refused?

ASSUME BootAssumption ==
  /\ Modes \subseteq {"FULL_FLASH_SBL", "FULL_RAM_SBL", "FLASH_RAM_SBL", "FLASH_RAM_NO_SBL"}
  /\ Sizes \subseteq Nat \ {0} /\ Chunk \in Nat \ {0} /\ Faults \in BOOLEAN

VARIABLES
  fw_load_mode, flashing, size,   \* parameters; flashing: burn the boot loader itself
  stage, pc, status, kk,          \* the host: label of load_fw_thru_sbl, point within it
  answer,                         \* regout_val as last read by bl_write_cmd
  bl_timer, bl_timer_expired,     \* is the timer pending? has it expired?
  callback,                       \* is bl_cmd_timer_expired about to run?
  regin, regout,                  \* the two registers
  present, dev_cmd,               \* the device: has it a boot loader, the command in work
  buf, burning, burned, flash, ram, running,  \* its buffers, flash, RAM, what was started
  unanswered                      \* history: the check of the image was given up, not failed

paramVars == <<fw_load_mode, flashing, size, present>>
hostVars  == <<stage, pc, status, kk, answer, unanswered>>
timerVars == <<bl_timer, bl_timer_expired, callback>>
devVars   == <<dev_cmd, burning, burned, flash>>
imageVars == <<buf, ram, running>>
vars      == <<paramVars, hostVars, timerVars, regin, regout, devVars, imageVars>>

None     == "none"
NoAnswer == [cmd |-> None, resp |-> None]
Image    == [i \in 1 .. size |-> i]

BlReq == fw_load_mode # "FLASH_RAM_NO_SBL"

Init ==
  /\ fw_load_mode \in Modes /\ flashing \in BOOLEAN /\ size \in Sizes
  /\ stage = "PROBE" /\ pc = "init" /\ status = None /\ kk = 0 /\ answer = NoAnswer
  /\ bl_timer = FALSE /\ bl_timer_expired = FALSE /\ callback = FALSE
  /\ regin = None /\ regout = NoAnswer
  /\ present \in BOOLEAN /\ dev_cmd = (IF present THEN "BOOT" ELSE None)
  /\ buf = [b \in {"PING", "PONG"} |-> <<>>]
  /\ burning = None /\ burned = <<>> /\ flash \in {"good", "bad"} /\ ram = FALSE
  /\ running = None /\ unanswered = FALSE

-----------------------------------------------------------------------------
(***************************************************************************)
(* The timer.  del_timer does not wait for a callback that already runs.    *)
(***************************************************************************)
(***************************************************************************)
(* Mutant: the timer is initialised and not added.                          *)
(***************************************************************************)
Bug_bl_cmd_start_timer == bl_timer_expired' = FALSE /\ UNCHANGED <<bl_timer, callback>>

bl_cmd_start_timer == bl_timer' = TRUE /\ bl_timer_expired' = FALSE /\ UNCHANGED callback

bl_cmd_stop_timer == bl_timer' = FALSE /\ bl_timer_expired' = FALSE /\ UNCHANGED callback

TimerFires ==
  /\ bl_timer
  /\ bl_timer' = FALSE /\ callback' = TRUE
  /\ UNCHANGED <<paramVars, hostVars, bl_timer_expired, regin, regout, devVars, imageVars>>

bl_cmd_timer_expired ==
  /\ callback
  /\ callback' = FALSE /\ bl_timer_expired' = TRUE
  /\ UNCHANGED <<paramVars, hostVars, bl_timer, regin, regout, devVars, imageVars>>

-----------------------------------------------------------------------------
(***************************************************************************)
(* The chunks of auto_fw_upgrade and the buffers of ping_pong_write.        *)
(***************************************************************************)
num_flash == size \div Chunk

(***************************************************************************)
(* Mutant: the last chunk is as long as the others.                         *)
(***************************************************************************)
Bug_ChunkSize(k) == IF k * Chunk < size THEN Chunk ELSE 0

ChunkSize(k) == IF k # num_flash THEN Chunk ELSE size % Chunk

ChunkUnits(k) == [i \in 1 .. ChunkSize(k) |-> k * Chunk + i]

(***************************************************************************)
(* Mutant: one buffer for all chunks.                                       *)
(***************************************************************************)
Bug_Buffer(k) == "PING"

Buffer(k) == IF k % 2 = 1 THEN "PING" ELSE "PONG"

\* Is there a chunk k for the loop to write?
MoreChunks(k) == k <= num_flash /\ ChunkSize(k) > 0

(***************************************************************************)
(* The command of a stage and the answer it expects.  The other stages are  *)
(* transfers and tests.                                                     *)
(***************************************************************************)
Commands ==
  [AUTO_READ      |-> "CONFIG_AUTO_READ_MODE", CHECK_CRC    |-> "CHECK_CRC",
   POLLING_MODE   |-> "POLLING_MODE",          LOAD_IMAGE   |-> "LOAD_HOSTED_FW",
   JUMP_TO_ZERO   |-> "JUMP_TO_ZERO_PC",       FW_UPGRADE   |-> "BURN_HOSTED_FW",
   BURN_BL        |-> "BURN_BL",               EOF_REACHED  |-> "EOF_REACHED",
   AUTO_READ_MODE |-> "CONFIG_AUTO_READ_MODE", VALID        |-> None]

Cmd(s) == IF s = "VALID" THEN (IF Buffer(kk) = "PING" THEN "PING_VALID" ELSE "PONG_VALID")
          ELSE Commands[s]

Expected(s) ==
  CASE s \in {"AUTO_READ", "CHECK_CRC", "POLLING_MODE", "AUTO_READ_MODE"} -> "CMD_PASS"
    [] s \in {"FW_UPGRADE", "BURN_BL"} -> "SEND_RPS_FILE"
    [] s = "VALID" -> IF Buffer(kk) = "PING" THEN "PONG_AVAIL" ELSE "PING_AVAIL"
    [] s = "EOF_REACHED" -> "FW_LOADING_SUCCESSFUL"
    [] OTHER -> None

StartCommands == {"LOAD_HOSTED_FW", "JUMP_TO_ZERO_PC"}

(***************************************************************************)
(* Where load_fw_thru_sbl, auto_fw_upgrade and load_ta_instructions go when *)
(* a stage succeeds.                                                        *)
(***************************************************************************)
(***************************************************************************)
(* Mutant: a failed upgrade ends in success once the mode is restored.      *)
(***************************************************************************)
Bug_AfterAutoReadMode == IF flashing THEN "VERIFY" ELSE "success"

AfterAutoReadMode == IF flashing THEN "VERIFY" ELSE "fail"

OnSuccess(s) ==
  CASE s = "AUTO_READ"        -> "CAPACITY"
    [] s = "CAPACITY"         -> IF flashing THEN "CALIB_DATA"
                                 ELSE IF fw_load_mode = "FULL_RAM_SBL" THEN "POLLING_MODE"
                                 ELSE "RPS_IMAGE_HEADER"
    [] s = "RPS_IMAGE_HEADER" -> "CHECK_CRC"
    [] s = "CHECK_CRC"        -> "POLLING_MODE"
    [] s = "POLLING_MODE"     -> IF fw_load_mode = "FULL_FLASH_SBL" THEN "LOAD_IMAGE" ELSE "LOAD_PMEMDATA"
    [] s = "LOAD_PMEMDATA"    -> IF BlReq THEN "JUMP_TO_ZERO" ELSE "TA_RESET"
    [] s = "CALIB_DATA"       -> "BURN_BL"
    [] s = "BURN_BL"          -> "GET_SBL"
    [] s \in {"GET_SBL", "FW_UPGRADE"} -> "TESTS"
    [] s = "TESTS"            -> IF MoreChunks(0) THEN "WRITE_CHUNK" ELSE "EOF_REACHED"
    [] s = "WRITE_CHUNK"      -> "VALID"
    [] s = "VALID"            -> IF MoreChunks(kk + 1) THEN "WRITE_CHUNK" ELSE "EOF_REACHED"
    [] s = "EOF_REACHED"      -> IF flashing THEN "AUTO_READ_MODE" ELSE "LOAD_IMAGE"
    [] s = "AUTO_READ_MODE"   -> AfterAutoReadMode
    [] OTHER                  -> "success"

(***************************************************************************)
(* Mutant: an upgrade that failed is started like one that succeeded.       *)
(***************************************************************************)
Bug_OnFailure(s, resp) ==
  CASE s = "CHECK_CRC" -> IF resp = "CMD_FAIL" THEN "FW_UPGRADE" ELSE "POLLING_MODE"
    [] s \in {"TESTS", "WRITE_CHUNK", "VALID", "EOF_REACHED"} -> IF flashing THEN "fail" ELSE "LOAD_IMAGE"
    [] OTHER -> "fail"

\* Any failure of CHECK_CRC but the answer CMD_FAIL counts as a pass.
OnFailure(s, resp) ==
  CASE s = "CHECK_CRC" -> IF resp = "CMD_FAIL" THEN "FW_UPGRADE" ELSE "POLLING_MODE"
    [] s \in {"TESTS", "WRITE_CHUNK", "VALID", "EOF_REACHED"} -> IF flashing THEN "fail" ELSE "AUTO_READ_MODE"
    [] OTHER -> "fail"

(***************************************************************************)
(* Mutant: ping_pong_write and auto_fw_upgrade leave the timer of a failed  *)
(* command to others.                                                       *)
(***************************************************************************)
Bug_StopsTimer == {"CHECK_CRC"}

\* bl_cmd leaves the timer of a failed command running; these callers stop it.
StopsTimer == {"CHECK_CRC", "VALID", "EOF_REACHED"}

Goto(s) == stage' = s /\ pc' = "begin"

Succeed == Goto(OnSuccess(stage)) /\ UNCHANGED unanswered

Fail(resp) ==
  /\ Goto(OnFailure(stage, resp))
  /\ unanswered' = (unanswered \/ (stage = "CHECK_CRC" /\ resp # "CMD_FAIL"))

CommandSucceeds == Succeed /\ bl_cmd_stop_timer

CommandFails(resp) ==
  /\ Fail(resp)
  /\ IF stage \in StopsTimer THEN bl_cmd_stop_timer ELSE UNCHANGED timerVars

-----------------------------------------------------------------------------
(***************************************************************************)
(* device_init waits for the boot loader to announce itself.  A failed read *)
(* returns with the timer running (told apart as "read_failure").           *)
(***************************************************************************)
device_init ==
  /\ pc = "init"
  /\ pc' = "probe"
  /\ bl_cmd_start_timer
  /\ UNCHANGED <<paramVars, stage, status, kk, answer, unanswered, regin, regout, devVars, imageVars>>

Return(s) == pc' = "done" /\ status' = s

Probe ==
  /\ pc = "probe"
  /\ \/ (bl_timer_expired \/ regout.resp # None) /\ pc' = "probe_check" /\ UNCHANGED status
     \/ Faults /\ ~bl_timer_expired /\ Return("read_failure")
  /\ UNCHANGED <<paramVars, stage, kk, answer, unanswered, timerVars, regin, regout, devVars, imageVars>>

ProbeCheck ==
  /\ pc = "probe_check"
  /\ IF bl_timer_expired THEN UNCHANGED timerVars ELSE bl_cmd_stop_timer
  /\ IF bl_timer_expired = BlReq THEN Return("failure") ELSE pc' = "probe_clear" /\ UNCHANGED status
  /\ UNCHANGED <<paramVars, stage, kk, answer, unanswered, regin, regout, devVars, imageVars>>

ProbeClear ==
  /\ pc = "probe_clear"
  /\ \/ /\ regout' = NoAnswer
        /\ Goto(IF BlReq THEN "AUTO_READ" ELSE "LOAD_PMEMDATA")
        /\ UNCHANGED status
     \/ Faults /\ Return("failure") /\ UNCHANGED <<stage, regout>>
  /\ UNCHANGED <<paramVars, kk, answer, unanswered, timerVars, regin, devVars, imageVars>>

(***************************************************************************)
(* Stages that are no command: transfers, tests of the file, verification.  *)
(* The header that RPS_IMAGE_HEADER leaves in the PING buffer is not kept:  *)
(* the buffer is filled again before PING_VALID hands it over.              *)
(***************************************************************************)
Transfer ==
  /\ pc = "begin" /\ stage \notin DOMAIN Commands \cup {"success", "fail"}
  /\ \/ /\ stage = "VERIFY" => flash = "good"
        /\ Succeed
        /\ kk' = IF stage = "TESTS" THEN 0 ELSE kk
        /\ buf' = IF stage = "WRITE_CHUNK" THEN [buf EXCEPT ![Buffer(kk)] = ChunkUnits(kk)] ELSE buf
        /\ ram' = (ram \/ stage = "LOAD_PMEMDATA")
        /\ running' = IF stage = "TA_RESET" THEN "ram" ELSE running
     \/ /\ Faults \/ (stage = "VERIFY" /\ flash # "good")
        /\ Fail(None)
        /\ UNCHANGED <<kk, imageVars>>
  /\ UNCHANGED <<paramVars, status, answer, timerVars, regin, regout, devVars>>

(***************************************************************************)
(* bl_cmd with bl_write_cmd: wait for REGIN, write the command, wait for    *)
(* the answer, invalidate it, compare.  A loop ends when the register is    *)
(* ready or the timer has expired; the timer is looked at once more.        *)
(***************************************************************************)
bl_cmd ==
  /\ pc = "begin" /\ stage \in DOMAIN Commands
  /\ pc' = "regin"
  /\ answer' = NoAnswer
  /\ bl_cmd_start_timer
  /\ UNCHANGED <<paramVars, stage, status, kk, unanswered, regin, regout, devVars, imageVars>>

PollRegin ==
  /\ pc = "regin"
  /\ \/ /\ bl_timer_expired \/ regin = None
        /\ pc' = "regin_check"
        /\ UNCHANGED <<stage, unanswered, timerVars>>
     \/ Faults /\ ~bl_timer_expired /\ CommandFails(None)
  /\ UNCHANGED <<paramVars, status, kk, answer, regin, regout, devVars, imageVars>>

WriteRegin ==
  /\ pc = "regin_check"
  /\ \/ /\ ~bl_timer_expired
        /\ regin' = Cmd(stage)
        /\ IF Cmd(stage) \in StartCommands
           THEN CommandSucceeds
           ELSE pc' = "regout" /\ UNCHANGED <<stage, unanswered, timerVars>>
     \/ /\ bl_timer_expired \/ Faults
        /\ CommandFails(None)
        /\ UNCHANGED regin
  /\ UNCHANGED <<paramVars, status, kk, answer, regout, devVars, imageVars>>

PollRegout ==
  /\ pc = "regout"
  /\ \/ /\ ~bl_timer_expired /\ regout.resp # None
        /\ answer' = regout
        /\ pc' = "regout_check"
        /\ UNCHANGED <<stage, unanswered, timerVars>>
     \/ /\ bl_timer_expired
        /\ pc' = "regout_check"
        /\ UNCHANGED <<stage, unanswered, timerVars, answer>>
     \/ /\ Faults /\ ~bl_timer_expired
        /\ CommandFails(None)
        /\ UNCHANGED answer
  /\ UNCHANGED <<paramVars, status, kk, regin, regout, devVars, imageVars>>

RegoutCheck ==
  /\ pc = "regout_check"
  /\ IF bl_timer_expired THEN CommandFails(None)
     ELSE pc' = "invalidate" /\ UNCHANGED <<stage, unanswered, timerVars>>
  /\ UNCHANGED <<paramVars, status, kk, answer, regin, regout, devVars, imageVars>>

(***************************************************************************)
(* Mutant: the answer is left in the register.                              *)
(***************************************************************************)
Bug_Invalidate == UNCHANGED regout

Invalidate == regout' = NoAnswer

CompareAnswer ==
  /\ pc = "invalidate"
  /\ \/ /\ Invalidate
        /\ IF answer.resp = Expected(stage) THEN CommandSucceeds ELSE CommandFails(answer.resp)
        /\ kk' = IF stage = "VALID" /\ answer.resp = Expected(stage) THEN kk + 1 ELSE kk
     \/ /\ Faults
        /\ CommandFails(answer.resp)
        /\ UNCHANGED <<kk, regout>>
  /\ UNCHANGED <<paramVars, status, answer, regin, devVars, imageVars>>

(***************************************************************************)
(* Mutant: the label fail does not stop the timer.                          *)
(***************************************************************************)
Bug_LeaveLoad == UNCHANGED timerVars

\* The label fail of load_fw_thru_sbl stops the timer.
LeaveLoad == IF stage = "fail" /\ BlReq THEN bl_cmd_stop_timer ELSE UNCHANGED timerVars

load_fw_ends ==
  /\ pc = "begin" /\ stage \in {"success", "fail"}
  /\ Return(IF stage = "success" THEN "success" ELSE "failure")
  /\ LeaveLoad
  /\ UNCHANGED <<paramVars, stage, kk, answer, unanswered, regin, regout, devVars, imageVars>>

-----------------------------------------------------------------------------
(***************************************************************************)
(* The boot loader (external).  It announces itself, takes a command out of *)
(* REGIN, carries it out, and answers.  A filled buffer is burned behind    *)
(* the host's back; the other one is announced as free at once if it is.    *)
(***************************************************************************)
DevTake ==
  /\ dev_cmd = None /\ regin # None /\ present /\ running = None
  /\ dev_cmd' = regin /\ regin' = None
  /\ UNCHANGED <<paramVars, hostVars, timerVars, regout, burning, burned, flash, imageVars>>

DevAnswer(c) ==
  CASE c = "BOOT" -> "VERSION"
    [] c \in {"CONFIG_AUTO_READ_MODE", "POLLING_MODE"} -> "CMD_PASS"
    [] c = "CHECK_CRC" -> IF flash = "good" THEN "CMD_PASS" ELSE "CMD_FAIL"
    [] c \in {"BURN_HOSTED_FW", "BURN_BL"} -> "SEND_RPS_FILE"
    [] c = "PING_VALID" -> "PONG_AVAIL"
    [] c = "PONG_VALID" -> "PING_AVAIL"
    [] OTHER -> "FW_LOADING_SUCCESSFUL"

DevWork ==
  /\ dev_cmd \notin StartCommands \cup {None}
  /\ dev_cmd \in {"PING_VALID", "PONG_VALID", "EOF_REACHED"} => burning = None
  /\ regout' = [cmd |-> dev_cmd, resp |-> DevAnswer(dev_cmd)]
  /\ burning' = CASE dev_cmd = "PING_VALID" -> "PING" [] dev_cmd = "PONG_VALID" -> "PONG" [] OTHER -> burning
  /\ burned' = IF dev_cmd \in {"BURN_HOSTED_FW", "BURN_BL"} THEN <<>> ELSE burned
  /\ flash' = CASE dev_cmd \in {"BURN_HOSTED_FW", "BURN_BL"} -> "bad"
                [] dev_cmd = "EOF_REACHED" -> IF burned = Image THEN "good" ELSE "bad"
                [] OTHER -> flash
  /\ dev_cmd' = None
  /\ UNCHANGED <<paramVars, hostVars, timerVars, regin, imageVars>>

DevRefuse ==
  /\ Faults /\ dev_cmd \notin StartCommands \cup {None, "BOOT"}
  /\ regout' = [cmd |-> dev_cmd, resp |-> "CMD_FAIL"]
  /\ dev_cmd' = None
  /\ UNCHANGED <<paramVars, hostVars, timerVars, regin, burning, burned, flash, imageVars>>

DevBurn ==
  /\ burning # None
  /\ burned' = burned \o buf[burning]
  /\ burning' = None
  /\ UNCHANGED <<paramVars, hostVars, timerVars, regin, regout, dev_cmd, flash, imageVars>>

DevStart ==
  /\ dev_cmd \in StartCommands
  /\ running' = IF dev_cmd = "LOAD_HOSTED_FW" THEN "flash" ELSE "ram"
  /\ dev_cmd' = None
  /\ UNCHANGED <<paramVars, hostVars, timerVars, regin, regout, burning, burned, flash, buf, ram>>

-----------------------------------------------------------------------------
HostStep ==
  \/ device_init
  \/ Probe
  \/ ProbeCheck
  \/ ProbeClear
  \/ Transfer
  \/ bl_cmd
  \/ PollRegin
  \/ WriteRegin
  \/ PollRegout
  \/ RegoutCheck
  \/ CompareAnswer
  \/ load_fw_ends

Next ==
  \/ HostStep
  \/ TimerFires
  \/ bl_cmd_timer_expired
  \/ DevTake
  \/ DevWork
  \/ DevRefuse
  \/ DevBurn
  \/ DevStart

Spec == Init /\ [][Next]_vars

\* A polling loop finds its register not ready and the timer not expired.
Polling ==
  /\ ~bl_timer_expired
  /\ \/ pc \in {"probe", "regout"} /\ regout.resp = None
     \/ pc = "regin" /\ regin # None

(***************************************************************************)
(* The host runs and the kernel's timer expires.  The device is under no    *)
(* obligation, and no failing access need end a polling loop.               *)
(***************************************************************************)
FairSpec ==
  /\ Spec
  /\ WF_vars(~Polling /\ HostStep) /\ WF_vars(TimerFires) /\ WF_vars(bl_cmd_timer_expired)

-----------------------------------------------------------------------------
(***************************************************************************)
(* Stages, registers and timer keep their types, and nothing beyond the end *)
(* of the file is written to the device.                                    *)
(***************************************************************************)
TypeOK ==
  /\ fw_load_mode \in Modes /\ flashing \in BOOLEAN /\ size \in Sizes /\ present \in BOOLEAN
  /\ stage \in DOMAIN Commands \cup
       {"PROBE", "CAPACITY", "RPS_IMAGE_HEADER", "LOAD_PMEMDATA", "TA_RESET", "CALIB_DATA", "GET_SBL",
        "TESTS", "WRITE_CHUNK", "VERIFY", "success", "fail"}
  /\ pc \in {"init", "probe", "probe_check", "probe_clear", "begin", "regin", "regin_check",
             "regout", "regout_check", "invalidate", "done"}
  /\ status \in {None, "success", "failure", "read_failure"} /\ kk \in 0 .. num_flash + 1
  /\ bl_timer \in BOOLEAN /\ bl_timer_expired \in BOOLEAN /\ callback \in BOOLEAN
  /\ \A b \in {"PING", "PONG"} : buf[b] \in Seq(1 .. size)
  /\ burning \in {None, "PING", "PONG"} /\ flash \in {"good", "bad"} /\ ram \in BOOLEAN
  /\ running \in {None, "flash", "ram"} /\ unanswered \in BOOLEAN

(***************************************************************************)
(* The two buffers of ping_pong_write: although the device burns a buffer   *)
(* while the host fills the other one, the flash receives the file from its *)
(* beginning, no chunk left out, repeated or overwritten, wherever a time-  *)
(* out or a failed transfer ends the upgrade.                               *)
(***************************************************************************)
ImageInOrder == Len(burned) <= size /\ \A i \in 1 .. Len(burned) : burned[i] = Image[i]

(***************************************************************************)
(* The answer bl_write_cmd accepts is the answer to its command and not the *)
(* late answer to an earlier one.  The exception is what follows a check of *)
(* the image that was given up: load_fw_thru_sbl goes on, and the answer    *)
(* may still come.                                                          *)
(***************************************************************************)
AnswerFitsCommand ==
  pc = "invalidate" /\ answer.resp = Expected(stage) => answer.cmd = Cmd(stage) \/ unanswered

(***************************************************************************)
(* LOAD_HOSTED_FW and JUMP_TO_ZERO_PC start a whole image, unless the check *)
(* of the one in flash was not answered.                                    *)
(***************************************************************************)
RunsGoodImage ==
  /\ running = "flash" => flash = "good" \/ unanswered
  /\ running = "ram" => ram

(***************************************************************************)
(* device_init reports success only when the device runs or has the command *)
(* to start, or, when the boot loader itself is burned, the flash holds it. *)
(***************************************************************************)
SuccessMeansLoaded ==
  status = "success" =>
    IF flashing /\ BlReq THEN flash = "good"
    ELSE running # None \/ {regin, dev_cmd} \cap StartCommands # {}

(***************************************************************************)
(* The timer lives in the adapter, which a failed probe frees: it is not    *)
(* pending when device_init returns, on whichever path, but for the failed  *)
(* read of REGOUT in its own loop.                                          *)
(***************************************************************************)
TimerStopped == pc = "done" /\ status # "read_failure" => ~bl_timer

(***************************************************************************)
(* The timer is not initialised anew while it is pending, on whichever path *)
(* the command before it failed.                                            *)
(***************************************************************************)
TimerArmedOnce == [][pc # pc' /\ pc' \in {"probe", "regin"} => ~bl_timer]_vars

(***************************************************************************)
(* Every load ends, however silent the device: each wait is bounded by a    *)
(* timer that is running or has expired.                                    *)
(***************************************************************************)
LoadEnds == <>(pc = "done")
=============================================================================
