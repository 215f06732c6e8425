------------------------------- MODULE Assets -------------------------------
(***************************************************************************)
(* Loading, bring-up and removal of the protocol modules: struct            *)
(* driver_assets shared by the module loader (module_init and module_exit   *)
(* of the WLAN, Bluetooth and ZigBee modules), the receive worker (card     *)
(* ready frames, deploy_packet_to_assets) and the bus driver (onebox_probe, *)
(* onebox_disconnect).                                                      *)
(*                                                                          *)
(* A protocol is brought up, by its insert function, once its module is     *)
(* loaded AND its firmware has announced itself; whichever comes second     *)
(* calls insert.  No lock covers drv_state, fw_state and the function       *)
(* pointers, so every access to them is a step of its own; only insert runs *)
(* under the protocol's init lock.  Frames other than card-ready frames,    *)
(* and the waiting transmit threads, are the subject of TxAccess.           *)
(***************************************************************************)
EXTENDS Naturals, Sequences

CONSTANTS
  Techs,       \* the protocols whose modules may be loaded
  FwTechs,     \* the protocols of the firmware image, by coex_mode
  MaxProbes,   \* bound on the times the card is probed
  MaxFrames,   \* bound on the card-ready frames waiting in deferred_rx_queue
  Unload,      \* may modules be unloaded?
  Unplug,      \* may the card be removed?
  Faults       \* may insert or the deregister frame fail?

WLAN_ID == 0
BT_ID   == 1
ZB_ID   == 2
MAX_IDS == 3
AllIds  == 0 .. MAX_IDS - 1

(***************************************************************************)
(* coex_mode: WIFI_ALONE, WIFI_BT_CLASSIC and WIFI_BT_LE, WIFI_ZIGBEE.      *)
(***************************************************************************)
CoexModes == {{WLAN_ID}, {WLAN_ID, BT_ID}, {WLAN_ID, ZB_ID}}

ASSUME TechsAssumption == Techs \subseteq AllIds /\ FwTechs \in CoexModes
ASSUME BoundAssumption == MaxProbes \in Nat /\ MaxFrames \in Nat
ASSUME FlagsAssumption == {Unload, Unplug, Faults} \subseteq BOOLEAN

Loader == "loader"   \* the process that runs module_init and module_exit
Worker == "worker"   \* the receive worker
Callers == {Loader, Worker}

VARIABLES
  card_state,           \* "none", "aboard" (GS_CARD_ABOARD), "detach" (GS_CARD_DETACH)
  drv_state,            \* per protocol: "REMOVED", "INSERTED", "ACTIVE"
  fw_state,             \* per protocol: is it FW_ACTIVE?
  hooks,                \* per protocol: are inaugurate and disconnect set?
  priv,                 \* per protocol: does it own an adapter?
  init_lock,            \* per protocol: "free" or the caller in its insert function
  common_hal_fsm,       \* "WAIT_FOR_CARD_READY" or "TX_ACESS"
  common_hal_tx_access,
  wlan_tx_access,       \* techs[WLAN_ID].tx_access
  mod_pc,               \* per protocol: program point of its loader
  rx_pc, rx_id,         \* the worker, and the protocol of the frame it handles
  bus_pc, bus_id,       \* onebox_probe / onebox_disconnect
  rx_queue,             \* card-ready frames in deferred_rx_queue
  announced,            \* firmware: protocols that have sent their card-ready frame
  probes

assetVars == <<drv_state, fw_state, hooks, priv, init_lock>>
halVars   == <<common_hal_fsm, common_hal_tx_access, wlan_tx_access>>
rxVars    == <<rx_pc, rx_id, rx_queue>>
busVars   == <<card_state, bus_pc, bus_id, probes>>
vars      == <<assetVars, halVars, mod_pc, rxVars, busVars, announced>>

(***************************************************************************)
(* onebox_module_init: nothing loaded, no card.                             *)
(***************************************************************************)
Init ==
  /\ card_state = "none"
  /\ drv_state = [p \in Techs |-> "REMOVED"]
  /\ fw_state = [p \in AllIds |-> FALSE]
  /\ hooks = [p \in Techs |-> FALSE]
  /\ priv = [p \in Techs |-> FALSE]
  /\ init_lock = [p \in Techs |-> "free"]
  /\ common_hal_fsm = "WAIT_FOR_CARD_READY"
  /\ common_hal_tx_access = FALSE
  /\ wlan_tx_access = FALSE
  /\ mod_pc = [p \in Techs |-> "out"]
  /\ rx_pc = "idle"
  /\ rx_id = WLAN_ID
  /\ bus_pc = "absent"
  /\ bus_id = 0
  /\ rx_queue = <<>>
  /\ announced = {}
  /\ probes = 0

-----------------------------------------------------------------------------
(***************************************************************************)
(* The insert function, run by caller c for protocol p.                     *)
(***************************************************************************)
At(c, p, point) ==
  IF c = Worker THEN rx_pc = point /\ rx_id = p ELSE mod_pc[p] = point

Goto(c, p, point) ==
  IF c = Worker
  THEN rx_pc' = point /\ UNCHANGED mod_pc
  ELSE mod_pc' = [mod_pc EXCEPT ![p] = point] /\ UNCHANGED rx_pc

Return(c, p) == Goto(c, p, IF c = Worker THEN "idle" ELSE "in")
Unlock(p)    == init_lock' = [init_lock EXCEPT ![p] = "free"]

(***************************************************************************)
(* Mutant: drv_state is not looked at again once the lock is held.          *)
(***************************************************************************)
Bug_InsertLock(c, p) ==
  /\ At(c, p, "lock")
  /\ init_lock[p] = "free"
  /\ init_lock' = [init_lock EXCEPT ![p] = c]
  /\ Goto(c, p, "alloc")
  /\ UNCHANGED <<drv_state, fw_state, hooks, priv, halVars, rx_id, rx_queue, busVars, announced>>

(***************************************************************************)
(* Take the init lock and look at drv_state again.                          *)
(***************************************************************************)
InsertLock(c, p) ==
  /\ At(c, p, "lock")
  /\ init_lock[p] = "free"
  /\ IF drv_state[p] = "ACTIVE"
     THEN Return(c, p) /\ UNCHANGED init_lock
     ELSE Goto(c, p, "alloc") /\ init_lock' = [init_lock EXCEPT ![p] = c]
  /\ UNCHANGED <<drv_state, fw_state, hooks, priv, halVars, rx_id, rx_queue, busVars, announced>>

(***************************************************************************)
(* No memory, no network device, or the core fails to initialise.           *)
(***************************************************************************)
InsertFail(c, p) ==
  /\ At(c, p, "alloc")
  /\ Faults
  /\ priv' = [priv EXCEPT ![p] = FALSE]
  /\ Unlock(p)
  /\ Return(c, p)
  /\ UNCHANGED <<drv_state, fw_state, hooks, halVars, rx_id, rx_queue, busVars, announced>>

(***************************************************************************)
(* The adapter is set up and the module MODULE_ACTIVE.  Bluetooth and       *)
(* ZigBee are done; WLAN keeps the lock and polls for transmit access.      *)
(***************************************************************************)
InsertActive(c, p) ==
  /\ At(c, p, "alloc")
  /\ priv' = [priv EXCEPT ![p] = TRUE]
  /\ drv_state' = [drv_state EXCEPT ![p] = "ACTIVE"]
  /\ IF p = WLAN_ID
     THEN Goto(c, p, "poll") /\ UNCHANGED init_lock
     ELSE Return(c, p) /\ Unlock(p)
  /\ UNCHANGED <<fw_state, hooks, halVars, rx_id, rx_queue, busVars, announced>>

(***************************************************************************)
(* Mutant: wlan_insert returns with wlan_init_lock held.                    *)
(***************************************************************************)
Bug_PollAccess(c) ==
  /\ At(c, WLAN_ID, "poll")
  /\ wlan_tx_access \/ (common_hal_tx_access /\ drv_state[WLAN_ID] # "REMOVED")
  /\ wlan_tx_access' = TRUE
  /\ Return(c, WLAN_ID)
  /\ UNCHANGED <<drv_state, fw_state, hooks, priv, init_lock, common_hal_fsm, common_hal_tx_access,
                 rx_id, rx_queue, busVars, announced>>

(***************************************************************************)
(* The polling loop of wlan_insert.  update_tx_status grants the access if  *)
(* the common HAL has it and the module is not MODULE_REMOVED.  The loop    *)
(* gives up at count > 500; count is a uint8, so it never does, and the     *)
(* timed wait that follows the loop is never reached without access.        *)
(***************************************************************************)
PollAccess(c) ==
  /\ At(c, WLAN_ID, "poll")
  /\ wlan_tx_access \/ (common_hal_tx_access /\ drv_state[WLAN_ID] # "REMOVED")
  /\ wlan_tx_access' = TRUE
  /\ Unlock(WLAN_ID)
  /\ Return(c, WLAN_ID)
  /\ \/ UNCHANGED priv
     \/ Faults /\ priv' = [priv EXCEPT ![WLAN_ID] = FALSE] \* bootup parameters fail to load
  /\ UNCHANGED <<drv_state, fw_state, hooks, common_hal_fsm, common_hal_tx_access,
                 rx_id, rx_queue, busVars, announced>>

-----------------------------------------------------------------------------
(***************************************************************************)
(* module_init: drv_state first, then the function pointers, then the check *)
(* whether card and firmware are there already.                             *)
(***************************************************************************)
ModuleInit(p) ==
  /\ mod_pc[p] = "out"
  /\ drv_state' = [drv_state EXCEPT ![p] = "INSERTED"]
  /\ mod_pc' = [mod_pc EXCEPT ![p] = "hook"]
  /\ UNCHANGED <<fw_state, hooks, priv, init_lock, halVars, rxVars, busVars, announced>>

SetHooks(p) ==
  /\ mod_pc[p] = "hook"
  /\ hooks' = [hooks EXCEPT ![p] = TRUE]
  /\ mod_pc' = [mod_pc EXCEPT ![p] = "check"]
  /\ UNCHANGED <<drv_state, fw_state, priv, init_lock, halVars, rxVars, busVars, announced>>

(***************************************************************************)
(* Mutant: the loader leaves the bring-up to the worker.                    *)
(***************************************************************************)
Bug_CheckCard(p) ==
  /\ mod_pc[p] = "check"
  /\ mod_pc' = [mod_pc EXCEPT ![p] = "in"]
  /\ UNCHANGED <<assetVars, halVars, rxVars, busVars, announced>>

CheckCard(p) ==
  /\ mod_pc[p] = "check"
  /\ mod_pc' = [mod_pc EXCEPT ![p] =
                  IF /\ card_state = "aboard" /\ fw_state[p]
                     /\ p = WLAN_ID => drv_state[p] # "ACTIVE"
                  THEN "lock" ELSE "in"]
  /\ UNCHANGED <<assetVars, halVars, rxVars, busVars, announced>>

(***************************************************************************)
(* module_exit.  ZigBee is MODULE_REMOVED before its remove function runs,  *)
(* the others after it.  Nothing keeps it from running while the worker is  *)
(* in the module's insert function.                                         *)
(***************************************************************************)
ModuleExit(p) ==
  /\ mod_pc[p] = "in"
  /\ Unload
  /\ mod_pc' = [mod_pc EXCEPT ![p] = IF drv_state[p] = "ACTIVE" THEN "remove" ELSE "drop"]
  /\ drv_state' = [drv_state EXCEPT ![p] = IF p = ZB_ID THEN "REMOVED" ELSE @]
  /\ UNCHANGED <<fw_state, hooks, priv, init_lock, halVars, rxVars, busVars, announced>>

(***************************************************************************)
(* bt_remove, zigb_remove, wlan_remove.  While the card is there, the       *)
(* firmware is told with a deregister frame, after which it announces       *)
(* itself again; without transmit access the frame is not sent.  Bluetooth  *)
(* and WLAN ask for the access first, ZigBee may or may not have it.        *)
(***************************************************************************)
Remove(p) ==
  /\ mod_pc[p] = "remove"
  /\ wlan_tx_access' = (wlan_tx_access /\ ~(p = WLAN_ID /\ card_state # "detach"))
  /\ \/ /\ card_state # "detach" /\ common_hal_tx_access
        /\ announced' = announced \ {p}
     \/ /\ card_state = "detach" \/ ~common_hal_tx_access \/ p = ZB_ID \/ Faults
        /\ UNCHANGED announced
  /\ mod_pc' = [mod_pc EXCEPT ![p] = "forget"]
  /\ UNCHANGED <<assetVars, common_hal_fsm, common_hal_tx_access, rxVars, busVars>>

(***************************************************************************)
(* Only then is the protocol FW_INACTIVE and its adapter given up: the      *)
(* firmware may have announced itself again, and the worker dropped that    *)
(* frame, in between.                                                       *)
(***************************************************************************)
Forget(p) ==
  /\ mod_pc[p] = "forget"
  /\ fw_state' = [fw_state EXCEPT ![p] = FALSE]
  /\ priv' = [priv EXCEPT ![p] = FALSE]
  /\ mod_pc' = [mod_pc EXCEPT ![p] = "drop"]
  /\ UNCHANGED <<drv_state, hooks, init_lock, halVars, rxVars, busVars, announced>>

Drop(p) ==
  /\ mod_pc[p] = "drop"
  /\ drv_state' = [drv_state EXCEPT ![p] = "REMOVED"]
  /\ hooks' = [hooks EXCEPT ![p] = FALSE]
  /\ mod_pc' = [mod_pc EXCEPT ![p] = "out"]
  /\ UNCHANGED <<fw_state, priv, init_lock, halVars, rxVars, busVars, announced>>

-----------------------------------------------------------------------------
(***************************************************************************)
(* The worker takes a card-ready frame.  With the card detached it is       *)
(* dropped; with FW_ACTIVE already set it is taken for a data frame, which  *)
(* changes nothing here.                                                    *)
(***************************************************************************)
RxTake ==
  /\ rx_pc = "idle"
  /\ rx_queue # <<>>
  /\ rx_queue' = Tail(rx_queue)
  /\ IF card_state = "detach" \/ fw_state[Head(rx_queue)]
     THEN UNCHANGED <<rx_pc, rx_id>>
     ELSE rx_pc' = "ready" /\ rx_id' = Head(rx_queue)
  /\ UNCHANGED <<assetVars, halVars, mod_pc, busVars, announced>>

RxReady ==
  /\ rx_pc = "ready"
  /\ fw_state' = [fw_state EXCEPT ![rx_id] = TRUE]
  /\ rx_pc' = "config"
  /\ UNCHANGED <<drv_state, hooks, priv, init_lock, halVars, mod_pc, rx_id, rx_queue, busVars, announced>>

AllReady == \A p \in FwTechs : fw_state[p]

(***************************************************************************)
(* Mutant: the last card-ready frame does not open the access.              *)
(***************************************************************************)
Bug_RxConfigNoAccess ==
  /\ rx_pc = "config"
  /\ common_hal_fsm' = IF AllReady THEN "TX_ACESS" ELSE common_hal_fsm
  /\ rx_pc' = "inaugurate"
  /\ UNCHANGED <<assetVars, common_hal_tx_access, wlan_tx_access, mod_pc, rx_id, rx_queue, busVars, announced>>

(***************************************************************************)
(* onebox_update_common_hal_tx_access: once all protocols of the firmware   *)
(* image are ready, the common HAL gets transmit access.                    *)
(***************************************************************************)
RxConfig ==
  /\ rx_pc = "config"
  /\ IF common_hal_fsm = "WAIT_FOR_CARD_READY" /\ AllReady
     THEN common_hal_fsm' = "TX_ACESS" /\ common_hal_tx_access' = TRUE
     ELSE UNCHANGED <<common_hal_fsm, common_hal_tx_access>>
  /\ rx_pc' = "inaugurate"
  /\ UNCHANGED <<assetVars, wlan_tx_access, mod_pc, rx_id, rx_queue, busVars, announced>>

RxInaugurate ==
  /\ rx_pc = "inaugurate"
  /\ rx_pc' = IF rx_id \in Techs /\ drv_state[rx_id] = "INSERTED" /\ hooks[rx_id]
              THEN "lock" ELSE "idle"
  /\ UNCHANGED <<assetVars, halVars, mod_pc, rx_id, rx_queue, busVars, announced>>

-----------------------------------------------------------------------------
(***************************************************************************)
(* onebox_probe: common_hal_init starts the HAL's state machine anew and    *)
(* reinitialises the locks; it resets neither common_hal_tx_access nor the  *)
(* fields of techs.  One step: the interrupt handler is registered last,    *)
(* after card_state, and the loaders look at card_state alone.              *)
(***************************************************************************)
Probe ==
  /\ bus_pc = "absent"
  /\ probes < MaxProbes
  /\ probes' = probes + 1
  /\ common_hal_fsm' = "WAIT_FOR_CARD_READY"
  /\ init_lock' = [p \in Techs |-> "free"]
  /\ card_state' = "aboard"
  /\ bus_pc' = "up"
  /\ announced' = {}
  /\ UNCHANGED <<drv_state, fw_state, hooks, priv, common_hal_tx_access, wlan_tx_access,
                 mod_pc, rxVars, bus_id>>

(***************************************************************************)
(* onebox_disconnect: mark the card detached, remove the active protocols   *)
(* one after the other, wait for the worker and purge its queue.            *)
(***************************************************************************)
Disconnect ==
  /\ bus_pc = "up"
  /\ Unplug
  /\ card_state' = "detach"
  /\ bus_pc' = "assets"
  /\ bus_id' = 0
  /\ UNCHANGED <<assetVars, halVars, mod_pc, rxVars, probes, announced>>

(***************************************************************************)
(* disconnect_assets: one test per protocol, in the order of their ids.     *)
(***************************************************************************)
DisconnectAsset ==
  /\ bus_pc = "assets"
  /\ bus_id < MAX_IDS
  /\ IF bus_id \in Techs /\ drv_state[bus_id] = "ACTIVE"
     THEN /\ drv_state' = [drv_state EXCEPT ![bus_id] = "INSERTED"]
          /\ bus_pc' = "remove"
          /\ UNCHANGED bus_id
     ELSE bus_id' = bus_id + 1 /\ UNCHANGED <<drv_state, bus_pc>>
  /\ UNCHANGED <<card_state, fw_state, hooks, priv, init_lock, halVars, mod_pc, rxVars, probes, announced>>

DisconnectRemove ==
  /\ bus_pc = "remove"
  /\ IF hooks[bus_id]
     THEN /\ fw_state' = [fw_state EXCEPT ![bus_id] = FALSE]
          /\ priv' = [priv EXCEPT ![bus_id] = FALSE]
     ELSE UNCHANGED <<fw_state, priv>>
  /\ bus_pc' = "assets"
  /\ bus_id' = bus_id + 1
  /\ UNCHANGED <<card_state, drv_state, hooks, init_lock, halVars, mod_pc, rxVars, probes, announced>>

DisconnectEnd ==
  /\ bus_pc = "assets"
  /\ bus_id = MAX_IDS
  /\ rx_pc = "idle"
  /\ rx_queue' = <<>>
  /\ bus_pc' = "absent"
  /\ UNCHANGED <<assetVars, halVars, mod_pc, rx_pc, rx_id, card_state, bus_id, probes, announced>>

(***************************************************************************)
(* The firmware (external) announces each protocol of its image once.       *)
(***************************************************************************)
CardReady(p) ==
  /\ bus_pc = "up"
  /\ p \notin announced
  /\ Len(rx_queue) < MaxFrames
  /\ announced' = announced \cup {p}
  /\ rx_queue' = Append(rx_queue, p)
  /\ UNCHANGED <<assetVars, halVars, mod_pc, rx_pc, rx_id, busVars>>

-----------------------------------------------------------------------------
InsertStep(c, p) ==
  \/ InsertLock(c, p)
  \/ InsertFail(c, p)
  \/ InsertActive(c, p)
  \/ p = WLAN_ID /\ PollAccess(c)

LoaderStep(p) ==
  \/ SetHooks(p)
  \/ CheckCard(p)
  \/ InsertStep(Loader, p)
  \/ Remove(p)
  \/ Forget(p)
  \/ Drop(p)

WorkerStep ==
  \/ RxTake
  \/ RxReady
  \/ RxConfig
  \/ RxInaugurate
  \/ \E p \in Techs : InsertStep(Worker, p)

BusStep ==
  \/ DisconnectAsset
  \/ DisconnectRemove
  \/ DisconnectEnd

Next ==
  \/ \E p \in Techs : ModuleInit(p) \/ ModuleExit(p) \/ LoaderStep(p)
  \/ WorkerStep
  \/ Probe
  \/ Disconnect
  \/ BusStep
  \/ \E p \in FwTechs : CardReady(p)

Spec == Init /\ [][Next]_vars

(***************************************************************************)
(* Fairness: the loader, the worker and the bus driver, once started, keep  *)
(* running, and the firmware announces every protocol of its image.  Nobody *)
(* is obliged to load or unload a module or to plug the card.               *)
(***************************************************************************)
Fairness ==
  /\ \A p \in Techs : WF_vars(LoaderStep(p))
  /\ WF_vars(WorkerStep)
  /\ WF_vars(BusStep)
  /\ \A p \in FwTechs : WF_vars(CardReady(p))

FairSpec == Spec /\ Fairness

-----------------------------------------------------------------------------
Fields ==
  /\ card_state \in {"none", "aboard", "detach"}
  /\ drv_state \in [Techs -> {"REMOVED", "INSERTED", "ACTIVE"}]
  /\ fw_state \in [AllIds -> BOOLEAN]
  /\ hooks \in [Techs -> BOOLEAN]
  /\ priv \in [Techs -> BOOLEAN]
  /\ init_lock \in [Techs -> Callers \cup {"free"}]
  /\ common_hal_fsm \in {"WAIT_FOR_CARD_READY", "TX_ACESS"}
  /\ common_hal_tx_access \in BOOLEAN
  /\ wlan_tx_access \in BOOLEAN
  /\ mod_pc \in [Techs -> {"out", "hook", "check", "lock", "alloc", "poll", "in", "remove", "forget", "drop"}]
  /\ rx_pc \in {"idle", "ready", "config", "inaugurate", "lock", "alloc", "poll"}
  /\ rx_id \in AllIds
  /\ bus_pc \in {"absent", "up", "assets", "remove"}
  /\ bus_id \in 0 .. MAX_IDS
  /\ rx_queue \in Seq(FwTechs)
  /\ announced \subseteq FwTechs
  /\ probes \in 0 .. MaxProbes

LockHeld ==
  \A p \in Techs : init_lock[p] # "free" =>
    At(init_lock[p], p, "alloc") \/ At(init_lock[p], p, "poll")

(***************************************************************************)
(* The fields of driver_assets and the program points keep their types, and *)
(* an init lock that is not free belongs to a caller inside the insert      *)
(* function: no return leaves it held.                                      *)
(***************************************************************************)
TypeOK == Fields /\ LockHeld

(***************************************************************************)
(* The loader sets drv_state and the hooks and then reads fw_state, the     *)
(* worker sets fw_state and then reads drv_state and the hooks, without a   *)
(* lock: whatever the interleaving one of them sees the other, so a loaded  *)
(* module whose firmware is up is brought up by one of the two.             *)
(***************************************************************************)
NoLostActivation ==
  \A p \in Techs :
    bus_pc = "up" /\ mod_pc[p] = "in" /\ fw_state[p] /\ rx_pc = "idle"
    => drv_state[p] = "ACTIVE"

(***************************************************************************)
(* Both of them may call insert, but the one that comes second finds the    *)
(* module active under the init lock: no adapter is allocated while the     *)
(* protocol still owns one.                                                 *)
(***************************************************************************)
SingleInsert ==
  \A c \in Callers, p \in Techs : At(c, p, "alloc") => ~priv[p]

(***************************************************************************)
(* onebox_wlan_osd_init.c:521: a WLAN bring-up that is not granted access   *)
(* fails; so it ends, one way or the other.                                 *)
(***************************************************************************)
BringUpEnds ==
  \A c \in Callers : WLAN_ID \in Techs =>
    (At(c, WLAN_ID, "poll") ~> ~At(c, WLAN_ID, "poll"))
=============================================================================
